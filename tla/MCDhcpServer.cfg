SPECIFICATION Spec
CONSTANTS
  Macs = {m1, m2, m3}
  Half = 4
  DHCPS_MAX_LEASE = 3
  LeaseTime = 2
  MAX_STATION_NUM = 3
  Locals = {3, 6}
  Presented <- MCPresented
INVARIANTS PoolsInv NoDoubleLease OfflineRunsOut
SYMMETRY MCSymmetry
