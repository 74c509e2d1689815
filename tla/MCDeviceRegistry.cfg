SPECIFICATION Spec
CONSTANTS
  Phones = {p1, p2}
  Accounts = {a1, a2}
  Devices = {d1}
  Blank = blank
  None = none
  Slots = {s1, s2}
  MaxRequests = 3
  MaxRows = 2
SYMMETRY Symmetry
INVARIANTS OwnDevicesOnly RegistryInv ShownIsThere SwitchShowsLight
CHECK_DEADLOCK FALSE
