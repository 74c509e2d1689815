SPECIFICATION Spec
CONSTANTS
  Tunnels = {t1, t2}
  MaxCasts = 2
  MaxAnswers = 2
INVARIANTS
  RoomInv
  TotalsAgree
PROPERTIES
  ClosedLeaves
