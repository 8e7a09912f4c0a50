CONSTANTS
  Requests = {r1, r2, r3}
  First = First
  NoPair = NoPair
  AccessTTL = 1
  RefreshTTL = 2
  MaxTime = 2
  MaxFlips = 1
  MaxFaults = 1
SPECIFICATION Spec
SYMMETRY Symmetry
CHECK_DEADLOCK FALSE
INVARIANTS
  RotationRevokes
  OneHeir
PROPERTIES
  LoggedOutStaysOut
  LinesEndForCause
  DeactivatedOutInTime
