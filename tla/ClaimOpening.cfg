CONSTANTS
  E1 = E1
  E2 = E2
  Equipment = {E1, E2}
  Reasons = {"COMMUNICATION_LOSS", "MAINTENANCE"}
  Settings = {0, 2}
  MaxTime = 4
  MaxRows = 3
  StaleAfter = 1
  Ahead = 1
SPECIFICATION OeeSpec
CHECK_DEADLOCK FALSE
SYMMETRY SameEquipment
INVARIANT OpensWithFirstReport
