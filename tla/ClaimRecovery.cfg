CONSTANTS
  None = None
  e1 = e1
  e2 = e2
  Equipment = {e1, e2}
  Timeout = 2
  Interval = 1
  MaxCrashes = 1
SPECIFICATION Spec
INVARIANTS
  RecoveryResolvesAlarm
