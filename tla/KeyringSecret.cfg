SPECIFICATION Spec
CONSTANTS
  Key = {"k1","k2"}
  Process = {"p1"}
  MaxCommands = 4
  MaxCrashes = 0
CHECK_DEADLOCK FALSE
INVARIANTS SecretsSurvive
