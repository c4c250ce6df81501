SPECIFICATION Spec
CONSTANTS
  MaxVersion = 3
  Tag <- MCTag
  MaxFaults = 0
  MaxCrashes = 0
  Envs = {"hasty"}
INVARIANT RollbackArmed
CHECK_DEADLOCK FALSE
