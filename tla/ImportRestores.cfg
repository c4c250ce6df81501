SPECIFICATION Spec
CONSTANTS
  Requests = {"p1"}
  Configs = {"c", "d"}
  Keys = {"k"}
  MaxDepth = 2
  Envs <- MCEnvs
INVARIANT ImportRestores
CHECK_DEADLOCK FALSE
