SPECIFICATION Spec
CONSTANTS
  Names = {x}
  MaxAddress = 3
  Envs = {"serial"}
  MaxSerial = 2
  MaxOverlap = 0
  MaxFaults = 0
  MaxCrashes = 0
INVARIANT TunnelAgrees
CHECK_DEADLOCK FALSE
