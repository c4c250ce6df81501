SPECIFICATION FairSpec
CONSTANTS
  Leases = {1, 2}
  MaxWrites = 3
  MaxFaults = 0
  MaxStops = 0
  Envs = {"returning"}
PROPERTY RATracksLease
CHECK_DEADLOCK FALSE
