SPECIFICATION FairSpec
CONSTANTS
  Names = {x, y}
  MaxAddress = 4
  Envs = {"serial", "overlap"}
  MaxSerial = 4
  MaxOverlap = 3
  MaxFaults = 1
  MaxCrashes = 1
INVARIANTS InvitesDistinct FinalizedIsLive
PROPERTIES ActiveKept ExpiredReaped
CHECK_DEADLOCK FALSE
