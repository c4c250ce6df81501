SPECIFICATION MCSpec
CONSTANTS
  MaxVersion = 3
  Tag <- MCTag
  MaxFaults = 1
  MaxCrashes = 2
  Envs = {"calm", "faulty", "power", "broken", "hasty", "damaged"}
INVARIANTS OnlyReleasesInstalled ConfirmedStays RecoverableByHand
  NoChangeSwallowed
PROPERTIES UnconfirmedReverts RATracksOrderlyLease StopDrains
CHECK_DEADLOCK FALSE
