SPECIFICATION FairSpec
CONSTANTS
  Rulesets = {r1, r2}
  MaxChanges = 3
  MaxFaults = 0
  MaxCrashes = 0
  Overlap = FALSE
INVARIANT ConfirmedStays
PROPERTIES Implements
