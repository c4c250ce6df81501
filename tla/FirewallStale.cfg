SPECIFICATION Spec
CONSTANTS
  Rulesets = {r1, r2}
  MaxChanges = 2
  MaxFaults = 0
  MaxCrashes = 0
  Overlap = TRUE
INVARIANT ConfirmedStays
