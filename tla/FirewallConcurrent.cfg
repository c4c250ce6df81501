SPECIFICATION FairSpec
CONSTANTS
  Rulesets = {r1, r2}
  MaxChanges = 2
  MaxFaults = 1
  MaxCrashes = 1
  Overlap = TRUE
INVARIANTS PendingGuarded PendingIsNewest
PROPERTIES CallsReturn RevertsUnlessConfirmed
