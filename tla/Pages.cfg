SPECIFICATION MCSpec
CONSTANTS
  Callers = {"p1", "p2"}
  MaxCalls = 4
  MaxRestarts = 1
INVARIANTS AnswersAreOwn OnlyLostCallsReorder
  PlaneFollowsConfig TunnelHonest PrefixesDistinct DevicesMatch
  ListMatchesPki ShapingMatches RateBounded StreamSafe
  SavedIsCurrent NoEditUndone
  ExportHonest RateHeld 
CHECK_DEADLOCK FALSE
