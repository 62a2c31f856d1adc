SPECIFICATION FairSpec
CONSTANTS
  MaxDepth = 3
  MaxTime = 3
  Graces = {1, 2}
  Causes = {2, 5, 6}
  Strikes = 2
INVARIANTS StruckHasInstant PollBetween NestedShieldNeverOutlasts
PROPERTIES ShieldOnlyDelays
CHECK_DEADLOCK FALSE
