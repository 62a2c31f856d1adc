SPECIFICATION FairSpec
CONSTANTS
  Deadlines = {d1, d2}
  Recurring = {d1}
  Delays = {0, 1, 2}
  MaxTime = 2
  NoOne = NoOne
INVARIANTS FinalPollIsFinal NeverOversleeps EarlyNeverFires
PROPERTIES DeadlinesConclude
