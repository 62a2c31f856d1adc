SPECIFICATION FairSpec
CONSTANTS
  MaxIds = 2
  MaxAsks = 1
  MaxSignals = 1
  Late = FALSE
INVARIANTS SeversFirst BusyOnlyAfterAbandon NothingStaysParked BornCancelled EndIsClean
PROPERTIES KeepsPromise WaitsConclude
CHECK_DEADLOCK FALSE
