SPECIFICATION Spec
CONSTANTS
  MaxIds = 2
  MaxAsks = 1
  MaxSignals = 1
  Late = TRUE
INVARIANTS BornCancelled
CHECK_DEADLOCK FALSE
