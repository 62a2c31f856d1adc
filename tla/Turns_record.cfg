SPECIFICATION Spec
CONSTANTS
  Sizes = {2}
  MaxTurns = 4
  MaxLog = 4
INVARIANTS LiveRecordsAdmitted InStep RequestIsLegal ForkAgrees NothingIsLost SentIsKept
CHECK_DEADLOCK FALSE
