SPECIFICATION FairSpec
CONSTANTS
  Listeners = {l1}
  Reaper = Reaper
  Roots = {5, 6}
  MaxInterrupts = 2
INVARIANTS SignalsAreOnesOwn GoneIsQuiet
PROPERTIES SignalsReachListeners
