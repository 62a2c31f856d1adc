SPECIFICATION FairSpec
CONSTANTS
  MaxAgents = 2
  MaxPosts = 2
  Ops = {"Clear", "Surface", "stop", "end", "break", "panic", "dismiss"}
INVARIANTS RestOwesNothing NoticesReachTheirHolder StopIsTheJobs
PROPERTIES DebtsAreAnsweredOnce EverythingEnds
