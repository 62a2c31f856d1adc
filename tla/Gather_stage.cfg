SPECIFICATION Spec
CONSTANTS
  MaxWorkers = 2
  Gathers = {g1}
  Stages = {s1}
  Main = Main
  Root = Root
  Session = Session
  Cap = 1
  Ops = {"err", "panic", "catch", "wipe", "terminate"}
INVARIANTS BirthsFindOwnerOpen LiveWithinCap WipeReachesAll
