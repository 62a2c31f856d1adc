SPECIFICATION Spec
CONSTANTS
  MaxWorkers = 2
  Gathers = {g1}
  Stages = {}
  Main = Main
  Root = Root
  Session = Session
  Cap = 2
  Ops = {"cancel", "await", "err", "exit", "panic"}
INVARIANTS NoChildUnclaimed NothingOutlives
PROPERTIES HandleMovesOnward
