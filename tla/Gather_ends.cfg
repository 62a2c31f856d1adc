SPECIFICATION TerminatingSpec
CONSTANTS
  MaxWorkers = 2
  Gathers = {g1}
  Stages = {}
  Main = Main
  Root = Root
  Session = Session
  Cap = 2
  Ops = {"await", "race", "err", "interrupt"}
PROPERTY EveryWorkerEnds
