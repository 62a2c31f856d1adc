SPECIFICATION FairSpec
CONSTANTS
  MaxWorkers = 2
  Gathers = {}
  Stages = {}
  Main = Main
  Root = Root
  Session = Session
  Cap = 2
  Ops = {"cancel", "await", "terminate"}
PROPERTIES StopsReachAll
