\* The sink may exit by itself at any moment.
CONSTANTS
  Ids = {i1}
  Pids = {p1, p2}
  Requests = {r1}
  Main = Main
  None = None
  Foreign = Foreign
  DevEnv = FALSE
  Faults = {"exit"}
SPECIFICATION Spec
PROPERTY FailedStoppingIsUp
