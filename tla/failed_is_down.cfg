\* The status server answers other than 1.
CONSTANTS
  Ids = {i1}
  Pids = {p1, p2}
  Requests = {r1}
  Main = Main
  None = None
  Foreign = Foreign
  DevEnv = FALSE
  Faults = {"sick"}
SPECIFICATION Spec
INVARIANT FailedIsDown
