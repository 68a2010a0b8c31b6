\* No pid is reused while a row or a task names it.
CONSTANTS
  Ids = {i1, i2}
  Pids = {p1, p2, p3}
  Requests = {r1, r2}
  Main = Main
  None = None
  Foreign = Foreign
  DevEnv = FALSE
  Faults = {"exit", "cancel", "crash", "redeploy"}
SPECIFICATION Spec
SYMMETRY Symmetry
INVARIANTS PidsAreOwn StopLeavesNoSink
PROPERTIES SignalsOwnSink
