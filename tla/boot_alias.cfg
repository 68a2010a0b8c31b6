\* The service moves to a machine whose pids start over.
CONSTANTS
  Ids = {i1, i2}
  Pids = {p1, p2, p3}
  Requests = {r1}
  Main = Main
  None = None
  Foreign = Foreign
  DevEnv = FALSE
  Faults = {"redeploy", "reuse"}
SPECIFICATION Spec
PROPERTY BootLeavesNoneLost
