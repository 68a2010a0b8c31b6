\* One request at a time, everything may go wrong.
CONSTANTS
  Ids = {i1, i2}
  Pids = {p1, p2}
  Requests = {r1}
  Main = Main
  None = None
  Foreign = Foreign
  DevEnv = FALSE
  Faults = {"read", "write", "spawn", "probe", "sick", "exit", "reuse", "foreign", "cancel", "crash", "redeploy"}
SPECIFICATION Spec
SYMMETRY Symmetry
PROPERTIES KeepsStrictRegistry
