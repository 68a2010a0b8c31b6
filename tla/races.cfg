\* Two requests race on one indexer while everything goes wrong.
CONSTANTS
  Ids = {i1}
  Pids = {p1, p2, p3}
  Requests = {r1, r2}
  Main = Main
  None = None
  Foreign = Foreign
  DevEnv = FALSE
  Faults = {"read", "write", "spawn", "probe", "sick", "exit", "reuse", "foreign", "cancel", "crash", "redeploy"}
SPECIFICATION Spec
SYMMETRY Symmetry
INVARIANTS TypeOK PidRecorded ScriptStored
PROPERTIES KeepsRegistry
