\* One request at a time and one status request; sinks exit, reads fail, other
\* processes take pids, the service moves.
CONSTANTS
  Ids = {i1, i2}
  Pids = {p1, p2, p3}
  Requests = {r1}
  Main = Main
  None = None
  Foreign = Foreign
  DevEnv = FALSE
  Faults = {"read", "exit", "foreign", "redeploy"}
  Askers = {q1}
  table = table
  Names <- OneName
  Table <- OneTable
SPECIFICATION RuntimeSpec
SYMMETRY Symmetry
INVARIANTS RuntimeTypeOK OneSinkPerIndexer StoppedIsDown RunsWholeScript
