\* Sinks exit and the service moves to new machines; a pid more than indexers and requests need.
CONSTANTS
  Ids = {i1, i2}
  Pids = {p1, p2, p3}
  Requests = {r1}
  Main = Main
  None = None
  Foreign = Foreign
  DevEnv = FALSE
  Faults = {"exit", "redeploy"}
SPECIFICATION FairSpec
PROPERTIES BootRestarts
