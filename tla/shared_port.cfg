\* Two indexers, created one after the other; nothing fails.
CONSTANTS
  Ids = {i1, i2}
  Pids = {p1, p2}
  Requests = {r1}
  Main = Main
  None = None
  Foreign = Foreign
  DevEnv = FALSE
  Faults = {}
  Askers = {}
  table = table
  Names <- OneName
  Table <- OneTable
SPECIFICATION RuntimeSpec
PROPERTY AnswersForItself
