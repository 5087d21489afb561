SPECIFICATION Spec
CONSTANTS
  a = a
  b = b
  c = c
  h1 = h1
  h2 = h2
  p1 = p1
  p2 = p2
  CLI = CLI
  NoNode = NoNode
  Node = {a}
  Target = {h1}
  NodeDef <- SyncNodes
  Plan = {p1}
  NodeHash <- OneHash
  Options <- Apply
  Parallelism = 2
  StoreMayFail = FALSE
  Commands = {"run", "rollback"}
  MaxRuns = 3
  MaxCrashes = 0
  MaxFaults = 1
PROPERTIES
  RollbackIsOfLastRun
CHECK_DEADLOCK FALSE
