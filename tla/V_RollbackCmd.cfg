SPECIFICATION Spec
CONSTANTS
  a = a
  b = b
  c = c
  h1 = h1
  h2 = h2
  p1 = p1
  p2 = p2
  CLI = CLI
  NoNode = NoNode
  Node = {a}
  Target = {h1}
  NodeDef <- UndoableExecNodes
  Plan = {p1}
  NodeHash <- OneHash
  Options <- Apply
  Parallelism = 2
  StoreMayFail = FALSE
  Commands = {"run", "rollback"}
  MaxRuns = 2
  MaxCrashes = 0
  MaxFaults = 1
PROPERTIES
  RollbackCmdUndoes
CHECK_DEADLOCK FALSE
