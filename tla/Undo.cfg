SPECIFICATION Spec
CONSTANTS
  a = a
  b = b
  c = c
  h1 = h1
  h2 = h2
  p1 = p1
  p2 = p2
  CLI = CLI
  NoNode = NoNode
  Node = {a, b, c}
  Target = {h1}
  NodeDef <- UndoNodes
  Plan = {p1}
  NodeHash <- OneHash
  Options <- DryRunOrApply
  Parallelism = 2
  StoreMayFail = TRUE
  Commands = {"run", "rollback"}
  MaxRuns = 2
  MaxCrashes = 1
  MaxFaults = 1
INVARIANTS
  LogIsHonest
PROPERTIES
  DependantsUndoneFirst
CHECK_DEADLOCK FALSE
