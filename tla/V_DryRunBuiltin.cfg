SPECIFICATION Spec
CONSTANTS
  a = a
  b = b
  c = c
  h1 = h1
  h2 = h2
  p1 = p1
  p2 = p2
  CLI = CLI
  NoNode = NoNode
  Node = {a}
  Target = {h1}
  NodeDef <- BuiltinNodes
  Plan = {p1}
  NodeHash <- OneHash
  Options <- DryRun
  Parallelism = 2
  StoreMayFail = FALSE
  Commands = {"run"}
  MaxRuns = 1
  MaxCrashes = 0
  MaxFaults = 1
PROPERTIES
  ReadOnlyIsInert
CHECK_DEADLOCK FALSE
