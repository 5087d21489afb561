SPECIFICATION Spec
CONSTANTS
  a = a
  b = b
  c = c
  h1 = h1
  h2 = h2
  p1 = p1
  p2 = p2
  CLI = CLI
  NoNode = NoNode
  Node = {a, b}
  Target = {h1, h2}
  NodeDef <- ChainNodes
  Plan = {p1}
  NodeHash <- OneHash
  Options <- Resume
  Parallelism = 2
  StoreMayFail = FALSE
  Commands = {"run"}
  MaxRuns = 3
  MaxCrashes = 1
  MaxFaults = 2
INVARIANT
  ResumedOnce
CHECK_DEADLOCK FALSE
