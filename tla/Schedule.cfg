SPECIFICATION Spec
CONSTANTS
  a = a
  b = b
  c = c
  h1 = h1
  h2 = h2
  p1 = p1
  p2 = p2
  CLI = CLI
  NoNode = NoNode
  Node = {a, b, c}
  Target = {h1, h2}
  NodeDef <- JoinNodes
  Plan = {p1}
  NodeHash <- OneHash
  Options <- Apply
  Parallelism = 2
  StoreMayFail = FALSE
  Commands = {"run"}
  MaxRuns = 1
  MaxCrashes = 0
  MaxFaults = 1
INVARIANTS
  TypeOK
  SlotsBalanced
  DependenciesFirst
  InDegreeCounts
  VerdictMatchesPairs
  LeavesNothingBehind
  WhenHolds
  SkipHasCause
PROPERTIES
  ImplementsPlanExecution
CHECK_DEADLOCK FALSE
