SPECIFICATION FairSpec
CONSTANTS
  Id = {"a", "b", "c"}
  Inputs <- MCInputs
INVARIANTS TypeOK VerdictRight DegreesMatchEdges VisitedInOrder
PROPERTY Decided
CHECK_DEADLOCK FALSE
