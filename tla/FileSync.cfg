SPECIFICATION Spec
CONSTANTS
  Path = {"a", "d", "marker"}
  Marker = "marker"
  NoPath = "none"
  Sources <- MCSources
  Dests <- MCDests
  DeleteExtra = TRUE
  MaxApplies = 2
  MaxFaults = 2
  MaxEdits = 1
INVARIANTS TypeOK CopyBeforeChange TornIsReported
PROPERTIES AppliedIsSynced UndoRestores
CHECK_DEADLOCK FALSE
