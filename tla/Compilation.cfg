CONSTANTS
  Sources <- MCSources
  Entry = "m"
SPECIFICATION Spec
INVARIANTS AcceptedCompiles TypeSound DispatchesByClass
CHECK_DEADLOCK FALSE
