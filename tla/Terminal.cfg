CONSTANTS
  MaxRuns = 3
  MaxChunks = 1
SPECIFICATION Spec
CHECK_DEADLOCK FALSE
INVARIANTS RunsEndTold
PROPERTIES ClosedStaysClosed DrawerRecovers
