SPECIFICATION StreamSpec
CONSTANTS
  HostIds = {"h1", "h2"}
  Kinds = {"container", "image"}
  HistoryLimit = 2
  NotificationLimit = 2
  NoCursor = NoCursor
  MaxEvents = 4
  MaxDrops = 1
  MaxRestarts = 0
  MaxSwitches = 0
INVARIANTS GapMeansSnapshot
CHECK_DEADLOCK FALSE
