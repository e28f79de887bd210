SPECIFICATION FairStream
CONSTANTS
  HostIds = {"h1", "h2"}
  Kinds = {"container", "image"}
  HistoryLimit = 2
  NotificationLimit = 2
  NoCursor = NoCursor
  MaxEvents = 3
  MaxDrops = 2
  MaxRestarts = 1
  MaxSwitches = 2
INVARIANTS NothingLostOrRepeated StreamIsTheLog ListsAreFresh
PROPERTIES CatchesUp
CHECK_DEADLOCK FALSE
