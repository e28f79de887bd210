SPECIFICATION PolledSpec
CONSTANTS
  Hosts = {"h1"}
  Requests = {"r1", "r2"}
  NoHost = NoHost
  MaxEvents = 1
  MaxOutages = 2
INVARIANTS SecretsHaveHosts HostsAreWatched
PROPERTIES RemovedHostIsQuiet StatusHeals UnwantedWatchersEnd
CHECK_DEADLOCK FALSE
