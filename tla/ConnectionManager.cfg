SPECIFICATION FairSpec
CONSTANTS
  c1 = c1  c2 = c2
  socket = socket  remote = remote
  Endpoints = {socket, remote}
  Http = {remote}
  NeedsTls = {remote}
  PlainRemote = {}
  Calls = {c1, c2}
  Boot = Boot
  NoCall = NoCall
  NoTarget = NoTarget
  Seed = NoTarget
  MaxLaunches = 2
INVARIANTS OverlapsAreSafe TlsOnlyForEngines WrapperIsTheOneOffered ChoiceIsDurable
PROPERTIES GatewayStaysGateway CallsAreAnswered
CHECK_DEADLOCK FALSE
