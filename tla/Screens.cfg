SPECIFICATION FairScreens
CONSTANTS
  Hosts <- MCHosts
  Slots = {1}
  None = none
  Role = "admin"
INVARIANTS
  RowsReachTheirHost
  AnswersFindTheirDialog
  ListsFollowMutations
PROPERTY DialogsRecover
CHECK_DEADLOCK FALSE
