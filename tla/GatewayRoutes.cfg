CONSTANTS
  h1 = h1
  h2 = h2
  Requests = {r1, r2}
  Hosts = {h1, h2}
  Clusters = {c1}
  Users <- MCUsers
  NoKey = NoKey
  SomeKey = SomeKey
  NoTarget = NoTarget
SPECIFICATION Spec
CHECK_DEADLOCK FALSE
SYMMETRY Symmetry
INVARIANTS
  OnlyTheEntitledAct
  ChangesAreAudited
  SuccessAuditIsExact
  ClusterSecretsAccounted
