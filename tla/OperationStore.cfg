SPECIFICATION FairSpec
CONSTANTS
  o1 = o1  o2 = o2
  r1 = r1  r2 = r2
  c1 = c1  c2 = c2
  Ops = {o1, o2}
  Requests = {r1, r2}
  Cancels = {c1, c2}
  Hosts = {"h1"}
  Kinds = {"image.pull", "volume.create"}
  TrackedKinds = {"image.pull"}
  SilentKinds = {}
  Keys = {"k1"}
  Reported = {60}
  NoOp = NoOp
  NoKey = NoKey
  NoScope = NoScope
INVARIANT BooksAgree
PROPERTIES ImplementsContract CancelAnswers AbortReleasesCaller
CHECK_DEADLOCK FALSE
