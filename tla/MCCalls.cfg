SPECIFICATION CallsSpec
CONSTANTS
  Users = {u1, u2}
  Sessions = {s1, s2}
  Requests = {r1, r2}
  NoUser = NoUser
  NoSession = NoSession
  Hosts = {h1}
  Operators = {inline, byref}
  Specs = {v1, v2}
  ByRef = {byref}
  Catalog = Catalog
  Other = Other
  Page = 2
  Attempts = 2
  MaxOthers = 2
  MaxDeploys = 1
  MaxCuts = 1
  Both = FALSE
  out = out
  Facets = {both, out}
  Bands = {b1, b2}
  None = None
INVARIANTS
  TypesOK
  IndexAgrees
  PendingOwned
  NoOrphan
  StoredOnce
  PushedIsStored
  BeamAccounted
  ScreenHears
PROPERTIES
  KeepsPromise
  EveryRequestEnds
  PushEnds
CHECK_DEADLOCK FALSE
