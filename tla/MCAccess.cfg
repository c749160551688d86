SPECIFICATION AccessSpec
CONSTANTS
  o1 = o1  o2 = o2  shared = shared  mineTool = mineTool
  Callers = {c1}
  Operators = {o1, o2}
  GateTools = {shared, mineTool}
  Runs <- MCRuns
  Personal = {mineTool}
  Checks = {k1, k2}
  NoCaller = NoCaller
  NoTool = NoTool
  TTL = 3
  MaxLatency = 2
  MaxEntries = 0
  MaxTime = 5
  root = root  coll = coll  text = text  card = card  note = note  plain = plain
  a1 = a1  lumen = lumen  aria = aria  iris = iris  t1 = t1  t2 = t2  mine = mine
  ContentTypes = {root, coll, text, card, note, plain}
  Root = root
  Category <- MCCategory
  NoType = NoType
  Builtin <- MCBuiltin
  MaxDepth = 2
  OpNames = {"create", "read", "update", "invoke"}
  Servers = {lumen, aria, iris}
  BuiltinServer = crystal
  NoServer = NoServer
  Grants = {"read", "update", "invoke"}
  Artifacts = {a1}
  TypeOf <- MCTypeOf
  Builds <- MCBuilds
  Added = {mine}
  Relay = iris
  RelayTool = relayTool
  Tools = {t1, t2}
  OfferedTools <- MCOffered
  NoArtifact = NoArtifact
  Attempts = 2
  MaxRegistrations = 2
  MaxRegrants = 2
SYMMETRY MCSymmetry
CONSTRAINT Apart
INVARIANTS
  TypesOK
  WithdrawalReaches
  GrantReaches
  Authorised
  AsDeclared
  OperationsAgree
  PublishedUnlessRaced
