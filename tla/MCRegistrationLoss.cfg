SPECIFICATION MCSpec
CONSTANTS
  h1 = h1
  h2 = h2
  p1 = p1
  p2 = p2
  p3 = p3
  own = own
  shared = shared
  Hosts = {h1, h2}
  Personas = {p1, p2, p3}
  Types = {own, shared}
  HostOf <- MCHostOf
  Catalog <- MCCatalog
  NoPersona = NoPersona
  Attempts = 2
  MaxRestarts = 1
  MaxDeploys = 1
INVARIANT LossIsAllOrNothing
CHECK_DEADLOCK FALSE
