SPECIFICATION Spec
CONSTANTS
  Hosts = {h1, h2}
  Operators = {inline}
  Specs = {v1}
  ByRef = {}
  Catalog = Catalog
  Other = Other
  Page = 1
  Attempts = 1
  MaxOthers = 0
  MaxDeploys = 0
  MaxCuts = 0
  Both = FALSE
INVARIANTS
  StoredOnce
CHECK_DEADLOCK FALSE
