SPECIFICATION EdgeFairSpec
CONSTANTS
  a = a  b = b
  Uuids = {a, b}
  Lookups = {l1, l2}
  NoUuid = NoUuid
  Interval = 2
  Backoff = 1
  Nobody = Nobody
  Elsewhere = Elsewhere
  Slug <- SlugOf
  Configs <- Rosters
  Hosts <- Labels
  Paths <- Requests
  Assets <- Files
INVARIANTS
  TypesOK
  PersonaReached
  RoutedHome
PROPERTIES
  EventuallyKnown
