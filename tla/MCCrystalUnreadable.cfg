SPECIFICATION Spec
CONSTANTS
  both = both  out = out  b1 = b1  b2 = b2
  Facets = {both, out}
  Direction <- Directions
  Bands = {b1, b2}
  Unreadable <- Single
  None = None
INVARIANTS
  BeamAccounted
