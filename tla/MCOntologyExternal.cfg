SPECIFICATION OntologySpec
CONSTANTS
  Threads = {t1, t2}
  NoThread = NoThread
  MaxWrites = 1
  s1 = s1  s2 = s2  s3 = s3  c1 = c1  c2 = c2
  Synsets = {s1, s2, s3}
  Foreign = {s3}
  Surfaces = {c1, c2}
  Surface <- SurfaceOf
  Carried = {c1}
  Batch = 2
  External = TRUE
  MaxIngests = 2  MaxRuns = 3  MaxCrashes = 1
INVARIANTS
  BasisIsTrue
