SPECIFICATION WriteBackSpec
CONSTANTS
  Artifacts = {a, b}
  NoArtifact = NoArtifact
  Runs = {r1, r2}
  TTL = 3
  MaxRun = 1
  MaxChanges = 3
  o1 = o1  s1 = s1  s2 = s2  john = john
  Operators = {o1, o2}
  Specs = {s1, s2}
  People = {john}
  ProcessAuthor = ember
  Outputs = {output}
  Workers = {w1, w2}
  Sweeper = tick
  NoSpec = NoSpec
  NoOperator = NoOperator
  MaxCalls = 3
  MaxVerdicts = 4
INVARIANTS
  TypesOK
  LoopBroken
  OncePerChange
  EvidenceIsObserved
  ArchivedWasRefuted
  SelectSpares
PROPERTIES
  ComesToRest
  AloneLosesNothing
  FinallyRetired
