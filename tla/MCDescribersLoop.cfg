SPECIFICATION Spec
CONSTANTS
  Artifacts = {a, b}
  NoArtifact = NoArtifact
  Runs = {r1, r2}
  TTL = 3
  MaxRun = 2
  MaxChanges = 2
INVARIANT LoopBroken
