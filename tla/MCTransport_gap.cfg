SPECIFICATION Spec
CONSTANTS
  MaxRespawns = 1
  PipeCap = 1
  SpawnOutcomes = {"ok"}
  MaxWrites = 2
INVARIANT GapIsReported
