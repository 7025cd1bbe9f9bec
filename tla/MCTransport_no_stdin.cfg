SPECIFICATION Spec
CONSTANTS
  MaxRespawns = 1
  PipeCap = 1
  SpawnOutcomes = {"ok", "no_stdin"}
  MaxWrites = 2
INVARIANT RespawnNeverThrows
