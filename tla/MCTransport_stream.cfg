SPECIFICATION FairSpec
CONSTANTS
  MaxRespawns = 2
  PipeCap = 1
  SpawnOutcomes = {"ok", "throws", "fails", "no_stdin"}
  MaxWrites = 5
INVARIANTS
  TypeOK
  OneShipper
  NoOrphan
  CallbacksKept
  CallbackHasWaker
  FinishedAfterExit
  RespawnIsComing
  PipesEveryChunk
PROPERTIES
  NoRespawnAfterEnd
  WriteIsReleased
  EndCloses
