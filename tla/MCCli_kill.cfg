SPECIFICATION CliFairSpec
CONSTANTS
  Permits = {p1}
  QueueCap = 1
  MaxBatch = 1
  MaxRetries = 0
  DropPolicy = "block"
  Compression = "none"
  Statuses = {204}
  SegmentKinds = {"log"}
  MaxSegments = 2
  MaxSignals = 3
  MaxSent = 2
INVARIANTS
  ExitZeroMeansDrained
  SignalsAddUp
  OneKillIsAdvisory
PROPERTIES
  RepeatedKillEnds
  EofEndsBoth
