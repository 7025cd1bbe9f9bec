SPECIFICATION Spec
CONSTANTS
  Permits = {p1}
  QueueCap = 2
  MaxBatch = 1
  MaxRetries = 0
  DropPolicy = "oldest"
  Compression = "none"
  Statuses = {204}
  SegmentKinds = {"log"}
  MaxSegments = 2
  MaxSignals = 0
INVARIANT FinalStatsAddUp
