SPECIFICATION Spec
CONSTANTS
  Permits = {p1}
  QueueCap = 1
  MaxBatch = 1
  MaxRetries = 0
  DropPolicy = "oldest"
  Compression = "none"
  Statuses = {204}
  SegmentKinds = {"log"}
  MaxSegments = 4
  MaxSignals = 0
INVARIANT WholeQueueBounded
