SPECIFICATION Spec
CONSTANTS
  Permits = {p1}
  QueueCap = 6
  MaxBatch = 2
  MaxRetries = 0
  DropPolicy = "oldest"
  Compression = "gzip"
  Statuses = {204}
  SegmentKinds = {"log"}
  MaxSegments = 7
  MaxSignals = 0
INVARIANTS
  TypeOK
  QueueLenExact
  BatchesCapped
  QueueBounded
  QueueInOrder
PROPERTIES
  EvictsOldest
  ImplementsLogPipe
