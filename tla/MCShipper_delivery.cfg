SPECIFICATION Spec
CONSTANTS
  Permits = {p1, p2}
  QueueCap = 2
  MaxBatch = 2
  MaxRetries = 1
  DropPolicy = "newest"
  Compression = "none"
  Statuses = {204, 400, 429, 503}
  SegmentKinds = {"log", "bad", "empty"}
  MaxSegments = 3
  MaxSignals = 0
SYMMETRY PermitSymmetry
INVARIANTS
  EveryLineAccounted
  GracefulExitAddsUp
  StatsAgreeWithLoki
  RetriesBoundDuplicates
PROPERTY ImplementsLogPipe
