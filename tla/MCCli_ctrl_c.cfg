SPECIFICATION CliSpec
CONSTANTS
  Permits = {p1}
  QueueCap = 1
  MaxBatch = 1
  MaxRetries = 0
  DropPolicy = "block"
  Compression = "none"
  Statuses = {204}
  SegmentKinds = {"log"}
  MaxSegments = 2
  MaxSignals = 2
  MaxSent = 1
INVARIANT OneSignalIsAdvisory
