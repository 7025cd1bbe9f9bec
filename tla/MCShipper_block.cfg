SPECIFICATION FairSpec
CONSTANTS
  Permits = {p1, p2}
  QueueCap = 1
  MaxBatch = 2
  MaxRetries = 0
  DropPolicy = "block"
  Compression = "none"
  Statuses = {204}
  SegmentKinds = {"log"}
  MaxSegments = 3
  MaxSignals = 2
INVARIANTS
  NoLostWakeup
  AdvisorySignal
  ForceStopsIntake
PROPERTIES
  EofLeadsToExit
  ForceLeadsToExit
  BlockedLineMovesOn
  BacklogIsFlushed
  ImplementsLogPipe
