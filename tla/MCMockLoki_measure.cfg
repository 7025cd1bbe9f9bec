SPECIFICATION Spec
CONSTANTS
  t1 = t1
  Tasks = {t1}
  Batches <- MCBatches
  ExtraLabels <- MCExtraLabels
  PropsToLabels <- MCProps
  ReplaceTimestamp = FALSE
  structured_meta_key = "app"
  TsDigits = 5
  NowNs = 99999
  BaseMs = 3
  MaxMs = 10
  U64Max = 15
  MsPerSec = 4
  RetryAfters = {0, 2, 9}
  MaxRetries = 2
  MaxResets = 1
INVARIANTS
  CountersExact
  StreamsKeepBatch
  SameInstantSameTimestamp
  DelayWithinBounds
