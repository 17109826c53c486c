CONSTANTS
  Key <- OnlyB
  PutKey <- OnlyB
  CounterKey <- OnlyB
  DeleteKey <- NoKeys
  PurgeKey <- NoKeys
  Rows <- NoRows
  Global <- GlobalTtl
  MinSegments = 1
  MaxRecords = 4
  MaxBytes = 100
  HotTtl = 9
  Legacy <- NewStore
  MaxNow = 5
  MaxSegs = 3
SPECIFICATION Spec
INVARIANT ActiveCounterKept
