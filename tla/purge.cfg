CONSTANTS
  Key <- ABC
  PutKey <- ABC
  CounterKey <- NoKeys
  DeleteKey <- NoKeys
  PurgeKey <- OnlyB
  Rows <- NoRows
  Global <- NoGlobal
  MinSegments = 2
  MaxRecords = 4
  MaxBytes = 100
  HotTtl = 9
  Legacy <- NewStore
  MaxNow = 6
  MaxSegs = 3
SPECIFICATION Spec
INVARIANT PurgeKeepsOthers
