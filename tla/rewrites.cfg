CONSTANTS
  Key <- AllKeys
  PutKey <- ABC
  CounterKey <- OnlyB
  DeleteKey <- OnlyA
  PurgeKey <- OnlyA
  Rows <- PrefixRows
  Global <- NoGlobal
  MinSegments = 2
  MaxRecords = 2
  MaxBytes = 100
  HotTtl = 2
  Legacy <- MCLegacy
  MaxNow = 3
  MaxSegs = 4
SPECIFICATION Spec
INVARIANTS TypeOK RewriteInvisible OnlyExpiredChanges GroomProgress PurgeComplete
PROPERTIES MigrationConverges ReclaimReachesAll ExpiredSegmentsGo
