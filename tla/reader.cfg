CONSTANTS
  Key = {a, c}
  NoRec = NoRec
  CounterKey = {c}
  PutVal = {1}
  IncVal = {1}
  MemMax = 1
  Fault = {}
  Retries = 1
  MaxSegSeq = 4
  MaxWalSeq = 2
  MaxCount = 2
  MaxBatch = 1
  MinRun = 2
SPECIFICATION ReadSpec
CONSTRAINT ReadBounds
INVARIANTS FreshOutsideFreeze FailsOnlyUnderChurn CounterNeverLow CounterExactAtRest
