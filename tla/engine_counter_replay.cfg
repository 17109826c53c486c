CONSTANTS
  Key = {c}
  NoRec = NoRec
  CounterKey = {c}
  PutVal = {1}
  IncVal = {1}
  MemMax = 2
  Fault = {"crash"}
  MaxSegSeq = 3
  MaxWalSeq = 3
  MaxCount = 2
  MinBatch = 1
  MaxBatch = 2
  MinRun = 2
  MaxTorn = 3
  MaxUnstored = 3
SPECIFICATION Spec
CONSTRAINT Bounds
INVARIANTS CounterExactAtRest
