CONSTANTS
  Key = {a}
  NoRec = NoRec
  CounterKey = {}
  PutVal = {1}
  IncVal = {1}
  MemMax = 2
  Fault = {}
  Retries = 1
  MaxSegSeq = 2
  MaxWalSeq = 2
  MaxCount = 2
  MaxBatch = 1
  MinRun = 2
SPECIFICATION ReadSpec
CONSTRAINT ReadBounds
INVARIANTS Fresh
