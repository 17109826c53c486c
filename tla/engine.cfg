CONSTANTS
  Key = {a, c}
  NoRec = NoRec
  CounterKey = {c}
  PutVal = {1}
  IncVal = {1}
  MemMax = 1
  Fault = {"crash", "store"}
  MaxSegSeq = 3
  MaxWalSeq = 2
  MaxCount = 2
  MinBatch = 1
  MaxBatch = 2
  MinRun = 2
  MaxTorn = 3
  MaxUnstored = 1
SPECIFICATION Spec
CONSTRAINT Bounds
INVARIANTS NoDanglingSegment LiveLww DurableLww CounterNeverLost
PROPERTY ImplementsUpsert
