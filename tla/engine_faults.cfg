CONSTANTS
  Key = {a, b}
  NoRec = NoRec
  CounterKey = {}
  PutVal = {}
  IncVal = {1}
  MemMax = 2
  Fault = {"crash", "store", "append", "walopen", "unlink", "surplus"}
  MaxSegSeq = 4
  MaxWalSeq = 2
  MaxCount = 2
  MinBatch = 2
  MaxBatch = 2
  MinRun = 1
  MaxTorn = 0
  MaxUnstored = 1
SPECIFICATION Spec
CONSTRAINT Bounds
INVARIANTS TypeOK NoDanglingSegment
SYMMETRY KeySymmetry
