CONSTANTS
  r1 = r1
  r2 = r2
  Sides = {"files"}
  Readers <- TwoReaders
  Starts <- LoneSegment
  Sections = {"dir"}
  CacheCap = 1
  PullCap = 1
  MaxFile = 3
  FileFault = {"kill"}
  MaxFaults = 1
  Hash = {h1}
  Caller = {c1}
  SweepEvery = 2
  BlobFault = {}
SPECIFICATION MCSpec
PROPERTY TicksComplete
