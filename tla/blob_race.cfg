CONSTANTS
  r1 = r1
  r2 = r2
  Sides = {"blobs"}
  Readers <- TwoReaders
  Starts <- LoneSegment
  Sections = {"dir"}
  CacheCap = 1
  PullCap = 1
  MaxFile = 3
  FileFault = {}
  MaxFaults = 0
  Hash = {h1}
  Caller = {c1, c2}
  SweepEvery = 2
  BlobFault = {}
SPECIFICATION MCSpec
INVARIANT ListedHasFile
