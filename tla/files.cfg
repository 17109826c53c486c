CONSTANTS
  r1 = r1
  r2 = r2
  Sides = {"files", "blobs"}
  Readers <- TwoReaders
  Starts <- MCStarts
  Sections = {"dir"}
  CacheCap = 1
  PullCap = 1
  MaxFile = 3
  FileFault = {"kill", "store", "put"}
  MaxFaults = 2
  Hash = {h1}
  Caller = {c1, c2}
  SweepEvery = 2
  BlobFault = {"crash", "store", "rot"}
SPECIFICATION MCSpec
INVARIANTS
  ReadableSomewhere
  VanishedIsStale
  SectionsOfOneFile
  PulledWhole
  AckedPutKept
PROPERTIES
  CorruptMeansLost
  OrphansGo
  TicksGoOn
