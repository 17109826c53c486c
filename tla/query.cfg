CONSTANTS
  LABEL_VALUES_CAP = 1
  DICT_MAX = 2
  BLOCK_BITSET_CODES = 1
  BLOCK_ROWS = 2
  LIKE_PREFIX_BUDGET = 1
  CharMax = 9
  Records <- MCRecords
  Deltas <- MCDeltas
  Queries <- MCQueries
  MaxWrites = 3
SPECIFICATION MCSpec
CHECK_DEADLOCK FALSE
INVARIANTS ScanExact TopkStopsSoundly FoldMatchesWalk CountExact GetExact RowsExact PagesExact
  LikeExact LikeConstraintsSound SplitExact RunAdjacent TtlBounds
