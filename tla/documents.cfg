SPECIFICATION Spec
CONSTANTS
  d1 = d1
  d2 = d2
  d3 = d3
  w1 = w1
  w2 = w2
  Docs = {d1, d2, d3}
  Workers = {w1}
  Batch = 2
  Stuck = {d1}
  MaxPuts = 4
  MaxFaults = 1
  FileSizes = {0, 2}
  FilePages = 2
  LifePool = 5
  MonthPool = 4
  OcrLimit = 1
  OcrConfigured = TRUE
  Stale = 1
  MaxMonths = 1
INVARIANTS
  PoolsHold
  ChargedPerRequest
  DoneShowsTheUpload
PROPERTIES
  EveryDocumentSettles
CHECK_DEADLOCK FALSE
