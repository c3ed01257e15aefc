SPECIFICATION WriterSpec
CONSTANTS
  NodeCount = 3
  EdgeCount = 2
  MinChunk = 1
  InitialChunk = 3
  MaxUpserts = 4
  MaxFaults = 2
INVARIANTS ValidatesWholeGraph ReportIsTrue
PROPERTIES LostIsUntouched UpsertsKeepEdges SessionEnds
CHECK_DEADLOCK FALSE
