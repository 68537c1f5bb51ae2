SPECIFICATION MCSpec
CONSTANTS
  HeapStart = 1
  ArenaBytes = 11
  HeaderBytes = 2
  MinPayload = 1
  RequestSizes <- MCRequestSizes
  BitmapBytes = 2
  TotalPages = 10
  ReservedPages = 3
INVARIANTS
  TilesArena
  NullMeansNoFit
  Coalesced
  BitmapAgrees
PROPERTIES
  OperationReturns
  RefinesAllocator
  NullMeansFull
  ReportIsExact
