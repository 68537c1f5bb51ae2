SPECIFICATION MCSpec
CONSTANTS
  MaxFileEntries = 4
  MaxFilenameLen = 3
  MaxPayloadLen = 6
  NoFolder = NoFolder
  Folders = {0, 1, 2, 3}
  Names <- MCNames
  Contents <- MCContents
  Seeds <- MCSeeds
  Lifetime = 4
  Columns = 12
  ClearFrom = 1
  ClearTo = 10
  NameAt = 2
  ContentAt = 8
  EmptyLength = 4
  MessageLength = 6
  Keys <- MCKeys
  FifoSize = 2
  MaxBytes = 4
INVARIANTS
  PressActsOnce
  PressActs
  ShowsActiveFolder
  QueriesAgree
PROPERTIES
  IndexesAreStable
  RefinesCatalog
CHECK_DEADLOCK FALSE
