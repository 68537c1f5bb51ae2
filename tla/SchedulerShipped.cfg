SPECIFICATION Spec
CONSTANTS
  N = 2
  BootYields = FALSE
  Registers = 2
  IsrWords = 3
  StackWords = 4
  v1 = v1
  v2 = v2
  Values <- MCValues
PROPERTY
  EveryThreadRuns
