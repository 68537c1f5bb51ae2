SPECIFICATION MCSpec
CONSTANTS
  N = 2
  BootYields = TRUE
  Registers = 2
  IsrWords = 3
  StackWords = 4
  v1 = v1
  v2 = v2
  Values <- MCValues
  FONTANA_VOCAB_SIZE = 2
  FONTANA_CONTEXT_LEN = 3
  Tokens = {2}
  Words = {"elong", "elongated"}
  Kept <- MCKept
  MAX_PARTICLES = 2
  Lifespans <- MCLifespans
INVARIANTS
  StackHasRoom
  ContextIntact
  RingComplete
  BoundedWaiting
PROPERTIES
  RefinesWindow
  RefinesTrail
  ForwardIsPure
