SPECIFICATION DistributionSpec
CONSTANTS
  FONTANA_VOCAB_SIZE = 2
  FONTANA_CONTEXT_LEN = 3
  Tokens = {2}
  Words = {"elong", "elongated"}
  Kept <- MCKept
  MAX_PARTICLES = 2
  Lifespans <- MCLifespans
PROPERTY
  FocusAlternates
