SPECIFICATION AtaSpec
CONSTANTS
  Worlds = {"w1", "w2"}
  Secret = "secret"
  Noise = "noise"
  Preempts = FALSE
INVARIANTS
  SavedIsDurable
PROPERTIES
  LoadRestoresSaved
  EchoIsGenuine
  CallsReturn
