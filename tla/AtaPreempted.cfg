SPECIFICATION AtaSpec
CONSTANTS
  Worlds = {"w1", "w2"}
  Secret = "secret"
  Noise = "noise"
  Preempts = TRUE
PROPERTY
  SaveIsComplete
