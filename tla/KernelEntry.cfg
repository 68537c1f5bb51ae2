SPECIFICATION MCSpec
CONSTANTS
  Keys = {k1, k2}
  FifoSize = 2
  MaxPulses = 3
  MaxKeys = 3
  MaxCommands = 1
  Contents = {"this", "that"}
  Bytes = {30, 158}
  Columns = 4
  Rows = 4
  FirstRow = 1
  BufferSize = 4
  Letters <- MCLetters
  ReplyLengths <- MCReplyLengths
  UnknownLength = 3
  ClearLine <- MCClearLine
  DiskLine <- MCDiskLine
  DiskLengths <- MCDiskLengths
INVARIANTS
  NoNesting
  NoStrayInterrupt
  MatrixIsTrue
  CallIsTransparent
  CursorFollowsLine
  EchoIsBuffer
PROPERTIES
  KeysAreHandled
  TimerKeepsTicking
