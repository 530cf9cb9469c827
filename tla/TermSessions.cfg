SPECIFICATION Spec
CONSTANTS
  Sessions <- MCSessions
  ShellChars = {"y", "^D"}
  MaxOut = 3
  PIPE_CAP = 2
  READ_SIZE = 2
INVARIANTS StreamsIntact RestoredAtExit
PROPERTIES SessionEnds
CHECK_DEADLOCK FALSE
