SPECIFICATION Spec
CONSTANTS
  Scenarios <- MCChatty
  PIPE_CAP = 2
  READ_SIZE = 2
PROPERTY LoopBroken
CHECK_DEADLOCK FALSE
