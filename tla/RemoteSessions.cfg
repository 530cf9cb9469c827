SPECIFICATION Spec
CONSTANTS
  Scenarios <- MCScenarios
  PIPE_CAP = 2
  READ_SIZE = 2
INVARIANTS StreamsIntact TerminalGivenBack LogMatchesTraffic
PROPERTIES EofEndsBoth
CHECK_DEADLOCK FALSE
