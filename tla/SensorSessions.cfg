SPECIFICATION Spec
CONSTANTS
  Periods = {0, 1}
  CMD_SIZE = 3
  BUF_SIZE = 4
  UINT = 8
  Sessions <- MCSessions
INVARIANTS CommandsIntact OnlyOneUnderWay RefusedArgsEnd ShutdownLogged
PROPERTIES ShutsDown ReportsComing
