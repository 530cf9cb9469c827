SPECIFICATION Spec
CONSTANTS
  c1 = c1
  c2 = c2
  c3 = c3
  Clients = {c1, c2, c3}
  Hosts <- MCHosts
  Requests <- MCRequests
  Directory <- MCDirectory
  BACKLOG = 2
  LIMIT = 7
INVARIANTS  SurvivesProperClients
PROPERTIES EveryoneAnswered
CHECK_DEADLOCK FALSE
