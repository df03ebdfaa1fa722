SPECIFICATION FairSpec
CONSTANTS
  q1 = q1
  q2 = q2
  q3 = q3
  Requests <- MCTwoRequests
  Workers = {"w1", "w2"}
  Groups = {"road"}
  Areas <- MCOneArea
  Near <- MCOneNear
  Statuses <- MCAllStatuses
  FirstTicket = 1050
  FirstIncident = 330
  MaxRestarts = 2
INVARIANTS
  TypeOK
  ComplaintHasIncident
  SubmissionsStoredOnce
PROPERTY
  RequestsEnd
CHECK_DEADLOCK FALSE
