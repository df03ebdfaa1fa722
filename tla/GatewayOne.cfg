SPECIFICATION Spec
CONSTANTS
  q1 = q1
  q2 = q2
  q3 = q3
  Requests <- MCRequests
  Workers = {"w1"}
  Groups = {"road", "water"}
  Areas <- MCAreas
  Near <- MCNear
  Statuses <- MCAllStatuses
  FirstTicket = 1050
  FirstIncident = 330
  MaxRestarts = 1
SYMMETRY MCSymmetry
INVARIANTS
  VotesCounted
  ReportsCounted
  OneIncidentPerGroup
CHECK_DEADLOCK FALSE
