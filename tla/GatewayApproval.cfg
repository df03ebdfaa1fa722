SPECIFICATION Spec
CONSTANTS
  q1 = q1
  q2 = q2
  q3 = q3
  Requests <- MCRequests
  Workers = {"w1"}
  Groups = {"road"}
  Areas <- MCAreas
  Near <- MCNear
  Statuses <- MCStatuses
  FirstTicket = 1050
  FirstIncident = 330
  MaxRestarts = 0
SYMMETRY MCSymmetry
INVARIANT
  OnlyApprovedStored
CHECK_DEADLOCK FALSE
