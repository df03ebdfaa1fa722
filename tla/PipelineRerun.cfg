SPECIFICATION FairSpec
CONSTANTS
  Types <- MCTypes
  NONE <- MCNone
  MayRaise = {"routing"}
  Process = "p"
  Texts <- MCOneText
  IssueAnswers = {}
  EvidenceAnswers <- MCFewEvidenceAnswers
  SeverityAnswers = {}
  RoutingAnswers = {}
  WorkflowAnswers = {}
  VerifierAnswers <- MCFewVerifierAnswers
  Reruns = {"r"}
  MaxRetries = 1
  MaxFaults = 1
INVARIANTS
  AttemptsWithinBudget
  ReturnedIsStored
PROPERTIES
  ImplementsLifecycle
  Termination
CHECK_DEADLOCK FALSE
