SPECIFICATION Spec
CONSTANTS
  Types <- MCTypes
  NONE <- MCNone
  MayRaise = {"routing"}
  Process = "p"
  Texts <- MCTexts
  IssueAnswers <- MCIssueAnswers
  EvidenceAnswers <- MCEvidenceAnswers
  SeverityAnswers <- MCSeverityAnswers
  VerifierAnswers <- MCVerifierAnswers
  Reruns = {}
  RoutingAnswers = {FALSE}
  WorkflowAnswers = {FALSE}
  MaxRetries = 2
  MaxFaults = 1
INVARIANTS
  TypeOK
  ContradictionIsFinal
  ManualReviewIsLastResort
  TrailDecidesStatus
  AuditReplaysCascade
  GateSeesFreshOutputs
CHECK_DEADLOCK FALSE
