----------------------------- MODULE Blackboard -----------------------------
(***************************************************************************)
(* The blackboard of one pipeline run, what a specialist may write to it   *)
(* given what a language model answers, and the rules of the quality gate  *)
(* that judge it.                                                          *)
(*                                                                         *)
(* Abstraction: an output keeps only what a later decision tells apart.    *)
(* A confidence is "at or above the threshold", a grounding score "at      *)
(* least 0.4", a severity "High or Critical", a text or a photo the civic  *)
(* domains its keywords name.  An output holding only an "error" key is    *)
(* what the .get() defaults of its readers make of it.  The field unread   *)
(* is history: no decision of the program depends on it.                   *)
(***************************************************************************)
EXTENDS Planner

CONSTANTS Types,           \* the civic domains (road, water, ...)
          NONE,            \* no domain recognised
          Texts,           \* the sets of domains a complaint text may name
          MayRaise,        \* agents whose run may let an exception escape
          IssueAnswers,    \* what the language model may answer to each agent
          EvidenceAnswers,
          SeverityAnswers,
          RoutingAnswers,
          WorkflowAnswers,
          VerifierAnswers

Input == [image : BOOLEAN, sensitive : BOOLEAN, text : SUBSET Types]

IssueOut    == [sure : BOOLEAN, type : Types \cup {NONE}]
EvidenceOut == [present  : BOOLEAN,             \* evidence is not {}
                contra   : BOOLEAN,             \* text and photo disagree
                mismatch : BOOLEAN,             \* category_mismatch, with a
                                                    \* detected issue
                shows    : Types \cup {NONE},   \* domain of the findings
                grounded : BOOLEAN]
SeverityOut == [high : BOOLEAN, visual : BOOLEAN]

Board == [issue : IssueOut, evidence : EvidenceOut, severity : SeverityOut,
          routing : BOOLEAN,    \* confidence at or above the threshold
          incident : BOOLEAN,   \* has a title and a department
          workflow : BOOLEAN,   \* its SLA is a positive number of hours
          unread : SUBSET (Specialists \X Specialists)]
                                \* <<x, a>>: x has not read the current
                                \* output of a

ASSUME BlackboardAssumption ==
  /\ NONE \notin Types
  /\ Texts \subseteq SUBSET Types
  /\ MayRaise \subseteq Specialists
  /\ IssueAnswers \subseteq IssueOut
  /\ EvidenceAnswers \subseteq EvidenceOut
  /\ \A e \in EvidenceAnswers : e.present
  /\ SeverityAnswers \subseteq SeverityOut
  /\ RoutingAnswers \subseteq BOOLEAN
  /\ WorkflowAnswers \subseteq BOOLEAN
  /\ VerifierAnswers \subseteq [failed : SUBSET Agents, word : BOOLEAN]

----------------------------------------------------------------------------
(* What the specialists write.  Each set holds the outcomes of one run:    *)
(* the model's answer after the agent's own corrections, the fallback when *)
(* the model call or its validation fails, or the executor's error record. *)

ErrorOf(a, dflt) == IF a \in MayRaise THEN {dflt} ELSE {}

\* Two sets of domains that are both recognised and share nothing.
Disjoint(claimed, shown) ==
  claimed # {} /\ shown # {} /\ claimed \cap shown = {}

Claimed(in, issue) == in.text \cup ({issue.type} \cap Types)
Shown(evidence) == {evidence.shows} \cap Types

\* Missing evidence and an issue record without data, as their readers see
\* them through the .get() defaults.
NoIssue == [sure |-> TRUE, type |-> NONE]
NoEvidence == [present |-> FALSE, contra |-> FALSE, mismatch |-> FALSE,
               shows |-> NONE, grounded |-> TRUE]
NoSeverity == [high |-> FALSE, visual |-> FALSE]

IssueRun(in) ==
  IssueAnswers
    \cup {[sure |-> TRUE, type |-> t] :
             t \in IF in.text = {} THEN {NONE} ELSE in.text}
    \cup ErrorOf("issue", NoIssue)

\* The agent overrides an answer whose photo shows none of the claimed
\* domains, and waives the photo of a sensitive complaint.
Guardrail(in, issue, e) ==
  IF in.image /\ ~in.sensitive /\ Disjoint(Claimed(in, issue), Shown(e))
  THEN [e EXCEPT !.contra = TRUE, !.mismatch = TRUE, !.grounded = FALSE]
  ELSE e

Waiver(in, e) ==
  IF in.sensitive /\ ~in.image THEN [e EXCEPT !.grounded = TRUE] ELSE e

EvidenceRun(in, issue) ==
  {Waiver(in, Guardrail(in, issue, e)) : e \in EvidenceAnswers}
    \cup {[NoEvidence EXCEPT !.present = TRUE]}
    \cup ErrorOf("evidence", [NoEvidence EXCEPT !.present = TRUE])

\* Without a photo the visual factor is forced to zero.
SeverityRun(in) ==
  {[s EXCEPT !.visual = @ /\ in.image] : s \in SeverityAnswers}
    \cup {[high |-> FALSE, visual |-> in.image]}
    \cup ErrorOf("severity", NoSeverity)

RoutingRun == RoutingAnswers \cup {TRUE}
IncidentRun == {TRUE} \cup ErrorOf("incident", FALSE)
WorkflowRun == WorkflowAnswers \cup {TRUE} \cup ErrorOf("workflow", FALSE)

\* Agent a has read what it reads; its own output is new to its readers.
Ran(a, b) ==
  [b EXCEPT !.unread = {p \in @ : p[1] # a} \cup {<<x, a>> : x \in Readers(a)}]

\* The boards that running agent a on board b may leave.
RunAgent(a, in, b) ==
  CASE a = "issue"    -> {[Ran(a, b) EXCEPT !.issue = o] : o \in IssueRun(in)}
    [] a = "evidence" -> {[Ran(a, b) EXCEPT !.evidence = o] :
                             o \in EvidenceRun(in, b.issue)}
    [] a = "severity" -> {[Ran(a, b) EXCEPT !.severity = o] : o \in SeverityRun(in)}
    [] a = "routing"  -> {[Ran(a, b) EXCEPT !.routing = o] : o \in RoutingRun}
    [] a = "incident" -> {[Ran(a, b) EXCEPT !.incident = o] : o \in IncidentRun}
    [] a = "workflow" -> {[Ran(a, b) EXCEPT !.workflow = o] : o \in WorkflowRun}

----------------------------------------------------------------------------
(* The quality gate: deterministic rules first, then the model's opinion.  *)

\* Rule 9: evidence flagged as contradictory, or disjoint domains.
Contradicts(in, b) ==
  b.evidence.contra \/ Disjoint(Claimed(in, b.issue), Shown(b.evidence))

\* Rule 8: a consistent photo that shows another category than the claimed.
Misclassified(b) ==
  /\ b.evidence.mismatch
  /\ ~b.evidence.contra
  /\ b.evidence.shows # b.issue.type

\* Rule 4 and rule 5.
Ungrounded(in, b) == b.severity.high /\ ~b.evidence.grounded /\ ~in.sensitive
InventedVisual(in, b) == b.severity.visual /\ ~in.image

ProgrammaticFailures(in, b) ==
  {a \in Agents :
     \/ a = "issue" /\ (~b.issue.sure \/ Misclassified(b))
     \/ a = "evidence" /\ (~b.evidence.present \/ Contradicts(in, b))
     \/ a = "severity" /\ (Ungrounded(in, b) \/ InventedVisual(in, b))
     \/ a = "routing" /\ (~b.routing \/ Misclassified(b))
     \/ a = "incident" /\ ~b.incident
     \/ a = "workflow" /\ ~b.workflow
     \/ a = "verification" /\ Contradicts(in, b)}

\* The merged verdict.  "word": some feedback text holds "contradiction".
\* A model that cannot be reached adds nothing to the rules.
Verdict(in, b, answer) ==
  [failed |-> ProgrammaticFailures(in, b) \cup answer.failed,
   word   |-> answer.word \/ Contradicts(in, b) \/ InventedVisual(in, b)]

Approved(v) == v.failed = {}

EmptyBoard ==
  [issue |-> NoIssue, evidence |-> NoEvidence, severity |-> NoSeverity,
   routing |-> TRUE, incident |-> FALSE, workflow |-> FALSE, unread |-> {}]
=============================================================================
