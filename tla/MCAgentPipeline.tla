-------------------------- MODULE MCAgentPipeline --------------------------
(***************************************************************************)
(* Small instances of AgentPipeline.  Two civic domains; each set of       *)
(* answers holds one member per distinction the gate can draw, so that     *)
(* every rule of the gate fires alone and together with others.            *)
(***************************************************************************)
EXTENDS AgentPipeline

MCTypes == {"road", "water"}
MCNone == "none"
MCTexts == {{}, {"road"}}

MCIssueAnswers ==
  {[sure |-> TRUE, type |-> "road"], [sure |-> FALSE, type |-> "water"]}

Evidence(c, m, s, g) ==
  [present |-> TRUE, contra |-> c, mismatch |-> m, shows |-> s, grounded |-> g]

\* Clean, weak, contradictory, and a benign misclick that shows a domain.
MCEvidenceAnswers ==
  {Evidence(FALSE, FALSE, "road", TRUE), Evidence(FALSE, FALSE, "none", FALSE),
   Evidence(TRUE, FALSE, "none", FALSE), Evidence(FALSE, TRUE, "water", TRUE)}

MCSeverityAnswers == {[high |-> TRUE, visual |-> TRUE]}

\* Nothing to add; a worded remark; a single agent; the pair that rejects.
MCVerifierAnswers ==
  {[failed |-> {}, word |-> FALSE], [failed |-> {}, word |-> TRUE],
   [failed |-> {"evidence"}, word |-> FALSE],
   [failed |-> {"evidence", "verification"}, word |-> FALSE]}

\* Fewer answers for the runs that interleave several coroutines; a verdict
\* may name no agent to rerun.
MCOneText == {{"road"}}
MCFewEvidenceAnswers ==
  {Evidence(TRUE, FALSE, "none", FALSE), Evidence(FALSE, TRUE, "water", TRUE)}
MCFewVerifierAnswers ==
  {[failed |-> {}, word |-> FALSE], [failed |-> {"severity"}, word |-> FALSE],
   [failed |-> {"verification"}, word |-> FALSE]}
=============================================================================
