------------------------------ MODULE Planner ------------------------------
(***************************************************************************)
(* The static plan of the triage service: which specialist agents exist,   *)
(* in which stages they first run, and which of them the retry cascade     *)
(* reruns when the quality gate names one as failed.                       *)
(* Source: agent/app/agent/planner.py, and the two loops of                *)
(* agent/app/agent/core_agent.py that turn failed agents into reruns.      *)
(***************************************************************************)
EXTENDS Integers, Sequences

Specialists ==
  {"issue", "evidence", "severity", "routing", "incident", "workflow"}

\* The names a verdict can list as failed.
Agents == Specialists \cup {"verification"}

\* Mutated form: a pipeline order that runs the workflow agent too early.
PipelineOrderWorkflowFirst ==
  <<"issue", "evidence", "workflow", "severity", "routing", "incident">>

\* The six specialists whose outputs fill the blackboard, in the order in
\* which both the first pass and every cascade execute them.
PipelineOrder ==
  <<"issue", "evidence", "severity", "routing", "incident", "workflow">>

\* The stages before the quality gate.  The executor runs the agents of a
\* stage one after the other, in the order listed.
Stages ==
  << <<"issue", "evidence", "severity">>,
     <<"routing", "incident", "workflow">> >>

StageSet(n) ==
  IF n = 1 THEN {"issue", "evidence", "severity"}
           ELSE {"routing", "incident", "workflow"}

\* Mutated form: a dependent of the severity is forgotten.
DownstreamShort ==
  [issue        |-> {"severity", "routing", "incident", "workflow"},
   evidence     |-> {"severity", "incident"},
   severity     |-> {"workflow"},
   routing      |-> {"incident", "workflow"},
   incident     |-> {},
   workflow     |-> {},
   verification |-> {}]

\* The agents that read the output of a failed one, one step down.
Downstream ==
  [issue        |-> {"severity", "routing", "incident", "workflow"},
   evidence     |-> {"severity", "incident"},
   severity     |-> {"incident", "workflow"},
   routing      |-> {"incident", "workflow"},
   incident     |-> {},
   workflow     |-> {},
   verification |-> {}]

\* Position of a specialist in the topological order the cascade follows.
Rank ==
  [issue |-> 1, evidence |-> 2, severity |-> 3,
   routing |-> 4, incident |-> 5, workflow |-> 6]

\* The failed agents and the direct dependents of each, without the names
\* the pipeline order does not know.
CascadeUnfiltered(failed) ==  \* mutated form: unknown names are kept
  failed \cup UNION {Downstream[a] : a \in failed}
Cascade(failed) ==
  (failed \cup UNION {Downstream[a] : a \in failed}) \cap Specialists

\* The first agent of a list that is still pending.  Mutated form: the last.
NextInReversed(order, todo) ==
  order[CHOOSE i \in DOMAIN order :
          order[i] \in todo /\ \A k \in DOMAIN order : k > i => order[k] \notin todo]
NextIn(order, todo) ==
  order[CHOOSE i \in DOMAIN order :
          order[i] \in todo /\ \A k \in 1..(i - 1) : order[k] \notin todo]

\* What each specialist reads from the blackboard when it runs.
Reads ==
  [issue    |-> {},
   evidence |-> {"issue"},
   severity |-> {"evidence", "issue"},
   routing  |-> {"issue"},
   incident |-> {"issue", "evidence", "severity", "routing"},
   workflow |-> {"severity", "routing"}]

Readers(a) == {x \in Specialists : a \in Reads[x]}
=============================================================================
