--------------------------- MODULE AgentPipeline ---------------------------
(***************************************************************************)
(* The triage service: the ManagerAgent's process_complaint and            *)
(* rerun_ticket coroutines, the Executor that runs the specialists for     *)
(* them, and the LongTermMemory they share (the ticket row and its audit   *)
(* log).                                                                   *)
(*                                                                         *)
(* One ticket is modelled: coroutines of different tickets share nothing.  *)
(* The coroutines of a ticket are its initial processing and any number of *)
(* manual reruns.  They run on one event loop and interleave at awaits,    *)
(* that is before every agent call; an action is the code from one await   *)
(* to the next.  Two kinds of fault are modelled, bounded by MaxFaults: a  *)
(* restart of the service loses every coroutine, and a database error      *)
(* escapes log_action or is swallowed after save_ticket.                   *)
(***************************************************************************)
EXTENDS Blackboard, FiniteSets

CONSTANTS Process,      \* the coroutine of the initial processing
          Reruns,       \* the coroutines of manual reruns
          MaxRetries,   \* settings.MAX_RETRIES
          MaxFaults     \* bound on restarts and database errors

ASSUME PipelineAssumption ==
  /\ Process \notin Reruns
  /\ MaxRetries \in Nat
  /\ MaxFaults \in Nat

Jobs == {Process} \cup Reruns

VARIABLES
  pc,       \* pc[j]: where coroutine j stands
  in,       \* in[j]: the complaint input of its state
  todo,     \* todo[j]: agents left in the running stage or cascade
  board,    \* board[j]: the blackboard
  retries,  \* retries[j]
  sticky,   \* sticky[j]: state["cross_modal_contradiction"]
  base,     \* base[j]: the ticket a rerun loaded
  row,      \* the ticket row in the database, NoRow when there is none
  log,      \* the audit log
  faults    \* faults so far

jobVars == <<pc, in, todo, board, retries, sticky, base>>
vars == <<pc, in, todo, board, retries, sticky, base, row, log, faults>>

----------------------------------------------------------------------------
(* Types                                                                   *)

Final == {"Submitted", "Rejected", "needs_manual_review"}
Running == {"stage1", "stage2", "cascade", "verify", "audit"}
Ended == {"done", "failed", "lost", "notfound"}
PC == {"idle"} \cup Running \cup Ended

NoRow == [status |-> "absent"]

\* The stored ticket: what rerun_ticket reads back, the evidence verdict
\* kept in agent_thoughts, and how many audit entries its snapshot holds.
Ticket == [status : Final \cup {"processing"}, type : Types \cup {NONE},
           incident : BOOLEAN, workflow : BOOLEAN, contra : BOOLEAN,
           retries : Nat, trail : Nat]

\* A row inserted by log_action to satisfy the foreign key: only the id and
\* the status "processing"; the rest is what .get() makes of it.
Stub == [status |-> "processing", type |-> NONE, incident |-> FALSE,
         workflow |-> TRUE, contra |-> FALSE, retries |-> 0, trail |-> 0]

Entry == [job : Jobs, agent : Agents, attempt : Nat, success : BOOLEAN,
          failed : SUBSET Agents]

NoInput == [image |-> FALSE, sensitive |-> FALSE, text |-> {}]

TypeOK ==
  /\ pc \in [Jobs -> PC]
  /\ in \in [Jobs -> Input]
  /\ todo \in [Jobs -> SUBSET Specialists]
  /\ board \in [Jobs -> Board]
  /\ retries \in [Jobs -> Nat]
  /\ sticky \in [Jobs -> BOOLEAN]
  /\ base \in [Jobs -> Ticket]
  /\ row \in Ticket \cup {NoRow}
  /\ log \in Seq(Entry)
  /\ faults \in 0..MaxFaults

Init ==
  /\ pc = [j \in Jobs |-> "idle"]
  /\ in = [j \in Jobs |-> NoInput]
  /\ todo = [j \in Jobs |-> {}]
  /\ board = [j \in Jobs |-> EmptyBoard]
  /\ retries = [j \in Jobs |-> 0]
  /\ sticky = [j \in Jobs |-> FALSE]
  /\ base = [j \in Jobs |-> Stub]
  /\ row = NoRow
  /\ log = <<>>
  /\ faults = 0

----------------------------------------------------------------------------
(* Audit entries                                                           *)

AgentEntry(j, a, n) ==
  [job |-> j, agent |-> a, attempt |-> n, success |-> TRUE, failed |-> {}]

GateEntry(j, n, v) ==
  [job |-> j, agent |-> "verification", attempt |-> n,
   success |-> Approved(v), failed |-> v.failed]

StageEntries(j, n) ==
  [i \in 1..3 |-> AgentEntry(j, Stages[n][i], 0)]

\* The first log_action of a ticket inserts its stub row.
RowWithStub == IF row = NoRow THEN Stub ELSE row

----------------------------------------------------------------------------
(* process_complaint                                                       *)

Submit ==
  /\ pc[Process] = "idle"
  /\ \E i \in [image : BOOLEAN, sensitive : BOOLEAN, text : Texts] :
       in' = [in EXCEPT ![Process] = i]
  /\ pc' = [pc EXCEPT ![Process] = "stage1"]
  /\ todo' = [todo EXCEPT ![Process] = StageSet(1)]
  /\ UNCHANGED <<board, retries, sticky, base, row, log, faults>>

\* One agent of stage n.  The three entries of the stage are logged once
\* its last agent has returned, before the next await.
RunStage(n, here, next, nextTodo) ==
  /\ pc[Process] = here
  /\ LET a == NextIn(Stages[n], todo[Process])
         rest == todo[Process] \ {a}
     IN /\ \E b \in RunAgent(a, in[Process], board[Process]) :
             board' = [board EXCEPT ![Process] = b]
        /\ IF rest # {}
           THEN /\ todo' = [todo EXCEPT ![Process] = rest]
                /\ UNCHANGED <<pc, row, log>>
           ELSE /\ todo' = [todo EXCEPT ![Process] = nextTodo]
                /\ pc' = [pc EXCEPT ![Process] = next]
                /\ log' = log \o StageEntries(Process, n)
                /\ row' = RowWithStub
  /\ UNCHANGED <<in, retries, sticky, base, faults>>

Stage1 == RunStage(1, "stage1", "stage2", StageSet(2))
Stage2 == RunStage(2, "stage2", "verify", {})

\* Where a retry goes: to the cascade, or straight back to the gate when the
\* cascade is empty.  Mutated form: it waits for agents that never come.
AfterRetryWaits(failed) == "cascade"
AfterRetry(failed) == IF Cascade(failed) = {} THEN "verify" ELSE "cascade"

Retry(j, failed) ==
  /\ retries' = [retries EXCEPT ![j] = @ + 1]
  /\ todo' = [todo EXCEPT ![j] = Cascade(failed)]
  /\ pc' = [pc EXCEPT ![j] = AfterRetry(failed)]

\* Mutated forms: one attempt too many, one too few.
RetriesLeftInclusive(j) == retries[j] <= MaxRetries
RetriesLeftShort(j) == retries[j] + 1 < MaxRetries
RetriesLeft(j) == retries[j] < MaxRetries

RunCascade(j) ==
  /\ pc[j] = "cascade" /\ todo[j] # {}
  /\ LET a == NextIn(PipelineOrder, todo[j])
         rest == todo[j] \ {a}
     IN /\ \E b \in RunAgent(a, in[j], board[j]) :
             board' = [board EXCEPT ![j] = b]
        /\ todo' = [todo EXCEPT ![j] = rest]
        /\ pc' = [pc EXCEPT ![j] = IF rest = {} THEN "verify" ELSE @]
        /\ log' = Append(log, AgentEntry(j, a, retries[j]))
  /\ UNCHANGED <<in, retries, sticky, base, row, faults>>

\* The test that stops the retry loop.  Mutated form: it believes only what
\* the evidence agent flagged.
HaltsOnFlag(b, s, v) == b.evidence.contra
Halts(b, s, v) == b.evidence.contra \/ s \/ v.word

\* The test that decides the final status.
Rejects(b, s, v) ==
  Halts(b, s, v) \/ {"evidence", "verification"} \subseteq v.failed

FinalStatus(b, s, v) ==
  IF Rejects(b, s, v) THEN "Rejected"
  ELSE IF Approved(v) THEN "Submitted" ELSE "needs_manual_review"

\* Rectification imports a module that does not exist, so a ticket that
\* asks for it ends in an exception before anything is saved.
Rectifies(b, s, v) == ~Rejects(b, s, v) /\ b.evidence.mismatch

EndJob(j, how) ==
  /\ pc' = [pc EXCEPT ![j] = how]
  /\ board' = [board EXCEPT ![j] = EmptyBoard]
  /\ UNCHANGED <<todo, retries>>

Fault == faults < MaxFaults /\ faults' = faults + 1

\* The audit trail kept with a ticket is read after the last entry is stored.
\* Mutated form: it is read before.
TrailBeforeGate == Len(log)
TrailLength == Len(log')

\* Reading the audit trail may raise; an error of save_ticket is swallowed
\* and the ticket returned all the same.  Mutated form: insert or ignore.
SaveInsertOnly(t) ==
  EndJob(Process, "done") /\ row' = RowWithStub /\ UNCHANGED faults
Save(t) ==
  \/ EndJob(Process, "done") /\ row' = t /\ UNCHANGED faults
  \/ EndJob(Process, "done") /\ UNCHANGED row /\ Fault
  \/ EndJob(Process, "failed") /\ UNCHANGED row /\ Fault

Conclude(v, s) ==
  LET b == board[Process]
      t == [status |-> FinalStatus(b, s, v), type |-> b.issue.type,
            incident |-> b.incident, workflow |-> b.workflow,
            contra |-> b.evidence.contra, retries |-> retries[Process],
            trail |-> TrailLength]
  IN IF Rectifies(b, s, v)
     THEN EndJob(Process, "failed") /\ UNCHANGED <<row, faults>>
     ELSE Save(t)

Gate ==
  /\ pc[Process] = "verify"
  /\ \E answer \in VerifierAnswers :
       LET b == board[Process]
           v == Verdict(in[Process], b, answer)
           s == sticky[Process] \/ Contradicts(in[Process], b)
       IN /\ log' = Append(log, GateEntry(Process, retries[Process], v))
          /\ sticky' = [sticky EXCEPT ![Process] = s]
          /\ IF ~Approved(v) /\ RetriesLeft(Process) /\ ~Halts(b, s, v)
             THEN /\ Retry(Process, v.failed)
                  /\ UNCHANGED <<board, row, faults>>
             ELSE Conclude(v, s)
  /\ UNCHANGED <<in, base>>

----------------------------------------------------------------------------
(* rerun_ticket                                                            *)

\* The state rebuilt from the stored ticket: no photo, no sensitivity flag,
\* no evidence, and a visual severity of 50.  The description it takes as
\* the text was written by the incident agent.
Load(j) ==
  /\ pc[j] = "idle"
  /\ row # NoRow
  /\ \E t \in Texts :
       in' = [in EXCEPT ![j] =
                [image |-> FALSE, sensitive |-> FALSE, text |-> t]]
  /\ base' = [base EXCEPT ![j] = row]
  /\ board' = [board EXCEPT ![j] =
       [EmptyBoard EXCEPT !.issue    = [sure |-> TRUE, type |-> row.type],
                          !.severity = [high |-> FALSE, visual |-> TRUE],
                          !.incident = row.incident,
                          !.workflow = row.workflow]]
  /\ retries' = [retries EXCEPT ![j] = row.retries]
  /\ pc' = [pc EXCEPT ![j] = "audit"]
  /\ UNCHANGED <<todo, sticky, row, log, faults>>

\* An unknown ticket ends the rerun with a 404.
LoadUnknown(j) ==
  /\ pc[j] = "idle"
  /\ row = NoRow
  /\ pc' = [pc EXCEPT ![j] = "notfound"]
  /\ UNCHANGED <<in, todo, board, retries, sticky, base, row, log, faults>>

\* A rerun knows two outcomes.  Mutated form: it rejects as well.
RerunStatusRejecting(v) ==
  IF Approved(v) THEN "Submitted"
  ELSE IF v.word THEN "Rejected" ELSE "needs_manual_review"
RerunStatus(v) == IF Approved(v) THEN "Submitted" ELSE "needs_manual_review"

\* After a verification, logged or not: another attempt, or save the loaded
\* ticket with the new status and retry count; a database error here escapes.
AfterAudit(j, v) ==
  IF ~Approved(v) /\ RetriesLeft(j)
  THEN /\ Retry(j, v.failed)
       /\ UNCHANGED <<board, row, faults>>
  ELSE \/ /\ EndJob(j, "done")
          /\ row' = [base[j] EXCEPT
                       !.status  = RerunStatus(v),
                       !.retries = retries[j],
                       !.trail   = TrailLength]
          /\ UNCHANGED faults
       \/ EndJob(j, "failed") /\ UNCHANGED row /\ Fault

RerunGate(j, here) ==
  /\ pc[j] = here
  /\ \E answer \in VerifierAnswers :
       LET v == Verdict(in[j], board[j], answer)
       IN /\ log' = IF here = "audit" THEN log
                    ELSE Append(log, GateEntry(j, retries[j], v))
          /\ sticky' = [sticky EXCEPT
                          ![j] = @ \/ Contradicts(in[j], board[j])]
          /\ AfterAudit(j, v)
  /\ UNCHANGED <<in, base>>

Audit(j) == RerunGate(j, "audit")
Reverify(j) == RerunGate(j, "verify")

----------------------------------------------------------------------------
(* Faults                                                                  *)

\* A database error escapes log_action: the coroutine dies with a 500.  Of
\* the entries of a stage a prefix may have been stored.
Logging(j) ==
  \/ pc[j] \in {"cascade", "verify"}
  \/ pc[j] \in {"stage1", "stage2"} /\ Cardinality(todo[j]) = 1

StoreFails(j) ==
  /\ Fault
  /\ Logging(j)
  /\ \/ UNCHANGED <<row, log>>
     \/ /\ pc[j] \in {"stage1", "stage2"}
        /\ \E k \in 1..2 :
             log' = log \o SubSeq(StageEntries(j,
                              IF pc[j] = "stage1" THEN 1 ELSE 2), 1, k)
        /\ row' = RowWithStub
  /\ pc' = [pc EXCEPT ![j] = "failed"]
  /\ board' = [board EXCEPT ![j] = EmptyBoard]
  /\ UNCHANGED <<in, todo, retries, sticky, base>>

\* The service restarts; coroutines are not resumed.
Restart ==
  /\ Fault
  /\ \E j \in Jobs : pc[j] \in Running
  /\ pc' = [j \in Jobs |-> IF pc[j] \in Running THEN "lost" ELSE pc[j]]
  /\ board' = [j \in Jobs |-> EmptyBoard]
  /\ UNCHANGED <<in, todo, retries, sticky, base, row, log>>

----------------------------------------------------------------------------
ProcessStep == Submit \/ Stage1 \/ Stage2 \/ RunCascade(Process) \/ Gate
RerunStep(j) ==
  Load(j) \/ LoadUnknown(j) \/ Audit(j) \/ RunCascade(j) \/ Reverify(j)

Next ==
  \/ ProcessStep
  \/ \E j \in Reruns : RerunStep(j)
  \/ \E j \in Jobs : StoreFails(j)
  \/ Restart

Spec == Init /\ [][Next]_vars

\* The event loop runs every coroutine that is ready, and every await ends:
\* a pause of fixed length, or a model call whose attempts are bounded.
\* Nothing forces a complaint or a rerun to be requested.
Fairness ==
  /\ WF_vars(Stage1 \/ Stage2 \/ RunCascade(Process) \/ Gate)
  /\ \A j \in Reruns : WF_vars(Audit(j) \/ RunCascade(j) \/ Reverify(j))

FairSpec == Spec /\ Fairness
----------------------------------------------------------------------------
(* Properties                                                              *)

EntriesOf(j) == {i \in DOMAIN log : log[i].job = j}
GatesOf(j) == {i \in EntriesOf(j) : log[i].agent = "verification"}

\* The audit log explains every retry: between two verifications of one
\* coroutine stand exactly the agents of the cascade of those the first one
\* failed, in pipeline order, under the attempt number of the second.
AuditReplaysCascade ==
  \A j \in Jobs : \A g, h \in GatesOf(j) :
    LET between == {i \in EntriesOf(j) : g < i /\ i < h}
    IN (g < h /\ between \cap GatesOf(j) = {}) =>
         /\ ~log[g].success
         /\ log[h].attempt = log[g].attempt + 1
         /\ {log[i].agent : i \in between} = Cascade(log[g].failed)
         /\ \A i \in between : log[i].attempt = log[h].attempt
         /\ \A i, k \in between : i < k => Rank[log[i].agent] < Rank[log[k].agent]

\* No run of the loop exceeds its budget of verifications: MaxRetries + 1 for
\* a new complaint, what the stored ticket has left for a rerun.
AttemptsWithinBudget ==
  /\ Cardinality(GatesOf(Process)) <= MaxRetries + 1
  /\ \A j \in Reruns :
       Cardinality(GatesOf(j)) <= IF MaxRetries < base[j].retries THEN 0
                                  ELSE MaxRetries - base[j].retries

\* Two dependences a retry overlooks: evidence is no dependent of the issue it
\* reads, and a cascade does not reach workflow through severity.
Overlooked == {<<"evidence", "issue">>, <<"workflow", "severity">>}

\* Nothing waits for an output to be there or to be current; yet the first
\* verification judges outputs each of which was written after all that its
\* agent reads, and a later one judges no stale output but those of evidence
\* and workflow just named.
GateSeesFreshOutputs ==
  \A j \in Jobs : pc[j] = "verify" =>
    /\ board[j].unread \subseteq Overlooked
    /\ j = Process /\ retries[j] = 0 => board[j].unread = {}

\* A contradiction seen by any verification of the processing is the last
\* word: no agent runs after it and the ticket is not accepted nor queued
\* for review, unless a rerun rewrites it.
ContradictionIsFinal ==
  sticky[Process] =>
    /\ pc[Process] \in Ended
    /\ (\A j \in Reruns : pc[j] # "done") => row.status \in {"processing", "Rejected"}

\* Manual review is the last resort of the processing: all retries used, the
\* last verification failed, and no contradiction in the stored evidence.
ManualReviewIsLastResort ==
  (row.status = "needs_manual_review" /\ \A j \in Reruns : pc[j] # "done") =>
    /\ row.retries = MaxRetries
    /\ ~row.contra
    /\ ~log[row.trail].success

\* The audit trail saved with a ticket ends with the verification that
\* decided it: it succeeded if the ticket is Submitted, and failed if the
\* ticket awaits manual review.
TrailDecidesStatus ==
  row.status \in {"Submitted", "needs_manual_review"} =>
    /\ row.trail \in DOMAIN log
    /\ log[row.trail].agent = "verification"
    /\ log[row.trail].attempt = row.retries
    /\ log[row.trail].success = (row.status = "Submitted")

\* A ticket handed to a caller is stored with a final status, as long as no
\* fault occurred.
ReturnedIsStored ==
  (faults = 0 /\ \E j \in Jobs : pc[j] = "done") => row.status \in Final

\* The service implements the life of a ticket it promises.
Lifecycle == INSTANCE TicketLifecycle
               WITH status <- row.status,
                    open   <- pc[Process] \notin Ended,
                    tries  <- retries[Process]

ImplementsLifecycle == Lifecycle!Spec

\* Every coroutine that started ends.
Termination == \A j \in Jobs : (pc[j] \in Running) ~> (pc[j] \in Ended)

\* What the documentation says and the code does not do; see the findings.

\* Without a fault no coroutine ends in an exception
\* (agent/tests/test_agent.py:198, agent/readme.md:65).
NoCrash == \A j \in Jobs : pc[j] = "failed" => faults > 0

\* A retry reruns all that depends on a rerun agent (agent/readme.md:61-62).
BlackboardFresh == \A j \in Jobs : pc[j] = "verify" => board[j].unread = {}

\* A contradiction is never retried (agent/app/agent/core_agent.py:99-100).
ContradictionNeverRetried ==
  [][row.status = "Rejected" /\ row.contra =>
       \A j \in Jobs : pc'[j] = "cascade" => pc[j] = "cascade"]_vars

\* An approved verification submits the ticket (agent/readme.md:34-36).
ApprovedMeansSubmitted ==
  row.status = "Rejected" => ~log[row.trail].success
=============================================================================
