------------------------ MODULE AgentPipelineProofs ------------------------
(***************************************************************************)
(* Proofs about AgentPipeline, for every set of domains, every set of      *)
(* answers of the language model, every number of reruns and every bound.  *)
(***************************************************************************)
EXTENDS AgentPipeline, FiniteSetTheorems, SequenceTheorems, TLAPS

----------------------------------------------------------------------------
(* The plan and the specialists                                            *)

\* A pending set of specialists has a first one in the pipeline order.
LEMMA NextInCascade ==
  ASSUME NEW S \in SUBSET Specialists, S # {}
  PROVE  NextIn(PipelineOrder, S) \in S
<1>1. \E i \in 1..6 :
        PipelineOrder[i] \in S /\ \A k \in 1..(i - 1) : PipelineOrder[k] \notin S
  <2>1. PICK a \in S : TRUE
    OBVIOUS
  <2>2. \E i \in 1..6 : PipelineOrder[i] \in S
    BY <2>1 DEF Specialists, PipelineOrder
  <2>3. PipelineOrder[1] \in S \/ PipelineOrder[2] \in S \/ PipelineOrder[3] \in S
        \/ PipelineOrder[4] \in S \/ PipelineOrder[5] \in S \/ PipelineOrder[6] \in S
    BY <2>2
  <2> QED BY <2>3
<1>2. DOMAIN PipelineOrder = 1..6
  BY DEF PipelineOrder
<1> QED BY <1>1, <1>2 DEF NextIn

\* So has a pending part of a stage.
LEMMA NextInStage ==
  ASSUME NEW n \in 1..2, NEW S \in SUBSET StageSet(n), S # {}
  PROVE  NextIn(Stages[n], S) \in S
<1> DEFINE order == Stages[n]
           first(i) == /\ order[i] \in S
                       /\ \A k \in 1..(i - 1) : order[k] \notin S
<1>1. PICK a \in S : a \in StageSet(n)
  OBVIOUS
<1>2. /\ DOMAIN order = 1..3
      /\ StageSet(n) = {order[1], order[2], order[3]}
  BY DEF Stages, StageSet
<1> HIDE DEF order
<1>3. order[1] \in S \/ order[2] \in S \/ order[3] \in S
  BY <1>1, <1>2
<1>4. \E i \in 1..3 : first(i)
  BY <1>3
<1>5. PICK i \in DOMAIN order : first(i) /\ NextIn(order, S) = order[i]
  BY <1>2, <1>4 DEF NextIn
<1>6. NextIn(order, S) \in S
  BY <1>5
<1> QED BY <1>6 DEF order

\* The next agent of a cascade precedes all others that are pending.
LEMMA NextIsFirst ==
  ASSUME NEW S \in SUBSET Specialists, S # {}
  PROVE  LET a == NextIn(PipelineOrder, S)
         IN a \in S /\ \A b \in S \ {a} : Rank[a] < Rank[b]
<1> DEFINE first(i) == /\ PipelineOrder[i] \in S
                       /\ \A k \in 1..(i - 1) : PipelineOrder[k] \notin S
           a == NextIn(PipelineOrder, S)
<1>1. a \in S
  BY NextInCascade
<1>2. /\ PipelineOrder[1] = "issue" /\ PipelineOrder[2] = "evidence"
      /\ PipelineOrder[3] = "severity" /\ PipelineOrder[4] = "routing"
      /\ PipelineOrder[5] = "incident" /\ PipelineOrder[6] = "workflow"
      /\ DOMAIN PipelineOrder = 1..6
  BY DEF PipelineOrder
<1>3. /\ Rank["issue"] = 1 /\ Rank["evidence"] = 2 /\ Rank["severity"] = 3
      /\ Rank["routing"] = 4 /\ Rank["incident"] = 5 /\ Rank["workflow"] = 6
  BY DEF Rank
<1>4. \A i \in 1..6 : Rank[PipelineOrder[i]] = i
  BY <1>2, <1>3
<1>5. \A b \in Specialists : \E i \in 1..6 : b = PipelineOrder[i]
  BY <1>2 DEF Specialists
<1> HIDE DEF a
<1>6. \E i \in 1..6 : first(i)
  <2>1. PICK b \in S : TRUE
    OBVIOUS
  <2>2. PICK i \in 1..6 : PipelineOrder[i] \in S
    BY <1>5, <2>1
  <2>3. \/ PipelineOrder[1] \in S \/ PipelineOrder[2] \in S
        \/ PipelineOrder[3] \in S \/ PipelineOrder[4] \in S
        \/ PipelineOrder[5] \in S \/ PipelineOrder[6] \in S
    BY <2>2
  <2> QED BY <2>3
<1>7. PICK i \in 1..6 : first(i) /\ a = PipelineOrder[i]
  BY <1>2, <1>6 DEF NextIn, a
<1>8. ASSUME NEW b \in S \ {a}  PROVE Rank[a] < Rank[b]
  <2>1. PICK k \in 1..6 : b = PipelineOrder[k]
    BY <1>5
  <2>2. k # i /\ k \notin 1..(i - 1)
    BY <1>7, <2>1
  <2> QED BY <1>4, <1>7, <2>1, <2>2
<1> QED BY <1>1, <1>8 DEF a

\* So does the next agent of a stage.
LEMMA StageFirst ==
  ASSUME NEW n \in 1..2, NEW S \in SUBSET StageSet(n), S # {}
  PROVE  LET a == NextIn(Stages[n], S)
         IN a \in S /\ \A b \in S \ {a} : Rank[a] < Rank[b]
<1> DEFINE order == Stages[n]
           first(i) == /\ order[i] \in S
                       /\ \A k \in 1..(i - 1) : order[k] \notin S
           a == NextIn(Stages[n], S)
<1>1. a \in S
  BY NextInStage
<1>2. /\ DOMAIN order = 1..3
      /\ StageSet(n) = {order[1], order[2], order[3]}
      /\ Rank[order[1]] < Rank[order[2]] /\ Rank[order[2]] < Rank[order[3]]
      /\ Rank[order[1]] < Rank[order[3]]
  BY DEF Stages, StageSet, Rank
<1>3. PICK b \in S : b \in StageSet(n)
  OBVIOUS
<1> HIDE DEF order
<1>4. order[1] \in S \/ order[2] \in S \/ order[3] \in S
  BY <1>2, <1>3
<1>5. \E i \in 1..3 : first(i)
  BY <1>4
<1>6. PICK i \in 1..3 : first(i) /\ NextIn(order, S) = order[i]
  BY <1>2, <1>5 DEF NextIn
<1>7. a = order[i]
  BY <1>6 DEF order
<1> HIDE DEF a
<1>8. ASSUME NEW c \in S \ {a}  PROVE Rank[a] < Rank[c]
  <2>1. PICK k \in 1..3 : c = order[k]
    BY <1>2
  <2>2. k # i /\ k \notin 1..(i - 1)
    BY <1>6, <1>7, <2>1
  <2> QED BY <1>2, <1>7, <2>1, <2>2
<1> QED BY <1>1, <1>8 DEF a

\* What one specialist writes has the type of its output.
LEMMA IssueRunType ==
  ASSUME NEW i \in Input  PROVE  IssueRun(i) \subseteq IssueOut
<1>1. IssueAnswers \subseteq IssueOut
  BY BlackboardAssumption
<1>2. NoIssue \in IssueOut
  BY DEF NoIssue, IssueOut
<1>3. \A t \in Types \cup {NONE} : [sure |-> TRUE, type |-> t] \in IssueOut
  BY DEF IssueOut
<1>4. (IF i.text = {} THEN {NONE} ELSE i.text) \subseteq Types \cup {NONE}
  BY DEF Input
<1> QED BY <1>1, <1>2, <1>3, <1>4 DEF IssueRun, ErrorOf

\* The same of the evidence agent, guardrail and waiver included.
LEMMA EvidenceRunType ==
  ASSUME NEW i, NEW issue  PROVE  EvidenceRun(i, issue) \subseteq EvidenceOut
<1>1. ASSUME NEW e \in EvidenceAnswers
      PROVE  Waiver(i, Guardrail(i, issue, e)) \in EvidenceOut
  <2>1. e \in EvidenceOut
    BY BlackboardAssumption
  <2>2. Guardrail(i, issue, e) \in EvidenceOut
    BY <2>1 DEF Guardrail, EvidenceOut
  <2> QED BY <2>2 DEF Waiver, EvidenceOut
<1>2. [NoEvidence EXCEPT !.present = TRUE] \in EvidenceOut
  BY DEF NoEvidence, EvidenceOut
<1> QED BY <1>1, <1>2 DEF EvidenceRun, ErrorOf

\* The same of the severity agent.
LEMMA SeverityRunType ==
  ASSUME NEW i \in Input  PROVE  SeverityRun(i) \subseteq SeverityOut
<1>1. i.image \in BOOLEAN
  BY DEF Input
<1>2. ASSUME NEW s \in SeverityAnswers
      PROVE  [s EXCEPT !.visual = @ /\ i.image] \in SeverityOut
  <2>1. s \in SeverityOut
    BY BlackboardAssumption
  <2> QED BY <2>1 DEF SeverityOut
<1>3. [high |-> FALSE, visual |-> i.image] \in SeverityOut
  BY <1>1 DEF SeverityOut
<1>4. NoSeverity \in SeverityOut
  BY DEF NoSeverity, SeverityOut
<1> QED BY <1>2, <1>3, <1>4 DEF SeverityRun, ErrorOf

\* The same of the three agents whose output is kept as one flag.
LEMMA FlagRunType ==
  /\ RoutingRun \subseteq BOOLEAN
  /\ IncidentRun \subseteq BOOLEAN
  /\ WorkflowRun \subseteq BOOLEAN
BY BlackboardAssumption DEF RoutingRun, IncidentRun, WorkflowRun, ErrorOf

\* Having read leaves a well-formed blackboard.
LEMMA RanType ==
  ASSUME NEW a \in Specialists, NEW b \in Board
  PROVE  /\ Ran(a, b) \in Board
         /\ Ran(a, b).unread =
              {p \in b.unread : p[1] # a} \cup {<<x, a>> : x \in Readers(a)}
<1>1. {<<x, a>> : x \in Readers(a)} \subseteq Specialists \X Specialists
  BY DEF Readers
<1>2. b.unread \subseteq Specialists \X Specialists
  BY DEF Board
<1> QED BY <1>1, <1>2 DEF Ran, Board

\* Running any specialist leaves a well-formed blackboard.
LEMMA RunAgentType ==
  ASSUME NEW a \in Specialists, NEW i \in Input, NEW b \in Board,
         NEW c \in RunAgent(a, i, b)
  PROVE  c \in Board /\ c.unread = Ran(a, b).unread
<1>0. Ran(a, b) \in Board
  BY RanType
<1>1. CASE a = "issue"
  <2>1. PICK o \in IssueOut : c = [Ran(a, b) EXCEPT !.issue = o]
    BY <1>1, IssueRunType DEF RunAgent
  <2> QED BY <1>0, <2>1 DEF Board
<1>2. CASE a = "evidence"
  <2>1. PICK o \in EvidenceOut : c = [Ran(a, b) EXCEPT !.evidence = o]
    BY <1>2, EvidenceRunType DEF RunAgent
  <2> QED BY <1>0, <2>1 DEF Board
<1>3. CASE a = "severity"
  <2>1. PICK o \in SeverityOut : c = [Ran(a, b) EXCEPT !.severity = o]
    BY <1>3, SeverityRunType DEF RunAgent
  <2> QED BY <1>0, <2>1 DEF Board
<1>4. CASE a = "routing"
  <2>1. PICK o \in BOOLEAN : c = [Ran(a, b) EXCEPT !.routing = o]
    BY <1>4, FlagRunType DEF RunAgent
  <2> QED BY <1>0, <2>1 DEF Board
<1>5. CASE a = "incident"
  <2>1. PICK o \in BOOLEAN : c = [Ran(a, b) EXCEPT !.incident = o]
    BY <1>5, FlagRunType DEF RunAgent
  <2> QED BY <1>0, <2>1 DEF Board
<1>6. CASE a = "workflow"
  <2>1. PICK o \in BOOLEAN : c = [Ran(a, b) EXCEPT !.workflow = o]
    BY <1>6, FlagRunType DEF RunAgent
  <2> QED BY <1>0, <2>1 DEF Board
<1> QED BY <1>1, <1>2, <1>3, <1>4, <1>5, <1>6 DEF Specialists

\* A verdict names only agents, and its cascade only specialists.
LEMMA VerdictType ==
  ASSUME NEW i, NEW b, NEW answer \in VerifierAnswers
  PROVE  /\ Verdict(i, b, answer).failed \in SUBSET Agents
         /\ Cascade(Verdict(i, b, answer).failed) \in SUBSET Specialists
BY BlackboardAssumption DEF Verdict, ProgrammaticFailures, Cascade

\* The blackboard a coroutine starts and ends with is well formed.
LEMMA EmptyBoardType == EmptyBoard \in Board
BY BlackboardAssumption
   DEF EmptyBoard, Board, NoIssue, NoEvidence, NoSeverity,
       IssueOut, EvidenceOut, SeverityOut

\* The entries of a stage, and any prefix of them, are well formed.
LEMMA StageEntriesType ==
  ASSUME NEW j \in Jobs, NEW n \in 1..2
  PROVE  /\ StageEntries(j, n) \in Seq(Entry)
         /\ \A k \in 1..2 : SubSeq(StageEntries(j, n), 1, k) \in Seq(Entry)
<1>1. \A i \in 1..3 : Stages[n][i] \in Agents
  BY DEF Stages, Agents, Specialists
<1>2. \A i \in 1..3 : AgentEntry(j, Stages[n][i], 0) \in Entry
  BY <1>1 DEF AgentEntry, Entry
<1>3. StageEntries(j, n) \in [1..3 -> Entry]
  BY <1>2 DEF StageEntries
<1>4. StageEntries(j, n) \in Seq(Entry)
  BY <1>2 DEF StageEntries
<1>5. Len(StageEntries(j, n)) = 3
  BY <1>3, <1>4, LenProperties
<1>6. \A k \in 1..2 : SubSeq(StageEntries(j, n), 1, k) \in Seq(Entry)
  <2> SUFFICES ASSUME NEW k \in 1..2
               PROVE  SubSeq(StageEntries(j, n), 1, k) \in Seq(Entry)
    OBVIOUS
  <2>1. k \in 1..Len(StageEntries(j, n))
    BY <1>5
  <2> HIDE <1>5
  <2> QED BY <1>4, <2>1, SubSeqProperties
<1> QED BY <1>4, <1>6

\* The stub row log_action inserts is a ticket and differs from no row.
LEMMA StubType == Stub \in Ticket /\ NoRow \notin Ticket /\ Stub # NoRow
BY BlackboardAssumption DEF Stub, Ticket, NoRow, Final

----------------------------------------------------------------------------
(* Type correctness                                                        *)

\* While a stage runs, what is pending of it belongs to it and is not empty:
\* without this a step would run an agent outside the plan.
StagePending ==
  /\ pc[Process] = "stage1" =>
       todo[Process] # {} /\ todo[Process] \subseteq StageSet(1)
  /\ pc[Process] = "stage2" =>
       todo[Process] # {} /\ todo[Process] \subseteq StageSet(2)

TypeInv == TypeOK /\ StagePending

\* The initial processing is one of the coroutines.
LEMMA ProcessIsJob == Process \in Jobs
BY DEF Jobs

\* The state before the complaint is submitted is well typed.
LEMMA InitType == Init => TypeInv
<1> SUFFICES ASSUME Init PROVE TypeInv
  OBVIOUS
<1> USE DEF Init
<1>1. pc \in [Jobs -> PC]
  BY DEF PC
<1>2. in \in [Jobs -> Input]
  BY DEF NoInput, Input
<1>3. board \in [Jobs -> Board]
  BY EmptyBoardType
<1>4. base \in [Jobs -> Ticket]
  BY StubType
<1>5. faults \in 0..MaxFaults
  BY PipelineAssumption
<1>6. StagePending
  BY ProcessIsJob DEF StagePending
<1> QED BY <1>1, <1>2, <1>3, <1>4, <1>5, <1>6 DEF TypeInv, TypeOK

\* Accepting a complaint keeps the types: its texts name known domains.
LEMMA SubmitType == ASSUME TypeInv, Submit  PROVE TypeInv'
<1> USE DEF TypeInv, TypeOK, Submit
<1>1. in' \in [Jobs -> Input]
  <2>1. PICK i \in [image : BOOLEAN, sensitive : BOOLEAN, text : Texts] :
          in' = [in EXCEPT ![Process] = i]
    OBVIOUS
  <2>2. i \in Input
    BY BlackboardAssumption DEF Input
  <2> QED BY <2>1, <2>2
<1>2. pc' \in [Jobs -> PC]
  BY DEF PC, Running
<1>3. todo' \in [Jobs -> SUBSET Specialists]
  BY DEF StageSet, Specialists
<1>4. StagePending'
  BY ProcessIsJob DEF StagePending, StageSet
<1> QED BY <1>1, <1>2, <1>3, <1>4

\* One agent of a stage.
LEMMA RunStageType ==
  ASSUME TypeOK, NEW n \in 1..2, NEW here, NEW next \in PC,
         NEW nextTodo \in SUBSET Specialists,
         todo[Process] # {}, todo[Process] \subseteq StageSet(n),
         RunStage(n, here, next, nextTodo)
  PROVE  TypeOK'
<1> DEFINE a == NextIn(Stages[n], todo[Process])
           rest == todo[Process] \ {a}
<1>1. a \in todo[Process]
  BY NextInStage
<1>2. a \in Specialists /\ in[Process] \in Input /\ board[Process] \in Board
  BY <1>1, ProcessIsJob DEF TypeOK
<1> HIDE DEF a
<1>3. board' \in [Jobs -> Board]
  <2>1. PICK b \in RunAgent(a, in[Process], board[Process]) :
          board' = [board EXCEPT ![Process] = b]
    BY DEF RunStage, a
  <2>2. b \in Board
    BY <1>2, RunAgentType
  <2> QED BY <2>1, <2>2 DEF TypeOK
<1>4. rest \in SUBSET Specialists
  BY ProcessIsJob DEF TypeOK
<1>5. CASE rest # {}
  <2>1. /\ todo' = [todo EXCEPT ![Process] = rest]
        /\ UNCHANGED <<pc, row, log>>
    BY <1>5 DEF RunStage, a
  <2> QED BY <1>3, <1>4, <2>1 DEF RunStage, TypeOK
<1>6. CASE rest = {}
  <2>1. /\ todo' = [todo EXCEPT ![Process] = nextTodo]
        /\ pc' = [pc EXCEPT ![Process] = next]
        /\ log' = log \o StageEntries(Process, n)
        /\ row' = RowWithStub
    BY <1>6 DEF RunStage, a
  <2>2. log' \in Seq(Entry)
    BY <2>1, StageEntriesType, ProcessIsJob, ConcatProperties DEF TypeOK
  <2>3. row' \in Ticket \cup {NoRow}
    BY <2>1, StubType DEF TypeOK, RowWithStub
  <2> QED BY <1>3, <2>1, <2>2, <2>3 DEF RunStage, TypeOK
<1> QED BY <1>5, <1>6

\* The first stage keeps the types and hands a full second stage on.
LEMMA Stage1Type == ASSUME TypeInv, Stage1  PROVE TypeInv'
<1>1. StageSet(2) \in SUBSET Specialists /\ StageSet(2) # {} /\ "stage2" \in PC
  BY DEF StageSet, Specialists, PC, Running
<1>2. pc[Process] = "stage1"
  BY DEF Stage1, RunStage
<1>3. TypeOK'
  BY <1>1, <1>2, RunStageType DEF Stage1, TypeInv, StagePending
<1>4. StagePending'
  BY <1>1, <1>2, ProcessIsJob
     DEF Stage1, RunStage, TypeInv, TypeOK, StagePending
<1> QED BY <1>3, <1>4 DEF TypeInv

\* The second stage keeps the types and ends at the quality gate.
LEMMA Stage2Type == ASSUME TypeInv, Stage2  PROVE TypeInv'
<1>1. {} \in SUBSET Specialists /\ "verify" \in PC
  BY DEF PC, Running
<1>2. pc[Process] = "stage2"
  BY DEF Stage2, RunStage
<1>3. TypeOK'
  BY <1>1, <1>2, RunStageType DEF Stage2, TypeInv, StagePending
<1>4. StagePending'
  BY <1>2, ProcessIsJob DEF Stage2, RunStage, TypeInv, TypeOK, StagePending
<1> QED BY <1>3, <1>4 DEF TypeInv

\* One agent of a retry cascade keeps the types.
LEMMA RunCascadeType ==
  ASSUME TypeInv, NEW j \in Jobs, RunCascade(j)  PROVE TypeInv'
<1> DEFINE a == NextIn(PipelineOrder, todo[j])
           rest == todo[j] \ {a}
<1>1. todo[j] # {} /\ todo[j] \in SUBSET Specialists
  BY DEF RunCascade, TypeInv, TypeOK
<1>2. a \in todo[j]
  BY <1>1, NextInCascade
<1>3. a \in Specialists /\ in[j] \in Input /\ board[j] \in Board /\ retries[j] \in Nat
  BY <1>1, <1>2 DEF TypeInv, TypeOK
<1> HIDE DEF a
<1>4. board' \in [Jobs -> Board]
  <2>1. PICK b \in RunAgent(a, in[j], board[j]) : board' = [board EXCEPT ![j] = b]
    BY DEF RunCascade, a
  <2>2. b \in Board
    BY <1>3, RunAgentType
  <2> QED BY <2>1, <2>2 DEF TypeInv, TypeOK
<1>5. /\ todo' = [todo EXCEPT ![j] = rest]
      /\ pc' = [pc EXCEPT ![j] = IF rest = {} THEN "verify" ELSE @]
      /\ log' = Append(log, AgentEntry(j, a, retries[j]))
      /\ UNCHANGED <<in, retries, sticky, base, row, faults>>
      /\ pc[j] = "cascade"
  BY DEF RunCascade, a
<1>6. rest \in SUBSET Specialists
  BY <1>1
<1> HIDE DEF rest
<1>7. pc' \in [Jobs -> PC] /\ todo' \in [Jobs -> SUBSET Specialists]
  BY <1>5, <1>6 DEF TypeInv, TypeOK, PC, Running
<1>8. log' \in Seq(Entry)
  <2>1. AgentEntry(j, a, retries[j]) \in Entry
    BY <1>3 DEF AgentEntry, Entry, Agents
  <2> QED BY <1>5, <2>1, AppendProperties DEF TypeInv, TypeOK
<1>9. StagePending'
  BY <1>5, ProcessIsJob DEF TypeInv, TypeOK, StagePending
<1> QED BY <1>4, <1>5, <1>7, <1>8, <1>9 DEF TypeInv, TypeOK

\* Another attempt, and the end of a coroutine: what both verifications do.
LEMMA RetryType ==
  ASSUME TypeInv, NEW j \in Jobs, NEW failed \in SUBSET Agents, Retry(j, failed)
  PROVE  /\ retries' \in [Jobs -> Nat]
         /\ todo' \in [Jobs -> SUBSET Specialists]
         /\ pc' \in [Jobs -> PC]
         /\ StagePending'
<1>1. Cascade(failed) \in SUBSET Specialists
  BY DEF Cascade
<1>2. AfterRetry(failed) \in {"verify", "cascade"}
  BY DEF AfterRetry
<1>3. pc' \in [Jobs -> PC]
  BY <1>2 DEF Retry, TypeInv, TypeOK, PC, Running
<1>4. retries' \in [Jobs -> Nat] /\ todo' \in [Jobs -> SUBSET Specialists]
  BY <1>1 DEF Retry, TypeInv, TypeOK
<1>5. StagePending'
  BY <1>2, ProcessIsJob DEF Retry, TypeInv, TypeOK, StagePending
<1> QED BY <1>3, <1>4, <1>5

\* Ending a coroutine keeps the types of what it changes.
LEMMA EndJobType ==
  ASSUME TypeInv, NEW j \in Jobs, NEW how \in Ended, EndJob(j, how)
  PROVE  /\ retries' \in [Jobs -> Nat]
         /\ todo' \in [Jobs -> SUBSET Specialists]
         /\ pc' \in [Jobs -> PC]
         /\ board' \in [Jobs -> Board]
         /\ StagePending'
<1>1. pc' \in [Jobs -> PC] /\ board' \in [Jobs -> Board]
  BY EmptyBoardType DEF EndJob, TypeInv, TypeOK, PC
<1>2. StagePending'
  BY ProcessIsJob DEF EndJob, TypeInv, TypeOK, StagePending, Ended
<1> QED BY <1>1, <1>2 DEF EndJob, TypeInv, TypeOK

\* A fault stays within the bound on faults.
LEMMA FaultType == ASSUME TypeInv, Fault  PROVE faults' \in 0..MaxFaults
BY PipelineAssumption DEF TypeInv, TypeOK, Fault

\* The entry of a verification, and the status that follows from it.
LEMMA GateEntryType ==
  ASSUME TypeInv, NEW j \in Jobs, NEW v, v.failed \in SUBSET Agents
  PROVE  GateEntry(j, retries[j], v) \in Entry
BY DEF GateEntry, Entry, Agents, Approved, TypeInv, TypeOK

\* The quality gate of the processing keeps the types, whichever way it
\* decides and whether or not the ticket is saved.
LEMMA GateType == ASSUME TypeInv, Gate  PROVE TypeInv'
<1> DEFINE b == board[Process]
<1>1. PICK answer \in VerifierAnswers :
        LET v == Verdict(in[Process], b, answer)
            s == sticky[Process] \/ Contradicts(in[Process], b)
        IN /\ log' = Append(log, GateEntry(Process, retries[Process], v))
           /\ sticky' = [sticky EXCEPT ![Process] = s]
           /\ IF ~Approved(v) /\ RetriesLeft(Process) /\ ~Halts(b, s, v)
              THEN /\ Retry(Process, v.failed)
                   /\ UNCHANGED <<board, row, faults>>
              ELSE Conclude(v, s)
  BY DEF Gate
<1> DEFINE v == Verdict(in[Process], b, answer)
           s == sticky[Process] \/ Contradicts(in[Process], b)
<1>2. v.failed \in SUBSET Agents
  BY VerdictType
<1>3. s \in BOOLEAN
  BY ProcessIsJob DEF TypeInv, TypeOK, Contradicts, Disjoint, Board, EvidenceOut
<1> HIDE DEF v, s
<1>4. log' \in Seq(Entry)
  BY <1>1, <1>2, GateEntryType, ProcessIsJob, AppendProperties
     DEF v, TypeInv, TypeOK
<1>5. sticky' \in [Jobs -> BOOLEAN]
  BY <1>1, <1>3 DEF s, TypeInv, TypeOK
<1>6. UNCHANGED <<in, base>>
  BY DEF Gate
<1>7. CASE Retry(Process, v.failed) /\ UNCHANGED <<board, row, faults>>
  BY <1>2, <1>4, <1>5, <1>6, <1>7, RetryType, ProcessIsJob DEF TypeInv, TypeOK
<1>8. CASE Conclude(v, s)
  <2> DEFINE t == [status |-> FinalStatus(b, s, v), type |-> b.issue.type,
                   incident |-> b.incident, workflow |-> b.workflow,
                   contra |-> b.evidence.contra, retries |-> retries[Process],
                   trail |-> TrailLength]
  <2>1. t \in Ticket
    <3>1. b \in Board /\ retries[Process] \in Nat
      BY ProcessIsJob DEF TypeInv, TypeOK
    <3>2. FinalStatus(b, s, v) \in Final
      BY DEF FinalStatus, Final
    <3>3. TrailLength \in Nat
      BY <1>4, LenProperties DEF TrailLength
    <3>4. b.issue.type \in Types \cup {NONE} /\ b.evidence.contra \in BOOLEAN
      BY <3>1 DEF Board, IssueOut, EvidenceOut
    <3> QED BY <3>1, <3>2, <3>3, <3>4 DEF Ticket, Board
  <2> HIDE DEF t
  <2>2. /\ \E how \in Ended : EndJob(Process, how)
        /\ row' = t \/ UNCHANGED row
        /\ UNCHANGED faults \/ Fault
    BY <1>8 DEF Conclude, Save, Ended, t
  <2>3. row' \in Ticket \cup {NoRow}
    BY <2>1, <2>2 DEF TypeInv, TypeOK
  <2>4. faults' \in 0..MaxFaults
    BY <2>2, FaultType DEF TypeInv, TypeOK
  <2> QED
    BY <1>4, <1>5, <1>6, <2>2, <2>3, <2>4, EndJobType, ProcessIsJob DEF TypeInv, TypeOK
<1> QED BY <1>1, <1>7, <1>8 DEF v, s

\* Rebuilding a state from the stored ticket keeps the types.
LEMMA LoadType ==
  ASSUME TypeInv, NEW j \in Reruns, Load(j)  PROVE TypeInv'
<1>1. j \in Jobs /\ j # Process
  BY PipelineAssumption DEF Jobs
<1>2. row \in Ticket
  BY DEF Load, TypeInv, TypeOK
<1>3. in' \in [Jobs -> Input]
  <2>1. PICK t \in Texts :
          in' = [in EXCEPT ![j] = [image |-> FALSE, sensitive |-> FALSE, text |-> t]]
    BY DEF Load
  <2>2. [image |-> FALSE, sensitive |-> FALSE, text |-> t] \in Input
    BY BlackboardAssumption DEF Input
  <2> QED BY <2>1, <2>2 DEF TypeInv, TypeOK
<1>4. board' \in [Jobs -> Board]
  <2> DEFINE b == [EmptyBoard EXCEPT
                     !.issue    = [sure |-> TRUE, type |-> row.type],
                     !.severity = [high |-> FALSE, visual |-> TRUE],
                     !.incident = row.incident,
                     !.workflow = row.workflow]
  <2>1. [sure |-> TRUE, type |-> row.type] \in IssueOut
    BY <1>2 DEF IssueOut, Ticket
  <2>2. [high |-> FALSE, visual |-> TRUE] \in SeverityOut
    BY DEF SeverityOut
  <2>3. row.incident \in BOOLEAN /\ row.workflow \in BOOLEAN
    BY <1>2 DEF Ticket
  <2>4. b \in Board
    BY <2>1, <2>2, <2>3, EmptyBoardType DEF Board
  <2>5. board' = [board EXCEPT ![j] = b]
    BY DEF Load
  <2> QED BY <2>4, <2>5 DEF TypeInv, TypeOK
<1>5. retries' \in [Jobs -> Nat]
  BY <1>2 DEF Load, TypeInv, TypeOK, Ticket
<1>6. base' \in [Jobs -> Ticket]
  BY <1>2 DEF Load, TypeInv, TypeOK
<1>7. pc' \in [Jobs -> PC]
  BY DEF Load, TypeInv, TypeOK, PC, Running
<1>8. StagePending'
  BY <1>1 DEF Load, TypeInv, TypeOK, StagePending
<1> QED BY <1>3, <1>4, <1>5, <1>6, <1>7, <1>8 DEF Load, TypeInv, TypeOK

\* A rerun of an unknown ticket keeps the types.
LEMMA LoadUnknownType ==
  ASSUME TypeInv, NEW j \in Reruns, LoadUnknown(j)  PROVE TypeInv'
<1>1. j # Process
  BY PipelineAssumption
<1>2. pc' \in [Jobs -> PC]
  BY DEF LoadUnknown, TypeInv, TypeOK, PC, Ended
<1> QED BY <1>1, <1>2 DEF LoadUnknown, TypeInv, TypeOK, StagePending

\* A verification of a rerun keeps the types.
LEMMA RerunGateType ==
  ASSUME TypeInv, NEW j \in Reruns, NEW here, RerunGate(j, here)  PROVE TypeInv'
<1>1. j \in Jobs
  BY DEF Jobs
<1>2. PICK answer \in VerifierAnswers :
        LET v == Verdict(in[j], board[j], answer)
        IN /\ log' = IF here = "audit" THEN log
                     ELSE Append(log, GateEntry(j, retries[j], v))
           /\ sticky' = [sticky EXCEPT ![j] = @ \/ Contradicts(in[j], board[j])]
           /\ AfterAudit(j, v)
  BY DEF RerunGate
<1> DEFINE v == Verdict(in[j], board[j], answer)
<1>3. v.failed \in SUBSET Agents
  BY VerdictType
<1> HIDE DEF v
<1>4. log' \in Seq(Entry)
  <2>1. GateEntry(j, retries[j], v) \in Entry
    BY <1>1, <1>3, GateEntryType
  <2> QED BY <1>2, <2>1, AppendProperties DEF v, TypeInv, TypeOK
<1>5. sticky' \in [Jobs -> BOOLEAN]
  <2>1. (sticky[j] \/ Contradicts(in[j], board[j])) \in BOOLEAN
    BY <1>1 DEF TypeInv, TypeOK, Contradicts, Disjoint, Board, EvidenceOut
  <2> QED BY <1>2, <2>1 DEF TypeInv, TypeOK
<1>6. UNCHANGED <<in, base>>
  BY DEF RerunGate
<1>7. CASE Retry(j, v.failed) /\ UNCHANGED <<board, row, faults>>
  BY <1>1, <1>3, <1>4, <1>5, <1>6, <1>7, RetryType DEF TypeInv, TypeOK
<1>8. CASE \E how \in {"done", "failed"} : EndJob(j, how)
  <2> DEFINE t == [base[j] EXCEPT !.status = RerunStatus(v),
                                  !.retries = retries[j],
                                  !.trail = TrailLength]
  <2>1. t \in Ticket
    <3>1. base[j] \in Ticket /\ retries[j] \in Nat
      BY <1>1 DEF TypeInv, TypeOK
    <3>2. RerunStatus(v) \in Final
      BY DEF RerunStatus, Final
    <3>3. TrailLength \in Nat
      BY <1>4, LenProperties DEF TrailLength
    <3> QED BY <3>1, <3>2, <3>3 DEF Ticket
  <2> HIDE DEF t
  <2>2. \/ row' = t \/ UNCHANGED row
    BY <1>2, <1>8 DEF AfterAudit, v, t
  <2>3. UNCHANGED faults \/ Fault
    BY <1>2, <1>8 DEF AfterAudit, v
  <2>4. row' \in Ticket \cup {NoRow} /\ faults' \in 0..MaxFaults
    BY <2>1, <2>2, <2>3, FaultType DEF TypeInv, TypeOK
  <2> QED
    BY <1>1, <1>4, <1>5, <1>6, <1>8, <2>4, EndJobType DEF Ended, TypeInv, TypeOK
<1> QED BY <1>2, <1>7, <1>8 DEF AfterAudit, v

\* A database error keeps the types, also when it cuts a stage's log short.
LEMMA StoreFailsType ==
  ASSUME TypeInv, NEW j \in Jobs, StoreFails(j)  PROVE TypeInv'
<1>1. pc' \in [Jobs -> PC] /\ board' \in [Jobs -> Board]
  BY EmptyBoardType DEF StoreFails, TypeInv, TypeOK, PC, Ended
<1>2. row' \in Ticket \cup {NoRow}
  BY StubType DEF StoreFails, TypeInv, TypeOK, RowWithStub
<1>3. log' \in Seq(Entry)
  <2>1. CASE UNCHANGED log
    BY <2>1 DEF TypeInv, TypeOK
  <2>2. CASE ~ UNCHANGED log
    <3>1. PICK k \in 1..2 :
            log' = log \o SubSeq(StageEntries(j,
                             IF pc[j] = "stage1" THEN 1 ELSE 2), 1, k)
      BY <2>2 DEF StoreFails
    <3>2. SubSeq(StageEntries(j, IF pc[j] = "stage1" THEN 1 ELSE 2), 1, k)
            \in Seq(Entry)
      BY StageEntriesType
    <3> QED BY <3>1, <3>2, ConcatProperties DEF TypeInv, TypeOK
  <2> QED BY <2>1, <2>2
<1>4. faults' \in 0..MaxFaults
  BY FaultType DEF StoreFails
<1>5. StagePending'
  BY ProcessIsJob DEF StoreFails, TypeInv, TypeOK, StagePending
<1> QED BY <1>1, <1>2, <1>3, <1>4, <1>5 DEF StoreFails, TypeInv, TypeOK

\* A restart of the service keeps the types.
LEMMA RestartType == ASSUME TypeInv, Restart  PROVE TypeInv'
<1>1. pc' \in [Jobs -> PC]
  BY DEF Restart, TypeInv, TypeOK, PC, Ended
<1>2. board' \in [Jobs -> Board]
  BY EmptyBoardType DEF Restart
<1>3. faults' \in 0..MaxFaults
  BY FaultType DEF Restart
<1>4. StagePending'
  BY ProcessIsJob DEF Restart, TypeInv, TypeOK, StagePending, Running
<1> QED BY <1>1, <1>2, <1>3, <1>4 DEF Restart, TypeInv, TypeOK

\* Every step keeps the type invariant.
LEMMA TypeStep == TypeInv /\ [Next]_vars => TypeInv'
<1> SUFFICES ASSUME TypeInv, [Next]_vars  PROVE TypeInv'
  OBVIOUS
<1>1. CASE ProcessStep
  BY <1>1, SubmitType, Stage1Type, Stage2Type, RunCascadeType, GateType,
     ProcessIsJob DEF ProcessStep
<1>2. ASSUME NEW j \in Reruns, RerunStep(j)  PROVE TypeInv'
  <2>1. j \in Jobs
    BY DEF Jobs
  <2> QED BY <1>2, <2>1, LoadType, LoadUnknownType, RerunGateType,
             RunCascadeType DEF RerunStep, Audit, Reverify
<1>3. ASSUME NEW j \in Jobs, StoreFails(j)  PROVE TypeInv'
  BY <1>3, StoreFailsType
<1>4. CASE Restart
  BY <1>4, RestartType
<1>5. CASE UNCHANGED vars
  BY <1>5 DEF vars, TypeInv, TypeOK, StagePending
<1> QED BY <1>1, <1>2, <1>3, <1>4, <1>5 DEF Next

\* The types and the pending stages hold in every reachable state of the
\* pipeline (core_agent.py:60-163, executor.py:22-74).
THEOREM TypeInvariant == Spec => []TypeInv
BY InitType, TypeStep, PTL DEF Spec

\* Every reachable state is well typed: whatever the specialists and the
\* language model answer, however reruns interleave with the processing and
\* whichever faults occur (agent/app/agent/core_agent.py).
THEOREM TypeCorrect == Spec => []TypeOK
<1>1. TypeInv => TypeOK
  BY DEF TypeInv
<1> QED BY <1>1, TypeInvariant, PTL

----------------------------------------------------------------------------
(* The life of the ticket                                                  *)

\* A coroutine that could write a decision finds the row in place: log_action
\* inserted it when the first stage ended, or load_ticket returned it.
Registered ==
  /\ pc[Process] \in {"stage2", "cascade", "verify"} => row # NoRow
  /\ \A j \in Reruns : pc[j] \in Running => row # NoRow

\* The retry loop keeps to its bound.
WithinRetries == retries[Process] <= MaxRetries

LifeInv == Registered /\ WithinRetries

\* A ticket is absent exactly when its status says so.
LEMMA AbsentRow ==
  ASSUME NEW r \in Ticket \cup {NoRow}
  PROVE  r = NoRow <=> r.status = "absent"
BY DEF Ticket, NoRow, Final

\* What a verification of the processing can do: ask for another attempt, or
\* end the coroutine, with or without storing the ticket it decided.
LEMMA GateOutcome ==
  ASSUME TypeInv, Gate
  PROVE  \E v, s :
           /\ pc[Process] = "verify"
           /\ log' = Append(log, GateEntry(Process, retries[Process], v))
           /\ GateEntry(Process, retries[Process], v) \in Entry
           /\ sticky' = [sticky EXCEPT ![Process] = s]
           /\ \/ /\ ~Approved(v) /\ RetriesLeft(Process)
                 /\ ~Halts(board[Process], s, v)
                 /\ retries' = [retries EXCEPT ![Process] = @ + 1]
                 /\ pc' = [pc EXCEPT ![Process] = AfterRetry(v.failed)]
                 /\ UNCHANGED row
              \/ /\ \/ Approved(v)
                    \/ ~RetriesLeft(Process)
                    \/ Halts(board[Process], s, v)
                 /\ \E how \in Ended : pc' = [pc EXCEPT ![Process] = how]
                 /\ UNCHANGED retries
                 /\ \/ UNCHANGED row
                    \/ /\ row'.status = FinalStatus(board[Process], s, v)
                       /\ row'.retries = retries[Process]
                       /\ row'.contra = board[Process].evidence.contra
                       /\ row'.trail = Len(log')
<1> DEFINE b == board[Process]
<1>1. PICK answer \in VerifierAnswers :
        LET v == Verdict(in[Process], b, answer)
            s == sticky[Process] \/ Contradicts(in[Process], b)
        IN /\ log' = Append(log, GateEntry(Process, retries[Process], v))
           /\ sticky' = [sticky EXCEPT ![Process] = s]
           /\ IF ~Approved(v) /\ RetriesLeft(Process) /\ ~Halts(b, s, v)
              THEN /\ Retry(Process, v.failed)
                   /\ UNCHANGED <<board, row, faults>>
              ELSE Conclude(v, s)
  BY DEF Gate
<1> DEFINE v == Verdict(in[Process], b, answer)
           s == sticky[Process] \/ Contradicts(in[Process], b)
<1>2. GateEntry(Process, retries[Process], v) \in Entry
  BY VerdictType, GateEntryType, ProcessIsJob
<1> HIDE DEF v, s
<1>3. /\ log' = Append(log, GateEntry(Process, retries[Process], v))
      /\ sticky' = [sticky EXCEPT ![Process] = s]
      /\ pc[Process] = "verify"
  BY <1>1 DEF v, s, Gate
<1>4. CASE ~Approved(v) /\ RetriesLeft(Process) /\ ~Halts(b, s, v)
  <2>1. Retry(Process, v.failed) /\ UNCHANGED row
    BY <1>1, <1>4 DEF v, s
  <2> QED BY <1>2, <1>3, <1>4, <2>1 DEF Retry
<1>5. CASE ~(~Approved(v) /\ RetriesLeft(Process) /\ ~Halts(b, s, v))
  <2>1. Conclude(v, s)
    BY <1>1, <1>5 DEF v, s
  <2> DEFINE t == [status |-> FinalStatus(b, s, v), type |-> b.issue.type,
                   incident |-> b.incident, workflow |-> b.workflow,
                   contra |-> b.evidence.contra, retries |-> retries[Process],
                   trail |-> TrailLength]
  <2>2. row' = row \/ row' = t
    BY <2>1 DEF Conclude, Save
  <2>3. \E how \in Ended : EndJob(Process, how)
    BY <2>1 DEF Conclude, Save, Ended
  <2> HIDE DEF t
  <2>4. row' = t => /\ row'.status = FinalStatus(b, s, v)
                    /\ row'.retries = retries[Process]
                    /\ row'.contra = b.evidence.contra
                    /\ row'.trail = Len(log')
    BY DEF t, TrailLength
  <2> QED BY <1>2, <1>3, <1>5, <2>2, <2>3, <2>4 DEF EndJob
<1> QED BY <1>4, <1>5

\* What a verification of a rerun can do; the processing is not touched.
LEMMA RerunOutcome ==
  ASSUME TypeInv, NEW j \in Reruns, Audit(j) \/ Reverify(j)
  PROVE  /\ pc[j] \in Running
         /\ \E e \in Entry : log' = log \/ log' = Append(log, e)
         /\ UNCHANGED <<pc[Process], retries[Process], sticky[Process]>>
         /\ \E p \in PC : pc' = [pc EXCEPT ![j] = p]
         /\ \/ UNCHANGED row
            \/ /\ pc'[j] = "done"
               /\ row'.status \in {"Submitted", "needs_manual_review"}
<1>1. j \in Jobs /\ j # Process
  BY PipelineAssumption DEF Jobs
<1>2. PICK here \in {"audit", "verify"} : RerunGate(j, here)
  BY DEF Audit, Reverify
<1>3. PICK answer \in VerifierAnswers :
        LET v == Verdict(in[j], board[j], answer)
        IN /\ log' = IF here = "audit" THEN log
                     ELSE Append(log, GateEntry(j, retries[j], v))
           /\ sticky' = [sticky EXCEPT ![j] = @ \/ Contradicts(in[j], board[j])]
           /\ AfterAudit(j, v)
  BY <1>2 DEF RerunGate
<1> DEFINE v == Verdict(in[j], board[j], answer)
<1>4. GateEntry(j, retries[j], v) \in Entry
  BY <1>1, VerdictType, GateEntryType
<1> HIDE DEF v
<1>5. \E e \in Entry : log' = log \/ log' = Append(log, e)
  BY <1>3, <1>4 DEF v
<1>6. pc[j] \in Running /\ UNCHANGED sticky[Process]
  BY <1>1, <1>2, <1>3 DEF RerunGate, Running, TypeInv, TypeOK
<1>7. CASE Retry(j, v.failed) /\ UNCHANGED row
  <2>1. AfterRetry(v.failed) \in PC
    BY DEF AfterRetry, PC, Running
  <2>2. /\ pc' = [pc EXCEPT ![j] = AfterRetry(v.failed)]
        /\ retries' = [retries EXCEPT ![j] = @ + 1]
    BY <1>7 DEF Retry
  <2>3. UNCHANGED <<pc[Process], retries[Process]>>
    BY <1>1, <2>2 DEF TypeInv, TypeOK
  <2> QED BY <1>5, <1>6, <1>7, <2>1, <2>2, <2>3
<1>8. CASE /\ EndJob(j, "done")
           /\ row' = [base[j] EXCEPT !.status  = RerunStatus(v),
                                     !.retries = retries[j],
                                     !.trail   = TrailLength]
  <2>1. base[j] \in Ticket
    BY <1>1 DEF TypeInv, TypeOK
  <2>2. row'.status = RerunStatus(v)
    BY <1>8, <2>1 DEF Ticket
  <2>3. pc' = [pc EXCEPT ![j] = "done"] /\ UNCHANGED retries /\ "done" \in PC
    BY <1>8 DEF EndJob, PC, Ended
  <2>4. UNCHANGED pc[Process] /\ pc'[j] = "done"
    BY <1>1, <2>3 DEF TypeInv, TypeOK
  <2> QED BY <1>5, <1>6, <2>2, <2>3, <2>4 DEF RerunStatus
<1>9. CASE EndJob(j, "failed") /\ UNCHANGED row
  <2>1. pc' = [pc EXCEPT ![j] = "failed"] /\ UNCHANGED retries /\ "failed" \in PC
    BY <1>9 DEF EndJob, PC, Ended
  <2>2. UNCHANGED pc[Process]
    BY <1>1, <2>1 DEF TypeInv, TypeOK
  <2> QED BY <1>5, <1>6, <1>9, <2>1, <2>2
<1> QED BY <1>3, <1>7, <1>8, <1>9 DEF AfterAudit, v

\* Steps that leave the decision alone: the row can only be created.
LEMMA QuietStep ==
  ASSUME TypeInv, LifeInv,
         \/ Submit \/ Stage1 \/ Stage2
         \/ \E j \in Jobs : RunCascade(j)
         \/ \E j \in Reruns : Load(j) \/ LoadUnknown(j)
  PROVE  /\ UNCHANGED <<retries[Process], sticky[Process]>>
         /\ \/ pc[Process] \notin Ended /\ pc'[Process] \notin Ended
            \/ UNCHANGED pc[Process]
         /\ \/ UNCHANGED row
            \/ row = NoRow /\ row' = Stub /\ pc[Process] \notin Ended
         /\ Registered'
<1>1. Process \in Jobs /\ Process \notin Reruns /\ Reruns \subseteq Jobs
  BY PipelineAssumption DEF Jobs
<1>2. CASE Submit
  BY <1>1, <1>2 DEF Submit, TypeInv, TypeOK, LifeInv, Registered, Ended
<1>3. ASSUME NEW n \in 1..2, NEW here \in {"stage1", "stage2"},
             NEW next \in {"stage2", "verify"}, NEW nextTodo,
             RunStage(n, here, next, nextTodo)
      PROVE  /\ UNCHANGED <<retries[Process], sticky[Process]>>
             /\ pc[Process] \notin Ended /\ pc'[Process] \notin Ended
             /\ UNCHANGED row \/ (row = NoRow /\ row' = Stub)
             /\ Registered'
  <2>1. pc[Process] = here /\ UNCHANGED <<retries, sticky>>
    BY <1>3 DEF RunStage
  <2>2. \/ UNCHANGED <<pc, row>>
        \/ pc' = [pc EXCEPT ![Process] = next] /\ row' = RowWithStub
    BY <1>3 DEF RunStage
  <2>3. row' = RowWithStub => row' # NoRow
    BY StubType DEF RowWithStub
  <2>4. CASE UNCHANGED <<pc, row>>
    BY <1>3, <2>1, <2>4 DEF LifeInv, Registered, Ended
  <2>5. CASE pc' = [pc EXCEPT ![Process] = next] /\ row' = RowWithStub
    BY <1>1, <1>3, <2>1, <2>3, <2>5
       DEF LifeInv, Registered, Ended, TypeInv, TypeOK, RowWithStub
  <2> QED BY <2>2, <2>4, <2>5
<1>4. CASE Stage1 \/ Stage2
  <2>1. pc[Process] \in {"stage1", "stage2"}
    BY <1>4 DEF Stage1, Stage2, RunStage
  <2> QED BY <1>3, <1>4, <2>1 DEF Stage1, Stage2, Ended
<1>5. ASSUME NEW j \in Jobs, RunCascade(j)
      PROVE  /\ UNCHANGED <<retries[Process], sticky[Process], row>>
             /\ \/ pc[Process] \notin Ended /\ pc'[Process] \notin Ended
                \/ UNCHANGED pc[Process]
             /\ Registered'
  <2>1. /\ pc[j] = "cascade" /\ UNCHANGED <<retries, sticky, row>>
        /\ pc' = pc \/ pc' = [pc EXCEPT ![j] = "verify"]
    BY <1>5 DEF RunCascade, TypeInv, TypeOK
  <2> QED BY <1>1, <2>1 DEF LifeInv, Registered, Ended, Running, TypeInv, TypeOK
<1>6. ASSUME NEW j \in Reruns, Load(j) \/ LoadUnknown(j)
      PROVE  /\ UNCHANGED <<retries[Process], sticky[Process], row, pc[Process]>>
             /\ Registered'
  <2>1. /\ j \in Jobs /\ j # Process
        /\ UNCHANGED <<sticky, row>>
        /\ retries' = [retries EXCEPT ![j] = row.retries] \/ UNCHANGED retries
        /\ \/ row # NoRow /\ pc' = [pc EXCEPT ![j] = "audit"]
           \/ pc' = [pc EXCEPT ![j] = "notfound"]
    BY <1>1, <1>6 DEF Load, LoadUnknown
  <2> QED BY <1>1, <2>1 DEF LifeInv, Registered, Running, TypeInv, TypeOK
<1> QED BY <1>2, <1>4, <1>5, <1>6

\* Faults: the row can only be created, and the coroutines they hit end.
LEMMA FaultStep ==
  ASSUME TypeInv, LifeInv, Restart \/ \E j \in Jobs : StoreFails(j)
  PROVE  /\ UNCHANGED <<retries[Process], sticky[Process]>>
         /\ \/ pc[Process] \notin Ended /\ pc'[Process] \in Ended
            \/ UNCHANGED pc[Process]
         /\ \/ UNCHANGED row
            \/ /\ row = NoRow /\ row' = Stub
               /\ pc[Process] \notin Ended /\ pc'[Process] \in Ended
         /\ \A j \in Reruns : pc'[j] = "done" => pc[j] = "done"
         /\ Registered'
<1>1. Process \in Jobs /\ Process \notin Reruns /\ Reruns \subseteq Jobs
  BY PipelineAssumption DEF Jobs
<1>2. CASE Restart
  BY <1>1, <1>2
     DEF Restart, LifeInv, Registered, Running, Ended, TypeInv, TypeOK
<1>3. ASSUME NEW j \in Jobs, StoreFails(j)
      PROVE  /\ UNCHANGED <<retries[Process], sticky[Process]>>
             /\ \/ pc[Process] \notin Ended /\ pc'[Process] \in Ended
                \/ UNCHANGED pc[Process]
             /\ \/ UNCHANGED row
                \/ /\ row = NoRow /\ row' = Stub
                   /\ pc[Process] \notin Ended /\ pc'[Process] \in Ended
             /\ \A k \in Reruns : pc'[k] = "done" => pc[k] = "done"
             /\ Registered'
  <2>1. /\ pc[j] \in {"stage1", "stage2", "cascade", "verify"}
        /\ pc' = [pc EXCEPT ![j] = "failed"]
        /\ UNCHANGED <<retries, sticky>>
        /\ UNCHANGED row \/ row' = RowWithStub
    BY <1>3 DEF StoreFails, Logging
  <2>2. CASE j = Process
    BY <1>1, <2>1, <2>2, StubType
       DEF LifeInv, Registered, Ended, TypeInv, TypeOK, RowWithStub, Running
  <2>3. CASE j # Process
    <3>1. j \in Reruns /\ pc[j] \in Running
      BY <2>1, <2>3 DEF Jobs, Running
    <3>2. UNCHANGED row
      BY <2>1, <3>1 DEF LifeInv, Registered, RowWithStub
    <3> QED BY <1>1, <2>1, <2>3, <3>1, <3>2
               DEF LifeInv, Registered, TypeInv, TypeOK, Running
  <2> QED BY <2>2, <2>3
<1> QED BY <1>2, <1>3

\* Every step keeps the row registered and the retries within their bound.
LEMMA LifeStep == TypeInv /\ TypeInv' /\ LifeInv /\ [Next]_vars => LifeInv'
<1> SUFFICES ASSUME TypeInv, TypeInv', LifeInv, [Next]_vars  PROVE LifeInv'
  OBVIOUS
<1>1. Process \in Jobs /\ Process \notin Reruns /\ Reruns \subseteq Jobs
  BY PipelineAssumption DEF Jobs
<1>2. CASE \/ Submit \/ Stage1 \/ Stage2
           \/ \E j \in Jobs : RunCascade(j)
           \/ \E j \in Reruns : Load(j) \/ LoadUnknown(j)
  BY <1>2, QuietStep DEF LifeInv, WithinRetries
<1>3. CASE Restart \/ \E j \in Jobs : StoreFails(j)
  BY <1>3, FaultStep DEF LifeInv, WithinRetries
<1>4. CASE Gate
  <2>1. PICK v, s :
          /\ pc[Process] = "verify"
          /\ \/ /\ RetriesLeft(Process)
                /\ retries' = [retries EXCEPT ![Process] = @ + 1]
                /\ pc' = [pc EXCEPT ![Process] = AfterRetry(v.failed)]
                /\ UNCHANGED row
             \/ /\ \E how \in Ended : pc' = [pc EXCEPT ![Process] = how]
                /\ UNCHANGED retries
                /\ \/ UNCHANGED row
                   \/ row'.status = FinalStatus(board[Process], s, v)
    BY <1>4, GateOutcome
  <2>2. row # NoRow
    BY <2>1 DEF LifeInv, Registered
  <2>3. row' # NoRow
    BY <2>1, <2>2 DEF FinalStatus, NoRow
  <2>4. WithinRetries'
    BY <1>1, <2>1, PipelineAssumption
       DEF LifeInv, WithinRetries, RetriesLeft, TypeInv, TypeOK
  <2> QED BY <2>3, <2>4 DEF LifeInv, Registered
<1>5. ASSUME NEW j \in Reruns, Audit(j) \/ Reverify(j)  PROVE LifeInv'
  <2>1. /\ pc[j] \in Running
        /\ UNCHANGED <<pc[Process], retries[Process]>>
        /\ UNCHANGED row \/ row'.status \in {"Submitted", "needs_manual_review"}
    BY <1>5, RerunOutcome
  <2>2. row # NoRow
    BY <2>1 DEF LifeInv, Registered
  <2>3. row' # NoRow
    BY <2>1, <2>2 DEF NoRow
  <2> QED BY <2>1, <2>3 DEF LifeInv, Registered, WithinRetries
<1>6. CASE UNCHANGED vars
  BY <1>6 DEF vars, LifeInv, Registered, WithinRetries
<1> QED BY <1>1, <1>2, <1>3, <1>4, <1>5, <1>6 DEF Next, ProcessStep, RerunStep

\* In every reachable state a coroutine about to decide finds the ticket row
\* in place, and the processing has used at most MAX_RETRIES retries
\* (long_term.py:161-169, core_agent.py:98-116).
THEOREM LifeInvariant == Spec => []LifeInv
<1>1. Init => LifeInv
  BY ProcessIsJob, PipelineAssumption
     DEF Init, LifeInv, Registered, WithinRetries, Jobs, Running
<1> QED BY <1>1, TypeInvariant, LifeStep, PTL DEF Spec

----------------------------------------------------------------------------
(* Refinement of the promised life of a ticket                             *)

\* The service starts where the promise starts.
LEMMA LifecycleInit == Init => Lifecycle!Init
BY ProcessIsJob DEF Init, Lifecycle!Init, NoRow, Ended

\* Every step of the service is a step of the promise or changes nothing
\* the promise speaks of.
LEMMA LifecycleStep ==
  TypeInv /\ TypeInv' /\ LifeInv /\ [Next]_vars
    => [Lifecycle!Next]_(Lifecycle!lifecycleVars)
<1> SUFFICES ASSUME TypeInv, TypeInv', LifeInv, [Next]_vars
             PROVE  [Lifecycle!Next]_(Lifecycle!lifecycleVars)
  OBVIOUS
<1> USE DEF Lifecycle!Next, Lifecycle!lifecycleVars
<1>1. Process \in Jobs /\ Process \notin Reruns /\ Reruns \subseteq Jobs
  BY PipelineAssumption DEF Jobs
<1>2. /\ row = NoRow <=> row.status = "absent"
      /\ NoRow.status = "absent" /\ Stub.status = "processing"
  BY AbsentRow DEF TypeInv, TypeOK, NoRow, Stub
<1>3. CASE \/ Submit \/ Stage1 \/ Stage2
           \/ \E j \in Jobs : RunCascade(j)
           \/ \E j \in Reruns : Load(j) \/ LoadUnknown(j)
  BY <1>2, <1>3, QuietStep DEF Lifecycle!Register
<1>4. CASE Restart \/ \E j \in Jobs : StoreFails(j)
  BY <1>2, <1>4, FaultStep DEF Lifecycle!Abandon
<1>5. CASE Gate
  <2>1. PICK v, s :
          /\ pc[Process] = "verify"
          /\ \/ /\ RetriesLeft(Process)
                /\ retries' = [retries EXCEPT ![Process] = @ + 1]
                /\ pc' = [pc EXCEPT ![Process] = AfterRetry(v.failed)]
                /\ UNCHANGED row
             \/ /\ \/ Approved(v)
                   \/ ~RetriesLeft(Process)
                   \/ Halts(board[Process], s, v)
                /\ \E how \in Ended : pc' = [pc EXCEPT ![Process] = how]
                /\ UNCHANGED retries
                /\ \/ UNCHANGED row
                   \/ row'.status = FinalStatus(board[Process], s, v)
    BY <1>5, GateOutcome
  <2>2. row.status # "absent" /\ pc[Process] \notin Ended
    BY <1>2, <2>1 DEF LifeInv, Registered, Ended
  <2>3. retries[Process] \in 0..MaxRetries
    BY <1>1, PipelineAssumption DEF LifeInv, WithinRetries, TypeInv, TypeOK
  <2>4. CASE /\ RetriesLeft(Process)
             /\ retries' = [retries EXCEPT ![Process] = @ + 1]
             /\ pc' = [pc EXCEPT ![Process] = AfterRetry(v.failed)]
             /\ UNCHANGED row
    <3>1. pc'[Process] \notin Ended
      BY <1>1, <2>4 DEF AfterRetry, Ended, TypeInv, TypeOK
    <3>2. retries'[Process] = retries[Process] + 1
      BY <1>1, <2>4 DEF TypeInv, TypeOK
    <3> QED BY <2>2, <2>4, <3>1, <3>2 DEF Lifecycle!Retry, RetriesLeft
  <2>5. CASE /\ pc'[Process] \in Ended /\ UNCHANGED <<retries, row>>
    BY <2>2, <2>5 DEF Lifecycle!Abandon
  <2>6. CASE /\ Approved(v) \/ ~RetriesLeft(Process) \/ Halts(board[Process], s, v)
             /\ pc'[Process] \in Ended /\ UNCHANGED retries
             /\ row'.status = FinalStatus(board[Process], s, v)
    <3>1. /\ row'.status \in {"Submitted", "Rejected", "needs_manual_review"}
          /\ row'.status = "needs_manual_review" => ~RetriesLeft(Process)
      BY <2>6 DEF FinalStatus, Rejects
    <3>2. row'.status = "needs_manual_review" => retries[Process] = MaxRetries
      BY <2>3, <3>1, PipelineAssumption DEF RetriesLeft
    <3>3. Lifecycle!Decide(row'.status)
      BY <2>2, <2>6, <3>2 DEF Lifecycle!Decide
    <3> QED BY <3>1, <3>3
  <2>7. \A how \in Ended : pc' = [pc EXCEPT ![Process] = how] => pc'[Process] \in Ended
    BY <1>1 DEF TypeInv, TypeOK
  <2> QED BY <2>1, <2>4, <2>5, <2>6, <2>7
<1>6. ASSUME NEW j \in Reruns, Audit(j) \/ Reverify(j)
      PROVE  [Lifecycle!Next]_(Lifecycle!lifecycleVars)
  <2>1. /\ pc[j] \in Running
        /\ UNCHANGED <<pc[Process], retries[Process]>>
        /\ UNCHANGED row \/ row'.status \in {"Submitted", "needs_manual_review"}
    BY <1>6, RerunOutcome
  <2>2. row.status # "absent"
    BY <1>2, <2>1 DEF LifeInv, Registered
  <2> QED BY <2>1, <2>2 DEF Lifecycle!Reaudit
<1>7. CASE UNCHANGED vars
  BY <1>7 DEF vars
<1> QED BY <1>1, <1>3, <1>4, <1>5, <1>6, <1>7 DEF Next, ProcessStep, RerunStep

\* The service keeps the promise of TicketLifecycle for every number of
\* reruns, retries and faults: a ticket is decided at most once by its own
\* processing, is handed to manual review only when all retries are used,
\* never returns to "processing", and an audit never rejects
\* (agent/app/agent/core_agent.py, process_complaint and rerun_ticket).
THEOREM RefinesLifecycle == Spec => ImplementsLifecycle
BY LifecycleInit, LifecycleStep, TypeInvariant, LifeInvariant, PTL
   DEF Spec, ImplementsLifecycle, Lifecycle!Spec

----------------------------------------------------------------------------
(* The decision and the audit log                                          *)

\* No rerun has stored its own decision yet.
NoneReaudited == \A j \in Reruns : pc[j] # "done"

\* Until a rerun rewrites the ticket, its status is the one the processing
\* decided, and the log holds the verification that decided it.
DecisionInv ==
  /\ sticky[Process] => pc[Process] \in Ended
  /\ NoneReaudited =>
       /\ pc[Process] \notin Ended => row.status \in {"absent", "processing"}
       /\ sticky[Process] => row.status \in {"processing", "Rejected"}
       /\ TrailDecidesStatus
       /\ row.status = "needs_manual_review" =>
            row.retries = MaxRetries /\ ~row.contra

\* The audit log is append-only.
LogKept ==
  /\ Len(log) <= Len(log')
  /\ \A i \in DOMAIN log : i \in DOMAIN log' /\ log'[i] = log[i]

\* Appending an entry keeps the older ones.
LEMMA AppendKeeps ==
  ASSUME TypeInv, NEW e \in Entry, log' = log \/ log' = Append(log, e)
  PROVE  LogKept
<1>1. log \in Seq(Entry) /\ Len(log) \in Nat /\ DOMAIN log = 1..Len(log)
  BY LenProperties DEF TypeInv, TypeOK
<1>2. CASE log' = log
  BY <1>1, <1>2 DEF LogKept
<1>3. CASE log' = Append(log, e)
  <2>1. /\ log' \in Seq(Entry) /\ Len(log') = Len(log) + 1
        /\ \A i \in 1..Len(log) : log'[i] = log[i]
    BY <1>1, <1>3, AppendProperties
  <2>2. DOMAIN log' = 1..Len(log')
    BY <2>1, LenProperties
  <2> QED BY <1>1, <2>1, <2>2 DEF LogKept
<1> QED BY <1>2, <1>3

\* Appending the entries of a stage keeps the older ones.
LEMMA ConcatKeeps ==
  ASSUME TypeInv, NEW s \in Seq(Entry), log' = log \o s
  PROVE  LogKept
<1>1. log \in Seq(Entry) /\ Len(log) \in Nat /\ DOMAIN log = 1..Len(log)
  BY LenProperties DEF TypeInv, TypeOK
<1>2. /\ log' \in Seq(Entry) /\ Len(log') = Len(log) + Len(s)
      /\ \A i \in 1..(Len(log) + Len(s)) :
           log'[i] = IF i <= Len(log) THEN log[i] ELSE s[i - Len(log)]
  BY <1>1, ConcatProperties
<1>3. Len(s) \in Nat /\ DOMAIN log' = 1..Len(log')
  BY <1>2, LenProperties
<1> QED BY <1>1, <1>2, <1>3 DEF LogKept

\* No step of the service rewrites or drops an audit entry.
LEMMA LogStep ==
  ASSUME TypeInv, [Next]_vars  PROVE LogKept
<1>1. Process \in Jobs /\ Process \notin Reruns /\ Reruns \subseteq Jobs
  BY PipelineAssumption DEF Jobs
<1>2. CASE UNCHANGED log
  <2>1. log \in Seq(Entry)
    BY DEF TypeInv, TypeOK
  <2> QED BY <1>2, <2>1, LenProperties DEF LogKept
<1>3. ASSUME NEW n \in 1..2, NEW here, NEW next, NEW nextTodo,
             RunStage(n, here, next, nextTodo)
      PROVE  LogKept
  <2>1. UNCHANGED log \/ log' = log \o StageEntries(Process, n)
    BY <1>3 DEF RunStage
  <2> QED BY <1>1, <1>2, <2>1, StageEntriesType, ConcatKeeps
<1>4. CASE Stage1 \/ Stage2
  BY <1>3, <1>4 DEF Stage1, Stage2
<1>5. ASSUME NEW j \in Jobs, RunCascade(j)  PROVE LogKept
  <2> DEFINE a == NextIn(PipelineOrder, todo[j])
  <2>1. a \in Specialists
    BY <1>5, NextInCascade DEF RunCascade, TypeInv, TypeOK
  <2>2. log' = Append(log, AgentEntry(j, a, retries[j]))
    BY <1>5 DEF RunCascade
  <2> HIDE DEF a
  <2>3. AgentEntry(j, a, retries[j]) \in Entry
    BY <2>1 DEF AgentEntry, Entry, Agents, TypeInv, TypeOK
  <2> QED BY <2>2, <2>3, AppendKeeps
<1>6. CASE Gate
  <2>1. \E e \in Entry : log' = Append(log, e)
    BY <1>6, GateOutcome
  <2> QED BY <2>1, AppendKeeps
<1>7. ASSUME NEW j \in Reruns, Audit(j) \/ Reverify(j)  PROVE LogKept
  BY <1>7, RerunOutcome, AppendKeeps
<1>8. ASSUME NEW j \in Jobs, StoreFails(j)  PROVE LogKept
  <2>1. CASE ~UNCHANGED log
    <3>1. PICK k \in 1..2 :
            log' = log \o SubSeq(StageEntries(j,
                             IF pc[j] = "stage1" THEN 1 ELSE 2), 1, k)
      BY <1>8, <2>1 DEF StoreFails
    <3>2. SubSeq(StageEntries(j, IF pc[j] = "stage1" THEN 1 ELSE 2), 1, k)
            \in Seq(Entry)
      BY StageEntriesType
    <3> QED BY <3>1, <3>2, ConcatKeeps
  <2> QED BY <1>2, <2>1
<1> QED
  BY <1>1, <1>2, <1>4, <1>5, <1>6, <1>7, <1>8
     DEF Next, ProcessStep, RerunStep, Submit, Load, LoadUnknown, Restart, vars

\* A step that neither touches the row nor ends or marks the processing keeps
\* the decision: the entries it refers to stay in the log.
LEMMA DecisionKept ==
  ASSUME TypeInv, TypeInv', DecisionInv, LogKept,
         NoneReaudited' => NoneReaudited,
         UNCHANGED sticky[Process],
         pc[Process] \in Ended => pc'[Process] \in Ended,
         UNCHANGED row \/ (row = NoRow /\ row' = Stub /\ ~sticky[Process])
  PROVE  DecisionInv'
<1>1. Stub.status = "processing" /\ Stub.contra = FALSE
  BY DEF Stub
<1>2. CASE UNCHANGED row
  <2>1. TrailDecidesStatus => TrailDecidesStatus'
    BY <1>2 DEF TrailDecidesStatus, LogKept
  <2> QED BY <1>2, <2>1 DEF DecisionInv
<1>3. CASE row = NoRow /\ row' = Stub /\ ~sticky[Process]
  BY <1>1, <1>3 DEF DecisionInv, TrailDecidesStatus
<1> QED BY <1>2, <1>3

\* Every step keeps the decision invariant.
LEMMA DecisionStep ==
  TypeInv /\ TypeInv' /\ LifeInv /\ DecisionInv /\ [Next]_vars => DecisionInv'
<1> SUFFICES ASSUME TypeInv, TypeInv', LifeInv, DecisionInv, [Next]_vars
             PROVE  DecisionInv'
  OBVIOUS
<1>1. Process \in Jobs /\ Process \notin Reruns /\ Reruns \subseteq Jobs
  BY PipelineAssumption DEF Jobs
<1>2. LogKept
  BY LogStep
<1>3. row = NoRow => pc[Process] \notin {"verify", "cascade"}
  BY DEF LifeInv, Registered
<1>4. CASE Submit
  <2>1. /\ UNCHANGED <<row, sticky>>
        /\ NoneReaudited' => NoneReaudited
        /\ pc[Process] \notin Ended
    BY <1>1, <1>4 DEF Submit, NoneReaudited, Ended, TypeInv, TypeOK
  <2> QED BY <1>2, <2>1, DecisionKept
<1>5. CASE Stage1 \/ Stage2 \/ \E j \in Reruns : Load(j) \/ LoadUnknown(j)
  <2>1. NoneReaudited' => NoneReaudited
    BY <1>1, <1>5 DEF Stage1, Stage2, RunStage, Load, LoadUnknown,
                      NoneReaudited, TypeInv, TypeOK
  <2>2. /\ UNCHANGED sticky[Process]
        /\ pc[Process] \in Ended => pc'[Process] \in Ended
        /\ \/ UNCHANGED row
           \/ row = NoRow /\ row' = Stub /\ pc[Process] \notin Ended
    BY <1>5, QuietStep
  <2> QED BY <1>2, <2>1, <2>2, DecisionKept DEF DecisionInv
<1>6. ASSUME NEW j \in Jobs, RunCascade(j)  PROVE DecisionInv'
  <2>1. NoneReaudited' => NoneReaudited
    BY <1>1, <1>6 DEF RunCascade, NoneReaudited, TypeInv, TypeOK
  <2>2. /\ UNCHANGED sticky[Process]
        /\ pc[Process] \in Ended => pc'[Process] \in Ended
        /\ \/ UNCHANGED row
           \/ row = NoRow /\ row' = Stub /\ pc[Process] \notin Ended
    BY <1>6, QuietStep
  <2> QED BY <1>2, <2>1, <2>2, DecisionKept DEF DecisionInv
<1>7. CASE Restart \/ \E j \in Jobs : StoreFails(j)
  <2>1. NoneReaudited' => NoneReaudited
    <3>1. ASSUME NEW j \in Reruns, pc[j] = "done"  PROVE pc'[j] = "done"
      BY <1>1, <1>7, <3>1
         DEF Restart, StoreFails, Logging, Running, TypeInv, TypeOK
    <3> QED BY <3>1 DEF NoneReaudited
  <2>2. /\ UNCHANGED sticky[Process]
        /\ pc[Process] \in Ended => pc'[Process] \in Ended
        /\ \/ UNCHANGED row
           \/ row = NoRow /\ row' = Stub /\ pc[Process] \notin Ended
    BY <1>7, FaultStep
  <2> QED BY <1>2, <2>1, <2>2, DecisionKept DEF DecisionInv
<1>8. CASE Gate
  <2>1. PICK v, s :
          /\ pc[Process] = "verify"
          /\ log' = Append(log, GateEntry(Process, retries[Process], v))
          /\ GateEntry(Process, retries[Process], v) \in Entry
          /\ sticky' = [sticky EXCEPT ![Process] = s]
          /\ \/ /\ ~Halts(board[Process], s, v)
                /\ pc' = [pc EXCEPT ![Process] = AfterRetry(v.failed)]
                /\ UNCHANGED row
             \/ /\ \/ Approved(v)
                   \/ ~RetriesLeft(Process)
                   \/ Halts(board[Process], s, v)
                /\ \E how \in Ended : pc' = [pc EXCEPT ![Process] = how]
                /\ \/ UNCHANGED row
                   \/ /\ row'.status = FinalStatus(board[Process], s, v)
                      /\ row'.retries = retries[Process]
                      /\ row'.contra = board[Process].evidence.contra
                      /\ row'.trail = Len(log')
    BY <1>8, GateOutcome
  <2>2. NoneReaudited' => NoneReaudited
    BY <1>1, <2>1 DEF NoneReaudited, TypeInv, TypeOK
  <2>3. sticky'[Process] = s
    BY <1>1, <2>1 DEF TypeInv, TypeOK
  <2>4. pc[Process] \notin Ended /\ row # NoRow
    BY <1>3, <2>1 DEF Ended
  <2>5. NoneReaudited => row.status = "processing"
    BY <2>4, AbsentRow DEF DecisionInv, TypeInv, TypeOK
  <2>6. CASE UNCHANGED row
    <3>1. NoneReaudited' => row'.status = "processing"
      BY <2>2, <2>5, <2>6
    <3>2. s => pc'[Process] \in Ended
      BY <1>1, <2>1 DEF Halts, TypeInv, TypeOK
    <3> QED BY <2>3, <3>1, <3>2 DEF DecisionInv, TrailDecidesStatus
  <2>7. CASE /\ \/ Approved(v)
                \/ ~RetriesLeft(Process)
                \/ Halts(board[Process], s, v)
             /\ \E how \in Ended : pc' = [pc EXCEPT ![Process] = how]
             /\ row'.status = FinalStatus(board[Process], s, v)
             /\ row'.retries = retries[Process]
             /\ row'.contra = board[Process].evidence.contra
             /\ row'.trail = Len(log')
    <3>1. pc'[Process] \in Ended
      BY <1>1, <2>7 DEF TypeInv, TypeOK
    <3>2. s => row'.status = "Rejected"
      BY <2>7 DEF FinalStatus, Rejects, Halts
    <3>3. /\ row'.trail \in DOMAIN log'
          /\ log'[row'.trail] = GateEntry(Process, retries[Process], v)
      <4>1. log \in Seq(Entry)
        BY DEF TypeInv, TypeOK
      <4>2. /\ Len(log') = Len(log) + 1 /\ log' \in Seq(Entry)
            /\ log'[Len(log) + 1] = GateEntry(Process, retries[Process], v)
        BY <2>1, <4>1, AppendProperties
      <4>3. Len(log) \in Nat /\ DOMAIN log' = 1..Len(log')
        BY <4>1, <4>2, LenProperties
      <4> QED BY <2>7, <4>2, <4>3
    <3>4. TrailDecidesStatus'
      <4> DEFINE e == GateEntry(Process, retries[Process], v)
      <4>1. /\ e.agent = "verification" /\ e.attempt = retries[Process]
            /\ e.success = Approved(v)
        BY DEF GateEntry
      <4>2. row'.status \in {"Submitted", "needs_manual_review"} =>
              Approved(v) = (row'.status = "Submitted")
        BY <2>7 DEF FinalStatus, Approved
      <4> HIDE DEF e
      <4>3. log'[row'.trail] = e
        BY <3>3 DEF e
      <4> QED BY <2>7, <3>3, <4>1, <4>2, <4>3 DEF TrailDecidesStatus
    <3>5. row'.status = "needs_manual_review" =>
            row'.retries = MaxRetries /\ ~row'.contra
      <4>1. retries[Process] \in 0..MaxRetries
        BY <1>1, PipelineAssumption DEF LifeInv, WithinRetries, TypeInv, TypeOK
      <4>2. row'.status = "needs_manual_review" =>
              ~Halts(board[Process], s, v) /\ ~Approved(v)
        BY <2>7 DEF FinalStatus, Rejects
      <4>3. row'.status = "needs_manual_review" =>
              retries[Process] = MaxRetries
        BY <2>7, <4>1, <4>2, PipelineAssumption DEF RetriesLeft
      <4> QED BY <2>7, <4>2, <4>3 DEF Halts
    <3> QED BY <2>3, <3>1, <3>2, <3>4, <3>5 DEF DecisionInv
  <2> QED BY <2>1, <2>6, <2>7
<1>9. ASSUME NEW j \in Reruns, Audit(j) \/ Reverify(j)  PROVE DecisionInv'
  <2>1. /\ pc[j] \in Running
        /\ UNCHANGED <<pc[Process], sticky[Process]>>
        /\ \E p \in PC : pc' = [pc EXCEPT ![j] = p]
        /\ UNCHANGED row \/ pc'[j] = "done"
    BY <1>9, RerunOutcome
  <2>2. NoneReaudited' => NoneReaudited /\ UNCHANGED row
    BY <1>1, <2>1 DEF NoneReaudited, Running, TypeInv, TypeOK
  <2>3. CASE NoneReaudited'
    BY <1>2, <2>1, <2>2, <2>3, DecisionKept
  <2>4. CASE ~NoneReaudited'
    BY <2>1, <2>4 DEF DecisionInv
  <2> QED BY <2>3, <2>4
<1>10. CASE UNCHANGED vars
  <2>1. UNCHANGED <<row, sticky>> /\ pc' = pc
    BY <1>10 DEF vars
  <2>2. NoneReaudited' => NoneReaudited
    BY <2>1 DEF NoneReaudited
  <2> QED BY <1>2, <2>1, <2>2, DecisionKept
<1> QED
  BY <1>1, <1>4, <1>5, <1>6, <1>7, <1>8, <1>9, <1>10
     DEF Next, ProcessStep, RerunStep

\* Until a rerun rewrites the ticket, its stored status is the decision of
\* the processing and the audit log proves it (core_agent.py:165-279).
THEOREM DecisionInvariant == Spec => []DecisionInv
<1>1. Init => DecisionInv
  BY ProcessIsJob DEF Init, DecisionInv, TrailDecidesStatus, NoRow
<1> QED BY <1>1, TypeInvariant, LifeInvariant, DecisionStep, PTL DEF Spec

\* A contradiction seen by any verification of a new complaint ends its
\* processing, and the ticket is neither accepted nor queued for review
\* before a rerun rewrites it (core_agent.py:99-106 and 165-178).
THEOREM ContradictionEndsProcessing == Spec => []ContradictionIsFinal
<1>1. DecisionInv => ContradictionIsFinal
  BY DEF DecisionInv, ContradictionIsFinal, NoneReaudited
<1> QED BY <1>1, DecisionInvariant, PTL

\* A ticket reaches manual review only after every retry was used, with no
\* contradiction in its evidence and a failed verification as the last word
\* (core_agent.py:98-106 and 165-194).
THEOREM ManualReviewExhaustsRetries == Spec => []ManualReviewIsLastResort
<1>1. DecisionInv => ManualReviewIsLastResort
  BY DEF DecisionInv, ManualReviewIsLastResort, NoneReaudited, TrailDecidesStatus
<1> QED BY <1>1, DecisionInvariant, PTL

\* Until a rerun rewrites a ticket, the audit trail stored with it ends with
\* the verification that decided its status (core_agent.py:84-92, 155-163
\* and 236-258).
THEOREM TrailExplainsStatus == Spec => [](NoneReaudited => TrailDecidesStatus)
<1>1. DecisionInv => (NoneReaudited => TrailDecidesStatus)
  BY DEF DecisionInv
<1> QED BY <1>1, DecisionInvariant, PTL

----------------------------------------------------------------------------
(* The ticket a caller is handed                                           *)

\* Unless a step faults, it keeps a stored decision stored and lets no
\* coroutine return before its decision is stored.
LEMMA ReturnedStep ==
  ASSUME TypeInv, ReturnedIsStored, [Next]_vars  PROVE ReturnedIsStored'
<1>1. Process \in Jobs /\ Reruns \subseteq Jobs
  BY DEF Jobs
<1>2. ASSUME faults' = faults => /\ \A j \in Jobs : pc'[j] = "done" => pc[j] = "done"
                                 /\ UNCHANGED row \/ (row = NoRow /\ row' = Stub),
             faults' = faults \/ Fault
      PROVE  ReturnedIsStored'
  <2>1. faults \in Nat
    BY PipelineAssumption DEF TypeInv, TypeOK
  <2>2. Fault => faults' # 0
    BY <2>1 DEF Fault
  <2>3. row = NoRow => row.status \notin Final
    BY DEF NoRow, Final
  <2> QED BY <1>2, <2>2, <2>3 DEF ReturnedIsStored
<1>3. ASSUME row'.status \in Final  PROVE ReturnedIsStored'
  BY <1>3 DEF ReturnedIsStored
<1>4. CASE Submit \/ \E j \in Reruns : Load(j) \/ LoadUnknown(j)
  BY <1>1, <1>2, <1>4 DEF Submit, Load, LoadUnknown, TypeInv, TypeOK
<1>5. CASE Stage1 \/ Stage2
  <2>1. /\ UNCHANGED faults
        /\ UNCHANGED row \/ row' = RowWithStub
        /\ \E p \in {"stage2", "verify"} :
             UNCHANGED pc \/ pc' = [pc EXCEPT ![Process] = p]
    BY <1>5 DEF Stage1, Stage2, RunStage
  <2>2. UNCHANGED row \/ (row = NoRow /\ row' = Stub)
    BY <2>1 DEF RowWithStub
  <2>3. \A j \in Jobs : pc'[j] = "done" => pc[j] = "done"
    BY <1>1, <2>1 DEF TypeInv, TypeOK
  <2> QED BY <1>2, <2>1, <2>2, <2>3
<1>6. ASSUME NEW j \in Jobs, RunCascade(j)  PROVE ReturnedIsStored'
  BY <1>1, <1>2, <1>6 DEF RunCascade, TypeInv, TypeOK
<1>7. ASSUME NEW j \in Jobs, NEW failed, Retry(j, failed), UNCHANGED <<row, faults>>
      PROVE  ReturnedIsStored'
  BY <1>2, <1>7 DEF Retry, AfterRetry, TypeInv, TypeOK
<1>8. ASSUME NEW j \in Jobs, EndJob(j, "failed"), UNCHANGED row,
             UNCHANGED faults \/ Fault
      PROVE  ReturnedIsStored'
  BY <1>2, <1>8 DEF EndJob, TypeInv, TypeOK
<1>9. CASE Gate
  <2>1. PICK v, s : \/ Retry(Process, v.failed) /\ UNCHANGED <<row, faults>>
                    \/ Conclude(v, s)
    BY <1>9 DEF Gate
  <2>2. CASE Conclude(v, s)
    <3> DEFINE t == [status |-> FinalStatus(board[Process], s, v),
                     type |-> board[Process].issue.type,
                     incident |-> board[Process].incident,
                     workflow |-> board[Process].workflow,
                     contra |-> board[Process].evidence.contra,
                     retries |-> retries[Process], trail |-> TrailLength]
    <3>1. t.status \in Final
      BY DEF FinalStatus, Final
    <3> HIDE DEF t
    <3>2. \/ EndJob(Process, "failed") /\ UNCHANGED <<row, faults>>
          \/ Save(t)
      BY <2>2 DEF Conclude, t
    <3>3. \/ row' = t
          \/ Fault
          \/ EndJob(Process, "failed") /\ UNCHANGED <<row, faults>>
      BY <3>2 DEF Save
    <3>4. CASE Fault
      <4>1. faults' # faults
        BY <3>4, PipelineAssumption DEF Fault, TypeInv, TypeOK
      <4> QED BY <1>2, <3>4, <4>1
    <3> QED BY <1>1, <1>3, <1>8, <3>1, <3>3, <3>4
  <2> QED BY <1>1, <1>7, <2>1, <2>2
<1>10. ASSUME NEW j \in Reruns, Audit(j) \/ Reverify(j)
       PROVE  ReturnedIsStored'
  <2>1. PICK v : AfterAudit(j, v)
    BY <1>10 DEF Audit, Reverify, RerunGate
  <2>2. base[j] \in Ticket
    BY <1>1 DEF TypeInv, TypeOK
  <2>3. RerunStatus(v) \in Final
    BY DEF RerunStatus, Final
  <2>4. row' = [base[j] EXCEPT !.status  = RerunStatus(v),
                               !.retries = retries[j],
                               !.trail   = TrailLength]
          => row'.status \in Final
    BY <2>2, <2>3 DEF Ticket
  <2> QED BY <1>1, <1>3, <1>7, <1>8, <2>1, <2>4 DEF AfterAudit
<1>11. ASSUME Restart \/ \E j \in Jobs : StoreFails(j)
       PROVE  ReturnedIsStored'
  <2>1. Fault /\ faults' # faults
    BY <1>11, PipelineAssumption DEF Restart, StoreFails, Fault, TypeInv, TypeOK
  <2> QED BY <1>2, <2>1
<1>12. CASE UNCHANGED vars
  BY <1>12 DEF vars, ReturnedIsStored
<1> QED
  BY <1>1, <1>4, <1>5, <1>6, <1>9, <1>10, <1>11, <1>12
     DEF Next, ProcessStep, RerunStep

\* Without a fault a ticket that process_complaint or rerun_ticket returned
\* is in the database with a final status (core_agent.py:273-279, 376-384).
THEOREM ReturnedTicketsAreStored == Spec => []ReturnedIsStored
<1>1. Init => ReturnedIsStored
  BY DEF Init, ReturnedIsStored
<1>2. TypeInv /\ ReturnedIsStored /\ [Next]_vars => ReturnedIsStored'
  BY ReturnedStep
<1> QED BY <1>1, <1>2, TypeInvariant, PTL DEF Spec

----------------------------------------------------------------------------
(* One coroutine's view of a step                                          *)

\* The log grows by s.
Grown(s) ==
  /\ s \in Seq(Entry)
  /\ DOMAIN log' = 1..(Len(log) + Len(s))
  /\ \A i \in 1..Len(log) : log'[i] = log[i]
  /\ \A i \in 1..Len(s) : log'[Len(log) + i] = s[i]

\* The step is not one of coroutine j.
Waits(j) ==
  /\ UNCHANGED <<pc[j], todo[j], retries[j], base[j]>>
  /\ \E s : Grown(s) /\ \A i \in 1..Len(s) : s[i].job # j

\* Coroutine j has been accepted, loaded, or has run one agent of a stage.
Begins(j) ==
  /\ Grown(<<>>)
  /\ \/ /\ pc[j] = "idle" /\ pc'[j] = "stage1" /\ j = Process
        /\ UNCHANGED <<retries[j], base[j]>>
     \/ /\ pc[j] = "idle" /\ pc'[j] = "audit" /\ j # Process
        /\ retries'[j] = base'[j].retries
     \/ /\ pc[j] \in {"stage1", "stage2"} /\ j = Process
        /\ UNCHANGED <<pc[j], retries[j], base[j]>>

\* It has run the last agent of stage n.
EndsStage(j, n) ==
  /\ j = Process
  /\ pc[j] = IF n = 1 THEN "stage1" ELSE "stage2"
  /\ pc'[j] = IF n = 1 THEN "stage2" ELSE "verify"
  /\ UNCHANGED <<retries[j], base[j]>>
  /\ Grown(StageEntries(j, n))

\* It has run the next agent of its cascade.
RunsNext(j) ==
  LET a == NextIn(PipelineOrder, todo[j])
  IN /\ pc[j] = "cascade" /\ a \in todo[j]
     /\ todo'[j] = todo[j] \ {a}
     /\ pc'[j] = IF todo'[j] = {} THEN "verify" ELSE "cascade"
     /\ UNCHANGED <<retries[j], base[j]>>
     /\ Grown(<<AgentEntry(j, a, retries[j])>>)

\* What a verification logs: nothing when it is the first one of a rerun.
LogsGate(j, v) ==
  \/ pc[j] = "verify" /\ Grown(<<GateEntry(j, retries[j], v)>>)
  \/ pc[j] = "audit" /\ j # Process /\ Grown(<<>>)

\* It has failed a verification and starts another attempt.
TriesAgain(j, v) ==
  /\ ~Approved(v) /\ RetriesLeft(j)
  /\ LogsGate(j, v)
  /\ retries'[j] = retries[j] + 1
  /\ todo'[j] = Cascade(v.failed)
  /\ pc'[j] = AfterRetry(v.failed)
  /\ UNCHANGED base[j]

\* It has ended with a verification.
Concludes(j, v) ==
  /\ LogsGate(j, v)
  /\ pc'[j] \in Ended
  /\ UNCHANGED <<retries[j], base[j]>>

\* It has ended otherwise: nothing to rerun, a database error, a restart.
Quits(j) ==
  /\ pc'[j] \in Ended
  /\ UNCHANGED <<retries[j], base[j]>>
  /\ \E s : Grown(s) /\ \A i \in 1..Len(s) : s[i].agent # "verification"

View(j) ==
  \/ Waits(j) \/ Begins(j) \/ RunsNext(j) \/ Quits(j)
  \/ \E n \in 1..2 : EndsStage(j, n)
  \/ \E v : TriesAgain(j, v) \/ Concludes(j, v)

\* The three ways the log grows: not at all, by one entry, by several.
LEMMA GrownBy ==
  ASSUME TypeInv
  PROVE  /\ UNCHANGED log => Grown(<<>>)
         /\ \A e \in Entry : log' = Append(log, e) => Grown(<<e>>)
         /\ \A s \in Seq(Entry) : log' = log \o s => Grown(s)
<1>1. log \in Seq(Entry) /\ Len(log) \in Nat /\ DOMAIN log = 1..Len(log)
  BY LenProperties DEF TypeInv, TypeOK
<1>2. UNCHANGED log => Grown(<<>>)
  <2>1. <<>> \in Seq(Entry) /\ Len(<<>>) = 0
    BY EmptySeq
  <2> QED BY <1>1, <2>1 DEF Grown
<1>3. ASSUME NEW e \in Entry, log' = Append(log, e)  PROVE Grown(<<e>>)
  <2>1. /\ log' \in Seq(Entry) /\ Len(log') = Len(log) + 1
        /\ \A i \in 1..Len(log) : log'[i] = log[i]
        /\ log'[Len(log) + 1] = e
    BY <1>1, <1>3, AppendProperties
  <2>2. DOMAIN log' = 1..(Len(log) + 1)
    BY <2>1, LenProperties
  <2>3. <<e>> \in Seq(Entry) /\ Len(<<e>>) = 1 /\ <<e>>[1] = e
    OBVIOUS
  <2> HIDE DEF Entry
  <2>4. \A i \in 1..1 : log'[Len(log) + i] = <<e>>[i]
    BY <2>1, <2>3
  <2> QED BY <2>1, <2>2, <2>3, <2>4 DEF Grown
<1>4. ASSUME NEW s \in Seq(Entry), log' = log \o s  PROVE Grown(s)
  <2>1. /\ log' \in Seq(Entry) /\ Len(log') = Len(log) + Len(s)
        /\ \A i \in 1..(Len(log) + Len(s)) :
             log'[i] = IF i <= Len(log) THEN log[i] ELSE s[i - Len(log)]
    BY <1>1, <1>4, ConcatProperties
  <2>2. Len(s) \in Nat /\ DOMAIN log' = 1..(Len(log) + Len(s))
    BY <2>1, LenProperties
  <2>3. \A i \in 1..Len(log) : log'[i] = log[i]
    BY <1>1, <2>1, <2>2
  <2>4. ASSUME NEW i \in 1..Len(s)  PROVE log'[Len(log) + i] = s[i]
    <3>1. /\ Len(log) + i \in 1..(Len(log) + Len(s)) /\ ~(Len(log) + i <= Len(log))
          /\ Len(log) + i - Len(log) = i
      BY <1>1, <2>2
    <3> QED BY <2>1, <3>1
  <2> QED BY <2>2, <2>3, <2>4 DEF Grown
<1> QED BY <1>2, <1>3, <1>4

\* A stage logs three specialists, all for the processing.
LEMMA StageLogs ==
  ASSUME NEW j \in Jobs, NEW n \in 1..2
  PROVE  /\ StageEntries(j, n) \in Seq(Entry) /\ Len(StageEntries(j, n)) = 3
         /\ \A i \in 1..3 : /\ StageEntries(j, n)[i] \in Entry
                            /\ StageEntries(j, n)[i].job = j
                            /\ StageEntries(j, n)[i].agent = Stages[n][i]
                            /\ Stages[n][i] \in Specialists
<1>1. \A i \in 1..3 : Stages[n][i] \in Specialists
  BY DEF Stages, Specialists
<1>2. \A i \in 1..3 : StageEntries(j, n)[i] = AgentEntry(j, Stages[n][i], 0)
  BY DEF StageEntries
<1>3. \A i \in 1..3 : AgentEntry(j, Stages[n][i], 0) \in Entry
  BY <1>1 DEF AgentEntry, Entry, Agents
<1>4. StageEntries(j, n) \in [1..3 -> Entry]
  BY <1>3 DEF StageEntries
<1>5. StageEntries(j, n) \in Seq(Entry)
  BY StageEntriesType
<1>6. Len(StageEntries(j, n)) = 3
  BY <1>4, <1>5, LenProperties
<1>7. ASSUME NEW i \in 1..3
      PROVE  /\ StageEntries(j, n)[i] \in Entry
             /\ StageEntries(j, n)[i].job = j
             /\ StageEntries(j, n)[i].agent = Stages[n][i]
  <2> DEFINE e == AgentEntry(j, Stages[n][i], 0)
  <2>1. e.job = j /\ e.agent = Stages[n][i]
    BY DEF AgentEntry
  <2>2. StageEntries(j, n)[i] = e /\ e \in Entry
    BY <1>2, <1>3
  <2> HIDE DEF e
  <2> QED BY <2>1, <2>2
<1> QED BY <1>1, <1>5, <1>6, <1>7

\* A database error stores a prefix of them.
LEMMA PrefixLogs ==
  ASSUME NEW j \in Jobs, NEW n \in 1..2, NEW k \in 1..2
  PROVE  LET s == SubSeq(StageEntries(j, n), 1, k)
         IN /\ s \in Seq(Entry)
            /\ \A i \in 1..Len(s) : s[i].job = j /\ s[i].agent # "verification"
<1> DEFINE t == StageEntries(j, n)
           s == SubSeq(t, 1, k)
<1>1. t \in Seq(Entry) /\ Len(t) = 3
  BY StageLogs
<1>2. \A i \in 1..3 : t[i].job = j /\ t[i].agent # "verification"
  BY StageLogs DEF Specialists
<1> HIDE DEF t
<1>3. s \in Seq(Entry) /\ Len(s) = k /\ \A i \in 1..k : s[i] = t[i]
  BY <1>1, SubSeqProperties
<1> QED BY <1>2, <1>3 DEF t

\* Running a stage of the processing, as each coroutine sees it.
LEMMA RunStageView ==
  ASSUME TypeInv, NEW j \in Jobs, Stage1 \/ Stage2  PROVE View(j)
<1>1. PICK n \in 1..2 :
        /\ pc[Process] = IF n = 1 THEN "stage1" ELSE "stage2"
        /\ UNCHANGED <<retries, base>>
        /\ \/ UNCHANGED <<pc, log>>
           \/ /\ pc' = [pc EXCEPT ![Process] = IF n = 1 THEN "stage2" ELSE "verify"]
              /\ log' = log \o StageEntries(Process, n)
  <2>1. CASE Stage1
    <3>1. /\ pc[Process] = "stage1" /\ UNCHANGED <<retries, base>>
          /\ \/ UNCHANGED <<pc, log>>
             \/ /\ pc' = [pc EXCEPT ![Process] = "stage2"]
                /\ log' = log \o StageEntries(Process, 1)
      BY <2>1 DEF Stage1, RunStage
    <3> QED BY <3>1
  <2>2. CASE Stage2
    <3>1. /\ pc[Process] = "stage2" /\ UNCHANGED <<retries, base>>
          /\ \/ UNCHANGED <<pc, log>>
             \/ /\ pc' = [pc EXCEPT ![Process] = "verify"]
                /\ log' = log \o StageEntries(Process, 2)
      BY <2>2 DEF Stage2, RunStage
    <3> QED BY <3>1
  <2> QED BY <2>1, <2>2
<1>2. PICK t : todo' = [todo EXCEPT ![Process] = t]
  BY DEF Stage1, Stage2, RunStage
<1>3. CASE UNCHANGED <<pc, log>>
  <2>1. Grown(<<>>) /\ Len(<<>>) = 0
    BY <1>3, GrownBy, EmptySeq
  <2>2. CASE j = Process
    BY <1>1, <1>3, <2>1, <2>2 DEF Begins, View
  <2>3. CASE j # Process
    <3>1. UNCHANGED <<pc[j], todo[j], retries[j], base[j]>>
      BY <1>2, <1>1, <1>3, <2>3 DEF TypeInv, TypeOK
    <3> QED BY <2>1, <3>1 DEF Waits, View
  <2> QED BY <2>2, <2>3
<1>4. CASE /\ pc' = [pc EXCEPT ![Process] = IF n = 1 THEN "stage2" ELSE "verify"]
           /\ log' = log \o StageEntries(Process, n)
  <2>1. Grown(StageEntries(Process, n))
    BY <1>4, GrownBy, StageLogs, ProcessIsJob
  <2>2. CASE j = Process
    <3>1. /\ pc'[j] = (IF n = 1 THEN "stage2" ELSE "verify")
          /\ UNCHANGED <<retries[j], base[j]>>
      BY <1>1, <1>4, <2>2 DEF TypeInv, TypeOK
    <3> QED BY <1>1, <2>1, <2>2, <3>1 DEF EndsStage, View
  <2>3. CASE j # Process
    <3>1. UNCHANGED <<pc[j], todo[j], retries[j], base[j]>>
      BY <1>2, <1>1, <1>4, <2>3 DEF TypeInv, TypeOK
    <3> DEFINE s == StageEntries(Process, n)
    <3>2. Len(s) = 3 /\ \A i \in 1..3 : s[i].job = Process
      BY StageLogs, ProcessIsJob
    <3>3. Grown(s)
      BY <2>1
    <3> HIDE DEF s
    <3>4. \A i \in 1..Len(s) : s[i].job # j
      BY <2>3, <3>2
    <3> QED BY <3>1, <3>3, <3>4 DEF Waits, View
  <2> QED BY <2>2, <2>3
<1> QED BY <1>1, <1>3, <1>4

\* Accepting a complaint and loading a ticket.
LEMMA StartView ==
  ASSUME TypeInv, NEW j \in Jobs,
         Submit \/ \E k \in Reruns : Load(k) \/ LoadUnknown(k)
  PROVE  View(j)
<1>1. Process \in Jobs /\ Process \notin Reruns /\ Reruns \subseteq Jobs
  BY PipelineAssumption DEF Jobs
<1>2. Grown(<<>>) /\ Len(<<>>) = 0
  BY GrownBy, EmptySeq DEF Submit, Load, LoadUnknown
<1>3. CASE Submit
  <2>1. CASE j = Process
    BY <1>2, <1>3, <2>1 DEF Submit, Begins, View, TypeInv, TypeOK
  <2>2. CASE j # Process
    <3>1. UNCHANGED <<pc[j], todo[j], retries[j], base[j]>>
      BY <1>3, <2>2 DEF Submit, TypeInv, TypeOK
    <3> QED BY <1>2, <3>1 DEF Waits, View
  <2> QED BY <2>1, <2>2
<1>4. ASSUME NEW k \in Reruns, Load(k)  PROVE View(j)
  <2>1. CASE j = k
    <3>1. /\ pc[j] = "idle" /\ pc'[j] = "audit" /\ j # Process
          /\ retries'[j] = row.retries /\ base'[j] = row
      BY <1>1, <1>4, <2>1 DEF Load, TypeInv, TypeOK
    <3> QED BY <1>2, <3>1 DEF Begins, View
  <2>2. CASE j # k
    <3>1. UNCHANGED <<pc[j], todo[j], retries[j], base[j]>>
      BY <1>4, <2>2 DEF Load, TypeInv, TypeOK
    <3> QED BY <1>2, <3>1 DEF Waits, View
  <2> QED BY <2>1, <2>2
<1>5. ASSUME NEW k \in Reruns, LoadUnknown(k)  PROVE View(j)
  <2>1. CASE j = k
    BY <1>2, <1>5, <2>1 DEF LoadUnknown, Quits, View, Ended, TypeInv, TypeOK
  <2>2. CASE j # k
    <3>1. UNCHANGED <<pc[j], todo[j], retries[j], base[j]>>
      BY <1>5, <2>2 DEF LoadUnknown, TypeInv, TypeOK
    <3> QED BY <1>2, <3>1 DEF Waits, View
  <2> QED BY <2>1, <2>2
<1> QED BY <1>3, <1>4, <1>5

\* Running one agent of a cascade.
LEMMA CascadeView ==
  ASSUME TypeInv, NEW j \in Jobs, NEW k \in Jobs, RunCascade(k)  PROVE View(j)
<1> DEFINE a == NextIn(PipelineOrder, todo[k])
           e == AgentEntry(k, a, retries[k])
<1>1. a \in todo[k] /\ a \in Specialists
  BY NextInCascade DEF RunCascade, TypeInv, TypeOK
<1>2. /\ pc[k] = "cascade"
      /\ todo' = [todo EXCEPT ![k] = todo[k] \ {a}]
      /\ pc' = [pc EXCEPT ![k] = IF todo[k] \ {a} = {} THEN "verify" ELSE @]
      /\ log' = Append(log, e)
      /\ UNCHANGED <<retries, base>>
  BY DEF RunCascade
<1> HIDE DEF a
<1>3. e \in Entry /\ e.job = k
  BY <1>1 DEF AgentEntry, Entry, Agents, TypeInv, TypeOK
<1>4. Grown(<<e>>)
  BY <1>2, <1>3, GrownBy
<1>5. CASE j = k
  <2>1. /\ todo'[j] = todo[j] \ {a}
        /\ pc'[j] = IF todo'[j] = {} THEN "verify" ELSE "cascade"
        /\ UNCHANGED <<retries[j], base[j]>>
    BY <1>2, <1>5 DEF TypeInv, TypeOK
  <2> QED BY <1>1, <1>2, <1>4, <1>5, <2>1 DEF RunsNext, View, a
<1>6. CASE j # k
  <2>1. UNCHANGED <<pc[j], todo[j], retries[j], base[j]>>
    BY <1>2, <1>6 DEF TypeInv, TypeOK
  <2> HIDE DEF e
  <2>2. Len(<<e>>) = 1 /\ <<e>>[1].job # j
    BY <1>3, <1>6
  <2>3. \A i \in 1..Len(<<e>>) : <<e>>[i].job # j
    BY <2>2
  <2> QED BY <1>4, <2>1, <2>3 DEF Waits, View
<1> QED BY <1>5, <1>6

\* Verifying, in the processing and in a rerun.
LEMMA GateView ==
  ASSUME TypeInv, NEW j \in Jobs, NEW k \in Jobs, NEW v,
         v.failed \in SUBSET Agents,
         \/ pc[k] = "verify" /\ log' = Append(log, GateEntry(k, retries[k], v))
         \/ pc[k] = "audit" /\ k # Process /\ UNCHANGED log,
         \/ ~Approved(v) /\ RetriesLeft(k) /\ Retry(k, v.failed)
         \/ \E how \in Ended : EndJob(k, how),
         UNCHANGED base
  PROVE  View(j)
<1> DEFINE e == GateEntry(k, retries[k], v)
<1>1. e \in Entry /\ e.job = k
  BY GateEntryType DEF GateEntry
<1>2. PICK s : /\ Grown(s) /\ \A i \in 1..Len(s) : s[i].job = k
               /\ \/ pc[k] = "verify" /\ s = <<e>>
                  \/ pc[k] = "audit" /\ k # Process /\ s = <<>>
  <2> HIDE DEF e
  <2>1. Len(<<>>) = 0 /\ Len(<<e>>) = 1 /\ <<e>>[1] = e
    BY EmptySeq
  <2>2. CASE pc[k] = "verify" /\ log' = Append(log, e)
    <3>1. Grown(<<e>>)
      BY <1>1, <2>2, GrownBy
    <3>2. \A i \in 1..Len(<<e>>) : <<e>>[i].job = k
      BY <1>1, <2>1
    <3> QED BY <2>2, <3>1, <3>2
  <2>3. CASE pc[k] = "audit" /\ k # Process /\ UNCHANGED log
    <3>1. Grown(<<>>)
      BY <2>3, GrownBy
    <3> QED BY <2>1, <2>3, <3>1
  <2> QED BY <2>2, <2>3 DEF e
<1>3. CASE j = k
  <2>1. LogsGate(j, v)
    BY <1>2, <1>3 DEF LogsGate
  <2>2. CASE ~Approved(v) /\ RetriesLeft(k) /\ Retry(k, v.failed)
    <3>1. /\ retries'[j] = retries[j] + 1 /\ todo'[j] = Cascade(v.failed)
          /\ pc'[j] = AfterRetry(v.failed) /\ UNCHANGED base[j]
      BY <1>3, <2>2 DEF Retry, TypeInv, TypeOK
    <3> QED BY <1>3, <2>1, <2>2, <3>1 DEF TriesAgain, View
  <2>3. CASE \E how \in Ended : EndJob(k, how)
    <3>1. pc'[j] \in Ended /\ UNCHANGED <<retries[j], base[j]>>
      BY <1>3, <2>3 DEF EndJob, TypeInv, TypeOK
    <3> QED BY <2>1, <3>1 DEF Concludes, View
  <2> QED BY <2>2, <2>3
<1>4. CASE j # k
  <2>1. UNCHANGED <<pc[j], todo[j], retries[j], base[j]>>
    BY <1>4 DEF Retry, EndJob, TypeInv, TypeOK
  <2> QED BY <1>2, <1>4, <2>1 DEF Waits, View
<1> QED BY <1>3, <1>4

\* A database error, a restart.
LEMMA FaultView ==
  ASSUME TypeInv, NEW j \in Jobs, Restart \/ \E k \in Jobs : StoreFails(k)
  PROVE  View(j)
<1>1. CASE Restart
  <2>1. Grown(<<>>) /\ Len(<<>>) = 0
    BY <1>1, GrownBy, EmptySeq DEF Restart
  <2>2. /\ pc'[j] = IF pc[j] \in Running THEN "lost" ELSE pc[j]
        /\ UNCHANGED <<todo[j], retries[j], base[j]>>
    BY <1>1 DEF Restart
  <2>3. CASE pc[j] \in Running
    BY <2>1, <2>2, <2>3 DEF Quits, View, Ended
  <2>4. CASE pc[j] \notin Running
    BY <2>1, <2>2, <2>4 DEF Waits, View
  <2> QED BY <2>3, <2>4
<1>2. ASSUME NEW k \in Jobs, StoreFails(k)  PROVE View(j)
  <2>1. /\ pc' = [pc EXCEPT ![k] = "failed"]
        /\ UNCHANGED <<todo, retries, base>>
    BY <1>2 DEF StoreFails
  <2>2. PICK s : /\ Grown(s)
                 /\ \A i \in 1..Len(s) : s[i].job = k /\ s[i].agent # "verification"
    <3>1. CASE UNCHANGED log
      <4>1. Grown(<<>>) /\ Len(<<>>) = 0
        BY <3>1, GrownBy, EmptySeq
      <4> QED BY <4>1
    <3>2. CASE ~UNCHANGED log
      <4>1. PICK n \in 1..2, l \in 1..2 :
              log' = log \o SubSeq(StageEntries(k, n), 1, l)
        BY <1>2, <3>2 DEF StoreFails
      <4> DEFINE s == SubSeq(StageEntries(k, n), 1, l)
      <4>2. /\ s \in Seq(Entry)
            /\ \A i \in 1..Len(s) : s[i].job = k /\ s[i].agent # "verification"
        BY PrefixLogs
      <4>3. log' = log \o s
        BY <4>1
      <4> HIDE DEF s
      <4>4. Grown(s)
        BY <4>2, <4>3, GrownBy
      <4> QED BY <4>2, <4>4
    <3> QED BY <3>1, <3>2
  <2>3. CASE j = k
    BY <2>1, <2>2, <2>3 DEF Quits, View, Ended, TypeInv, TypeOK
  <2>4. CASE j # k
    BY <2>1, <2>2, <2>4 DEF Waits, View, TypeInv, TypeOK
  <2> QED BY <2>3, <2>4
<1> QED BY <1>1, <1>2

\* Every step is one of these to every coroutine.
LEMMA StepView ==
  ASSUME TypeInv, [Next]_vars, NEW j \in Jobs  PROVE View(j)
<1>1. Process \in Jobs /\ Process \notin Reruns /\ Reruns \subseteq Jobs
  BY PipelineAssumption DEF Jobs
<1>2. CASE Gate
  <2>1. PICK answer \in VerifierAnswers :
          LET v == Verdict(in[Process], board[Process], answer)
              s == sticky[Process] \/ Contradicts(in[Process], board[Process])
          IN /\ log' = Append(log, GateEntry(Process, retries[Process], v))
             /\ IF ~Approved(v) /\ RetriesLeft(Process)
                   /\ ~Halts(board[Process], s, v)
                THEN /\ Retry(Process, v.failed)
                     /\ UNCHANGED <<board, row, faults>>
                ELSE Conclude(v, s)
    BY <1>2 DEF Gate
  <2> DEFINE v == Verdict(in[Process], board[Process], answer)
             s == sticky[Process] \/ Contradicts(in[Process], board[Process])
  <2>2. v.failed \in SUBSET Agents
    BY VerdictType
  <2> HIDE DEF v, s
  <2>3. Conclude(v, s) => \E how \in Ended : EndJob(Process, how)
    BY DEF Conclude, Save, Ended
  <2>4. /\ \/ ~Approved(v) /\ RetriesLeft(Process) /\ Retry(Process, v.failed)
           \/ \E how \in Ended : EndJob(Process, how)
        /\ log' = Append(log, GateEntry(Process, retries[Process], v))
    BY <2>1, <2>3 DEF v, s
  <2>5. pc[Process] = "verify" /\ UNCHANGED base
    BY <1>2 DEF Gate
  <2> QED BY <1>1, <2>2, <2>4, <2>5, GateView
<1>3. ASSUME NEW k \in Reruns, Audit(k) \/ Reverify(k)  PROVE View(j)
  <2>1. PICK here \in {"audit", "verify"} : RerunGate(k, here)
    BY <1>3 DEF Audit, Reverify
  <2>2. PICK answer \in VerifierAnswers :
          LET v == Verdict(in[k], board[k], answer)
          IN /\ log' = IF here = "audit" THEN log
                       ELSE Append(log, GateEntry(k, retries[k], v))
             /\ AfterAudit(k, v)
    BY <2>1 DEF RerunGate
  <2> DEFINE v == Verdict(in[k], board[k], answer)
  <2>3. v.failed \in SUBSET Agents
    BY VerdictType
  <2> HIDE DEF v
  <2>4. /\ \/ ~Approved(v) /\ RetriesLeft(k) /\ Retry(k, v.failed)
           \/ \E how \in Ended : EndJob(k, how)
        /\ \/ here = "verify" /\ log' = Append(log, GateEntry(k, retries[k], v))
           \/ here = "audit" /\ UNCHANGED log
    BY <2>2 DEF v, AfterAudit, Ended
  <2>5. pc[k] = here /\ UNCHANGED base /\ k \in Jobs /\ k # Process
    BY <1>1, <2>1 DEF RerunGate
  <2> QED BY <2>3, <2>4, <2>5, GateView
<1>4. CASE UNCHANGED vars
  <2>1. Grown(<<>>) /\ Len(<<>>) = 0
    BY <1>4, GrownBy, EmptySeq DEF vars
  <2> QED BY <1>4, <2>1 DEF Waits, View, vars
<1> QED
  BY <1>1, <1>2, <1>3, <1>4, RunStageView, StartView, CascadeView, FaultView
     DEF Next, ProcessStep, RerunStep

----------------------------------------------------------------------------
(* The verifications of a coroutine                                        *)

Budget(j) ==
  IF j = Process THEN MaxRetries + 1
  ELSE IF MaxRetries < base[j].retries THEN 0 ELSE MaxRetries - base[j].retries

\* Verifications of coroutine j are as many as its retries account for.
\* The first one of a rerun is not logged, so a rerun has one less.
Counted(j) ==
  /\ pc[j] \in {"idle", "audit", "stage1", "stage2"} => GatesOf(j) = {}
  /\ pc[j] \in {"idle", "stage1", "stage2"} /\ j = Process => retries[j] = 0
  /\ pc[j] = "audit" => retries[j] = base[j].retries
  /\ pc[j] \in {"cascade", "verify"} =>
       /\ retries[j] <= MaxRetries
       /\ Cardinality(GatesOf(j)) = IF j = Process THEN retries[j]
                                    ELSE retries[j] - base[j].retries - 1
  /\ Cardinality(GatesOf(j)) <= Budget(j)

CountInv == \A j \in Jobs : Counted(j)

\* Old entries keep their place; new ones of others, or of specialists, add
\* no entry, or no verification, of coroutine j.
LEMMA OldEntries ==
  ASSUME TypeInv, NEW s, Grown(s), NEW j
  PROVE  /\ Len(log) \in Nat
         /\ \A i \in EntriesOf(j) : i \in 1..Len(log) /\ log'[i] = log[i]
         /\ (\A i \in 1..Len(s) : s[i].job # j) =>
              UNCHANGED <<EntriesOf(j), GatesOf(j)>>
         /\ (\A i \in 1..Len(s) : s[i].agent # "verification") =>
              UNCHANGED GatesOf(j)
<1>1. Len(log) \in Nat /\ DOMAIN log = 1..Len(log)
  BY LenProperties DEF TypeInv, TypeOK
<1>2. Len(s) \in Nat
  BY LenProperties DEF Grown
<1>3. \A i \in 1..Len(log) : i \in DOMAIN log' /\ log'[i] = log[i]
  BY <1>1, <1>2 DEF Grown
<1>4. ASSUME NEW i \in DOMAIN log', i \notin 1..Len(log)
      PROVE  \E k \in 1..Len(s) : log'[i] = s[k]
  <2>1. i \in 1..(Len(log) + Len(s)) /\ i - Len(log) \in 1..Len(s)
    BY <1>1, <1>2, <1>4 DEF Grown
  <2>2. log'[Len(log) + (i - Len(log))] = s[i - Len(log)]
    BY <2>1 DEF Grown
  <2>3. Len(log) + (i - Len(log)) = i
    BY <1>1, <2>1
  <2> QED BY <2>1, <2>2, <2>3
<1>5. ASSUME \A i \in 1..Len(s) : s[i].job # j
      PROVE  UNCHANGED <<EntriesOf(j), GatesOf(j)>>
  <2>1. \A i \in DOMAIN log' : log'[i].job = j => i \in 1..Len(log)
    BY <1>4, <1>5
  <2>2. UNCHANGED EntriesOf(j)
    BY <1>1, <1>3, <2>1 DEF EntriesOf
  <2> QED BY <1>1, <1>3, <2>2 DEF GatesOf, EntriesOf
<1>6. ASSUME \A i \in 1..Len(s) : s[i].agent # "verification"
      PROVE  UNCHANGED GatesOf(j)
  <2>1. \A i \in DOMAIN log' : log'[i].agent = "verification" => i \in 1..Len(log)
    BY <1>4, <1>6
  <2> QED BY <1>1, <1>3, <2>1 DEF GatesOf, EntriesOf
<1> QED BY <1>1, <1>3, <1>5, <1>6 DEF EntriesOf

\* Nothing was logged.
LEMMA NoEntry ==
  ASSUME TypeInv, Grown(<<>>), NEW j
  PROVE  /\ UNCHANGED <<EntriesOf(j), GatesOf(j)>>
         /\ \A i \in EntriesOf(j) : log'[i] = log[i]
<1>1. Len(<<>>) = 0
  BY EmptySeq
<1>2. \A i \in 1..Len(<<>>) : <<>>[i].job # j
  BY <1>1
<1> QED BY <1>2, OldEntries

\* Coroutine j logged one entry: it is the last, and the others stay.
LEMMA OneEntry ==
  ASSUME TypeInv, NEW e, Grown(<<e>>), NEW j, e.job = j
  PROVE  LET n == Len(log) + 1
         IN /\ n \in Nat /\ n \notin EntriesOf(j)
            /\ \A i \in EntriesOf(j) : i \in Nat /\ i < n /\ log'[i] = log[i]
            /\ EntriesOf(j)' = EntriesOf(j) \cup {n}
            /\ GatesOf(j)' = IF e.agent = "verification"
                             THEN GatesOf(j) \cup {n} ELSE GatesOf(j)
            /\ log'[n] = e
<1> DEFINE n == Len(log) + 1
<1>1. Len(log) \in Nat /\ DOMAIN log = 1..Len(log)
  BY LenProperties DEF TypeInv, TypeOK
<1>2. Len(<<e>>) = 1 /\ <<e>>[1] = e
  OBVIOUS
<1>3. DOMAIN log' = 1..n /\ log'[n] = e
  BY <1>1, <1>2 DEF Grown
<1>4. DOMAIN log' = DOMAIN log \cup {n} /\ n \notin DOMAIN log
  BY <1>1, <1>3
<1>5. \A i \in DOMAIN log : i \in Nat /\ i < n /\ log'[i] = log[i]
  BY <1>1 DEF Grown
<1> HIDE DEF n
<1>6. EntriesOf(j)' = EntriesOf(j) \cup {n}
  BY <1>3, <1>4, <1>5 DEF EntriesOf
<1>7. e.agent = "verification" => GatesOf(j)' = GatesOf(j) \cup {n}
  BY <1>3, <1>4, <1>5, <1>6 DEF EntriesOf, GatesOf
<1>8. e.agent # "verification" => GatesOf(j)' = GatesOf(j)
  BY <1>3, <1>4, <1>5, <1>6 DEF EntriesOf, GatesOf
<1>9. n \in Nat
  BY <1>1 DEF n
<1>10. \A i \in EntriesOf(j) : i \in DOMAIN log
  BY DEF EntriesOf
<1> QED BY <1>3, <1>4, <1>5, <1>6, <1>7, <1>8, <1>9, <1>10 DEF n

\* The verifications of a coroutine are finitely many.
LEMMA GatesFinite ==
  ASSUME TypeInv, NEW j
  PROVE  IsFiniteSet(GatesOf(j)) /\ Cardinality(GatesOf(j)) \in Nat
<1>1. Len(log) \in Nat /\ DOMAIN log = 1..Len(log)
  BY LenProperties DEF TypeInv, TypeOK
<1>2. IsFiniteSet(1..Len(log))
  BY <1>1, FS_Interval
<1>3. GatesOf(j) \subseteq 1..Len(log)
  BY <1>1 DEF GatesOf, EntriesOf
<1> QED BY <1>2, <1>3, FS_Subset, FS_CardinalityType

\* One verification more, or as many as before.
LEMMA GatesAfter ==
  ASSUME TypeInv, TypeInv', NEW j \in Jobs, NEW v, LogsGate(j, v)
  PROVE  Cardinality(GatesOf(j))' =
           IF pc[j] = "verify" THEN Cardinality(GatesOf(j)) + 1
           ELSE Cardinality(GatesOf(j))
<1>1. CASE pc[j] = "verify" /\ Grown(<<GateEntry(j, retries[j], v)>>)
  <2> DEFINE e == GateEntry(j, retries[j], v)
             n == Len(log) + 1
  <2>1. e.job = j /\ e.agent = "verification"
    BY DEF GateEntry
  <2> HIDE DEF e
  <2>2. n \notin GatesOf(j) /\ GatesOf(j)' = GatesOf(j) \cup {n}
    <3>1. Grown(<<e>>)
      BY <1>1 DEF e
    <3>2. n \notin EntriesOf(j) /\ GatesOf(j)' = GatesOf(j) \cup {n}
      BY <2>1, <3>1, OneEntry
    <3> QED BY <3>2 DEF GatesOf
  <2>3. Cardinality(GatesOf(j) \cup {n}) = Cardinality(GatesOf(j)) + 1
    BY <2>2, GatesFinite, FS_AddElement
  <2> QED BY <1>1, <2>2, <2>3
<1>2. CASE pc[j] = "audit" /\ Grown(<<>>)
  BY <1>2, NoEntry
<1> QED BY <1>1, <1>2 DEF LogsGate

\* A step of one coroutine keeps its own verifications counted.
LEMMA CountedStep ==
  ASSUME TypeInv, TypeInv', NEW j \in Jobs, Counted(j), View(j)
  PROVE  Counted(j)'
<1> DEFINE c == Cardinality(GatesOf(j))
<1>1. /\ c \in Nat /\ MaxRetries \in Nat
      /\ retries[j] \in Nat /\ base[j].retries \in Nat
  BY GatesFinite, PipelineAssumption DEF TypeInv, TypeOK, Ticket
<1>2. CASE Waits(j)
  <2>1. UNCHANGED <<GatesOf(j), c, pc[j], retries[j], base[j]>>
    BY <1>2, OldEntries DEF Waits
  <2> QED BY <2>1 DEF Counted, Budget
<1>3. CASE Begins(j)
  <2>1. UNCHANGED <<GatesOf(j), c>>
    BY <1>3, NoEntry DEF Begins
  <2>2. GatesOf(j) = {} => c = 0
    BY FS_EmptySet
  <2> HIDE DEF c
  <2>3. Cardinality(GatesOf(j)) = c /\ Cardinality(GatesOf(j))' = c
    BY <2>1 DEF c
  <2>4. base'[j].retries \in Nat
    BY DEF TypeInv, TypeOK, Ticket
  <2>5. c <= Budget(j)'
    BY <1>1, <1>3, <2>2, <2>3, <2>4 DEF Begins, Counted, Budget
  <2> QED BY <1>3, <2>1, <2>3, <2>5 DEF Begins, Counted
<1>4. CASE RunsNext(j)
  <2> DEFINE e == AgentEntry(j, NextIn(PipelineOrder, todo[j]), retries[j])
  <2>1. Grown(<<e>>) /\ e.job = j /\ e.agent # "verification"
    BY <1>4 DEF RunsNext, AgentEntry, TypeInv, TypeOK, Specialists
  <2> HIDE DEF e
  <2>2. UNCHANGED <<GatesOf(j), c>>
    BY <2>1, OneEntry
  <2>3. /\ pc[j] = "cascade" /\ pc'[j] \in {"cascade", "verify"}
        /\ UNCHANGED <<retries[j], base[j]>>
    BY <1>4 DEF RunsNext
  <2> QED BY <2>2, <2>3 DEF Counted, Budget
<1>5. CASE Quits(j)
  <2>1. UNCHANGED <<GatesOf(j), c>>
    BY <1>5, OldEntries DEF Quits
  <2> QED BY <1>5, <2>1 DEF Quits, Counted, Budget, Ended
<1>6. ASSUME NEW n \in 1..2, EndsStage(j, n)  PROVE Counted(j)'
  <2> DEFINE s == StageEntries(j, n)
  <2>1. Len(s) = 3 /\ \A i \in 1..3 : s[i].agent # "verification"
    BY StageLogs DEF Specialists
  <2>2. Grown(s)
    BY <1>6 DEF EndsStage
  <2> HIDE DEF s
  <2>3. UNCHANGED <<GatesOf(j), c>>
    BY <2>1, <2>2, OldEntries
  <2>4. GatesOf(j) = {} => c = 0
    BY FS_EmptySet
  <2>5. /\ pc[j] \in {"stage1", "stage2"} /\ pc'[j] \in {"stage2", "verify"}
        /\ UNCHANGED <<retries[j], base[j]>> /\ j = Process
    BY <1>6 DEF EndsStage
  <2> HIDE DEF c
  <2>6. Cardinality(GatesOf(j)) = c /\ Cardinality(GatesOf(j))' = c
    BY <2>3 DEF c
  <2> QED BY <1>1, <2>3, <2>4, <2>5, <2>6 DEF Counted, Budget
<1>7. ASSUME NEW v, TriesAgain(j, v)  PROVE Counted(j)'
  <2>1. c' = IF pc[j] = "verify" THEN c + 1 ELSE c
    BY <1>7, GatesAfter DEF TriesAgain
  <2>2. GatesOf(j) = {} => c = 0
    BY FS_EmptySet
  <2> HIDE DEF c
  <2>3. Cardinality(GatesOf(j)) = c /\ Cardinality(GatesOf(j))' = c'
    BY DEF c
  <2>4. /\ retries[j] < MaxRetries /\ retries'[j] = retries[j] + 1
        /\ UNCHANGED base[j]
        /\ pc'[j] \in {"cascade", "verify"}
        /\ pc[j] = "verify" \/ (pc[j] = "audit" /\ j # Process)
    BY <1>7 DEF TriesAgain, LogsGate, AfterRetry, RetriesLeft
  <2>5. CASE j = Process
    BY <1>1, <2>1, <2>3, <2>4, <2>5 DEF Counted, Budget
  <2>6. CASE j # Process /\ pc[j] = "verify"
    BY <1>1, <2>1, <2>3, <2>4, <2>6 DEF Counted, Budget
  <2>7. CASE j # Process /\ pc[j] = "audit"
    BY <1>1, <2>1, <2>2, <2>3, <2>4, <2>7 DEF Counted, Budget
  <2> QED BY <2>4, <2>5, <2>6, <2>7
<1>8. ASSUME NEW v, Concludes(j, v)  PROVE Counted(j)'
  <2>1. c' = IF pc[j] = "verify" THEN c + 1 ELSE c
    BY <1>8, GatesAfter DEF Concludes
  <2> HIDE DEF c
  <2>2. Cardinality(GatesOf(j)) = c /\ Cardinality(GatesOf(j))' = c'
    BY DEF c
  <2>3. /\ UNCHANGED <<retries[j], base[j]>> /\ pc'[j] \in Ended
        /\ pc[j] = "verify" \/ pc[j] = "audit"
    BY <1>8 DEF Concludes, LogsGate
  <2>4. GatesOf(j) = {} => Cardinality(GatesOf(j)) = 0
    BY FS_EmptySet
  <2>5. pc[j] = "audit" => Cardinality(GatesOf(j))' <= Budget(j)'
    BY <1>1, <2>1, <2>2, <2>3, <2>4 DEF Counted, Budget
  <2>6. pc[j] = "verify" => Cardinality(GatesOf(j))' <= Budget(j)'
    BY <1>1, <2>1, <2>2, <2>3 DEF Counted, Budget
  <2> QED BY <2>3, <2>5, <2>6 DEF Counted, Ended
<1> QED BY <1>2, <1>3, <1>4, <1>5, <1>6, <1>7, <1>8 DEF View

\* Verifications stay counted.
LEMMA CountStep == TypeInv /\ TypeInv' /\ CountInv /\ [Next]_vars => CountInv'
BY StepView, CountedStep DEF CountInv

\* Each run of the retry loop has the verifications its retries account for,
\* whatever other runs and faults do (core_agent.py:98-163 and 338-375).
LEMMA CountInvariant == Spec => []CountInv
<1>1. Init => CountInv
  <2> SUFFICES ASSUME Init, NEW j \in Jobs  PROVE Counted(j)
    BY DEF CountInv
  <2>1. GatesOf(j) = {}
    BY DEF Init, GatesOf, EntriesOf
  <2>2. Cardinality(GatesOf(j)) = 0
    BY <2>1, FS_EmptySet
  <2>3. pc[j] = "idle" /\ retries[j] = 0 /\ base[j].retries = 0
    BY DEF Init, Stub
  <2> QED BY <2>1, <2>2, <2>3, PipelineAssumption DEF Counted, Budget
<1> QED BY <1>1, CountStep, TypeInvariant, PTL DEF Spec

\* No run of the loop exceeds its budget of verifications: MaxRetries + 1 for
\* a new complaint, what the stored ticket has left for a rerun
\* (core_agent.py:98-106 and 341).
THEOREM AttemptsAreBounded == Spec => []AttemptsWithinBudget
<1>1. CountInv => AttemptsWithinBudget
  BY PipelineAssumption
     DEF CountInv, Counted, Budget, AttemptsWithinBudget, Jobs
<1> QED BY <1>1, CountInvariant, PTL

----------------------------------------------------------------------------
(* What the gate reads                                                     *)

\* Of what is unread, U, all but E will be read by an agent that has still to
\* run: S now, L in a later stage.  So will what the agents of S write.
Ahead(S, L, E, U) ==
  /\ \A p \in U : p[1] \in S \cup L \/ p \in E
  /\ \A a \in S : \A x \in Readers(a) : x \in S \cup L \/ <<x, a>> \in E

\* An agent reads only what ranks before it.
LEMMA ReadersFollow ==
  ASSUME NEW a \in Specialists, NEW x \in Readers(a)
  PROVE  x \in Specialists /\ Rank[a] < Rank[x]
<1>1. x \in Specialists /\ a \in Reads[x]
  BY DEF Readers
<1> QED BY <1>1 DEF Specialists, Reads, Rank

\* Running the first agent that is pending keeps it so.
LEMMA AheadRun ==
  ASSUME NEW S \in SUBSET Specialists, NEW L, NEW E, NEW U, Ahead(S, L, E, U),
         NEW a \in S, \A b \in S \ {a} : Rank[a] < Rank[b]
  PROVE  Ahead(S \ {a}, L, E,
               {p \in U : p[1] # a} \cup {<<x, a>> : x \in Readers(a)})
<1> DEFINE rest == S \ {a}
<1>1. \A b \in Specialists : Rank[b] \in Nat
  BY DEF Specialists, Rank
<1>2. ASSUME NEW x \in Readers(a)  PROVE x \in rest \cup L \/ <<x, a>> \in E
  <2>1. x # a
    BY <1>1, ReadersFollow
  <2> QED BY <2>1 DEF Ahead
<1>3. ASSUME NEW b \in rest, NEW x \in Readers(b)
      PROVE  x \in rest \cup L \/ <<x, b>> \in E
  <2>1. x \in Specialists /\ Rank[b] < Rank[x] /\ Rank[a] < Rank[b]
    BY <1>3, ReadersFollow
  <2>2. x # a
    BY <1>1, <2>1
  <2> QED BY <2>2 DEF Ahead
<1>4. ASSUME NEW p \in U, p[1] # a  PROVE p[1] \in rest \cup L \/ p \in E
  BY <1>4 DEF Ahead
<1> QED BY <1>2, <1>3, <1>4 DEF Ahead

\* A cascade reruns who reads what it rewrites, but for two dependences.
LEMMA CascadeAhead ==
  ASSUME NEW failed \in SUBSET Agents, NEW a \in Cascade(failed), NEW x \in Readers(a)
  PROVE  x \in Cascade(failed) \/ <<x, a>> \in Overlooked
<1>1. a \in Specialists /\ x \in Specialists /\ a \in Reads[x]
  BY DEF Cascade, Readers
<1>2. \A f \in failed : Downstream[f] \cap Specialists \subseteq Cascade(failed)
  BY DEF Cascade
<1>3. CASE a \in failed
  <2>1. x \in Downstream[a] \/ <<x, a>> \in Overlooked
    BY <1>1 DEF Specialists, Reads, Downstream, Overlooked
  <2> QED BY <1>1, <1>2, <1>3, <2>1
<1>4. CASE a \notin failed
  <2>1. PICK f \in failed : a \in Downstream[f]
    BY <1>4 DEF Cascade
  <2>2. x \in Downstream[f] \/ <<x, a>> \in Overlooked
    BY <1>1, <2>1 DEF Agents, Specialists, Reads, Downstream, Overlooked
  <2> QED BY <1>1, <1>2, <2>2
<1> QED BY <1>3, <1>4

\* The agents of the two stages read only each other.
LEMMA StagesAhead ==
  /\ Ahead(StageSet(1), StageSet(2), {}, {})
  /\ \A U : (\A p \in U : p[1] \in StageSet(2)) => Ahead(StageSet(2), {}, {}, U)
<1>1. \A a \in StageSet(1) : Readers(a) \subseteq StageSet(1) \cup StageSet(2)
  BY DEF StageSet, Readers, Specialists
<1>2. \A a \in StageSet(2) : Readers(a) \subseteq StageSet(2)
  BY DEF StageSet, Readers, Specialists, Reads
<1> QED BY <1>1, <1>2 DEF Ahead

Unread(j) == board[j].unread

FreshInv ==
  /\ \A j \in Jobs : pc[j] \in {"idle", "audit"} => Unread(j) = {}
  /\ pc[Process] = "stage1" =>
       Ahead(todo[Process], StageSet(2), {}, Unread(Process))
  /\ pc[Process] = "stage2" => Ahead(todo[Process], {}, {}, Unread(Process))
  /\ \A j \in Jobs : pc[j] = "cascade" => Ahead(todo[j], {}, Overlooked, Unread(j))
  /\ pc[Process] = "cascade" => retries[Process] > 0
  /\ GateSeesFreshOutputs

\* What it says of one coroutine.
FreshOf(j) ==
  /\ pc[j] \in {"idle", "audit"} => Unread(j) = {}
  /\ j = Process /\ pc[j] = "stage1" => Ahead(todo[j], StageSet(2), {}, Unread(j))
  /\ j = Process /\ pc[j] = "stage2" => Ahead(todo[j], {}, {}, Unread(j))
  /\ pc[j] = "cascade" =>
       /\ Ahead(todo[j], {}, Overlooked, Unread(j))
       /\ j = Process => retries[j] > 0
  /\ pc[j] = "verify" =>
       /\ Unread(j) \subseteq Overlooked
       /\ j = Process /\ retries[j] = 0 => Unread(j) = {}

LEMMA FreshEach == FreshInv <=> \A j \in Jobs : FreshOf(j)
BY ProcessIsJob DEF FreshInv, FreshOf, GateSeesFreshOutputs, Unread

\* A coroutine that is not touched stays as it is.
LEMMA FreshStays ==
  ASSUME NEW j \in Jobs, FreshOf(j),
         UNCHANGED <<pc[j], todo[j], retries[j], board[j]>>
  PROVE  FreshOf(j)'
BY DEF FreshOf, Unread

\* One that ends owes nothing.
LEMMA FreshEnds ==
  ASSUME NEW j \in Jobs, pc'[j] \in Ended
  PROVE  FreshOf(j)'
BY DEF FreshOf, Ended

\* Another attempt starts from what the gate has just read.
LEMMA FreshRetry ==
  ASSUME TypeInv, NEW j \in Jobs, FreshOf(j), pc[j] \in {"verify", "audit"},
         NEW failed \in SUBSET Agents, Retry(j, failed), UNCHANGED board
  PROVE  FreshOf(j)'
<1>1. Unread(j)' \subseteq Overlooked
  BY DEF FreshOf, Unread
<1>2. retries'[j] > 0 /\ todo'[j] = Cascade(failed) /\ pc'[j] = AfterRetry(failed)
  BY DEF Retry, TypeInv, TypeOK
<1>3. Ahead(Cascade(failed), {}, Overlooked, Unread(j)')
  BY <1>1, CascadeAhead DEF Ahead
<1>4. pc'[j] \in {"verify", "cascade"} /\ retries'[j] # 0
  BY <1>2 DEF AfterRetry
<1> QED BY <1>1, <1>2, <1>3, <1>4 DEF FreshOf

\* One agent of a stage.
LEMMA FreshStage ==
  ASSUME TypeInv, FreshOf(Process), NEW n \in 1..2,
         \/ n = 1 /\ Stage1
         \/ n = 2 /\ Stage2
  PROVE  FreshOf(Process)'
<1> DEFINE j == Process
           L == IF n = 1 THEN StageSet(2) ELSE {}
           a == NextIn(Stages[n], todo[j])
           rest == todo[j] \ {a}
<1>1. /\ pc[j] = IF n = 1 THEN "stage1" ELSE "stage2"
      /\ todo[j] # {} /\ todo[j] \in SUBSET StageSet(n)
      /\ todo[j] \in SUBSET Specialists
      /\ Ahead(todo[j], L, {}, Unread(j))
  BY ProcessIsJob DEF Stage1, Stage2, RunStage, FreshOf, TypeInv, TypeOK, StagePending
<1>2. a \in todo[j] /\ \A b \in todo[j] \ {a} : Rank[a] < Rank[b]
  BY <1>1, StageFirst
<1>3. PICK b \in RunAgent(a, in[j], board[j]) : board' = [board EXCEPT ![j] = b]
  BY DEF Stage1, Stage2, RunStage
<1>4. /\ rest # {} => todo' = [todo EXCEPT ![j] = rest] /\ UNCHANGED pc
      /\ rest = {} => /\ todo' = [todo EXCEPT ![j] = L]
                      /\ pc' = [pc EXCEPT ![j] = IF n = 1 THEN "stage2" ELSE "verify"]
  BY DEF Stage1, Stage2, RunStage
<1> HIDE DEF a
<1>5. Unread(j)' = {p \in Unread(j) : p[1] # a} \cup {<<x, a>> : x \in Readers(a)}
  <2>1. a \in Specialists /\ in[j] \in Input /\ board[j] \in Board
    BY <1>1, <1>2, ProcessIsJob DEF TypeInv, TypeOK
  <2>2. board'[j] = b
    BY <1>3, ProcessIsJob DEF TypeInv, TypeOK
  <2> QED BY <2>1, <2>2, RunAgentType, RanType DEF Unread
<1>6. Ahead(rest, L, {}, Unread(j)')
  BY <1>1, <1>2, <1>5, AheadRun
<1> HIDE DEF rest
<1>7. CASE rest # {}
  <2>1. todo'[j] = rest /\ pc'[j] = pc[j]
    BY <1>4, <1>7, ProcessIsJob DEF TypeInv, TypeOK
  <2> QED BY <1>1, <1>6, <2>1 DEF FreshOf
<1>8. CASE rest = {}
  <2>1. todo'[j] = L /\ pc'[j] = IF n = 1 THEN "stage2" ELSE "verify"
    BY <1>4, <1>8, ProcessIsJob DEF TypeInv, TypeOK
  <2>2. \A p \in Unread(j)' : p[1] \in L
    BY <1>6, <1>8 DEF Ahead
  <2>3. CASE n = 1
    <3>1. Ahead(StageSet(2), {}, {}, Unread(j)')
      BY <2>2, <2>3, StagesAhead
    <3> QED BY <2>1, <2>3, <3>1 DEF FreshOf
  <2>4. CASE n = 2
    <3>1. Unread(j)' = {}
      BY <2>2, <2>4
    <3> QED BY <2>1, <2>4, <3>1 DEF FreshOf
  <2> QED BY <2>3, <2>4
<1> QED BY <1>7, <1>8

\* One agent of a cascade.
LEMMA FreshCascade ==
  ASSUME TypeInv, NEW j \in Jobs, FreshOf(j), RunCascade(j)
  PROVE  FreshOf(j)'
<1> DEFINE a == NextIn(PipelineOrder, todo[j])
           rest == todo[j] \ {a}
<1>1. /\ pc[j] = "cascade" /\ todo[j] # {} /\ todo[j] \in SUBSET Specialists
      /\ Ahead(todo[j], {}, Overlooked, Unread(j))
      /\ j = Process => retries[j] > 0
  BY DEF RunCascade, FreshOf, TypeInv, TypeOK
<1>2. a \in todo[j] /\ \A b \in todo[j] \ {a} : Rank[a] < Rank[b]
  BY <1>1, NextIsFirst
<1>3. PICK b \in RunAgent(a, in[j], board[j]) : board' = [board EXCEPT ![j] = b]
  BY DEF RunCascade
<1>4. /\ todo'[j] = rest
      /\ pc'[j] = IF rest = {} THEN "verify" ELSE "cascade"
      /\ retries'[j] = retries[j] /\ retries[j] \in Nat
  BY <1>1 DEF RunCascade, TypeInv, TypeOK
<1> HIDE DEF a
<1>5. Unread(j)' = {p \in Unread(j) : p[1] # a} \cup {<<x, a>> : x \in Readers(a)}
  <2>1. a \in Specialists /\ in[j] \in Input /\ board[j] \in Board
    BY <1>1, <1>2 DEF TypeInv, TypeOK
  <2>2. board'[j] = b
    BY <1>3 DEF TypeInv, TypeOK
  <2> QED BY <2>1, <2>2, RunAgentType, RanType DEF Unread
<1>6. Ahead(rest, {}, Overlooked, Unread(j)')
  BY <1>1, <1>2, <1>5, AheadRun
<1> HIDE DEF rest
<1>7. CASE rest # {}
  BY <1>1, <1>4, <1>6, <1>7 DEF FreshOf
<1>8. CASE rest = {}
  <2>1. Unread(j)' \subseteq Overlooked
    BY <1>6, <1>8 DEF Ahead
  <2> QED BY <1>1, <1>4, <1>8, <2>1 DEF FreshOf
<1> QED BY <1>7, <1>8

\* A coroutine that starts has written nothing.
LEMMA FreshStart ==
  ASSUME TypeInv, NEW j \in Jobs, FreshOf(j),
         \/ Submit /\ j = Process
         \/ Load(j) \/ LoadUnknown(j)
  PROVE  FreshOf(j)'
<1>1. CASE Submit /\ j = Process
  <2>1. /\ pc'[j] = "stage1" /\ todo'[j] = StageSet(1) /\ Unread(j)' = Unread(j)
        /\ pc[j] = "idle"
    BY <1>1 DEF Submit, Unread, TypeInv, TypeOK
  <2>2. Unread(j) = {}
    BY <2>1 DEF FreshOf
  <2> QED BY <2>1, <2>2, StagesAhead DEF FreshOf
<1>2. CASE Load(j)
  <2>1. pc'[j] = "audit"
    BY <1>2 DEF Load, TypeInv, TypeOK
  <2>2. board'[j].unread = {}
    BY <1>2 DEF Load, EmptyBoard, TypeInv, TypeOK
  <2> QED BY <2>1, <2>2 DEF FreshOf, Unread
<1>3. CASE LoadUnknown(j)
  <2>1. pc'[j] = "notfound"
    BY <1>3 DEF LoadUnknown, TypeInv, TypeOK
  <2> QED BY <2>1, FreshEnds DEF Ended
<1> QED BY <1>1, <1>2, <1>3

\* A verification: another attempt or the end.
LEMMA FreshGate ==
  ASSUME TypeInv, NEW j \in Jobs, FreshOf(j),
         \/ Gate /\ j = Process
         \/ Audit(j) \/ Reverify(j)
  PROVE  FreshOf(j)'
<1>1. CASE Gate /\ j = Process
  <2>1. PICK answer \in VerifierAnswers :
          LET v == Verdict(in[j], board[j], answer)
              s == sticky[j] \/ Contradicts(in[j], board[j])
          IN \/ Retry(j, v.failed) /\ UNCHANGED board
             \/ Conclude(v, s)
    BY <1>1 DEF Gate
  <2> DEFINE v == Verdict(in[j], board[j], answer)
             s == sticky[j] \/ Contradicts(in[j], board[j])
  <2>2. v.failed \in SUBSET Agents
    BY VerdictType
  <2>3. pc[j] = "verify"
    BY <1>1 DEF Gate
  <2> HIDE DEF v, s
  <2>4. CASE Retry(j, v.failed) /\ UNCHANGED board
    BY <2>2, <2>3, <2>4, FreshRetry
  <2>5. CASE Conclude(v, s)
    <3>1. \E how \in Ended : EndJob(j, how)
      BY <1>1, <2>5 DEF Conclude, Save, Ended
    <3>2. pc'[j] \in Ended
      BY <3>1 DEF EndJob, TypeInv, TypeOK
    <3> QED BY <3>2, FreshEnds
  <2> QED BY <2>1, <2>4, <2>5 DEF v, s
<1>2. CASE Audit(j) \/ Reverify(j)
  <2>1. PICK here \in {"audit", "verify"} : RerunGate(j, here)
    BY <1>2 DEF Audit, Reverify
  <2>2. PICK answer \in VerifierAnswers :
          AfterAudit(j, Verdict(in[j], board[j], answer))
    BY <2>1 DEF RerunGate
  <2> DEFINE v == Verdict(in[j], board[j], answer)
  <2>3. v.failed \in SUBSET Agents
    BY VerdictType
  <2>4. pc[j] \in {"verify", "audit"}
    BY <2>1 DEF RerunGate
  <2> HIDE DEF v
  <2>5. \/ Retry(j, v.failed) /\ UNCHANGED board
        \/ \E how \in Ended : EndJob(j, how)
    BY <2>2 DEF v, AfterAudit, Ended
  <2>6. (\E how \in Ended : EndJob(j, how)) => pc'[j] \in Ended
    BY DEF EndJob, TypeInv, TypeOK
  <2> QED BY <2>3, <2>4, <2>5, <2>6, FreshRetry, FreshEnds
<1> QED BY <1>1, <1>2

\* Nothing is unread before anything is written.
LEMMA FreshInit == Init => FreshInv
<1> SUFFICES ASSUME Init  PROVE \A j \in Jobs : FreshOf(j)
  BY FreshEach
<1>1. \A j \in Jobs : pc[j] = "idle" /\ board[j].unread = {}
  BY DEF Init, EmptyBoard
<1> QED BY <1>1 DEF FreshOf, Unread

\* The invariant is inductive: a coroutine runs its agents in the order in which
\* they read each other.
LEMMA FreshStep == TypeInv /\ FreshInv /\ [Next]_vars => FreshInv'
<1> SUFFICES ASSUME TypeInv, FreshInv, [Next]_vars, NEW j \in Jobs
             PROVE  FreshOf(j)'
  BY ProcessIsJob DEF FreshInv, FreshOf, GateSeesFreshOutputs, Unread
<1>1. FreshOf(j) /\ Process \in Jobs /\ Process \notin Reruns /\ Reruns \subseteq Jobs
  BY FreshEach, PipelineAssumption DEF Jobs
<1>2. ASSUME ProcessStep  PROVE FreshOf(j)'
  <2>1. CASE j = Process
    BY <1>1, <1>2, <2>1, FreshStart, FreshStage, FreshCascade, FreshGate
       DEF ProcessStep
  <2>2. CASE j # Process
    <3>1. UNCHANGED <<pc[j], todo[j], retries[j], board[j]>>
      BY <1>2, <2>2
         DEF ProcessStep, Submit, Stage1, Stage2, RunStage, RunCascade, Gate, Retry,
             Conclude, Save, EndJob, TypeInv, TypeOK
    <3> QED BY <1>1, <3>1, FreshStays
  <2> QED BY <2>1, <2>2
<1>3. ASSUME NEW k \in Reruns, RerunStep(k)  PROVE FreshOf(j)'
  <2>1. CASE j = k
    BY <1>1, <1>3, <2>1, FreshStart, FreshCascade, FreshGate DEF RerunStep
  <2>2. CASE j # k
    <3>1. UNCHANGED <<pc[j], todo[j], retries[j], board[j]>>
      BY <1>3, <2>2
         DEF RerunStep, Load, LoadUnknown, Audit, Reverify, RerunGate, AfterAudit,
             RunCascade, Retry, EndJob, TypeInv, TypeOK
    <3> QED BY <1>1, <3>1, FreshStays
  <2> QED BY <2>1, <2>2
<1>4. ASSUME NEW k \in Jobs, StoreFails(k)  PROVE FreshOf(j)'
  <2>1. CASE j = k
    <3>1. pc'[j] = "failed"
      BY <1>4, <2>1 DEF StoreFails, TypeInv, TypeOK
    <3> QED BY <3>1, FreshEnds DEF Ended
  <2>2. CASE j # k
    <3>1. UNCHANGED <<pc[j], todo[j], retries[j], board[j]>>
      BY <1>4, <2>2 DEF StoreFails, TypeInv, TypeOK
    <3> QED BY <1>1, <3>1, FreshStays
  <2> QED BY <2>1, <2>2
<1>5. CASE Restart
  <2>1. /\ pc'[j] = IF pc[j] \in Running THEN "lost" ELSE pc[j]
        /\ board'[j].unread = {}
    BY <1>5 DEF Restart, EmptyBoard
  <2>2. CASE pc[j] \in Running
    BY <2>1, <2>2, FreshEnds DEF Ended
  <2>3. CASE pc[j] \notin Running
    BY <2>1, <2>3 DEF FreshOf, Unread, Running
  <2> QED BY <2>2, <2>3
<1>6. CASE UNCHANGED vars
  <2>1. UNCHANGED <<pc[j], todo[j], retries[j], board[j]>>
    BY <1>6 DEF vars
  <2> QED BY <1>1, <2>1, FreshStays
<1> QED BY <1>2, <1>3, <1>4, <1>5, <1>6 DEF Next

\* Whatever the language model answers, and however often a ticket is retried or
\* rerun, the first verification of a complaint judges outputs each written
\* after all it depends on, and a later one only two kinds of stale output
\* (executor.py:22-54, core_agent.py:98-143, planner.py:10-18).
THEOREM GateIsFresh == Spec => []GateSeesFreshOutputs
<1>1. FreshInv => GateSeesFreshOutputs
  BY DEF FreshInv
<1> QED BY <1>1, FreshInit, FreshStep, TypeInvariant, PTL DEF Spec

----------------------------------------------------------------------------
(* The audit log replays the cascades                                      *)

\* What coroutine j logged behind position g, and what its cascade still owes.
After(j, g) == {i \in EntriesOf(j) : g < i}
Owed(j) == IF pc[j] = "cascade" THEN todo[j] ELSE {}

\* The attempt under way: the last verification failed, and what was logged
\* since then and is still owed are the cascade it asked for, in rank order.
Replays(j, g) ==
  /\ ~log[g].success
  /\ retries[j] = log[g].attempt + 1
  /\ {log[i].agent : i \in After(j, g)} \cup Owed(j) = Cascade(log[g].failed)
  /\ \A i \in After(j, g) : log[i].attempt = retries[j]
  /\ \A i, k \in After(j, g) : i < k => Rank[log[i].agent] < Rank[log[k].agent]
  /\ \A i \in After(j, g) : \A a \in Owed(j) : Rank[log[i].agent] < Rank[a]

\* What lies between two verifications of coroutine j.
Between(j, g, h) == {i \in EntriesOf(j) : g < i /\ i < h}

\* The part of AuditReplaysCascade about coroutine j.
Explained(j) ==
  \A g, h \in GatesOf(j) :
    (g < h /\ Between(j, g, h) \cap GatesOf(j) = {}) =>
      /\ ~log[g].success
      /\ log[h].attempt = log[g].attempt + 1
      /\ {log[i].agent : i \in Between(j, g, h)} = Cascade(log[g].failed)
      /\ \A i \in Between(j, g, h) : log[i].attempt = log[h].attempt
      /\ \A i, k \in Between(j, g, h) :
           i < k => Rank[log[i].agent] < Rank[log[k].agent]

\* The attempt under way follows the last verification of coroutine j.
Replaying(j) ==
  pc[j] \in {"cascade", "verify"} =>
    \A g \in GatesOf(j) : (\A h \in GatesOf(j) : h <= g) => Replays(j, g)

ReplayInv == \A j \in Jobs : Explained(j) /\ Replaying(j)

\* What lies between two old verifications stays as it is.
LEMMA BetweenStays ==
  ASSUME TypeInv, NEW s, Grown(s), NEW j, NEW g \in GatesOf(j), NEW h \in GatesOf(j)
  PROVE  /\ UNCHANGED Between(j, g, h)
         /\ \A i \in Between(j, g, h) : log'[i] = log[i]
         /\ log'[g] = log[g] /\ log'[h] = log[h]
         /\ Between(j, g, h) \cap GatesOf(j)' = Between(j, g, h) \cap GatesOf(j)
<1>1. Len(log) \in Nat /\ DOMAIN log = 1..Len(log)
  BY LenProperties DEF TypeInv, TypeOK
<1>2. Len(s) \in Nat
  BY LenProperties DEF Grown
<1>3. \A i \in 1..Len(log) : i \in DOMAIN log' /\ log'[i] = log[i]
  BY <1>1, <1>2 DEF Grown
<1>4. g \in 1..Len(log) /\ h \in 1..Len(log)
  BY <1>1 DEF GatesOf, EntriesOf
<1>5. \A i \in DOMAIN log' : i \in Nat /\ i >= 1
  BY <1>1, <1>2 DEF Grown
<1>6. \A i \in DOMAIN log' : i < h => i \in 1..Len(log)
  BY <1>1, <1>4, <1>5
<1>7. UNCHANGED Between(j, g, h)
  BY <1>1, <1>3, <1>6 DEF Between, EntriesOf
<1>8. Between(j, g, h) \subseteq 1..Len(log)
  BY <1>1 DEF Between, EntriesOf
<1>9. \A i \in 1..Len(log) : i \in GatesOf(j)' <=> i \in GatesOf(j)
  BY <1>1, <1>3 DEF GatesOf, EntriesOf
<1> QED BY <1>3, <1>4, <1>7, <1>8, <1>9

\* As long as coroutine j is not verified, what was explained stays explained.
LEMMA ExplainedStays ==
  ASSUME TypeInv, NEW s, Grown(s), NEW j, UNCHANGED GatesOf(j), Explained(j)
  PROVE  Explained(j)'
<1> SUFFICES ASSUME NEW g \in GatesOf(j), NEW h \in GatesOf(j),
                    g < h, Between(j, g, h)' \cap GatesOf(j)' = {}
             PROVE  /\ ~log'[g].success
                    /\ log'[h].attempt = log'[g].attempt + 1
                    /\ {log'[i].agent : i \in Between(j, g, h)'}
                         = Cascade(log'[g].failed)
                    /\ \A i \in Between(j, g, h)' : log'[i].attempt = log'[h].attempt
                    /\ \A i, k \in Between(j, g, h)' :
                         i < k => Rank[log'[i].agent] < Rank[log'[k].agent]
  BY DEF Explained
<1>1. /\ UNCHANGED Between(j, g, h)
      /\ \A i \in Between(j, g, h) : log'[i] = log[i]
      /\ log'[g] = log[g] /\ log'[h] = log[h]
  BY BetweenStays
<1>2. Between(j, g, h) \cap GatesOf(j) = {}
  BY <1>1
<1>3. {log'[i].agent : i \in Between(j, g, h)'} = {log[i].agent : i \in Between(j, g, h)}
  BY <1>1
<1>4. /\ ~log[g].success
      /\ log[h].attempt = log[g].attempt + 1
      /\ {log[i].agent : i \in Between(j, g, h)} = Cascade(log[g].failed)
      /\ \A i \in Between(j, g, h) : log[i].attempt = log[h].attempt
      /\ \A i, k \in Between(j, g, h) :
           i < k => Rank[log[i].agent] < Rank[log[k].agent]
  BY <1>2 DEF Explained
<1> QED BY <1>1, <1>3, <1>4

\* A verification is explained by the attempt that led to it.
LEMMA ExplainedGate ==
  ASSUME TypeInv, NEW j, NEW v, pc[j] = "verify",
         Grown(<<GateEntry(j, retries[j], v)>>), Explained(j), Replaying(j)
  PROVE  Explained(j)'
<1> DEFINE e == GateEntry(j, retries[j], v)
<1>1. e.job = j /\ e.agent = "verification" /\ e.attempt = retries[j]
  BY DEF GateEntry
<1>2. Grown(<<e>>)
  OBVIOUS
<1> HIDE DEF e
<1>3. PICK n : n = Len(log) + 1
  OBVIOUS
<1>4. /\ n \in Nat /\ n \notin EntriesOf(j)
      /\ \A i \in EntriesOf(j) : i \in Nat /\ i < n /\ log'[i] = log[i]
      /\ EntriesOf(j)' = EntriesOf(j) \cup {n}
      /\ GatesOf(j)' = GatesOf(j) \cup {n}
      /\ log'[n] = e
  BY <1>1, <1>2, <1>3, OneEntry
<1>5. GatesOf(j) \subseteq EntriesOf(j)
  BY DEF GatesOf
<1> SUFFICES ASSUME NEW g \in GatesOf(j) \cup {n}, NEW h \in GatesOf(j) \cup {n},
                    g < h, Between(j, g, h)' \cap GatesOf(j)' = {}
             PROVE  /\ ~log'[g].success
                    /\ log'[h].attempt = log'[g].attempt + 1
                    /\ {log'[i].agent : i \in Between(j, g, h)'}
                         = Cascade(log'[g].failed)
                    /\ \A i \in Between(j, g, h)' : log'[i].attempt = log'[h].attempt
                    /\ \A i, k \in Between(j, g, h)' :
                         i < k => Rank[log'[i].agent] < Rank[log'[k].agent]
  BY <1>4 DEF Explained
<1>6. g \in GatesOf(j)
  BY <1>4, <1>5
<1>7. CASE h \in GatesOf(j)
  <2>1. /\ UNCHANGED Between(j, g, h)
        /\ \A i \in Between(j, g, h) : log'[i] = log[i]
        /\ log'[g] = log[g] /\ log'[h] = log[h]
    BY <1>2, <1>6, <1>7, BetweenStays
  <2>2. Between(j, g, h) \cap GatesOf(j) = {}
    BY <1>4, <2>1
  <2>3. {log'[i].agent : i \in Between(j, g, h)'}
          = {log[i].agent : i \in Between(j, g, h)}
    BY <2>1
  <2>4. /\ ~log[g].success
        /\ log[h].attempt = log[g].attempt + 1
        /\ {log[i].agent : i \in Between(j, g, h)} = Cascade(log[g].failed)
        /\ \A i \in Between(j, g, h) : log[i].attempt = log[h].attempt
        /\ \A i, k \in Between(j, g, h) :
             i < k => Rank[log[i].agent] < Rank[log[k].agent]
    BY <1>6, <1>7, <2>2 DEF Explained
  <2> QED BY <2>1, <2>3, <2>4
<1>8. CASE h = n
  <2>1. Between(j, g, h)' = After(j, g)
    BY <1>4, <1>8 DEF Between, After
  <2>2. \A k \in GatesOf(j) : k <= g
    <3> SUFFICES ASSUME NEW k \in GatesOf(j), ~(k <= g)  PROVE FALSE
      OBVIOUS
    <3>1. k \in EntriesOf(j) /\ k \in Nat /\ g \in Nat
      BY <1>4, <1>5, <1>6
    <3>2. k \in After(j, g)
      BY <3>1 DEF After
    <3> QED BY <1>4, <2>1, <3>2
  <2>3. Replays(j, g) /\ Owed(j) = {}
    BY <1>6, <2>2 DEF Replaying, Owed
  <2>4. log'[g] = log[g] /\ \A i \in After(j, g) : log'[i] = log[i]
    BY <1>4, <1>5, <1>6 DEF After
  <2>5. {log'[i].agent : i \in After(j, g)} = {log[i].agent : i \in After(j, g)}
    BY <2>4
  <2>6. log'[h].attempt = retries[j]
    BY <1>1, <1>4, <1>8
  <2> QED BY <2>1, <2>3, <2>4, <2>5, <2>6 DEF Replays
<1> QED BY <1>7, <1>8

\* Running an agent of the cascade turns what is owed into what was done.
LEMMA ReplayingCascade ==
  ASSUME TypeInv, NEW j \in Jobs, RunsNext(j), Replaying(j)
  PROVE  Replaying(j)'
<1> DEFINE a == NextIn(PipelineOrder, todo[j])
           e == AgentEntry(j, a, retries[j])
<1>1. a \in todo[j] /\ a \in Specialists /\ \A b \in todo[j] \ {a} : Rank[a] < Rank[b]
  BY NextIsFirst DEF RunsNext, TypeInv, TypeOK
<1>2. /\ pc[j] = "cascade"
      /\ todo'[j] = todo[j] \ {a}
      /\ pc'[j] = IF todo'[j] = {} THEN "verify" ELSE "cascade"
      /\ UNCHANGED retries[j]
      /\ Grown(<<e>>)
  BY DEF RunsNext
<1> HIDE DEF a
<1>3. e.job = j /\ e.agent = a /\ e.attempt = retries[j] /\ e.agent # "verification"
  BY <1>1 DEF AgentEntry, Specialists
<1> HIDE DEF e
<1>4. PICK n : n = Len(log) + 1
  OBVIOUS
<1>5. /\ n \in Nat /\ n \notin EntriesOf(j)
      /\ \A i \in EntriesOf(j) : i \in Nat /\ i < n /\ log'[i] = log[i]
      /\ EntriesOf(j)' = EntriesOf(j) \cup {n}
      /\ GatesOf(j)' = GatesOf(j)
      /\ log'[n] = e
  BY <1>2, <1>3, <1>4, OneEntry
<1>6. Owed(j) = todo[j] /\ Owed(j)' = todo[j] \ {a}
  BY <1>2 DEF Owed
<1> SUFFICES ASSUME NEW g \in GatesOf(j), \A h \in GatesOf(j) : h <= g
             PROVE  Replays(j, g)'
  BY <1>5 DEF Replaying
<1>7. Replays(j, g)
  BY <1>2 DEF Replaying
<1>8. g \in EntriesOf(j) /\ log'[g] = log[g] /\ g < n
  BY <1>5 DEF GatesOf
<1>9. After(j, g)' = After(j, g) \cup {n} /\ n \notin After(j, g)
  BY <1>5, <1>8 DEF After
<1>10. \A i \in After(j, g) : i \in Nat /\ i < n /\ log'[i] = log[i]
  BY <1>5 DEF After
<1>11. {log'[i].agent : i \in After(j, g)'} = {log[i].agent : i \in After(j, g)} \cup {a}
  BY <1>3, <1>5, <1>9, <1>10
<1>12. {log'[i].agent : i \in After(j, g)'} \cup Owed(j)' = Cascade(log'[g].failed)
  <2>1. {log[i].agent : i \in After(j, g)} \cup todo[j] = Cascade(log[g].failed)
    BY <1>6, <1>7 DEF Replays
  <2> QED BY <1>1, <1>6, <1>8, <1>11, <2>1
<1>13. \A i \in After(j, g)' : log'[i].attempt = retries'[j]
  BY <1>2, <1>3, <1>5, <1>7, <1>9, <1>10 DEF Replays
<1>14. \A i, k \in After(j, g)' : i < k => Rank[log'[i].agent] < Rank[log'[k].agent]
  <2> SUFFICES ASSUME NEW i \in After(j, g)', NEW k \in After(j, g)', i < k
               PROVE  Rank[log'[i].agent] < Rank[log'[k].agent]
    OBVIOUS
  <2>1. i \in After(j, g)
    BY <1>5, <1>9, <1>10
  <2>2. CASE k \in After(j, g)
    BY <1>7, <1>10, <2>1, <2>2 DEF Replays
  <2>3. CASE k = n
    <3>1. Rank[log[i].agent] < Rank[a]
      BY <1>1, <1>6, <1>7, <2>1 DEF Replays
    <3> QED BY <1>3, <1>5, <1>10, <2>1, <2>3, <3>1
  <2> QED BY <1>9, <2>2, <2>3
<1>15. \A i \in After(j, g)' : \A b \in Owed(j)' : Rank[log'[i].agent] < Rank[b]
  <2> SUFFICES ASSUME NEW i \in After(j, g)', NEW b \in todo[j] \ {a}
               PROVE  Rank[log'[i].agent] < Rank[b]
    BY <1>6
  <2>1. CASE i \in After(j, g)
    BY <1>6, <1>7, <1>10, <2>1 DEF Replays
  <2>2. CASE i = n
    BY <1>1, <1>3, <1>5, <2>2
  <2> QED BY <1>9, <2>1, <2>2
<1>16. ~log'[g].success /\ retries'[j] = log'[g].attempt + 1
  BY <1>2, <1>7, <1>8 DEF Replays
<1> QED BY <1>12, <1>13, <1>14, <1>15, <1>16 DEF Replays

\* A failed verification owes all of its cascade.
LEMMA ReplayingRetry ==
  ASSUME TypeInv, NEW j \in Jobs, NEW v, Counted(j), TriesAgain(j, v)
  PROVE  Replaying(j)'
<1>1. CASE pc[j] = "verify" /\ Grown(<<GateEntry(j, retries[j], v)>>)
  <2> DEFINE e == GateEntry(j, retries[j], v)
  <2>1. /\ e.job = j /\ e.agent = "verification" /\ e.attempt = retries[j]
        /\ e.success = Approved(v) /\ e.failed = v.failed
    BY DEF GateEntry
  <2>2. Grown(<<e>>)
    BY <1>1
  <2> HIDE DEF e
  <2>3. PICK n : n = Len(log) + 1
    OBVIOUS
  <2>4. /\ n \in Nat /\ n \notin EntriesOf(j)
        /\ \A i \in EntriesOf(j) : i \in Nat /\ i < n
        /\ EntriesOf(j)' = EntriesOf(j) \cup {n}
        /\ GatesOf(j)' = GatesOf(j) \cup {n}
        /\ log'[n] = e
    BY <2>1, <2>2, <2>3, OneEntry
  <2> SUFFICES ASSUME NEW g \in GatesOf(j) \cup {n},
                      \A h \in GatesOf(j) \cup {n} : h <= g
               PROVE  Replays(j, g)'
    BY <2>4 DEF Replaying
  <2>5. g = n
    <3>1. n <= g
      OBVIOUS
    <3> QED BY <2>4, <3>1 DEF GatesOf
  <2>6. After(j, g)' = {}
    BY <2>4, <2>5 DEF After
  <2>7. Owed(j)' = Cascade(v.failed)
    BY DEF TriesAgain, AfterRetry, Owed
  <2>8. /\ log'[g].success = Approved(v) /\ log'[g].failed = v.failed
        /\ log'[g].attempt = retries[j]
    BY <2>1, <2>4, <2>5
  <2>9. ~Approved(v) /\ retries'[j] = retries[j] + 1
    BY DEF TriesAgain
  <2> QED BY <2>6, <2>7, <2>8, <2>9 DEF Replays
<1>2. CASE pc[j] = "audit" /\ Grown(<<>>)
  <2>1. GatesOf(j)' = {}
    BY <1>2, NoEntry DEF Counted
  <2> QED BY <2>1 DEF Replaying
<1> QED BY <1>1, <1>2 DEF TriesAgain, LogsGate

\* Every step keeps both parts.
LEMMA ReplayStep ==
  ASSUME TypeInv, NEW j \in Jobs, Counted(j), View(j), Explained(j), Replaying(j)
  PROVE  Explained(j)' /\ Replaying(j)'
<1>1. CASE Waits(j)
  <2>1. PICK s : /\ Grown(s) /\ UNCHANGED <<EntriesOf(j), GatesOf(j)>>
                 /\ \A i \in EntriesOf(j) : log'[i] = log[i]
    BY <1>1, OldEntries DEF Waits
  <2>2. Explained(j)'
    BY <2>1, ExplainedStays
  <2>3. UNCHANGED <<pc[j], todo[j], retries[j], Owed(j)>>
    BY <1>1 DEF Waits, Owed
  <2>4. ASSUME NEW g \in GatesOf(j), Replays(j, g)  PROVE Replays(j, g)'
    <3>1. UNCHANGED After(j, g) /\ log'[g] = log[g]
      BY <2>1 DEF After, GatesOf
    <3>2. \A i \in After(j, g) : log'[i] = log[i]
      BY <2>1 DEF After
    <3>3. {log'[i].agent : i \in After(j, g)'} = {log[i].agent : i \in After(j, g)}
      BY <3>1, <3>2
    <3> QED BY <2>3, <2>4, <3>1, <3>2, <3>3 DEF Replays
  <2>5. Replaying(j)'
    BY <2>1, <2>3, <2>4 DEF Replaying
  <2> QED BY <2>2, <2>5
<1>2. CASE Begins(j)
  <2>1. Explained(j)'
    BY <1>2, NoEntry, ExplainedStays DEF Begins
  <2>2. pc'[j] \notin {"cascade", "verify"}
    BY <1>2 DEF Begins
  <2> QED BY <2>1, <2>2 DEF Replaying
<1>3. CASE RunsNext(j)
  <2> DEFINE e == AgentEntry(j, NextIn(PipelineOrder, todo[j]), retries[j])
  <2>1. Grown(<<e>>) /\ e.job = j /\ e.agent # "verification"
    BY <1>3 DEF RunsNext, AgentEntry, TypeInv, TypeOK, Specialists
  <2> HIDE DEF e
  <2>2. UNCHANGED GatesOf(j)
    BY <2>1, OneEntry
  <2>3. Explained(j)'
    BY <2>1, <2>2, ExplainedStays
  <2> QED BY <1>3, <2>3, ReplayingCascade
<1>4. CASE Quits(j)
  <2>1. PICK s : Grown(s) /\ UNCHANGED GatesOf(j)
    BY <1>4, OldEntries DEF Quits
  <2>2. Explained(j)'
    BY <2>1, ExplainedStays
  <2> QED BY <1>4, <2>2 DEF Quits, Ended, Replaying
<1>5. ASSUME NEW n \in 1..2, EndsStage(j, n)
      PROVE  Explained(j)' /\ Replaying(j)'
  <2> DEFINE s == StageEntries(j, n)
  <2>1. Len(s) = 3 /\ \A i \in 1..3 : s[i].agent # "verification"
    BY StageLogs DEF Specialists
  <2>2. Grown(s)
    BY <1>5 DEF EndsStage
  <2> HIDE DEF s
  <2>3. UNCHANGED GatesOf(j)
    BY <2>1, <2>2, OldEntries
  <2>4. Explained(j)'
    BY <2>2, <2>3, ExplainedStays
  <2>5. GatesOf(j)' = {}
    BY <1>5, <2>3 DEF EndsStage, Counted
  <2> QED BY <2>4, <2>5 DEF Replaying
<1>6. ASSUME NEW v, LogsGate(j, v)  PROVE Explained(j)'
  <2>1. CASE pc[j] = "verify" /\ Grown(<<GateEntry(j, retries[j], v)>>)
    BY <2>1, ExplainedGate
  <2>2. CASE pc[j] = "audit" /\ Grown(<<>>)
    BY <2>2, NoEntry, ExplainedStays
  <2> QED BY <1>6, <2>1, <2>2 DEF LogsGate
<1>7. ASSUME NEW v, TriesAgain(j, v)  PROVE Explained(j)' /\ Replaying(j)'
  BY <1>6, <1>7, ReplayingRetry DEF TriesAgain
<1>8. ASSUME NEW v, Concludes(j, v)  PROVE Explained(j)' /\ Replaying(j)'
  BY <1>6, <1>8 DEF Concludes, Ended, Replaying
<1> QED BY <1>1, <1>2, <1>3, <1>4, <1>5, <1>7, <1>8 DEF View

\* The audit log explains every retry: between two verifications of one
\* coroutine stand exactly the agents of the cascade of those the first one
\* failed, in pipeline order, under the attempt number of the second, however
\* runs interleave and faults cut them short (core_agent.py:98-163, 341-375).
THEOREM AuditLogReplaysCascades == Spec => []AuditReplaysCascade
<1>1. Init => ReplayInv
  <2> SUFFICES ASSUME Init, NEW j \in Jobs  PROVE GatesOf(j) = {}
    BY DEF ReplayInv, Explained, Replaying
  <2> QED BY DEF Init, GatesOf, EntriesOf
<1>2. TypeInv /\ CountInv /\ ReplayInv /\ [Next]_vars => ReplayInv'
  BY StepView, ReplayStep DEF CountInv, ReplayInv
<1>3. ReplayInv => AuditReplaysCascade
  BY DEF ReplayInv, Explained, AuditReplaysCascade, Between
<1> QED BY <1>1, <1>2, <1>3, TypeInvariant, CountInvariant, PTL DEF Spec
=============================================================================
