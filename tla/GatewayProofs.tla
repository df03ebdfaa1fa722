--------------------------- MODULE GatewayProofs ---------------------------
(***************************************************************************)
(* Theorems of Gateway, for any number of workers, requests and restarts.  *)
(***************************************************************************)
EXTENDS Gateway, SequenceTheorems, FiniteSetTheorems, TLAPS

PCs == {"idle"} \cup Active \cup Answered

----------------------------------------------------------------------------
(* Types                                                                   *)

\* A complaint as it is inserted is well typed.
LEMMA NewType ==
  ASSUME NEW i \in Nat, NEW b \in BOOLEAN
  PROVE  New(i, b) \in Complaint
<1>1. Fresh \in Statuses
  BY GatewayAssumption
<1>2. <<"submitted">> \in Seq(Events)
  BY DEF Events
<1> QED
  BY <1>1, <1>2 DEF New, Complaint, Directions

LEMMA NothingType == Nothing \in Complaint
BY NewType DEF Nothing

\* The number after the largest used is a natural number.
LEMMA NextNumberType ==
  ASSUME NEW used \in SUBSET Nat, NEW first \in Nat,
         NEW n \in NextNumber(used, first)
  PROVE  n \in Nat
BY DEF NextNumber

\* Inserting a row keeps a table well typed.
LEMMA PutType ==
  ASSUME NEW R, NEW f, DOMAIN f \subseteq Nat, f \in [DOMAIN f -> R],
         NEW k \in Nat, NEW v \in R
  PROVE  /\ DOMAIN Put(f, k, v) = DOMAIN f \cup {k}
         /\ DOMAIN Put(f, k, v) \subseteq Nat
         /\ Put(f, k, v) \in [DOMAIN Put(f, k, v) -> R]
BY DEF Put

\* Deleting rows keeps a table well typed.
LEMMA WithoutType ==
  ASSUME NEW R, NEW f, DOMAIN f \subseteq Nat, f \in [DOMAIN f -> R], NEW S
  PROVE  /\ DOMAIN Without(f, S) = DOMAIN f \ S
         /\ DOMAIN Without(f, S) \subseteq Nat
         /\ Without(f, S) \in [DOMAIN Without(f, S) -> R]
BY DEF Without

\* A request that moves on stays in a known place.
LEMMA GoType ==
  ASSUME TypeOK, NEW r \in Requests, NEW there \in PCs, Go(r, there)
  PROVE  pc' \in [Requests -> PCs]
BY DEF TypeOK, Go, PCs

\* Answering a request keeps its record well typed.
LEMMA AnswerType ==
  ASSUME TypeOK, NEW r \in Requests, NEW how \in Answered, Answer(r, how)
  PROVE  pc' \in [Requests -> PCs] /\ job' \in [Requests -> Job]
<1>1. pc' \in [Requests -> PCs]
  BY GoType DEF Answer, PCs
<1>2. job' \in [Requests -> Job]
  BY NothingType DEF TypeOK, Answer, Job
<1> QED
  BY <1>1, <1>2

\* So does committing.
LEMMA CommitsType ==
  ASSUME TypeOK, NEW r \in Requests, NEW there \in PCs, NEW how \in Answers,
         Commits(r, there, how)
  PROVE  pc' \in [Requests -> PCs] /\ job' \in [Requests -> Job]
<1>1. pc' \in [Requests -> PCs]
  BY GoType DEF Commits
<1>2. job' \in [Requests -> Job]
  BY NothingType DEF TypeOK, Commits, Job
<1> QED
  BY <1>1, <1>2

\* The state before any request is well typed.
LEMMA InitType == Init => TypeOK
<1> SUFFICES ASSUME Init PROVE TypeOK
  OBVIOUS
<1>1. job \in [Requests -> Job]
  BY NothingType DEF Init, Job, Directions
<1>2. pc \in [Requests -> PCs]
  BY DEF Init, PCs
<1>3. /\ DOMAIN complaints = {}
      /\ DOMAIN incidents = {}
      /\ complaints \in [DOMAIN complaints -> Complaint]
      /\ incidents \in [DOMAIN incidents -> Incident]
  BY DEF Init
<1>4. /\ startup \in [Workers -> {"serving", "select", "delete"}]
      /\ doomed \in [Workers -> SUBSET Nat]
      /\ restarts \in 0..MaxRestarts
  BY GatewayAssumption DEF Init
<1> QED
  BY <1>1, <1>2, <1>3, <1>4 DEF TypeOK, PCs

\* The steps of a submission before anything is written.
LEMMA ReadStepType ==
  ASSUME TypeOK, NEW r \in Requests,
         \/ Submit(r) \/ Refuse(r) \/ PickTicket(r) \/ FindByArea(r)
         \/ FindInGroup(r) \/ NameIncident(r)
  PROVE  TypeOK'
<1>1. CASE Submit(r)
  BY <1>1, GoType DEF Submit, TypeOK, PCs, Active, tables, workerVars
<1>2. CASE Refuse(r)
  <2>1. pc' \in [Requests -> PCs] /\ job' \in [Requests -> Job]
    BY <1>2, AnswerType DEF Refuse, Answered
  <2> QED
    BY <1>2, <2>1 DEF Refuse, TypeOK, PCs, tables, workerVars
<1>3. CASE PickTicket(r)
  <2>1. pc' \in [Requests -> PCs]
    BY <1>3, GoType DEF PickTicket, PCs, Active, Held, Submitting
  <2>2. job' \in [Requests -> Job]
    <3>1. PICK n \in NextNumber(DOMAIN complaints, FirstTicket),
               b \in BOOLEAN, g \in Groups, a \in Areas :
             job' = [job EXCEPT ![r] = [@ EXCEPT !.id = n, !.approved = b,
                                                 !.group = g, !.area = a]]
      BY <1>3 DEF PickTicket
    <3>2. n \in Nat
      BY GatewayAssumption, NextNumberType DEF TypeOK
    <3>3. [job[r] EXCEPT !.id = n, !.approved = b, !.group = g, !.area = a]
            \in Job
      BY <3>2 DEF TypeOK, Job
    <3> QED
      BY <3>1, <3>3 DEF TypeOK
  <2> QED
    BY <1>3, <2>1, <2>2 DEF PickTicket, TypeOK, PCs, tables, workerVars
<1>4. ASSUME NEW found \in SUBSET DOMAIN incidents,
             NEW there \in {"byGroup", "name"},
             Join(r, found, there), UNCHANGED <<tables, workerVars>>
      PROVE  TypeOK'
  <2>1. pc' \in [Requests -> PCs]
    BY <1>4, GoType DEF Join, PCs, Active, Held, Submitting
  <2>2. job' \in [Requests -> Job]
    <3>1. CASE UNCHANGED job
      BY <3>1 DEF TypeOK
    <3>2. CASE ~UNCHANGED job
      <4>1. PICK i \in found :
               job' = [job EXCEPT ![r] = [@ EXCEPT !.inc = i,
                                          !.reports = incidents[i].reports]]
        BY <1>4, <3>2 DEF Join
      <4>2. i \in Nat /\ incidents[i].reports \in Nat
        BY <4>1 DEF TypeOK, Incident
      <4>3. [job[r] EXCEPT !.inc = i, !.reports = incidents[i].reports] \in Job
        BY <4>2 DEF TypeOK, Job
      <4> QED
        BY <4>1, <4>3 DEF TypeOK
    <3> QED
      BY <3>1, <3>2
  <2> QED
    BY <1>4, <2>1, <2>2 DEF TypeOK, PCs, tables, workerVars
<1>5. CASE FindByArea(r)
  <2>1. InArea(r) \in SUBSET DOMAIN incidents
    BY DEF InArea, InGroup
  <2> QED
    BY <1>4, <1>5, <2>1 DEF FindByArea
<1>6. CASE FindInGroup(r)
  <2>1. InGroup(r) \in SUBSET DOMAIN incidents
    BY DEF InGroup
  <2> QED
    BY <1>4, <1>6, <2>1 DEF FindInGroup
<1>7. CASE NameIncident(r)
  <2>1. pc' \in [Requests -> PCs]
    BY <1>7, GoType DEF NameIncident, PCs, Active, Held, Submitting
  <2>2. job' \in [Requests -> Job]
    <3>1. PICK n \in NextNumber(DOMAIN incidents, FirstIncident) :
             job' = [job EXCEPT ![r] = [@ EXCEPT !.inc = n]]
      BY <1>7 DEF NameIncident
    <3>2. n \in Nat
      BY GatewayAssumption, NextNumberType DEF TypeOK
    <3> QED
      BY <3>1, <3>2 DEF TypeOK, Job
  <2> QED
    BY <1>7, <2>1, <2>2 DEF NameIncident, TypeOK, PCs, tables, workerVars
<1> QED
  BY <1>1, <1>2, <1>3, <1>5, <1>6, <1>7

\* The three writes of a submission.
LEMMA WriteStepType ==
  ASSUME TypeOK, NEW r \in Requests,
         CountReport(r) \/ CreateIncident(r) \/ InsertComplaint(r)
  PROVE  TypeOK'
<1>0. job[r] \in Job
  BY DEF TypeOK
<1>1. CASE CountReport(r)
  <2>1. pc' \in [Requests -> PCs]
    BY <1>1, GoType DEF CountReport, PCs, Active, Held, Submitting
  <2>2. /\ DOMAIN incidents' = DOMAIN incidents
        /\ incidents' \in [DOMAIN incidents' -> Incident]
    <3>1. job[r].reports + 1 \in Nat
      BY <1>0 DEF Job
    <3>2. ASSUME NEW i \in DOMAIN incidents
          PROVE  [incidents[i] EXCEPT !.reports = job[r].reports + 1]
                   \in Incident
      BY <3>1 DEF TypeOK, Incident
    <3> QED
      BY <1>1, <3>2 DEF CountReport, TypeOK
  <2> QED
    BY <1>1, <2>1, <2>2 DEF CountReport, TypeOK, PCs, workerVars
<1>2. CASE CreateIncident(r)
  <2>1. CASE job[r].inc \in DOMAIN incidents
    <3>1. pc' \in [Requests -> PCs] /\ job' \in [Requests -> Job]
      BY <1>2, <2>1, AnswerType DEF CreateIncident, Answered
    <3> QED
      BY <1>2, <2>1, <3>1 DEF CreateIncident, TypeOK, PCs, workerVars
  <2>2. CASE job[r].inc \notin DOMAIN incidents
    <3> DEFINE v == [group |-> job[r].group, area |-> job[r].area,
                     reports |-> 1]
    <3>1. pc' \in [Requests -> PCs]
      BY <1>2, <2>2, GoType DEF CreateIncident, PCs, Active, Held, Submitting
    <3>2. v \in Incident /\ job[r].inc \in Nat
      BY <1>0 DEF Job, Incident
    <3>3. incidents' = Put(incidents, job[r].inc, v)
      BY <1>2, <2>2 DEF CreateIncident
    <3>4. /\ DOMAIN incidents' \subseteq Nat
          /\ incidents' \in [DOMAIN incidents' -> Incident]
      <4> HIDE DEF v
      <4> QED
        BY <3>2, <3>3, PutType DEF TypeOK
    <3> QED
      BY <1>2, <2>2, <3>1, <3>4 DEF CreateIncident, TypeOK, PCs, workerVars
  <2> QED
    BY <2>1, <2>2
<1>3. CASE InsertComplaint(r)
  <2>1. pc' \in [Requests -> PCs] /\ job' \in [Requests -> Job]
    BY <1>3, AnswerType, CommitsType
       DEF InsertComplaint, Store, Answered, Answers, PCs, Active, Held
  <2>2. /\ DOMAIN complaints' \subseteq Nat
        /\ complaints' \in [DOMAIN complaints' -> Complaint]
    <3>1. CASE UNCHANGED complaints
      BY <3>1 DEF TypeOK
    <3>2. CASE ~UNCHANGED complaints
      <4>1. complaints' = Put(complaints, job[r].id,
                              New(job[r].inc, job[r].approved))
        BY <1>3, <3>2 DEF InsertComplaint, Store
      <4>2. New(job[r].inc, job[r].approved) \in Complaint /\ job[r].id \in Nat
        BY <1>0, NewType DEF Job
      <4> QED
        BY <4>1, <4>2, PutType DEF TypeOK
    <3> QED
      BY <3>1, <3>2
  <2> QED
    BY <1>3, <2>1, <2>2 DEF InsertComplaint, TypeOK, PCs, workerVars
<1> QED
  BY <1>1, <1>2, <1>3

\* Loading a complaint for a vote, an update or photos.
LEMMA LoadStepType ==
  ASSUME TypeOK, NEW r \in Requests,
         LoadForVote(r) \/ LoadForPatch(r) \/ LoadForUpload(r)
  PROVE  TypeOK'
<1>1. ASSUME NEW n \in DOMAIN complaints, NEW there \in {"patch", "upload"},
             Load(r, n, there)
      PROVE  TypeOK'
  <2>1. pc' \in [Requests -> PCs]
    BY <1>1, GoType DEF Load, PCs, Active, Held
  <2>2. n \in Nat /\ complaints[n] \in Complaint
    BY DEF TypeOK
  <2>3. [job[r] EXCEPT !.id = n, !.seen = complaints[n]] \in Job
    BY <2>2 DEF TypeOK, Job
  <2>4. job' \in [Requests -> Job]
    BY <1>1, <2>3 DEF Load, TypeOK
  <2> QED
    BY <1>1, <2>1, <2>4 DEF Load, TypeOK, PCs, tables, workerVars
<1>2. CASE LoadForVote(r)
  <2>1. PICK n \in DOMAIN complaints, d \in Directions :
           job' = [job EXCEPT ![r] = [@ EXCEPT !.id = n, !.seen = complaints[n],
                                               !.dir = d]]
    BY <1>2 DEF LoadForVote
  <2>2. pc' \in [Requests -> PCs]
    BY <1>2, GoType DEF LoadForVote, PCs, Active, Held
  <2>3. n \in Nat /\ complaints[n] \in Complaint
    BY DEF TypeOK
  <2>4. [job[r] EXCEPT !.id = n, !.seen = complaints[n], !.dir = d] \in Job
    BY <2>3 DEF TypeOK, Job
  <2>5. job' \in [Requests -> Job]
    BY <2>1, <2>4 DEF TypeOK
  <2> QED
    BY <1>2, <2>2, <2>5 DEF LoadForVote, TypeOK, PCs, tables, workerVars
<1> QED
  BY <1>1, <1>2 DEF LoadForPatch, LoadForUpload

\* Writing a loaded complaint back.
LEMMA WriteType ==
  ASSUME TypeOK, NEW r \in Requests, NEW c,
         NEW there \in {"refresh", "publish"}, NEW how \in Answers,
         job[r].id \in DOMAIN complaints => c \in Complaint,
         Write(r, c, there, how)
  PROVE  TypeOK'
<1>1. pc' \in [Requests -> PCs] /\ job' \in [Requests -> Job]
  BY AnswerType, CommitsType DEF Write, Answered, PCs, Active, Held
<1>2. /\ DOMAIN complaints' = DOMAIN complaints
      /\ complaints' \in [DOMAIN complaints' -> Complaint]
  BY DEF Write, TypeOK
<1> QED
  BY <1>1, <1>2 DEF Write, TypeOK, PCs, workerVars

\* The second half of a vote, an update or an upload.
LEMMA CommitStepType ==
  ASSUME TypeOK, NEW r \in Requests,
         CommitVote(r) \/ CommitPatch(r) \/ CommitUpload(r)
  PROVE  TypeOK'
<1>0. job[r] \in Job /\ job[r].seen \in Complaint
  BY DEF TypeOK, Job
<1>1. job[r].id \in DOMAIN complaints => Row(r) \in Complaint
  BY DEF TypeOK, Row
<1>2. CASE CommitVote(r)
  <2> DEFINE c == [Row(r) EXCEPT !.votes[job[r].dir] =
                                   job[r].seen.votes[job[r].dir] + 1]
  <2>1. job[r].dir \in Directions /\ job[r].seen.votes[job[r].dir] + 1 \in Nat
    BY <1>0 DEF Job, Complaint
  <2>2. job[r].id \in DOMAIN complaints => c \in Complaint
    BY <1>1, <2>1 DEF Complaint
  <2>3. Write(r, c, "publish", "voted")
    BY <1>2 DEF CommitVote
  <2> HIDE DEF c
  <2> QED
    BY <2>2, <2>3, WriteType DEF Answers
<1>3. CASE CommitPatch(r)
  <2>1. PICK s \in Statuses, e \in BOOLEAN :
           IF PatchEvents(r, s, e) = <<>>
           THEN Answer(r, "changed") /\ UNCHANGED <<tables, workerVars>>
           ELSE Write(r, [Row(r) EXCEPT
                            !.status = IF s = job[r].seen.status THEN @ ELSE s,
                            !.timeline = job[r].seen.timeline
                                           \o PatchEvents(r, s, e)],
                      "refresh", "changed")
    BY <1>3 DEF CommitPatch
  <2>2. CASE PatchEvents(r, s, e) = <<>>
    <3>1. pc' \in [Requests -> PCs] /\ job' \in [Requests -> Job]
      BY <2>1, <2>2, AnswerType DEF Answered, Answers
    <3> QED
      BY <2>1, <2>2, <3>1 DEF TypeOK, PCs, tables, workerVars
  <2>3. CASE PatchEvents(r, s, e) # <<>>
    <3> DEFINE c == [Row(r) EXCEPT
                       !.status = IF s = job[r].seen.status THEN @ ELSE s,
                       !.timeline = job[r].seen.timeline
                                      \o PatchEvents(r, s, e)]
    <3>1. PatchEvents(r, s, e) \in Seq(Events)
      <4>1. <<s>> \in Seq(Events) /\ <<"evidence">> \in Seq(Events)
        BY DEF Events
      <4>2. <<>> \in Seq(Events)
        OBVIOUS
      <4> QED
        BY <4>1, <4>2, ConcatProperties DEF PatchEvents
    <3>2. job[r].seen.timeline \o PatchEvents(r, s, e) \in Seq(Events)
      <4>1. job[r].seen.timeline \in Seq(Events)
        BY <1>0 DEF Complaint
      <4> QED
        BY <4>1, <3>1, ConcatProperties
    <3>3. job[r].id \in DOMAIN complaints => c \in Complaint
      <4> HIDE DEF PatchEvents
      <4> QED
        BY <1>1, <3>2 DEF Complaint
    <3>4. Write(r, c, "refresh", "changed")
      BY <2>1, <2>3
    <3> HIDE DEF c
    <3> QED
      BY <3>3, <3>4, WriteType DEF Answers
  <2> QED
    BY <2>2, <2>3
<1>4. CASE CommitUpload(r)
  <2> DEFINE c == [Row(r) EXCEPT !.timeline =
                                   Append(job[r].seen.timeline, "images")]
  <2>1. Append(job[r].seen.timeline, "images") \in Seq(Events)
    <3>1. job[r].seen.timeline \in Seq(Events) /\ "images" \in Events
      BY <1>0 DEF Complaint, Events
    <3> QED
      BY <3>1, AppendProperties
  <2>2. job[r].id \in DOMAIN complaints => c \in Complaint
    BY <1>1, <2>1 DEF Complaint
  <2>3. Write(r, c, "publish", "changed")
    BY <1>4 DEF CommitUpload
  <2> HIDE DEF c
  <2> QED
    BY <2>2, <2>3, WriteType DEF Answers
<1> QED
  BY <1>2, <1>3, <1>4

\* From the commit to the answer.
LEMMA AnswerStepType ==
  ASSUME TypeOK, NEW r \in Requests, Refresh(r) \/ Respond(r)
  PROVE  TypeOK'
<1>1. CASE Refresh(r)
  <2>1. pc' \in [Requests -> PCs] /\ job' \in [Requests -> Job]
    <3>1. CASE job[r].id \in DOMAIN complaints
      BY <1>1, <3>1, GoType DEF Refresh, TypeOK, PCs, Active
    <3>2. CASE job[r].id \notin DOMAIN complaints
      BY <1>1, <3>2, AnswerType DEF Refresh, Answered
    <3> QED
      BY <3>1, <3>2
  <2> QED
    BY <1>1, <2>1 DEF Refresh, TypeOK, PCs, tables, workerVars
<1>2. CASE Respond(r)
  <2>1. job[r].reply \in Answered
    BY DEF TypeOK, Job, Answered
  <2>2. pc' \in [Requests -> PCs] /\ job' \in [Requests -> Job]
    <3>1. Answer(r, "error") \/ Answer(r, job[r].reply)
      BY <1>2 DEF Respond
    <3> QED
      BY <2>1, <3>1, AnswerType DEF Answered
  <2> QED
    BY <1>2, <2>2 DEF Respond, TypeOK, PCs, tables, workerVars
<1> QED
  BY <1>1, <1>2

\* A restart and the purge that follows.
LEMMA WorkerStepType ==
  ASSUME TypeOK, NEW w \in Workers,
         Restart(w) \/ PurgeSelect(w) \/ PurgeDelete(w)
  PROVE  TypeOK'
<1>1. CASE Restart(w)
  <2>1. pc' \in [Requests -> PCs]
    <3>1. \A r \in Requests : Interrupted(r) \in PCs
      BY DEF Interrupted, PCs, Answered
    <3>2. \A r \in Requests : pc[r] \in PCs
      BY DEF TypeOK, PCs
    <3> QED
      BY <1>1, <3>1, <3>2 DEF Restart
  <2>2. job' \in [Requests -> Job]
    <3>1. ASSUME NEW r \in Requests
          PROVE  [job[r] EXCEPT !.seen = Nothing, !.reply = "error"] \in Job
      BY NothingType DEF TypeOK, Job
    <3>2. \A r \in Requests : job[r] \in Job
      BY DEF TypeOK
    <3> QED
      BY <1>1, <3>1, <3>2 DEF Restart
  <2>3. restarts' \in 0..MaxRestarts
    <3>1. restarts < MaxRestarts /\ restarts' = restarts + 1
      BY <1>1 DEF Restart
    <3>2. restarts \in 0..MaxRestarts /\ MaxRestarts \in Nat
      BY GatewayAssumption DEF TypeOK
    <3> QED
      BY <3>1, <3>2
  <2>4. /\ startup' \in [Workers -> {"serving", "select", "delete"}]
        /\ doomed' \in [Workers -> SUBSET Nat]
    BY <1>1 DEF Restart, TypeOK
  <2> QED
    BY <1>1, <2>1, <2>2, <2>3, <2>4 DEF Restart, TypeOK, PCs, tables
<1>2. CASE PurgeSelect(w)
  BY <1>2 DEF PurgeSelect, TypeOK, tables
<1>3. CASE PurgeDelete(w)
  <2>1. /\ DOMAIN complaints' \subseteq Nat
        /\ complaints' \in [DOMAIN complaints' -> Complaint]
    <3>1. CASE complaints' = Without(complaints, doomed[w])
      BY <3>1, WithoutType DEF TypeOK
    <3>2. CASE UNCHANGED complaints
      BY <3>2 DEF TypeOK
    <3> QED
      BY <1>3, <3>1, <3>2 DEF PurgeDelete
  <2> QED
    BY <1>3, <2>1 DEF PurgeDelete, TypeOK
<1> QED
  BY <1>1, <1>2, <1>3

\* Every step keeps the types.
LEMMA TypeStep == TypeOK /\ [Next]_vars => TypeOK'
<1> SUFFICES ASSUME TypeOK, [Next]_vars PROVE TypeOK'
  OBVIOUS
<1>1. CASE UNCHANGED vars
  BY <1>1 DEF vars, TypeOK
<1>2. ASSUME NEW r \in Requests, RequestStep(r)
      PROVE  TypeOK'
  BY <1>2, ReadStepType, WriteStepType, LoadStepType, CommitStepType, AnswerStepType
     DEF RequestStep, SubmitStep, ChangeStep, AnswerStep
<1>3. ASSUME NEW w \in Workers, Restart(w) \/ PurgeSelect(w) \/ PurgeDelete(w)
      PROVE  TypeOK'
  BY <1>3, WorkerStepType
<1> QED
  BY <1>1, <1>2, <1>3 DEF Next

\* Every reachable state of the gateway is well typed.
THEOREM GatewayTypeCorrect == Spec => []TypeOK
BY InitType, TypeStep, PTL DEF Spec

----------------------------------------------------------------------------
(* What a step of one request can do                                       *)

\* An incident found or created by a submission is stored.
Anchored(r) == pc[r] \in {"count", "insert"} => job[r].inc \in DOMAIN incidents

\* It moves this request only, and no answered one.
OnlyMoves(r) ==
  /\ pc[r] \notin Answered
  /\ \A q \in Requests \ {r} : pc'[q] = pc[q] /\ job'[q] = job[q]
  /\ UNCHANGED <<startup, restarts>>

\* It leaves the set of complaints and their incidents alone, and forgets a
\* submission only when its complaint is gone; or it inserts one complaint.
Keeps(r) ==
  /\ r \in Submitted' => r \in Submitted
  /\ r \in Submitted =>
       /\ job'[r].id = job[r].id
       /\ r \in Submitted' \/ job[r].id \notin DOMAIN complaints
  /\ DOMAIN complaints' = DOMAIN complaints
  /\ \A n \in DOMAIN complaints :
       complaints'[n].incident = complaints[n].incident

Inserts(r) ==
  /\ pc[r] = "insert"
  /\ pc'[r] = "refresh" /\ job'[r].reply = "stored"
  /\ job'[r].id = job[r].id
  /\ job[r].id \notin DOMAIN complaints
  /\ complaints' = Put(complaints, job[r].id, New(job[r].inc, job[r].approved))
  /\ UNCHANGED incidents

Effect(r) ==
  /\ OnlyMoves(r)
  /\ Keeps(r) \/ Inserts(r)
  /\ DOMAIN incidents \subseteq DOMAIN incidents'
  /\ Anchored(r) => Anchored(r)'

\* Moving a request on, or answering it, concerns no other request.
LEMMA MoveFrame ==
  ASSUME TypeOK, NEW r \in Requests, NEW there, Go(r, there),
         NEW j, job' = [job EXCEPT ![r] = j] \/ UNCHANGED job
  PROVE  /\ pc'[r] = there
         /\ \A q \in Requests \ {r} : pc'[q] = pc[q] /\ job'[q] = job[q]
BY DEF TypeOK, Go

\* Answering a request keeps the numbers it has read.
LEMMA AnswerFrame ==
  ASSUME TypeOK, NEW r \in Requests, NEW how, Answer(r, how)
  PROVE  /\ pc'[r] = how
         /\ job'[r].id = job[r].id /\ job'[r].inc = job[r].inc
         /\ job'[r].dir = job[r].dir
         /\ \A q \in Requests \ {r} : pc'[q] = pc[q] /\ job'[q] = job[q]
<1>1. job[r] \in Job
  BY DEF TypeOK
<1>2. job'[r] = [job[r] EXCEPT !.seen = Nothing, !.reports = 0, !.reply = "error"]
  BY DEF TypeOK, Answer
<1>3. /\ job'[r].id = job[r].id /\ job'[r].inc = job[r].inc
      /\ job'[r].dir = job[r].dir
  BY <1>1, <1>2 DEF Job
<1> QED
  BY <1>3 DEF TypeOK, Answer, Go

\* So does committing, which sets the answer.
LEMMA CommitsFrame ==
  ASSUME TypeOK, NEW r \in Requests, NEW there, NEW how, Commits(r, there, how)
  PROVE  /\ pc'[r] = there /\ job'[r].reply = how
         /\ job'[r].id = job[r].id /\ job'[r].inc = job[r].inc
         /\ job'[r].dir = job[r].dir
         /\ \A q \in Requests \ {r} : pc'[q] = pc[q] /\ job'[q] = job[q]
<1>1. job[r] \in Job
  BY DEF TypeOK
<1>2. job'[r] = [job[r] EXCEPT !.seen = Nothing, !.reports = 0, !.reply = how]
  BY DEF TypeOK, Commits
<1>3. /\ job'[r].id = job[r].id /\ job'[r].inc = job[r].inc
      /\ job'[r].dir = job[r].dir /\ job'[r].reply = how
  BY <1>1, <1>2 DEF Job
<1> QED
  BY <1>3 DEF TypeOK, Commits, Go

\* The steps of a submission that write nothing.
LEMMA ReadEffect ==
  ASSUME TypeOK, NEW r \in Requests,
         \/ Submit(r) \/ Refuse(r) \/ PickTicket(r) \/ FindByArea(r)
         \/ FindInGroup(r) \/ NameIncident(r)
  PROVE  Effect(r)
<1>0. /\ UNCHANGED <<complaints, incidents, startup, restarts>>
      /\ pc[r] \notin Answered /\ r \notin Submitted
  BY DEF Submit, Refuse, PickTicket, FindByArea, FindInGroup, NameIncident,
         tables, workerVars, Resumes, At, Answered, Answers, Submitted, Past
<1>1. CASE Submit(r)
  BY <1>0, <1>1 DEF Submit, Go, TypeOK, Effect, OnlyMoves, Keeps, Submitted, Past, Anchored
<1>2. CASE Refuse(r)
  BY <1>0, <1>2, AnswerFrame DEF Refuse, Effect, OnlyMoves, Keeps, Submitted, Past, Anchored
<1>3. CASE PickTicket(r)
  BY <1>0, <1>3 DEF PickTicket, Go, TypeOK, Effect, OnlyMoves, Keeps, Submitted, Past, Anchored
<1>4. ASSUME NEW found \in SUBSET DOMAIN incidents,
             NEW there \in {"byGroup", "name"}, Join(r, found, there)
      PROVE  Effect(r)
  <2>1. CASE pc'[r] = "count"
    <3>1. PICK i \in found :
             /\ Go(r, "count")
             /\ job' = [job EXCEPT ![r] = [@ EXCEPT !.inc = i,
                                        !.reports = incidents[i].reports]]
      BY <1>4, <2>1 DEF Join, Go, TypeOK
    <3>2. job'[r].inc = i
      BY <3>1 DEF TypeOK, Job
    <3> QED
      BY <1>0, <3>1, <3>2 DEF Go, TypeOK, Effect, OnlyMoves, Keeps, Submitted, Past, Anchored
  <2>2. CASE pc'[r] # "count"
    <3>1. Go(r, there) /\ UNCHANGED job
      BY <1>4, <2>2 DEF Join, Go, TypeOK
    <3> QED
      BY <1>0, <3>1 DEF Go, TypeOK, Effect, OnlyMoves, Keeps, Submitted, Past, Anchored
  <2> QED
    BY <2>1, <2>2
<1>5. CASE FindByArea(r)
  BY <1>4, <1>5 DEF FindByArea, InArea, InGroup
<1>6. CASE FindInGroup(r)
  BY <1>4, <1>6 DEF FindInGroup, InGroup
<1>7. CASE NameIncident(r)
  BY <1>0, <1>7
     DEF NameIncident, Go, TypeOK, Effect, OnlyMoves, Keeps, Submitted, Past, Anchored
<1> QED
  BY <1>1, <1>2, <1>3, <1>5, <1>6, <1>7

\* The writes of a submission.
LEMMA WriteEffect ==
  ASSUME TypeOK, NEW r \in Requests,
         CountReport(r) \/ CreateIncident(r) \/ InsertComplaint(r)
  PROVE  Effect(r)
<1>0. UNCHANGED <<startup, restarts>> /\ pc[r] \notin Answered /\ r \notin Submitted
  BY DEF CountReport, CreateIncident, InsertComplaint, Store, workerVars,
         At, Answered, Answers, Submitted, Past
<1>1. CASE CountReport(r)
  <2>1. DOMAIN incidents' = DOMAIN incidents
    BY <1>1 DEF CountReport
  <2> QED
    BY <1>0, <1>1, <2>1
       DEF CountReport, At, Go, TypeOK, Effect, OnlyMoves, Keeps, Submitted, Past, Anchored
<1>2. CASE CreateIncident(r)
  <2>1. CASE job[r].inc \in DOMAIN incidents
    BY <1>0, <1>2, <2>1, AnswerFrame
       DEF CreateIncident, Effect, OnlyMoves, Keeps, Submitted, Past, Anchored
  <2>2. CASE job[r].inc \notin DOMAIN incidents
    <3>1. DOMAIN incidents' = DOMAIN incidents \cup {job[r].inc}
      BY <1>2, <2>2 DEF CreateIncident, Put
    <3> QED
      BY <1>0, <1>2, <2>2, <3>1
         DEF CreateIncident, Go, TypeOK, Effect, OnlyMoves, Keeps, Submitted, Past, Anchored
  <2> QED
    BY <2>1, <2>2
<1>3. CASE InsertComplaint(r)
  <2>1. CASE job[r].id \in DOMAIN complaints
    BY <1>0, <1>3, <2>1, AnswerFrame
       DEF InsertComplaint, Effect, OnlyMoves, Keeps, Submitted, Past, Anchored
  <2>2. CASE job[r].id \notin DOMAIN complaints
    BY <1>0, <1>3, <2>2, CommitsFrame
       DEF InsertComplaint, Store, At, Effect, OnlyMoves, Inserts, Anchored
  <2> QED
    BY <2>1, <2>2
<1> QED
  BY <1>1, <1>2, <1>3

\* Writing a loaded complaint back leaves its incident alone.
LEMMA WriteBackEffect ==
  ASSUME TypeOK, NEW r \in Requests, NEW c,
         NEW there \in {"refresh", "publish"}, NEW how \in {"voted", "changed"},
         pc[r] \notin Answered, r \notin Submitted,
         job[r].id \in DOMAIN complaints => c.incident = Row(r).incident,
         Write(r, c, there, how)
  PROVE  Effect(r)
<1>1. /\ \/ pc'[r] = "error"
         \/ pc'[r] \in {"refresh", "publish"} /\ job'[r].reply = how
      /\ \A q \in Requests \ {r} : pc'[q] = pc[q] /\ job'[q] = job[q]
  BY AnswerFrame, CommitsFrame DEF Write
<1>2. /\ DOMAIN complaints' = DOMAIN complaints
      /\ \A n \in DOMAIN complaints :
           complaints'[n].incident = complaints[n].incident
  BY DEF Write, Row, TypeOK
<1> QED
  BY <1>1, <1>2 DEF Write, workerVars, Effect, OnlyMoves, Keeps, Submitted, Past, Anchored

\* Votes, updates and uploads.
LEMMA ChangeEffect ==
  ASSUME TypeOK, NEW r \in Requests, ChangeStep(r)
  PROVE  Effect(r)
<1>0. pc[r] \notin Answered /\ r \notin Submitted
  BY DEF ChangeStep, LoadForVote, LoadForPatch, LoadForUpload, Load, CommitVote,
         CommitPatch, CommitUpload, Resumes, At, Answered, Answers, Submitted, Past
<1>1. job[r].id \in DOMAIN complaints => Row(r) \in Complaint
  BY DEF TypeOK, Row
<1>2. CASE LoadForVote(r)
  BY <1>0, <1>2
     DEF LoadForVote, Go, TypeOK, tables, workerVars,
         Effect, OnlyMoves, Keeps, Submitted, Past, Anchored
<1>3. CASE LoadForPatch(r) \/ LoadForUpload(r)
  BY <1>0, <1>3
     DEF LoadForPatch, LoadForUpload, Load, Go, TypeOK, tables, workerVars,
         Effect, OnlyMoves, Keeps, Submitted, Past, Anchored
<1>4. CASE CommitVote(r)
  <2> DEFINE c == [Row(r) EXCEPT !.votes[job[r].dir] =
                                   job[r].seen.votes[job[r].dir] + 1]
  <2>1. job[r].id \in DOMAIN complaints => c.incident = Row(r).incident
    BY <1>1 DEF Complaint
  <2>2. Write(r, c, "publish", "voted")
    BY <1>4 DEF CommitVote
  <2> HIDE DEF c
  <2> QED
    BY <1>0, <2>1, <2>2, WriteBackEffect
<1>5. CASE CommitPatch(r)
  <2>1. PICK s \in Statuses, e \in BOOLEAN :
           IF PatchEvents(r, s, e) = <<>>
           THEN Answer(r, "changed") /\ UNCHANGED <<tables, workerVars>>
           ELSE Write(r, [Row(r) EXCEPT
                            !.status = IF s = job[r].seen.status THEN @ ELSE s,
                            !.timeline = job[r].seen.timeline
                                           \o PatchEvents(r, s, e)],
                      "refresh", "changed")
    BY <1>5 DEF CommitPatch
  <2>2. CASE PatchEvents(r, s, e) = <<>>
    BY <1>0, <2>1, <2>2, AnswerFrame
       DEF tables, workerVars, Effect, OnlyMoves, Keeps, Submitted, Past, Anchored
  <2>3. CASE PatchEvents(r, s, e) # <<>>
    <3> DEFINE c == [Row(r) EXCEPT
                       !.status = IF s = job[r].seen.status THEN @ ELSE s,
                       !.timeline = job[r].seen.timeline
                                      \o PatchEvents(r, s, e)]
    <3>1. job[r].id \in DOMAIN complaints => c.incident = Row(r).incident
      BY <1>1 DEF Complaint
    <3>2. Write(r, c, "refresh", "changed")
      BY <2>1, <2>3
    <3> HIDE DEF c
    <3> QED
      BY <1>0, <3>1, <3>2, WriteBackEffect
  <2> QED
    BY <2>2, <2>3
<1>6. CASE CommitUpload(r)
  <2> DEFINE c == [Row(r) EXCEPT !.timeline =
                                   Append(job[r].seen.timeline, "images")]
  <2>1. job[r].id \in DOMAIN complaints => c.incident = Row(r).incident
    BY <1>1 DEF Complaint
  <2>2. Write(r, c, "publish", "changed")
    BY <1>6 DEF CommitUpload
  <2> HIDE DEF c
  <2> QED
    BY <1>0, <2>1, <2>2, WriteBackEffect
<1> QED
  BY <1>2, <1>3, <1>4, <1>5, <1>6 DEF ChangeStep

\* The steps from the commit to the answer.
LEMMA AnswerEffect ==
  ASSUME TypeOK, NEW r \in Requests, Refresh(r) \/ Respond(r)
  PROVE  Effect(r)
<1>0. /\ UNCHANGED <<complaints, incidents, startup, restarts>>
      /\ pc[r] \in {"refresh", "publish"} /\ pc[r] \notin Answered
  BY DEF Refresh, Respond, Resumes, At, tables, workerVars, Answered, Answers
<1>1. CASE Refresh(r)
  <2>1. CASE job[r].id \in DOMAIN complaints
    BY <1>0, <1>1, <2>1
       DEF Refresh, Go, TypeOK, Effect, OnlyMoves, Keeps, Submitted, Past, Anchored
  <2>2. CASE job[r].id \notin DOMAIN complaints
    BY <1>0, <1>1, <2>2, AnswerFrame
       DEF Refresh, Effect, OnlyMoves, Keeps, Submitted, Past, Anchored
  <2> QED
    BY <2>1, <2>2
<1>2. CASE Respond(r)
  <2>1. CASE job[r].reply = "voted" /\ job[r].id \notin DOMAIN complaints
    BY <1>0, <1>2, <2>1, AnswerFrame
       DEF Respond, Effect, OnlyMoves, Keeps, Submitted, Past, Anchored
  <2>2. CASE ~(job[r].reply = "voted" /\ job[r].id \notin DOMAIN complaints)
    <3>1. Answer(r, job[r].reply)
      BY <1>2, <2>2 DEF Respond
    <3>2. job[r].reply \in Answers \cup {"error"}
      BY DEF TypeOK, Job
    <3> QED
      BY <1>0, <3>1, <3>2, AnswerFrame
         DEF Effect, OnlyMoves, Keeps, Submitted, Past, Anchored, Answers
  <2> QED
    BY <2>1, <2>2
<1> QED
  BY <1>1, <1>2

\* Every step of a request has such an effect.
LEMMA RequestEffect ==
  ASSUME TypeOK, NEW r \in Requests, RequestStep(r)
  PROVE  Effect(r)
BY ReadEffect, WriteEffect, ChangeEffect, AnswerEffect
   DEF RequestStep, SubmitStep, AnswerStep

\* A step of a worker only deletes complaints; requests keep what they have
\* read and are answered as before, or interrupted.
LEMMA WorkerEffect ==
  ASSUME TypeOK, NEW w \in Workers,
         Restart(w) \/ PurgeSelect(w) \/ PurgeDelete(w)
  PROVE  /\ DOMAIN complaints' \subseteq DOMAIN complaints
         /\ \A n \in DOMAIN complaints' : complaints'[n] = complaints[n]
         /\ UNCHANGED incidents
         /\ \A r \in Requests :
              /\ job'[r].id = job[r].id /\ job'[r].inc = job[r].inc
              /\ pc'[r] = pc[r] \/ pc'[r] \in {"lost", "unanswered"}
              /\ r \in Submitted' <=> r \in Submitted
         /\ startup[w] = "serving" => restarts' # 0
         /\ restarts' = 0 => restarts = 0
<1>1. CASE Restart(w)
  <2>1. \A r \in Requests :
          job'[r].id = job[r].id /\ job'[r].inc = job[r].inc
    <3>1. \A r \in Requests : job[r] \in Job
      BY DEF TypeOK
    <3> QED
      BY <1>1, <3>1 DEF Restart, Job
  <2>2. restarts' # 0
    <3>1. restarts < MaxRestarts /\ restarts' = restarts + 1
      BY <1>1 DEF Restart
    <3>2. restarts \in 0..MaxRestarts /\ MaxRestarts \in Nat
      BY GatewayAssumption DEF TypeOK
    <3> QED
      BY <3>1, <3>2
  <2>3. \A r \in Requests : r \in Submitted' <=> r \in Submitted
    <3> SUFFICES ASSUME NEW r \in Requests PROVE r \in Submitted' <=> r \in Submitted
      OBVIOUS
    <3>1. CASE job[r].worker = w /\ pc[r] \in Active
      BY <1>1, <3>1
         DEF Restart, Interrupted, Submitted, Past, Active, Held, Submitting, TypeOK
    <3>2. CASE ~(job[r].worker = w /\ pc[r] \in Active)
      <4>1. pc'[r] = pc[r]
        BY <1>1, <3>2 DEF Restart, TypeOK
      <4>2. job[r].worker # w => job'[r] = job[r]
        BY <1>1 DEF Restart, TypeOK
      <4>3. job[r].worker = w => pc[r] \notin {"refresh", "publish"}
        BY <3>2 DEF Active, Held
      <4> QED
        BY <4>1, <4>2, <4>3 DEF Submitted, Past
    <3> QED
      BY <3>1, <3>2
  <2>4. \A r \in Requests : pc'[r] = pc[r] \/ pc'[r] \in {"lost", "unanswered"}
    BY <1>1 DEF Restart, Interrupted
  <2> QED
    BY <1>1, <2>1, <2>2, <2>3, <2>4 DEF Restart, tables
<1>2. CASE PurgeSelect(w)
  BY <1>2 DEF PurgeSelect, tables, Submitted, Past
<1>3. CASE PurgeDelete(w)
  BY <1>3 DEF PurgeDelete, Without, Submitted, Past
<1> QED
  BY <1>1, <1>2, <1>3

----------------------------------------------------------------------------
(* Complaints and incidents                                                *)

IncidentInv ==
  /\ ComplaintHasIncident
  /\ \A r \in Requests : Anchored(r)

\* It holds of empty tables.
LEMMA IncidentInit == Init => IncidentInv
BY DEF Init, IncidentInv, ComplaintHasIncident, Anchored

\* The invariant is inductive: an incident is stored before the complaint
\* that names it and never deleted.
LEMMA IncidentStep == TypeOK /\ IncidentInv /\ [Next]_vars => IncidentInv'
<1> SUFFICES ASSUME TypeOK, IncidentInv, [Next]_vars PROVE IncidentInv'
  OBVIOUS
<1>1. CASE UNCHANGED vars
  BY <1>1 DEF vars, IncidentInv, ComplaintHasIncident, Anchored
<1>2. ASSUME NEW r \in Requests, RequestStep(r)
      PROVE  IncidentInv'
  <2>1. Effect(r)
    BY <1>2, RequestEffect
  <2>2. \A q \in Requests : Anchored(q)'
    BY <2>1 DEF Effect, OnlyMoves, IncidentInv, Anchored
  <2>3. ComplaintHasIncident'
    <3>1. CASE Keeps(r)
      BY <2>1, <3>1 DEF Effect, Keeps, IncidentInv, ComplaintHasIncident
    <3>2. CASE Inserts(r)
      BY <3>2
         DEF Inserts, Put, New, IncidentInv, Anchored, ComplaintHasIncident
    <3> QED
      BY <2>1, <3>1, <3>2 DEF Effect
  <2> QED
    BY <2>2, <2>3 DEF IncidentInv
<1>3. ASSUME NEW w \in Workers, Restart(w) \/ PurgeSelect(w) \/ PurgeDelete(w)
      PROVE  IncidentInv'
  BY <1>3, WorkerEffect DEF IncidentInv, ComplaintHasIncident, Anchored
<1> QED
  BY <1>1, <1>2, <1>3 DEF Next

\* Every stored complaint belongs to a stored incident.
THEOREM ComplaintsAnchored == Spec => []ComplaintHasIncident
<1>1. IncidentInv => ComplaintHasIncident
  BY DEF IncidentInv
<1> QED
  BY <1>1, IncidentInit, IncidentStep, GatewayTypeCorrect, PTL DEF Spec

----------------------------------------------------------------------------
(* What is stored and what was submitted                                   *)

StoreInv ==
  /\ SubmissionsStoredOnce
  /\ restarts = 0 => \A w \in Workers : startup[w] = "serving"

\* It holds before any request.
LEMMA StoreInit == Init => StoreInv
BY DEF Init, StoreInv, SubmissionsStoredOnce, Submitted, Past

\* The invariant is inductive: a complaint appears in the commit of its
\* submission, under a number no stored complaint has; from there to the answer
\* the submission keeps its number; only a purge, which follows a restart,
\* deletes any.
LEMMA StoreStep == TypeOK /\ StoreInv /\ [Next]_vars => StoreInv'
<1> SUFFICES ASSUME TypeOK, StoreInv, [Next]_vars PROVE StoreInv'
  OBVIOUS
<1>1. CASE UNCHANGED vars
  BY <1>1 DEF vars, StoreInv, SubmissionsStoredOnce, Submitted, Past
<1>2. ASSUME NEW r \in Requests, RequestStep(r)
      PROVE  StoreInv'
  <2>1. Effect(r)
    BY <1>2, RequestEffect
  <2>2. \A q \in Requests \ {r} :
          /\ q \in Submitted' <=> q \in Submitted
          /\ job'[q].id = job[q].id
    BY <2>1 DEF Effect, OnlyMoves, Submitted, Past
  <2>3. Submitted \subseteq Requests /\ Submitted' \subseteq Requests
    BY DEF Submitted, Past
  <2>4. (restarts = 0 => \A w \in Workers : startup[w] = "serving")'
    BY <2>1 DEF Effect, OnlyMoves, StoreInv
  <2>5. restarts' = restarts
    BY <2>1 DEF Effect, OnlyMoves
  <2>6. CASE Keeps(r)
    <3>1. Submitted' \subseteq Submitted
      BY <2>2, <2>3, <2>6 DEF Keeps
    <3>2. \A q \in Submitted :
            /\ job'[q].id = job[q].id
            /\ q \in Submitted' \/ job[q].id \notin DOMAIN complaints
      BY <2>2, <2>3, <2>6 DEF Keeps
    <3>3. DOMAIN complaints' = DOMAIN complaints
      BY <2>6 DEF Keeps
    <3> QED
      BY <2>4, <2>5, <3>1, <3>2, <3>3 DEF StoreInv, SubmissionsStoredOnce
  <2>7. CASE Inserts(r)
    <3>1. Submitted' = Submitted \cup {r} /\ r \notin Submitted
      BY <2>2, <2>3, <2>7 DEF Inserts, Submitted, Past
    <3>2. DOMAIN complaints' = DOMAIN complaints \cup {job[r].id}
      BY <2>7 DEF Inserts, Put
    <3>3. /\ \A q \in Submitted' : job'[q].id = job[q].id
          /\ job[r].id \notin DOMAIN complaints
      BY <2>2, <2>3, <2>7 DEF Inserts
    <3>4. DOMAIN complaints' \subseteq {job'[q].id : q \in Submitted'}
      BY <3>1, <3>2, <3>3 DEF StoreInv, SubmissionsStoredOnce
    <3>5. ASSUME restarts = 0
          PROVE  /\ {job'[q].id : q \in Submitted'} \subseteq DOMAIN complaints'
                 /\ \A p, q \in Submitted' : job'[p].id = job'[q].id => p = q
      BY <3>1, <3>2, <3>3, <3>5 DEF StoreInv, SubmissionsStoredOnce
    <3> QED
      BY <2>4, <2>5, <3>4, <3>5 DEF StoreInv, SubmissionsStoredOnce
  <2> QED
    BY <2>1, <2>6, <2>7 DEF Effect
<1>3. ASSUME NEW w \in Workers, Restart(w) \/ PurgeSelect(w) \/ PurgeDelete(w)
      PROVE  StoreInv'
  <2>1. Submitted' = Submitted /\ \A q \in Submitted : job'[q].id = job[q].id
    BY <1>3, WorkerEffect DEF Submitted, Past
  <2>2. restarts' # 0
    BY <1>3, WorkerEffect DEF StoreInv, Restart, PurgeSelect, PurgeDelete
  <2> QED
    BY <1>3, <2>1, <2>2, WorkerEffect DEF StoreInv, SubmissionsStoredOnce
<1> QED
  BY <1>1, <1>2, <1>3 DEF Next

\* Every stored complaint is that of a submission past its commit, answered or
\* not; without a restart each of these has one, under a number of its own.
THEOREM StoreMatchesSubmissions == Spec => []SubmissionsStoredOnce
<1>1. StoreInv => SubmissionsStoredOnce
  BY DEF StoreInv
<1> QED
  BY <1>1, StoreInit, StoreStep, GatewayTypeCorrect, PTL DEF Spec

----------------------------------------------------------------------------
(* A gateway with one worker                                               *)

SingleWorker == \A v, w \in Workers : v = w

\* The handler that holds the loop is alone, and a submission about to create
\* an incident has seen that its group has none.
GroupInv ==
  /\ OneIncidentPerGroup
  /\ \A r, q \in Requests : pc[r] \in Held /\ pc[q] \in Held => r = q
  /\ \A r \in Requests : pc[r] \in {"name", "create"} => InGroup(r) = {}

\* It holds of empty tables.
LEMMA GroupInit == Init => GroupInv
BY DEF Init, GroupInv, OneIncidentPerGroup, Held, Submitting

\* After its commit a request is at one of these places.
LEMMA AnswerPlace ==
  ASSUME TypeOK, NEW r \in Requests, Refresh(r) \/ Respond(r)
  PROVE  pc'[r] \in {"publish", "error"} \cup Answers
<1>1. job[r].reply \in Answers \cup {"error"}
  BY DEF TypeOK, Job
<1> QED
  BY <1>1 DEF Refresh, Respond, Answer, Go, TypeOK

\* A request that holds the loop after a step held it before, or took it
\* when it was free.
LEMMA HoldsLoop ==
  ASSUME TypeOK, NEW r \in Requests, RequestStep(r),
         pc'[r] \in Held
  PROVE  pc[r] \in Held \/ LoopFree(job[r].worker)
BY DEF RequestStep, AnswerStep, Refresh, Respond, Refuse, SubmitStep, ChangeStep,
         Submit, PickTicket, FindByArea,
       FindInGroup, CountReport, NameIncident, CreateIncident, InsertComplaint,
       LoadForVote, LoadForPatch, LoadForUpload, Load, CommitVote, CommitPatch,
       CommitUpload, Resumes, At, Held, Submitting

\* The groups of the stored incidents change only when one is created.
LEMMA GroupsKept ==
  ASSUME TypeOK, NEW r \in Requests, RequestStep(r),
         ~CreateIncident(r)
  PROVE  /\ DOMAIN incidents' = DOMAIN incidents
         /\ \A i \in DOMAIN incidents : incidents'[i].group = incidents[i].group
<1>1. CASE CountReport(r)
  <2>1. \A i \in DOMAIN incidents : incidents[i] \in Incident
    BY DEF TypeOK
  <2> QED
    BY <1>1, <2>1 DEF CountReport, Incident
<1>2. CASE ~CountReport(r)
  <2>1. UNCHANGED incidents
    BY <1>2
       DEF RequestStep, AnswerStep, Refresh, Respond, Refuse, SubmitStep, ChangeStep,
         Submit, PickTicket, FindByArea,
           FindInGroup, NameIncident, InsertComplaint, LoadForVote,
           LoadForPatch, LoadForUpload, Load, CommitVote, CommitPatch,
           CommitUpload, Write, tables
  <2> QED
    BY <2>1
<1> QED
  BY <1>1, <1>2

\* A request about to create an incident found its group empty.
LEMMA SawNoIncident ==
  ASSUME TypeOK, GroupInv, NEW r \in Requests,
         RequestStep(r),
         pc'[r] \in {"name", "create"}
  PROVE  InGroup(r)' = {}
<1>1. CASE FindInGroup(r)
  <2>1. InGroup(r) = {} /\ UNCHANGED <<job, incidents>>
    BY <1>1 DEF FindInGroup, Join, Go, TypeOK, tables
  <2> QED
    BY <2>1 DEF InGroup
<1>2. CASE NameIncident(r)
  <2>1. InGroup(r) = {} /\ UNCHANGED incidents
    BY <1>2 DEF NameIncident, At, GroupInv, tables
  <2>2. job'[r].group = job[r].group
    <3>1. PICK n : job' = [job EXCEPT ![r] = [@ EXCEPT !.inc = n]]
      BY <1>2 DEF NameIncident
    <3>2. job[r] \in Job
      BY DEF TypeOK
    <3> QED
      BY <3>1, <3>2 DEF TypeOK, Job
  <2> QED
    BY <2>1, <2>2 DEF InGroup
<1>3. ~(CreateIncident(r) \/ CountReport(r) \/ InsertComplaint(r))
  BY DEF CreateIncident, CountReport, InsertComplaint, Store, Answer, Commits, Go, TypeOK
<1>4. ~(Refuse(r) \/ Submit(r) \/ PickTicket(r))
  BY DEF Refuse, Submit, PickTicket, Answer, Go, TypeOK
<1>5. ~FindByArea(r)
  BY DEF FindByArea, Join, Go, TypeOK
<1>6. ~ChangeStep(r)
  BY DEF ChangeStep, LoadForVote, LoadForPatch, LoadForUpload, Load, CommitVote,
         CommitPatch, CommitUpload, Write, Answer, Commits, Go, TypeOK
<1>7. ~(Refresh(r) \/ Respond(r))
  BY AnswerPlace DEF Answers
<1> QED
  BY <1>1, <1>2, <1>3, <1>4, <1>5, <1>6, <1>7 DEF RequestStep, SubmitStep, AnswerStep

\* The invariant is inductive when all requests share one event loop.
LEMMA GroupStep ==
  ASSUME SingleWorker
  PROVE  TypeOK /\ GroupInv /\ [Next]_vars => GroupInv'
<1> SUFFICES ASSUME TypeOK, GroupInv, [Next]_vars PROVE GroupInv'
  OBVIOUS
<1>1. CASE UNCHANGED vars
  BY <1>1 DEF vars, GroupInv, OneIncidentPerGroup, InGroup
<1>2. ASSUME NEW r \in Requests, RequestStep(r)
      PROVE  GroupInv'
  <2>1. OnlyMoves(r)
    BY <1>2, RequestEffect DEF Effect
  <2>2. \A p, q \in Requests : pc'[p] \in Held /\ pc'[q] \in Held => p = q
    <3>1. ASSUME pc'[r] \in Held
          PROVE  \A q \in Requests \ {r} : pc[q] \notin Held
      <4>1. CASE pc[r] \in Held
        BY <4>1 DEF GroupInv
      <4>2. CASE LoopFree(job[r].worker)
        <5>1. \A q \in Requests : job[q].worker = job[r].worker
          BY SingleWorker DEF SingleWorker, TypeOK, Job
        <5> QED
          BY <4>2, <5>1 DEF LoopFree
      <4> QED
        BY <1>2, <3>1, <4>1, <4>2, HoldsLoop
    <3> QED
      BY <2>1, <3>1 DEF OnlyMoves, GroupInv
  <2>3. CASE CreateIncident(r)
    <3>1. /\ pc[r] = "create"
          /\ InGroup(r) = {}
      BY <2>3 DEF CreateIncident, At, GroupInv
    <3>2. pc'[r] \in {"error", "insert"}
      BY <2>3 DEF CreateIncident, Answer, Go, TypeOK
    <3>3. \A q \in Requests : pc'[q] \notin {"name", "create"}
      BY <2>1, <3>1, <3>2 DEF OnlyMoves, GroupInv, Held, Submitting
    <3>4. OneIncidentPerGroup'
      <4>1. CASE UNCHANGED incidents
        BY <4>1 DEF GroupInv, OneIncidentPerGroup
      <4>2. CASE ~UNCHANGED incidents
        <5>1. incidents' = Put(incidents, job[r].inc,
                               [group |-> job[r].group, area |-> job[r].area,
                                reports |-> 1])
          BY <2>3, <4>2 DEF CreateIncident
        <5>2. \A i \in DOMAIN incidents : incidents[i].group # job[r].group
          BY <3>1 DEF InGroup
        <5> QED
          BY <5>1, <5>2 DEF Put, GroupInv, OneIncidentPerGroup
      <4> QED
        BY <4>1, <4>2
    <3> QED
      BY <2>2, <3>3, <3>4 DEF GroupInv
  <2>4. CASE ~CreateIncident(r)
    <3>1. /\ DOMAIN incidents' = DOMAIN incidents
          /\ \A i \in DOMAIN incidents : incidents'[i].group = incidents[i].group
      BY <1>2, <2>4, GroupsKept
    <3>2. OneIncidentPerGroup'
      BY <3>1 DEF GroupInv, OneIncidentPerGroup
    <3>3. ASSUME NEW q \in Requests, pc'[q] \in {"name", "create"}
          PROVE  InGroup(q)' = {}
      <4>1. CASE q = r
        BY <1>2, <3>3, <4>1, SawNoIncident
      <4>2. CASE q # r
        BY <2>1, <3>1, <3>3, <4>2 DEF OnlyMoves, GroupInv, InGroup
      <4> QED
        BY <4>1, <4>2
    <3> QED
      BY <2>2, <3>2, <3>3 DEF GroupInv
  <2> QED
    BY <2>3, <2>4
<1>3. ASSUME NEW w \in Workers, Restart(w) \/ PurgeSelect(w) \/ PurgeDelete(w)
      PROVE  GroupInv'
  <2>1. /\ UNCHANGED incidents
        /\ \A r \in Requests : pc'[r] = pc[r] \/ pc'[r] \in {"lost", "unanswered"}
    BY <1>3, WorkerEffect
  <2>2. \A r \in Requests : job'[r].group = job[r].group
    <3>1. \A r \in Requests : job[r] \in Job
      BY DEF TypeOK
    <3> QED
      BY <1>3, <3>1 DEF Restart, PurgeSelect, PurgeDelete, Job
  <2>3. "lost" \notin Held /\ "unanswered" \notin Held
    BY DEF Held, Submitting
  <2> QED
    BY <2>1, <2>2, <2>3 DEF GroupInv, OneIncidentPerGroup, InGroup
<1> QED
  BY <1>1, <1>2, <1>3 DEF Next

\* With one worker all reports of a category and department share one
\* incident, because nothing comes between the search and the insert.
THEOREM OneWorkerGroups ==
  ASSUME SingleWorker
  PROVE  Spec => []OneIncidentPerGroup
<1>1. TypeOK /\ GroupInv /\ [Next]_vars => GroupInv'
  BY SingleWorker, GroupStep
<1>2. GroupInv => OneIncidentPerGroup
  BY DEF GroupInv
<1> QED
  BY <1>1, <1>2, GroupInit, GatewayTypeCorrect, PTL DEF Spec

\* Nothing else moves while a handler holds the only loop.
LEMMA LoopExclusive ==
  ASSUME SingleWorker, TypeOK, GroupInv, NEW r \in Requests, NEW q \in Requests,
         RequestStep(r), pc[q] \in Held
  PROVE  q = r
<1>1. pc[r] \in Held \/ LoopFree(job[r].worker)
  BY DEF RequestStep, AnswerStep, Refresh, Respond, Refuse, SubmitStep, ChangeStep,
         Submit, PickTicket, FindByArea,
         FindInGroup, CountReport, NameIncident, CreateIncident, InsertComplaint,
         LoadForVote, LoadForPatch, LoadForUpload, Load, CommitVote, CommitPatch,
         CommitUpload, Resumes, At, Held, Submitting
<1>2. job[q].worker = job[r].worker
  BY DEF SingleWorker, TypeOK, Job
<1> QED
  BY <1>1, <1>2 DEF GroupInv, LoopFree

----------------------------------------------------------------------------
(* Votes of a gateway with one worker                                      *)

Voters(n, d) ==
  {r \in Past("voted") : job[r].id = n /\ job[r].dir = d}

\* The counters are exact, and a handler that is about to write one has loaded
\* it as it is.  Only a complaint that is stored has been voted for, so a new
\* one starts with no votes.
VotesInv ==
  restarts = 0 =>
    /\ \A n \in Nat, d \in Directions : IsFiniteSet(Voters(n, d))
    /\ \A n \in DOMAIN complaints, d \in Directions :
         complaints[n].votes[d] = Cardinality(Voters(n, d))
    /\ \A r \in Requests :
         pc[r] = "vote" \/ r \in Past("voted") => job[r].id \in DOMAIN complaints
    /\ \A r \in Requests :
         pc[r] = "vote" => job[r].seen.votes = complaints[job[r].id].votes

\* A step that leaves the counters alone: it commits no vote, forgets one only
\* when its complaint is gone, and loads a complaint as it is.
KeepsVotes(r) ==
  /\ r \in Past("voted")' => r \in Past("voted")
  /\ r \in Past("voted") =>
       /\ job'[r].id = job[r].id /\ job'[r].dir = job[r].dir
       /\ r \in Past("voted")' \/ job[r].id \notin DOMAIN complaints
  /\ DOMAIN complaints' = DOMAIN complaints
  /\ \A n \in DOMAIN complaints : complaints'[n].votes = complaints[n].votes
  /\ pc'[r] = "vote" => /\ job'[r].id \in DOMAIN complaints
                        /\ job'[r].seen.votes = complaints[job'[r].id].votes

\* A vote that is counted.
Votes(r) ==
  /\ pc[r] = "vote" /\ pc'[r] = "publish" /\ job'[r].reply = "voted"
  /\ job'[r].id = job[r].id /\ job'[r].dir = job[r].dir
  /\ job[r].id \in DOMAIN complaints
  /\ complaints' = [complaints EXCEPT ![job[r].id] =
                      [@ EXCEPT !.votes[job[r].dir] = job[r].seen.votes[job[r].dir] + 1]]

\* Writing back a complaint with the votes it has.
LEMMA WriteBackVotes ==
  ASSUME TypeOK, NEW r \in Requests, NEW c,
         job[r].id \in DOMAIN complaints => c.votes = Row(r).votes,
         NEW there \in {"refresh", "publish"}, r \notin Past("voted"),
         Write(r, c, there, "changed")
  PROVE  KeepsVotes(r)
<1>1. \/ pc'[r] = "error"
      \/ pc'[r] \in {"refresh", "publish"} /\ job'[r].reply = "changed"
  BY AnswerFrame, CommitsFrame DEF Write
<1> QED
  BY <1>1 DEF Write, Row, TypeOK, KeepsVotes, Past

\* What a step of a request does to the counters.
LEMMA VoteEffect ==
  ASSUME TypeOK, NEW r \in Requests, RequestStep(r)
  PROVE  KeepsVotes(r) \/ Inserts(r) \/ Votes(r)
<1>0. /\ job[r] \in Job
      /\ job[r].id \in DOMAIN complaints => Row(r) \in Complaint
  BY DEF TypeOK, Row
<1>1. CASE Refuse(r) \/ Submit(r) \/ PickTicket(r) \/ NameIncident(r) \/ CountReport(r)
  BY <1>1 DEF Refuse, Submit, PickTicket, NameIncident, CountReport, Answer, Go, TypeOK,
              tables, Resumes, At, KeepsVotes, Past
<1>2. CASE FindByArea(r) \/ FindInGroup(r)
  BY <1>2 DEF FindByArea, FindInGroup, At, Join, Go, TypeOK, tables, KeepsVotes, Past
<1>3. CASE CreateIncident(r)
  BY <1>3 DEF CreateIncident, At, Answer, Go, TypeOK, KeepsVotes, Past
<1>4. CASE InsertComplaint(r)
  <2>1. CASE job[r].id \in DOMAIN complaints
    BY <1>4, <2>1 DEF InsertComplaint, At, Answer, Go, TypeOK, KeepsVotes, Past
  <2>2. CASE job[r].id \notin DOMAIN complaints
    BY <1>4, <2>2, CommitsFrame DEF InsertComplaint, Store, At, Inserts
  <2> QED
    BY <2>1, <2>2
<1>5. CASE LoadForVote(r)
  <2>1. PICK n \in DOMAIN complaints, d \in Directions :
           job' = [job EXCEPT ![r] = [@ EXCEPT !.id = n, !.seen = complaints[n],
                                               !.dir = d]]
    BY <1>5 DEF LoadForVote
  <2>2. job'[r].id = n /\ job'[r].seen = complaints[n]
    BY <1>0, <2>1 DEF TypeOK, Job
  <2> QED
    BY <1>5, <2>2 DEF LoadForVote, Resumes, At, tables, KeepsVotes, Past, Go, TypeOK
<1>6. CASE LoadForPatch(r) \/ LoadForUpload(r)
  BY <1>6 DEF LoadForPatch, LoadForUpload, Load, Resumes, At, Go, TypeOK, tables,
              KeepsVotes, Past
<1>7. CASE CommitVote(r)
  <2>1. CASE job[r].id \in DOMAIN complaints
    <3>1. Commits(r, "publish", "voted") /\ pc[r] = "vote"
      BY <1>7, <2>1 DEF CommitVote, Write, At
    <3>2. /\ pc'[r] = "publish" /\ job'[r].reply = "voted"
          /\ job'[r].id = job[r].id /\ job'[r].dir = job[r].dir
      BY <3>1, CommitsFrame
    <3> QED
      BY <1>7, <2>1, <3>1, <3>2 DEF CommitVote, Write, Row, Votes
  <2>2. CASE job[r].id \notin DOMAIN complaints
    BY <1>7, <2>2 DEF CommitVote, At, Write, Answer, Go, TypeOK, KeepsVotes, Past
  <2> QED
    BY <2>1, <2>2
<1>8. CASE CommitPatch(r)
  <2>1. PICK s \in Statuses, e \in BOOLEAN :
           IF PatchEvents(r, s, e) = <<>>
           THEN Answer(r, "changed") /\ UNCHANGED <<tables, workerVars>>
           ELSE Write(r, [Row(r) EXCEPT
                            !.status = IF s = job[r].seen.status THEN @ ELSE s,
                            !.timeline = job[r].seen.timeline
                                           \o PatchEvents(r, s, e)],
                      "refresh", "changed")
    BY <1>8 DEF CommitPatch
  <2>2. CASE PatchEvents(r, s, e) = <<>>
    BY <1>8, <2>1, <2>2 DEF CommitPatch, At, tables, Answer, Go, TypeOK, KeepsVotes, Past
  <2>3. CASE PatchEvents(r, s, e) # <<>>
    <3> DEFINE c == [Row(r) EXCEPT
                       !.status = IF s = job[r].seen.status THEN @ ELSE s,
                       !.timeline = job[r].seen.timeline
                                      \o PatchEvents(r, s, e)]
    <3>1. job[r].id \in DOMAIN complaints => c.votes = Row(r).votes
      BY <1>0 DEF Complaint
    <3>2. Write(r, c, "refresh", "changed")
      BY <2>1, <2>3
    <3> HIDE DEF c
    <3> QED
      BY <1>8, <3>1, <3>2, WriteBackVotes DEF CommitPatch, At, Past
  <2> QED
    BY <2>2, <2>3
<1>9. CASE CommitUpload(r)
  <2> DEFINE c == [Row(r) EXCEPT !.timeline =
                                   Append(job[r].seen.timeline, "images")]
  <2>1. job[r].id \in DOMAIN complaints => c.votes = Row(r).votes
    BY <1>0 DEF Complaint
  <2>2. Write(r, c, "publish", "changed")
    BY <1>9 DEF CommitUpload
  <2> HIDE DEF c
  <2> QED
    BY <1>9, <2>1, <2>2, WriteBackVotes DEF CommitUpload, Resumes, At, Past
<1>10. CASE Refresh(r)
  <2>1. CASE job[r].id \in DOMAIN complaints
    BY <1>10, <2>1 DEF Refresh, At, Go, TypeOK, tables, KeepsVotes, Past
  <2>2. CASE job[r].id \notin DOMAIN complaints
    BY <1>10, <2>2, AnswerFrame DEF Refresh, At, tables, KeepsVotes, Past
  <2> QED
    BY <2>1, <2>2
<1>11. CASE Respond(r)
  <2>1. CASE job[r].reply = "voted" /\ job[r].id \notin DOMAIN complaints
    BY <1>11, <2>1, AnswerFrame DEF Respond, Resumes, At, tables, KeepsVotes, Past
  <2>2. CASE ~(job[r].reply = "voted" /\ job[r].id \notin DOMAIN complaints)
    <3>1. Answer(r, job[r].reply) /\ pc[r] = "publish" /\ UNCHANGED complaints
      BY <1>11, <2>2 DEF Respond, Resumes, At, tables
    <3>2. job[r].reply \in Answers \cup {"error"}
      BY <1>0 DEF Job
    <3> QED
      BY <3>1, <3>2, AnswerFrame DEF KeepsVotes, Past, Answers
  <2> QED
    BY <2>1, <2>2
<1> QED
  BY <1>1, <1>2, <1>3, <1>4, <1>5, <1>6, <1>7, <1>8, <1>9, <1>10, <1>11
     DEF RequestStep, SubmitStep, ChangeStep, AnswerStep

\* Nobody has voted yet.
LEMMA VotesInit == Init => VotesInv
<1> SUFFICES ASSUME Init PROVE VotesInv
  OBVIOUS
<1>1. /\ DOMAIN complaints = {}
      /\ \A r \in Requests : pc[r] = "idle"
  BY DEF Init
<1>2. \A n \in Nat, d \in Directions : Voters(n, d) = {}
  BY <1>1 DEF Voters, Past
<1> QED
  BY <1>1, <1>2, FS_EmptySet DEF VotesInv, Past

\* The invariant is inductive when all requests share one event loop: between
\* load and commit of a vote nothing else is written, and a committed vote
\* adds one voter and one vote.
LEMMA VotesStep ==
  ASSUME SingleWorker
  PROVE  TypeOK /\ StoreInv /\ GroupInv /\ VotesInv /\ [Next]_vars => VotesInv'
<1> SUFFICES ASSUME TypeOK, StoreInv, GroupInv, VotesInv, [Next]_vars, restarts' = 0
             PROVE  VotesInv'
  BY DEF VotesInv
<1>1. CASE UNCHANGED vars
  BY <1>1 DEF vars, VotesInv, Voters, Past
<1>2. ASSUME NEW r \in Requests, RequestStep(r)
      PROVE  VotesInv'
  <2>1. OnlyMoves(r) /\ restarts = 0
    BY <1>2, RequestEffect DEF Effect, OnlyMoves
  <2>2. /\ \A n \in Nat, d \in Directions : IsFiniteSet(Voters(n, d))
        /\ \A n \in DOMAIN complaints, d \in Directions :
             complaints[n].votes[d] = Cardinality(Voters(n, d))
        /\ \A q \in Requests :
             pc[q] = "vote" \/ q \in Past("voted") => job[q].id \in DOMAIN complaints
        /\ \A q \in Requests :
             pc[q] = "vote" => job[q].seen.votes = complaints[job[q].id].votes
    BY <2>1 DEF VotesInv
  <2>3. \A q \in Requests \ {r} : pc[q] # "vote" /\ pc'[q] # "vote"
    BY <1>2, <2>1, LoopExclusive DEF OnlyMoves, Held
  <2>4. \A q \in Requests \ {r} :
          /\ q \in Past("voted")' <=> q \in Past("voted")
          /\ job'[q] = job[q]
    BY <2>1 DEF OnlyMoves, Past
  <2>5. Past("voted") \subseteq Requests /\ Past("voted")' \subseteq Requests
    BY DEF Past
  <2>6. CASE KeepsVotes(r)
    <3>0. /\ r \in Past("voted")' <=> r \in Past("voted")
          /\ r \in Past("voted") => job'[r].id = job[r].id /\ job'[r].dir = job[r].dir
      BY <2>2, <2>6 DEF KeepsVotes
    <3>4. ASSUME NEW n, NEW d PROVE Voters(n, d)' = Voters(n, d)
      BY <2>4, <2>5, <3>0 DEF Voters
    <3>1. \A q \in Requests :
            pc'[q] = "vote" \/ q \in Past("voted")' => job'[q].id \in DOMAIN complaints'
      BY <2>2, <2>3, <2>4, <2>6, <3>0 DEF KeepsVotes
    <3>2. \A q \in Requests :
            pc'[q] = "vote" => job'[q].seen.votes = complaints'[job'[q].id].votes
      BY <2>3, <2>6 DEF KeepsVotes
    <3>3. /\ \A n \in Nat, d \in Directions : IsFiniteSet(Voters(n, d)')
          /\ \A n \in DOMAIN complaints', d \in Directions :
               complaints'[n].votes[d] = Cardinality(Voters(n, d)')
      BY <2>2, <2>6, <3>4 DEF KeepsVotes
    <3> QED
      BY <3>1, <3>2, <3>3 DEF VotesInv
  <2>7. CASE Inserts(r)
    <3>1. /\ DOMAIN complaints' = DOMAIN complaints \cup {job[r].id}
          /\ \A n \in DOMAIN complaints : complaints'[n] = complaints[n]
          /\ complaints'[job[r].id].votes = [d \in Directions |-> 0]
      BY <2>7 DEF Inserts, Put, New
    <3>2. \A d \in Directions : Voters(job[r].id, d) = {}
      BY <2>2, <2>5, <2>7 DEF Voters, Inserts
    <3>4. r \notin Past("voted") /\ r \notin Past("voted")'
      BY <2>7 DEF Inserts, Past
    <3>7. ASSUME NEW n, NEW d PROVE Voters(n, d)' = Voters(n, d)
      BY <2>4, <2>5, <3>4 DEF Voters
    <3>3. \A q \in Requests :
            /\ q \in Past("voted")' => job'[q].id \in DOMAIN complaints'
            /\ pc'[q] # "vote"
      BY <2>2, <2>3, <2>4, <2>7, <3>1, <3>4 DEF Inserts
    <3>5. \A n \in Nat, d \in Directions : IsFiniteSet(Voters(n, d)')
      BY <2>2, <3>7
    <3>6. \A n \in DOMAIN complaints', d \in Directions :
            complaints'[n].votes[d] = Cardinality(Voters(n, d)')
      <4> SUFFICES ASSUME NEW n \in DOMAIN complaints', NEW d \in Directions
                   PROVE  complaints'[n].votes[d] = Cardinality(Voters(n, d)')
        OBVIOUS
      <4>1. Voters(n, d)' = Voters(n, d)
        BY <3>7
      <4>2. CASE n = job[r].id
        <5>1. complaints'[n].votes[d] = 0
          BY <3>1, <4>2
        <5>2. Voters(n, d) = {}
          BY <3>2, <4>2
        <5> QED
          BY <4>1, <5>1, <5>2, FS_EmptySet
      <4>3. CASE n # job[r].id
        <5>1. n \in DOMAIN complaints /\ complaints'[n] = complaints[n]
          BY <3>1, <4>3
        <5>2. complaints[n].votes[d] = Cardinality(Voters(n, d))
          BY <2>2, <5>1
        <5> QED
          BY <4>1, <5>1, <5>2
      <4> QED
        BY <4>2, <4>3
    <3> QED
      BY <3>3, <3>5, <3>6 DEF VotesInv
  <2>8. CASE Votes(r)
    <3> DEFINE m == job[r].id
               e == job[r].dir
    <3>1. /\ m \in DOMAIN complaints /\ m \in Nat /\ e \in Directions
          /\ complaints[m] \in Complaint
      BY <2>8 DEF Votes, TypeOK, Job
    <3>2. /\ DOMAIN complaints' = DOMAIN complaints
          /\ \A n \in DOMAIN complaints, d \in Directions :
               complaints'[n].votes[d] =
                 IF n = m /\ d = e THEN complaints[n].votes[d] + 1
                 ELSE complaints[n].votes[d]
      <4>1. \A n \in DOMAIN complaints : complaints[n] \in Complaint
        BY DEF TypeOK
      <4>2. job[r].seen.votes = complaints[m].votes
        BY <2>2, <2>8 DEF Votes
      <4> QED
        BY <2>8, <3>1, <4>1, <4>2 DEF Votes, Complaint, TypeOK
    <3>8. r \notin Past("voted") /\ r \in Past("voted")'
      BY <2>8 DEF Votes, Past
    <3>3. \A n, d : Voters(n, d)' = IF n = m /\ d = e THEN Voters(n, d) \cup {r}
                                    ELSE Voters(n, d)
      BY <2>4, <2>5, <2>8, <3>8 DEF Votes, Voters
    <3>4. \A n, d : r \notin Voters(n, d)
      BY <3>8 DEF Voters
    <3>5. \A n \in Nat, d \in Directions : IsFiniteSet(Voters(n, d)')
      BY <2>2, <3>3, FS_AddElement
    <3>6. \A n \in DOMAIN complaints', d \in Directions :
            complaints'[n].votes[d] = Cardinality(Voters(n, d)')
      <4> SUFFICES ASSUME NEW n \in DOMAIN complaints, NEW d \in Directions
                   PROVE  complaints'[n].votes[d] = Cardinality(Voters(n, d)')
        BY <3>2
      <4>1. IsFiniteSet(Voters(n, d)) /\ complaints[n].votes[d] = Cardinality(Voters(n, d))
        BY <2>2 DEF TypeOK
      <4>2. CASE n = m /\ d = e
        <5>1. Voters(n, d)' = Voters(n, d) \cup {r} /\ r \notin Voters(n, d)
          BY <3>3, <3>4, <4>2
        <5>2. Cardinality(Voters(n, d) \cup {r}) = Cardinality(Voters(n, d)) + 1
          BY <4>1, <5>1, FS_AddElement
        <5>3. complaints'[n].votes[d] = complaints[n].votes[d] + 1
          BY <3>2, <4>2
        <5> QED
          BY <4>1, <5>1, <5>2, <5>3
      <4>3. CASE ~(n = m /\ d = e)
        <5>1. Voters(n, d)' = Voters(n, d)
          BY <3>3, <4>3
        <5>2. complaints'[n].votes[d] = complaints[n].votes[d]
          BY <3>2, <4>3
        <5> QED
          BY <4>1, <5>1, <5>2
      <4> QED
        BY <4>2, <4>3
    <3>7. \A q \in Requests :
            /\ q \in Past("voted")' => job'[q].id \in DOMAIN complaints'
            /\ pc'[q] # "vote"
      BY <2>2, <2>3, <2>4, <2>8, <3>1, <3>2 DEF Votes
    <3> QED
      BY <3>5, <3>6, <3>7 DEF VotesInv
  <2> QED
    BY <1>2, <2>6, <2>7, <2>8, VoteEffect
<1>3. ASSUME NEW w \in Workers, Restart(w) \/ PurgeSelect(w) \/ PurgeDelete(w)
      PROVE  FALSE
  <2>1. restarts = 0
    BY <1>3, WorkerEffect
  <2>2. startup[w] = "serving"
    BY <2>1 DEF StoreInv
  <2> QED
    BY <1>3, <2>2, WorkerEffect
<1> QED
  BY <1>1, <1>2, <1>3 DEF Next

\* With one worker no vote is lost: the counters of a complaint are the votes
\* committed (vote_complaint, routes.py:1107-1122).
THEOREM OneWorkerCountsVotes ==
  ASSUME SingleWorker
  PROVE  Spec => []VotesCounted
<1>1. TypeOK /\ GroupInv /\ [Next]_vars => GroupInv'
  BY SingleWorker, GroupStep
<1>2. TypeOK /\ StoreInv /\ GroupInv /\ VotesInv /\ [Next]_vars => VotesInv'
  BY SingleWorker, VotesStep
<1>3. VotesInv => VotesCounted
  BY DEF VotesInv, VotesCounted, Voters
<1> QED
  BY <1>1, <1>2, <1>3, GroupInit, StoreInit, StoreStep, VotesInit, GatewayTypeCorrect, PTL
     DEF Spec

----------------------------------------------------------------------------
(* Reports of a gateway with one worker                                    *)

Members(i) == {n \in DOMAIN complaints : complaints[n].incident = i}
Coming(i) == {r \in Requests : pc[r] = "insert" /\ job[r].inc = i}

\* Every incident counts its complaints and the one that is about to be
\* inserted; a restart can only take reports away that were counted.  The number
\* chosen for a ticket stays free, and a count is loaded as it is.
ReportsInv ==
  /\ IsFiniteSet(DOMAIN complaints)
  /\ \A r \in Requests : pc[r] \in Submitting => job[r].id \notin DOMAIN complaints
  /\ \A r \in Requests :
       pc[r] = "count" => job[r].reports = incidents[job[r].inc].reports
  /\ \A i \in DOMAIN incidents :
       /\ incidents[i].reports >= Cardinality(Members(i)) + Cardinality(Coming(i))
       /\ restarts = 0 =>
            incidents[i].reports = Cardinality(Members(i)) + Cardinality(Coming(i))

\* It holds of empty tables.
LEMMA ReportsInit == Init => ReportsInv
<1> SUFFICES ASSUME Init PROVE ReportsInv
  OBVIOUS
<1>1. /\ DOMAIN complaints = {} /\ DOMAIN incidents = {}
      /\ \A r \in Requests : pc[r] = "idle"
  BY DEF Init
<1> QED
  BY <1>1, FS_EmptySet DEF ReportsInv, Submitting

\* A number that follows the largest one used is free.
LEMMA NextNumberFree ==
  ASSUME NEW used \in SUBSET Nat, NEW first \in Nat, NEW n \in NextNumber(used, first)
  PROVE  n \notin used
BY DEF NextNumber

\* A submission that is under way after a step has chosen its number in it, or
\* before.
LEMMA TicketStep ==
  ASSUME TypeOK, NEW r \in Requests, RequestStep(r),
         pc'[r] \in Submitting
  PROVE  /\ UNCHANGED complaints
         /\ \/ pc[r] \in Submitting /\ job'[r].id = job[r].id
            \/ job'[r].id \notin DOMAIN complaints
<1>0. job[r] \in Job /\ DOMAIN complaints \in SUBSET Nat
  BY DEF TypeOK
<1>1. CASE PickTicket(r)
  <2>1. PICK n \in NextNumber(DOMAIN complaints, FirstTicket),
             b \in BOOLEAN, g \in Groups, a \in Areas :
           job' = [job EXCEPT ![r] = [@ EXCEPT !.id = n, !.approved = b,
                                               !.group = g, !.area = a]]
    BY <1>1 DEF PickTicket
  <2>2. job'[r].id = n
    BY <1>0, <2>1 DEF TypeOK, Job
  <2>3. n \notin DOMAIN complaints
    BY <1>0, NextNumberFree, GatewayAssumption
  <2> QED
    BY <1>1, <2>2, <2>3 DEF PickTicket, tables
<1>2. CASE FindByArea(r) \/ FindInGroup(r)
  <2>1. job'[r].id = job[r].id
    <3>1. CASE UNCHANGED job
      BY <3>1
    <3>2. CASE ~UNCHANGED job
      <4>1. PICK i : job' = [job EXCEPT ![r] = [@ EXCEPT !.inc = i,
                                                !.reports = incidents[i].reports]]
        BY <1>2, <3>2 DEF FindByArea, FindInGroup, Join
      <4> QED
        BY <1>0, <4>1 DEF TypeOK, Job
    <3> QED
      BY <3>1, <3>2
  <2> QED
    BY <1>2, <2>1 DEF FindByArea, FindInGroup, At, Submitting, tables
<1>3. CASE CountReport(r) \/ NameIncident(r)
  <2>1. job'[r].id = job[r].id
    BY <1>0, <1>3 DEF CountReport, NameIncident, TypeOK, Job
  <2> QED
    BY <1>3, <2>1 DEF CountReport, NameIncident, At, Submitting, tables
<1>4. CASE CreateIncident(r)
  <2>1. pc'[r] # "error"
    BY DEF Submitting
  <2>2. UNCHANGED job
    BY <1>4, <2>1, AnswerFrame DEF CreateIncident
  <2> QED
    BY <1>4, <2>2 DEF CreateIncident, At, Submitting
<1>5. ~(Refuse(r) \/ Submit(r) \/ InsertComplaint(r) \/ ChangeStep(r))
  BY DEF Refuse, Submit, InsertComplaint, Store, ChangeStep, LoadForVote, LoadForPatch,
         LoadForUpload, Load, CommitVote, CommitPatch, CommitUpload, Write, Answer, Commits,
         Go, TypeOK, Submitting
<1>6. ~(Refresh(r) \/ Respond(r))
  BY AnswerPlace DEF Answers, Submitting
<1> QED
  BY <1>1, <1>2, <1>3, <1>4, <1>5, <1>6 DEF RequestStep, SubmitStep, AnswerStep

\* A submission that is about to count its report has loaded the count.
LEMMA CountLoaded ==
  ASSUME TypeOK, NEW r \in Requests, RequestStep(r),
         pc'[r] = "count"
  PROVE  /\ UNCHANGED incidents
         /\ job'[r].reports = incidents[job'[r].inc].reports
<1>1. CASE FindByArea(r) \/ FindInGroup(r)
  <2>1. PICK i \in DOMAIN incidents :
           job' = [job EXCEPT ![r] = [@ EXCEPT !.inc = i, !.reports = incidents[i].reports]]
    BY <1>1 DEF FindByArea, FindInGroup, Join, Go, TypeOK, InArea, InGroup
  <2>2. job'[r].inc = i /\ job'[r].reports = incidents[i].reports
    BY <2>1 DEF TypeOK, Job
  <2> QED
    BY <1>1, <2>2 DEF FindByArea, FindInGroup, tables
<1>2. ~(PickTicket(r) \/ CountReport(r) \/ NameIncident(r) \/ CreateIncident(r))
  BY DEF PickTicket, CountReport, NameIncident, CreateIncident, Answer, Go, TypeOK
<1>3. ~(Refuse(r) \/ Submit(r) \/ InsertComplaint(r) \/ ChangeStep(r))
  BY DEF Refuse, Submit, InsertComplaint, Store, ChangeStep, LoadForVote, LoadForPatch,
         LoadForUpload, Load, CommitVote, CommitPatch, CommitUpload, Write, Answer, Commits,
         Go, TypeOK
<1>4. ~(Refresh(r) \/ Respond(r))
  BY AnswerPlace DEF Answers
<1> QED
  BY <1>1, <1>2, <1>3, <1>4 DEF RequestStep, SubmitStep, AnswerStep

\* Only three steps of a submission change counts, or what is about to be
\* inserted.
LEMMA CountsKept ==
  ASSUME TypeOK, NEW r \in Requests, RequestStep(r),
         ~(CountReport(r) \/ CreateIncident(r) \/ InsertComplaint(r))
  PROVE  UNCHANGED incidents /\ pc[r] # "insert" /\ pc'[r] # "insert"
<1>1. UNCHANGED incidents /\ pc[r] # "insert"
  BY DEF RequestStep, AnswerStep, Refresh, Respond, Refuse, SubmitStep, ChangeStep,
         Submit, PickTicket, FindByArea, FindInGroup,
         NameIncident, LoadForVote, LoadForPatch, LoadForUpload, Load, CommitVote,
         CommitPatch, CommitUpload, Write, tables, Resumes, At
<1>2. SubmitStep(r) \/ Refuse(r) => pc'[r] # "insert"
  BY DEF Refuse, SubmitStep, Submit, PickTicket, FindByArea, FindInGroup, NameIncident,
         Join, Answer, Go, TypeOK
<1>3. ChangeStep(r) => pc'[r] # "insert"
  BY DEF ChangeStep, LoadForVote, LoadForPatch, LoadForUpload, Load, CommitVote,
         CommitPatch, CommitUpload, Write, Answer, Commits, Go, TypeOK
<1>4. Refresh(r) \/ Respond(r) => pc'[r] # "insert"
  BY AnswerPlace DEF Answers
<1> QED
  BY <1>1, <1>2, <1>3, <1>4 DEF RequestStep, AnswerStep

\* With one loop at most one complaint is about to be inserted.
LEMMA ComingFinite ==
  ASSUME GroupInv, NEW i
  PROVE  IsFiniteSet(Coming(i))
<1>1. CASE Coming(i) = {}
  BY <1>1, FS_EmptySet
<1>2. CASE Coming(i) # {}
  <2>1. PICK r \in Coming(i) : TRUE
    BY <1>2
  <2>2. Coming(i) = {r}
    BY <2>1 DEF Coming, GroupInv, Held, Submitting
  <2> QED
    BY <2>2, FS_Singleton
<1> QED
  BY <1>1, <1>2

\* The complaints of an incident are finitely many.
LEMMA MembersFinite ==
  ASSUME ReportsInv, NEW i
  PROVE  IsFiniteSet(Members(i))
<1>1. Members(i) \in SUBSET DOMAIN complaints
  BY DEF Members
<1> QED
  BY <1>1, FS_Subset DEF ReportsInv

\* A step of a request keeps every count exact.
LEMMA CountsStep ==
  ASSUME SingleWorker, TypeOK, IncidentInv, GroupInv, ReportsInv, NEW r \in Requests,
         RequestStep(r), NEW i \in DOMAIN incidents'
  PROVE  /\ incidents'[i].reports >= Cardinality(Members(i)') + Cardinality(Coming(i)')
         /\ restarts' = 0 =>
              incidents'[i].reports = Cardinality(Members(i)') + Cardinality(Coming(i)')
<1> DEFINE in == pc[r] = "insert" /\ job[r].inc = i
           inNext == pc'[r] = "insert" /\ job'[r].inc = i
<1>0. Effect(r) /\ restarts' = restarts
  BY RequestEffect DEF Effect, OnlyMoves
<1>1. \A q \in Requests \ {r} : pc[q] # "insert" /\ pc'[q] # "insert"
  BY <1>0, LoopExclusive DEF Effect, OnlyMoves, Held, Submitting
<1>2. /\ Coming(i) = IF in THEN {r} ELSE {}
      /\ Coming(i)' = IF inNext THEN {r} ELSE {}
  BY <1>1 DEF Coming
<1>3. /\ Cardinality(Coming(i)) = IF in THEN 1 ELSE 0
      /\ Cardinality(Coming(i)') = IF inNext THEN 1 ELSE 0
  <2> HIDE DEF in, inNext
  <2> QED
    BY <1>2, FS_EmptySet, FS_Singleton
<1>4. IsFiniteSet(Members(i)) /\ Cardinality(Members(i)) \in Nat
  BY MembersFinite, FS_CardinalityType
<1>5. Keeps(r) => Members(i)' = Members(i)
  BY DEF Keeps, Members
<1>6. i \in DOMAIN incidents =>
        /\ incidents[i].reports \in Nat
        /\ incidents[i].reports >= Cardinality(Members(i)) + Cardinality(Coming(i))
        /\ restarts = 0 =>
             incidents[i].reports = Cardinality(Members(i)) + Cardinality(Coming(i))
  BY DEF ReportsInv, TypeOK, Incident
<1>7. CASE CountReport(r)
  <2>1. /\ pc[r] = "count" /\ pc'[r] = "insert" /\ UNCHANGED job
        /\ UNCHANGED complaints
        /\ incidents' = [incidents EXCEPT ![job[r].inc] =
                           [@ EXCEPT !.reports = job[r].reports + 1]]
    BY <1>7 DEF CountReport, At, Go, TypeOK
  <2>2. Members(i)' = Members(i) /\ i \in DOMAIN incidents
    BY <2>1 DEF Members
  <2>3. CASE i = job[r].inc
    <3>1. job[r].reports = incidents[i].reports
      BY <2>1, <2>3 DEF ReportsInv
    <3>2. incidents'[i].reports = incidents[i].reports + 1
      BY <2>1, <2>2, <2>3, <3>1 DEF TypeOK, Incident
    <3> QED
      BY <1>0, <1>3, <1>4, <1>6, <2>1, <2>2, <2>3, <3>2
  <2>4. CASE i # job[r].inc
    <3>1. incidents'[i] = incidents[i]
      BY <2>1, <2>2, <2>4
    <3> QED
      BY <1>0, <1>3, <1>4, <1>6, <2>1, <2>2, <2>4, <3>1
  <2> QED
    BY <2>3, <2>4
<1>8. CASE CreateIncident(r)
  <2>1. UNCHANGED complaints /\ Members(i)' = Members(i) /\ pc[r] = "create"
    BY <1>8 DEF CreateIncident, Members, At
  <2>2. CASE job[r].inc \in DOMAIN incidents
    <3>1. UNCHANGED incidents /\ pc'[r] = "error"
      BY <1>8, <2>2, AnswerFrame DEF CreateIncident
    <3> QED
      BY <1>0, <1>3, <1>6, <2>1, <3>1
  <2>3. CASE job[r].inc \notin DOMAIN incidents
    <3>1. /\ pc'[r] = "insert" /\ UNCHANGED job
          /\ incidents' = Put(incidents, job[r].inc,
                              [group |-> job[r].group, area |-> job[r].area,
                               reports |-> 1])
      BY <1>8, <2>3 DEF CreateIncident, Go, TypeOK
    <3>2. CASE i = job[r].inc
      <4>1. Members(i) = {}
        BY <2>3, <3>2 DEF Members, IncidentInv, ComplaintHasIncident
      <4>2. incidents'[i].reports = 1
        BY <3>1, <3>2 DEF Put
      <4> QED
        BY <1>0, <1>3, <2>1, <3>1, <3>2, <4>1, <4>2, FS_EmptySet
    <3>3. CASE i # job[r].inc
      <4>1. i \in DOMAIN incidents /\ incidents'[i] = incidents[i]
        BY <3>1, <3>3 DEF Put
      <4> QED
        BY <1>0, <1>3, <1>4, <1>6, <2>1, <3>1, <3>3, <4>1
    <3> QED
      BY <3>2, <3>3
  <2> QED
    BY <2>2, <2>3
<1>9. CASE InsertComplaint(r)
  <2>1. /\ pc[r] = "insert" /\ pc'[r] # "insert" /\ UNCHANGED incidents
        /\ job[r].id \notin DOMAIN complaints
        /\ complaints' = Put(complaints, job[r].id, New(job[r].inc, job[r].approved))
    <3>1. pc[r] = "insert" /\ UNCHANGED incidents
      BY <1>9 DEF InsertComplaint, At
    <3>2. job[r].id \notin DOMAIN complaints
      BY <3>1 DEF ReportsInv, Submitting
    <3> QED
      BY <1>9, <3>1, <3>2, CommitsFrame DEF InsertComplaint, Store
  <2>2. Members(i)' = IF job[r].inc = i THEN Members(i) \cup {job[r].id} ELSE Members(i)
    BY <2>1 DEF Members, Put, New
  <2>3. job[r].id \notin Members(i)
    BY <2>1 DEF Members
  <2>4. Cardinality(Members(i)') = IF job[r].inc = i THEN Cardinality(Members(i)) + 1
                                   ELSE Cardinality(Members(i))
    BY <1>4, <2>2, <2>3, FS_AddElement
  <2> QED
    BY <1>0, <1>3, <1>4, <1>6, <2>1, <2>4
<1>10. CASE ~(CountReport(r) \/ CreateIncident(r) \/ InsertComplaint(r))
  <2>1. UNCHANGED incidents /\ pc[r] # "insert" /\ pc'[r] # "insert"
    BY <1>10, CountsKept
  <2>2. Members(i)' = Members(i)
    BY <1>0, <1>5, <2>1 DEF Effect, Inserts
  <2> QED
    BY <1>0, <1>3, <1>6, <2>1, <2>2
<1> QED
  BY <1>7, <1>8, <1>9, <1>10

\* The invariant is inductive when all requests share one event loop: a count
\* and a number that were loaded are not overtaken.
LEMMA ReportsStep ==
  ASSUME SingleWorker
  PROVE  TypeOK /\ IncidentInv /\ StoreInv /\ GroupInv /\ ReportsInv /\ [Next]_vars
           => ReportsInv'
<1> SUFFICES ASSUME TypeOK, IncidentInv, StoreInv, GroupInv, ReportsInv, [Next]_vars
             PROVE  ReportsInv'
  OBVIOUS
<1>1. CASE UNCHANGED vars
  BY <1>1 DEF vars, ReportsInv, Members, Coming
<1>2. ASSUME NEW r \in Requests, RequestStep(r)
      PROVE  ReportsInv'
  <2>1. Effect(r)
    BY <1>2, RequestEffect
  <2>2. \A q \in Requests \ {r} : pc'[q] \notin Submitting
    BY <1>2, <2>1, LoopExclusive DEF Effect, OnlyMoves, Held
  <2>3. IsFiniteSet(DOMAIN complaints')
    <3>1. CASE Keeps(r)
      BY <3>1 DEF Keeps, ReportsInv
    <3>2. CASE Inserts(r)
      <4>1. DOMAIN complaints' = DOMAIN complaints \cup {job[r].id}
        BY <3>2 DEF Inserts, Put
      <4> QED
        BY <4>1, FS_AddElement DEF ReportsInv
    <3> QED
      BY <2>1, <3>1, <3>2 DEF Effect
  <2>4. \A q \in Requests : pc'[q] \in Submitting => job'[q].id \notin DOMAIN complaints'
    BY <1>2, <2>2, TicketStep DEF ReportsInv
  <2>5. \A q \in Requests :
          pc'[q] = "count" => job'[q].reports = incidents'[job'[q].inc].reports
    <3>1. pc'[r] = "count" => job'[r].reports = incidents'[job'[r].inc].reports
      BY <1>2, CountLoaded
    <3> QED
      BY <2>2, <3>1 DEF Submitting
  <2>6. \A i \in DOMAIN incidents' :
          /\ incidents'[i].reports >= Cardinality(Members(i)') + Cardinality(Coming(i)')
          /\ restarts' = 0 =>
               incidents'[i].reports = Cardinality(Members(i)') + Cardinality(Coming(i)')
    BY <1>2, CountsStep
  <2> QED
    BY <2>3, <2>4, <2>5, <2>6 DEF ReportsInv
<1>3. ASSUME NEW w \in Workers, Restart(w) \/ PurgeSelect(w) \/ PurgeDelete(w)
      PROVE  ReportsInv'
  <2>1. /\ DOMAIN complaints' \subseteq DOMAIN complaints
        /\ \A n \in DOMAIN complaints' : complaints'[n] = complaints[n]
        /\ UNCHANGED incidents
        /\ \A r \in Requests :
             /\ job'[r].id = job[r].id /\ job'[r].inc = job[r].inc
             /\ pc'[r] = pc[r] \/ pc'[r] \in {"lost", "unanswered"}
    BY <1>3, WorkerEffect
  <2>2. restarts' # 0
    BY <1>3, WorkerEffect DEF StoreInv
  <2>3. IsFiniteSet(DOMAIN complaints')
    BY <2>1, FS_Subset DEF ReportsInv
  <2>4. "lost" \notin Submitting /\ "unanswered" \notin Submitting
    BY DEF Submitting
  <2>5. \A r \in Requests : job'[r].reports = job[r].reports
    <3>1. \A r \in Requests : job[r] \in Job
      BY DEF TypeOK
    <3> QED
      BY <1>3, <3>1 DEF Restart, PurgeSelect, PurgeDelete, Job
  <2>6. ASSUME NEW i \in DOMAIN incidents
        PROVE  incidents[i].reports >= Cardinality(Members(i)') + Cardinality(Coming(i)')
    <3>1. Members(i)' \in SUBSET Members(i) /\ Coming(i)' \in SUBSET Coming(i)
      BY <2>1 DEF Members, Coming
    <3>2. IsFiniteSet(Members(i)) /\ IsFiniteSet(Coming(i))
      BY MembersFinite, ComingFinite
    <3>3. /\ IsFiniteSet(Members(i)') /\ Cardinality(Members(i)') <= Cardinality(Members(i))
          /\ IsFiniteSet(Coming(i)') /\ Cardinality(Coming(i)') <= Cardinality(Coming(i))
      BY <3>1, <3>2, FS_Subset
    <3>4. /\ Cardinality(Members(i)) \in Nat /\ Cardinality(Members(i)') \in Nat
          /\ Cardinality(Coming(i)) \in Nat /\ Cardinality(Coming(i)') \in Nat
      BY <3>2, <3>3, FS_CardinalityType
    <3>5. /\ incidents[i].reports \in Nat
          /\ incidents[i].reports >= Cardinality(Members(i)) + Cardinality(Coming(i))
      BY DEF ReportsInv, TypeOK, Incident
    <3> QED
      BY <3>3, <3>4, <3>5
  <2> QED
    BY <2>1, <2>2, <2>3, <2>4, <2>5, <2>6 DEF ReportsInv
<1> QED
  BY <1>1, <1>2, <1>3 DEF Next

\* With one worker an incident counts at least its stored complaints, and exactly
\* those and the one being inserted until a restart
\* (_find_or_create_incident, routes.py:1623-1667).
THEOREM OneWorkerCountsReports ==
  ASSUME SingleWorker
  PROVE  Spec => []ReportsCounted
<1>1. TypeOK /\ GroupInv /\ [Next]_vars => GroupInv'
  BY SingleWorker, GroupStep
<1>2. TypeOK /\ IncidentInv /\ StoreInv /\ GroupInv /\ ReportsInv /\ [Next]_vars
        => ReportsInv'
  BY SingleWorker, ReportsStep
<1>3. TypeOK /\ GroupInv /\ ReportsInv => ReportsCounted
  <2> SUFFICES ASSUME TypeOK, GroupInv, ReportsInv, NEW i \in DOMAIN incidents
               PROVE  /\ incidents[i].reports >= Cardinality(Members(i))
                      /\ restarts = 0 => incidents[i].reports =
                           Cardinality(Members(i)) + Cardinality(Coming(i))
    BY DEF ReportsCounted, Members, Coming
  <2>1. Cardinality(Members(i)) \in Nat /\ Cardinality(Coming(i)) \in Nat
    BY MembersFinite, ComingFinite, FS_CardinalityType
  <2> QED
    BY <2>1 DEF ReportsInv, TypeOK, Incident
<1> QED
  BY <1>1, <1>2, <1>3, GroupInit, StoreInit, StoreStep, IncidentInit, IncidentStep,
     ReportsInit, GatewayTypeCorrect, PTL DEF Spec
=============================================================================
