------------------------------ MODULE Gateway ------------------------------
(***************************************************************************)
(* The gateway's complaint store: several worker processes handle          *)
(* submissions, votes, updates and photo uploads over the tables           *)
(* complaints and incidents, and purge rejected complaints when they       *)
(* start (backend/app/routes.py).                                          *)
(*                                                                         *)
(* A worker runs its handlers on one event loop: a handler that does not   *)
(* await keeps the loop, so handlers of one worker interleave only at      *)
(* awaits.  Two workers interleave between any two database statements.    *)
(* The database runs in READ COMMITTED and the code takes no locks: a      *)
(* statement sees what is committed when it runs, an UPDATE writes the     *)
(* columns the handler assigned, with values computed from what it loaded. *)
(* An action is one statement with the code up to the next one.            *)
(*                                                                         *)
(* Not kept: officer, notes and department of a complaint, photos, the     *)
(* activity log and notifications, which nothing here reads back.          *)
(***************************************************************************)
EXTENDS Integers, Sequences, FiniteSets

CONSTANTS Workers,      \* the worker processes
          Requests,     \* the requests they are sent
          Groups,       \* pairs of category and department
          Areas,        \* locations
          Near,         \* <<a, b>>: the first words of a occur in b
          Statuses,     \* what a department may set
          FirstTicket,  \* the first ticket number, 1050
          FirstIncident,\* the first incident number, 330
          MaxRestarts   \* bound on restarts of a worker

Fresh == "Under Review"   \* status of a new complaint

ASSUME GatewayAssumption ==
  /\ Near \subseteq Areas \X Areas
  /\ {Fresh, "Rejected"} \subseteq Statuses
  /\ FirstTicket \in Nat /\ FirstIncident \in Nat
  /\ MaxRestarts \in Nat

VARIABLES
  pc,          \* pc[r]: where request r stands
  job,         \* job[r]: its worker, and what its handler has read
  complaints,  \* the stored complaints, by ticket number
  incidents,   \* the stored incidents, by number
  startup,     \* startup[w]: serving, or which step of the purge is next
  doomed,      \* doomed[w]: the complaints the purge of w selected
  restarts     \* restarts so far

vars == <<pc, job, complaints, incidents, startup, doomed, restarts>>
tables == <<complaints, incidents>>
workerVars == <<startup, doomed, restarts>>

----------------------------------------------------------------------------
(* Types                                                                   *)

Directions == {"up", "down"}
Events == Statuses \cup {"submitted", "evidence", "images"}

Complaint == [status : Statuses, incident : Nat,
              approved : BOOLEAN,           \* by the agents
              votes : [Directions -> Nat],
              timeline : Seq(Events)]
Incident == [group : Groups, area : Areas, reports : Nat]

New(inc, approved) ==
  [status |-> Fresh, incident |-> inc, approved |-> approved,
   votes |-> [d \in Directions |-> 0], timeline |-> <<"submitted">>]

Nothing == New(0, FALSE)

\* A handler in one of these holds the event loop of its worker.
Submitting == {"byArea", "byGroup", "count", "name", "create", "insert"}
Held == Submitting \cup {"vote", "patch", "refresh"}
Active == Held \cup {"agent", "upload", "publish"}
Answers == {"stored", "voted", "changed"}
Answered == Answers \cup {"refused", "error", "lost", "unanswered"}

Job == [worker : Workers, id : Nat, inc : Nat, reports : Nat,
        group : Groups, area : Areas, approved : BOOLEAN,
        dir : Directions, seen : Complaint,
        reply : Answers \cup {"error"}]  \* an error until it has committed

TypeOK ==
  /\ pc \in [Requests -> {"idle"} \cup Active \cup Answered]
  /\ job \in [Requests -> Job]
  /\ DOMAIN complaints \subseteq Nat
  /\ complaints \in [DOMAIN complaints -> Complaint]
  /\ DOMAIN incidents \subseteq Nat
  /\ incidents \in [DOMAIN incidents -> Incident]
  /\ startup \in [Workers -> {"serving", "select", "delete"}]
  /\ doomed \in [Workers -> SUBSET Nat]
  /\ restarts \in 0..MaxRestarts

\* The load balancer sends each request to some worker.
Init ==
  /\ pc = [r \in Requests |-> "idle"]
  /\ \E at \in [Requests -> Workers], g \in Groups, a \in Areas :
       job = [r \in Requests |->
                [worker |-> at[r], id |-> 0, inc |-> 0, reports |-> 0,
                 group |-> g, area |-> a, approved |-> FALSE, dir |-> "up",
                 seen |-> Nothing, reply |-> "error"]]
  /\ complaints = [n \in {} |-> Nothing]
  /\ incidents = [n \in {} |-> Nothing]
  /\ startup = [w \in Workers |-> "serving"]
  /\ doomed = [w \in Workers |-> {}]
  /\ restarts = 0

----------------------------------------------------------------------------
(* Helpers                                                                 *)

Put(f, k, v) == [x \in DOMAIN f \cup {k} |-> IF x = k THEN v ELSE f[x]]
Without(f, S) == [x \in DOMAIN f \ S |-> f[x]]

\* The set whose one member follows the largest number used.
NextNumber(used, first) ==
  IF used = {} THEN {first}
  ELSE {n + 1 : n \in {m \in used : \A k \in used : k <= m}}

\* No handler of the worker is between two statements.
LoopFree(w) ==
  /\ startup[w] = "serving"
  /\ \A r \in Requests : job[r].worker = w => pc[r] \notin Held

At(r, here) == pc[r] = here
Go(r, there) == pc' = [pc EXCEPT ![r] = there]

\* The request is answered; what its handler had loaded is forgotten.
Answer(r, how) ==
  /\ Go(r, how)
  /\ job' = [job EXCEPT ![r] =
                [@ EXCEPT !.seen = Nothing, !.reports = 0, !.reply = "error"]]

\* The handler has committed; what it still does before it answers begins at
\* there.
Commits(r, there, how) ==
  /\ Go(r, there)
  /\ job' = [job EXCEPT ![r] =
                [@ EXCEPT !.seen = Nothing, !.reports = 0, !.reply = how]]

\* A handler can take its next step after an await, or begin.
Resumes(r, here) == At(r, here) /\ LoopFree(job[r].worker)

----------------------------------------------------------------------------
(* Submission                                                              *)

\* Text, location and photos pass the checks; the agents are asked.
Submit(r) ==
  /\ Resumes(r, "idle")
  /\ Go(r, "agent")
  /\ UNCHANGED <<job, tables, workerVars>>

\* A request fails its checks: bad text, outdated photo, unknown ticket or
\* vote direction.  Or the agents reject the complaint.
Refuse(r) ==
  /\ Resumes(r, "idle") \/ Resumes(r, "agent")
  /\ Answer(r, "refused")
  /\ UNCHANGED <<tables, workerVars>>

\* The agents approved, or did not answer in time or with a usable status:
\* the handler goes on in both cases.  The number of the ticket is chosen.
PickTicket(r) ==
  /\ Resumes(r, "agent")
  /\ Go(r, "byArea")
  /\ \E n \in NextNumber(DOMAIN complaints, FirstTicket),
        approved \in BOOLEAN, g \in Groups, a \in Areas :
       job' = [job EXCEPT ![r] = [@ EXCEPT !.id = n, !.approved = approved,
                                           !.group = g, !.area = a]]
  /\ UNCHANGED <<tables, workerVars>>

InGroup(r) == {i \in DOMAIN incidents : incidents[i].group = job[r].group}
InArea(r) ==
  {i \in InGroup(r) : <<job[r].area, incidents[i].area>> \in Near}

\* The incident found is loaded with its report count.
Join(r, found, otherwise) ==
  \/ \E i \in found :
       /\ Go(r, "count")
       /\ job' = [job EXCEPT ![r] = [@ EXCEPT !.inc = i,
                                           !.reports = incidents[i].reports]]
  \/ found = {} /\ Go(r, otherwise) /\ UNCHANGED job

FindByArea(r) ==
  /\ At(r, "byArea")
  /\ Join(r, InArea(r), "byGroup")
  /\ UNCHANGED <<tables, workerVars>>

\* Mutated form: there is no fallback to incidents of other areas.
FindInGroupNearby(r) ==
  /\ At(r, "byGroup")
  /\ Join(r, InArea(r), "name")
  /\ UNCHANGED <<tables, workerVars>>
FindInGroup(r) ==
  /\ At(r, "byGroup")
  /\ Join(r, InGroup(r), "name")
  /\ UNCHANGED <<tables, workerVars>>

\* Mutated form: the complaints are counted before the new one is stored.
CountReportStored(r) ==
  /\ At(r, "count")
  /\ Go(r, "insert")
  /\ incidents' = [incidents EXCEPT ![job[r].inc] = [@ EXCEPT !.reports =
       Cardinality({n \in DOMAIN complaints :
                      complaints[n].incident = job[r].inc})]]
  /\ UNCHANGED <<job, complaints, workerVars>>

\* The incident counts the report, in a transaction of its own.
CountReport(r) ==
  /\ At(r, "count")
  /\ Go(r, "insert")
  /\ incidents' = [incidents EXCEPT
                     ![job[r].inc] = [@ EXCEPT !.reports = job[r].reports + 1]]
  /\ UNCHANGED <<job, complaints, workerVars>>

NameIncident(r) ==
  /\ At(r, "name")
  /\ Go(r, "create")
  /\ \E n \in NextNumber(DOMAIN incidents, FirstIncident) :
       job' = [job EXCEPT ![r] = [@ EXCEPT !.inc = n]]
  /\ UNCHANGED <<tables, workerVars>>

\* A number that is already taken violates the primary key.
CreateIncident(r) ==
  /\ At(r, "create")
  /\ IF job[r].inc \in DOMAIN incidents
     THEN Answer(r, "error") /\ UNCHANGED incidents
     ELSE /\ incidents' = Put(incidents, job[r].inc,
                              [group |-> job[r].group, area |-> job[r].area,
                               reports |-> 1])
          /\ Go(r, "insert")
          /\ UNCHANGED job
  /\ UNCHANGED <<complaints, workerVars>>

Store(r) ==
  /\ complaints' = Put(complaints, job[r].id, New(job[r].inc, job[r].approved))
  /\ Commits(r, "refresh", "stored")

\* Mutated forms: an insert that replaces what is there; one that retries.
InsertComplaintReplacing(r) ==
  At(r, "insert") /\ Store(r) /\ UNCHANGED <<incidents, workerVars>>
InsertComplaintWaiting(r) ==
  /\ At(r, "insert") /\ job[r].id \notin DOMAIN complaints
  /\ Store(r) /\ UNCHANGED <<incidents, workerVars>>
InsertComplaint(r) ==
  /\ At(r, "insert")
  /\ IF job[r].id \in DOMAIN complaints
     THEN Answer(r, "error") /\ UNCHANGED complaints
     ELSE Store(r)
  /\ UNCHANGED <<incidents, workerVars>>

----------------------------------------------------------------------------
(* Votes, updates and photo uploads                                        *)

\* The handler loads the complaint and keeps the loop, or, to receive the
\* photos, awaits.
Load(r, n, there) ==
  /\ Resumes(r, "idle")
  /\ Go(r, there)
  /\ job' = [job EXCEPT ![r] = [@ EXCEPT !.id = n, !.seen = complaints[n]]]
  /\ UNCHANGED <<tables, workerVars>>

LoadForPatch(r) == \E n \in DOMAIN complaints : Load(r, n, "patch")
LoadForUpload(r) == \E n \in DOMAIN complaints : Load(r, n, "upload")

LoadForVote(r) ==
  \E n \in DOMAIN complaints, d \in Directions :
    /\ Resumes(r, "idle")
    /\ Go(r, "vote")
    /\ job' = [job EXCEPT ![r] = [@ EXCEPT !.id = n, !.seen = complaints[n],
                                           !.dir = d]]
    /\ UNCHANGED <<tables, workerVars>>

\* An UPDATE that finds no row ends in a server error.
Write(r, c, there, how) ==
  /\ IF job[r].id \in DOMAIN complaints
     THEN /\ complaints' = [complaints EXCEPT ![job[r].id] = c]
          /\ Commits(r, there, how)
     ELSE Answer(r, "error") /\ UNCHANGED complaints
  /\ UNCHANGED <<incidents, workerVars>>

Row(r) == complaints[job[r].id]

\* Mutated form: a vote against takes one vote away.
CommitVoteNet(r) ==
  /\ At(r, "vote")
  /\ Write(r, [Row(r) EXCEPT !.votes["up"] =
       IF job[r].dir = "up" THEN job[r].seen.votes["up"] + 1
                            ELSE job[r].seen.votes["up"] - 1], "publish", "voted")
CommitVote(r) ==
  /\ At(r, "vote")
  /\ Write(r, [Row(r) EXCEPT !.votes[job[r].dir] =
                                job[r].seen.votes[job[r].dir] + 1],
           "publish", "voted")

\* What an update adds to the timeline: a status that differs from the one
\* loaded, resolution evidence, neither or both.
PatchEvents(r, s, evidence) ==
  (IF s = job[r].seen.status THEN <<>> ELSE <<s>>)
    \o (IF evidence THEN <<"evidence">> ELSE <<>>)

CommitPatch(r) ==
  /\ At(r, "patch")
  /\ \E s \in Statuses, evidence \in BOOLEAN :
       IF PatchEvents(r, s, evidence) = <<>>
       THEN Answer(r, "changed") /\ UNCHANGED <<tables, workerVars>>
       ELSE Write(r, [Row(r) EXCEPT
                        !.status = IF s = job[r].seen.status THEN @ ELSE s,
                        !.timeline = job[r].seen.timeline
                                       \o PatchEvents(r, s, evidence)],
                  "refresh", "changed")

\* Mutated form: the whole row is written as it was loaded.
CommitUploadRow(r) ==
  /\ Resumes(r, "upload")
  /\ Write(r, [job[r].seen EXCEPT !.timeline = Append(@, "images")],
           "publish", "changed")

\* The timeline written is the one loaded before the photos were received.
CommitUpload(r) ==
  /\ Resumes(r, "upload")
  /\ Write(r, [Row(r) EXCEPT !.timeline =
                                Append(job[r].seen.timeline, "images")],
           "publish", "changed")

----------------------------------------------------------------------------
(* From the commit to the answer                                           *)

\* db.refresh of a submission or an update; it raises when the row is gone.
Refresh(r) ==
  /\ At(r, "refresh")
  /\ IF job[r].id \in DOMAIN complaints
     THEN Go(r, "publish") /\ UNCHANGED job
     ELSE Answer(r, "error")
  /\ UNCHANGED <<tables, workerVars>>

\* After the awaits on cache and events the handler answers.  A vote reads its
\* row back only then.
Respond(r) ==
  /\ Resumes(r, "publish")
  /\ IF job[r].reply = "voted" /\ job[r].id \notin DOMAIN complaints
     THEN Answer(r, "error")
     ELSE Answer(r, job[r].reply)
  /\ UNCHANGED <<tables, workerVars>>

----------------------------------------------------------------------------
(* Restart of a worker and the purge it runs before it serves              *)

\* What a restart leaves of a request: nothing, or, of a submission past its
\* commit, the complaint.
Interrupted(r) ==
  IF pc[r] \in {"refresh", "publish"} /\ job[r].reply = "stored"
  THEN "unanswered" ELSE "lost"

Restart(w) ==
  /\ restarts < MaxRestarts
  /\ restarts' = restarts + 1
  /\ startup' = [startup EXCEPT ![w] = "select"]
  /\ doomed' = [doomed EXCEPT ![w] = {}]
  /\ pc' = [r \in Requests |->
              IF job[r].worker = w /\ pc[r] \in Active THEN Interrupted(r)
              ELSE pc[r]]
  /\ job' = [r \in Requests |->
               IF job[r].worker = w
               THEN [job[r] EXCEPT !.seen = Nothing, !.reply = "error"]
               ELSE job[r]]
  /\ UNCHANGED tables

PurgeSelect(w) ==
  /\ startup[w] = "select"
  /\ doomed' = [doomed EXCEPT ![w] =
       {n \in DOMAIN complaints : complaints[n].status = "Rejected"}]
  /\ startup' = [startup EXCEPT ![w] = "delete"]
  /\ UNCHANGED <<pc, job, tables, restarts>>

\* Mutated form: the purge also deletes the incidents nobody reports.
PurgeDeleteOrphans(w) ==
  /\ startup[w] = "delete"
  /\ complaints' = Without(complaints, doomed[w])
  /\ incidents' = Without(incidents, DOMAIN incidents \
                                        {complaints'[n].incident : n \in DOMAIN complaints'})
  /\ doomed' = [doomed EXCEPT ![w] = {}]
  /\ startup' = [startup EXCEPT ![w] = "serving"]
  /\ UNCHANGED <<pc, job, restarts>>

\* The complaints selected are deleted by number, or an error (a photo that
\* arrived meanwhile refers to one) leaves them all.
PurgeDelete(w) ==
  /\ startup[w] = "delete"
  /\ complaints' = Without(complaints, doomed[w]) \/ UNCHANGED complaints
  /\ doomed' = [doomed EXCEPT ![w] = {}]
  /\ startup' = [startup EXCEPT ![w] = "serving"]
  /\ UNCHANGED <<pc, job, incidents, restarts>>

----------------------------------------------------------------------------
SubmitStep(r) ==
  \/ Submit(r) \/ PickTicket(r) \/ FindByArea(r) \/ FindInGroup(r)
  \/ CountReport(r) \/ NameIncident(r) \/ CreateIncident(r)
  \/ InsertComplaint(r)

ChangeStep(r) ==
  \/ LoadForVote(r) \/ CommitVote(r) \/ LoadForPatch(r) \/ CommitPatch(r)
  \/ LoadForUpload(r) \/ CommitUpload(r)

AnswerStep(r) == Refuse(r) \/ Refresh(r) \/ Respond(r)

RequestStep(r) == SubmitStep(r) \/ ChangeStep(r) \/ AnswerStep(r)

Next ==
  \/ \E r \in Requests : RequestStep(r)
  \/ \E w \in Workers : Restart(w) \/ PurgeSelect(w) \/ PurgeDelete(w)

Spec == Init /\ [][Next]_vars

\* A request that was received is worked on: statements and the call of the
\* agents end, the latter after 240 seconds at most; and a worker that starts
\* finishes its purge.
Proceed(r) == pc[r] # "idle" /\ RequestStep(r)

Fairness ==
  /\ \A r \in Requests : WF_vars(Proceed(r))
  /\ \A w \in Workers : WF_vars(PurgeSelect(w) \/ PurgeDelete(w))

FairSpec == Spec /\ Fairness
----------------------------------------------------------------------------
(* Properties                                                              *)

\* Every stored complaint belongs to a stored incident, whatever failed or
\* was lost between the two transactions of a submission.
ComplaintHasIncident ==
  \A n \in DOMAIN complaints : complaints[n].incident \in DOMAIN incidents

\* The requests whose commit of that kind is behind them, answered or not.
Past(how) ==
  {r \in Requests :
     pc[r] = how \/ (pc[r] \in {"refresh", "publish"} /\ job[r].reply = how)}

\* The submissions that were stored; one of them may never be answered.
Submitted == Past("stored") \cup {r \in Requests : pc[r] = "unanswered"}

\* A submission is stored whole or not at all: one that was refused, failed, or
\* was lost before its commit leaves no complaint, and, until a purge, each of
\* the others has one under a number of its own, acknowledged or not.
SubmissionsStoredOnce ==
  /\ DOMAIN complaints \subseteq {job[r].id : r \in Submitted}
  /\ restarts = 0 =>
       /\ {job[r].id : r \in Submitted} \subseteq DOMAIN complaints
       /\ \A r, q \in Submitted : job[r].id = job[q].id => r = q

\* No vote is lost: the counters of a complaint are the votes committed.
VotesCounted ==
  restarts = 0 =>
    \A n \in DOMAIN complaints, d \in Directions :
      complaints[n].votes[d] =
        Cardinality({r \in Past("voted") : job[r].id = n /\ job[r].dir = d})

\* An incident counts at least the complaints stored with it, and exactly
\* those and the one being inserted as long as no worker restarted.
ReportsCounted ==
  \A i \in DOMAIN incidents :
    LET members == {n \in DOMAIN complaints : complaints[n].incident = i}
        coming  == {r \in Requests : pc[r] = "insert" /\ job[r].inc = i}
    IN /\ incidents[i].reports >= Cardinality(members)
       /\ restarts = 0 =>
            incidents[i].reports = Cardinality(members) + Cardinality(coming)

\* Reports of one category and department share one incident.
OneIncidentPerGroup ==
  \A i, k \in DOMAIN incidents : incidents[i].group = incidents[k].group => i = k

\* Every request that was received is answered, or its answer is lost in a
\* restart.
RequestsEnd == \A r \in Requests : (pc[r] \in Active) ~> (pc[r] \in Answered)

\* What comments and documentation say and the code does not do; see the
\* findings.

\* Only approved grievances are persisted (backend/app/routes.py:709).
OnlyApprovedStored == \A n \in DOMAIN complaints : complaints[n].approved

\* The timeline of a complaint is an audit log (readme.md:491): a new status
\* leaves an entry that stays.
StatusInTimeline ==
  \A n \in DOMAIN complaints :
    LET c == complaints[n]
    IN c.status # Fresh => \E k \in DOMAIN c.timeline : c.timeline[k] = c.status

\* The purge deletes rejected complaints (backend/app/routes.py:642).
OnlyRejectedPurged ==
  [][\A n \in DOMAIN complaints \ DOMAIN complaints' :
       complaints[n].status = "Rejected"]_vars
=============================================================================
