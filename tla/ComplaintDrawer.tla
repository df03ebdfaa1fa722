-------------------------- MODULE ComplaintDrawer --------------------------
(***************************************************************************)
(* The drawer that shows one complaint and lets a citizen vote on it, a    *)
(* department change it and an administrator escalate it                   *)
(* (frontend/src/components/shared/ComplaintDetail.jsx).                   *)
(*                                                                         *)
(* The component is mounted for as long as the application is: closing the *)
(* drawer hides it and forgets nothing but the selected id.  Its handlers  *)
(* run over several awaits with the values of the render they were clicked *)
(* in, while polling, events and the user go on.                           *)
(*                                                                         *)
(* Left out: the voice player, the parts of a complaint that are only laid *)
(* out, and changes made elsewhere, which LiveSync has.                    *)
(***************************************************************************)
EXTENDS ApiCall, Integers, Sequences, FiniteSetsExt

CONSTANTS Statuses,     \* DEPT_STATUSES and Escalated
          MaxWrites,    \* bound on the changes of the stored complaints
          MaxEdits,     \* bound on what the user does with the fields
          MaxFaults     \* bound on failed calls

ASSUME DrawerAssumption ==
  /\ {"Submitted", "Escalated"} \subseteq Statuses
  /\ MaxWrites \in Nat /\ MaxEdits \in Nat /\ MaxFaults \in Nat

VARIABLES
  role,       \* the role of the account
  selected,   \* selectedComplaintId; the drawer is open when it is set
  override,   \* statusOverride, None when null
  note,       \* the text field: which edit typed it, on which complaint
  files,      \* whether resolution files are chosen
  job,        \* the handler that runs: vote, save or escalate
  stored,     \* stored[i]: complaint i, and how often it was changed
  since,      \* since[s]: the version stored when the fetch of slot s began
  edits,      \* what was done with the fields so far
  faults,     \* failed calls so far
  carried     \* another complaint appeared while the fields held something

form == <<override, note, files>>
server == <<stored, since>>
counters == <<edits, faults>>
vars == <<hook, role, selected, form, job, server, counters, carried>>

None == "none"
Roles == {"citizen", "dept", "admin"}

\* Photos and votes are changes without a value of their own.
NoNote == [of |-> Nobody, n |-> 0]
Note == [of : Asked, n : 0..MaxEdits]
Complaint == [version : Nat, status : Statuses, notes : Seq(Note)]
First == [version |-> 1, status |-> "Submitted", notes |-> <<>>]

\* at: which await the handler stands at; asked: the id its refetch is for.
NoJob == [at |-> "none", of |-> Nobody, asked |-> Nobody, status |-> None, note |-> NoNote,
          files |-> FALSE, slot |-> 0]
Job == [at : {"none", "vote", "update", "escalate", "upload", "refetch", "refetching", "done"},
        of : Asked, asked : Asked, status : Statuses \cup {None}, note : Note,
        files : BOOLEAN, slot : Slots \cup {0}]

TypeOK ==
  /\ HookTypeOK
  /\ role \in Roles
  /\ selected \in Asked
  /\ override \in Statuses \cup {None}
  /\ note \in Note /\ files \in BOOLEAN
  /\ job \in Job
  /\ stored \in [Subjects -> Complaint]
  /\ since \in [Slots -> Nat]
  /\ edits \in 0..MaxEdits /\ faults \in 0..MaxFaults
  /\ carried \in BOOLEAN

\* The hook mounts with the null id, whose fetch ends at once.
Init ==
  /\ data = Empty /\ loading = FALSE
  /\ flight = [s \in Slots |-> Free]
  /\ role \in Roles
  /\ selected = Nobody
  /\ override = None /\ note = NoNote /\ files = FALSE
  /\ job = NoJob
  /\ stored = [i \in Subjects |-> First]
  /\ since = [s \in Slots |-> 0]
  /\ edits = 0 /\ faults = 0
  /\ carried = FALSE

----------------------------------------------------------------------------
(* The hook                                                                *)

\* A fetch for the id: on the null id it resolves to null before anything
\* else happens.
FetchFor(s, id, initial) ==
  IF id = Nobody
  THEN /\ s = 1
       /\ data' = Empty
       /\ UNCHANGED <<loading, flight, since>>
  ELSE /\ Begin(s, id, initial)
       /\ since' = [since EXCEPT ![s] = stored[id].version]

\* Mutated form: the interval keeps the id of the render that set it, null.
RefreshFirst(s) ==
  /\ FetchFor(s, Nobody, FALSE)
  /\ UNCHANGED <<role, selected, form, job, stored, counters, carried>>

\* The interval of three seconds, or an event of the stream.
Refresh(s) ==
  /\ FetchFor(s, selected, FALSE)
  /\ UNCHANGED <<role, selected, form, job, stored, counters, carried>>

\* The handler that awaits this fetch goes on.
Resumed(s) ==
  IF job.at = "refetching" /\ job.slot = s
  THEN [job EXCEPT !.at = "done", !.slot = 0] ELSE job

\* The answer is what the gateway read at some moment since the fetch began.
Receive(s) ==
  /\ flight[s].busy
  /\ \E version \in since[s]..stored[flight[s].of].version : Answer(s, version)
  /\ since' = [since EXCEPT ![s] = 0]
  /\ job' = Resumed(s)
  /\ carried' = (carried \/ (data.of # data'.of /\ (override # None \/ note # NoNote \/ files)))
  /\ UNCHANGED <<role, selected, form, stored, counters>>

Break(s) ==
  /\ faults < MaxFaults /\ faults' = faults + 1
  /\ Fails(s)
  /\ since' = [since EXCEPT ![s] = 0]
  /\ job' = Resumed(s)
  /\ UNCHANGED <<role, selected, form, stored, edits, carried>>

----------------------------------------------------------------------------
(* The drawer                                                              *)

\* The changes made so far.
Written == FoldSet(LAMBDA i, n : n + stored[i].version - 1, 0, Subjects)

\* What is on the screen: nothing while the hook loads or has no data.
Visible == selected # Nobody /\ ~loading /\ data.of # Nobody

\* openDetail, from a list the open drawer's backdrop covers.
Open(s, id) ==
  /\ selected = Nobody
  /\ selected' = id
  /\ FetchFor(s, id, FALSE)
  /\ UNCHANGED <<role, form, job, stored, counters, carried>>

\* closeDetail, by the backdrop or the button.
Close ==
  /\ selected # Nobody
  /\ selected' = Nobody
  /\ FetchFor(1, Nobody, FALSE)
  /\ carried' = (carried \/ override # None \/ note # NoNote \/ files)
  /\ UNCHANGED <<role, form, job, stored, counters>>

\* The fields of the department; they stay enabled during a save.
Editable == Visible /\ role = "dept"
Edit == Editable /\ edits < MaxEdits /\ edits' = edits + 1

PickStatus(status) ==
  /\ Edit
  /\ override' = status
  /\ UNCHANGED <<hook, role, selected, note, files, job, server, faults, carried>>

TypeNote ==
  /\ Edit
  /\ note' = [of |-> data.of, n |-> edits + 1]
  /\ UNCHANGED <<hook, role, selected, override, files, job, server, faults, carried>>

ChooseFiles ==
  /\ Edit
  /\ files' = TRUE
  /\ UNCHANGED <<hook, role, selected, override, note, job, server, faults, carried>>

Cancel ==
  /\ Editable
  /\ override' = None /\ note' = NoNote
  /\ UNCHANGED <<hook, role, selected, files, job, server, counters, carried>>

----------------------------------------------------------------------------
(* The handlers                                                            *)

\* Mutated form: the handler takes the selected id, not the complaint shown.
StartSelected(at) ==
  /\ Visible /\ job.at = "none" /\ Written < MaxWrites
  /\ job' = [at |-> at, of |-> selected, asked |-> selected, status |-> override,
             note |-> note, files |-> files, slot |-> 0]
  /\ UNCHANGED <<hook, role, selected, form, server, counters, carried>>

Start(at) ==
  /\ Visible /\ job.at = "none" /\ Written < MaxWrites
  /\ job' = [at |-> at, of |-> data.of, asked |-> selected, status |-> override,
             note |-> note, files |-> files, slot |-> 0]
  /\ UNCHANGED <<hook, role, selected, form, server, counters, carried>>

\* The buttons a role is shown; all three wait for the handler that runs.
Vote == role = "citizen" /\ Start("vote")
Save == role = "dept" /\ Start("update")
Escalate == role = "admin" /\ Start("escalate")

\* The gateway changes complaint i.
Store(i, status, added) ==
  stored' = [stored EXCEPT ![i] = [version |-> @.version + 1, status |-> status,
                                   notes |-> @.notes \o added]]

\* Mutated form: the finally of the handlers also empties the fields.
CallClearing(at, effect, next) ==
  /\ job.at = at
  /\ \/ /\ effect
        /\ job' = [job EXCEPT !.at = next]
        /\ UNCHANGED <<faults, form>>
     \/ /\ faults < MaxFaults /\ faults' = faults + 1
        /\ effect \/ UNCHANGED stored
        /\ job' = NoJob
        /\ override' = None /\ note' = NoNote /\ files' = FALSE
  /\ UNCHANGED <<hook, role, selected, since, edits, carried>>

\* A call of the handler: it works, it fails before it is handled, or its
\* answer is lost after it was.  A failure ends the handler in its finally.
Call(at, effect, next) ==
  /\ job.at = at
  /\ \/ /\ effect
        /\ job' = [job EXCEPT !.at = next]
        /\ UNCHANGED faults
     \/ /\ faults < MaxFaults /\ faults' = faults + 1
        /\ effect \/ UNCHANGED stored
        /\ job' = NoJob
  /\ UNCHANGED <<hook, role, selected, form, since, edits, carried>>

Status == stored[job.of].status

VoteCall == Call("vote", Store(job.of, Status, <<>>), "refetch")
EscalateCall == Call("escalate", Store(job.of, "Escalated", <<>>), "refetch")
UploadCall == Call("upload", Store(job.of, Status, <<>>), "refetch")

\* Mutated form: the status is sent even when none was picked.
UpdateCallUnchecked ==
  Call("update",
       Store(job.of, job.status, IF job.note # NoNote THEN <<job.note>> ELSE <<>>),
       IF job.files THEN "upload" ELSE "refetch")

\* update with the fields that are set; without any the gateway changes nothing.
UpdateCall ==
  Call("update",
       IF job.status = None /\ job.note = NoNote THEN UNCHANGED stored
       ELSE Store(job.of, IF job.status # None THEN job.status ELSE Status,
                  IF job.note # NoNote THEN <<job.note>> ELSE <<>>),
       IF job.files THEN "upload" ELSE "refetch")

\* refetch of the render the handler began in.
Refetch(s) ==
  /\ job.at = "refetch"
  /\ FetchFor(s, job.asked, TRUE)
  /\ job' = [job EXCEPT !.at = "refetching", !.slot = s]
  /\ UNCHANGED <<role, selected, form, stored, counters, carried>>

\* Mutated form: a save leaves its note in the field.
FinishKeeping(s) ==
  /\ job.at = "done"
  /\ FetchFor(s, selected, FALSE)
  /\ override' = IF role = "admin" THEN "Escalated" ELSE override
  /\ files' = (files /\ role # "dept")
  /\ job' = NoJob
  /\ UNCHANGED <<role, selected, note, stored, counters, carried>>

\* triggerRefresh and what follows it.
Finish(s) ==
  /\ job.at = "done"
  /\ FetchFor(s, selected, FALSE)
  /\ override' = IF role = "admin" THEN "Escalated" ELSE override
  /\ note' = IF role = "dept" THEN NoNote ELSE note
  /\ files' = (files /\ role # "dept")
  /\ job' = NoJob
  /\ UNCHANGED <<role, selected, stored, counters, carried>>

----------------------------------------------------------------------------
\* A handler whose await is over goes on before any timer, answer or click.
GoesOn == \E s \in Slots : Refetch(s) \/ Finish(s)
Ready == job.at \in {"refetch", "done"} /\ \E s \in Slots : ~flight[s].busy

Other ==
  \/ \E s \in Slots : \/ Refresh(s) \/ Receive(s) \/ Break(s)
                      \/ \E i \in Subjects : Open(s, i)
  \/ Close \/ TypeNote \/ ChooseFiles \/ Cancel
  \/ Vote \/ Save \/ Escalate \/ VoteCall \/ EscalateCall \/ UpdateCall \/ UploadCall
  \/ \E status \in Statuses \ {"Escalated"} : PickStatus(status)

Next == GoesOn \/ (~Ready /\ Other)

Spec == Init /\ [][Next]_vars

\* The interval fires, the gateway serves, answers arrive, and a handler goes
\* on after its awaits.
Fairness ==
  /\ \A s \in Slots : /\ WF_vars(Receive(s))
                      /\ WF_vars(Refresh(s))
  /\ WF_vars(GoesOn)
  /\ WF_vars(VoteCall) /\ WF_vars(EscalateCall) /\ WF_vars(UpdateCall)
  /\ WF_vars(UploadCall)

FairSpec == Spec /\ Fairness

----------------------------------------------------------------------------
(* Properties                                                              *)

HasNote(i, n) == \E m \in DOMAIN stored[i].notes : stored[i].notes[m] = n

\* A note is stored with the complaint that was on the screen when it was
\* typed, whatever was selected and whatever answers came late, unless another
\* complaint appeared while the fields held something: the fields outlive the
\* drawer (ComplaintDetail.jsx:14-17, 66-71).
NotesOnTheirComplaint ==
  ~carried =>
    \A i \in Subjects : \A m \in DOMAIN stored[i].notes : stored[i].notes[m].of = i

\* A note is stored once unless a call failed: a save that is repeated after a
\* failed upload or a lost answer stores it again (ComplaintDetail.jsx:61-80).
NoteStoredOnce ==
  faults = 0 =>
    \A i \in Subjects : \A m, n \in DOMAIN stored[i].notes :
      stored[i].notes[m] = stored[i].notes[n] => m = n

\* A note disappears from the field only by Cancel, or when the save that ends
\* has stored it; one typed during the save is lost with it
\* (ComplaintDetail.jsx:66-79).
NoteKept ==
  [][note # NoNote /\ note' = NoNote
     => \/ Cancel
        \/ job.note # note
        \/ \E i \in Subjects : HasNote(i, note)]_vars

\* A drawer that is not closed shows, again and again, the selected complaint
\* as it is stored: no late answer keeps another one, or an old version of it,
\* on the screen (useApi.js:69-71).
ShowsSelected ==
  []<>(selected # Nobody => data = [of |-> selected, version |-> stored[selected].version])
=============================================================================
