----------------------------- MODULE Submission -----------------------------
(***************************************************************************)
(* A report from the form to "My complaints": the form's submission        *)
(* (frontend/src/components/citizen/ReportForm.jsx), the screen that       *)
(* stages its processing while the gateway answers (IssueProcessingScreen  *)
(* .jsx), the table of complaints as the list shows it (backend/app/       *)
(* routes.py) and the tickets the browser remembers (CitizenDashboard      *)
(* .jsx).                                                                  *)
(*                                                                         *)
(* The form unmounts when it closes; the screen stays mounted, shows the   *)
(* submission it is given and keeps the rest of its state from one         *)
(* submission to the next.  Its ticker counts seconds; the model counts    *)
(* the stages they make up, of which only the last is told from the rest.  *)
(*                                                                         *)
(* Left out: the fields of the form but for whether it may be sent, where  *)
(* the location comes from (LocationForm), the voice note (VoiceCapture),  *)
(* the cache the list is read through (LiveSync), and citizenId: the user is one the database does not know,  *)
(* so that "My complaints" rests on the tickets.                           *)
(***************************************************************************)
EXTENDS Integers, Sequences, FiniteSets, SequencesExt

CONSTANTS MaxReports,  \* bound on the reports submitted
          LastStage,   \* the last stage of the screen, 6
          ListLimit,   \* the complaints the dashboard asks for, 100
          MaxOthers,   \* bound on the complaints of other citizens
          MaxReloads   \* bound on page loads

ASSUME SubmissionAssumption ==
  /\ MaxReports \in Nat \ {0} /\ LastStage \in Nat \ {0} /\ ListLimit \in Nat \ {0}
  /\ MaxOthers \in Nat /\ MaxReloads \in Nat

VARIABLES
  form,      \* ReportForm, see Form
  reports,   \* the reports submitted so far; a report is its number
  table,     \* the complaints the gateway stored, oldest first
  page,      \* the reports submitted since the page was loaded
  shown,     \* processingSubmission: a report, 0 when null
  screen,    \* the rest of the state of IssueProcessingScreen
  tickets,   \* localStorage: civicflow_user_tickets
  listed,    \* the complaints list of the dashboard
  ticketIds, \* localTicketIds, as of that list
  opened,    \* the complaint the drawer is open for, 0 without one
  reloads

dashboard == <<listed, ticketIds, opened>>
vars == <<form, reports, table, page, shown, screen, tickets, dashboard, reloads>>

None == "none"
Stages == 0..LastStage   \* seconds 0-13, 14-23, 24-31, 32-39, 40-51, 52-63 and from 64
Numbers == 0..MaxReports

\* The form: not mounted, lacking something handleSubmit asks for, or with a
\* category, a meaningful description and the photo a physical issue needs.
Closed == "closed"
Form == {Closed, "partial", "complete"}

\* A report: how far its call is, whether the gateway stored it, its answer.
Outcomes == {"ok", "evidence", "error"}
Report == [at : {"sent", "served", "settled"}, stored : BOOLEAN, outcome : Outcomes]

\* A complaint in the table: the report it is of, 0 for another citizen's, and
\* its status, where all but Rejected are alike.
Row == [of : Numbers, status : {"open", "Rejected", "purged"}]

\* stage: elapsedSeconds, as the stage it lies in; ticking: whether the interval
\* runs; data, error: what apiDataRef and apiErrorRef hold.
Screen == [stage : Stages, ticking : BOOLEAN, status : {"in_progress", "success", "failed"},
           ticketResult : Numbers, isApiReady : BOOLEAN, failedStepId : {0, 2, 6},
           data : Numbers, error : {None, "evidence", "error"}]
FreshScreen == [stage |-> 0, ticking |-> FALSE, status |-> "in_progress", ticketResult |-> 0,
                isApiReady |-> FALSE, failedStepId |-> 0, data |-> 0, error |-> None]

TypeOK ==
  /\ form \in Form
  /\ reports \in Seq(Report) /\ Len(reports) <= MaxReports
  /\ table \in Seq(Row)
  /\ page \in SUBSET DOMAIN reports
  /\ shown \in Numbers /\ opened \in Numbers
  /\ screen \in Screen
  /\ tickets \in Seq(DOMAIN reports)
  /\ listed \in SUBSET Numbers /\ ticketIds \in SUBSET DOMAIN reports
  /\ reloads \in 0..MaxReloads

Init ==
  /\ form = Closed /\ reports = <<>> /\ table = <<>> /\ page = {} /\ shown = 0
  /\ screen = FreshScreen
  /\ tickets = <<>>
  /\ listed = {} /\ ticketIds = {} /\ opened = 0
  /\ reloads = 0

----------------------------------------------------------------------------
(* The form                                                                *)

OpenForm ==
  /\ shown = 0 /\ form = Closed /\ opened = 0
  /\ form' = "partial"
  /\ UNCHANGED <<reports, table, page, shown, screen, tickets, dashboard, reloads>>

\* Any field of the open form changes: a category, a preset, the text, the
\* exemption from photos, a photo added or removed.
Edit ==
  /\ form # Closed /\ form' \in Form \ {Closed}
  /\ UNCHANGED <<reports, table, page, shown, screen, tickets, dashboard, reloads>>

\* "Cancel", the backdrop and the button of the header.
CloseForm ==
  /\ form # Closed /\ form' = Closed
  /\ UNCHANGED <<reports, table, page, shown, screen, tickets, dashboard, reloads>>

\* handleSubmit, and the effects of the screen for the new submission: the
\* interval starts, the rest of the screen's state is as it was.
Submit ==
  /\ form = "complete" /\ Len(reports) < MaxReports
  /\ reports' = Append(reports, [at |-> "sent", stored |-> FALSE, outcome |-> "error"])
  /\ page' = page \cup {Len(reports')}
  /\ shown' = Len(reports')
  /\ screen' = [screen EXCEPT !.ticking = TRUE]
  /\ form' = Closed
  /\ UNCHANGED <<table, tickets, dashboard, reloads>>

----------------------------------------------------------------------------
(* The gateway                                                             *)

Opened(n) == [of |-> n, status |-> "open"]

\* It stores the report, refuses it, or the call fails on its way, whether the
\* page still waits for it or not.
Serve(n) ==
  /\ n \in DOMAIN reports /\ reports[n].at = "sent"
  /\ \E stored \in BOOLEAN, outcome \in Outcomes :
       /\ stored => outcome # "evidence"
       /\ outcome = "ok" => stored
       /\ reports' = [reports EXCEPT ![n] = [at |-> "served", stored |-> stored,
                                             outcome |-> outcome]]
       /\ table' = IF stored THEN Append(table, Opened(n)) ELSE table
  /\ UNCHANGED <<form, page, shown, screen, tickets, dashboard, reloads>>

\* What else happens to the table.
TableStep == UNCHANGED <<form, reports, page, shown, screen, tickets, dashboard, reloads>>

\* Another citizen's complaint.
OthersSubmit ==
  /\ Cardinality({i \in DOMAIN table : table[i].of = 0}) < MaxOthers
  /\ table' = Append(table, Opened(0))
  /\ TableStep

\* update_complaint: a department rejects a complaint, or takes that back.
SetStatus(i, status) ==
  /\ i \in DOMAIN table /\ table[i].status # "purged"
  /\ table' = [table EXCEPT ![i].status = status]
  /\ TableStep

\* purge_rejected_complaints, when the gateway starts.
Purged(row) == IF row.status = "Rejected" THEN [row EXCEPT !.status = "purged"] ELSE row
Purge ==
  /\ table' = [i \in DOMAIN table |-> Purged(table[i])]
  /\ TableStep

\* list_complaints: the newest of those that are not rejected.
Visible == {i \in DOMAIN table : table[i].status = "open"}
Newest == {i \in Visible : Cardinality({k \in Visible : i < k}) < ListLimit}
Listing == {table[i].of : i \in Newest} \ {0}

----------------------------------------------------------------------------
(* The processing screen                                                   *)

\* Mutated form: the list is replaced.
OnlyTicket(n) == <<n>>
WithTicket(n) == IF Contains(tickets, n) THEN tickets ELSE <<n>> \o tickets

\* The promise settles: its callbacks run whatever the screen shows by then.
Settle(n) ==
  /\ n \in page /\ reports[n].at = "served"
  /\ reports' = [reports EXCEPT ![n].at = "settled"]
  /\ IF reports[n].outcome = "ok"
     THEN /\ screen' = [screen EXCEPT !.data = n, !.isApiReady = TRUE]
          /\ tickets' = WithTicket(n)
     ELSE /\ screen' = [screen EXCEPT !.error = reports[n].outcome]
          /\ UNCHANGED tickets
  /\ UNCHANGED <<form, table, page, shown, dashboard, reloads>>

Succeeds(s) == [s EXCEPT !.status = "success", !.ticketResult = s.data]
FailsAt(s, step) == [s EXCEPT !.status = "failed", !.failedStepId = step]
Stopped(s) == [s EXCEPT !.ticking = FALSE]

\* What the interval makes of the screen: an error ends it at once, success
\* only in the last stage, where it goes on until the answer is there.
\* Mutated forms: success without an answer; the interval ends without one.
AfterTickEarly(s) ==
  IF s.error # None THEN Stopped(FailsAt(s, IF s.error = "evidence" THEN 2 ELSE 6))
  ELSE IF s.stage = LastStage THEN Stopped(Succeeds(s)) ELSE s
AfterTickOnce(s) ==
  CASE s.error # None -> Stopped(FailsAt(s, IF s.error = "evidence" THEN 2 ELSE 6))
    [] s.error = None /\ s.stage = LastStage /\ s.data # 0 -> Stopped(Succeeds(s))
    [] OTHER -> IF s.stage = LastStage THEN Stopped(s) ELSE s
AfterTick(s) ==
  CASE s.error # None -> Stopped(FailsAt(s, IF s.error = "evidence" THEN 2 ELSE 6))
    [] s.error = None /\ s.stage = LastStage /\ s.data # 0 -> Stopped(Succeeds(s))
    [] OTHER -> s

Tick(stage) ==
  /\ shown # 0 /\ screen.ticking
  /\ stage \in {screen.stage, screen.stage + 1} \cap Stages
  /\ screen' = AfterTick([screen EXCEPT !.stage = stage])
  /\ UNCHANGED <<form, reports, table, page, shown, tickets, dashboard, reloads>>

\* The button of the header, which is there once a ticket has come.
FastTrackOffered == shown # 0 /\ screen.isApiReady /\ screen.status = "in_progress"

\* handleFastTrack; the interval goes on.
FastTrack ==
  /\ FastTrackOffered
  /\ screen' = Succeeds([screen EXCEPT !.stage = LastStage])
  /\ UNCHANGED <<form, reports, table, page, shown, tickets, dashboard, reloads>>

\* setProcessingSubmission(null), with which the interval is cleared: by the
\* backdrop and the buttons, to the drawer, or back to the form.
Leave ==
  /\ shown # 0 /\ shown' = 0
  /\ screen' = Stopped(screen)
  /\ UNCHANGED <<reports, table, page, tickets, listed, ticketIds, reloads>>

HandleClose == Leave /\ UNCHANGED <<form, opened>>

\* The cards with the verdict, and the buttons on them.
AcceptedCard == screen.status = "success"
RejectedCard == screen.status = "failed"

HandleViewDetail ==
  /\ AcceptedCard
  /\ Leave
  /\ opened' = screen.ticketResult
  /\ UNCHANGED form

ReturnToEdit ==
  /\ RejectedCard
  /\ Leave
  /\ form' = "partial"
  /\ UNCHANGED opened

----------------------------------------------------------------------------
(* The dashboard and the browser                                           *)

\* Mutated form: the tickets are read once, when the dashboard mounts.
ReadListOnly ==
  /\ listed' = Listing
  /\ UNCHANGED <<form, reports, table, page, shown, screen, tickets, ticketIds, opened,
                 reloads>>
\* A poll or an event: the list comes, and the tickets are read again.
ReadList ==
  /\ listed' = Listing
  /\ ticketIds' = ToSet(tickets)
  /\ UNCHANGED <<form, reports, table, page, shown, screen, tickets, opened, reloads>>

\* The cards of "My complaints": the tickets among the list, and the drawer
\* one of them opens.
MyComplaints == listed \cap ticketIds

OpenDetail(n) ==
  /\ shown = 0 /\ form = Closed /\ opened = 0
  /\ n \in MyComplaints /\ opened' = n
  /\ UNCHANGED <<form, reports, table, page, shown, screen, tickets, listed, ticketIds, reloads>>

CloseDetail ==
  /\ opened # 0 /\ opened' = 0
  /\ UNCHANGED <<form, reports, table, page, shown, screen, tickets, listed, ticketIds, reloads>>

\* The page is loaded again: the calls it waited for have nobody to answer to,
\* though the gateway may serve them yet.
Reload ==
  /\ reloads < MaxReloads /\ reloads' = reloads + 1
  /\ form' = Closed /\ shown' = 0 /\ page' = {} /\ screen' = FreshScreen
  /\ listed' = {} /\ ticketIds' = {} /\ opened' = 0
  /\ UNCHANGED <<reports, table, tickets>>

----------------------------------------------------------------------------
Next ==
  \/ OpenForm \/ Edit \/ CloseForm \/ Submit
  \/ \E n \in 1..MaxReports : Serve(n) \/ Settle(n)
  \/ OthersSubmit \/ Purge
  \/ \E i \in 1..(MaxReports + MaxOthers), status \in {"open", "Rejected"} :
        SetStatus(i, status)
  \/ \E n \in Numbers : OpenDetail(n)
  \/ FastTrack \/ HandleClose \/ HandleViewDetail \/ ReturnToEdit
  \/ \E stage \in Stages : Tick(stage)
  \/ ReadList \/ CloseDetail \/ Reload

Spec == Init /\ [][Next]_vars

\* The gateway answers or the call fails, the interval fires and gets on, and
\* the list is polled.
Fairness ==
  /\ \A n \in 1..MaxReports : WF_vars(Serve(n)) /\ WF_vars(Settle(n))
  /\ \A stage \in Stages : WF_vars(Tick(stage))
  /\ WF_vars(ReadList)

FairSpec == Spec /\ Fairness

----------------------------------------------------------------------------
(* Properties                                                              *)

\* The verdict on the screen is the gateway's, at the step the error belongs
\* to, however the ticker, the answer and the button cross; only the first
\* submission of a page load is sure of that (IssueProcessingScreen.jsx:72-146).
VerdictIsTrue ==
  shown # 0 /\ page = {shown} =>
    LET r == reports[shown]
    IN /\ screen.status = "success" =>
            r.at = "settled" /\ r.outcome = "ok" /\ screen.ticketResult = shown
       /\ screen.status = "failed" =>
            /\ r.at = "settled" /\ r.outcome # "ok"
            /\ screen.failedStepId = IF r.outcome = "evidence" THEN 2 ELSE 6

\* A ticket the screen presents or opens is one the gateway stored, and stays
\* among the tickets the browser remembers, whichever submission it belongs to
\* (IssueProcessingScreen.jsx:45-62, 153-160).
TicketIsKept ==
  \A n \in {screen.ticketResult, opened} \ {0} : reports[n].stored /\ Contains(tickets, n)

\* A screen that is left open reaches a verdict (IssueProcessingScreen.jsx:
\* 105-124).
ScreenSettles ==
  \A n \in 1..MaxReports :
    (shown = n) ~> (shown # n \/ screen.status # "in_progress")

\* A ticket the browser remembers comes to be listed under "My complaints" and
\* stays there if its complaint is to remain among the newest that are not
\* rejected, whatever is submitted, rejected and purged and however often the
\* page is loaded; if its complaint is rejected, purged or pushed out for good
\* it leaves the list for good (CitizenDashboard.jsx:124-147,
\* routes.py:641-681).
TicketIsListed ==
  \A n \in 1..MaxReports :
    /\ <>[](Contains(tickets, n) /\ n \in Listing) => <>[](n \in MyComplaints)
    /\ <>[](n \notin Listing) => <>[](n \notin MyComplaints)

\* The screen holds at its last step until the gateway has answered for the
\* report it shows: "Real API is still crunching [...] Hold on Step 6 with live
\* spinner!" (IssueProcessingScreen.jsx:120).
HoldsForAnswer ==
  shown # 0 /\ screen.status = "success" => reports[shown].at = "settled"

\* A rejected grievance is not stored: "No complaint ticket was created in the
\* municipal database" (IssueProcessingScreen.jsx:767).
RejectedIsNotStored ==
  shown # 0 /\ screen.status = "failed" => ~reports[shown].stored
=============================================================================
