-------------------------- MODULE SubmissionProofs --------------------------
(***************************************************************************)
(* Theorems of Submission, for any number of reports, photos, complaints   *)
(* of others and page loads.                                               *)
(***************************************************************************)
EXTENDS Submission, SequenceTheorems, TLAPS

----------------------------------------------------------------------------
(* The inductive invariant                                                 *)

\* What the gateway stored it stored when it was asked, and what it
\* acknowledged it stored.
ReportsTrue ==
  \A n \in DOMAIN reports :
    /\ reports[n].at = "sent" => ~reports[n].stored
    /\ reports[n].at \in {"served", "settled"} /\ reports[n].outcome = "ok" => reports[n].stored

\* The complaints in the table are of reports that were stored, or of others.
OfStored(row) == row.of # 0 => row.of \in DOMAIN reports /\ reports[row.of].stored
TableTrue == \A i \in DOMAIN table : OfStored(table[i])

\* A report that is stored and whose ticket the browser remembers.
Kept(n) == n \in DOMAIN reports /\ reports[n].stored /\ Contains(tickets, n)

\* Every ticket the screen, its refs, the drawer or the list holds.
TicketsHeld ==
  /\ \A n \in {screen.ticketResult, screen.data, opened} \ {0} : Kept(n)
  /\ \A n \in listed : n \in DOMAIN reports /\ reports[n].stored
  /\ \A n \in ticketIds : Contains(tickets, n)

\* While a page load has seen no submission the screen is as it was mounted.
ScreenUntouched == page = {} => screen = FreshScreen /\ shown = 0

\* While it has seen one, refs and state of the screen are about that one.
ScreenOf(n) ==
  /\ shown \in {0, n}
  /\ screen.data # 0 => /\ screen.data = n
                        /\ reports[n].at = "settled" /\ reports[n].outcome = "ok"
  /\ screen.error # None => /\ reports[n].at = "settled" /\ reports[n].outcome # "ok"
                            /\ screen.error = reports[n].outcome
  /\ screen.isApiReady => screen.data # 0
  /\ screen.status = "success" => screen.data # 0 /\ screen.ticketResult = n
  /\ screen.status = "failed" =>
       /\ screen.error # None
       /\ screen.failedStepId = IF screen.error = "evidence" THEN 2 ELSE 6

ScreenOfFirst == \A n \in DOMAIN reports : page = {n} => ScreenOf(n)

\* Only what was submitted since the page was loaded is shown.
ShownOfPage == shown # 0 => shown \in page

SubmissionInv ==
  /\ TypeOK /\ ReportsTrue /\ TableTrue /\ TicketsHeld
  /\ ScreenUntouched /\ ScreenOfFirst /\ ShownOfPage

----------------------------------------------------------------------------
(* What a step makes of the reports                                        *)

\* A report is submitted.
LEMMA SubmitEffect ==
  ASSUME TypeOK, Submit
  PROVE  /\ reports' \in Seq(Report) /\ Len(reports') = Len(reports) + 1
         /\ Len(reports') <= MaxReports
         /\ DOMAIN reports' = DOMAIN reports \cup {Len(reports')}
         /\ Len(reports') \notin DOMAIN reports
         /\ \A n \in DOMAIN reports : reports'[n] = reports[n]
         /\ reports'[Len(reports')] = [at |-> "sent", stored |-> FALSE, outcome |-> "error"]
<1> DEFINE new == [at |-> "sent", stored |-> FALSE, outcome |-> "error"]
<1>1. new \in Report
  BY DEF Report, Outcomes
<1>2. reports' = Append(reports, new) /\ Len(reports) < MaxReports
  BY DEF Submit
<1>3. reports \in Seq(Report) /\ Len(reports) \in Nat /\ MaxReports \in Nat
  BY SubmissionAssumption DEF TypeOK
<1> HIDE DEF new
<1>4. /\ reports' \in Seq(Report) /\ Len(reports') = Len(reports) + 1
      /\ \A n \in 1..Len(reports) : reports'[n] = reports[n]
      /\ reports'[Len(reports) + 1] = new
  BY <1>1, <1>2, <1>3, AppendProperties
<1>5. DOMAIN reports = 1..Len(reports) /\ DOMAIN reports' = 1..Len(reports')
  BY <1>3, <1>4, LenProperties
<1> QED
  BY <1>2, <1>3, <1>4, <1>5 DEF new

\* The record of one report changes.
LEMMA ExceptEffect ==
  ASSUME reports \in Seq(Report), NEW n \in DOMAIN reports, NEW r \in Report,
         reports' = [reports EXCEPT ![n] = r]
  PROVE  /\ reports' \in Seq(Report) /\ Len(reports') = Len(reports)
         /\ DOMAIN reports' = DOMAIN reports
         /\ reports'[n] = r
         /\ \A m \in DOMAIN reports \ {n} : reports'[m] = reports[m]
<1>1. n \in 1..Len(reports) /\ DOMAIN reports = 1..Len(reports)
  BY LenProperties
<1> QED
  BY <1>1, ExceptSeq

\* The gateway answers for a report.
LEMMA ServeEffect ==
  ASSUME TypeOK, NEW n, Serve(n)
  PROVE  /\ n \in DOMAIN reports /\ reports[n].at = "sent"
         /\ reports' \in Seq(Report) /\ Len(reports') = Len(reports)
         /\ DOMAIN reports' = DOMAIN reports
         /\ \A m \in DOMAIN reports \ {n} : reports'[m] = reports[m]
         /\ reports'[n].at = "served"
         /\ reports'[n].outcome = "ok" => reports'[n].stored
         /\ \/ table' = table
            \/ table' = Append(table, Opened(n)) /\ reports'[n].stored
<1>1. n \in DOMAIN reports /\ reports \in Seq(Report)
  BY DEF TypeOK, Serve
<1>2. PICK stored \in BOOLEAN, outcome \in Outcomes :
        /\ outcome = "ok" => stored
        /\ reports' = [reports EXCEPT ![n] = [at |-> "served", stored |-> stored,
                                              outcome |-> outcome]]
        /\ table' = IF stored THEN Append(table, Opened(n)) ELSE table
  BY DEF Serve
<1>3. [at |-> "served", stored |-> stored, outcome |-> outcome] \in Report
  BY DEF Report
<1>4. reports[n].at = "sent"
  BY DEF Serve
<1>5. /\ reports' \in Seq(Report) /\ Len(reports') = Len(reports)
      /\ DOMAIN reports' = DOMAIN reports
      /\ reports'[n] = [at |-> "served", stored |-> stored, outcome |-> outcome]
      /\ \A m \in DOMAIN reports \ {n} : reports'[m] = reports[m]
  BY <1>1, <1>2, <1>3, ExceptEffect
<1> QED
  BY <1>1, <1>2, <1>4, <1>5

\* Its answer arrives.
LEMMA SettleEffect ==
  ASSUME TypeOK, NEW n, Settle(n)
  PROVE  /\ n \in DOMAIN reports /\ reports[n].at = "served"
         /\ reports' \in Seq(Report) /\ Len(reports') = Len(reports)
         /\ DOMAIN reports' = DOMAIN reports
         /\ \A m \in DOMAIN reports \ {n} : reports'[m] = reports[m]
         /\ reports'[n] = [reports[n] EXCEPT !.at = "settled"]
         /\ reports[n] \in Report
<1>1. n \in DOMAIN reports /\ reports \in Seq(Report)
  BY DEF TypeOK, Settle
<1>2. reports[n] \in Report
  BY <1>1, LenProperties, ElementOfSeq
<1>3. [reports[n] EXCEPT !.at = "settled"] \in Report
  BY <1>2 DEF Report
<1>4. /\ reports' = [reports EXCEPT ![n] = [reports[n] EXCEPT !.at = "settled"]]
      /\ reports[n].at = "served"
  BY DEF Settle
<1> QED
  BY <1>1, <1>2, <1>3, <1>4, ExceptEffect

\* A step of the table that is not an answer to the citizen.
TableMoves ==
  \/ OthersSubmit \/ Purge
  \/ \E i \in 1..(MaxReports + MaxOthers), status \in {"open", "Rejected"} :
        SetStatus(i, status)

\* What the gateway does to a table of complaints, its rows keep what they are of.
LEMMA AppendRow ==
  ASSUME table \in Seq(Row), NEW n \in Numbers, table' = Append(table, Opened(n))
  PROVE  /\ table' \in Seq(Row)
         /\ \A i \in DOMAIN table' :
              table'[i].of = n \/ (i \in DOMAIN table /\ table'[i] = table[i])
<1>1. Opened(n) \in Row /\ Opened(n).of = n
  BY DEF Opened, Row
<1>2. /\ table' \in Seq(Row) /\ Len(table') = Len(table) + 1 /\ Len(table) \in Nat
      /\ \A i \in 1..Len(table) : table'[i] = table[i]
      /\ table'[Len(table) + 1] = Opened(n)
  BY <1>1, AppendProperties
<1>3. DOMAIN table = 1..Len(table) /\ DOMAIN table' = 1..Len(table')
  BY <1>2, LenProperties
<1> QED
  BY <1>1, <1>2, <1>3

LEMMA MarkRows ==
  ASSUME table \in Seq(Row),
         \/ Purge
         \/ \E i \in DOMAIN table, status \in {"open", "Rejected"} : SetStatus(i, status)
  PROVE  /\ table' \in Seq(Row) /\ DOMAIN table' = DOMAIN table
         /\ \A i \in DOMAIN table : table'[i].of = table[i].of
<1>1. /\ Len(table) \in Nat /\ DOMAIN table = 1..Len(table)
      /\ \A i \in DOMAIN table : table[i] \in Row
  BY LenProperties, ElementOfSeq
<1>2. CASE Purge
  <2>1. table' = [i \in DOMAIN table |-> Purged(table[i])]
    BY <1>2 DEF Purge
  <2>2. \A row \in Row : Purged(row) \in Row /\ Purged(row).of = row.of
    BY DEF Purged, Row
  <2>3. table' \in [1..Len(table) -> Row]
    BY <1>1, <2>1, <2>2
  <2> QED
    BY <1>1, <2>1, <2>2, <2>3, SeqDef
<1>3. CASE \E i \in DOMAIN table, status \in {"open", "Rejected"} : SetStatus(i, status)
  <2>1. PICK k \in DOMAIN table, status \in {"open", "Rejected"} :
          table' = [table EXCEPT ![k].status = status]
    BY <1>3 DEF SetStatus
  <2>2. \A row \in Row : [row EXCEPT !.status = status] \in Row
    BY DEF Row
  <2>3. table' \in [1..Len(table) -> Row]
    BY <1>1, <2>1, <2>2
  <2>4. \A i \in DOMAIN table : table'[i].of = table[i].of
    BY <1>1, <2>1 DEF Row
  <2> QED
    BY <1>1, <2>3, <2>4, SeqDef
<1> QED
  BY <1>2, <1>3

----------------------------------------------------------------------------
(* Types                                                                   *)

\* An edit leaves a form.
LEMMA EditType ==
  ASSUME OpenForm \/ Edit \/ CloseForm
  PROVE  /\ form' \in Form
         /\ UNCHANGED <<reports, table, page, shown, screen, tickets, dashboard, reloads>>
BY DEF OpenForm, Edit, CloseForm, Form, Closed

\* What the ticker and the button make of the screen is a screen.
LEMMA ScreenType ==
  ASSUME NEW s \in Screen
  PROVE  /\ Stopped(s) \in Screen /\ Succeeds(s) \in Screen
         /\ \A step \in {2, 6} : FailsAt(s, step) \in Screen
         /\ AfterTick(s) \in Screen
<1>1. Stopped(s) \in Screen /\ Succeeds(s) \in Screen
  BY DEF Stopped, Succeeds, Screen
<1>2. ASSUME NEW step \in {2, 6} PROVE FailsAt(s, step) \in Screen
  BY DEF FailsAt, Screen
<1>3. ASSUME NEW t \in Screen PROVE Stopped(t) \in Screen
  BY DEF Stopped, Screen
<1>4. AfterTick(s) \in Screen
  <2>1. CASE s.error # None
    <3>1. AfterTick(s) = Stopped(FailsAt(s, IF s.error = "evidence" THEN 2 ELSE 6))
      BY <2>1 DEF AfterTick
    <3> QED
      BY <1>2, <1>3, <3>1
  <2>2. CASE s.error = None /\ s.stage = LastStage /\ s.data # 0
    <3>1. AfterTick(s) = Stopped(Succeeds(s))
      BY <2>2 DEF AfterTick
    <3> QED
      BY <1>1, <1>3, <3>1
  <2>3. CASE s.error = None /\ ~(s.stage = LastStage /\ s.data # 0)
    <3>1. AfterTick(s) = s
      BY <2>3 DEF AfterTick
    <3> QED
      BY <3>1
  <2> QED
    BY <2>1, <2>2, <2>3
<1> QED
  BY <1>1, <1>2, <1>4

\* A ticket is added once; the others stay.
LEMMA WithTicketEffect ==
  ASSUME NEW S, tickets \in Seq(S), NEW n \in S
  PROVE  /\ WithTicket(n) \in Seq(S)
         /\ Contains(WithTicket(n), n)
         /\ \A m : Contains(tickets, m) => Contains(WithTicket(n), m)
<1>1. CASE Contains(tickets, n)
  BY <1>1 DEF WithTicket
<1>2. CASE ~Contains(tickets, n)
  <2>1. WithTicket(n) = <<n>> \o tickets
    BY <1>2 DEF WithTicket
  <2>2. <<n>> \in Seq(S) /\ Len(<<n>>) = 1 /\ <<n>>[1] = n /\ Len(tickets) \in Nat
    OBVIOUS
  <2>3. /\ WithTicket(n) \in Seq(S) /\ Len(WithTicket(n)) = 1 + Len(tickets)
        /\ WithTicket(n)[1] = n
        /\ \A i \in 1..Len(tickets) : WithTicket(n)[1 + i] = tickets[i]
    BY <2>1, <2>2, ConcatProperties
  <2>4. Contains(WithTicket(n), n)
    BY <2>2, <2>3 DEF Contains
  <2>5. ASSUME NEW m, Contains(tickets, m) PROVE Contains(WithTicket(n), m)
    <3>1. PICK i \in 1..Len(tickets) : tickets[i] = m
      BY <2>5 DEF Contains
    <3>2. 1 + i \in 1..Len(WithTicket(n)) /\ WithTicket(n)[1 + i] = m
      BY <2>2, <2>3, <3>1
    <3> QED
      BY <3>2 DEF Contains
  <2> QED
    BY <2>3, <2>4, <2>5
<1> QED
  BY <1>1, <1>2

\* A step of the screen, the drawer or the list leaves the reports alone.
LEMMA ViewType ==
  ASSUME TypeOK,
         \/ FastTrack \/ HandleClose \/ HandleViewDetail \/ ReturnToEdit
         \/ ReadList \/ CloseDetail
         \/ \E stage \in Stages : Tick(stage)
         \/ \E n \in Numbers : OpenDetail(n)
  PROVE  TypeOK'
<1> USE DEF dashboard
<1>0. /\ screen \in Screen /\ form \in Form /\ shown \in Numbers /\ opened \in Numbers
      /\ listed \in SUBSET Numbers /\ ticketIds \in SUBSET DOMAIN reports
      /\ tickets \in Seq(DOMAIN reports) /\ 0 \in Numbers
  BY SubmissionAssumption DEF TypeOK, Numbers
<1>1. CASE FastTrack
  <2>1. [screen EXCEPT !.stage = LastStage] \in Screen
    BY <1>0, SubmissionAssumption DEF Screen, Stages
  <2> QED
    BY <1>1, <2>1, ScreenType DEF FastTrack, TypeOK
<1>2. ASSUME NEW stage \in Stages, Tick(stage) PROVE TypeOK'
  <2>1. [screen EXCEPT !.stage = stage] \in Screen
    BY <1>0 DEF Screen
  <2> QED
    BY <1>2, <2>1, ScreenType DEF Tick, TypeOK
<1>3. CASE HandleClose
  BY <1>0, <1>3, ScreenType DEF HandleClose, Leave, TypeOK
<1>4. CASE HandleViewDetail
  <2>1. screen.ticketResult \in Numbers
    BY <1>0 DEF Screen
  <2> QED
    BY <1>0, <1>4, <2>1, ScreenType DEF HandleViewDetail, Leave, TypeOK
<1>5. CASE ReturnToEdit
  <2>1. form' \in Form
    BY <1>5 DEF ReturnToEdit, Form
  <2> QED
    BY <1>0, <1>5, <2>1, ScreenType DEF ReturnToEdit, Leave, TypeOK
<1>6. CASE ReadList
  <2>1. ToSet(tickets) \subseteq DOMAIN reports
    BY <1>0 DEF ToSet
  <2>2. listed' \subseteq Numbers
    <3>1. \A i \in DOMAIN table : table[i].of \in Numbers
      <4>1. \A i \in DOMAIN table : table[i] \in Row
        BY ElementOfSeq, LenProperties DEF TypeOK
      <4> QED
        BY <4>1 DEF Row
    <3> QED
      BY <1>6, <3>1 DEF ReadList, Listing, Newest, Visible
  <2> QED
    BY <1>6, <2>1, <2>2 DEF ReadList, TypeOK
<1>7. CASE CloseDetail
  BY <1>0, <1>7 DEF CloseDetail, TypeOK
<1>8. ASSUME NEW n \in Numbers, OpenDetail(n) PROVE TypeOK'
  BY <1>8 DEF OpenDetail, TypeOK
<1> QED
  BY <1>1, <1>2, <1>3, <1>4, <1>5, <1>6, <1>7, <1>8

\* Forms, reports, screen, tickets and lists are well typed after every step.
LEMMA TypeStep == TypeOK /\ [Next]_vars => TypeOK'
<1> SUFFICES ASSUME TypeOK, [Next]_vars PROVE TypeOK'
  OBVIOUS
<1>0. /\ reports \in Seq(Report) /\ Len(reports) <= MaxReports /\ screen \in Screen
      /\ page \in SUBSET DOMAIN reports /\ tickets \in Seq(DOMAIN reports)
  BY DEF TypeOK
<1>1. ASSUME form' \in Form,
             UNCHANGED <<reports, table, page, shown, screen, tickets, dashboard, reloads>>
      PROVE  TypeOK'
  BY <1>1 DEF TypeOK, dashboard
<1>2. CASE Submit
  <2>1. /\ page' \in SUBSET DOMAIN reports' /\ listed' \in SUBSET Numbers
        /\ ticketIds' \in SUBSET DOMAIN reports'
    BY <1>2, SubmitEffect DEF Submit, dashboard, TypeOK
  <2>2. tickets' \in Seq(DOMAIN reports')
    BY <1>0, <1>2, SubmitEffect, SeqMonotonic DEF Submit
  <2>3. shown' \in Numbers
    <3>1. Len(reports) \in Nat /\ MaxReports \in Nat
      BY <1>0, LenProperties, SubmissionAssumption
    <3> QED
      BY <1>2, <3>1, SubmitEffect DEF Submit, Numbers
  <2>4. screen' \in Screen
    BY <1>0, <1>2 DEF Submit, Screen
  <2>5. form' \in Form
    BY <1>2 DEF Submit, Closed, Form
  <2> QED
    BY <1>2, <2>1, <2>2, <2>3, <2>4, <2>5, SubmitEffect DEF Submit, dashboard, TypeOK
<1>3. ASSUME NEW n, Serve(n) PROVE TypeOK'
  <2>1. n \in Numbers
    BY <1>0, <1>3, ServeEffect, LenProperties, SubmissionAssumption DEF Numbers
  <2>2. table' \in Seq(Row)
    BY <1>3, <2>1, ServeEffect, AppendRow DEF TypeOK
  <2> QED
    BY <1>3, <2>2, ServeEffect DEF Serve, dashboard, TypeOK
<1>4. ASSUME NEW n, Settle(n) PROVE TypeOK'
  <2>1. n \in DOMAIN reports /\ DOMAIN reports' = DOMAIN reports /\ reports[n] \in Report
    BY <1>4, SettleEffect
  <2>2. tickets' \in Seq(DOMAIN reports')
    BY <1>0, <1>4, <2>1, WithTicketEffect DEF Settle
  <2>3. screen' \in Screen
    <3>1. n \in Numbers
      BY <1>0, <2>1, LenProperties, SubmissionAssumption DEF Numbers
    <3>2. CASE reports[n].outcome = "ok"
      BY <1>0, <1>4, <3>1, <3>2 DEF Settle, Screen
    <3>3. CASE reports[n].outcome # "ok"
      <4>1. reports[n].outcome \in {None, "evidence", "error"}
        BY <2>1, <3>3 DEF Report, Outcomes
      <4> QED
        BY <1>0, <1>4, <3>3, <4>1 DEF Settle, Screen
    <3> QED
      BY <3>2, <3>3
  <2> QED
    BY <1>4, <2>1, <2>2, <2>3, SettleEffect DEF Settle, dashboard, TypeOK
<1>5. CASE Reload
  <2>1. Closed \in Form /\ 0 \in Numbers
    BY SubmissionAssumption DEF Closed, Form, Numbers
  <2>2. FreshScreen \in Screen
    BY SubmissionAssumption DEF FreshScreen, Screen, Stages, Numbers
  <2>3. /\ form' = Closed /\ shown' = 0 /\ page' = {} /\ screen' = FreshScreen
        /\ listed' = {} /\ ticketIds' = {} /\ opened' = 0 /\ UNCHANGED tickets
        /\ reloads < MaxReloads /\ reloads' = reloads + 1 /\ UNCHANGED <<reports, table>>
    BY <1>5 DEF Reload
  <2>4. reloads' \in 0..MaxReloads
    BY <2>3, SubmissionAssumption DEF TypeOK
  <2> QED
    BY <1>0, <2>1, <2>2, <2>3, <2>4 DEF TypeOK
<1>6. CASE UNCHANGED vars
  BY <1>1, <1>6 DEF vars, TypeOK
<1>7. ASSUME TableStep, table' \in Seq(Row) PROVE TypeOK'
  BY <1>7 DEF TableStep, dashboard, TypeOK
<1>8. CASE OthersSubmit
  <2>1. 0 \in Numbers
    BY SubmissionAssumption DEF Numbers
  <2> QED
    BY <1>7, <1>8, <2>1, AppendRow DEF OthersSubmit, TypeOK
<1>9. CASE Purge
  BY <1>7, <1>9, MarkRows DEF Purge, TypeOK
<1>10. ASSUME NEW i, NEW status \in {"open", "Rejected"}, SetStatus(i, status)
       PROVE  TypeOK'
  <2>1. table' \in Seq(Row)
    BY <1>10, MarkRows DEF SetStatus, TypeOK
  <2> QED
    BY <1>7, <1>10, <2>1 DEF SetStatus
<1> QED
  BY <1>1, <1>2, <1>3, <1>4, <1>5, <1>6, <1>8, <1>9, <1>10, EditType, ViewType DEF Next

----------------------------------------------------------------------------
(* Nothing is lost                                                         *)

\* A step keeps what is stored and what the browser remembers.
NothingLost ==
  /\ \A n \in DOMAIN reports : /\ n \in DOMAIN reports'
                               /\ reports[n].stored => reports'[n].stored
  /\ \A n : Contains(tickets, n) => Contains(tickets', n)

\* Every step does, and what is acknowledged is stored.
LEMMA LosesNothing ==
  ASSUME TypeOK, ReportsTrue, [Next]_vars
  PROVE  NothingLost /\ ReportsTrue'
<1>1. ASSUME UNCHANGED <<reports, tickets>> PROVE NothingLost /\ ReportsTrue'
  BY <1>1 DEF NothingLost, ReportsTrue
<1>2. CASE Submit
  <2>1. NothingLost
    BY <1>2, SubmitEffect DEF NothingLost, Submit
  <2>2. ASSUME NEW n \in DOMAIN reports'
        PROVE  /\ reports'[n].at = "sent" => ~reports'[n].stored
               /\ reports'[n].at \in {"served", "settled"} /\ reports'[n].outcome = "ok"
                    => reports'[n].stored
    <3>1. CASE n \in DOMAIN reports
      BY <1>2, <3>1, SubmitEffect DEF ReportsTrue
    <3>2. CASE n = Len(reports')
      BY <1>2, <3>2, SubmitEffect
    <3> QED
      BY <1>2, <2>2, <3>1, <3>2, SubmitEffect
  <2> QED
    BY <2>1, <2>2 DEF ReportsTrue
<1>3. ASSUME NEW n, Serve(n) PROVE NothingLost /\ ReportsTrue'
  <2>1. ~reports[n].stored
    BY <1>3, ServeEffect DEF ReportsTrue
  <2>2. UNCHANGED tickets
    BY <1>3 DEF Serve
  <2> QED
    BY <1>3, <2>1, <2>2, ServeEffect DEF NothingLost, ReportsTrue
<1>4. ASSUME NEW n, Settle(n) PROVE NothingLost /\ ReportsTrue'
  <2>1. \A m : Contains(tickets, m) => Contains(tickets', m)
    <3>1. n \in DOMAIN reports /\ tickets \in Seq(DOMAIN reports)
      BY <1>4, SettleEffect DEF TypeOK
    <3>2. tickets' = WithTicket(n) \/ tickets' = tickets
      BY <1>4 DEF Settle
    <3> QED
      BY <3>1, <3>2, WithTicketEffect
  <2>2. /\ n \in DOMAIN reports /\ reports[n].at = "served" /\ reports'[n].at = "settled"
        /\ reports'[n].stored = reports[n].stored
        /\ reports'[n].outcome = reports[n].outcome
    <3>1. /\ n \in DOMAIN reports /\ reports[n] \in Report /\ reports[n].at = "served"
          /\ reports'[n] = [reports[n] EXCEPT !.at = "settled"]
      BY <1>4, SettleEffect
    <3> QED
      BY <3>1 DEF Report
  <2>3. /\ DOMAIN reports' = DOMAIN reports
        /\ \A m \in DOMAIN reports \ {n} : reports'[m] = reports[m]
    BY <1>4, SettleEffect
  <2>4. NothingLost
    BY <2>1, <2>2, <2>3 DEF NothingLost
  <2>5. ReportsTrue'
    BY <2>2, <2>3 DEF ReportsTrue
  <2> QED
    BY <2>4, <2>5
<1>5. CASE Reload \/ TableMoves
  BY <1>1, <1>5 DEF Reload, TableMoves, OthersSubmit, Purge, SetStatus, TableStep
<1>6. CASE \/ FastTrack \/ HandleClose \/ HandleViewDetail \/ ReturnToEdit
           \/ ReadList \/ CloseDetail
           \/ \E stage \in Stages : Tick(stage)
           \/ \E n \in Numbers : OpenDetail(n)
  BY <1>1, <1>6 DEF FastTrack, HandleClose, HandleViewDetail, ReturnToEdit, Leave, ReadList,
     CloseDetail, Tick, OpenDetail
<1>7. CASE UNCHANGED vars
  BY <1>1, <1>7 DEF vars
<1> QED
  BY <1>1, <1>2, <1>3, <1>4, <1>5, <1>6, <1>7, EditType DEF Next, TableMoves

\* The table goes on to hold only what was stored.
LEMMA TableStays ==
  ASSUME TypeOK, TableTrue, NothingLost, [Next]_vars
  PROVE  TableTrue'
<1>0. /\ table \in Seq(Row)
      /\ \A n \in DOMAIN reports :
           n \in DOMAIN reports' /\ (reports[n].stored => reports'[n].stored)
  BY DEF TypeOK, NothingLost
<1>1. ASSUME UNCHANGED table PROVE TableTrue'
  BY <1>0, <1>1 DEF TableTrue, OfStored
<1>2. ASSUME NEW n, Serve(n) PROVE TableTrue'
  <2>1. n \in Numbers
    BY <1>2, ServeEffect, LenProperties, SubmissionAssumption DEF Numbers, TypeOK
  <2>2. CASE table' = Append(table, Opened(n)) /\ reports'[n].stored
    <3>1. n \in DOMAIN reports'
      BY <1>2, ServeEffect
    <3>2. \A i \in DOMAIN table' :
            table'[i].of = n \/ (i \in DOMAIN table /\ table'[i] = table[i])
      BY <1>0, <2>1, <2>2, AppendRow
    <3> QED
      BY <1>0, <2>2, <3>1, <3>2 DEF TableTrue, OfStored
  <2> QED
    BY <1>1, <1>2, <2>2, ServeEffect
<1>3. CASE TableMoves
  <2>1. CASE OthersSubmit
    <3>1. table' = Append(table, Opened(0)) /\ 0 \in Numbers
      BY <2>1, SubmissionAssumption DEF OthersSubmit, Numbers
    <3>2. \A i \in DOMAIN table' :
            table'[i].of = 0 \/ (i \in DOMAIN table /\ table'[i] = table[i])
      BY <1>0, <3>1, AppendRow
    <3> QED
      BY <1>0, <3>2 DEF TableTrue, OfStored
  <2>2. CASE ~OthersSubmit
    <3>1. Purge \/ \E i \in DOMAIN table, status \in {"open", "Rejected"} : SetStatus(i, status)
      BY <1>3, <2>2 DEF TableMoves, SetStatus
    <3>2. DOMAIN table' = DOMAIN table /\ \A i \in DOMAIN table : table'[i].of = table[i].of
      BY <1>0, <3>1, MarkRows
    <3> QED
      BY <1>0, <3>2 DEF TableTrue, OfStored
  <2> QED
    BY <2>1, <2>2
<1>4. CASE \/ Submit \/ Reload \/ FastTrack \/ HandleClose \/ HandleViewDetail \/ ReturnToEdit
           \/ ReadList \/ CloseDetail
           \/ \E stage \in Stages : Tick(stage)
           \/ \E n \in Numbers : OpenDetail(n)
           \/ \E n \in 1..MaxReports : Settle(n)
  BY <1>1, <1>4 DEF Submit, Reload, FastTrack, HandleClose, HandleViewDetail, ReturnToEdit, Leave,
     ReadList, CloseDetail, Tick, OpenDetail, Settle
<1>5. CASE UNCHANGED vars
  BY <1>1, <1>5 DEF vars
<1> QED
  BY <1>1, <1>2, <1>3, <1>4, <1>5, EditType DEF Next, TableMoves

\* What is listed was stored.
LEMMA ListedIsStored ==
  ASSUME TypeOK, TableTrue, NEW n \in Listing
  PROVE  n \in DOMAIN reports /\ reports[n].stored
BY DEF Listing, Newest, Visible, TableTrue, OfStored

----------------------------------------------------------------------------
(* Tickets                                                                 *)

\* A step that presents nothing but tickets already held, or kept by it.
LEMMA TicketsStay ==
  ASSUME TypeOK, TicketsHeld, NothingLost,
         \A n \in {screen'.ticketResult, screen'.data, opened'} \ {0} :
            n \in {screen.ticketResult, screen.data, opened} \/ Kept(n)',
         \A n \in listed' : n \in listed \/ (n \in DOMAIN reports' /\ reports'[n].stored),
         \A n \in ticketIds' : n \in ticketIds \/ Contains(tickets', n)
  PROVE  TicketsHeld'
<1>1. \A n \in DOMAIN reports : n \in DOMAIN reports' /\ (reports[n].stored => reports'[n].stored)
  BY DEF NothingLost
<1>2. \A n : Contains(tickets, n) => Contains(tickets', n)
  BY DEF NothingLost
<1>3. \A n : Kept(n) => Kept(n)'
  BY <1>1, <1>2 DEF Kept
<1>4. \A n \in {screen'.ticketResult, screen'.data, opened'} \ {0} : Kept(n)'
  BY <1>3 DEF TicketsHeld
<1>5. \A n \in listed' : n \in DOMAIN reports' /\ reports'[n].stored
  BY <1>1 DEF TicketsHeld
<1>6. \A n \in ticketIds' : Contains(tickets', n)
  BY <1>2 DEF TicketsHeld
<1> QED
  BY <1>4, <1>5, <1>6 DEF TicketsHeld

\* What the ticker makes of the screen presents only the ticket it has.
LEMMA AfterTickTickets ==
  ASSUME NEW s \in Screen
  PROVE  /\ AfterTick(s).data = s.data
         /\ AfterTick(s).ticketResult \in {s.ticketResult, s.data}
<1>1. CASE s.error # None
  <2>1. AfterTick(s) = Stopped(FailsAt(s, IF s.error = "evidence" THEN 2 ELSE 6))
    BY <1>1 DEF AfterTick
  <2> QED
    BY <2>1 DEF Stopped, FailsAt, Screen
<1>2. CASE s.error = None /\ s.stage = LastStage /\ s.data # 0
  <2>1. AfterTick(s) = Stopped(Succeeds(s))
    BY <1>2 DEF AfterTick
  <2> QED
    BY <2>1 DEF Stopped, Succeeds, Screen
<1>3. CASE s.error = None /\ ~(s.stage = LastStage /\ s.data # 0)
  <2>1. AfterTick(s) = s
    BY <1>3 DEF AfterTick
  <2> QED
    BY <2>1
<1> QED
  BY <1>1, <1>2, <1>3

\* Every ticket held is stored and remembered after every step.
LEMMA TicketsStep == SubmissionInv /\ [Next]_vars => TicketsHeld'
<1> SUFFICES ASSUME SubmissionInv, [Next]_vars PROVE TicketsHeld'
  OBVIOUS
<1>0. /\ TypeOK /\ TicketsHeld /\ NothingLost /\ ReportsTrue /\ TableTrue
      /\ screen \in Screen /\ reports \in Seq(Report) /\ tickets \in Seq(DOMAIN reports)
  BY LosesNothing DEF SubmissionInv, TypeOK
<1>1. ASSUME UNCHANGED <<screen, opened, listed, ticketIds>> PROVE TicketsHeld'
  BY <1>0, <1>1, TicketsStay
<1>2. CASE Submit
  <2>1. screen'.ticketResult = screen.ticketResult /\ screen'.data = screen.data
    BY <1>0, <1>2 DEF Submit, Screen
  <2>2. UNCHANGED <<opened, listed, ticketIds>>
    BY <1>2 DEF Submit, dashboard
  <2> QED
    BY <1>0, <2>1, <2>2, TicketsStay
<1>3. ASSUME NEW n, Serve(n) PROVE TicketsHeld'
  BY <1>1, <1>3 DEF Serve, dashboard
<1>4. ASSUME NEW n, Settle(n) PROVE TicketsHeld'
  <2>1. /\ n \in DOMAIN reports /\ DOMAIN reports' = DOMAIN reports
        /\ reports[n].at = "served" /\ reports'[n].stored = reports[n].stored
    BY <1>0, <1>4, SettleEffect DEF Report
  <2>2. UNCHANGED <<opened, listed, ticketIds>>
    BY <1>4 DEF Settle, dashboard
  <2>3. CASE reports[n].outcome = "ok"
    <3>1. screen' = [screen EXCEPT !.data = n, !.isApiReady = TRUE] /\ tickets' = WithTicket(n)
      BY <1>4, <2>3 DEF Settle
    <3>2. reports'[n].stored
      BY <1>0, <2>1, <2>3 DEF ReportsTrue
    <3>3. Contains(tickets', n)
      BY <1>0, <2>1, <3>1, WithTicketEffect
    <3>4. Kept(n)'
      BY <2>1, <3>2, <3>3 DEF Kept
    <3>5. screen'.ticketResult = screen.ticketResult /\ screen'.data = n
      BY <1>0, <3>1 DEF Screen
    <3> QED
      BY <1>0, <2>2, <3>4, <3>5, TicketsStay
  <2>4. CASE reports[n].outcome # "ok"
    <3>1. screen' = [screen EXCEPT !.error = reports[n].outcome]
      BY <1>4, <2>4 DEF Settle
    <3>2. screen'.ticketResult = screen.ticketResult /\ screen'.data = screen.data
      BY <1>0, <3>1 DEF Screen
    <3> QED
      BY <1>0, <2>2, <3>2, TicketsStay
  <2> QED
    BY <2>3, <2>4
<1>5. ASSUME NEW stage \in Stages, Tick(stage) PROVE TicketsHeld'
  <2> DEFINE s == [screen EXCEPT !.stage = stage]
  <2>1. s \in Screen /\ s.data = screen.data /\ s.ticketResult = screen.ticketResult
    BY <1>0 DEF Screen
  <2>2. screen' = AfterTick(s) /\ UNCHANGED <<opened, listed, ticketIds>>
    BY <1>5 DEF Tick, dashboard
  <2> HIDE DEF s
  <2>3. screen'.data = screen.data /\ screen'.ticketResult \in {screen.ticketResult, screen.data}
    BY <2>1, <2>2, AfterTickTickets
  <2> QED
    BY <1>0, <2>2, <2>3, TicketsStay
<1>6. CASE FastTrack
  <2>1. screen'.data = screen.data /\ screen'.ticketResult = screen.data
    BY <1>0, <1>6 DEF FastTrack, Succeeds, Screen
  <2>2. UNCHANGED <<opened, listed, ticketIds>>
    BY <1>6 DEF FastTrack, dashboard
  <2> QED
    BY <1>0, <2>1, <2>2, TicketsStay
<1>7. CASE HandleClose \/ HandleViewDetail \/ ReturnToEdit
  <2>1. Leave /\ opened' \in {opened, screen.ticketResult}
    BY <1>7 DEF HandleClose, HandleViewDetail, ReturnToEdit
  <2>2. screen'.ticketResult = screen.ticketResult /\ screen'.data = screen.data
    BY <1>0, <2>1 DEF Leave, Stopped, Screen
  <2>3. UNCHANGED <<listed, ticketIds>>
    BY <2>1 DEF Leave
  <2> QED
    BY <1>0, <2>1, <2>2, <2>3, TicketsStay
<1>8. CASE ReadList
  <2>1. \A n \in listed' : n \in DOMAIN reports' /\ reports'[n].stored
    BY <1>0, <1>8, ListedIsStored DEF ReadList
  <2>2. \A n \in ticketIds' : Contains(tickets', n)
    <3>1. ticketIds' = {tickets[i] : i \in DOMAIN tickets} /\ tickets' = tickets
      BY <1>8 DEF ReadList, ToSet
    <3>2. DOMAIN tickets = 1..Len(tickets)
      BY <1>0, LenProperties
    <3> QED
      BY <3>1, <3>2 DEF Contains
  <2>3. UNCHANGED <<screen, opened>>
    BY <1>8 DEF ReadList
  <2> QED
    BY <1>0, <2>1, <2>2, <2>3, TicketsStay
<1>9. ASSUME NEW n \in Numbers, OpenDetail(n) PROVE TicketsHeld'
  <2>1. n \in listed /\ n \in ticketIds /\ opened' = n
    BY <1>9 DEF OpenDetail, MyComplaints
  <2>2. Kept(n)
    BY <1>0, <2>1 DEF TicketsHeld, Kept, TypeOK
  <2>3. UNCHANGED <<screen, listed, ticketIds, reports, tickets>>
    BY <1>9 DEF OpenDetail
  <2>4. Kept(n)'
    BY <2>2, <2>3 DEF Kept
  <2> QED
    BY <1>0, <2>1, <2>3, <2>4, TicketsStay
<1>10. CASE CloseDetail
  <2>1. opened' = 0 /\ UNCHANGED <<screen, listed, ticketIds>>
    BY <1>10 DEF CloseDetail
  <2> QED
    BY <1>0, <2>1, TicketsStay
<1>11. CASE Reload
  <2>1. screen' = FreshScreen /\ opened' = 0 /\ listed' = {} /\ ticketIds' = {}
    BY <1>11 DEF Reload
  <2>2. screen'.ticketResult = 0 /\ screen'.data = 0
    BY <2>1 DEF FreshScreen
  <2> QED
    BY <1>0, <2>1, <2>2, TicketsStay
<1>12. CASE UNCHANGED vars \/ TableMoves
  BY <1>1, <1>12 DEF vars, dashboard, TableMoves, OthersSubmit, Purge, SetStatus, TableStep
<1>13. CASE OpenForm \/ Edit \/ CloseForm
  <2>1. UNCHANGED <<reports, table, page, shown, screen, tickets, dashboard, reloads>>
    BY <1>0, <1>13, EditType
  <2> QED
    BY <1>1, <2>1 DEF dashboard
<1> QED
  BY <1>2, <1>3, <1>4, <1>5, <1>6, <1>7, <1>8, <1>9, <1>10, <1>11, <1>12, <1>13
     DEF Next, TableMoves

----------------------------------------------------------------------------
(* The screen of a page load's first submission                            *)

\* A step of the ticker keeps the screen about its submission.
LEMMA TickKeepsFirst ==
  ASSUME TypeOK, NEW n \in DOMAIN reports, ScreenOf(n),
         NEW stage \in Stages, Tick(stage)
  PROVE  ScreenOf(n)'
<1> DEFINE s == [screen EXCEPT !.stage = stage]
<1>1. /\ s \in Screen /\ s.data = screen.data /\ s.ticketResult = screen.ticketResult
      /\ s.error = screen.error /\ s.isApiReady = screen.isApiReady
      /\ s.status = screen.status /\ s.failedStepId = screen.failedStepId
  BY DEF TypeOK, Screen
<1>2. screen' = AfterTick(s) /\ UNCHANGED <<reports, shown>>
  BY DEF Tick
<1> HIDE DEF s
<1>3. CASE s.error # None
  <2>1. screen' = Stopped(FailsAt(s, IF s.error = "evidence" THEN 2 ELSE 6))
    BY <1>2, <1>3 DEF AfterTick
  <2>2. /\ screen'.data = s.data /\ screen'.error = s.error /\ screen'.isApiReady = s.isApiReady
        /\ screen'.status = "failed"
        /\ screen'.failedStepId = IF s.error = "evidence" THEN 2 ELSE 6
    BY <1>1, <2>1 DEF Stopped, FailsAt, Screen
  <2> QED
    BY <1>1, <1>2, <1>3, <2>2 DEF ScreenOf
<1>4. CASE s.error = None /\ s.stage = LastStage /\ s.data # 0
  <2>1. screen' = Stopped(Succeeds(s))
    BY <1>2, <1>4 DEF AfterTick
  <2>2. /\ screen'.data = s.data /\ screen'.error = s.error /\ screen'.isApiReady = s.isApiReady
        /\ screen'.status = "success" /\ screen'.ticketResult = s.data
    BY <1>1, <2>1 DEF Stopped, Succeeds, Screen
  <2> QED
    BY <1>1, <1>2, <1>4, <2>2 DEF ScreenOf
<1>5. CASE s.error = None /\ ~(s.stage = LastStage /\ s.data # 0)
  <2>1. screen' = s
    BY <1>2, <1>5 DEF AfterTick
  <2> QED
    BY <1>1, <1>2, <2>1 DEF ScreenOf
<1> QED
  BY <1>3, <1>4, <1>5

\* So does the answer for it.
LEMMA SettleKeepsFirst ==
  ASSUME TypeOK, NEW n \in DOMAIN reports, page = {n}, ScreenOf(n), Settle(n)
  PROVE  ScreenOf(n)'
<1>1. /\ reports[n] \in Report /\ reports[n].at = "served" /\ reports'[n].at = "settled"
      /\ reports'[n].outcome = reports[n].outcome
  <2>1. /\ reports[n] \in Report /\ reports[n].at = "served"
        /\ reports'[n] = [reports[n] EXCEPT !.at = "settled"]
    BY SettleEffect
  <2> QED
    BY <2>1 DEF Report
<1>2. shown' = shown /\ screen.data = 0 /\ screen.error = None
  BY <1>1 DEF ScreenOf, Settle
<1>3. screen \in Screen
  BY DEF TypeOK
<1>4. CASE reports[n].outcome = "ok"
  <2>1. screen' = [screen EXCEPT !.data = n, !.isApiReady = TRUE]
    BY <1>4 DEF Settle
  <2>2. /\ screen'.data = n /\ screen'.error = None /\ screen'.status = screen.status
    BY <1>2, <1>3, <2>1 DEF Screen
  <2>3. n # 0
    BY LenProperties DEF TypeOK
  <2>4. screen.status # "success" /\ screen.status # "failed"
    BY <1>2 DEF ScreenOf
  <2> QED
    BY <1>1, <1>2, <1>4, <2>2, <2>3, <2>4 DEF ScreenOf
<1>5. CASE reports[n].outcome # "ok"
  <2>1. screen' = [screen EXCEPT !.error = reports[n].outcome]
    BY <1>5 DEF Settle
  <2>2. /\ screen'.data = 0 /\ screen'.error = reports[n].outcome
        /\ screen'.status = screen.status /\ screen'.isApiReady = screen.isApiReady
    BY <1>2, <1>3, <2>1 DEF Screen
  <2>4. screen.status # "success" /\ screen.status # "failed" /\ ~screen.isApiReady
    BY <1>2 DEF ScreenOf
  <2> QED
    BY <1>1, <1>2, <1>5, <2>2, <2>4 DEF ScreenOf
<1> QED
  BY <1>4, <1>5

\* Every step does.
LEMMA ScreenStep ==
  SubmissionInv /\ [Next]_vars => ScreenUntouched' /\ ScreenOfFirst' /\ ShownOfPage'
<1> SUFFICES ASSUME SubmissionInv, [Next]_vars
             PROVE  ScreenUntouched' /\ ScreenOfFirst' /\ ShownOfPage'
  OBVIOUS
<1>0. TypeOK /\ ScreenUntouched /\ ScreenOfFirst /\ ShownOfPage /\ screen \in Screen
  BY DEF SubmissionInv, TypeOK
<1>1. ASSUME UNCHANGED <<screen, shown, page, reports>>
      PROVE  ScreenUntouched' /\ ScreenOfFirst' /\ ShownOfPage'
  BY <1>0, <1>1 DEF ScreenUntouched, ScreenOfFirst, ScreenOf, ShownOfPage
<1>2. CASE Submit
  <2> DEFINE k == Len(reports')
  <2>1. /\ k \notin page /\ DOMAIN reports' = DOMAIN reports \cup {k}
        /\ reports'[k].at = "sent"
    BY <1>0, <1>2, SubmitEffect DEF TypeOK
  <2>2. page' = page \cup {k} /\ shown' = k /\ screen' = [screen EXCEPT !.ticking = TRUE]
    BY <1>2 DEF Submit
  <2> HIDE DEF k
  <2>3. ASSUME NEW n \in DOMAIN reports', page' = {n} PROVE ScreenOf(n)'
    <3>1. n = k /\ page = {}
      BY <2>1, <2>2, <2>3
    <3>2. screen = FreshScreen
      BY <1>0, <3>1 DEF ScreenUntouched
    <3>3. /\ screen'.data = 0 /\ screen'.error = None /\ ~screen'.isApiReady
          /\ screen'.status = "in_progress"
      BY <2>2, <3>2 DEF FreshScreen
    <3> QED
      BY <2>1, <2>2, <3>1, <3>3 DEF ScreenOf
  <2> QED
    BY <2>2, <2>3 DEF ScreenUntouched, ScreenOfFirst, ShownOfPage
<1>3. ASSUME NEW m, Serve(m)
      PROVE  ScreenUntouched' /\ ScreenOfFirst' /\ ShownOfPage'
  <2>1. reports[m].at = "sent" /\ DOMAIN reports' = DOMAIN reports
    BY <1>0, <1>3, ServeEffect
  <2>2. UNCHANGED <<screen, shown, page>>
    BY <1>3 DEF Serve
  <2>3. ASSUME NEW n \in DOMAIN reports', page' = {n} PROVE ScreenOf(n)'
    <3>1. ScreenOf(n) /\ n \in DOMAIN reports
      BY <1>0, <2>1, <2>2, <2>3 DEF ScreenOfFirst
    <3>2. CASE n = m
      <4>1. screen.data = 0 /\ screen.error = None
        BY <2>1, <3>1, <3>2 DEF ScreenOf
      <4> QED
        BY <2>2, <3>1, <4>1 DEF ScreenOf
    <3>3. CASE n # m
      <4>1. reports'[n] = reports[n]
        BY <1>0, <1>3, <3>1, <3>3, ServeEffect
      <4> QED
        BY <2>2, <3>1, <4>1 DEF ScreenOf
    <3> QED
      BY <3>2, <3>3
  <2> QED
    BY <1>0, <2>2, <2>3 DEF ScreenUntouched, ScreenOfFirst, ShownOfPage
<1>4. ASSUME NEW m, Settle(m)
      PROVE  ScreenUntouched' /\ ScreenOfFirst' /\ ShownOfPage'
  <2>1. DOMAIN reports' = DOMAIN reports
    BY <1>0, <1>4, SettleEffect
  <2>2. UNCHANGED <<shown, page>>
    BY <1>4 DEF Settle
  <2>3. ASSUME NEW n \in DOMAIN reports', page' = {n} PROVE ScreenOf(n)'
    <3>1. n = m /\ ScreenOf(n) /\ page = {n} /\ n \in DOMAIN reports
      BY <1>0, <1>4, <2>1, <2>2, <2>3 DEF ScreenOfFirst, Settle
    <3> QED
      BY <1>0, <1>4, <3>1, SettleKeepsFirst
  <2>4. m \in page
    BY <1>4 DEF Settle
  <2> QED
    BY <1>0, <2>2, <2>3, <2>4 DEF ScreenUntouched, ScreenOfFirst, ShownOfPage
<1>5. ASSUME UNCHANGED <<reports, page>>, shown # 0, shown' \in {0, shown},
             \A n \in DOMAIN reports : ScreenOf(n) => ScreenOf(n)'
      PROVE  ScreenUntouched' /\ ScreenOfFirst' /\ ShownOfPage'
  BY <1>0, <1>5 DEF ScreenUntouched, ScreenOfFirst, ShownOfPage
<1>6. ASSUME NEW stage \in Stages, Tick(stage)
      PROVE  ScreenUntouched' /\ ScreenOfFirst' /\ ShownOfPage'
  <2>1. UNCHANGED <<reports, page, shown>> /\ shown # 0
    BY <1>6 DEF Tick
  <2> QED
    BY <1>0, <1>5, <1>6, <2>1, TickKeepsFirst
<1>7. CASE FastTrack
  <2>1. /\ screen'.data = screen.data /\ screen'.error = screen.error
        /\ screen'.isApiReady = screen.isApiReady /\ screen'.status = "success"
        /\ screen'.ticketResult = screen.data
    BY <1>0, <1>7 DEF FastTrack, Succeeds, Screen
  <2>2. UNCHANGED <<reports, page, shown>> /\ shown # 0 /\ screen.isApiReady
    BY <1>7 DEF FastTrack, FastTrackOffered
  <2>3. ASSUME NEW n, ScreenOf(n) PROVE ScreenOf(n)'
    BY <2>1, <2>2, <2>3 DEF ScreenOf
  <2> QED
    BY <1>5, <2>2, <2>3
<1>8. CASE HandleClose \/ HandleViewDetail \/ ReturnToEdit
  <2>1. UNCHANGED <<reports, page>> /\ shown # 0 /\ shown' = 0 /\ screen' = Stopped(screen)
    BY <1>8 DEF HandleClose, HandleViewDetail, ReturnToEdit, Leave
  <2>2. /\ screen'.data = screen.data /\ screen'.error = screen.error
        /\ screen'.isApiReady = screen.isApiReady /\ screen'.status = screen.status
        /\ screen'.ticketResult = screen.ticketResult
        /\ screen'.failedStepId = screen.failedStepId
    BY <1>0, <2>1 DEF Stopped, Screen
  <2>3. ASSUME NEW n, ScreenOf(n) PROVE ScreenOf(n)'
    BY <2>1, <2>2, <2>3 DEF ScreenOf
  <2> QED
    BY <1>5, <2>1, <2>3
<1>9. CASE Reload
  <2>1. page' = {} /\ screen' = FreshScreen /\ shown' = 0
    BY <1>9 DEF Reload
  <2> QED
    BY <2>1 DEF ScreenUntouched, ScreenOfFirst, ShownOfPage, FreshScreen
<1>10. CASE ReadList \/ CloseDetail \/ \E n \in Numbers : OpenDetail(n)
  BY <1>1, <1>10 DEF ReadList, CloseDetail, OpenDetail
<1>11. CASE UNCHANGED vars \/ TableMoves
  BY <1>1, <1>11 DEF vars, TableMoves, OthersSubmit, Purge, SetStatus, TableStep
<1>12. CASE OpenForm \/ Edit \/ CloseForm
  BY <1>0, <1>1, <1>12, EditType
<1> QED
  BY <1>2, <1>3, <1>4, <1>6, <1>7, <1>8, <1>9, <1>10, <1>11, <1>12 DEF Next, TableMoves

----------------------------------------------------------------------------
(* The theorems                                                            *)

\* The invariant holds before the first report.
LEMMA InitStep == Init => SubmissionInv
<1> SUFFICES ASSUME Init PROVE SubmissionInv
  OBVIOUS
<1>1. /\ form = Closed /\ reports = <<>> /\ table = <<>> /\ page = {} /\ shown = 0 /\ screen = FreshScreen
      /\ tickets = <<>> /\ listed = {} /\ ticketIds = {} /\ opened = 0 /\ reloads = 0
  BY DEF Init
<1>2. DOMAIN reports = {} /\ DOMAIN table = {}
  BY <1>1
<1>3. Closed \in Form /\ 0 \in Numbers /\ 0 \in 0..MaxReloads /\ 0 <= MaxReports
  BY SubmissionAssumption DEF Closed, Form, Numbers
<1>4. FreshScreen \in Screen
  BY SubmissionAssumption DEF FreshScreen, Screen, Stages, Numbers
<1>5. /\ reports \in Seq(Report) /\ Len(reports) = 0 /\ tickets \in Seq(DOMAIN reports)
      /\ table \in Seq(Row)
  BY <1>1, EmptySeq
<1>6. TypeOK
  BY <1>1, <1>3, <1>4, <1>5 DEF TypeOK
<1>7. screen.ticketResult = 0 /\ screen.data = 0
  BY <1>1 DEF FreshScreen
<1>8. ReportsTrue /\ TableTrue /\ TicketsHeld
  BY <1>1, <1>2, <1>7 DEF ReportsTrue, TableTrue, TicketsHeld
<1> QED
  BY <1>1, <1>2, <1>6, <1>8 DEF SubmissionInv, ScreenUntouched, ScreenOfFirst, ShownOfPage

\* It holds throughout.
THEOREM SubmissionInvariant == Spec => []SubmissionInv
<1>1. SubmissionInv /\ [Next]_vars => SubmissionInv'
  BY TypeStep, LosesNothing, TableStays, TicketsStep, ScreenStep DEF SubmissionInv
<1> QED
  BY <1>1, InitStep, PTL DEF Spec

\* Form, screen, tickets and list have their types.
THEOREM SubmissionTypeCorrect == Spec => []TypeOK
<1>1. SubmissionInv => TypeOK
  BY DEF SubmissionInv
<1> QED
  BY <1>1, SubmissionInvariant, PTL

\* A ticket the screen presents or opens is stored, and remembered by the
\* browser, through any number of submissions and page loads
\* (IssueProcessingScreen.jsx:45-62, 153-160).
THEOREM TicketsAreKept == Spec => []TicketIsKept
<1>1. SubmissionInv => TicketIsKept
  BY DEF SubmissionInv, TicketsHeld, Kept, TicketIsKept
<1> QED
  BY <1>1, SubmissionInvariant, PTL

\* The verdict on a page load's first submission is the gateway's, whatever
\* the ticker, the answer and the button do (IssueProcessingScreen.jsx:72-146).
THEOREM VerdictOfFirst == Spec => []VerdictIsTrue
<1>1. ASSUME SubmissionInv, shown # 0, page = {shown}
      PROVE  LET r == reports[shown]
             IN /\ screen.status = "success" =>
                     r.at = "settled" /\ r.outcome = "ok" /\ screen.ticketResult = shown
                /\ screen.status = "failed" =>
                     /\ r.at = "settled" /\ r.outcome # "ok"
                     /\ screen.failedStepId = IF r.outcome = "evidence" THEN 2 ELSE 6
  <2>1. shown \in DOMAIN reports
    BY <1>1 DEF SubmissionInv, TypeOK
  <2>2. ScreenOf(shown)
    BY <1>1, <2>1 DEF SubmissionInv, ScreenOfFirst
  <2> QED
    BY <2>2 DEF ScreenOf
<1>2. SubmissionInv => VerdictIsTrue
  BY <1>1 DEF VerdictIsTrue
<1> QED
  BY <1>2, SubmissionInvariant, PTL
=============================================================================
