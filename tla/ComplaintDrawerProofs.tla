----------------------- MODULE ComplaintDrawerProofs -----------------------
(***************************************************************************)
(* Theorems of ComplaintDrawer, for any complaints and statuses, any       *)
(* number of requests in flight and any bounds.                            *)
(***************************************************************************)
EXTENDS ComplaintDrawer, SequenceTheorems, TLAPS

----------------------------------------------------------------------------
(* The inductive invariant                                                 *)

IsStored(n) == \E i \in Subjects : HasNote(i, n)

\* A handler that runs is about a complaint; only a department has notes, and
\* it neither votes nor escalates.
JobOfRole ==
  /\ job.at # "none" => job.of # Nobody /\ job.asked # Nobody
  /\ job.at \in {"vote", "escalate"} => role # "dept"
  /\ role # "dept" => note = NoNote /\ job.note = NoNote

\* Notes are numbered by the edits that typed them.
NotesNumbered ==
  /\ note.n <= edits /\ job.note.n <= edits
  /\ \A i \in Subjects : \A m \in DOMAIN stored[i].notes : stored[i].notes[m].n <= edits

\* After its update the note of a save is stored.
NoteWritten ==
  job.at \in {"upload", "refetch", "refetching", "done"} /\ job.note # NoNote
    => HasNote(job.of, job.note)

\* While no call failed, a note that is still to be sent is not stored.
NotesUnsent ==
  /\ \A i \in Subjects : \A m, n \in DOMAIN stored[i].notes :
       stored[i].notes[m] = stored[i].notes[n] => m = n
  /\ job.at \in {"none", "update"} /\ note # NoNote => ~IsStored(note)
  /\ job.at = "update" /\ job.note # NoNote => ~IsStored(job.note)

\* While nothing was carried over, a note belongs to the complaint shown, that
\* of a handler to the handler's.
NotesOfShown ==
  /\ note # NoNote => selected # Nobody /\ note.of = data.of
  /\ job.note # NoNote => job.note.of = job.of
  /\ \A i \in Subjects : \A m \in DOMAIN stored[i].notes : stored[i].notes[m].of = i

DrawerInv ==
  /\ TypeOK /\ JobOfRole /\ NotesNumbered /\ NoteWritten
  /\ faults = 0 => NotesUnsent
  /\ ~carried => NotesOfShown

----------------------------------------------------------------------------
(* The hook                                                                *)

\* A fetch leaves the data alone, unless it is for nothing.
LEMMA FetchForEffect ==
  ASSUME TypeOK, NEW s \in Slots, NEW id \in Asked, NEW initial \in BOOLEAN,
         FetchFor(s, id, initial)
  PROVE  /\ HookTypeOK' /\ since' \in [Slots -> Nat]
         /\ IF id = Nobody THEN data' = Empty ELSE data' = data
<1>0. /\ data \in Shown /\ loading \in BOOLEAN /\ flight \in [Slots -> Fetch]
      /\ since \in [Slots -> Nat] /\ stored \in [Subjects -> Complaint]
  BY DEF TypeOK, HookTypeOK
<1>1. CASE id = Nobody
  <2>1. data' = Empty /\ UNCHANGED <<loading, flight, since>>
    BY <1>1 DEF FetchFor
  <2>2. Empty \in Shown
    BY DEF Empty, Shown, Asked
  <2> QED
    BY <1>0, <1>1, <2>1, <2>2 DEF HookTypeOK
<1>2. CASE id # Nobody
  <2>1. /\ Begin(s, id, initial) /\ since' = [since EXCEPT ![s] = stored[id].version]
    BY <1>2 DEF FetchFor
  <2>2. stored[id].version \in Nat
    BY <1>0, <1>2 DEF Asked, Complaint
  <2>3. [busy |-> TRUE, of |-> id, initial |-> initial] \in Fetch
    BY DEF Fetch
  <2>4. flight' \in [Slots -> Fetch] /\ data' = data
    BY <1>0, <2>1, <2>3 DEF Begin
  <2>5. loading' \in BOOLEAN
    BY <2>1 DEF Begin
  <2>6. since' \in [Slots -> Nat]
    BY <1>0, <2>1, <2>2
  <2> QED
    BY <1>0, <1>2, <2>4, <2>5, <2>6 DEF HookTypeOK
<1> QED
  BY <1>1, <1>2

\* A fetch ends, with what the gateway read or without.
LEMMA EndsEffect ==
  ASSUME TypeOK, NEW s \in Slots, Receive(s) \/ Break(s)
  PROVE  /\ HookTypeOK' /\ since' \in [Slots -> Nat]
         /\ carried' \in BOOLEAN
         /\ ~carried' => ~carried /\ (data'.of = data.of \/ note = NoNote)
<1>0. /\ data \in Shown /\ loading \in BOOLEAN /\ flight \in [Slots -> Fetch]
      /\ since \in [Slots -> Nat] /\ stored \in [Subjects -> Complaint] /\ carried \in BOOLEAN
  BY DEF TypeOK, HookTypeOK
<1>1. /\ Ends(s) /\ since' = [since EXCEPT ![s] = 0]
  BY DEF Receive, Break, Answer, Fails
<1>2. Free \in Fetch
  BY DEF Free, Fetch, Asked
<1>3. flight' \in [Slots -> Fetch] /\ since' \in [Slots -> Nat]
  BY <1>0, <1>1, <1>2 DEF Ends
<1>4. loading' \in BOOLEAN
  BY <1>1 DEF Ends
<1>5. CASE Receive(s)
  <2>1. PICK version \in since[s]..stored[flight[s].of].version : Answer(s, version)
    BY <1>5 DEF Receive
  <2>2. flight[s].of \in Asked
    BY <1>0 DEF Fetch
  <2>3. data' \in Shown
    <3>1. CASE flight[s].of = Nobody
      BY <2>1, <3>1 DEF Answer, Empty, Shown, Asked
    <3>2. CASE flight[s].of # Nobody
      <4>1. since[s] \in Nat /\ stored[flight[s].of].version \in Nat
        BY <1>0, <2>2, <3>2 DEF Asked, Complaint
      <4>2. version \in Nat
        BY <2>1, <4>1
      <4> QED
        BY <2>1, <2>2, <3>2, <4>2 DEF Answer, Shown
    <3> QED
      BY <3>1, <3>2
  <2>4. carried' = (carried \/ (data.of # data'.of /\ (override # None \/ note # NoNote \/ files)))
    BY <1>5 DEF Receive
  <2> QED
    BY <1>3, <1>4, <2>3, <2>4 DEF HookTypeOK
<1>6. CASE Break(s)
  <2>1. UNCHANGED <<data, carried>>
    BY <1>6 DEF Break, Fails
  <2> QED
    BY <1>0, <1>3, <1>4, <2>1 DEF HookTypeOK
<1> QED
  BY <1>5, <1>6

\* The handler that awaited it goes on where it was.
LEMMA ResumedEffect ==
  ASSUME TypeOK, NEW s \in Slots
  PROVE  /\ Resumed(s) \in Job
         /\ Resumed(s).of = job.of /\ Resumed(s).asked = job.asked /\ Resumed(s).note = job.note
         /\ \/ Resumed(s).at = job.at
            \/ job.at = "refetching" /\ Resumed(s).at = "done"
  BY DEF Resumed, TypeOK, Job

----------------------------------------------------------------------------
(* The gateway                                                             *)

\* A change of one complaint adds to its notes.
LEMMA StoreEffect ==
  ASSUME TypeOK, NEW i \in Subjects, NEW status \in Statuses, NEW added \in Seq(Note),
         Store(i, status, added)
  PROVE  /\ stored' \in [Subjects -> Complaint]
         /\ stored'[i].notes = stored[i].notes \o added
         /\ \A j \in Subjects \ {i} : stored'[j] = stored[j]
<1> DEFINE new == [version |-> stored[i].version + 1, status |-> status,
                   notes |-> stored[i].notes \o added]
<1>1. stored \in [Subjects -> Complaint] /\ stored[i] \in Complaint
  BY DEF TypeOK
<1>2. stored' = [stored EXCEPT ![i] = new]
  BY DEF Store
<1>3. stored[i].notes \o added \in Seq(Note)
  BY <1>1, ConcatProperties DEF Complaint
<1>4. new \in Complaint /\ new.notes = stored[i].notes \o added
  BY <1>1, <1>3 DEF Complaint
<1> HIDE DEF new
<1> QED
  BY <1>1, <1>2, <1>4

\* Nothing of the notes changes when nothing is added.
LEMMA NothingAdded ==
  ASSUME TypeOK, NEW i \in Subjects, NEW status \in Statuses, Store(i, status, <<>>)
  PROVE  /\ stored' \in [Subjects -> Complaint]
         /\ \A j \in Subjects : stored'[j].notes = stored[j].notes
<1>1. <<>> \in Seq(Note)
  OBVIOUS
<1>2. /\ stored' \in [Subjects -> Complaint]
      /\ stored'[i].notes = stored[i].notes \o <<>>
      /\ \A j \in Subjects \ {i} : stored'[j] = stored[j]
  BY <1>1, StoreEffect
<1>3. stored[i].notes \in Seq(Note)
  BY DEF TypeOK, Complaint
<1>4. stored[i].notes \o <<>> = stored[i].notes
  BY <1>3, ConcatEmptySeq
<1> QED
  BY <1>2, <1>4

\* A note that is added is the last.
LEMMA OneAdded ==
  ASSUME TypeOK, NEW i \in Subjects, NEW status \in Statuses, NEW n \in Note,
         Store(i, status, <<n>>)
  PROVE  /\ stored' \in [Subjects -> Complaint]
         /\ \E last \in Nat :
              /\ last \notin DOMAIN stored[i].notes
              /\ DOMAIN stored'[i].notes = DOMAIN stored[i].notes \cup {last}
              /\ stored'[i].notes[last] = n
              /\ \A m \in DOMAIN stored[i].notes : stored'[i].notes[m] = stored[i].notes[m]
         /\ \A j \in Subjects \ {i} : stored'[j] = stored[j]
<1>1. <<n>> \in Seq(Note) /\ Len(<<n>>) = 1 /\ <<n>>[1] = n
  OBVIOUS
<1>2. /\ stored' \in [Subjects -> Complaint]
      /\ stored'[i].notes = stored[i].notes \o <<n>>
      /\ \A j \in Subjects \ {i} : stored'[j] = stored[j]
  BY <1>1, StoreEffect
<1>3. stored[i].notes \in Seq(Note) /\ stored'[i].notes \in Seq(Note)
  BY <1>2 DEF TypeOK, Complaint
<1> DEFINE last == Len(stored[i].notes) + 1
<1>4. /\ Len(stored'[i].notes) = last /\ Len(stored[i].notes) \in Nat
      /\ stored'[i].notes[last] = n
      /\ \A m \in 1..Len(stored[i].notes) : stored'[i].notes[m] = stored[i].notes[m]
  <2>1. stored'[i].notes = Append(stored[i].notes, n)
    BY <1>2, <1>3, AppendIsConcat
  <2> QED
    BY <1>3, <2>1, AppendProperties
<1>5. DOMAIN stored[i].notes = 1..Len(stored[i].notes) /\ DOMAIN stored'[i].notes = 1..last
  BY <1>3, <1>4, LenProperties
<1>6. /\ last \in Nat /\ last \notin DOMAIN stored[i].notes
      /\ DOMAIN stored'[i].notes = DOMAIN stored[i].notes \cup {last}
  BY <1>4, <1>5
<1> HIDE DEF last
<1>7. \A m \in DOMAIN stored[i].notes : stored'[i].notes[m] = stored[i].notes[m]
  BY <1>4, <1>5
<1> QED
  BY <1>2, <1>4, <1>6, <1>7

----------------------------------------------------------------------------
(* The steps of the hook and the drawer                                    *)

\* The numbers of the notes.
LEMMA NumbersOfNotes ==
  ASSUME TypeOK
  PROVE  /\ edits \in Nat /\ note.n \in Nat /\ job.note.n \in Nat
         /\ \A i \in Subjects : \A m \in DOMAIN stored[i].notes : stored[i].notes[m].n \in Nat
<1>1. ASSUME NEW i \in Subjects, NEW m \in DOMAIN stored[i].notes
      PROVE  stored[i].notes[m].n \in Nat
  <2>1. stored[i].notes \in Seq(Note)
    BY DEF TypeOK, Complaint
  <2>2. stored[i].notes[m] \in Note
    BY <2>1, LenProperties, ElementOfSeq
  <2> QED
    BY <2>2, DrawerAssumption DEF Note
<1> QED
  BY <1>1, DrawerAssumption DEF TypeOK, Job, Note

\* A step that changes no note and sends none.
LEMMA NotesStay ==
  ASSUME DrawerInv, TypeOK',
         UNCHANGED <<role, note, stored>>, edits <= edits',
         job'.of = job.of /\ job'.asked = job.asked /\ job'.note = job.note,
         \/ job'.at = job.at
         \/ job.at \in {"refetch", "refetching"} /\ job'.at \in {"refetching", "done"},
         faults' = 0 => faults = 0,
         ~carried' => ~carried /\ (note = NoNote \/ (selected' # Nobody /\ data'.of = data.of))
  PROVE  DrawerInv'
<1>1. /\ JobOfRole /\ NotesNumbered /\ NoteWritten
      /\ faults = 0 => NotesUnsent
      /\ ~carried => NotesOfShown
  BY DEF DrawerInv
<1>2. JobOfRole'
  BY <1>1 DEF JobOfRole
<1>3. NotesNumbered'
  <2>1. /\ edits \in Nat /\ edits' \in Nat /\ note.n \in Nat /\ job.note.n \in Nat
        /\ \A i \in Subjects : \A m \in DOMAIN stored[i].notes : stored[i].notes[m].n \in Nat
    BY NumbersOfNotes, DrawerAssumption DEF DrawerInv, TypeOK
  <2> QED
    BY <1>1, <2>1 DEF NotesNumbered
<1>4. NoteWritten'
  BY <1>1 DEF NoteWritten, HasNote
<1>5. faults' = 0 => NotesUnsent'
  BY <1>1 DEF NotesUnsent, IsStored, HasNote
<1>6. ~carried' => NotesOfShown'
  BY <1>1 DEF NotesOfShown
<1> QED
  BY <1>2, <1>3, <1>4, <1>5, <1>6 DEF DrawerInv

\* A fetch begins, by the interval, a click, or the handler's refetch.
LEMMA FetchStep ==
  ASSUME DrawerInv, NEW s \in Slots,
         Refresh(s) \/ Refetch(s) \/ \E i \in Subjects : Open(s, i)
  PROVE  DrawerInv'
<1>0. /\ TypeOK /\ selected \in Asked /\ job \in Job /\ Nobody \notin Subjects
      /\ ~carried => NotesOfShown
  BY ApiCallAssumption DEF DrawerInv, TypeOK
<1>1. CASE Refresh(s)
  <2>1. /\ FetchFor(s, selected, FALSE)
        /\ UNCHANGED <<role, selected, override, note, files, job, stored, edits, faults, carried>>
    BY <1>1 DEF Refresh, form, counters
  <2>2. /\ HookTypeOK' /\ since' \in [Slots -> Nat]
        /\ IF selected = Nobody THEN data' = Empty ELSE data' = data
    BY <1>0, <2>1, FetchForEffect
  <2>3. TypeOK'
    BY <1>0, <2>1, <2>2 DEF TypeOK
  <2>4. ~carried' => ~carried /\ (note = NoNote \/ (selected' # Nobody /\ data'.of = data.of))
    BY <1>0, <2>1, <2>2 DEF NotesOfShown
  <2> QED
    BY <1>0, <2>1, <2>3, <2>4, NumbersOfNotes, NotesStay
<1>2. CASE Refetch(s)
  <2>1. /\ FetchFor(s, job.asked, TRUE) /\ job.at = "refetch"
        /\ job' = [job EXCEPT !.at = "refetching", !.slot = s]
        /\ UNCHANGED <<role, selected, override, note, files, stored, edits, faults, carried>>
    BY <1>2 DEF Refetch, form, counters
  <2>2. job.asked \in Asked /\ job.asked # Nobody
    BY <1>0, <2>1 DEF Job, DrawerInv, JobOfRole
  <2>3. HookTypeOK' /\ since' \in [Slots -> Nat] /\ data' = data
    BY <1>0, <2>1, <2>2, FetchForEffect
  <2>4. /\ job' \in Job /\ job'.of = job.of /\ job'.asked = job.asked /\ job'.note = job.note
        /\ job'.at = "refetching"
    BY <1>0, <2>1 DEF Job
  <2>5. TypeOK'
    BY <1>0, <2>1, <2>3, <2>4 DEF TypeOK
  <2>6. ~carried' => ~carried /\ (note = NoNote \/ (selected' # Nobody /\ data'.of = data.of))
    BY <1>0, <2>1, <2>3 DEF NotesOfShown
  <2> QED
    BY <1>0, <2>1, <2>4, <2>5, <2>6, NumbersOfNotes, NotesStay
<1>3. ASSUME NEW i \in Subjects, Open(s, i) PROVE DrawerInv'
  <2>1. /\ selected = Nobody /\ selected' = i /\ FetchFor(s, i, FALSE)
        /\ UNCHANGED <<role, override, note, files, job, stored, edits, faults, carried>>
    BY <1>3 DEF Open, form, counters
  <2>2. i \in Asked /\ i # Nobody
    BY <1>0 DEF Asked
  <2>3. HookTypeOK' /\ since' \in [Slots -> Nat] /\ data' = data
    BY <1>0, <2>1, <2>2, FetchForEffect
  <2>4. TypeOK'
    BY <1>0, <2>1, <2>2, <2>3 DEF TypeOK
  <2>5. ~carried' => ~carried /\ (note = NoNote \/ (selected' # Nobody /\ data'.of = data.of))
    BY <1>0, <2>1 DEF NotesOfShown
  <2> QED
    BY <1>0, <2>1, <2>4, <2>5, NumbersOfNotes, NotesStay
<1> QED
  BY <1>1, <1>2, <1>3

\* A fetch ends, or the drawer closes.
LEMMA AnswerStep ==
  ASSUME DrawerInv, Close \/ \E s \in Slots : Receive(s) \/ Break(s)
  PROVE  DrawerInv'
<1>0. /\ TypeOK /\ selected \in Asked /\ job \in Job /\ faults \in Nat /\ MaxFaults \in Nat
      /\ carried \in BOOLEAN
      /\ ~carried => NotesOfShown
  BY DrawerAssumption DEF DrawerInv, TypeOK
<1>1. ASSUME NEW s \in Slots, Receive(s) \/ Break(s) PROVE DrawerInv'
  <2>1. /\ HookTypeOK' /\ since' \in [Slots -> Nat] /\ carried' \in BOOLEAN
        /\ ~carried' => ~carried /\ (data'.of = data.of \/ note = NoNote)
    BY <1>0, <1>1, EndsEffect
  <2>2. /\ job' = Resumed(s)
        /\ UNCHANGED <<role, selected, override, note, files, stored, edits>>
    BY <1>1 DEF Receive, Break, form, counters
  <2>3. faults' \in 0..MaxFaults /\ (faults' = 0 => faults = 0)
    <3>1. CASE Receive(s)
      BY <1>0, <3>1 DEF Receive, counters, TypeOK
    <3>2. CASE Break(s)
      BY <1>0, <3>2 DEF Break
    <3> QED
      BY <1>1, <3>1, <3>2
  <2>4. /\ job' \in Job
        /\ job'.of = job.of /\ job'.asked = job.asked /\ job'.note = job.note
        /\ \/ job'.at = job.at
           \/ job.at = "refetching" /\ job'.at = "done"
    BY <1>0, <2>2, ResumedEffect
  <2>5. TypeOK'
    BY <1>0, <2>1, <2>2, <2>3, <2>4 DEF TypeOK
  <2>6. ~carried' => ~carried /\ (note = NoNote \/ (selected' # Nobody /\ data'.of = data.of))
    BY <1>0, <2>1, <2>2 DEF NotesOfShown
  <2> QED
    BY <1>0, <2>2, <2>3, <2>4, <2>5, <2>6, NumbersOfNotes, NotesStay
<1>2. CASE Close
  <2>1. /\ selected' = Nobody /\ FetchFor(1, Nobody, FALSE)
        /\ UNCHANGED <<role, override, note, files, job, stored, edits, faults>>
    BY <1>2 DEF Close, form, counters
  <2>2. carried' = (carried \/ override # None \/ note # NoNote \/ files)
    BY <1>2 DEF Close
  <2>3. Nobody \in Asked /\ 1 \in Slots
    BY ApiCallAssumption DEF Asked
  <2>4. HookTypeOK' /\ since' \in [Slots -> Nat]
    BY <1>0, <2>1, <2>3, FetchForEffect
  <2>5. carried' \in BOOLEAN
    BY <1>0, <2>2 DEF TypeOK
  <2>6. TypeOK'
    BY <1>0, <2>1, <2>3, <2>4, <2>5 DEF TypeOK
  <2>7. ~carried' => ~carried /\ note = NoNote
    BY <2>2
  <2> QED
    BY <1>0, <2>1, <2>6, <2>7, NumbersOfNotes, NotesStay
<1> QED
  BY <1>1, <1>2

\* The fields change: a new note has a number of its own.
LEMMA FieldStep ==
  ASSUME DrawerInv,
         \/ TypeNote \/ ChooseFiles \/ Cancel
         \/ \E status \in Statuses \ {"Escalated"} : PickStatus(status)
  PROVE  DrawerInv'
<1>0. /\ TypeOK /\ JobOfRole /\ NotesNumbered /\ NoteWritten
      /\ edits \in Nat /\ MaxEdits \in Nat
  BY DrawerAssumption DEF DrawerInv, TypeOK
<1>00. /\ faults = 0 => NotesUnsent
       /\ ~carried => NotesOfShown
  BY DEF DrawerInv
<1>1. /\ selected # Nobody /\ data.of # Nobody /\ role = "dept"
      /\ UNCHANGED <<data, loading, flight, role, selected, job, stored, since, faults, carried>>
  BY DEF TypeNote, ChooseFiles, Cancel, PickStatus, Edit, Editable, Visible, hook, server,
     counters
<1>2. HookTypeOK'
  BY <1>0, <1>1 DEF TypeOK, HookTypeOK
<1>3. CASE ChooseFiles \/ \E status \in Statuses \ {"Escalated"} : PickStatus(status)
  <2>1. /\ override' \in Statuses \cup {None} /\ files' \in BOOLEAN /\ note' = note
        /\ edits < MaxEdits /\ edits' = edits + 1
    BY <1>0, <1>3 DEF ChooseFiles, PickStatus, Edit, TypeOK
  <2>2. TypeOK'
    BY <1>0, <1>1, <1>2, <2>1 DEF TypeOK
  <2>3. ~carried' => ~carried /\ (note = NoNote \/ (selected' # Nobody /\ data'.of = data.of))
    BY <1>1
  <2> QED
    BY <1>0, <1>1, <2>1, <2>2, <2>3, NotesStay
<1>4. CASE Cancel
  <2>1. override' = None /\ note' = NoNote /\ UNCHANGED <<files, edits>>
    BY <1>4 DEF Cancel, counters
  <2>2. NoNote \in Note /\ NoNote.n = 0
    BY <1>0 DEF NoNote, Note, Asked
  <2>3. TypeOK'
    BY <1>0, <1>1, <1>2, <2>1, <2>2 DEF TypeOK
  <2>4. JobOfRole'
    BY <1>0, <1>1, <2>1 DEF JobOfRole
  <2>5. NotesNumbered'
    BY <1>0, <1>1, <2>1, <2>2 DEF NotesNumbered
  <2>6. NoteWritten'
    BY <1>0, <1>1 DEF NoteWritten, HasNote
  <2>7. faults' = 0 => NotesUnsent'
    BY <1>00, <1>1, <2>1 DEF NotesUnsent, IsStored, HasNote
  <2>8. ~carried' => NotesOfShown'
    BY <1>00, <1>1, <2>1 DEF NotesOfShown
  <2> QED
    BY <2>3, <2>4, <2>5, <2>6, <2>7, <2>8 DEF DrawerInv
<1>5. CASE TypeNote
  <2>1. /\ note' = [of |-> data.of, n |-> edits + 1] /\ UNCHANGED <<override, files>>
        /\ edits < MaxEdits /\ edits' = edits + 1
    BY <1>5 DEF TypeNote, Edit
  <2>2. data.of \in Asked
    BY <1>0 DEF TypeOK, HookTypeOK, Shown
  <2>3. /\ edits' \in 0..MaxEdits
        /\ note' \in Note /\ note'.of = data.of /\ note'.n = edits + 1
    BY <1>0, <2>1, <2>2 DEF Note
  <2>4. TypeOK'
    BY <1>0, <1>1, <1>2, <2>1, <2>3 DEF TypeOK
  <2>5. JobOfRole'
    BY <1>0, <1>1 DEF JobOfRole
  <2>6. /\ job.note.n \in Nat
        /\ \A i \in Subjects : \A m \in DOMAIN stored[i].notes :
             stored[i].notes[m].n \in Nat /\ stored[i].notes[m].n <= edits
    BY <1>0, NumbersOfNotes DEF NotesNumbered
  <2>7. NotesNumbered'
    BY <1>0, <1>1, <2>1, <2>3, <2>6 DEF NotesNumbered
  <2>8. NoteWritten'
    BY <1>0, <1>1 DEF NoteWritten, HasNote
  <2>9. \A i \in Subjects : \A m \in DOMAIN stored[i].notes : stored[i].notes[m] # note'
    BY <1>0, <2>3, <2>6
  <2>10. faults' = 0 => NotesUnsent'
    BY <1>00, <1>1, <2>9 DEF NotesUnsent, IsStored, HasNote
  <2>11. ~carried' => NotesOfShown'
    BY <1>00, <1>1, <2>3 DEF NotesOfShown
  <2> QED
    BY <2>4, <2>5, <2>7, <2>8, <2>10, <2>11 DEF DrawerInv
<1> QED
  BY <1>3, <1>4, <1>5

----------------------------------------------------------------------------
(* The steps of the handlers                                               *)

\* A handler begins with the complaint and the fields that are shown.
LEMMA StartStep ==
  ASSUME DrawerInv, Vote \/ Save \/ Escalate
  PROVE  DrawerInv'
<1>0. /\ TypeOK /\ JobOfRole /\ NotesNumbered /\ data \in Shown
      /\ selected \in Asked /\ override \in Statuses \cup {None} /\ note \in Note
      /\ files \in BOOLEAN
  BY DEF DrawerInv, TypeOK, HookTypeOK
<1>00. /\ faults = 0 => NotesUnsent
       /\ ~carried => NotesOfShown
  BY DEF DrawerInv
<1>1. PICK at \in {"vote", "update", "escalate"} :
        Start(at) /\ (at \in {"vote", "escalate"} => role # "dept")
  BY DEF Vote, Save, Escalate
<1>2. /\ selected # Nobody /\ data.of # Nobody /\ job.at = "none"
      /\ job' = [at |-> at, of |-> data.of, asked |-> selected, status |-> override,
                 note |-> note, files |-> files, slot |-> 0]
      /\ UNCHANGED <<data, loading, flight, role, selected, override, note, files, stored, since,
                     edits, faults, carried>>
  BY <1>1 DEF Start, Visible, hook, form, server, counters
<1>3. job' \in Job
  <2>1. data.of \in Asked
    BY <1>0 DEF Shown
  <2> QED
    BY <1>0, <1>2, <2>1 DEF Job
<1>4. /\ job'.at = at /\ job'.of = data.of /\ job'.asked = selected /\ job'.note = note
  BY <1>2
<1>5. TypeOK'
  BY <1>0, <1>2, <1>3 DEF TypeOK, HookTypeOK
<1>6. JobOfRole'
  BY <1>0, <1>1, <1>2, <1>4 DEF JobOfRole
<1>7. NotesNumbered'
  BY <1>0, <1>2, <1>4 DEF NotesNumbered
<1>8. NoteWritten'
  BY <1>4 DEF NoteWritten
<1>9. faults' = 0 => NotesUnsent'
  BY <1>00, <1>2, <1>4 DEF NotesUnsent, IsStored, HasNote
<1>10. ~carried' => NotesOfShown'
  BY <1>00, <1>2, <1>4 DEF NotesOfShown
<1> QED
  BY <1>5, <1>6, <1>7, <1>8, <1>9, <1>10 DEF DrawerInv

\* A save that ends empties the note.
LEMMA FinishStep ==
  ASSUME DrawerInv, NEW s \in Slots, Finish(s)
  PROVE  DrawerInv'
<1>0. /\ TypeOK /\ JobOfRole /\ NotesNumbered /\ selected \in Asked
      /\ override \in Statuses \cup {None} /\ note \in Note /\ files \in BOOLEAN
  BY DEF DrawerInv, TypeOK
<1>00. /\ faults = 0 => NotesUnsent
       /\ ~carried => NotesOfShown
  BY DEF DrawerInv
<1>1. /\ FetchFor(s, selected, FALSE) /\ job' = NoJob
      /\ UNCHANGED <<role, selected, stored, edits, faults, carried>>
  BY DEF Finish, counters
<1>2. /\ override' = IF role = "admin" THEN "Escalated" ELSE override
      /\ note' = IF role = "dept" THEN NoNote ELSE note
      /\ files' = (files /\ role # "dept")
  BY DEF Finish
<1>3. note' = NoNote
  BY <1>0, <1>2 DEF JobOfRole
<1>4. HookTypeOK' /\ since' \in [Slots -> Nat]
  BY <1>0, <1>1, FetchForEffect
<1>5. /\ NoNote \in Note /\ NoNote.n = 0
      /\ NoJob.at = "none" /\ NoJob.note = NoNote
  BY DrawerAssumption DEF NoJob, NoNote, Note, Asked
<1>6. NoJob \in Job
  BY <1>5 DEF NoJob, Job, Asked
<1>7. override' \in Statuses \cup {None} /\ files' \in BOOLEAN
  BY <1>0, <1>2, DrawerAssumption
<1>8. TypeOK'
  BY <1>0, <1>1, <1>3, <1>4, <1>5, <1>6, <1>7 DEF TypeOK
<1>9. JobOfRole'
  BY <1>1, <1>3, <1>5 DEF JobOfRole
<1>10. NotesNumbered'
  BY <1>0, <1>1, <1>3, <1>5, NumbersOfNotes DEF NotesNumbered
<1>11. NoteWritten'
  BY <1>1, <1>5 DEF NoteWritten
<1>12. faults' = 0 => NotesUnsent'
  BY <1>00, <1>1, <1>3, <1>5 DEF NotesUnsent
<1>13. ~carried' => NotesOfShown'
  BY <1>00, <1>1, <1>3, <1>5 DEF NotesOfShown
<1> QED
  BY <1>8, <1>9, <1>10, <1>11, <1>12, <1>13 DEF DrawerInv

\* What a call does to the notes: nothing, or it stores that of the handler.
SameNotes == \A i \in Subjects : stored'[i].notes = stored[i].notes

NoteAdded ==
  /\ job.at = "update" /\ job.note # NoNote
  /\ \A i \in Subjects \ {job.of} : stored'[i] = stored[i]
  /\ \E last \in Nat :
       /\ last \notin DOMAIN stored[job.of].notes
       /\ DOMAIN stored'[job.of].notes = DOMAIN stored[job.of].notes \cup {last}
       /\ stored'[job.of].notes[last] = job.note
       /\ \A m \in DOMAIN stored[job.of].notes :
            stored'[job.of].notes[m] = stored[job.of].notes[m]

\* A call that works goes on; one that fails may have been handled.
LEMMA CallEffect ==
  ASSUME DrawerInv, VoteCall \/ EscalateCall \/ UploadCall \/ UpdateCall
  PROVE  /\ job.at \in {"vote", "escalate", "upload", "update"} /\ job.of \in Subjects
         /\ UNCHANGED <<data, loading, flight, role, selected, override, note, files, since, edits,
                        carried>>
         /\ stored' \in [Subjects -> Complaint]
         /\ SameNotes \/ NoteAdded
         /\ \/ /\ \E next \in {"upload", "refetch"} : job' = [job EXCEPT !.at = next]
               /\ UNCHANGED faults
               /\ job.at = "update" /\ job.note # NoNote => NoteAdded
               /\ job.at = "upload" => SameNotes
            \/ job' = NoJob /\ faults < MaxFaults /\ faults' = faults + 1
<1>0. TypeOK /\ job \in Job /\ stored \in [Subjects -> Complaint] /\ JobOfRole
  BY DEF DrawerInv, TypeOK
<1>1. /\ job.at \in {"vote", "escalate", "upload", "update"}
      /\ UNCHANGED <<data, loading, flight, role, selected, override, note, files, since, edits,
                     carried>>
  BY DEF VoteCall, EscalateCall, UploadCall, UpdateCall, Call, hook, form
<1>2. job.of \in Subjects
  BY <1>0, <1>1 DEF JobOfRole, Job, Asked
<1>3. Status \in Statuses /\ "Escalated" \in Statuses
  BY <1>0, <1>2, DrawerAssumption DEF Status, Complaint
<1>4. ASSUME NEW status \in Statuses, Store(job.of, status, <<>>)
      PROVE  stored' \in [Subjects -> Complaint] /\ SameNotes
  BY <1>0, <1>2, <1>4, NothingAdded DEF SameNotes
<1>5. UNCHANGED stored => stored' \in [Subjects -> Complaint] /\ SameNotes
  BY <1>0 DEF SameNotes
<1>6. CASE VoteCall \/ EscalateCall \/ UploadCall
  <2>1. \E status \in Statuses : \E at \in {"vote", "escalate", "upload"} :
          Call(at, Store(job.of, status, <<>>), "refetch")
    BY <1>3, <1>6 DEF VoteCall, EscalateCall, UploadCall
  <2>2. /\ stored' \in [Subjects -> Complaint] /\ SameNotes
        /\ job.at # "update"
    BY <1>4, <1>5, <2>1 DEF Call
  <2>3. \/ job' = [job EXCEPT !.at = "refetch"] /\ UNCHANGED faults
        \/ job' = NoJob /\ faults < MaxFaults /\ faults' = faults + 1
    BY <2>1 DEF Call
  <2> QED
    BY <1>1, <1>2, <2>2, <2>3
<1>7. CASE UpdateCall
  <2> DEFINE effect ==
               IF job.status = None /\ job.note = NoNote THEN UNCHANGED stored
               ELSE Store(job.of, IF job.status # None THEN job.status ELSE Status,
                          IF job.note # NoNote THEN <<job.note>> ELSE <<>>)
  <2>1. effect => /\ stored' \in [Subjects -> Complaint]
                  /\ SameNotes \/ NoteAdded
                  /\ job.note # NoNote => NoteAdded
    <3> SUFFICES ASSUME effect
                 PROVE  /\ stored' \in [Subjects -> Complaint]
                        /\ SameNotes \/ NoteAdded
                        /\ job.note # NoNote => NoteAdded
      OBVIOUS
    <3>1. job.status \in Statuses \cup {None} /\ job.note \in Note /\ job.at = "update"
      BY <1>0, <1>7 DEF Job, UpdateCall, Call
    <3>2. CASE job.status = None /\ job.note = NoNote
      BY <1>5, <3>2
    <3>3. CASE job.status # None /\ job.note = NoNote
      <4>1. Store(job.of, job.status, <<>>) /\ job.status \in Statuses
        BY <3>1, <3>3
      <4> QED
        BY <1>4, <3>3, <4>1
    <3>4. CASE job.note # NoNote
      <4>1. PICK status \in Statuses : Store(job.of, status, <<job.note>>)
        BY <1>3, <3>1, <3>4
      <4>2. stored' \in [Subjects -> Complaint] /\ NoteAdded
        BY <1>0, <1>2, <3>1, <3>4, <4>1, OneAdded DEF NoteAdded
      <4> QED
        BY <4>2
    <3> QED
      BY <3>2, <3>3, <3>4
  <2>2. Call("update", effect, IF job.files THEN "upload" ELSE "refetch")
    BY <1>7 DEF UpdateCall
  <2> HIDE DEF effect
  <2>3. \/ /\ effect /\ UNCHANGED faults
           /\ \E next \in {"upload", "refetch"} : job' = [job EXCEPT !.at = next]
        \/ /\ effect \/ UNCHANGED stored
           /\ job' = NoJob /\ faults < MaxFaults /\ faults' = faults + 1
    BY <2>2 DEF Call
  <2>4. job.at = "update"
    BY <2>2 DEF Call
  <2> QED
    BY <1>1, <1>2, <1>5, <2>1, <2>3, <2>4
<1> QED
  BY <1>6, <1>7

\* Calls keep the notes on their complaint, and apart.
LEMMA CallStep ==
  ASSUME DrawerInv, VoteCall \/ EscalateCall \/ UploadCall \/ UpdateCall
  PROVE  DrawerInv'
<1>0. /\ TypeOK /\ JobOfRole /\ NotesNumbered /\ NoteWritten /\ job \in Job
      /\ faults \in Nat /\ MaxFaults \in Nat
  BY DrawerAssumption DEF DrawerInv, TypeOK
<1>00. /\ faults = 0 => NotesUnsent
       /\ ~carried => NotesOfShown
  BY DEF DrawerInv
<1>1. /\ job.at \in {"vote", "escalate", "upload", "update"} /\ job.of \in Subjects
      /\ UNCHANGED <<data, loading, flight, role, selected, override, note, files, since, edits,
                     carried>>
      /\ stored' \in [Subjects -> Complaint]
      /\ SameNotes \/ NoteAdded
  BY CallEffect
<1> DEFINE works == /\ \E next \in {"upload", "refetch"} : job' = [job EXCEPT !.at = next]
                    /\ UNCHANGED faults
                    /\ job.at = "update" /\ job.note # NoNote => NoteAdded
                    /\ job.at = "upload" => SameNotes
           breaks == job' = NoJob /\ faults < MaxFaults /\ faults' = faults + 1
<1>2. works \/ breaks
  BY CallEffect
<1>3. works => /\ job' \in Job /\ job'.at \in {"upload", "refetch"} /\ job'.of = job.of
               /\ job'.asked = job.asked /\ job'.note = job.note /\ faults' = faults
               /\ job.at = "update" /\ job.note # NoNote => NoteAdded
               /\ job.at = "upload" => SameNotes
  BY <1>0 DEF Job
<1>4. breaks => /\ job' \in Job /\ job'.at = "none" /\ job'.note = NoNote
                /\ faults' \in 1..MaxFaults
  <2>1. NoNote \in Note /\ NoJob.at = "none" /\ NoJob.note = NoNote
    BY DrawerAssumption DEF NoJob, NoNote, Note, Asked
  <2>2. NoJob \in Job
    BY <2>1 DEF NoJob, Job, Asked
  <2> QED
    BY <1>0, <2>1, <2>2
<1> HIDE DEF works, breaks
<1>5. TypeOK'
  <2>1. HookTypeOK'
    BY <1>0, <1>1 DEF TypeOK, HookTypeOK
  <2>2. faults' \in 0..MaxFaults
    BY <1>0, <1>2, <1>3, <1>4 DEF TypeOK
  <2>3. job' \in Job
    BY <1>2, <1>3, <1>4
  <2> QED
    BY <1>0, <1>1, <2>1, <2>2, <2>3 DEF TypeOK
<1>6. JobOfRole'
  BY <1>0, <1>1, <1>2, <1>3, <1>4 DEF JobOfRole
<1>7. \A i \in Subjects : \A m \in DOMAIN stored'[i].notes :
        \/ m \in DOMAIN stored[i].notes /\ stored'[i].notes[m] = stored[i].notes[m]
        \/ NoteAdded /\ i = job.of /\ stored'[i].notes[m] = job.note
  BY <1>1 DEF SameNotes, NoteAdded
<1>8. NotesNumbered'
  <2>1. NoNote.n = 0 /\ edits \in Nat
    BY <1>0, NumbersOfNotes DEF NoNote
  <2>2. note'.n <= edits' /\ job'.note.n <= edits'
    BY <1>0, <1>1, <1>2, <1>3, <1>4, <2>1 DEF NotesNumbered
  <2>3. \A i \in Subjects : \A m \in DOMAIN stored'[i].notes : stored'[i].notes[m].n <= edits'
    BY <1>0, <1>1, <1>7 DEF NotesNumbered
  <2> QED
    BY <2>2, <2>3 DEF NotesNumbered
<1>9. NoteWritten'
  <2>1. CASE works
    <3>1. NoteAdded => HasNote(job.of, job.note)'
      BY <1>3, <2>1 DEF NoteAdded, HasNote
    <3>2. job.at = "upload" /\ job.note # NoNote => HasNote(job.of, job.note)'
      BY <1>0, <1>1, <1>3, <2>1 DEF NoteWritten, SameNotes, HasNote
    <3>3. job.at \in {"vote", "escalate"} => job.note = NoNote
      BY <1>0 DEF JobOfRole
    <3> QED
      BY <1>1, <1>3, <2>1, <3>1, <3>2, <3>3 DEF NoteWritten
  <2>2. CASE breaks
    BY <1>4, <2>2 DEF NoteWritten
  <2> QED
    BY <1>2, <2>1, <2>2
<1>10. faults' = 0 => NotesUnsent'
  <2> SUFFICES ASSUME faults' = 0 PROVE NotesUnsent'
    OBVIOUS
  <2>1. works /\ NotesUnsent
    BY <1>00, <1>2, <1>3, <1>4
  <2>2. ASSUME NEW i \in Subjects,
               NEW m \in DOMAIN stored'[i].notes, NEW n \in DOMAIN stored'[i].notes,
               stored'[i].notes[m] = stored'[i].notes[n]
        PROVE  m = n
    <3>1. CASE SameNotes
      BY <2>1, <2>2, <3>1 DEF SameNotes, NotesUnsent
    <3>2. CASE NoteAdded /\ i # job.of
      BY <2>1, <2>2, <3>2 DEF NoteAdded, NotesUnsent
    <3>3. CASE NoteAdded /\ i = job.of
      <4>1. \A k \in DOMAIN stored[i].notes : stored[i].notes[k] # job.note
        BY <2>1, <3>3 DEF NoteAdded, NotesUnsent, IsStored, HasNote
      <4>2. PICK last \in Nat :
              /\ last \notin DOMAIN stored[i].notes
              /\ DOMAIN stored'[i].notes = DOMAIN stored[i].notes \cup {last}
              /\ stored'[i].notes[last] = job.note
              /\ \A k \in DOMAIN stored[i].notes : stored'[i].notes[k] = stored[i].notes[k]
        BY <3>3 DEF NoteAdded
      <4>3. \A k, l \in DOMAIN stored[i].notes : stored[i].notes[k] = stored[i].notes[l] => k = l
        BY <2>1 DEF NotesUnsent
      <4> QED
        BY <2>2, <4>1, <4>2, <4>3
    <3> QED
      BY <1>1, <3>1, <3>2, <3>3
  <2> QED
    BY <1>3, <2>1, <2>2 DEF NotesUnsent
<1>11. ~carried' => NotesOfShown'
  <2> SUFFICES ASSUME ~carried' PROVE NotesOfShown'
    OBVIOUS
  <2>1. NotesOfShown
    BY <1>00, <1>1
  <2>2. note' # NoNote => selected' # Nobody /\ note'.of = data'.of
    BY <1>1, <2>1 DEF NotesOfShown
  <2>3. job'.note # NoNote => job'.note.of = job'.of
    BY <1>2, <1>3, <1>4, <2>1 DEF NotesOfShown
  <2>4. NoteAdded => job.note.of = job.of
    BY <2>1 DEF NotesOfShown, NoteAdded
  <2>5. \A i \in Subjects : \A m \in DOMAIN stored'[i].notes : stored'[i].notes[m].of = i
    BY <1>7, <2>1, <2>4 DEF NotesOfShown
  <2> QED
    BY <2>2, <2>3, <2>5 DEF NotesOfShown
<1> QED
  BY <1>5, <1>6, <1>8, <1>9, <1>10, <1>11 DEF DrawerInv

----------------------------------------------------------------------------
(* The theorems                                                            *)

\* The invariant holds before anything is selected.
LEMMA InitStep == Init => DrawerInv
<1> SUFFICES ASSUME Init PROVE DrawerInv
  OBVIOUS
<1>1. /\ data = Empty /\ loading = FALSE /\ flight = [s \in Slots |-> Free]
      /\ role \in Roles /\ selected = Nobody
      /\ override = None /\ note = NoNote /\ files = FALSE /\ job = NoJob
      /\ stored = [i \in Subjects |-> First] /\ since = [s \in Slots |-> 0]
      /\ edits = 0 /\ faults = 0 /\ carried = FALSE
  BY DEF Init
<1>2. HookTypeOK
  BY <1>1 DEF HookTypeOK, Empty, Shown, Asked, Free, Fetch
<1>3. /\ NoNote \in Note /\ NoNote.n = 0
      /\ NoJob.at = "none" /\ NoJob.note = NoNote
  BY DrawerAssumption DEF NoJob, NoNote, Note, Asked
<1>4. NoJob \in Job
  BY <1>3 DEF NoJob, Job, Asked
<1>5. First \in Complaint /\ First.notes = <<>>
  <2>1. <<>> \in Seq(Note)
    OBVIOUS
  <2> QED
    BY <2>1, DrawerAssumption DEF First, Complaint
<1>6. TypeOK
  <2>1. stored \in [Subjects -> Complaint] /\ since \in [Slots -> Nat]
    BY <1>1, <1>5
  <2>2. edits \in 0..MaxEdits /\ faults \in 0..MaxFaults
    BY <1>1, DrawerAssumption
  <2>3. /\ role \in Roles /\ selected \in Asked /\ override \in Statuses \cup {None}
        /\ note \in Note /\ files \in BOOLEAN /\ job \in Job /\ carried \in BOOLEAN
    BY <1>1, <1>3, <1>4 DEF Asked
  <2> QED
    BY <1>2, <2>1, <2>2, <2>3 DEF TypeOK
<1>7. \A i \in Subjects : DOMAIN stored[i].notes = {}
  BY <1>1, <1>5
<1>8. JobOfRole /\ NotesNumbered /\ NoteWritten
  BY <1>1, <1>3, <1>7 DEF JobOfRole, NotesNumbered, NoteWritten
<1>9. NotesUnsent /\ NotesOfShown
  BY <1>1, <1>3, <1>7 DEF NotesUnsent, NotesOfShown
<1> QED
  BY <1>6, <1>8, <1>9 DEF DrawerInv

\* It holds throughout.
THEOREM DrawerInvariant == Spec => []DrawerInv
<1>1. DrawerInv /\ [Next]_vars => DrawerInv'
  <2> SUFFICES ASSUME DrawerInv, [Next]_vars PROVE DrawerInv'
    OBVIOUS
  <2>1. CASE UNCHANGED vars
    BY <2>1 DEF vars, hook, form, server, counters, DrawerInv, TypeOK, HookTypeOK, JobOfRole,
       NotesNumbered, NoteWritten, NotesUnsent, NotesOfShown, IsStored, HasNote
  <2>2. CASE GoesOn
    BY <2>2, FetchStep, FinishStep DEF GoesOn
  <2>3. CASE Other
    BY <2>3, FetchStep, AnswerStep, FieldStep, StartStep, CallStep DEF Other
  <2> QED
    BY <2>1, <2>2, <2>3 DEF Next
<1> QED
  BY <1>1, InitStep, PTL DEF Spec

\* The drawer, its handler and the stored complaints have their types.
THEOREM DrawerTypeCorrect == Spec => []TypeOK
<1>1. DrawerInv => TypeOK
  BY DEF DrawerInv
<1> QED
  BY <1>1, DrawerInvariant, PTL

\* Unless another complaint appeared while the fields held something, a note
\* is stored with the complaint it was typed on, in whatever order answers
\* come and however calls fail (ComplaintDetail.jsx:14-17, 66-71).
THEOREM NotesReachTheirComplaint == Spec => []NotesOnTheirComplaint
<1>1. DrawerInv => NotesOnTheirComplaint
  BY DEF DrawerInv, NotesOfShown, NotesOnTheirComplaint
<1> QED
  BY <1>1, DrawerInvariant, PTL

\* While no call failed a note is stored once, however the fields are edited
\* during a save (ComplaintDetail.jsx:61-80).
THEOREM NotesAreStoredOnce == Spec => []NoteStoredOnce
<1>1. DrawerInv => NoteStoredOnce
  BY DEF DrawerInv, NotesUnsent, NoteStoredOnce
<1> QED
  BY <1>1, DrawerInvariant, PTL

\* A note leaves the field by Cancel, or at the end of a save that stored it,
\* or that was another's (ComplaintDetail.jsx:66-79).
THEOREM NotesAreKept == Spec => NoteKept
<1>1. DrawerInv /\ [Next]_vars =>
        [note # NoNote /\ note' = NoNote
         => \/ Cancel
            \/ job.note # note
            \/ \E i \in Subjects : HasNote(i, note)]_vars
  <2> SUFFICES ASSUME DrawerInv, Next, note # NoNote, note' = NoNote, ~Cancel, job.note = note
               PROVE  \E i \in Subjects : HasNote(i, note)
    OBVIOUS
  <2>1. TypeOK /\ JobOfRole /\ NoteWritten /\ job \in Job
    BY DEF DrawerInv, TypeOK
  <2>2. \E s \in Slots : Finish(s)
    <3>1. CASE \E s \in Slots : Refetch(s) \/ Refresh(s) \/ Receive(s) \/ Break(s)
                                \/ \E i \in Subjects : Open(s, i)
      BY <3>1 DEF Refetch, Refresh, Receive, Break, Open, form
    <3>2. CASE Close \/ ChooseFiles \/ \E status \in Statuses \ {"Escalated"} : PickStatus(status)
      BY <3>2 DEF Close, ChooseFiles, PickStatus, form
    <3>3. CASE TypeNote
      <4>1. note'.of = data.of /\ data.of # Nobody
        BY <3>3 DEF TypeNote, Edit, Editable, Visible
      <4> QED
        BY <4>1 DEF NoNote
    <3>4. CASE Vote \/ Save \/ Escalate
      BY <3>4 DEF Vote, Save, Escalate, Start, form
    <3>5. CASE VoteCall \/ EscalateCall \/ UpdateCall \/ UploadCall
      BY <3>5, CallEffect
    <3> QED
      BY <3>1, <3>2, <3>3, <3>4, <3>5 DEF Next, GoesOn, Other
  <2>3. job.at = "done"
    BY <2>2 DEF Finish
  <2>4. job.of \in Subjects /\ HasNote(job.of, job.note)
    BY <2>1, <2>3 DEF JobOfRole, NoteWritten, Job, Asked
  <2> QED
    BY <2>4
<1> QED
  BY <1>1, DrawerInvariant, PTL DEF Spec, NoteKept
=============================================================================
