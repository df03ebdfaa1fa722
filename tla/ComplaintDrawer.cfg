SPECIFICATION FairSpec
CONSTANTS
  Subjects = {"A", "B"}
  Nobody = "null"
  Slots = {1, 2}
  Statuses <- MCStatuses
  MaxWrites = 2
  MaxEdits = 2
  MaxFaults = 1
INVARIANTS
  TypeOK
  NotesOnTheirComplaint
  NoteStoredOnce
PROPERTIES
  NoteKept
  ShowsSelected
CHECK_DEADLOCK FALSE
