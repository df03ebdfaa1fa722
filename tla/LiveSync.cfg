SPECIFICATION FairSpec
CONSTANTS
  List = List
  Nobody = Nobody
  Subjects <- MCSubjects
  Slots = {1, 2}
  Workers = {"w1", "w2"}
  MaxWrites = 1
  MaxFaults = 1
  QueueCap = 1
INVARIANTS
  TypeOK
  StreamWatched
PROPERTIES
  RefetchSeesWrite
  Converges
CHECK_DEADLOCK FALSE
