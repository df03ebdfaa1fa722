SPECIFICATION Spec
CONSTANTS
  MaxReports = 2
  LastStage = 6
  ListLimit = 1
  MaxOthers = 0
  MaxReloads = 0
INVARIANTS
  HoldsForAnswer
