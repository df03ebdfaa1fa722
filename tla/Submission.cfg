SPECIFICATION FairSpec
CONSTANTS
  MaxReports = 2
  LastStage = 1
  ListLimit = 1
  MaxOthers = 1
  MaxReloads = 1
INVARIANTS
  VerdictIsTrue
  TicketIsKept
PROPERTIES
  ScreenSettles
  TicketIsListed
