SPECIFICATION FairSpec
CONSTANTS
  Roles = {"citizen", "admin"}
  Newcomer = "new"
  Nobody = "null"
  Subjects <- MCSubjects
  Slots = {1}
  Calls = {1, 2}
  GuideSteps = 2
INVARIANTS
  ScreenMatchesStorage
  WorkspaceHasUser
  BarrierIdle
  NotificationsOfUser
PROPERTIES
  NotificationsCatchUp
