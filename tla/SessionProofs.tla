--------------------------- MODULE SessionProofs ---------------------------
(***************************************************************************)
(* Theorems of Session, for any choice of roles, any number of logins and  *)
(* of requests in flight, and a walkthrough of any length.                 *)
(***************************************************************************)
EXTENDS Session, TLAPS

----------------------------------------------------------------------------
(* The inductive invariant                                                 *)

\* A login in flight is for an account.
CallsAsked == \A c \in Calls : calls[c] # NoCall => calls[c].of \in Subjects

\* Without a user the role is the one everybody has.
RoleFollowsUser == currentUser = NoUser => roleState = "citizen"

\* localStorage holds a whole session or none, unless a profile came late.
StorageWhole == ~late => saved = token

\* What the header shows or waits for is the account's.
HookOfUser ==
  ~switched => /\ data.of \in {Nobody, token}
               /\ \A s \in Slots : flight[s].of \in {Nobody, token}

\* The conjuncts about who is signed in, and about the header.
AccountInv ==
  CallsAsked /\ RoleFollowsUser /\ StorageWhole /\ ScreenMatchesStorage /\ WorkspaceHasUser

SessionInv == TypeOK /\ AccountInv /\ HookOfUser

----------------------------------------------------------------------------
(* The hook (useApi.js)                                                    *)

\* Empty and Free are values of the hook.
LEMMA HookConstants ==
  /\ Empty \in Shown /\ Free \in Fetch /\ Nobody \in Asked
  /\ Empty.of = Nobody /\ Free.of = Nobody
  /\ 1 \in Slots /\ Nobody \notin Subjects
BY ApiCallAssumption DEF Empty, Free, Shown, Fetch, Asked

\* A fetch begins: it joins those in flight.
LEMMA BeginEffect ==
  ASSUME HookTypeOK, NEW s \in Slots, NEW of \in Asked, NEW initial \in BOOLEAN,
         Begin(s, of, initial)
  PROVE  /\ HookTypeOK' /\ data' = data
         /\ \A t \in Slots : flight'[t].of \in {flight[t].of, of}
<1>1. loading' \in BOOLEAN /\ data' = data
  BY DEF Begin, HookTypeOK
<1>2. [busy |-> TRUE, of |-> of, initial |-> initial] \in Fetch
  BY DEF Fetch
<1>3. flight' = [flight EXCEPT ![s] = [busy |-> TRUE, of |-> of, initial |-> initial]]
  BY DEF Begin
<1>4. flight' \in [Slots -> Fetch]
  BY <1>2, <1>3 DEF HookTypeOK
<1>5. ASSUME NEW t \in Slots PROVE flight'[t].of \in {flight[t].of, of}
  BY <1>3 DEF HookTypeOK
<1> QED
  BY <1>1, <1>4, <1>5 DEF HookTypeOK

\* A fetch ends: its slot is free.
LEMMA EndsEffect ==
  ASSUME HookTypeOK, NEW s \in Slots, Ends(s)
  PROVE  /\ loading' \in BOOLEAN /\ flight' \in [Slots -> Fetch]
         /\ \A t \in Slots : flight'[t].of \in {flight[t].of, Nobody}
<1>1. loading' \in BOOLEAN
  BY DEF Ends, HookTypeOK
<1>2. flight' = [flight EXCEPT ![s] = Free]
  BY DEF Ends
<1>3. flight' \in [Slots -> Fetch]
  BY <1>2, HookConstants DEF HookTypeOK
<1>4. ASSUME NEW t \in Slots PROVE flight'[t].of \in {flight[t].of, Nobody}
  BY <1>2, HookConstants DEF HookTypeOK
<1> QED
  BY <1>1, <1>3, <1>4

\* The answer of a fetch is of what was asked for.
LEMMA AnswerEffect ==
  ASSUME HookTypeOK, NEW s \in Slots, NEW version \in Nat, Answer(s, version)
  PROVE  /\ HookTypeOK'
         /\ data'.of = flight[s].of
         /\ \A t \in Slots : flight'[t].of \in {flight[t].of, Nobody}
<1>1. Ends(s)
  BY DEF Answer
<1>2. flight[s].of \in Asked
  BY DEF HookTypeOK, Fetch
<1>3. data' \in Shown /\ data'.of = flight[s].of
  <2>1. CASE flight[s].of = Nobody
    BY <2>1, HookConstants DEF Answer
  <2>2. CASE flight[s].of # Nobody
    BY <1>2, <2>2 DEF Answer, Shown
  <2> QED
    BY <2>1, <2>2
<1> QED
  BY <1>1, <1>3, EndsEffect DEF HookTypeOK

\* The header's hook mounts or goes with nothing but fetches for the token t.
LEMMA HeaderEffect ==
  ASSUME NEW page, NEW t \in Asked, Header(page, t)
  PROVE  /\ HookTypeOK' /\ data'.of = Nobody
         /\ \A s \in Slots : flight'[s].of \in {Nobody, t}
<1>1. [busy |-> TRUE, of |-> t, initial |-> TRUE] \in Fetch
  BY DEF Fetch
<1>2. data' = Empty /\ loading' \in BOOLEAN
  BY DEF Header
<1>3. flight' = [s \in Slots |-> Free] \/ flight' = Fetching(t)
  BY DEF Header
<1>4. /\ Fetching(t) \in [Slots -> Fetch]
      /\ \A s \in Slots : Fetching(t)[s].of \in {Nobody, t}
  BY <1>1, HookConstants DEF Fetching
<1>5. /\ [s \in Slots |-> Free] \in [Slots -> Fetch]
      /\ \A s \in Slots : [r \in Slots |-> Free][s].of \in {Nobody, t}
  BY HookConstants
<1> QED
  BY <1>2, <1>3, <1>4, <1>5, HookConstants DEF HookTypeOK

----------------------------------------------------------------------------
(* Types                                                                   *)

\* A profile and a local user are users, with a role.
LEMMA UserType ==
  ASSUME NEW a \in Asked, NEW local \in BOOLEAN
  PROVE  /\ [of |-> a, local |-> local] \in User
         /\ RoleOf(a) \in Roles
         /\ RoleOf(Nobody) = "citizen"
         /\ a # Nobody => [of |-> a, local |-> local] # NoUser
<1>1. RoleOf(a) \in Roles
  BY SessionAssumption DEF RoleOf
<1>2. RoleOf(Nobody) = "citizen"
  BY SessionAssumption, ApiCallAssumption DEF RoleOf
<1> QED
  BY <1>1, <1>2 DEF User, NoUser

\* The state before the first step has its types.
LEMMA InitType == Init => TypeOK
<1> SUFFICES ASSUME Init PROVE TypeOK
  OBVIOUS
<1>1. token \in Asked /\ saved \in Asked /\ me \in Asked
  BY DEF Init
<1>2. currentUser \in User /\ roleState \in Roles
  BY <1>1, UserType DEF Init, Known
<1>3. HookTypeOK
  <2>1. data \in Shown /\ loading \in BOOLEAN
    BY HookConstants DEF Init
  <2>2. [busy |-> TRUE, of |-> token, initial |-> TRUE] \in Fetch
    BY <1>1 DEF Fetch
  <2>3. flight \in [Slots -> Fetch]
    BY <2>2, HookConstants DEF Init, Fetching
  <2> QED
    BY <2>1, <2>3 DEF HookTypeOK
<1>4. activePage \in {"home", "overview"}
  BY DEF Init, StartPage
<1>5. step \in 1..GuideSteps
  BY SessionAssumption DEF Init
<1>6. calls \in [Calls -> [kind : {"none", "login", "demo", "register"}, of : Asked]]
  BY HookConstants DEF Init, NoCall
<1>7. /\ dismissed \in BOOLEAN /\ isAuthenticated \in BOOLEAN
      /\ authModalOpen \in BOOLEAN /\ onboardingOpen \in BOOLEAN
      /\ late \in BOOLEAN /\ switched \in BOOLEAN
  BY DEF Init
<1> QED
  BY <1>1, <1>2, <1>3, <1>4, <1>5, <1>6, <1>7 DEF TypeOK

\* What a way of signing in leaves besides storage and hook.
LEMMA EnterType ==
  ASSUME TypeOK, NEW c \in Calls, NEW a \in Asked, NEW local \in BOOLEAN,
         Enter(c, [of |-> a, local |-> local])
  PROVE  /\ currentUser' \in User /\ isAuthenticated' = TRUE /\ roleState' \in Roles
         /\ activePage' = "overview" /\ authModalOpen' = FALSE /\ onboardingOpen' \in BOOLEAN
         /\ calls' \in [Calls -> [kind : {"none", "login", "demo", "register"}, of : Asked]]
         /\ UNCHANGED <<dismissed, step, me>>
<1>1. calls' \in [Calls -> [kind : {"none", "login", "demo", "register"}, of : Asked]]
  BY HookConstants DEF Enter, Answered, NoCall, TypeOK
<1>2. onboardingOpen' \in BOOLEAN
  BY DEF Enter, TypeOK
<1> QED
  BY <1>1, <1>2, UserType DEF Enter

\* The end of a session leaves its types.
LEMMA EndSessionType ==
  ASSUME EndSession
  PROVE  /\ HookTypeOK' /\ token' \in Asked /\ saved' \in Asked /\ currentUser' \in User
         /\ isAuthenticated' \in BOOLEAN /\ roleState' \in Roles
         /\ activePage' \in {"home", "overview"} /\ late' \in BOOLEAN /\ switched' \in BOOLEAN
<1>1. HookTypeOK'
  BY HeaderEffect, HookConstants DEF EndSession, GoHome
<1>2. NoUser \in User
  BY HookConstants DEF NoUser, User
<1> QED
  BY <1>1, <1>2, HookConstants, SessionAssumption
     DEF EndSession, ClearStorage, ClearAccount, GoHome

\* A step of the header's hook keeps the types.
LEMMA HookStepType ==
  ASSUME TypeOK, NEW s \in Slots,
         \/ PollNotifications(s) \/ MarkedRead(s)
         \/ AnswerNotifications(s) \/ LoseNotifications(s)
  PROVE  TypeOK'
<1>1. HookTypeOK /\ token \in Asked
  BY DEF TypeOK
<1>2. HookTypeOK'
  <2>1. CASE PollNotifications(s) /\ token = Nobody
    BY <1>1, <2>1, HookConstants DEF PollNotifications, HookTypeOK
  <2>2. CASE PollNotifications(s) /\ token # Nobody
    BY <1>1, <2>2, BeginEffect DEF PollNotifications
  <2>3. CASE MarkedRead(s)
    BY <1>1, <2>3, BeginEffect DEF MarkedRead
  <2>4. CASE AnswerNotifications(s)
    BY <1>1, <2>4, AnswerEffect DEF AnswerNotifications
  <2>5. CASE LoseNotifications(s)
    BY <1>1, <2>5, EndsEffect DEF LoseNotifications, Fails, HookTypeOK
  <2> QED
    BY <2>1, <2>2, <2>3, <2>4, <2>5
<1>3. UNCHANGED <<storage, account, activePage, dialogs, me, calls, ghosts>>
  BY DEF PollNotifications, MarkedRead, AnswerNotifications, LoseNotifications
<1> QED
  BY <1>2, <1>3 DEF TypeOK, storage, account, dialogs, ghosts

\* So does a step of the dialogs.
LEMMA DialogType ==
  ASSUME TypeOK,
         \/ OpenAuthModal \/ CloseAuthModal \/ Skip \/ HandleNext \/ HandlePrev
         \/ \E n \in 1..GuideSteps : GoToDot(n)
  PROVE  TypeOK'
<1> USE DEF TypeOK, HookTypeOK, hook, storage, account, ghosts
<1>1. CASE OpenAuthModal \/ CloseAuthModal
  BY <1>1 DEF OpenAuthModal, CloseAuthModal
<1>2. ASSUME NEW n \in 1..GuideSteps, GoTo(n) PROVE TypeOK'
  BY <1>2 DEF GoTo
<1>3. CASE \E n \in 1..GuideSteps : GoToDot(n)
  BY <1>2, <1>3 DEF GoToDot
<1>4. CASE HandlePrev
  <2>1. step - 1 \in 1..GuideSteps
    BY <1>4, SessionAssumption DEF HandlePrev, IsFirst
  <2> QED
    BY <1>2, <1>4, <2>1 DEF HandlePrev
<1>5. CASE ~IsLast /\ GoTo(step + 1)
  <2>1. step + 1 \in 1..GuideSteps
    BY <1>5, SessionAssumption DEF IsLast
  <2> QED
    BY <1>2, <1>5, <2>1
<1>6. CASE Dismiss /\ authModalOpen' \in BOOLEAN
  BY <1>6 DEF Dismiss
<1> QED
  BY <1>1, <1>3, <1>4, <1>5, <1>6 DEF Skip, HandleNext

\* A session that is loaded, checked, sent for or ended keeps the types.
LEMMA AccountType ==
  ASSUME TypeOK,
         \/ Reload \/ Profile \/ Unauthorized \/ ProfileFails \/ LogoutUser
         \/ \E role \in Roles : LaunchRole(role)
         \/ \E c \in Calls : \/ SignUp(c) \/ Apply(c) \/ Fallback(c) \/ Refused(c)
                             \/ \E a \in Subjects : SignIn(c, a)
                             \/ \E role \in Roles : DemoLogin(c, role)
  PROVE  TypeOK'
<1>0. /\ HookTypeOK /\ token \in Asked /\ saved \in Asked /\ me \in Asked
      /\ calls \in [Calls -> [kind : {"none", "login", "demo", "register"}, of : Asked]]
  BY DEF TypeOK
<1>1. CASE Reload
  <2>1. HookTypeOK'
    BY <1>0, <1>1, HeaderEffect DEF Reload
  <2>2. currentUser' \in User /\ roleState' \in Roles
    BY <1>0, <1>1, UserType DEF Reload, Known
  <2>3. activePage' \in {"home", "overview"}
    BY <1>1 DEF Reload, StartPage
  <2>4. step' \in 1..GuideSteps
    BY <1>1, SessionAssumption DEF Reload
  <2>5. calls' \in [Calls -> [kind : {"none", "login", "demo", "register"}, of : Asked]]
    BY <1>1, HookConstants DEF Reload, NoCall
  <2>6. /\ isAuthenticated' \in BOOLEAN /\ authModalOpen' \in BOOLEAN
        /\ onboardingOpen' \in BOOLEAN /\ switched' \in BOOLEAN
    BY <1>1 DEF Reload, TypeOK
  <2> QED
    BY <1>1, <2>1, <2>2, <2>3, <2>4, <2>5, <2>6 DEF Reload, TypeOK, storage
<1>2. CASE Profile
  <2>1. currentUser' \in User /\ roleState' \in Roles
    BY <1>0, <1>2, UserType DEF Profile, Known
  <2>2. late' \in BOOLEAN
    BY <1>2 DEF Profile
  <2> QED
    BY <1>0, <1>2, <2>1, <2>2, HookConstants DEF Profile, TypeOK, hook, HookTypeOK, dialogs
<1>3. CASE Unauthorized
  BY <1>3, EndSessionType, HookConstants DEF Unauthorized, TypeOK, dialogs
<1>4. CASE ProfileFails
  BY <1>4, HookConstants
     DEF ProfileFails, TypeOK, hook, HookTypeOK, storage, account, dialogs, ghosts
<1>5. CASE LogoutUser
  BY <1>5, EndSessionType DEF LogoutUser, TypeOK, dialogs
<1>6. ASSUME NEW role \in Roles, LaunchRole(role) PROVE TypeOK'
  <2>1. HookTypeOK'
    BY <1>0, <1>6, HeaderEffect DEF LaunchRole
  <2> QED
    BY <1>6, <2>1 DEF LaunchRole, TypeOK, storage, account, dialogs, ghosts
<1>7. ASSUME NEW c \in Calls, NEW call \in [kind : {"login", "demo", "register"}, of : Subjects],
             Submit(c, call)
      PROVE  TypeOK'
  <2>1. calls' \in [Calls -> [kind : {"none", "login", "demo", "register"}, of : Asked]]
    BY <1>0, <1>7 DEF Submit, Asked
  <2> QED
    BY <1>7, <2>1 DEF Submit, TypeOK, hook, HookTypeOK, storage, account, dialogs, ghosts
<1>8. ASSUME NEW c \in Calls,
             \/ SignUp(c) \/ \E a \in Subjects : SignIn(c, a)
             \/ \E role \in Roles : DemoLogin(c, role)
      PROVE  TypeOK'
  BY <1>7, <1>8, SessionAssumption DEF SignUp, SignIn, DemoLogin
<1>9. ASSUME NEW c \in Calls, Apply(c) PROVE TypeOK'
  <2>1. calls[c].of \in Asked
    BY <1>0
  <2>2. HookTypeOK'
    <3>1. CASE activePage = "home"
      BY <1>9, <2>1, <3>1, HeaderEffect DEF Apply
    <3>2. CASE activePage # "home"
      BY <1>0, <1>9, <3>2 DEF Apply, hook, HookTypeOK
    <3> QED
      BY <3>1, <3>2
  <2>3. late' \in BOOLEAN /\ switched' \in BOOLEAN
    BY <1>9 DEF Apply, TypeOK
  <2> QED
    BY <1>9, <2>1, <2>2, <2>3, EnterType DEF Apply, Known, TypeOK
<1>10. ASSUME NEW c \in Calls, Fallback(c) PROVE TypeOK'
  <2>1. calls[c].of \in Asked
    BY <1>0
  <2>2. HookTypeOK'
    <3>1. CASE activePage = "home"
      BY <1>0, <1>10, <3>1, HeaderEffect DEF Fallback
    <3>2. CASE activePage # "home"
      BY <1>0, <1>10, <3>2 DEF Fallback, hook, HookTypeOK
    <3> QED
      BY <3>1, <3>2
  <2> QED
    BY <1>10, <2>1, <2>2, EnterType DEF Fallback, TypeOK, ghosts
<1>11. ASSUME NEW c \in Calls, Refused(c) PROVE TypeOK'
  <2>1. calls' \in [Calls -> [kind : {"none", "login", "demo", "register"}, of : Asked]]
    BY <1>0, <1>11, HookConstants DEF Refused, Answered, NoCall
  <2> QED
    BY <1>11, <2>1 DEF Refused, TypeOK, hook, HookTypeOK, storage, account, dialogs, ghosts
<1> QED
  BY <1>1, <1>2, <1>3, <1>4, <1>5, <1>6, <1>8, <1>9, <1>10, <1>11

\* The session, the screen and the header are well typed throughout.
LEMMA TypeStep == TypeOK /\ [Next]_vars => TypeOK'
<1>1. CASE UNCHANGED vars
  BY <1>1 DEF vars, TypeOK, hook, HookTypeOK, storage, account, dialogs, ghosts
<1> QED
  BY <1>1, HookStepType, DialogType, AccountType DEF Next, Clicks, Answers

----------------------------------------------------------------------------
(* Who is signed in                                                        *)

\* A page load shows the session localStorage keeps.
LEMMA ReloadAccount ==
  ASSUME TypeOK, AccountInv, Reload
  PROVE  AccountInv'
<1>1. CallsAsked'
  BY DEF Reload, CallsAsked
<1>2. RoleFollowsUser' /\ StorageWhole'
  BY UserType DEF AccountInv, Reload, RoleFollowsUser, StorageWhole, Known, NoUser, storage,
     TypeOK
<1>3. ScreenMatchesStorage'
  <2>1. currentUser'.of = saved /\ saved' = saved /\ token' = token /\ late' = late
    BY DEF Reload, Known, storage
  <2>2. isAuthenticated' = (saved # Nobody /\ token # Nobody)
    BY DEF Reload
  <2>3. ~late => saved = token
    BY DEF AccountInv, StorageWhole
  <2> QED
    BY <2>1, <2>2, <2>3 DEF ScreenMatchesStorage
<1>4. WorkspaceHasUser'
  BY DEF Reload, WorkspaceHasUser, Workspace, StartPage, Known, NoUser
<1> QED
  BY <1>1, <1>2, <1>3, <1>4 DEF AccountInv

\* The profile of a token is shown and saved with that token, or is late.
LEMMA ProfileAccount ==
  ASSUME TypeOK, AccountInv, Profile
  PROVE  AccountInv'
<1>1. late' = (token # me) /\ me # Nobody /\ saved' = me /\ token' = token
  BY DEF Profile
<1>2. currentUser' = Known(me) /\ isAuthenticated' = TRUE /\ UNCHANGED <<calls, activePage>>
  BY DEF Profile
<1>3. currentUser' # NoUser /\ currentUser'.of = me
  BY <1>1, <1>2 DEF Known, NoUser
<1>4. CallsAsked' /\ RoleFollowsUser' /\ WorkspaceHasUser'
  BY <1>2, <1>3 DEF AccountInv, CallsAsked, RoleFollowsUser, WorkspaceHasUser
<1>5. StorageWhole' /\ ScreenMatchesStorage'
  BY <1>1, <1>2, <1>3 DEF StorageWhole, ScreenMatchesStorage
<1> QED
  BY <1>4, <1>5 DEF AccountInv

\* A session that ends leaves nobody, at home.
LEMMA EndAccount ==
  ASSUME AccountInv, EndSession, UNCHANGED calls
  PROVE  AccountInv'
<1>1. CallsAsked'
  BY DEF AccountInv, CallsAsked
<1>2. RoleFollowsUser' /\ StorageWhole' /\ WorkspaceHasUser'
  BY DEF EndSession, ClearStorage, ClearAccount, GoHome, RoleFollowsUser, StorageWhole,
     WorkspaceHasUser, Workspace
<1>3. ScreenMatchesStorage'
  BY DEF EndSession, ClearStorage, ClearAccount, NoUser, ScreenMatchesStorage
<1> QED
  BY <1>1, <1>2, <1>3 DEF AccountInv

\* A login stores the account it shows; a local user is no account's.
LEMMA EnterAccount ==
  ASSUME TypeOK, AccountInv, NEW c \in Calls, Apply(c) \/ Fallback(c)
  PROVE  AccountInv'
<1>1. calls[c].of \in Subjects
  <2>1. NoCall.kind = "none"
    BY DEF NoCall
  <2>2. calls[c] # NoCall
    BY <2>1 DEF Apply, Fallback
  <2> QED
    BY <2>2 DEF AccountInv, CallsAsked
<1>2. calls' = [calls EXCEPT ![c] = NoCall] /\ isAuthenticated' = TRUE
  BY DEF Apply, Fallback, Enter, Answered
<1>3. currentUser' # NoUser
  BY <1>1, HookConstants DEF Apply, Fallback, Enter, Known, NoUser
<1>4. CallsAsked'
  BY <1>2 DEF AccountInv, CallsAsked, TypeOK
<1>5. RoleFollowsUser' /\ WorkspaceHasUser'
  BY <1>2, <1>3 DEF RoleFollowsUser, WorkspaceHasUser
<1>6. CASE Apply(c)
  <2>1. token' = calls[c].of /\ saved' = calls[c].of /\ currentUser' = Known(calls[c].of)
    BY <1>6 DEF Apply, Enter
  <2>2. StorageWhole' /\ ScreenMatchesStorage'
    BY <1>1, <1>2, <2>1, HookConstants DEF StorageWhole, ScreenMatchesStorage, Known
  <2> QED
    BY <1>4, <1>5, <2>2 DEF AccountInv
<1>7. CASE Fallback(c)
  <2>1. currentUser'.local /\ UNCHANGED <<token, saved, late>>
    BY <1>7 DEF Fallback, Enter, ghosts
  <2> QED
    BY <1>4, <1>5, <2>1 DEF AccountInv, StorageWhole, ScreenMatchesStorage
<1> QED
  BY <1>6, <1>7

\* What neither session nor calls know of does not disturb them.
LEMMA SameAccount ==
  ASSUME AccountInv, UNCHANGED <<storage, account, activePage, calls, late>>
  PROVE  AccountInv'
BY DEF AccountInv, storage, account, CallsAsked, RoleFollowsUser, StorageWhole,
   ScreenMatchesStorage, WorkspaceHasUser, Workspace

\* A step keeps screen, storage, role and page together.
LEMMA AccountStep == TypeOK /\ AccountInv /\ [Next]_vars => AccountInv'
<1> SUFFICES ASSUME TypeOK, AccountInv, [Next]_vars PROVE AccountInv'
  OBVIOUS
<1>1. ASSUME NEW s \in Slots,
             \/ PollNotifications(s) \/ MarkedRead(s)
             \/ AnswerNotifications(s) \/ LoseNotifications(s)
      PROVE  AccountInv'
  BY <1>1, SameAccount
     DEF PollNotifications, MarkedRead, AnswerNotifications, LoseNotifications, ghosts
<1>2. CASE OpenAuthModal \/ CloseAuthModal \/ ProfileFails
  BY <1>2, SameAccount DEF OpenAuthModal, CloseAuthModal, ProfileFails, ghosts
<1>3. CASE \/ HandlePrev \/ (~IsLast /\ GoTo(step + 1))
           \/ \E n \in 1..GuideSteps : GoToDot(n)
  BY <1>3, SameAccount DEF HandlePrev, GoToDot, GoTo, ghosts
<1>4. CASE Dismiss
  BY <1>4 DEF Dismiss, AccountInv, account, ghosts, CallsAsked, RoleFollowsUser, StorageWhole,
     ScreenMatchesStorage, WorkspaceHasUser, Workspace
<1>5. ASSUME NEW role \in Roles, LaunchRole(role) PROVE AccountInv'
  <2>1. isAuthenticated /\ currentUser # NoUser
    BY <1>5 DEF LaunchRole, Portal
  <2> QED
    BY <1>5, <2>1 DEF LaunchRole, AccountInv, storage, account, ghosts, CallsAsked,
       RoleFollowsUser, StorageWhole, ScreenMatchesStorage, WorkspaceHasUser
<1>6. ASSUME NEW c \in Calls, NEW a \in Subjects, NEW kind,
             Submit(c, [kind |-> kind, of |-> a])
      PROVE  AccountInv'
  <2>1. calls' = [calls EXCEPT ![c] = [kind |-> kind, of |-> a]]
    BY <1>6 DEF Submit
  <2>2. CallsAsked'
    BY <2>1 DEF AccountInv, CallsAsked, TypeOK
  <2> QED
    BY <1>6, <2>2 DEF Submit, AccountInv, storage, account, ghosts, RoleFollowsUser,
       StorageWhole, ScreenMatchesStorage, WorkspaceHasUser, Workspace
<1>7. ASSUME NEW c \in Calls, Refused(c) PROVE AccountInv'
  <2>1. calls' = [calls EXCEPT ![c] = NoCall]
    BY <1>7 DEF Refused, Answered
  <2>2. CallsAsked'
    BY <2>1 DEF AccountInv, CallsAsked, TypeOK
  <2> QED
    BY <1>7, <2>2 DEF Refused, AccountInv, storage, account, ghosts, RoleFollowsUser,
       StorageWhole, ScreenMatchesStorage, WorkspaceHasUser, Workspace
<1>8. CASE Unauthorized \/ LogoutUser
  BY <1>8, EndAccount DEF Unauthorized, LogoutUser
<1>9. CASE UNCHANGED vars
  BY <1>9, SameAccount DEF vars, ghosts
<1>10. ASSUME NEW c \in Calls,
              \/ SignUp(c) \/ \E a \in Subjects : SignIn(c, a)
              \/ \E role \in Roles : DemoLogin(c, role)
       PROVE  AccountInv'
  BY <1>6, <1>10, SessionAssumption DEF SignUp, SignIn, DemoLogin
<1> QED
  BY <1>1, <1>2, <1>3, <1>4, <1>5, <1>7, <1>8, <1>9, <1>10, ReloadAccount, ProfileAccount,
     EnterAccount DEF Next, Clicks, Answers, Skip, HandleNext

----------------------------------------------------------------------------
(* The header's notifications                                              *)

\* A step of the hook asks for the account, or answers what was asked.
LEMMA HookStepOfUser ==
  ASSUME TypeOK, HookOfUser, NEW s \in Slots,
         \/ PollNotifications(s) \/ MarkedRead(s)
         \/ AnswerNotifications(s) \/ LoseNotifications(s)
  PROVE  HookOfUser'
<1>0. HookTypeOK /\ token \in Asked /\ UNCHANGED <<token, switched>>
  BY DEF TypeOK, PollNotifications, MarkedRead, AnswerNotifications, LoseNotifications,
     storage, ghosts
<1>1. CASE PollNotifications(s) /\ token = Nobody
  BY <1>0, <1>1, HookConstants DEF PollNotifications, HookOfUser
<1>2. CASE (PollNotifications(s) /\ token # Nobody) \/ MarkedRead(s)
  BY <1>0, <1>2, BeginEffect DEF PollNotifications, MarkedRead, HookOfUser
<1>3. CASE AnswerNotifications(s)
  BY <1>0, <1>3, AnswerEffect DEF AnswerNotifications, HookOfUser
<1>4. CASE LoseNotifications(s)
  BY <1>0, <1>4, EndsEffect DEF LoseNotifications, Fails, HookOfUser
<1> QED
  BY <1>1, <1>2, <1>3, <1>4

\* A step keeps the header with the account, as long as the account is not
\* replaced in the open workspace.
LEMMA HookOfUserStep == TypeOK /\ HookOfUser /\ [Next]_vars => HookOfUser'
<1> SUFFICES ASSUME TypeOK, HookOfUser, [Next]_vars PROVE HookOfUser'
  OBVIOUS
<1>0. token \in Asked /\ calls \in [Calls -> [kind : {"none", "login", "demo", "register"}, of : Asked]]
  BY DEF TypeOK
<1>1. ASSUME UNCHANGED <<hook, token, switched>> PROVE HookOfUser'
  BY <1>1 DEF HookOfUser, hook
<1>2. ASSUME NEW page, NEW t \in Asked, Header(page, t), t = token' \/ t = Nobody
      PROVE  HookOfUser'
  BY <1>2, HeaderEffect DEF HookOfUser
<1>3. CASE Reload
  BY <1>0, <1>2, <1>3 DEF Reload, storage
<1>4. CASE Unauthorized \/ LogoutUser
  BY <1>2, <1>4, HookConstants DEF Unauthorized, LogoutUser, EndSession, GoHome
<1>5. ASSUME NEW role \in Roles, LaunchRole(role) PROVE HookOfUser'
  BY <1>0, <1>2, <1>5 DEF LaunchRole, storage
<1>6. ASSUME NEW c \in Calls, Apply(c) PROVE HookOfUser'
  <2>1. CASE activePage = "home"
    BY <1>0, <1>2, <1>6, <2>1 DEF Apply
  <2>2. CASE activePage # "home" /\ token = calls[c].of
    <3>1. UNCHANGED <<hook, token>> /\ (~switched' => ~switched)
      BY <1>6, <2>2 DEF Apply
    <3> QED
      BY <3>1 DEF HookOfUser, hook
  <2>3. CASE activePage # "home" /\ token # calls[c].of
    <3>1. switched'
      BY <1>6, <2>3 DEF Apply, Workspace
    <3> QED
      BY <3>1 DEF HookOfUser
  <2> QED
    BY <2>1, <2>2, <2>3
<1>7. ASSUME NEW c \in Calls, Fallback(c) PROVE HookOfUser'
  BY <1>0, <1>1, <1>2, <1>7 DEF Fallback, ghosts
<1>8. CASE OpenAuthModal \/ CloseAuthModal \/ ProfileFails \/ Dismiss \/ Profile
  BY <1>1, <1>8 DEF OpenAuthModal, CloseAuthModal, ProfileFails, Dismiss, Profile, storage,
     ghosts
<1>9. CASE \/ HandlePrev \/ (~IsLast /\ GoTo(step + 1))
           \/ \E n \in 1..GuideSteps : GoToDot(n)
  BY <1>1, <1>9 DEF HandlePrev, GoToDot, GoTo, storage, ghosts
<1>10. ASSUME NEW c \in Calls,
              \/ SignUp(c) \/ Refused(c) \/ \E a \in Subjects : SignIn(c, a)
              \/ \E role \in Roles : DemoLogin(c, role)
       PROVE  HookOfUser'
  BY <1>1, <1>10 DEF SignUp, SignIn, DemoLogin, Submit, Refused, storage, ghosts
<1>11. CASE UNCHANGED vars
  BY <1>1, <1>11 DEF vars, storage, ghosts
<1> QED
  BY <1>3, <1>4, <1>5, <1>6, <1>7, <1>8, <1>9, <1>10, <1>11, HookStepOfUser
     DEF Next, Clicks, Answers, Skip, HandleNext

----------------------------------------------------------------------------
(* Theorems                                                                *)

\* What a visit begins with.
LEMMA SessionInit == Init => SessionInv
<1> SUFFICES ASSUME Init PROVE SessionInv
  OBVIOUS
<1>1. token \in Asked /\ saved = token /\ currentUser = Known(token) /\ ~late
  BY DEF Init
<1>2. CallsAsked /\ StorageWhole
  BY <1>1 DEF Init, CallsAsked, StorageWhole
<1>3. RoleFollowsUser
  BY <1>1, UserType DEF Init, RoleFollowsUser, Known, NoUser
<1>4. ScreenMatchesStorage
  BY <1>1 DEF Init, ScreenMatchesStorage, Known
<1>5. WorkspaceHasUser
  <2>1. Workspace => token # Nobody
    BY <1>1 DEF Init, Workspace, StartPage
  <2>2. isAuthenticated = (token # Nobody)
    BY <1>1 DEF Init
  <2>3. token # Nobody => currentUser # NoUser
    BY <1>1 DEF Known, NoUser
  <2> QED
    BY <2>1, <2>2, <2>3 DEF WorkspaceHasUser
<1>6. HookOfUser
  <2>1. data.of = Nobody
    BY HookConstants DEF Init
  <2>2. CASE token = Nobody
    BY <2>1, <2>2, HookConstants DEF Init, HookOfUser
  <2>3. CASE token # Nobody
    <3>1. flight = Fetching(token)
      BY <2>3 DEF Init
    <3> QED
      BY <2>1, <3>1, HookConstants DEF HookOfUser, Fetching
  <2> QED
    BY <2>2, <2>3
<1> QED
  BY <1>2, <1>3, <1>4, <1>5, <1>6, InitType DEF SessionInv, AccountInv

\* SessionInv holds throughout.
LEMMA SessionAlways == Spec => []SessionInv
<1>1. SessionInv /\ [Next]_vars => SessionInv'
  BY TypeStep, AccountStep, HookOfUserStep DEF SessionInv
<1> QED
  BY <1>1, SessionInit, PTL DEF Spec

\* Page, storage, dialogs, calls and hook have their types (AppContext.jsx).
THEOREM SessionTypeCorrect == Spec => []TypeOK
<1>1. SessionInv => TypeOK
  BY DEF SessionInv
<1> QED
  BY <1>1, SessionAlways, PTL

\* The session on the screen is the one localStorage keeps, however logins,
\* sign-outs and checks cross, but for a local user and a profile that comes
\* after its token was replaced (AppContext.jsx:113-133, 256-263).
THEOREM ScreenAndStorageAgree == Spec => []ScreenMatchesStorage
<1>1. SessionInv => ScreenMatchesStorage
  BY DEF SessionInv, AccountInv
<1> QED
  BY <1>1, SessionAlways, PTL

\* The workspace is never open without a user (AppContext.jsx:123-133).
THEOREM WorkspaceIsSomeones == Spec => []WorkspaceHasUser
<1>1. SessionInv => WorkspaceHasUser
  BY DEF SessionInv, AccountInv
<1> QED
  BY <1>1, SessionAlways, PTL

\* The barrier of the router has nothing to correct (App.jsx:95-104).
THEOREM BarrierNeverActs == Spec => []BarrierIdle
<1>1. ASSUME SessionInv PROVE BarrierIdle
  <2>1. CASE currentUser = NoUser
    <3>1. Role = "citizen"
      BY <1>1, <2>1 DEF SessionInv, AccountInv, RoleFollowsUser, Role
    <3> QED
      BY <3>1 DEF BarrierIdle, EffectiveRole
  <2>2. CASE currentUser # NoUser
    BY <2>2 DEF BarrierIdle, EffectiveRole
  <2> QED
    BY <2>1, <2>2
<1> QED
  BY <1>1, SessionAlways, PTL

\* The notifications shown are those of the account that is signed in, unless
\* it was replaced in the open workspace (useApi.js:115-121).
THEOREM NotificationsAreTheUsers == Spec => []NotificationsOfUser
<1>1. SessionInv => NotificationsOfUser
  BY DEF SessionInv, HookOfUser, NotificationsOfUser
<1> QED
  BY <1>1, SessionAlways, PTL
=============================================================================
