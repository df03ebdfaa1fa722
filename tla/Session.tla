------------------------------ MODULE Session ------------------------------
(***************************************************************************)
(* Who is signed in: the state of AppProvider and what localStorage keeps  *)
(* of it over a reload (frontend/src/context/AppContext.jsx), the dialogs  *)
(* that change it (AuthModal, OnboardingTourModal, HomePage), the role the *)
(* router renders for (App.jsx) and the notifications under the header.    *)
(*                                                                         *)
(* A login, a registration and the profile check of a page load answer     *)
(* whenever they do: closing the dialog or signing out cancels none of     *)
(* them.                                                                   *)
(*                                                                         *)
(* A page is "home" or "overview", which stands for every page of the      *)
(* workspace: they are all mounted below the same header.                  *)
(*                                                                         *)
(* Left out: the open department, the names and wards, the texts of the    *)
(* dialogs, authError and authLoading, which no screen reads, and setRole, *)
(* which no screen calls.                                                  *)
(***************************************************************************)
EXTENDS ApiCall, Integers

CONSTANTS Roles,      \* the roles, each with a demo account of its name
          Newcomer,   \* the account a registration creates
          Calls,      \* numbers of the logins that may be in flight
          GuideSteps  \* the steps of the walkthrough

ASSUME SessionAssumption ==
  /\ "citizen" \in Roles /\ Roles \subseteq {"citizen", "dept", "admin"}
  /\ Newcomer \notin Roles /\ Subjects = Roles \cup {Newcomer}
  /\ GuideSteps \in Nat \ {0}

VARIABLES
  token,          \* localStorage: whose token it holds, Nobody without one
  saved,          \* localStorage: the saved user
  dismissed,      \* localStorage: civicflow_onboarding_dismissed
  currentUser,    \* the user of the page
  isAuthenticated, roleState, activePage, authModalOpen, onboardingOpen,
  step,           \* currentStepIndex of the walkthrough
  me,             \* the token of the profile check in flight
  calls,          \* calls[c]: a login in flight
  late,           \* a profile came for a token that had been replaced
  switched        \* a token was replaced in the open workspace

storage == <<token, saved, dismissed>>
account == <<currentUser, isAuthenticated, roleState>>
dialogs == <<authModalOpen, onboardingOpen, step>>
ghosts == <<late, switched>>
vars == <<hook, storage, account, activePage, dialogs, me, calls, ghosts>>

\* A user of the gateway, or one made up locally while it is away.
User == [of : Asked, local : BOOLEAN]
NoUser == [of |-> Nobody, local |-> FALSE]
Known(a) == [of |-> a, local |-> FALSE]
RoleOf(a) == IF a \in Roles THEN a ELSE "citizen"

\* The role the header and the dashboards use, and the router's.
Role == IF currentUser # NoUser THEN RoleOf(currentUser.of) ELSE roleState

EffectiveRole ==
  IF Role \in {"admin", "dept"} /\ currentUser = NoUser THEN "citizen" ELSE Role

NoCall == [kind |-> "none", of |-> Nobody]

TypeOK ==
  /\ HookTypeOK
  /\ token \in Asked /\ saved \in Asked /\ me \in Asked
  /\ dismissed \in BOOLEAN
  /\ currentUser \in User
  /\ isAuthenticated \in BOOLEAN
  /\ roleState \in Roles
  /\ activePage \in {"home", "overview"}
  /\ authModalOpen \in BOOLEAN /\ onboardingOpen \in BOOLEAN
  /\ step \in 1..GuideSteps
  /\ calls \in [Calls -> [kind : {"none", "login", "demo", "register"}, of : Asked]]
  /\ late \in BOOLEAN /\ switched \in BOOLEAN

----------------------------------------------------------------------------
(* The header's notifications: they are mounted with the workspace         *)

\* What the workspace's hook starts with for the token t.
Fetching(t) == [[s \in Slots |-> Free] EXCEPT
                  ![1] = [busy |-> TRUE, of |-> t, initial |-> TRUE]]

Workspace == activePage # "home"

\* Mutated form: the list outlives the header.
HeaderKept(page, t) == UNCHANGED hook
Header(page, t) ==
  IF page = "home" \/ t = Nobody
  THEN data' = Empty /\ loading' = (page = "home") /\ flight' = [s \in Slots |-> Free]
  ELSE data' = Empty /\ loading' = TRUE /\ flight' = Fetching(t)

\* Mutated form: nothing is asked for once there is a list.
PollNotificationsOnce(s) ==
  /\ Workspace /\ token # Nobody /\ data = Empty
  /\ Begin(s, token, FALSE)
  /\ UNCHANGED <<storage, account, activePage, dialogs, me, calls, ghosts>>
\* The interval, or an event; without a token the list is empty at once.
PollNotifications(s) ==
  /\ Workspace
  /\ IF token = Nobody THEN s = 1 /\ data' = Empty /\ UNCHANGED <<loading, flight>>
     ELSE Begin(s, token, FALSE)
  /\ UNCHANGED <<storage, account, activePage, dialogs, me, calls, ghosts>>

\* handleMarkRead of a citizen's notifications, once the mark is stored:
\* refetch, which loads as the first fetch did.
MarkedRead(s) ==
  /\ Workspace /\ EffectiveRole = "citizen" /\ data # Empty /\ token # Nobody
  /\ Begin(s, token, TRUE)
  /\ UNCHANGED <<storage, account, activePage, dialogs, me, calls, ghosts>>

AnswerNotifications(s) ==
  /\ Answer(s, 1)
  /\ UNCHANGED <<storage, account, activePage, dialogs, me, calls, ghosts>>

LoseNotifications(s) ==
  /\ Fails(s)
  /\ UNCHANGED <<storage, account, activePage, dialogs, me, calls, ghosts>>

----------------------------------------------------------------------------
(* Page loads                                                              *)

StartPage(u, t) == IF u # Nobody /\ t # Nobody THEN "overview" ELSE "home"

\* What an earlier visit left: a whole session or none.
Init ==
  /\ token \in Asked \ {Newcomer} /\ saved = token /\ dismissed \in BOOLEAN
  /\ currentUser = Known(saved)
  /\ isAuthenticated = (saved # Nobody)
  /\ roleState = RoleOf(saved)
  /\ activePage = StartPage(saved, token)
  /\ authModalOpen = FALSE /\ onboardingOpen = ~dismissed /\ step = 1
  /\ me = token
  /\ calls = [c \in Calls |-> NoCall]
  /\ data = Empty /\ loading = TRUE
  /\ flight = IF token = Nobody THEN [s \in Slots |-> Free] ELSE Fetching(token)
  /\ late = FALSE /\ switched = FALSE

\* The page is loaded again: nothing but localStorage survives.
Reload ==
  /\ currentUser' = Known(saved)
  /\ isAuthenticated' = (saved # Nobody /\ token # Nobody)
  /\ roleState' = RoleOf(saved)
  /\ activePage' = StartPage(saved, token)
  /\ authModalOpen' = FALSE /\ onboardingOpen' = ~dismissed /\ step' = 1
  /\ me' = token
  /\ calls' = [c \in Calls |-> NoCall]
  /\ Header(activePage', token)
  /\ switched' = FALSE
  /\ UNCHANGED <<storage, late>>

\* Mutated forms: one of the three things a session's end resets is forgotten.
ClearToken == token' = Nobody /\ UNCHANGED saved
ClearUser == currentUser' = NoUser /\ isAuthenticated' = FALSE /\ UNCHANGED roleState
StayOnPage == UNCHANGED <<activePage, hook>>

ClearStorage == token' = Nobody /\ saved' = Nobody
ClearAccount == currentUser' = NoUser /\ isAuthenticated' = FALSE /\ roleState' = "citizen"
GoHome == activePage' = "home" /\ Header("home", Nobody)

\* What a sign-out and a profile check answered 401 do.
EndSession ==
  /\ ClearStorage /\ ClearAccount /\ GoHome
  /\ late' = FALSE /\ switched' = FALSE

\* me() answers with the profile of the token it was sent with.
Profile ==
  /\ me # Nobody /\ me' = Nobody
  /\ currentUser' = Known(me) /\ isAuthenticated' = TRUE /\ roleState' = RoleOf(me)
  /\ saved' = me
  /\ late' = (token # me)
  /\ UNCHANGED <<hook, token, dismissed, activePage, dialogs, calls, switched>>

\* me() answers 401: whatever session there is now ends.
Unauthorized ==
  /\ me # Nobody /\ me' = Nobody
  /\ EndSession
  /\ UNCHANGED <<dismissed, dialogs, calls>>

\* me() fails otherwise.
ProfileFails ==
  /\ me # Nobody /\ me' = Nobody
  /\ UNCHANGED <<hook, storage, account, activePage, dialogs, calls, ghosts>>

----------------------------------------------------------------------------
(* The dialogs                                                             *)

\* The walkthrough lies over the login dialog, and that over the page.
PageInFront == ~authModalOpen /\ ~onboardingOpen
AtHome == PageInFront /\ activePage = "home"

\* The buttons of the home page's header, hero and footer.
OpenAuthModal ==
  /\ AtHome
  /\ authModalOpen' = TRUE
  /\ UNCHANGED <<hook, storage, account, activePage, onboardingOpen, step, me, calls,
                 ghosts>>

\* The card of a portal opens the workspace to a user of its role.
Portal(role) == isAuthenticated /\ currentUser # NoUser /\ RoleOf(currentUser.of) = role

\* handleLaunchRole; others get the login dialog.
LaunchRole(role) ==
  /\ AtHome
  /\ Portal(role)
  /\ activePage' = "overview"
  /\ Header("overview", token)
  /\ UNCHANGED <<storage, account, dialogs, me, calls, ghosts>>

AuthModalInFront == authModalOpen /\ ~onboardingOpen

CloseAuthModal ==
  /\ AuthModalInFront
  /\ authModalOpen' = FALSE
  /\ UNCHANGED <<hook, storage, account, activePage, onboardingOpen, step, me, calls,
                 ghosts>>

IsFirst == step = 1
IsLast == step = GuideSteps

\* setCurrentStepIndex: by handleNext, handlePrev or a dot.
GoTo(n) ==
  /\ onboardingOpen
  /\ step' = n
  /\ UNCHANGED <<hook, storage, account, activePage, authModalOpen, onboardingOpen, me,
                 calls, ghosts>>

GoToDot(n) == n # step /\ GoTo(n)
HandlePrev == ~IsFirst /\ GoTo(step - 1)

\* dismissOnboarding.
Dismiss ==
  /\ onboardingOpen
  /\ onboardingOpen' = FALSE /\ dismissed' = TRUE
  /\ UNCHANGED <<hook, token, saved, account, activePage, step, me, calls, ghosts>>

\* The backdrop, "Skip" and the button of the guide's header.
Skip == Dismiss /\ UNCHANGED authModalOpen

\* handleNext; the last step's "Get Started" opens the registration.
HandleNext ==
  \/ ~IsLast /\ GoTo(step + 1)
  \/ IsLast /\ Dismiss /\ authModalOpen' = TRUE

----------------------------------------------------------------------------
(* Signing in and out                                                      *)

\* A button of the dialog sends a call; it stays enabled while the call runs.
Submit(c, call) ==
  /\ AuthModalInFront
  /\ calls[c] = NoCall
  /\ calls' = [calls EXCEPT ![c] = call]
  /\ UNCHANGED <<hook, storage, account, activePage, dialogs, me, ghosts>>

\* handleSubmit of either form, and handleDemoLogin.
SignIn(c, a) == Submit(c, [kind |-> "login", of |-> a])
SignUp(c) == Submit(c, [kind |-> "register", of |-> Newcomer])
DemoLogin(c, role) == Submit(c, [kind |-> "demo", of |-> role])

Answered(c) == calls' = [calls EXCEPT ![c] = NoCall]

\* What every way of signing in ends with; a registration shows the walkthrough.
Enter(c, user) ==
  /\ Answered(c)
  /\ currentUser' = user /\ isAuthenticated' = TRUE /\ roleState' = RoleOf(user.of)
  /\ activePage' = "overview"
  /\ authModalOpen' = FALSE
  /\ onboardingOpen' = (onboardingOpen \/ calls[c].kind = "register")
  /\ UNCHANGED <<dismissed, step, me>>

\* _applyUser.
Apply(c) ==
  /\ calls[c] # NoCall
  /\ Enter(c, Known(calls[c].of))
  /\ token' = calls[c].of /\ saved' = calls[c].of
  /\ late' = FALSE
  /\ switched' = (switched \/ (Workspace /\ token # calls[c].of))
  /\ IF activePage = "home" THEN Header("overview", calls[c].of) ELSE UNCHANGED hook

\* The demo login fails, or the registration gets no answer: a local user.
Fallback(c) ==
  /\ calls[c].kind \in {"demo", "register"}
  /\ Enter(c, [of |-> calls[c].of, local |-> TRUE])
  /\ IF activePage = "home" THEN Header("overview", token) ELSE UNCHANGED hook
  /\ UNCHANGED <<token, saved, ghosts>>

\* The login fails, or the registration is refused.
Refused(c) ==
  /\ calls[c].kind \in {"login", "register"}
  /\ Answered(c)
  /\ UNCHANGED <<hook, storage, account, activePage, dialogs, me, ghosts>>

\* "Sign Out" in the menu of the profile or of the small screen.
LogoutUser ==
  /\ PageInFront /\ Workspace
  /\ EndSession
  /\ UNCHANGED <<dismissed, dialogs, me, calls>>

----------------------------------------------------------------------------
Clicks ==
  \/ OpenAuthModal \/ CloseAuthModal \/ LogoutUser \/ Reload
  \/ Skip \/ HandleNext \/ HandlePrev
  \/ \E n \in 1..GuideSteps : GoToDot(n)
  \/ \E role \in Roles : LaunchRole(role)
  \/ \E s \in Slots : MarkedRead(s)
  \/ \E c \in Calls : \/ SignUp(c)
                      \/ \E a \in Subjects : SignIn(c, a)
                      \/ \E role \in Roles : DemoLogin(c, role)

Answers ==
  \/ Profile \/ Unauthorized \/ ProfileFails
  \/ \E c \in Calls : Apply(c) \/ Fallback(c) \/ Refused(c)
  \/ \E s \in Slots : AnswerNotifications(s) \/ LoseNotifications(s)

Next == Clicks \/ Answers \/ \E s \in Slots : PollNotifications(s)

Spec == Init /\ [][Next]_vars

\* The interval fires, and not every one of its requests fails.
Fairness == \A s \in Slots : WF_vars(PollNotifications(s)) /\ SF_vars(AnswerNotifications(s))

FairSpec == Spec /\ Fairness

----------------------------------------------------------------------------
(* Properties                                                              *)

\* The session on the screen is the one localStorage keeps, with whatever
\* logins, sign-outs and failed checks crossed each other; a local user stores
\* nothing, and a profile that comes after its token was replaced is shown and
\* saved with another token or with none (AppContext.jsx:113-122, 256-263).
ScreenMatchesStorage ==
  ~late /\ ~currentUser.local => /\ saved = currentUser.of /\ token = currentUser.of
                                /\ isAuthenticated = (token # Nobody)

\* The workspace is never left open without a user: every way a session ends
\* leads to the home page, a 401 that comes late included
\* (AppContext.jsx:123-133, App.jsx:90-127).
WorkspaceHasUser == Workspace => isAuthenticated /\ currentUser # NoUser

\* No role outlives its account: the barrier of the router never has anything
\* to correct, because whatever removes the user resets the role
\* (App.jsx:95-104, AppContext.jsx:125-132, 256-263).
BarrierIdle == EffectiveRole = Role

\* The notifications shown are those of the account that is signed in, unless
\* the account was changed without leaving the workspace (AppContext.jsx:
\* 256-263, App.jsx:107-127, useApi.js:115-121).
NotificationsOfUser == data.of \in {Nobody, token} \/ switched

\* Even then they become those of the account that stays signed in, and do so
\* again after every reload: no answer to an older session is the last one
\* (useApi.js:51-57, 115-121).
NotificationsCatchUp ==
  \A a \in Subjects :
    <>[](token = a /\ Workspace) => []<>(data.of = a)
=============================================================================
