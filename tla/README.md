# CivicFlow in TLA+

This directory specifies CivicFlow, a civic-complaint platform: citizens report
an issue with a text and photos, a service of cooperating language-model agents
triages the report into a ticket, a gateway stores it, groups it with reports of
the same incident and shows it to departments.  The modules are translated from
the code (`agent/`, `backend/`, `frontend/`, `infrastructure/`); TLC
model-checks them on small instances and TLAPS proves theorems about them for
every value of their constants.

## The system

```
 browser (React) --HTTP, SSE--> nginx --> gateway (FastAPI, 2 workers)
                                             |  PostgreSQL   Redis (cache, pub/sub)
                                             +--HTTP, 240 s--> agent service (1 worker)
                                                                 |  SQLite (tickets, audit log)
                                                                 +--HTTP--> language models
```

| Part (source) | State | Operations | Interacts with |
|---|---|---|---|
| Planner, Executor (`agent/app/agent/planner.py`, `executor.py`) | none | stages, dependents of an agent, run a stage or one agent | called by the manager |
| ManagerAgent (`core_agent.py`) | one blackboard, retry count and contradiction flag per coroutine | `process_complaint`, `rerun_ticket` | executor, gate, memory; coroutines interleave at awaits |
| Specialists and quality gate (`specialists/*.py`) | none | six analyses; nine rules merged with a model's opinion | read and write the blackboard; call the LLM client |
| LongTermMemory (`memory/long_term.py`) | ticket rows, append-only audit log (SQLite) | `save_ticket`, `log_action` (inserts a stub ticket), `get_ticket`, `get_audit_trail` | shared by all coroutines |
| Agent HTTP API (`api/routes.py`) | none | submit, rerun, read | manager, memory |
| LLM client (`llm/openai_client.py`) | pacing lock and time of the last call | `complete` with bounded retries per provider | specialists, gate |
| Location service (`services/location_service.py`) | caches of addresses | geocode, reverse geocode, offline fallback | API, gateway |
| Gateway complaints (`backend/app/routes.py`) | complaints, images, incidents, departments (PostgreSQL) | submit, list, update, vote, resolution images, purge at startup | agent service, cache, events |
| Gateway cache (`backend/app/cache.py`) | Redis entries and a memory copy per worker, both with expiry | get, set, invalidate by pattern | every cached route |
| Live events (`cache.py`, `routes.py`) | bounded queues per subscriber and worker | publish, subscribe | Redis pub/sub, browsers |
| Accounts, notifications (`routes.py`, `auth.py`, `main.py`) | users, notifications | register, login, seed, mark read | database |
| Statistics, map (`routes.py`) | none | aggregations | database, cache |
| Intake checks (`routes.py`) | none | meaningful text, capture time of a photo | submission |
| Frontend data layer (`hooks/useApi.js`, `context/AppContext.jsx`, `services/api.js`) | the last answer of each hook, an event stream, a timer | poll, refetch on events, reconnect | gateway, all screens |
| Session (`AppContext.jsx`, `App.jsx`, `AuthModal.jsx`, `OnboardingTourModal.jsx`, `HomePage.jsx`, `Header.jsx`) | the user, the role, the page, the dialogs; token and user in localStorage | restore, check, sign in, register, demo, sign out | gateway; the router and the notifications read it |
| Report form and processing screen (`ReportForm.jsx`, `IssueProcessingScreen.jsx`, `CitizenDashboard.jsx`) | the form, a staged clock, the answer, tickets in localStorage | fill in, submit, fast-track, leave, list | gateway, data layer |
| Location of a report (`ReportForm.jsx`, `MapPinPickerModal.jsx`) | text, coordinates, marker, address | type, locate, pin, confirm | the browser's positions, a public geocoder |
| Dictation (`ReportForm.jsx`) | refs to microphone, recorder and recogniser; the note | start, stop, delete, record again | the browser's devices, the gateway's transcription |
| Complaint drawer (`ComplaintDetail.jsx`) | the selected id, status, note and files typed | vote, save, escalate | data layer, gateway |

### What is hard here, and what makes each part correct

* **Pipeline and gate.**  Seven agents write one blackboard; a verdict names
  agents to run again; the cascade must re-run the right ones, in the right
  order, a bounded number of times, and some verdicts (contradictions) must
  never be retried.  Correct when every retry runs the planned cascade, budgets
  hold, a contradiction is final, manual review is the last resort, the stored
  audit trail explains the stored status, and every coroutine ends.
* **Ticket store of the agent.**  A processing and manual reruns interleave at
  every agent call; each writes the whole ticket back; a stub row appears
  before the ticket exists; a database error or a restart may hit between any
  two writes.  Correct when a stored ticket only takes the steps of the
  life-cycle the service promises.
* **Gateway.**  Two processes share tables without locking (ids are `max + 1`,
  counters are read, incremented, written), one request commits several times,
  and the agent may time out while it goes on working.  Correct when ids are
  unique, counts match what was stored and rejected reports are not stored.
* **Cache and events.**  Two levels of cache with expiry and pattern
  invalidation, two workers, bounded queues.  Correct when a stale answer
  survives no longer than its time to live, and an event is missed only by a
  reader that a later event or poll repairs.
* **LLM client.**  Bounded attempts under a shared pacing lock.  Correct when
  every call ends and the lock is released on every path.
* **Data layer.**  Requests of one hook overlap and nothing cancels them, events
  are lost or come twice, and the copies behind the gateway may be stale.
  Correct when an event that tells of a change makes the screen show it, and
  when no late answer or stale copy stays on the screen for good.
* **Session.**  A profile check, logins and a sign-out cross each other; part of
  the state is in localStorage and survives a reload.  Correct when screen and
  storage agree, the workspace is never open without a user, no role outlives its
  account, and the notifications are the account's.
* **Report.**  A ticker, an answer and a button race to decide what the screen
  says; the answer may find the screen left or the page reloaded.  Correct when
  the verdict shown is the gateway's and no ticket is lost.
* **Location and dictation.**  Positions, addresses, the microphone, the end of
  a recording and its transcription all come after awaits, and what they touch is
  shared.  Correct when text and coordinates belong together, words go to the
  field they were said for, and the microphone is closed.
* **Drawer.**  Its fields outlive the complaint they were typed for, and a save is
  several calls.  Correct when a note is stored with its complaint, once, and is
  not lost.

`PROJECT.json` lists every component with its status, and every hazard at its
line with the properties that cover it.

## The modules

| Module | Models | Kind |
|---|---|---|
| `Planner` | `planner.py` and the two loops of `core_agent.py` that turn a verdict into a cascade | operators |
| `Blackboard` | what each specialist may write, the rules of `verification_agent.py` | operators |
| `AgentPipeline` | `core_agent.py`, `executor.py`, `long_term.py` and the submit and rerun routes | state machine |
| `TicketLifecycle` | what the service promises about a ticket | abstract specification |
| `MCAgentPipeline` | answer sets of the runs | instance |
| `AgentPipelineProofs` | theorems about the pipeline | proofs |
| `Gateway` | submissions, votes, updates, photo uploads, incident grouping and the purge at startup (`backend/app/routes.py`), by several workers | state machine |
| `MCGateway` | requests, areas and statuses of the runs | instance |
| `GatewayProofs` | theorems about the gateway | proofs |
| `ApiCall` | `useApiCall` of `hooks/useApi.js`: a hook with fetches that overlap | shared state machine part |
| `LiveSync` | a write to a complaint, the two levels of cache, the events and a list on a screen (`cache.py`, `routes.py`, `useApi.js`, `AppContext.jsx`) | state machine, composes `ApiCall` with the gateway's cache and events |
| `ComplaintDrawer` | `ComplaintDetail.jsx` with its hook and the gateway's `update_complaint` | state machine, composes `ApiCall` with the store |
| `Session` | `AppContext.jsx`, the dialogs and the router, and the notifications | state machine, composes `ApiCall` with the session |
| `Submission` | the form's submission, `IssueProcessingScreen.jsx`, the table of complaints as `list_complaints` shows it, and "My complaints" | state machine |
| `LocationForm` | the location of a report and `MapPinPickerModal.jsx` | state machine |
| `VoiceCapture` | dictation in `ReportForm.jsx` | state machine |
| `LiveSyncProofs`, `ComplaintDrawerProofs`, `SessionProofs`, `SubmissionProofs`, `LocationFormProofs`, `VoiceCaptureProofs` | theorems about each of these | proofs |
| `MCLiveSync`, `MCComplaintDrawer`, `MCSession`, `MCSubmission`, `MCLocationForm`, `MCVoiceCapture` | constants of the runs | instances |

The modules meet at calls: `Gateway` takes what the agent service answers
(approved, rejected, nothing usable) as a choice, which covers every behaviour
of `AgentPipeline` and of the network between them; the modules of the frontend
take what the gateway answers in the same way.  `LiveSync` and `ComplaintDrawer`
have the part of the gateway they depend on inside.

### How `AgentPipeline` corresponds to the code

A coroutine is `Process` (one call of `process_complaint`) or a member of
`Reruns` (one call of `rerun_ticket`).  Python runs one coroutine from an await
to the next without interruption, and the code awaits only the agent calls
(each one a request to a model, even if it then falls back), so an action is
one agent call followed by all that runs up to the next call: logging, saving,
the retry test.

| Action | Code |
|---|---|
| `Submit` | the state built at the head of `process_complaint` |
| `Stage1`, `Stage2` | `Executor.execute_stage`; its agents run one after the other in list order; the last one is followed by the three log entries of the stage |
| `Gate` | the verification of the first pass or of a retry, its log entry, the contradiction flag, the loop test, and, when the loop ends, the final status, rectification and `save_ticket` |
| `RunCascade(j)` | one agent of a retry and its log entry |
| `Load(j)`, `LoadUnknown(j)` | `rerun_ticket` up to its first await, and its 404 |
| `Audit(j)`, `Reverify(j)` | the first, unlogged verification of a rerun and the later ones |
| `StoreFails(j)` | an error that escapes `log_action`; of a stage's three entries a prefix may be stored |
| `Restart` | the service restarts: coroutines are lost, the database stays |

Errors of the database while a processing is saved are inside `Gate`: reading
the trail raises, `save_ticket` is swallowed; a rerun lets both escape.  `pc`
is where a coroutine stands, `todo` what is left of its stage or cascade,
`board` its state dictionary (with a history field `unread`: which agents have
not read the current output of an agent they read), `retries` and `sticky` the entries `retries` and
`cross_modal_contradiction`, `base` the ticket a rerun loaded, `row` and `log`
the two tables.

Abstractions, all in `Blackboard`:

* a confidence is "at or above the threshold", a grounding score "at least
  0.4", a severity "High or Critical", a text or a photo the civic domains its
  keywords name; this is all the gate asks of them;
* what a model may answer is a constant set per agent (the theorems hold for
  all sets); the fallback of each agent is added to it, and for an agent whose
  exceptions may escape (`MayRaise`) the executor's record
  `{"error": ...}` as the `.get` defaults of its readers see it.  Only the
  routing agent can let one escape: its handler uses a name the failed block
  may not have bound (`routing_agent.py:103`);
* the domain table and its keywords are in the text and photo values; a
  contradiction is two recognised, disjoint sets of domains;
* feedback texts keep one bit, whether the word "contradiction" occurs, because
  `core_agent.py:173` searches for it;
* different tickets share no state, so one ticket is modelled.  The pacing delay
  between agents, location look-ups and report wording are left out.

`TicketLifecycle` has the status of the stored ticket, whether its processing is
open, and the retries it used.  A processing registers the ticket, retries a
bounded number of times, decides once and sends to manual review only when
retries are used up; an audit may move any stored ticket to Submitted or to
manual review, nothing else.  `AgentPipeline` implements it with
`status <- row.status`, `open <- pc[Process] \notin Ended`,
`tries <- retries[Process]`.

### How `Gateway` corresponds to the code

Every handler is `async`, and a worker runs its handlers on one event loop, so a
handler that does not await keeps the worker to itself, database statements
included (they are synchronous).  `LoopFree` says that no handler of a worker is
between two statements; the only awaits between what a handler reads and what it
writes are the call of the agents (`agent`) and the receiving of photos
(`upload`), and after its commit a handler awaits cache and event before it
answers (`publish`).  Handlers of *different*
workers interleave between any two statements.  The sessions use the default
READ COMMITTED, and nothing takes a row lock.  An action is one statement with
the code up to the next one; an UPDATE writes the columns the handler assigned,
with values computed from what the handler loaded (`job[r].seen`).

| Action | Code |
|---|---|
| `Submit` | the checks of `submit_complaint`, up to the call of the agents |
| `Refuse` | a failed check, an unknown ticket or vote direction, or a rejection by the agents |
| `PickTicket` | the agents approved, or gave no usable answer; `_next_ticket_id` (`max + 1`) |
| `FindByArea`, `FindInGroup` | the two searches of `_find_or_create_incident` |
| `CountReport` | the incident found is written with its count plus one, and committed |
| `NameIncident`, `CreateIncident` | `_next_incident_id`, and the insert with its commit, which fails when the number is taken |
| `InsertComplaint` | the insert of the complaint and its commit; fails likewise |
| `Refresh`, `Respond` | after a commit: the row is read back, cache and event are awaited, the answer is sent; both fail when the row is gone |
| `LoadForVote`, `CommitVote` | `vote_complaint` |
| `LoadForPatch`, `CommitPatch` | `update_complaint` |
| `LoadForUpload`, `CommitUpload` | `upload_resolution_images`, which receives the photos in between |
| `Restart` | a worker dies and starts again: its requests are lost, its memory too; a submission past its commit stays stored (`unanswered`) |
| `PurgeSelect`, `PurgeDelete` | `purge_rejected_complaints`, run before the worker serves |

`pc[r]` is where request `r` stands, `job[r]` its worker and the local variables
of its handler (`reply`: what it will answer once it has committed), `complaints` and `incidents` the tables, `startup[w]` and
`doomed[w]` the purge of a worker.

Abstractions: a category and department are one value (`Groups`); a location is
an area, and the search for its first words in the stored location is the
relation `Near`; `approved` remembers whether the agents really approved.
Officer, notes and department of a complaint, stored photos, activity log,
notifications and cache invalidation are left out, because no statement modelled
here reads them.  The status of an incident is left out as well: no code changes
it, so the filter on unresolved incidents never excludes one.

### How the modules of the frontend correspond to the code

JavaScript runs one handler or callback to its end, so an action is the code from
an event, or from the end of an `await`, up to the next `await`.  A render is
part of the action that causes it.  Callbacks keep the values of the render they
were made in; where the code depends on it (the id a save began with, the base
text of a dictation) the value is in the state.

`ApiCall` is the hook: `data`, `loading`, and the fetches in flight
(`flight[s]`, numbered by free slots).  `Begin` is `fetch_` up to its await,
`Answer` and `Fails` what follows.  Nothing compares an answer with what is
shown, nothing cancels a fetch.  A value is whose it is and its version in the
database.

`LiveSync` has one write per worker at a time: `Commit`, then `ClearRedis` and
`ClearMemory` (`invalidate_pattern`, with an await between them), then the
event (`PushLocal` to the worker's own subscribers, `Relay` through Redis).  A
request reads the copies (`Lookup`), or the database, fills Redis and then the
worker's memory (`StoreRedis`, `StoreMemory`), and answers (`Receive`).
`ExpireRedis` and `ExpireMemory` are the times to live.  The page refetches on
an event (`Update`) or on the interval (`Poll`), and reconnects
(`StreamError`, `Reconnect`, `CloseApp`).  Failures, `Break` among them, are bounded
by `MaxFaults`.  One cached list stands for all keys.

`ComplaintDrawer` has the hook whose id is `selected`, the three fields of
the drawer and `job`, the handler that is under way and the await it stands at:
`Save`, `Vote` or `Escalate` start it, `UpdateCall`, `UploadCall`, `VoteCall`
and `EscalateCall` are its calls, each of which may succeed, fail, or succeed
and lose its answer; `Refetch` and `Finish` end it.  `carried` remembers that a
complaint appeared while the fields held something.

`Session` has three parts: what localStorage keeps (`token`, `saved`,
`dismissed`), the state of `AppProvider`, and the calls in flight (`me`,
`calls`).  `Profile`, `Unauthorized` and `ProfileFails` are the answers to the
check of a page load; `Apply`, `Fallback` and `Refused` those to a login, a demo
login or a registration; `LogoutUser` and `Reload` happen at any time.  The
header's hook is mounted with the workspace (`Header`).  `late` says that a
profile came for a token that had been replaced, `switched` that a token was
replaced while the workspace was open.

`Submission` has the form by whether `handleSubmit` would send it (category,
description and photos are one choice, made anew at every `Edit`), a
report with how far its call is, the screen, and the tickets in localStorage.
The ticker counts seconds; the model counts the stages they make up
(`LastStage` is 6 in the code), so `Tick(stage)` may stay in a stage.  `Settle` is the promise's callback, which
runs whatever the screen shows by then.  `Serve` is the gateway: stored and
acknowledged, stored with the answer lost, refused, or failed, also for a page
that has been left.  `table` is the table of complaints, oldest first, in which
other citizens' complaints stand too (`OthersSubmit`), a department rejects and
reopens (`SetStatus`) and a start of the gateway deletes the rejected (`Purge`);
a deleted row is marked, because only the order of the others matters.
`Listing` is `list_complaints`: the newest `ListLimit` that are not rejected
(100 in the code).  The cache the list is read through is `LiveSync`'s.  The
user is one the database does not know (a guest, or a local session): for one it
knows, "My complaints" also shows what bears the user's `citizenId`.

In `LocationForm` a point stands for its coordinates and for every text
made of it.  The browser's position (`GpsPosition`, `LivePosition`) and the
geocoder's answers (`Geocoded`, `LookedUp`) come in any order; `lookups` holds
the points the dialog waits for.  `unsettled`, `apart` and `overtaken` name the
three cases in which the code lets text and coordinates differ: a text typed or
a pin confirmed before its address came, a map that opened on the default centre
while the dialog held another position, an answer that overtook an older one.

In `VoiceCapture` every capture has a number.  Refs (`stream`, `recorder`,
`recogniser`, `target`, `base`, `live`) hold the last one that wrote them, as in
the code; `open`, `recording`, `hears`, `stopping` and `requests` say what
the browser and the service really do for which capture.  `crossed` says that a
capture began before the last was over, or that the form closed while a microphone
was being asked for; there the refs are overwritten and the properties do not hold
(see the observations).

## The runs

Two civic domains are enough for "same", "other" and "none".  Each answer set
has one member per distinction the gate draws (clean, weak, contradictory,
misclick; worded remark, one agent named, the rejecting pair; in the runs with a
rerun also `verification` alone, which names no agent to run).

| Run | Bounds | Shows |
|---|---|---|
| `PipelineGate` | full answers, two retries, one fault, no rerun | types; a contradiction is final; manual review is the last resort; the stored trail ends with the deciding verification; the log replays exactly the planned cascades; a gate judges no stale output but of two kinds |
| `PipelineRerun` | fewer answers, a verdict that names no agent to rerun (an empty cascade) among them, one retry, one rerun that may start at any moment, one fault | attempts within budget; what a caller got is stored; the refinement of `TicketLifecycle`; every started coroutine ends |
| `GatewayTwo` | two workers, two requests, one group and area, two restarts | types; every complaint has its incident; a submission is stored once and whole or not at all, under a number of its own, answered or not; every request received is answered, or its answer is lost in a restart |
| `GatewayOne` | one worker, three requests, two groups in two areas, one restart | no vote and no report is lost; a group has one incident |
| `GatewayApproval` | one worker, three requests | violation: a complaint nobody approved is stored |
| `LiveSync` | two workers, one write, one fault, two slots, a queue of one event | types; a stream or a timer is there as long as the app; a refetch caused by an event shows the write; the list converges |
| `ComplaintDrawer` | two complaints, two slots, two edits, two writes, one fault | types; a note is stored with its complaint and once, and leaves the field only when stored; the drawer comes back to what is selected and stored |
| `Session` | roles citizen and admin, a newcomer, two calls, two steps of the walkthrough | screen and storage agree; no workspace without a user; no role without its account; the notifications are, or become, the account's |
| `Submission` | two reports, one complaint of others, a list of one, one reload, one stage before the last | the first verdict of a page load is true; a ticket shown is kept; a screen that is left open comes to a verdict; a ticket is listed for good if its complaint stays among the newest that are not rejected, and leaves for good otherwise |
| `LocationForm` | three points, two lookups at a time | text and coordinates belong together; so do marker, position and address |
| `VoiceCapture` | two captures | the microphone is closed; words go to their field; a stopped capture ends |
| `SubmissionSecond` | two reports, no reload | violation: the second report shows the verdict of the first |

Two retries are the least with which one cascade's output is an input of the
next; all gate rules fire alone and together within one.  One rerun that races
the processing already gives every order of two whole-row writes; two reruns
exceed twelve million states and add only a second writer of the same kind.
One fault (a restart or a database error) shows each fault at each point; the
theorems hold for any number of them, and of reruns and retries.  Runs set
`CHECK_DEADLOCK FALSE`: a ticket's coroutines all end and nothing else runs.

In the runs of `Gateway` with one worker, three requests are the least for two
submissions that race and a third that joins what they made, for a submission and
two racing votes, and for a submission, its rejection and its reopening around a
purge.  With two workers two requests already collide on a number, or let one
reject what the other stored, and two restarts interrupt both.
One worker is the Docker deployment (one `uvicorn` process), two the `systemd`
and Terraform ones (`--workers 2`, `-w 2`); a third worker adds only another
interleaving of the same kind.  A restart puts a purge between any two
statements of the other worker.
Requests are interchangeable until they are sent, so their permutations are a
symmetry; it is used for the runs without liveness only.  `CHECK_DEADLOCK FALSE`:
all requests are answered in the end.

`VotesCounted`, `ReportsCounted` and `OneIncidentPerGroup` are stated for **one**
worker, and that is no accident of the bounds: with two workers TLC refutes each
(two workers load the same counter and one increment is lost, or both search for
an incident, find none and create one).  What keeps them true is the event loop
alone, no transaction and no lock; the deployments with two workers give it up.
Conditions `restarts = 0` are there because a purge lets `max + 1` hand out the
number of a deleted complaint again.

**Fairness** (`PipelineRerun`).  `WF` on the steps of each coroutine: the event
loop runs a ready coroutine, and every await ends, because a call to a model
has a timeout and a bounded number of attempts and pauses have fixed length.
Nothing forces a submission, a rerun or a fault to occur.

**Fairness** (`GatewayTwo`).  `WF` on the steps of each request that was
received and on the purge of each worker that starts: statements end, the call
of the agents ends after 240 seconds at the latest, and startup runs to its end.
Nothing forces a request to be sent, an agent to approve or a worker to restart.

**Bounds of the frontend.**  Two slots let one request overtake another, which
is all that a late answer can do; two complaints, two accounts, two reports and two
captures are the least with which something of the first meets the second.  One
write in `LiveSync` already races a fill on the other worker, its invalidation and
its event; a queue of one event (`QueueCap`, 100 in the code) fills with that
write's two copies; a second write only makes the version shown older, and multiplies the
states past what a run can take.  One fault puts a failed call at each point.
Three points are the default centre, where the map opens, and two the
citizen may mean.  The stages of the screen before the last behave alike, so one
stands for them.  A list of one and three complaints let a ticket be pushed out,
by another's complaint or by the user's next, and come back when a newer one is
rejected.  The walkthrough's steps only matter as first, last and between.
`CHECK_DEADLOCK FALSE` is set where all captures or writes may be used up;
`Session`, `Submission` and `LocationForm` never stop.

**Fairness** (`LiveSync`).  `WF` on the steps of a write that has been committed,
on each step of a request, on the interval and on the times to live: statements
and calls end, and timers fire.  Nothing forces a write, an event to arrive, or
the stream to come back, so convergence rests on the polling and the
expiry alone, and holds only for an app that stays open.

**Fairness** (`ComplaintDrawer`).  `WF` on the interval, on answers and on the steps
of a handler that is under way; a citizen or an officer need not do anything.

**Fairness** (`Session`).  `WF` on the interval, `SF` on the answers: a request may
fail any number of times, but not every one does.  Without `SF` a gateway that
always fails would be allowed, and no code could show its notifications.

**Fairness** (`Submission`).  `WF` on the call and its callback, on the ticker and
on the polling of the list.  A stage may last, but the ticker gets on.

**Fairness** (`VoiceCapture`).  `WF` on the recorder's stop event and on the answer
of the transcription, which may be a failure.

`Session`, `Submission`, `LocationForm` and `VoiceCapture` state their types in
`TypeOK`; it is not among the properties of their runs, because it is proved for
every value of the constants.

### Findings

1. *Silence counts as approval* (`GatewayApproval`).  When the agents do not
   answer in time, or answer with an unexpected status, the complaint is stored
   (`backend/app/routes.py:860`), against the docstring at `:709` and the
   comment at `:862`.
2. *The second report shows the verdict of the first* (`SubmissionSecond`).  The
   processing screen stays mounted and resets neither its refs nor its state
   (`IssueProcessingScreen.jsx:28-39`), so a second report of the same page load
   is shown as accepted, with the ticket of the first, before the gateway has
   answered; the comment at `:120` has it hold at the last step.  A rejected
   first report likewise makes the second one look rejected at once.

### Observations

Seen while modelling, without a run of their own.  Where a property is named, the
module states it and it does not hold.

In the agent service and the gateway:

* `core_agent.py:220` imports `app.agent.tools.department_rules`, which the
  package does not have: a benign category misclick ends in an exception after
  the agents ran and were logged, and only the stub row with status `processing`
  remains, against `agent/readme.md:65` (`NoCrash`).
* `get_downstream_dependents` returns direct dependents only and its table does not
  say that evidence reads the issue, against `agent/readme.md:61-62`: a retry may
  be judged with a stale evidence or workflow output (`BlackboardFresh`;
  `GateSeesFreshOutputs` says that these two are all, and none before a retry).
* The save of a rerun overwrites whatever decision was stored since the rerun
  loaded the ticket (`core_agent.py:383`), and an error of `save_ticket` is
  swallowed (`core_agent.py:276`): the caller gets a ticket that is not stored.
* A submission commits and then awaits cache and event (`routes.py:1002-1014`): when
  the worker restarts there the complaint is stored and the citizen told of a
  failure, and nothing recognises the second submission.
* A complaint that the rules and the model approve is rejected when a remark
  contains "contradiction" (`core_agent.py:173`), against `agent/readme.md:34-36`
  (`ApprovedMeansSubmitted`).
* A rerun retries a ticket rejected for a contradiction, against the comment at
  `core_agent.py:99-100` (`ContradictionNeverRetried`), and its first
  verification is not logged (`core_agent.py:338`), against `agent/readme.md:66`;
  `TrailDecidesStatus` therefore holds only without reruns.
* `upload_resolution_images` loads the timeline, receives the photos and writes
  back what it loaded: a status set meanwhile stays, its entry does not
  (`routes.py:1221`; `readme.md:491` calls the timeline an audit log)
  (`StatusInTimeline`).
* The purge selects rejected complaints first and deletes by number
  (`routes.py:644-650`): one the other worker reopened in between is deleted
  (`OnlyRejectedPurged`).

In the browser:

* A profile that answers after a sign-out signs the user back in without a token,
  and a 401 that comes late ends a newer login (`AppContext.jsx:113-131`).
* `authError` and `authLoading` are shown nowhere, and the buttons stay enabled
  during a login, so two logins may run and the later answer wins.  A demo login
  falls back to a local user on any error, a wrong password included
  (`AppContext.jsx:188`).
* The walkthrough keeps its step when it is closed, and opens there again.
* A failed report's card says "No complaint ticket was created in the municipal
  database" (`IssueProcessingScreen.jsx:767`) also when only the answer was lost
  (`RejectedIsNotStored`); "Return to Edit Grievance" opens an empty form.
* The drawer's status, note and files survive closing it and are offered for the
  next complaint; after "Escalate" the badge says "Escalated" for later complaints
  too.  A note typed while a save runs is lost with it, and a save repeated after
  a failed upload stores its note twice (`ComplaintDetail.jsx:61-91`).
* When the map picker is opened again its pin is on the default centre while its
  position is the old one, and the default centre is looked up again, against the
  comment "Reverse geocode initial position if address is empty"
  (`MapPinPickerModal.jsx:137`) (`LookUpOnlyIfEmpty`).
* The cleanup of the form does not clear `isListeningRef`: the recogniser starts
  again after the form has closed, and a microphone granted after that stays open,
  against "Cleanup Speech & Audio on Unmount" (`ReportForm.jsx:234`)
  (`SilentAfterClose`).
* A capture started before the last is over overwrites its refs: the first
  microphone stays open, its words land behind the wrong text, and the sound of
  both is mixed.  A spoken location also replaces the voice note of the
  description, and what is typed during a dictation is overwritten by the
  next words (`ReportForm.jsx:361-402`, `567-586`).
* The vote of `AreaFeed.jsx:110-128` is shown before it is sent and not rolled back
  when it fails, and taking it back sends the same vote again.
* `PriorityQueue.jsx:12` ranks with `|| 3`, which gives rank 0 ("Critical") rank 3.
* `useComplaintTrace` neither polls nor has another way to repair a lost answer
  than the next event.

A lesser one, without a run: the fallback of `_find_or_create_incident` takes the
first incident of a category and department, however many there are, where the
comment at `backend/app/routes.py:1639` says "if only 1 incident active"; with
one worker there never is more than one (`OneIncidentPerGroup`).

## What is proved

Every safety invariant and every action property of a passing run, for all values
of the constants that the named assumptions allow.  Each inductive invariant was
checked by TLC on the instance of the run before it was proved.

### AgentPipelineProofs

From `BlackboardAssumption` and `PipelineAssumption` only (answers have their types;
the processing is not a rerun; bounds are naturals), so for all domains, answer
sets, reruns, retry and fault bounds:

| Theorem | States |
|---|---|
| `TypeCorrect` | `Spec => []TypeOK` |
| `RefinesLifecycle` | `Spec => ImplementsLifecycle` |
| `ContradictionEndsProcessing` | `Spec => []ContradictionIsFinal` |
| `ManualReviewExhaustsRetries` | `Spec => []ManualReviewIsLastResort` |
| `TrailExplainsStatus` | `Spec => [](NoneReaudited => TrailDecidesStatus)` |
| `ReturnedTicketsAreStored` | `Spec => []ReturnedIsStored` |
| `AttemptsAreBounded` | `Spec => []AttemptsWithinBudget` |
| `GateIsFresh` | `Spec => []GateSeesFreshOutputs` |
| `AuditLogReplaysCascades` | `Spec => []AuditReplaysCascade` |

* `TypeInv` is `TypeOK` and `StagePending`: a coroutine in a stage has agents of
  that stage left, at least one.  Without it `NextIn` could choose outside the
  plan and an agent with no output type could run.  The lemmas `*RunType` give
  the type of what each specialist leaves, `VerdictType` that of a verdict, and
  one lemma per action carries `TypeInv` over a step.
* `LifeInv` adds what the refinement needs: beyond the first stage the ticket
  row exists (`Registered`) and an open processing has used at most `MaxRetries`
  (`WithinRetries`).  `LifecycleStep` maps each action to a step of
  `TicketLifecycle` or to a stutter.
* `DecisionInv` relates the stored ticket to the log position that decided it,
  as long as no rerun has rewritten it (`NoneReaudited`), and says that a
  contradiction seen by an open processing has ended it.  The log only grows
  (`LogKept`), so the position stays decided.  `TrailExplainsStatus` has the
  condition `NoneReaudited` because the property fails after a rerun (see the
  observations).
* `ReturnedIsStored` is inductive as it is, given `TypeInv`.
* `FreshInv`: while a coroutine still owes agents, what is unread is unread by one
  of them, or is one of the two dependences a retry overlooks (`FreshOf`), and its
  first pass overlooks none.  That an agent comes before its readers in every stage
  and in `Rank` (`StagesAhead`, `CascadeAhead`, from `ReadersFollow`), and that
  the next one is the first that is owed (`NextIsFirst`), keeps it: reading an
  output that is written again later would leave a debt nobody owes.

The other two are about one log that all coroutines write.  They rest on
`StepView`: whatever action is taken, coroutine `j` sees one of seven things
(`View(j)`): it waits, begins, ends a stage, runs the next agent of its cascade,
tries again, concludes, or quits; and the log grows (`Grown`) by entries of its
own in a known order, or by entries of others.  So the invariants are carried
over seven cases instead of every action for every pair of coroutines.

* `CountInv`: a coroutine has logged as many verifications as its retries account
  for, a rerun one less, because the verdict it starts from is not logged.
  `AttemptsWithinBudget` alone does not say when the budget is used up.
* `ReplayInv`: what was logged since the last failed verification, and what is still
  owed, together are the cascade of what it failed, in the order of `Rank`
  (`Replaying`).  When nothing is owed the next verification closes the gap
  (`Explained`).

### GatewayProofs

From `GatewayAssumption` only (`Near` relates areas, the statuses the store itself
uses are statuses, first numbers and the bound on restarts are naturals), so for
any number of workers, requests, groups, areas and restarts:

| Theorem | States |
|---|---|
| `GatewayTypeCorrect` | `Spec => []TypeOK` |
| `ComplaintsAnchored` | `Spec => []ComplaintHasIncident` |
| `StoreMatchesSubmissions` | `Spec => []SubmissionsStoredOnce` |
| `OneWorkerGroups` | `SingleWorker => (Spec => []OneIncidentPerGroup)` |
| `OneWorkerCountsVotes` | `SingleWorker => (Spec => []VotesCounted)` |
| `OneWorkerCountsReports` | `SingleWorker => (Spec => []ReportsCounted)` |

A submission counts as stored from its commit on, however it ends: answered,
on its way to the answer, or interrupted (`Submitted`); a vote likewise (`Past`).
For each step of a request one lemma (`...Effect`) states what it may do to
`pc`, `job` and the tables; the invariants are carried over these effects and
over the three steps of a worker.

* `IncidentInv`: the incident a submission joined or created is stored, from
  before the complaint is inserted.  `ComplaintHasIncident` alone is not
  inductive: the insert of a complaint would need an incident nobody promised.
* `StoreInv` adds that as long as no worker restarted every worker serves, so no
  purge can be under way.  The distinct numbers come from the primary key, not from
  `max + 1`.
* `GroupInv`: with one worker at most one request holds the loop, and one that is
  about to create an incident saw that its group has none.
* `VotesInv` and `ReportsInv`: a handler that is about to write a counter has loaded
  it as it is, because with one worker nothing comes between the load and the
  write (`LoopExclusive`).  Requests need not be finite: that the voters of a
  complaint, and the complaints, are finite sets is part of the invariants.
  `ReportsInv` counts the complaint that is about to be inserted with its incident
  even after a restart, which can only take away what was counted.

### LiveSyncProofs

`StreamStaysWatched` (`Spec => []StreamWatched`) needs no assumption; it adds to the
property only the types of stream, timer and app.  From `LiveSyncAssumption` (there is
one list and a worker, bounds are naturals, a queue has room for one), for any number
of workers, slots, writes and faults:

| Theorem | States |
|---|---|
| `SyncTypeCorrect` | `Spec => []TypeOK` |
| `EventsShowTheirWrite` | `Spec => RefetchSeesWrite` |

`SyncInv` follows a write from its commit to the request its event causes.  A version
is `Cleared` once the copies before it are deleted from Redis, `Published` by a worker
once they are also gone from its own memory.  Writers have cleared what their step
says (`WritersClear`), two of them never have one version (`WritersApart`), and
every event in a queue or under way, and every request one has caused, is `Promised`
(`EventsTrue`).  `PromiseKept` says that no step of a write or read takes a promise
back: a commit has a higher number, and a copy stored late is `spoiled`.

### ComplaintDrawerProofs

From `ApiCallAssumption` and `DrawerAssumption` (the two statuses the gateway itself
sets are statuses, bounds are naturals), for any complaints and statuses, any number
of requests in flight:

| Theorem | States |
|---|---|
| `DrawerTypeCorrect` | `Spec => []TypeOK` |
| `NotesReachTheirComplaint` | `Spec => []NotesOnTheirComplaint` |
| `NotesAreStoredOnce` | `Spec => []NoteStoredOnce` |
| `NotesAreKept` | `Spec => NoteKept` |

`DrawerInv` adds to the types what each property needs of the handler under way.
`NotesNumbered`: notes have the number of the edit that typed them, so a new one is
no old one.  `NoteWritten`: beyond its update, a save has stored its note, so the
one that ends may clear the field.  `NotesUnsent`, while no call failed: a note that
is still in the field, or still to be sent, is not stored.  `NotesOfShown`, while
nothing was carried over: the note in the field is that of the complaint shown, the
note of a handler that of the handler's complaint.

### SessionProofs

From `ApiCallAssumption` and `SessionAssumption` (the roles are among the three and a
citizen is one, the newcomer has no account yet, the walkthrough has a step), for any
number of logins and of requests in flight:

| Theorem | States |
|---|---|
| `SessionTypeCorrect` | `Spec => []TypeOK` |
| `ScreenAndStorageAgree` | `Spec => []ScreenMatchesStorage` |
| `WorkspaceIsSomeones` | `Spec => []WorkspaceHasUser` |
| `BarrierNeverActs` | `Spec => []BarrierIdle` |
| `NotificationsAreTheUsers` | `Spec => []NotificationsOfUser` |

`AccountInv` adds `CallsAsked` (a login in flight is for an account, so its answer
cannot sign in nobody), `RoleFollowsUser`, from which `BarrierIdle` follows, and
`StorageWhole`: localStorage holds token and user of one session, or neither.
`ScreenMatchesStorage` says nothing of a local user, and the sign-out and the page
load that end one need it.  `HookOfUser` extends `NotificationsOfUser` to the fetches
in flight: without that, an answer could bring anybody's.

### SubmissionProofs

From `SubmissionAssumption` (at least one report, a list holds one complaint, the
screen has a stage before the last, other bounds are naturals), for any number of
reports, stages, complaints of others and page loads:

| Theorem | States |
|---|---|
| `SubmissionTypeCorrect` | `Spec => []TypeOK` |
| `TicketsAreKept` | `Spec => []TicketIsKept` |
| `VerdictOfFirst` | `Spec => []VerdictIsTrue` |

* `ReportsTrue`: what the gateway acknowledged it stored.  `TableTrue`: a row of
  the table is another citizen's or of a report that was stored, so what is listed
  was.  `TicketsHeld`: whatever
  ticket the screen, its data ref, the drawer or the list holds is stored, and
  what the browser remembers is never forgotten.  The ref matters: the button
  copies it to the screen long after the answer came.
* `ScreenOfFirst`: while a page load has seen one submission, refs and state of the
  screen are about that one, and data and error are never both set by its answer.
  `ScreenUntouched` starts it: before the first submission the screen is fresh.  It
  does not hold of a second submission, which `SubmissionSecond` shows.

### VoiceCaptureProofs

From `VoiceAssumption` (there may be a capture), for any number of captures:

| Theorem | States |
|---|---|
| `VoiceTypeCorrect` | `Spec => []TypeOK` |
| `MicrophoneIsReleased` | `Spec => []MicrophoneReleased` |
| `FieldsStayApart` | `Spec => []FieldsApart` |

Both speak of captures that did not cross.  `OneCapture` is what that means for the
state: whatever still asks, records, hears, stops or closes is the last capture, and
the shared refs `stream`, `recorder` and `target` are its own.  `InTurn` orders its phases:
it waits for the microphone, then listens, then its recorder stops, and the
microphone is open only in the last two.  `OfTheirField` extends `FieldsApart` to
everything that will still be written into a text: the base text, the timer's, the
chunks recorded and the transcriptions under way.

### LocationFormProofs

From `LocationAssumption` only (the default centre is a point, the two texts are
not, the bound on lookups is positive), so for all points and any number of lookups:

| Theorem | States |
|---|---|
| `LocationTypeCorrect` | `Spec => []TypeOK` |
| `ReportPlacedTogether` | `Spec => []PlacedTogether` |
| `DialogOnOnePoint` | `Spec => []DialogAgrees` |

`DialogAgrees` speaks of the address when no lookup is left; the step that takes
the last one could end anywhere.  `PlaceInv` therefore says (`AddressAgrees`)
that while lookups are waited for the newest of them is for the position, unless an
answer overtook an older one.  An answer in its turn removes the oldest, so
either the newest stays (`RemoveAtType`) or it was the newest and the address
is the position's.  `PlacedTogether` follows at `Confirm`, the only step that copies
the dialog into the form.

### Only model-checked

Liveness under fairness is beyond the prover: `Termination`, `RequestsEnd`,
`Converges`, `ShowsSelected`, `NotificationsCatchUp`, `ScreenSettles`,
`TicketIsListed` and `StoppedIsOver`.  `TrailDecidesStatus` is proved only up to the
first rerun that rewrites the ticket, and the properties of one worker only for
one worker: beyond these conditions the code does not keep them.  The two runs that
expect a violation refute what they check.

## What is not modelled, and the plan

Left out for good: geocoding, EXIF and voice I/O, prompt texts, rendering and
styles, deployment scripts (read for worker counts, timeouts and restart
policy), agent tools and the short-term memory, which the pipeline does not use.

Of the gateway, the read-only routes (lists, statistics, map) change no state; the
proxies to the trace and rerun of the agents always end in 404, because they ask
with the gateway's ticket number.  The rows of accounts and notifications are left
out: `Session` has every answer their routes can give.

The LLM client and the location service are left out: their retries, pauses and
caches are sequential code whose only effect on the parts modelled here is an
answer, late or missing, which `AgentPipeline` already lets happen at any call.

Of the frontend, the dashboards, maps, charts and the queue are renderings of
lists the data layer fetches; `SideNav` and `setRole` are used nowhere.  The
optimistic vote of `AreaFeed` is the one piece of protocol state left out.

Every safety invariant and action property of a passing run is proved.  What the
plan has left:

1. the cases the theorems exclude, each stated positively: what several workers
   still guarantee about votes and reports (`VotesCounted` becomes an upper bound);
2. an abstract specification of the copies and events of `LiveSync`, with
   `SyncInv` as the invariant its refinement needs;
3. shorter proofs, with the lemmas of `AgentPipelineProofs` on a growing log and
   the rank of the agents used by more of it.
