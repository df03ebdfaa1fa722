------------------------------ MODULE LiveSync ------------------------------
(***************************************************************************)
(* A list on the screen, kept up to date by polling and by the event       *)
(* stream, and served by workers that keep it in Redis and in their own    *)
(* memory (frontend/src/hooks/useApi.js, frontend/src/context/             *)
(* AppContext.jsx, backend/app/cache.py and the handlers of routes.py that *)
(* use it).                                                                *)
(*                                                                         *)
(* A write commits, deletes the copies and publishes; a read may find a    *)
(* copy, or read the database and store a copy later.  Every await of a    *)
(* worker is a boundary between two actions.                               *)
(***************************************************************************)
EXTENDS ApiCall, Integers, Sequences

CONSTANTS List,        \* the one subject: the complaints list
          Workers,     \* the gateway's worker processes
          MaxWrites,   \* bound on the writes
          MaxFaults,   \* bound on what fails: requests, Redis, the stream
          QueueCap     \* the size of a subscriber's queue, 100

ASSUME LiveSyncAssumption ==
  /\ Subjects = {List} /\ Workers # {}
  /\ MaxWrites \in Nat /\ MaxFaults \in Nat /\ QueueCap \in Nat \ {0}

VARIABLES
  db,       \* the number of writes committed
  redis,    \* the version Redis holds, None without one
  memory,   \* memory[w]: the copy in the memory of worker w
  writer,   \* writer[w]: what the write of worker w has left to do
  serve,    \* serve[s]: how far the gateway is with the request of slot s
  es,       \* the EventSource of the page
  host,     \* the worker that serves its stream
  timer,    \* whether the reconnect timer runs
  queue,    \* the events in the subscriber's queue, by their write
  relay,    \* events the reader task has taken from Redis
  app,      \* whether AppProvider and the screen are mounted
  faults,   \* what has failed so far
  spoiled   \* a copy was stored after a newer write, or Redis failed

gateway == <<db, redis, memory, writer, spoiled>>
stream == <<es, host, timer, queue, relay>>
vars == <<hook, gateway, serve, stream, app, faults>>

None == -1
Copies == Nat \cup {None}
Write == [version : Nat, worker : Workers]
Anyone == CHOOSE w \in Workers : TRUE

\* A request waits for its lookup with the event that made the hook fetch,
\* version 0 without one; later with what it read, and the worker that did.
NoWrite == [version |-> 0, worker |-> Anyone]
Unserved == [at |-> "none", version |-> 0, worker |-> Anyone]

TypeOK ==
  /\ HookTypeOK
  /\ db \in 0..MaxWrites
  /\ redis \in Copies
  /\ memory \in [Workers -> Copies]
  /\ writer \in [Workers -> [at : {"idle", "redis", "memory", "local"}, version : Nat]]
  /\ serve \in [Slots -> [at : {"none", "sent", "redis", "memory", "answer"},
                          version : Nat, worker : Workers]]
  /\ es \in {"none", "open"} /\ host \in Workers /\ timer \in BOOLEAN
  /\ queue \in Seq(Write) /\ relay \in Seq(Write)
  /\ app \in BOOLEAN /\ spoiled \in BOOLEAN
  /\ faults \in 0..MaxFaults

Init ==
  /\ HookMounts(List)
  /\ serve = [[s \in Slots |-> Unserved] EXCEPT ![1].at = "sent"]
  /\ db = 0 /\ redis = None /\ memory = [w \in Workers |-> None]
  /\ writer = [w \in Workers |-> [at |-> "idle", version |-> 0]]
  /\ es = "open" /\ host = Anyone /\ timer = FALSE
  /\ queue = <<>> /\ relay = <<>>
  /\ app = TRUE /\ faults = 0 /\ spoiled = FALSE

----------------------------------------------------------------------------
(* Writes                                                                  *)

\* A handler commits: a complaint, a vote, an update or a photo.
Commit(w) ==
  /\ writer[w].at = "idle"
  /\ db < MaxWrites
  /\ db' = db + 1
  /\ writer' = [writer EXCEPT ![w] = [at |-> "redis", version |-> db + 1]]
  /\ UNCHANGED <<hook, redis, memory, spoiled, serve, stream, app, faults>>

Fault == faults < MaxFaults /\ faults' = faults + 1

\* Mutated form: the event is published before the copies are deleted.
ClearRedisTooLate(w) ==
  /\ writer[w].at = "redis"
  /\ writer' = [writer EXCEPT ![w].at = "memory"]
  /\ UNCHANGED <<hook, db, redis, memory, spoiled, serve, stream, app, faults>>

\* invalidate_pattern: the keys in Redis; an exception is swallowed.
ClearRedis(w) ==
  /\ writer[w].at = "redis"
  /\ \/ redis' = None /\ UNCHANGED <<faults, spoiled>>
     \/ Fault /\ spoiled' = TRUE /\ UNCHANGED redis
  /\ writer' = [writer EXCEPT ![w].at = "memory"]
  /\ UNCHANGED <<hook, db, memory, serve, stream, app>>

EventOf(w) == [version |-> writer[w].version, worker |-> w]

\* invalidate_pattern: the worker's own copies; publish_event up to Redis.
ClearMemory(w) ==
  /\ writer[w].at = "memory"
  /\ memory' = [memory EXCEPT ![w] = None]
  /\ \/ /\ relay' = IF es = "open" THEN Append(relay, EventOf(w)) ELSE relay
        /\ UNCHANGED faults
     \/ Fault /\ UNCHANGED relay
  /\ writer' = [writer EXCEPT ![w].at = "local"]
  /\ UNCHANGED <<hook, db, redis, spoiled, serve, es, host, timer, queue, app>>

\* publish_event: put_nowait into the queues of the worker's own subscribers;
\* a full queue refuses the event.
PushLocal(w) ==
  /\ writer[w].at = "local"
  /\ queue' = IF es = "open" /\ host = w /\ Len(queue) < QueueCap
              THEN Append(queue, EventOf(w)) ELSE queue
  /\ writer' = [writer EXCEPT ![w].at = "idle"]
  /\ UNCHANGED <<hook, db, redis, memory, spoiled, serve, es, host, timer, relay, app,
                 faults>>

\* _reader of subscribe_events: put waits for room.
Relay ==
  /\ relay # <<>> /\ Len(queue) < QueueCap
  /\ queue' = Append(queue, Head(relay)) /\ relay' = Tail(relay)
  /\ UNCHANGED <<hook, gateway, serve, es, host, timer, app, faults>>

\* The time to live of a copy is over.
ExpireRedis ==
  /\ redis # None /\ redis' = None
  /\ UNCHANGED <<hook, db, memory, writer, spoiled, serve, stream, app, faults>>

ExpireMemory(w) ==
  /\ memory[w] # None
  /\ memory' = [memory EXCEPT ![w] = None]
  /\ UNCHANGED <<hook, db, redis, writer, spoiled, serve, stream, app, faults>>

----------------------------------------------------------------------------
(* Reads                                                                   *)

\* Mutated form: a miss in the worker's memory is answered like a copy.
LookupUnchecked(s, w) ==
  /\ serve[s].at = "sent"
  /\ serve' = [serve EXCEPT ![s] = [at |-> "answer", worker |-> Anyone,
                 version |-> IF redis # None THEN redis ELSE memory[w]]]
  /\ UNCHANGED <<hook, gateway, stream, app, faults>>

\* get_cache: Redis, else the worker's memory; a miss reads the database.
Lookup(s, w) ==
  /\ serve[s].at = "sent"
  /\ LET reply(version, at, by) ==
           serve' = [serve EXCEPT ![s] = [at |-> at, version |-> version, worker |-> by]]
         elsewhere == IF memory[w] # None THEN reply(memory[w], "answer", Anyone)
                      ELSE reply(db, "redis", w)
     IN \/ /\ IF redis # None THEN reply(redis, "answer", Anyone) ELSE elsewhere
           /\ UNCHANGED faults
        \/ Fault /\ elsewhere
  /\ UNCHANGED <<hook, gateway, stream, app>>

\* A newer write has already deleted what is about to be stored.
Late(version) ==
  \E k \in (version + 1)..db :
    \A w \in Workers : ~(writer[w].at = "redis" /\ writer[w].version = k)

\* set_cache, up to its await and after it.
StoreRedis(s) ==
  /\ serve[s].at = "redis"
  /\ \/ /\ redis' = serve[s].version
        /\ spoiled' = (spoiled \/ Late(serve[s].version))
        /\ UNCHANGED faults
     \/ Fault /\ UNCHANGED <<redis, spoiled>>
  /\ serve' = [serve EXCEPT ![s].at = "memory"]
  /\ UNCHANGED <<hook, db, memory, writer, stream, app>>

StoreMemory(s) ==
  /\ serve[s].at = "memory"
  /\ memory' = [memory EXCEPT ![serve[s].worker] = serve[s].version]
  /\ spoiled' = (spoiled \/ Late(serve[s].version))
  /\ serve' = [serve EXCEPT ![s].at = "answer", ![s].worker = Anyone]
  /\ UNCHANGED <<hook, db, redis, writer, stream, app, faults>>

\* The page receives the answer.
Receive(s) ==
  /\ serve[s].at = "answer"
  /\ Answer(s, serve[s].version)
  /\ serve' = [serve EXCEPT ![s] = Unserved]
  /\ UNCHANGED <<gateway, stream, app, faults>>

\* The request does not arrive, or its answer does not.
Break(s) ==
  /\ serve[s].at \in {"sent", "answer"}
  /\ Fault
  /\ Fails(s)
  /\ serve' = [serve EXCEPT ![s] = Unserved]
  /\ UNCHANGED <<gateway, stream, app>>

----------------------------------------------------------------------------
(* The page                                                                *)

\* fetch_(false), with the gateway's side of the request.
Refetch(s, cause) ==
  /\ app
  /\ Begin(s, List, FALSE)
  /\ serve' = [serve EXCEPT ![s] = [at |-> "sent", version |-> cause.version,
                                       worker |-> cause.worker]]

\* Mutated form: the interval rests while the stream is open.
PollWithoutStream(s) ==
  /\ es # "open"
  /\ Refetch(s, NoWrite)
  /\ UNCHANGED <<gateway, stream, app, faults>>

\* The interval of the hook.
Poll(s) ==
  /\ Refetch(s, NoWrite)
  /\ UNCHANGED <<gateway, stream, app, faults>>

\* An update arrives: setRefreshTrigger, and the effects that depend on it.
Update ==
  /\ es = "open" /\ queue # <<>>
  /\ \E s \in Slots : Refetch(s, Head(queue))
  /\ queue' = Tail(queue)
  /\ UNCHANGED <<gateway, es, host, timer, relay, app, faults>>

----------------------------------------------------------------------------
(* The event stream                                                        *)

\* The gateway drops the subscriber and its queue with the connection.
Unsubscribed == queue' = <<>> /\ relay' = <<>> /\ host' = Anyone

\* Mutated form: onerror sets the timer and leaves the stream to itself.
StreamErrorOpen ==
  /\ es = "open" /\ ~timer /\ Fault
  /\ timer' = TRUE
  /\ UNCHANGED <<hook, gateway, serve, es, host, queue, relay, app>>

\* onerror: close, and connect again in four seconds.
StreamError ==
  /\ es = "open" /\ Fault
  /\ es' = "none" /\ timer' = TRUE /\ Unsubscribed
  /\ UNCHANGED <<hook, gateway, serve, app>>

\* connectSse by the timer, and subscribe_events of some worker; what is
\* published before is not repeated.  A constructor that throws sets the timer
\* again.
Reconnect ==
  /\ timer
  /\ \/ /\ es' = "open" /\ timer' = FALSE
        /\ host' \in Workers
        /\ UNCHANGED faults
     \/ Fault /\ UNCHANGED <<es, timer, host>>
  /\ UNCHANGED <<hook, gateway, serve, queue, relay, app>>

\* The cleanup of the effect: AppProvider unmounts, and the screen with it.
\* What the hook still awaits changes nothing any more.
CloseApp ==
  /\ app /\ app' = FALSE
  /\ es' = "none" /\ timer' = FALSE /\ Unsubscribed
  /\ data' = Empty /\ loading' = TRUE
  /\ flight' = [s \in Slots |-> Free]
  /\ serve' = [s \in Slots |-> Unserved]
  /\ UNCHANGED <<gateway, faults>>

----------------------------------------------------------------------------
GatewayStep ==
  \/ \E w \in Workers : Commit(w) \/ ClearRedis(w) \/ ClearMemory(w) \/ PushLocal(w)
                          \/ ExpireMemory(w)
  \/ ExpireRedis \/ Relay
  \/ \E s \in Slots, w \in Workers : Lookup(s, w)
  \/ \E s \in Slots : StoreRedis(s) \/ StoreMemory(s)

PageStep ==
  \/ \E s \in Slots : Poll(s) \/ Receive(s) \/ Break(s)
  \/ Update \/ StreamError \/ Reconnect \/ CloseApp

Next == GatewayStep \/ PageStep

Spec == Init /\ [][Next]_vars

\* The gateway goes on with what it began, its answers arrive, intervals and
\* timers fire, and no copy lives for ever.
Fairness ==
  /\ \A w \in Workers : /\ WF_vars(ClearRedis(w)) /\ WF_vars(ClearMemory(w))
                        /\ WF_vars(PushLocal(w)) /\ WF_vars(ExpireMemory(w))
  /\ \A s \in Slots : /\ WF_vars(\E w \in Workers : Lookup(s, w)) /\ WF_vars(StoreRedis(s))
                      /\ WF_vars(StoreMemory(s)) /\ WF_vars(Receive(s))
                      /\ WF_vars(Poll(s))
  /\ WF_vars(ExpireRedis)

FairSpec == Spec /\ Fairness

----------------------------------------------------------------------------
(* Properties                                                              *)

\* While the app is mounted it has a stream or a running timer, never both and
\* never neither; after the cleanup it has none: no stream leaks and no event
\* loop dies silently (connectSse, AppContext.jsx:37-88).
StreamWatched ==
  /\ app => (es = "open") # timer
  /\ ~app => es = "none" /\ ~timer

\* A fetch started by an event shows the write the event tells of, because the
\* copies are deleted before it is published; the exceptions are a copy stored
\* late or kept by a failed call, and the memory of another worker
\* (routes.py:1095-1096, cache.py:53-72).
RefetchSeesWrite ==
  [][\A s \in Slots :
       /\ serve[s].at = "sent" /\ serve'[s].at \in {"redis", "answer"}
       /\ serve'[s].version < serve[s].version
       => \/ spoiled
          \/ \E w \in Workers \ {serve[s].worker} : memory[w] = serve'[s].version]_vars

\* When the writes have ended, a screen that stays open ends up showing the
\* last of them for good, whatever copies, lost events and late answers there
\* were (useApi.js:51-57, cache.py:74-92).
Converges ==
  ([]app) => <>[](data = [of |-> List, version |-> db])
=============================================================================
