--------------------------- MODULE LiveSyncProofs ---------------------------
(***************************************************************************)
(* Theorems of LiveSync, for any number of workers, slots, writes and      *)
(* faults.                                                                 *)
(***************************************************************************)
EXTENDS LiveSync, SequenceTheorems, TLAPS

\* The stream, the timer and the app have their types, and the watch is kept:
\* what connectSse and its cleanup have to maintain between them.
StreamInv ==
  /\ es \in {"none", "open"} /\ timer \in BOOLEAN /\ app \in BOOLEAN
  /\ StreamWatched

\* The app mounts with an open stream (AppContext.jsx:83).
LEMMA StreamInit == Init => StreamInv
BY DEF Init, StreamInv, StreamWatched

\* Writes and reads leave the stream, its timer and the app alone
\* (cache.py, routes.py).
LEMMA GatewayKeepsStream ==
  ASSUME GatewayStep
  PROVE  UNCHANGED <<es, timer, app>>
<1>1. ASSUME NEW w \in Workers, Commit(w) PROVE UNCHANGED <<es, timer, app>>
  BY <1>1 DEF Commit, stream
<1>2. ASSUME NEW w \in Workers, ClearRedis(w) PROVE UNCHANGED <<es, timer, app>>
  BY <1>2 DEF ClearRedis, stream
<1>3. ASSUME NEW w \in Workers, ClearMemory(w) PROVE UNCHANGED <<es, timer, app>>
  BY <1>3 DEF ClearMemory
<1>4. ASSUME NEW w \in Workers, PushLocal(w) PROVE UNCHANGED <<es, timer, app>>
  BY <1>4 DEF PushLocal
<1>5. ASSUME NEW w \in Workers, ExpireMemory(w) PROVE UNCHANGED <<es, timer, app>>
  BY <1>5 DEF ExpireMemory, stream
<1>6. CASE ExpireRedis
  BY <1>6 DEF ExpireRedis, stream
<1>7. CASE Relay
  BY <1>7 DEF Relay
<1>8. ASSUME NEW s \in Slots, NEW w \in Workers, Lookup(s, w)
      PROVE  UNCHANGED <<es, timer, app>>
  BY <1>8 DEF Lookup, stream
<1>9. ASSUME NEW s \in Slots, StoreRedis(s) PROVE UNCHANGED <<es, timer, app>>
  BY <1>9 DEF StoreRedis, stream
<1>10. ASSUME NEW s \in Slots, StoreMemory(s) PROVE UNCHANGED <<es, timer, app>>
  BY <1>10 DEF StoreMemory, stream
<1> QED
  BY <1>1, <1>2, <1>3, <1>4, <1>5, <1>6, <1>7, <1>8, <1>9, <1>10 DEF GatewayStep

\* Fetches and updates leave them alone too; an error closes the stream and sets
\* the timer, the timer opens it again, and the cleanup ends both
\* (AppContext.jsx:47-88).
LEMMA PageKeepsWatch ==
  ASSUME StreamInv, PageStep
  PROVE  StreamInv'
<1>1. ASSUME NEW s \in Slots, Poll(s) PROVE StreamInv'
  BY <1>1 DEF Poll, stream, StreamInv, StreamWatched
<1>2. ASSUME NEW s \in Slots, Receive(s) PROVE StreamInv'
  BY <1>2 DEF Receive, stream, StreamInv, StreamWatched
<1>3. ASSUME NEW s \in Slots, Break(s) PROVE StreamInv'
  BY <1>3 DEF Break, stream, StreamInv, StreamWatched
<1>4. CASE Update
  BY <1>4 DEF Update, StreamInv, StreamWatched
<1>5. CASE StreamError
  BY <1>5 DEF StreamError, StreamInv, StreamWatched
<1>6. CASE Reconnect
  BY <1>6 DEF Reconnect, StreamInv, StreamWatched
<1>7. CASE CloseApp
  BY <1>7 DEF CloseApp, StreamInv, StreamWatched
<1> QED
  BY <1>1, <1>2, <1>3, <1>4, <1>5, <1>6, <1>7 DEF PageStep

\* The app is never without a stream or the timer that opens the next one, and
\* leaves neither behind (AppContext.jsx:42-89).
THEOREM StreamStaysWatched == Spec => []StreamWatched
<1>1. StreamInv /\ [Next]_vars => StreamInv'
  <2> SUFFICES ASSUME StreamInv, [Next]_vars PROVE StreamInv'
    OBVIOUS
  <2>1. CASE GatewayStep
    BY <2>1, GatewayKeepsStream DEF StreamInv, StreamWatched
  <2>2. CASE PageStep
    BY <2>2, PageKeepsWatch
  <2>3. CASE UNCHANGED vars
    BY <2>3 DEF vars, stream, StreamInv, StreamWatched
  <2> QED
    BY <2>1, <2>2, <2>3 DEF Next
<1>2. StreamInv => StreamWatched
  BY DEF StreamInv
<1> QED
  BY StreamInit, <1>1, <1>2, PTL DEF Spec

----------------------------------------------------------------------------
(* Types                                                                   *)

\* The values a slot of the hook and the gateway's side of it start with.
LEMMA SyncConstants ==
  /\ List \in Asked /\ Empty \in Shown /\ Free \in Fetch
  /\ Anyone \in Workers /\ None \in Copies /\ None \notin Nat
  /\ Unserved.at = "none"
  /\ Unserved \in [at : {"none", "sent", "redis", "memory", "answer"},
                   version : Nat, worker : Workers]
BY LiveSyncAssumption
   DEF Asked, Empty, Shown, Free, Fetch, Anyone, None, Copies, Unserved

\* A mounted page of a gateway without writes (useApi.js:24-57,
\* AppContext.jsx:42).
LEMMA TypeInit == Init => TypeOK
<1> SUFFICES ASSUME Init PROVE TypeOK
  OBVIOUS
<1>1. HookTypeOK
  <2>1. [busy |-> TRUE, of |-> List, initial |-> TRUE] \in Fetch
    BY SyncConstants DEF Fetch
  <2> QED
    BY <2>1, SyncConstants DEF Init, HookMounts, HookTypeOK
<1>2. serve \in [Slots -> [at : {"none", "sent", "redis", "memory", "answer"},
                           version : Nat, worker : Workers]]
  <2>1. \A s \in Slots : serve[s] = IF s = 1 THEN [Unserved EXCEPT !.at = "sent"]
                                    ELSE Unserved
    BY DEF Init
  <2>2. serve = [s \in Slots |-> serve[s]]
    BY DEF Init
  <2> QED
    BY <2>1, <2>2, SyncConstants DEF Unserved
<1>3. queue \in Seq(Write) /\ relay \in Seq(Write)
  BY EmptySeq DEF Init
<1>4. writer \in [Workers -> [at : {"idle", "redis", "memory", "local"}, version : Nat]]
  BY DEF Init
<1>5. /\ db \in 0..MaxWrites /\ faults \in 0..MaxFaults
      /\ redis \in Copies /\ memory \in [Workers -> Copies]
  BY SyncConstants, LiveSyncAssumption DEF Init
<1>6. /\ es \in {"none", "open"} /\ host \in Workers /\ timer \in BOOLEAN
      /\ app \in BOOLEAN /\ spoiled \in BOOLEAN
  BY SyncConstants DEF Init
<1> QED
  BY <1>1, <1>2, <1>3, <1>4, <1>5, <1>6 DEF TypeOK

\* A failed call counts.
LEMMA FaultType ==
  ASSUME TypeOK, Fault \/ UNCHANGED faults
  PROVE  faults' \in 0..MaxFaults
BY LiveSyncAssumption DEF Fault, TypeOK

\* The event a worker publishes tells of its own write (routes.py:1095-1096).
LEMMA EventType ==
  ASSUME TypeOK, NEW w \in Workers
  PROVE  EventOf(w) \in Write
BY DEF TypeOK, EventOf, Write

\* Writes, the relay and the times to live keep the types (cache.py).
LEMMA WriteKeepsType ==
  ASSUME TypeOK, NEW w \in Workers,
         Commit(w) \/ ClearRedis(w) \/ ClearMemory(w) \/ PushLocal(w)
         \/ ExpireMemory(w) \/ ExpireRedis \/ Relay
  PROVE  TypeOK'
<1>1. CASE Commit(w)
  BY <1>1, LiveSyncAssumption DEF Commit, TypeOK, HookTypeOK, hook, stream
<1>2. CASE ClearRedis(w)
  <2>1. faults' \in 0..MaxFaults
    BY <1>2, FaultType DEF ClearRedis
  <2>2. redis' \in Copies /\ spoiled' \in BOOLEAN
    BY <1>2, SyncConstants DEF ClearRedis, TypeOK
  <2> QED
    BY <1>2, <2>1, <2>2 DEF ClearRedis, TypeOK, HookTypeOK, hook, stream
<1>3. CASE ClearMemory(w)
  <2>1. Append(relay, EventOf(w)) \in Seq(Write)
    BY EventType, AppendProperties DEF TypeOK
  <2>2. relay' \in Seq(Write)
    BY <1>3, <2>1 DEF ClearMemory, TypeOK
  <2>3. faults' \in 0..MaxFaults
    BY <1>3, FaultType DEF ClearMemory
  <2>4. memory' \in [Workers -> Copies]
    BY <1>3, SyncConstants DEF ClearMemory, TypeOK
  <2> QED
    BY <1>3, <2>2, <2>3, <2>4 DEF ClearMemory, TypeOK, HookTypeOK, hook
<1>4. CASE PushLocal(w)
  <2>1. queue' \in Seq(Write)
    BY <1>4, EventType, AppendProperties DEF PushLocal, TypeOK
  <2> QED
    BY <1>4, <2>1 DEF PushLocal, TypeOK, HookTypeOK, hook
<1>5. CASE ExpireMemory(w)
  BY <1>5, SyncConstants DEF ExpireMemory, TypeOK, HookTypeOK, hook, stream
<1>6. CASE ExpireRedis
  BY <1>6, SyncConstants DEF ExpireRedis, TypeOK, HookTypeOK, hook, stream
<1>7. CASE Relay
  <2>1. /\ Head(relay) \in Write
        /\ Tail(relay) \in Seq(Write)
    BY <1>7, HeadTailProperties DEF Relay, TypeOK
  <2>2. queue' \in Seq(Write)
    BY <1>7, <2>1, AppendProperties DEF Relay, TypeOK
  <2> QED
    BY <1>7, <2>1, <2>2 DEF Relay, TypeOK, HookTypeOK, hook, gateway
<1> QED
  BY <1>1, <1>2, <1>3, <1>4, <1>5, <1>6, <1>7

\* So do the three steps of a read (cache.py:23-50).
LEMMA ReadKeepsType ==
  ASSUME TypeOK, NEW s \in Slots, NEW w \in Workers,
         Lookup(s, w) \/ StoreRedis(s) \/ StoreMemory(s)
  PROVE  TypeOK'
<1>1. CASE Lookup(s, w)
  <2>1. PICK a \in {"redis", "answer"}, v \in Nat, u \in Workers :
          serve' = [serve EXCEPT ![s] = [at |-> a, version |-> v, worker |-> u]]
    BY <1>1, SyncConstants DEF Lookup, TypeOK, Copies
  <2>2. faults' \in 0..MaxFaults
    BY <1>1, FaultType DEF Lookup
  <2> QED
    BY <1>1, <2>1, <2>2 DEF Lookup, TypeOK, HookTypeOK, hook, gateway, stream
<1>2. CASE StoreRedis(s)
  <2>1. spoiled' \in BOOLEAN
    BY <1>2 DEF StoreRedis, TypeOK
  <2>2. faults' \in 0..MaxFaults
    BY <1>2, FaultType DEF StoreRedis
  <2>3. redis' \in Copies
    BY <1>2 DEF StoreRedis, TypeOK, Copies
  <2> QED
    BY <1>2, <2>1, <2>2, <2>3 DEF StoreRedis, TypeOK, HookTypeOK, hook, stream
<1>3. CASE StoreMemory(s)
  <2>1. spoiled' \in BOOLEAN
    BY <1>3 DEF StoreMemory, TypeOK
  <2>2. memory' \in [Workers -> Copies]
    BY <1>3 DEF StoreMemory, TypeOK, Copies
  <2> QED
    BY <1>3, <2>1, <2>2, SyncConstants
       DEF StoreMemory, TypeOK, HookTypeOK, hook, stream
<1> QED
  BY <1>1, <1>2, <1>3

\* A refetch starts with the event that caused it (useApi.js:30-49).
LEMMA RefetchType ==
  ASSUME TypeOK, NEW s \in Slots, NEW cause \in Write, Refetch(s, cause)
  PROVE  /\ HookTypeOK'
         /\ serve' = [serve EXCEPT ![s] = [at |-> "sent", version |-> cause.version,
                                           worker |-> cause.worker]]
         /\ serve' \in [Slots -> [at : {"none", "sent", "redis", "memory", "answer"},
                                  version : Nat, worker : Workers]]
<1>1. [busy |-> TRUE, of |-> List, initial |-> FALSE] \in Fetch
  BY SyncConstants DEF Fetch
<1>2. flight' \in [Slots -> Fetch] /\ loading' \in BOOLEAN /\ data' \in Shown
  BY <1>1 DEF Refetch, Begin, TypeOK, HookTypeOK
<1> QED
  BY <1>2 DEF Refetch, Write, TypeOK, HookTypeOK

\* An answer or an error ends a fetch (useApi.js:36-47).
LEMMA FetchEndsType ==
  ASSUME TypeOK, NEW s \in Slots, NEW version \in Nat,
         Answer(s, version) \/ Fails(s)
  PROVE  HookTypeOK'
<1>1. flight[s].of \in Asked
  BY DEF TypeOK, HookTypeOK, Fetch
<1>2. data' \in Shown
  BY <1>1, SyncConstants DEF Answer, Fails, Shown, TypeOK, HookTypeOK
<1>3. flight' \in [Slots -> Fetch] /\ loading' \in BOOLEAN
  BY SyncConstants DEF Answer, Fails, Ends, TypeOK, HookTypeOK
<1> QED
  BY <1>2, <1>3 DEF HookTypeOK

\* Polling, answers, errors and the stream keep the types (useApi.js,
\* AppContext.jsx:37-89).
LEMMA PageKeepsType ==
  ASSUME TypeOK, PageStep
  PROVE  TypeOK'
<1>1. ASSUME NEW s \in Slots, Poll(s) PROVE TypeOK'
  <2>1. NoWrite \in Write
    BY SyncConstants DEF NoWrite, Write
  <2> QED
    BY <1>1, <2>1, RefetchType DEF Poll, TypeOK, gateway, stream
<1>2. ASSUME NEW s \in Slots, Receive(s) PROVE TypeOK'
  <2>1. HookTypeOK'
    BY <1>2, FetchEndsType DEF Receive, TypeOK
  <2> QED
    BY <1>2, <2>1, SyncConstants DEF Receive, TypeOK, gateway, stream
<1>3. ASSUME NEW s \in Slots, Break(s) PROVE TypeOK'
  <2>1. HookTypeOK'
    BY <1>3, FetchEndsType DEF Break
  <2> QED
    BY <1>3, <2>1, SyncConstants, LiveSyncAssumption
       DEF Break, Fault, TypeOK, gateway, stream
<1>4. CASE Update
  <2>1. Head(queue) \in Write /\ Tail(queue) \in Seq(Write)
    BY <1>4, HeadTailProperties DEF Update, TypeOK
  <2> QED
    BY <1>4, <2>1, RefetchType DEF Update, TypeOK, gateway
<1>5. CASE StreamError
  BY <1>5, SyncConstants, LiveSyncAssumption, EmptySeq
     DEF StreamError, Unsubscribed, Fault, TypeOK, HookTypeOK, hook, gateway
<1>6. CASE Reconnect
  <2>1. faults' \in 0..MaxFaults
    BY <1>6, FaultType DEF Reconnect
  <2>2. es' \in {"none", "open"} /\ timer' \in BOOLEAN /\ host' \in Workers
    BY <1>6 DEF Reconnect, TypeOK
  <2> QED
    BY <1>6, <2>1, <2>2 DEF Reconnect, TypeOK, HookTypeOK, hook, gateway
<1>7. CASE CloseApp
  BY <1>7, SyncConstants, EmptySeq
     DEF CloseApp, Unsubscribed, TypeOK, HookTypeOK, gateway
<1> QED
  BY <1>1, <1>2, <1>3, <1>4, <1>5, <1>6, <1>7 DEF PageStep

\* Every step keeps the types.
LEMMA StepKeepsType ==
  ASSUME TypeOK, [Next]_vars
  PROVE  TypeOK'
<1>1. CASE GatewayStep
  BY <1>1, WriteKeepsType, ReadKeepsType, SyncConstants DEF GatewayStep
<1>2. CASE PageStep
  BY <1>2, PageKeepsType
<1>3. CASE UNCHANGED vars
  BY <1>3 DEF vars, hook, gateway, stream, TypeOK, HookTypeOK
<1> QED
  BY <1>1, <1>2, <1>3 DEF Next

\* Every variable keeps its type: hook, copies, writes, requests, stream and
\* queues (useApi.js, cache.py, AppContext.jsx).
THEOREM SyncTypeCorrect == Spec => []TypeOK
<1>1. TypeOK /\ [Next]_vars => TypeOK'
  BY StepKeepsType
<1> QED
  BY TypeInit, <1>1, PTL DEF Spec

----------------------------------------------------------------------------
(* What an event promises                                                  *)

\* No worker is still to delete the copies that write v makes stale.
Deleted(v) == \A u \in Workers : writer[u].at = "redis" => writer[u].version # v

\* A copy is gone or holds write v.
Holds(copy, v) == copy = None \/ copy >= v

\* The shared copies are no older than write v, and will not be.
Cleared(v) ==
  /\ v \in 0..db /\ Deleted(v)
  /\ ~spoiled => Holds(redis, v)

\* The event of write v, by worker w, may go out: neither are those of the
\* worker itself (routes.py:1095-1096).
Published(v, w) == Cleared(v) /\ (~spoiled => Holds(memory[w], v))

Promised(e) == Published(e.version, e.worker)

\* Two workers never write the same version.
WritersApart ==
  /\ \A w \in Workers : writer[w].at # "idle" => writer[w].version \in 1..db
  /\ \A w, u \in Workers :
       w # u /\ writer[w].at # "idle" /\ writer[u].at # "idle"
       => writer[w].version # writer[u].version

\* How far a writer has deleted (cache.py:53-72).
WritersClear ==
  \A w \in Workers :
    /\ writer[w].at \in {"memory", "local"} => Cleared(writer[w].version)
    /\ writer[w].at = "local" => Published(writer[w].version, w)

\* Every event under way, and every request an event caused.
EventsTrue ==
  /\ \A i \in 1..Len(queue) : Promised(queue[i])
  /\ \A i \in 1..Len(relay) : Promised(relay[i])
  /\ \A s \in Slots :
       serve[s].at = "sent" => Promised(serve[s])

SyncInv == TypeOK /\ WritersApart /\ WritersClear /\ EventsTrue

\* No step of a write or of a read takes a promise back: a commit has a newer
\* number, copies are only deleted, and one stored late is spoiled
\* (cache.py:41-72).
LEMMA PromiseKept ==
  ASSUME SyncInv, NEW v \in Nat, GatewayStep
  PROVE  /\ Cleared(v) => Cleared(v)'
         /\ \A w \in Workers : Published(v, w) => Published(v, w)'
<1>0. /\ db \in Nat /\ db' \in Nat /\ db <= db'
      /\ redis \in Copies /\ memory \in [Workers -> Copies]
      /\ writer \in [Workers -> [at : {"idle", "redis", "memory", "local"}, version : Nat]]
      /\ spoiled \in BOOLEAN
  <2>1. db' = db \/ db' = db + 1
    BY DEF GatewayStep, Commit, ClearRedis, ClearMemory, PushLocal, ExpireMemory,
           ExpireRedis, Relay, Lookup, StoreRedis, StoreMemory, gateway
  <2> QED
    BY <2>1 DEF SyncInv, TypeOK
<1> DEFINE Deletes == /\ UNCHANGED spoiled
                      /\ redis' \in {redis, None}
                      /\ \A w \in Workers : memory'[w] \in {memory[w], None}
                      /\ \A u \in Workers : writer'[u].at = "redis" =>
                           writer'[u] = writer[u] \/ writer'[u].version > db
           Spoils == /\ spoiled'
                     /\ UNCHANGED db
                     /\ \A u \in Workers : writer'[u].at = "redis" => writer'[u] = writer[u]
<1>1. CASE Deletes
  <2>1. Cleared(v) => v \in 0..db' /\ Deleted(v)'
    BY <1>0, <1>1 DEF Cleared, Deleted
  <2>2. Cleared(v) => Cleared(v)'
    BY <1>0, <1>1, <2>1 DEF Cleared, Holds
  <2> QED
    BY <1>0, <1>1, <2>2 DEF Published, Holds
<1>2. CASE Spoils
  BY <1>0, <1>2 DEF Cleared, Deleted, Published
<1>3. ASSUME NEW s \in Slots, StoreRedis(s) \/ StoreMemory(s), ~spoiled', Cleared(v)
      PROVE  Cleared(v)' /\ \A w \in Workers : Published(v, w) => Published(v, w)'
  <2>1. UNCHANGED <<db, writer>> /\ ~spoiled
    BY <1>0, <1>3 DEF StoreRedis, StoreMemory
  <2>2. serve[s].version \in Nat
    BY DEF SyncInv, TypeOK
  <2>3. v \in 0..db' /\ Deleted(v)'
    BY <1>3, <2>1 DEF Cleared, Deleted
  <2>4. ~Late(serve[s].version) => serve[s].version >= v
    BY <1>0, <1>3, <2>2 DEF Late, Cleared, Deleted
  <2>5. CASE StoreRedis(s)
    <3>1. Holds(redis, v)' /\ UNCHANGED memory
      BY <1>3, <2>1, <2>4, <2>5 DEF StoreRedis, Cleared, Holds
    <3> QED
      BY <2>1, <2>3, <3>1 DEF Cleared, Published, Holds
  <2>6. CASE StoreMemory(s)
    <3>1. Holds(redis, v)' /\ Cleared(v)'
      BY <1>3, <2>1, <2>3, <2>6 DEF StoreMemory, Cleared, Holds
    <3>2. \A w \in Workers : Holds(memory[w], v) => Holds(memory'[w], v)
      BY <1>0, <1>3, <2>1, <2>4, <2>6 DEF StoreMemory, Holds
    <3> QED
      BY <2>1, <3>1, <3>2 DEF Published, Holds
  <2> QED
    BY <1>3, <2>5, <2>6
<1>4. ASSUME NEW w \in Workers, Commit(w) PROVE Deletes
  BY <1>0, <1>4 DEF Commit
<1>5. ASSUME NEW w \in Workers, ClearRedis(w) PROVE Deletes \/ Spoils
  BY <1>0, <1>5 DEF ClearRedis
<1>6. ASSUME NEW w \in Workers, ClearMemory(w) PROVE Deletes
  BY <1>0, <1>6 DEF ClearMemory
<1>7. ASSUME NEW w \in Workers, PushLocal(w) PROVE Deletes
  BY <1>0, <1>7 DEF PushLocal
<1>8. ASSUME NEW w \in Workers, ExpireMemory(w) PROVE Deletes
  BY <1>0, <1>8 DEF ExpireMemory
<1>9. ASSUME ExpireRedis PROVE Deletes
  BY <1>0, <1>9 DEF ExpireRedis
<1>10. ASSUME Relay PROVE Deletes
  BY <1>0, <1>10 DEF Relay, gateway
<1>11. ASSUME NEW s \in Slots, NEW w \in Workers, Lookup(s, w) PROVE Deletes
  BY <1>0, <1>11 DEF Lookup, gateway
<1>12. ASSUME NEW s \in Slots, StoreRedis(s) \/ StoreMemory(s), spoiled' PROVE Spoils
  BY <1>0, <1>12 DEF StoreRedis, StoreMemory
<1> QED
  BY <1>1, <1>2, <1>3, <1>4, <1>5, <1>6, <1>7, <1>8, <1>9, <1>10, <1>11, <1>12
     DEF GatewayStep, Published

\* A commit takes the next number, and a write keeps its number until it ends
\* (routes.py:1088-1096).
LEMMA ApartStep ==
  ASSUME SyncInv, GatewayStep
  PROVE  WritersApart'
<1>0. /\ db \in Nat
      /\ writer \in [Workers -> [at : {"idle", "redis", "memory", "local"}, version : Nat]]
  BY DEF SyncInv, TypeOK
<1>1. CASE \E w \in Workers : Commit(w)
  BY <1>0, <1>1 DEF Commit, SyncInv, WritersApart
<1>2. CASE UNCHANGED <<db, writer>>
  BY <1>2 DEF SyncInv, WritersApart
<1>3. CASE \E w \in Workers : ClearRedis(w) \/ ClearMemory(w) \/ PushLocal(w)
  <2>1. /\ UNCHANGED db
        /\ \A u \in Workers : /\ writer'[u].version = writer[u].version
                              /\ writer'[u].at # "idle" => writer[u].at # "idle"
    BY <1>0, <1>3 DEF ClearRedis, ClearMemory, PushLocal
  <2> QED
    BY <2>1 DEF SyncInv, WritersApart
<1> QED
  BY <1>1, <1>2, <1>3
     DEF GatewayStep, ExpireMemory, ExpireRedis, Relay, Lookup, StoreRedis, StoreMemory, gateway

\* A worker gets on with its write only by deleting what the write made stale
\* (cache.py:53-72).
LEMMA ClearStep ==
  ASSUME SyncInv, GatewayStep
  PROVE  WritersClear'
<1>0. /\ memory \in [Workers -> Copies]
      /\ writer \in [Workers -> [at : {"idle", "redis", "memory", "local"}, version : Nat]]
  BY DEF SyncInv, TypeOK
<1>1. ASSUME NEW w \in Workers, NEW v \in Nat,
             writer[w].version = v, writer'[w].version = v
      PROVE  /\ Cleared(v)' => Cleared(writer[w].version)'
             /\ Published(v, w)' => Published(writer[w].version, w)'
  BY <1>1 DEF Published, Cleared, Deleted
<1>2. ASSUME NEW w \in Workers, UNCHANGED writer[w]
      PROVE  /\ writer'[w].at \in {"memory", "local"} => Cleared(writer[w].version)'
             /\ writer'[w].at = "local" => Published(writer[w].version, w)'
  <2>1. writer[w].version \in Nat
    BY <1>0
  <2>2. /\ writer[w].at \in {"memory", "local"} => Cleared(writer[w].version)
        /\ writer[w].at = "local" => Published(writer[w].version, w)
    BY DEF SyncInv, WritersClear
  <2> QED
    BY <1>1, <1>2, <2>1, <2>2, PromiseKept
<1>3. ASSUME NEW w \in Workers, ClearRedis(w)
      PROVE  Cleared(writer[w].version)' /\ writer'[w].at = "memory"
  <2> DEFINE v == writer[w].version
  <2>1. /\ v \in Nat /\ v \in 1..db /\ UNCHANGED db
        /\ writer' = [writer EXCEPT ![w].at = "memory"]
        /\ redis' = None \/ spoiled'
    BY <1>0, <1>3 DEF ClearRedis, SyncInv, WritersApart
  <2>2. \A u \in Workers : writer'[u].at = "redis" => writer'[u].version # v
    BY <1>0, <1>3, <2>1 DEF ClearRedis, SyncInv, WritersApart
  <2>3. writer'[w].at = "memory" /\ writer'[w].version = v
    BY <1>0, <2>1
  <2> QED
    BY <2>1, <2>2, <2>3 DEF Cleared, Deleted, Holds, SyncInv, TypeOK
<1>4. ASSUME NEW w \in Workers, ClearMemory(w)
      PROVE  Published(writer[w].version, w)'
  <2>1. /\ writer[w].version \in Nat /\ Cleared(writer[w].version)
        /\ writer'[w].version = writer[w].version /\ memory'[w] = None
    BY <1>0, <1>4 DEF ClearMemory, SyncInv, WritersClear
  <2>2. Cleared(writer[w].version)'
    BY <1>1, <1>4, <2>1, PromiseKept DEF GatewayStep
  <2> QED
    BY <2>1, <2>2 DEF Published, Holds
<1> SUFFICES ASSUME NEW w \in Workers
             PROVE  /\ writer'[w].at \in {"memory", "local"} => Cleared(writer[w].version)'
                    /\ writer'[w].at = "local" => Published(writer[w].version, w)'
  BY DEF WritersClear
<1>5. CASE UNCHANGED writer[w]
  BY <1>2, <1>5
<1>6. CASE Commit(w)
  BY <1>0, <1>6 DEF Commit
<1>7. CASE ClearRedis(w)
  BY <1>3, <1>7
<1>8. CASE ClearMemory(w)
  BY <1>4, <1>8 DEF Published
<1>9. CASE PushLocal(w)
  BY <1>0, <1>9 DEF PushLocal
<1>10. UNCHANGED writer[w] \/ Commit(w) \/ ClearRedis(w) \/ ClearMemory(w) \/ PushLocal(w)
  <2>1. ASSUME NEW u \in Workers \ {w},
               Commit(u) \/ ClearRedis(u) \/ ClearMemory(u) \/ PushLocal(u)
        PROVE  UNCHANGED writer[w]
    BY <1>0, <2>1 DEF Commit, ClearRedis, ClearMemory, PushLocal
  <2> QED
    BY <2>1 DEF GatewayStep, ExpireMemory, ExpireRedis, Relay, Lookup, StoreRedis,
                StoreMemory, gateway
<1> QED
  BY <1>5, <1>6, <1>7, <1>8, <1>9, <1>10

\* The promise of an event survives a step of the gateway.
LEMMA EventKept ==
  ASSUME SyncInv, GatewayStep, NEW e, e.version \in Nat, e.worker \in Workers, Promised(e)
  PROVE  Promised(e)'
BY PromiseKept DEF Promised

\* Events are taken over from one queue to the next in their order, and the new
\* ones are promised (cache.py:74-120).
LEMMA QueuesStep ==
  ASSUME SyncInv, GatewayStep
  PROVE  /\ \A i \in 1..Len(queue') : Promised(queue[i])'
         /\ \A i \in 1..Len(relay') : Promised(relay[i])'
<1>0. /\ queue \in Seq(Write) /\ relay \in Seq(Write)
      /\ \A i \in 1..Len(queue) : queue[i] \in Write /\ Promised(queue[i])
      /\ \A i \in 1..Len(relay) : relay[i] \in Write /\ Promised(relay[i])
  BY ElementOfSeq DEF SyncInv, TypeOK, EventsTrue
<1>1. \A e \in Write : Promised(e) => Promised(e)'
  BY EventKept DEF Write
<1>2. ASSUME NEW e \in Write, Promised(e)', NEW i \in 1..Len(queue'), queue'[i] = e
      PROVE  Promised(queue[i])'
  BY <1>2 DEF Promised, Published, Cleared, Deleted
<1>3. ASSUME NEW e \in Write, Promised(e)', NEW i \in 1..Len(relay'), relay'[i] = e
      PROVE  Promised(relay[i])'
  BY <1>3 DEF Promised, Published, Cleared, Deleted
<1>4. ASSUME UNCHANGED queue, NEW i \in 1..Len(queue')
      PROVE  Promised(queue[i])'
  BY <1>0, <1>1, <1>2, <1>4
<1>5. ASSUME UNCHANGED relay, NEW i \in 1..Len(relay')
      PROVE  Promised(relay[i])'
  BY <1>0, <1>1, <1>3, <1>5
<1>6. ASSUME NEW w \in Workers, ClearMemory(w), NEW i \in 1..Len(relay')
      PROVE  Promised(relay[i])'
  <2>1. EventOf(w) \in Write
    BY EventType DEF SyncInv
  <2>2. writer'[w].at = "local" /\ writer'[w].version = writer[w].version
    BY <1>6 DEF ClearMemory, SyncInv, TypeOK
  <2>3. Promised(EventOf(w))'
    BY <2>2, ClearStep DEF WritersClear, Promised, EventOf
  <2>4. PICK e \in Write : e = EventOf(w)
    BY <2>1
  <2>5. Promised(e)'
    BY <2>2, <2>3, <2>4 DEF Promised, EventOf, Published, Cleared, Deleted
  <2>6. CASE UNCHANGED relay
    BY <1>5, <2>6
  <2>7. CASE relay' = Append(relay, e)
    BY <1>0, <1>1, <1>3, <2>5, <2>7, AppendProperties
  <2> QED
    BY <1>6, <2>4, <2>6, <2>7 DEF ClearMemory
<1>7. ASSUME NEW w \in Workers, PushLocal(w), NEW i \in 1..Len(queue')
      PROVE  Promised(queue[i])'
  <2>1. EventOf(w) \in Write
    BY EventType DEF SyncInv
  <2>2. Promised(EventOf(w))
    BY <1>7 DEF PushLocal, SyncInv, WritersClear, Promised, EventOf
  <2>3. PICK e \in Write : e = EventOf(w) /\ Promised(e)
    BY <2>1, <2>2
  <2>4. CASE UNCHANGED queue
    BY <1>4, <2>4
  <2>5. CASE queue' = Append(queue, e)
    BY <1>0, <1>1, <1>2, <2>3, <2>5, AppendProperties
  <2> QED
    BY <1>7, <2>3, <2>4, <2>5 DEF PushLocal
<1>8. CASE Relay
  <2>1. /\ Head(relay) = relay[1] /\ relay # <<>>
        /\ Tail(relay) \in Seq(Write) /\ Len(Tail(relay)) = Len(relay) - 1
        /\ \A i \in 1..Len(Tail(relay)) : Tail(relay)[i] = relay[i + 1]
    BY <1>0, <1>8, HeadTailProperties DEF Relay
  <2>2. ASSUME NEW i \in 1..Len(queue') PROVE Promised(queue[i])'
    <3>1. PICK e \in Write : e = Head(relay) /\ Promised(e)
      BY <1>0, <2>1, EmptySeq, LenProperties
    <3>2. queue' = Append(queue, e)
      BY <1>8, <3>1 DEF Relay
    <3> QED
      BY <1>0, <1>1, <1>2, <3>1, <3>2, AppendProperties
  <2>3. ASSUME NEW i \in 1..Len(relay') PROVE Promised(relay[i])'
    <3>1. i + 1 \in 1..Len(relay) /\ relay'[i] = relay[i + 1]
      BY <1>0, <1>8, <2>1, LenProperties DEF Relay
    <3> QED
      BY <1>0, <1>1, <1>3, <3>1
  <2> QED
    BY <2>2, <2>3
<1>9. ASSUME NEW w \in Workers,
             Commit(w) \/ ClearRedis(w) \/ ExpireMemory(w) \/ ExpireRedis
      PROVE  UNCHANGED <<queue, relay>>
  BY <1>9 DEF Commit, ClearRedis, ExpireMemory, ExpireRedis, stream
<1>10. ASSUME NEW s \in Slots, NEW w \in Workers,
              Lookup(s, w) \/ StoreRedis(s) \/ StoreMemory(s)
       PROVE  UNCHANGED <<queue, relay>>
  BY <1>10 DEF Lookup, StoreRedis, StoreMemory, stream
<1>11. \A w \in Workers : /\ ClearMemory(w) => UNCHANGED queue
                          /\ PushLocal(w) => UNCHANGED relay
  BY DEF ClearMemory, PushLocal
<1> QED
  BY <1>4, <1>5, <1>6, <1>7, <1>8, <1>9, <1>10, <1>11, LiveSyncAssumption DEF GatewayStep

\* Only the steps of a read change how far a request is.
LEMMA GatewayServes ==
  ASSUME GatewayStep
  PROVE  \/ UNCHANGED serve
         \/ \E s \in Slots, w \in Workers : Lookup(s, w)
         \/ \E s \in Slots : StoreRedis(s) \/ StoreMemory(s)
BY DEF GatewayStep, Commit, ClearRedis, ClearMemory, PushLocal, ExpireMemory, ExpireRedis,
       Relay

\* A request that is still to be looked up keeps the promise of its event.
LEMMA RequestsStep ==
  ASSUME SyncInv, GatewayStep, NEW s \in Slots, serve'[s].at = "sent"
  PROVE  Promised(serve[s])'
<1>0. serve \in [Slots -> [at : {"none", "sent", "redis", "memory", "answer"},
                           version : Nat, worker : Workers]]
  BY DEF SyncInv, TypeOK
<1>1. UNCHANGED serve[s]
  <2>1. ASSUME NEW t \in Slots, StoreRedis(t) PROVE t # s /\ UNCHANGED serve[s]
    BY <1>0, <2>1 DEF StoreRedis
  <2>2. ASSUME NEW t \in Slots, StoreMemory(t) PROVE t # s /\ UNCHANGED serve[s]
    BY <1>0, <2>2 DEF StoreMemory
  <2>3. ASSUME NEW t \in Slots, NEW w \in Workers, Lookup(t, w)
        PROVE  t # s /\ UNCHANGED serve[s]
    BY <1>0, <2>3 DEF Lookup
  <2> QED
    BY <2>1, <2>2, <2>3, GatewayServes
<1>2. PICK e : e = serve[s] /\ e = serve'[s]
  BY <1>1
<1>3. Promised(e)
  BY <1>1, <1>2 DEF SyncInv, EventsTrue
<1>4. Promised(e)'
  BY <1>0, <1>2, <1>3, EventKept
<1> QED
  BY <1>2, <1>4 DEF Promised, Published, Cleared, Deleted

\* A fetch without an event is promised nothing.
LEMMA NothingPromised ==
  ASSUME SyncInv
  PROVE  NoWrite \in Write /\ Promised(NoWrite)
<1>1. NoWrite \in Write /\ NoWrite.version = 0 /\ NoWrite.worker \in Workers
  BY SyncConstants DEF NoWrite, Write
<1>2. Deleted(0) /\ 0 \in 0..db
  BY DEF SyncInv, TypeOK, WritersApart, Deleted
<1>3. Holds(redis, 0) /\ \A w \in Workers : Holds(memory[w], 0)
  BY DEF SyncInv, TypeOK, Copies, Holds
<1> QED
  BY <1>1, <1>2, <1>3 DEF Promised, Published, Cleared

\* The page only takes events from its queue, one at a time, and asks with them
\* (useApi.js:51-57, AppContext.jsx:47-57).
LEMMA PageStepInv ==
  ASSUME SyncInv, PageStep
  PROVE  WritersApart' /\ WritersClear' /\ EventsTrue'
<1>0. UNCHANGED gateway
  BY DEF PageStep, Poll, Receive, Break, Update, StreamError, Reconnect, CloseApp
<1>1. WritersApart' /\ WritersClear'
  BY <1>0 DEF gateway, SyncInv, WritersApart, WritersClear, Published, Cleared, Deleted
<1>2. /\ queue \in Seq(Write) /\ relay \in Seq(Write)
      /\ \A i \in 1..Len(queue) : queue[i] \in Write /\ Promised(queue[i])
      /\ \A i \in 1..Len(relay) : relay[i] \in Write /\ Promised(relay[i])
  BY ElementOfSeq DEF SyncInv, TypeOK, EventsTrue
<1>3. ASSUME NEW e, Promised(e) PROVE Promised(e)'
  BY <1>0, <1>3 DEF gateway, Promised, Published, Cleared, Deleted
<1>4. /\ \A i \in 1..Len(relay') : Promised(relay'[i])
      /\ \A i \in 1..Len(queue') : Promised(queue'[i])
  <2>1. CASE UNCHANGED <<queue, relay>>
    BY <1>2, <2>1
  <2>2. CASE queue' = <<>> /\ relay' = <<>>
    BY <2>2, EmptySeq, LenProperties
  <2>3. CASE Update
    <3>1. /\ Len(Tail(queue)) = Len(queue) - 1 /\ Tail(queue) \in Seq(Write)
          /\ \A i \in 1..Len(Tail(queue)) : Tail(queue)[i] = queue[i + 1]
      BY <1>2, <2>3, HeadTailProperties DEF Update
    <3>2. \A i \in 1..Len(queue') : i + 1 \in 1..Len(queue) /\ queue'[i] = queue[i + 1]
      BY <1>2, <2>3, <3>1, LenProperties DEF Update
    <3> QED
      BY <1>2, <2>3, <3>2 DEF Update
  <2> QED
    BY <2>1, <2>2, <2>3
       DEF PageStep, Poll, Receive, Break, StreamError, Reconnect, CloseApp, Unsubscribed, stream
<1>5. \A s \in Slots : serve'[s].at = "sent" => Promised(serve'[s])
  <2>0. /\ serve \in [Slots -> [at : {"none", "sent", "redis", "memory", "answer"},
                                version : Nat, worker : Workers]]
        /\ \A s \in Slots : serve[s].at = "sent" => Promised(serve[s])
        /\ Unserved.at # "sent"
    BY SyncConstants DEF SyncInv, TypeOK, EventsTrue
  <2>1. ASSUME NEW t \in Slots, NEW cause \in Write, Promised(cause), Refetch(t, cause)
        PROVE  \A s \in Slots : serve'[s].at = "sent" => Promised(serve'[s])
    BY <2>0, <2>1 DEF Refetch, Promised, Write
  <2>2. ASSUME NEW t \in Slots, Poll(t)
        PROVE  \A s \in Slots : serve'[s].at = "sent" => Promised(serve'[s])
    BY <2>1, <2>2, NothingPromised DEF Poll
  <2>3. ASSUME NEW t \in Slots, Receive(t) \/ Break(t)
        PROVE  \A s \in Slots : serve'[s].at = "sent" => Promised(serve'[s])
    BY <2>0, <2>3 DEF Receive, Break
  <2>4. CASE Update
    <3>1. Head(queue) \in Write /\ Promised(Head(queue))
      BY <1>2, <2>4, HeadTailProperties, EmptySeq, LenProperties DEF Update
    <3> QED
      BY <2>1, <2>4, <3>1 DEF Update
  <2>5. CASE StreamError \/ Reconnect
    BY <2>0, <2>5 DEF StreamError, Reconnect
  <2>6. CASE CloseApp
    BY <2>0, <2>6 DEF CloseApp
  <2> QED
    BY <2>2, <2>3, <2>4, <2>5, <2>6 DEF PageStep
<1>6. EventsTrue'
  <2>1. ASSUME NEW i \in 1..Len(relay') PROVE Promised(relay[i])'
    BY <1>0, <1>4 DEF gateway, Promised, Published, Cleared, Deleted
  <2>2. ASSUME NEW i \in 1..Len(queue') PROVE Promised(queue[i])'
    BY <1>0, <1>4 DEF gateway, Promised, Published, Cleared, Deleted
  <2>3. ASSUME NEW s \in Slots, serve'[s].at = "sent" PROVE Promised(serve[s])'
    BY <1>0, <1>5, <2>3 DEF gateway, Promised, Published, Cleared, Deleted
  <2> QED
    BY <2>1, <2>2, <2>3 DEF EventsTrue
<1> QED
  BY <1>1, <1>6

\* The invariant of events and copies.
LEMMA SyncInvariant == Spec => []SyncInv
<1>1. Init => SyncInv
  <2> SUFFICES ASSUME Init PROVE SyncInv
    OBVIOUS
  <2>1. TypeOK
    BY TypeInit
  <2>2. WritersApart /\ WritersClear
    BY DEF Init, WritersApart, WritersClear
  <2>3. /\ Len(queue) = 0 /\ Len(relay) = 0
        /\ \A s \in Slots : serve[s].version = 0 /\ serve[s].worker \in Workers
    BY SyncConstants DEF Init, Unserved
  <2>4. ASSUME NEW w \in Workers PROVE Published(0, w)
    BY <2>4 DEF Init, Published, Cleared, Deleted, Holds
  <2> QED
    BY <2>1, <2>2, <2>3, <2>4 DEF SyncInv, EventsTrue, Promised
<1>2. SyncInv /\ [Next]_vars => SyncInv'
  <2> SUFFICES ASSUME SyncInv, [Next]_vars PROVE SyncInv'
    OBVIOUS
  <2>0. TypeOK'
    BY StepKeepsType DEF SyncInv
  <2>1. CASE GatewayStep
    BY <2>0, <2>1, ApartStep, ClearStep, QueuesStep, RequestsStep DEF SyncInv, EventsTrue
  <2>2. CASE PageStep
    BY <2>0, <2>2, PageStepInv DEF SyncInv
  <2>3. CASE UNCHANGED vars
    BY <2>0, <2>3 DEF vars, gateway, stream, SyncInv, WritersApart, WritersClear, EventsTrue,
                      Promised, Published, Cleared, Deleted
  <2> QED
    BY <2>1, <2>2, <2>3 DEF Next
<1> QED
  BY <1>1, <1>2, PTL DEF Spec

\* A fetch an event started shows the write the event tells of, unless a copy
\* was stored late or kept by a failed call, or another worker's memory had an
\* older one (routes.py:1095-1096, cache.py:53-72).
THEOREM EventsShowTheirWrite == Spec => RefetchSeesWrite
<1> DEFINE Shows == \A s \in Slots :
       /\ serve[s].at = "sent" /\ serve'[s].at \in {"redis", "answer"}
       /\ serve'[s].version < serve[s].version
       => \/ spoiled
          \/ \E w \in Workers \ {serve[s].worker} : memory[w] = serve'[s].version
<1>1. SyncInv /\ [Next]_vars => [Shows]_vars
  <2> SUFFICES ASSUME SyncInv, Next, NEW s \in Slots,
                      serve[s].at = "sent", serve'[s].at \in {"redis", "answer"},
                      serve'[s].version < serve[s].version, ~spoiled
               PROVE  \E w \in Workers \ {serve[s].worker} : memory[w] = serve'[s].version
    OBVIOUS
  <2>0. serve \in [Slots -> [at : {"none", "sent", "redis", "memory", "answer"},
                             version : Nat, worker : Workers]]
    BY DEF SyncInv, TypeOK
  <2>1. PICK w \in Workers : Lookup(s, w)
    <3>1. CASE GatewayStep
      <4>1. ASSUME NEW t \in Slots, StoreRedis(t) PROVE t # s /\ UNCHANGED serve[s]
        BY <2>0, <4>1 DEF StoreRedis
      <4>2. ASSUME NEW t \in Slots, StoreMemory(t) PROVE t # s /\ UNCHANGED serve[s]
        BY <2>0, <4>2 DEF StoreMemory
      <4>3. ASSUME NEW t \in Slots \ {s}, NEW w \in Workers, Lookup(t, w)
            PROVE  UNCHANGED serve[s]
        BY <2>0, <4>3 DEF Lookup
      <4> QED
        BY <3>1, <4>1, <4>2, <4>3, GatewayServes
    <3>2. CASE PageStep
      <4>1. ASSUME NEW t \in Slots, NEW cause, Refetch(t, cause)
            PROVE  serve'[s].at \in {"sent", serve[s].at}
        BY <2>0, <4>1 DEF Refetch
      <4>2. ASSUME NEW t \in Slots, Receive(t) \/ Break(t)
            PROVE  serve'[s].at \in {"none", serve[s].at}
        BY <2>0, <4>2, SyncConstants DEF Receive, Break
      <4>3. CASE StreamError \/ Reconnect \/ CloseApp
        BY <2>0, <4>3, SyncConstants DEF StreamError, Reconnect, CloseApp
      <4> QED
        BY <3>2, <4>1, <4>2, <4>3 DEF PageStep, Poll, Update
    <3> QED
      BY <3>1, <3>2 DEF Next
  <2>2. /\ serve[s].version \in 0..db
        /\ Holds(redis, serve[s].version) /\ Holds(memory[serve[s].worker], serve[s].version)
    BY DEF SyncInv, EventsTrue, Promised, Published, Cleared
  <2>3. \/ redis # None /\ serve'[s].version = redis
        \/ memory[w] # None /\ serve'[s].version = memory[w]
        \/ serve'[s].version = db
    BY <2>0, <2>1 DEF Lookup
  <2>4. memory[w] # None /\ serve'[s].version = memory[w]
    BY <2>0, <2>2, <2>3 DEF Holds, SyncInv, TypeOK, Copies
  <2>5. w # serve[s].worker
    BY <2>0, <2>2, <2>4 DEF Holds, SyncInv, TypeOK, Copies
  <2> QED
    BY <2>4, <2>5
<1> QED
  BY SyncInvariant, <1>1, PTL DEF Spec, RefetchSeesWrite
=============================================================================
