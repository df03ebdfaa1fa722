------------------------------ MODULE ApiCall ------------------------------
(***************************************************************************)
(* The hook behind every screen that shows data of the gateway:            *)
(* useApiCall of frontend/src/hooks/useApi.js.  A fetch runs to its end    *)
(* whatever happens meanwhile: nothing cancels it, and nothing compares    *)
(* its answer with what is shown.                                          *)
(*                                                                         *)
(* A value shown is the subject it belongs to and its version in the       *)
(* gateway's database; how requests are served is left to the modules      *)
(* that extend this one.  The error flag is left out: no screen reads it.  *)
(***************************************************************************)
EXTENDS Naturals, FiniteSets

CONSTANTS Slots,      \* numbers of the requests that may be in flight
          Subjects,   \* what a hook can be asked for: ticket ids, a list
          Nobody      \* the null id: nothing is selected

ASSUME ApiCallAssumption == Nobody \notin Subjects /\ 1 \in Slots /\ Slots \subseteq Nat

VARIABLES
  data,      \* what the hook returns as data
  loading,   \* its loading flag
  flight     \* flight[s]: the fetch that occupies slot s

hook == <<data, loading, flight>>

Asked == Subjects \cup {Nobody}
Empty == [of |-> Nobody, version |-> 0]   \* data = null
Free == [busy |-> FALSE, of |-> Nobody, initial |-> FALSE]

Shown == [of : Asked, version : Nat]
Fetch == [busy : BOOLEAN, of : Asked, initial : BOOLEAN]

HookTypeOK ==
  /\ data \in Shown
  /\ loading \in BOOLEAN
  /\ flight \in [Slots -> Fetch]

\* A component mounts: useState, and the first effect starts a fetch.
HookMounts(of) ==
  /\ data = Empty /\ loading = TRUE
  /\ flight = [[t \in Slots |-> Free] EXCEPT
                 ![1] = [busy |-> TRUE, of |-> of, initial |-> TRUE]]

\* fetch_ up to its await.  Slots mean nothing: the first free one is taken.
Begin(s, of, initial) ==
  /\ ~flight[s].busy
  /\ \A t \in Slots : t < s => flight[t].busy
  /\ flight' = [flight EXCEPT ![s] = [busy |-> TRUE, of |-> of, initial |-> initial]]
  /\ loading' = (loading \/ initial)
  /\ UNCHANGED data

\* fetch_ after its await: the answer, or the error.
Ends(s) ==
  /\ flight[s].busy
  /\ loading' = (loading /\ ~flight[s].initial)
  /\ flight' = [flight EXCEPT ![s] = Free]

Answer(s, version) ==
  /\ Ends(s)
  /\ data' = IF flight[s].of = Nobody THEN Empty
             ELSE [of |-> flight[s].of, version |-> version]

Fails(s) ==
  /\ Ends(s)
  /\ UNCHANGED data
=============================================================================
