-------------------------- MODULE TicketLifecycle --------------------------
(***************************************************************************)
(* What the triage service promises about a ticket, whatever the agents    *)
(* answer.  It is registered as "processing"; its processing decides it at *)
(* most once, and only a ticket whose retries are used up is handed to     *)
(* manual review; it may be abandoned by a fault.  A later audit can only  *)
(* move it to Submitted or to manual review, so that a rejection is never  *)
(* issued by an audit and no ticket returns to "processing".               *)
(* The decision diagram is the one of agent/readme.md:31-39.               *)
(***************************************************************************)
EXTENDS Naturals

CONSTANT MaxRetries

VARIABLES status,  \* status of the stored ticket
          open,    \* its processing has not ended
          tries    \* retries its processing has used

lifecycleVars == <<status, open, tries>>

Init == status = "absent" /\ open = TRUE /\ tries = 0

Register ==
  /\ open /\ status = "absent"
  /\ status' = "processing"
  /\ UNCHANGED <<open, tries>>

Retry ==
  /\ open /\ status # "absent" /\ tries < MaxRetries
  /\ tries' = tries + 1
  /\ UNCHANGED <<status, open>>

Decide(s) ==
  /\ open /\ status # "absent"
  /\ s = "needs_manual_review" => tries = MaxRetries
  /\ status' = s
  /\ open' = FALSE
  /\ UNCHANGED tries

\* A fault ends the processing, possibly just after the ticket was registered.
Abandon ==
  /\ open
  /\ status' \in {status, IF status = "absent" THEN "processing" ELSE status}
  /\ open' = FALSE
  /\ UNCHANGED tries

Reaudit ==
  /\ status # "absent"
  /\ status' \in {"Submitted", "needs_manual_review"}
  /\ UNCHANGED <<open, tries>>

Next ==
  \/ Register
  \/ Retry
  \/ \E s \in {"Submitted", "Rejected", "needs_manual_review"} : Decide(s)
  \/ Abandon
  \/ Reaudit

Spec == Init /\ [][Next]_lifecycleVars
=============================================================================
