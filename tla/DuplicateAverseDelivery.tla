---------------------- MODULE DuplicateAverseDelivery ----------------------
(***************************************************************************)
(* What the notification outbox promises, without workers, leases or time  *)
(* (docs/tasks/0026-telegram-real-integration.md): an event's recipients   *)
(* are fixed once, each of them gets at most one message, what the ledger  *)
(* says of a message is true and final, and an event is closed only when   *)
(* nothing is left to do for it.                                           *)
(***************************************************************************)
CONSTANTS Events, Recipients

VARIABLES
    fate,      \* per event and recipient: none, open, a final status, purged
    messages,  \* the messages the provider created: <<event, recipient, attempt>>
    closed     \* the events taken off the queue

promise == <<fate, messages, closed>>

For(m, e, r) == m[1] = e /\ m[2] = r

Reached(e, r) == \E m \in messages : For(m, e, r)

Init ==
    /\ fate = [e \in Events |-> [r \in Recipients |-> "none"]]
    /\ messages = {}
    /\ closed = {}

Freeze(e) ==
    /\ \A r \in Recipients : fate[e][r] = "none"
    /\ \E S \in SUBSET Recipients :
          fate' = [fate EXCEPT ![e] = [r \in Recipients |-> IF r \in S THEN "open" ELSE "none"]]
    /\ UNCHANGED <<messages, closed>>

\* A message may still arrive after the ledger gave up on it, never after it
\* recorded a failure.
Deliver(e, r) ==
    /\ fate[e][r] \in {"open", "UNKNOWN", "purged"}
    /\ ~ Reached(e, r)
    /\ \E m \in messages' : For(m, e, r) /\ messages' = messages \cup {m}
    /\ UNCHANGED <<fate, closed>>

Confirm(e, r) ==
    /\ fate[e][r] = "open"
    /\ Reached(e, r)
    /\ fate' = [fate EXCEPT ![e][r] = "DELIVERED"]
    /\ UNCHANGED <<messages, closed>>

Fail(e, r) ==
    /\ fate[e][r] = "open"
    /\ ~ Reached(e, r)
    /\ fate' = [fate EXCEPT ![e][r] = "PERMANENT_FAILURE"]
    /\ UNCHANGED <<messages, closed>>

GiveUp(e) ==
    /\ \E S \in SUBSET {r \in Recipients : fate[e][r] = "open"} :
          fate' = [fate EXCEPT ![e] = [r \in Recipients |->
                      IF r \in S THEN "UNKNOWN" ELSE fate[e][r]]]
    /\ UNCHANGED <<messages, closed>>

Close(e) ==
    /\ \A r \in Recipients : fate[e][r] # "open"
    /\ \E r \in Recipients : fate[e][r] # "none"
    /\ closed' = closed \cup {e}
    /\ UNCHANGED <<fate, messages>>

Purge(e) ==
    /\ fate' = [fate EXCEPT ![e] = [r \in Recipients |-> "purged"]]
    /\ closed' = closed \ {e}
    /\ UNCHANGED messages

Next ==
    \E e \in Events :
        \/ Freeze(e) \/ GiveUp(e) \/ Close(e) \/ Purge(e)
        \/ \E r \in Recipients : Deliver(e, r) \/ Confirm(e, r) \/ Fail(e, r)

Spec == Init /\ [][Next]_promise
=============================================================================
