---------------------------- MODULE HumansFirst ----------------------------
(***************************************************************************)
(* What the AI fallback promises a conversation, without jobs, leases and  *)
(* locks (docs/tasks/0034-ai-human-fallback-routing.md): the assistant     *)
(* speaks only after it was cleared to answer the newest message, once.    *)
(* It is cleared when a customer wrote that message, nobody has taken the  *)
(* conversation over and automatic answers are enabled and open; all that  *)
(* would have kept it from being cleared takes the clearance back, the     *)
(* closing hour excepted.                                                  *)
(***************************************************************************)
EXTENDS Sequences, Naturals

CONSTANT Conversations

VARIABLES
    senders,   \* who wrote each message of a conversation, in order
    control,   \* who answers: AUTO, or a human
    enabled,   \* the policy enables automatic answers
    open,      \* the hour and the emergency switch allow them
    cleared    \* whether the assistant may answer the newest message now

promise == <<senders, control, enabled, open, cleared>>

Init ==
    /\ senders = [c \in Conversations |-> <<>>]
    /\ control = [c \in Conversations |-> "AUTO"]
    /\ enabled \in BOOLEAN
    /\ open \in BOOLEAN
    /\ cleared = [c \in Conversations |-> FALSE]

Newest(c) == IF senders[c] = <<>> THEN "none" ELSE senders[c][Len(senders[c])]

Clear(c) ==
    /\ Newest(c) = "CUSTOMER" /\ control[c] = "AUTO" /\ enabled /\ open
    /\ cleared' = [cleared EXCEPT ![c] = TRUE]
    /\ UNCHANGED <<senders, control, enabled, open>>

\* The assistant says what it was cleared for, or gives up.
Assistant(c) ==
    /\ cleared[c]
    /\ cleared' = [cleared EXCEPT ![c] = FALSE]
    /\ \/ senders' = [senders EXCEPT ![c] = Append(senders[c], "AI_AGENT")]
       \/ UNCHANGED senders
    /\ UNCHANGED <<control, enabled, open>>

Human(c) ==
    /\ \E sender \in {"CUSTOMER", "INTERNAL_USER"} :
          senders' = [senders EXCEPT ![c] = Append(senders[c], sender)]
    /\ cleared' = [cleared EXCEPT ![c] = FALSE]
    /\ UNCHANGED <<control, enabled, open>>

Steer(c) ==
    /\ \E state \in {"AUTO", "HUMAN"} :
          control' = [control EXCEPT ![c] = state]
    /\ cleared' = [cleared EXCEPT ![c] = FALSE]
    /\ UNCHANGED <<senders, enabled, open>>

Enable  == enabled' = TRUE /\ UNCHANGED <<senders, control, open, cleared>>

Disable ==
    /\ enabled' = FALSE
    /\ cleared' = [c \in Conversations |-> FALSE]
    /\ UNCHANGED <<senders, control, open>>

Hour == open' = ~ open /\ UNCHANGED <<senders, control, enabled, cleared>>

Next ==
    \/ \E c \in Conversations : Clear(c) \/ Assistant(c) \/ Human(c) \/ Steer(c)
    \/ Enable \/ Disable \/ Hour

Spec == Init /\ [][Next]_promise
=============================================================================
