-------------------------- MODULE CustomerDelivery --------------------------
(***************************************************************************)
(* How a customer gets what is written in a conversation while it is being *)
(* translated: through the website or through an external channel.  The    *)
(* two share the conversation and nothing else, so a behaviour has one.    *)
(***************************************************************************)
EXTENDS CustomerStream, ChannelDelivery

CONSTANT MaxCarried   \* bound on the conversation when a channel carries it

ASSUME DeliveryAssumption == MaxCarried \in 0..MaxMessages

VARIABLE via          \* how the customer is reached

vars == <<log, streaming, channel, via>>

TypeOK == LogTypeOK /\ StreamTypeOK /\ ChannelTypeOK /\ via \in {"website", "channel"}

Init == LogInit /\ StreamInit /\ ChannelInit /\ via \in {"website", "channel"}

Website(A) == via = "website" /\ A /\ UNCHANGED <<channel, via>>
Carried(A) == via = "channel" /\ A /\ UNCHANGED <<streaming, via>>

Converse == LogNext /\ (via = "website" \/ Len(log') <= MaxCarried) /\ UNCHANGED <<streaming, channel, via>>

Next == Converse \/ Website(StreamNext) \/ Carried(ChannelNext)

\* The poll and the browser go on, EventSource reconnects by itself; workers go
\* on and time passes.
Fairness ==
    /\ WF_vars(Website(Open \/ Read \/ Publish)) /\ WF_vars(Website(Receive))
    /\ \A w \in Dispatchers : WF_vars(Carried(Dispatch(w)))
    /\ WF_vars(Carried(\E p \in Positions : LeaseEnds(p)))

Spec == Init /\ [][Next]_vars /\ Fairness
-----------------------------------------------------------------------------
Awaited(p) == IF via = "website" THEN p \in Positions /\ Visible(p)
                                 ELSE deliveries[p].status \in {"PENDING", "RUNNING"}
Settled(p) == IF via = "website" THEN p \in client.shown
              ELSE deliveries[p].status \in Terminal \/ (p \in Positions /\ Blocked(p))

\* Every message that can be read arrives on the page, also when it was translated
\* long after later ones were sent, pages were full or the connection broke; and
\* every delivery scheduled to a channel ends, or an earlier message waits for its
\* translation.  Conversations are bounded, and what is awaited stays so until it is
\* settled: it is enough that again and again nothing is outstanding.
EveryMessageArrives == []<>(\A p \in 1..MaxMessages : Awaited(p) => Settled(p))
=============================================================================
