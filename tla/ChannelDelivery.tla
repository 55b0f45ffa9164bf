-------------------------- MODULE ChannelDelivery ---------------------------
(***************************************************************************)
(* The messages of a conversation on their way to an external channel:     *)
(* a delivery for each, claimed in batches by worker processes, checked    *)
(* again before each send, and recorded with the token of the claim.       *)
(***************************************************************************)
EXTENDS TranslatedLog, SequencesExt, FiniteSetsExt

CONSTANTS
    Dispatchers,   \* the worker processes
    Batch,         \* deliveries of one claim
    MaxSends       \* attempts of a delivery

ASSUME ChannelAssumption ==
    /\ Batch \in Nat \ {0} /\ MaxSends \in Nat \ {0}
    /\ "none" \notin Dispatchers

VARIABLES
    deliveries,    \* conversation_channel_deliveries of one binding, by position
    dispatcher,    \* the batch of each worker and what it does with its first
    sent           \* requests that are or may still become a message: position, attempt
                   \* and, as history, what was unclear at the check before it

channel == <<deliveries, dispatcher, sent>>

Outcomes == {"DELIVERED", "RETRYABLE", "FAILED", "UNKNOWN"}
Terminal == {"DELIVERED", "FAILED", "UNKNOWN"}

NoDelivery == [status |-> "NONE", attempts |-> 0, holder |-> "none", over |-> FALSE]
Off        == [at |-> "idle", batch |-> << >>, outcome |-> "UNKNOWN", again |-> FALSE,
               unclear |-> {}]

ChannelTypeOK ==
    /\ deliveries \in [1..MaxMessages ->
          [status : Terminal \cup {"NONE", "PENDING", "RUNNING"}, attempts : 0..MaxSends,
           holder : Dispatchers \cup {"none"}, over : BOOLEAN]]
    /\ \A w \in Dispatchers :
          /\ dispatcher[w].at \in {"idle", "check", "send", "record"}
          /\ dispatcher[w].batch \in Seq(Positions) /\ Len(dispatcher[w].batch) <= Batch
          /\ (dispatcher[w].at = "idle") <=> (dispatcher[w].batch = << >>)
          /\ dispatcher[w].outcome \in Outcomes /\ dispatcher[w].again \in BOOLEAN
          /\ dispatcher[w].unclear \subseteq Positions
    /\ sent \subseteq Positions \X (1..MaxSends) \X SUBSET Positions

ChannelInit ==
    /\ deliveries = [p \in 1..MaxMessages |-> NoDelivery]
    /\ dispatcher = [w \in Dispatchers |-> Off]
    /\ sent = {}

Ready(p)  == log[p].sender \in {"INTERNAL_USER", "AI_AGENT"} /\ ~log[p].skipped /\ Safe(log[p])
Blocks(q) == /\ log[q].sender \in {"INTERNAL_USER", "AI_AGENT"} /\ ~log[q].skipped
             /\ log[q].lang = "other" /\ log[q].status # "SUCCEEDED"
Blocked(p) == \E q \in 1..p - 1 : Blocks(q)

Schedule(p) ==
    /\ deliveries[p].status = "NONE" /\ Ready(p) /\ ~Blocked(p)
    /\ deliveries' = [deliveries EXCEPT ![p].status = "PENDING"]
    /\ UNCHANGED <<log, dispatcher, sent>>

Ended(d, s) == [d EXCEPT !.status = s, !.holder = "none", !.over = FALSE]

Stale(d)  == d.status = "RUNNING" /\ d.over
\* Mutant: a delivery whose lease ran out is tried again.
SweptBack(d) == IF Stale(d) THEN Ended(d, IF d.attempts < MaxSends THEN "PENDING" ELSE "FAILED") ELSE d

Swept(d)  == IF Stale(d) THEN Ended(d, "UNKNOWN") ELSE d

Claimed(d, w) == [d EXCEPT !.status = "RUNNING", !.attempts = @ + 1, !.holder = w]

\* Deliveries whose lease ran out end as UNKNOWN; those that are due are leased;
\* which of the waiting ones are due is a matter of time and of their backoff.
ClaimDue(w) ==
    LET after == [p \in DOMAIN deliveries |-> Swept(deliveries[p])]
        ready == {p \in Positions : after[p].status = "PENDING" /\ Ready(p) /\ ~Blocked(p)}
    IN
    /\ dispatcher[w].at = "idle"
    /\ \E s \in {t \in SUBSET ready : Cardinality(t) <= Batch} : \E b \in SetToSeqs(s) :
          /\ s # {} \/ after # deliveries
          /\ deliveries' = [p \in DOMAIN after |-> IF p \in s THEN Claimed(after[p], w) ELSE after[p]]
          /\ dispatcher' = IF b = << >> THEN dispatcher
                           ELSE [dispatcher EXCEPT ![w] = [Off EXCEPT !.at = "check", !.batch = b]]
    /\ UNCHANGED <<log, sent>>

First(w)   == Head(dispatcher[w].batch)
Current(w) == LET d == deliveries[First(w)] IN d.status = "RUNNING" /\ d.holder = w /\ ~d.over
Rest(w)    == IF Len(dispatcher[w].batch) = 1 THEN Off
              ELSE [Off EXCEPT !.at = "check", !.batch = Tail(dispatcher[w].batch)]

Advance(w) == dispatcher' = [dispatcher EXCEPT ![w] = Rest(w)]

\* The deadline, the text, the lease in the database and the deadline again.
Withhold(w) ==
    /\ dispatcher[w].at = "check" /\ (~Current(w) \/ Blocked(First(w)))
    /\ Advance(w) /\ UNCHANGED <<log, deliveries, sent>>

\* A text the channel cannot carry is refused before the lease is asked for.
Refuse(w) ==
    /\ dispatcher[w].at = "check" /\ ~deliveries[First(w)].over
    /\ deliveries' = IF Current(w) THEN [deliveries EXCEPT ![First(w)] = Ended(@, "FAILED")] ELSE deliveries
    /\ Advance(w) /\ UNCHANGED <<log, sent>>

\* The earlier messages whose language nobody knows: they hold up nothing yet.
Unclear(p) == {q \in 1..p - 1 : log[q].lang = "unknown"}

\* Mutant: the check before the send does not look at earlier messages.
PreflightUnasked(w) ==
    /\ dispatcher[w].at = "check" /\ Current(w) /\ Ready(First(w))
    /\ dispatcher' = [dispatcher EXCEPT ![w].at = "send", ![w].unclear = Unclear(First(w))]
    /\ UNCHANGED <<log, deliveries, sent>>

Preflight(w) ==
    /\ dispatcher[w].at = "check" /\ Current(w) /\ Ready(First(w)) /\ ~Blocked(First(w))
    /\ dispatcher' = [dispatcher EXCEPT ![w].at = "send", ![w].unclear = Unclear(First(w))]
    /\ UNCHANGED <<log, deliveries, sent>>

\* The query of the lease throws: the result is UNKNOWN although nothing was sent.
PreflightThrows(w) ==
    /\ dispatcher[w].at = "check" /\ ~deliveries[First(w)].over
    /\ dispatcher' = [dispatcher EXCEPT ![w].at = "record", ![w].outcome = "UNKNOWN"]
    /\ UNCHANGED <<log, deliveries, sent>>

Mine(w) == <<First(w), deliveries[First(w)].attempts, dispatcher[w].unclear>>

\* The adapter's call, before and after which the worker may stall; attempts is what
\* its claim read.  RETRYABLE and FAILED are confirmed refusals; DELIVERED is a message,
\* and whatever else the adapter does, a throw included, may become one.
Send(w) == \E o \in Outcomes :
    /\ dispatcher[w].at = "send"
    /\ sent' = IF o \in {"RETRYABLE", "FAILED"} THEN sent ELSE sent \cup {Mine(w)}
    /\ dispatcher' = [dispatcher EXCEPT ![w].at = "record", ![w].outcome = o, ![w].unclear = {}]
    /\ UNCHANGED <<log, deliveries>>

\* Mutant: one attempt too many.
RecordedLate(d, o) ==
    IF o # "RETRYABLE" THEN Ended(d, o)
    ELSE Ended(d, IF d.attempts > MaxSends THEN "FAILED" ELSE "PENDING")

Recorded(d, o) ==
    IF o # "RETRYABLE" THEN Ended(d, o)
    ELSE Ended(d, IF d.attempts >= MaxSends THEN "FAILED" ELSE "PENDING")

\* markDelivered, markUnknown, markRetryable and markFailed, each fenced alike.
Mark(w) == deliveries' = IF Current(w)
                         THEN [deliveries EXCEPT ![First(w)] = Recorded(@, dispatcher[w].outcome)]
                         ELSE deliveries

Record(w) ==
    /\ dispatcher[w].at = "record"
    /\ Mark(w) /\ Advance(w)
    /\ UNCHANGED <<log, sent>>

\* The write fails, or its answer is lost: the result becomes UNKNOWN; if that
\* fails too the iteration ends and with it the rest of the batch.
RecordThrows(w) ==
    /\ dispatcher[w].at = "record"
    /\ Mark(w) \/ UNCHANGED deliveries
    /\ dispatcher' = [dispatcher EXCEPT ![w] = IF @.again THEN Off
                                               ELSE [@ EXCEPT !.outcome = "UNKNOWN", !.again = TRUE]]
    /\ UNCHANGED <<log, sent>>

Crash(w) ==
    /\ dispatcher[w].at # "idle"
    /\ dispatcher' = [dispatcher EXCEPT ![w] = Off]
    /\ UNCHANGED <<log, deliveries, sent>>

LeaseEnds(p) ==
    /\ deliveries[p].status = "RUNNING" /\ ~deliveries[p].over
    /\ deliveries' = [deliveries EXCEPT ![p].over = TRUE]
    /\ UNCHANGED <<log, dispatcher, sent>>

Dispatch(w) == ClaimDue(w) \/ Withhold(w) \/ Preflight(w) \/ Send(w) \/ Record(w)

ChannelNext ==
    \/ \E p \in Positions : Schedule(p) \/ LeaseEnds(p)
    \/ \E w \in Dispatchers : Dispatch(w) \/ Refuse(w) \/ PreflightThrows(w) \/ RecordThrows(w) \/ Crash(w)

-----------------------------------------------------------------------------
\* The customer gets a message at most once, and the ledger never says otherwise:
\* what it calls delivered was, what it calls failed or will try again was not.
SentOnce == \A p \in Positions :
    LET mine == {r \in sent : r[1] = p} IN
    /\ Cardinality(mine) <= 1
    /\ (deliveries[p].status = "DELIVERED") => (mine # {})
    /\ (deliveries[p].status \in {"NONE", "PENDING", "FAILED"}) => (mine = {})

\* No message overtakes an earlier one whose translation is still to come, unless
\* nobody knew that one's language yet at the check right before the send: what staff
\* confirm between claim and check holds the message back, and nothing written,
\* confirmed or ordered after the check makes an earlier message one to wait for.
NoneOvertakes == \A r \in sent : \A q \in 1..r[1] - 1 :
    Blocks(q) => q \in r[3]
=============================================================================
