------------------------- MODULE NotificationOutbox -------------------------
(***************************************************************************)
(* The transactional outbox that notifies staff of customer inquiries:     *)
(* process-inquiry-notifications.ts, postgres-inquiry-outbox.ts,           *)
(* postgres-telegram-delivery-repository.ts and telegram-communication-    *)
(* adapter.ts, run by any number of worker processes.                      *)
(*                                                                         *)
(* A worker leases an outbox event, freezes its recipients as delivery     *)
(* rows, leases the due rows and sends one Telegram message per row, all   *)
(* at once.  Each database statement or transaction is one step; workers   *)
(* stall, crash and lose database calls between steps.                     *)
(*                                                                         *)
(* A timestamp is kept as the time left until it (0 once it has passed):   *)
(* the code only ever compares a timestamp with the clock.  A null         *)
(* locked_until and one in the past read alike everywhere, so both are 0.  *)
(***************************************************************************)
EXTENDS Integers

CONSTANTS
    Events,             \* outbox rows, numbered in the order of occurred_at
    Recipients,         \* Telegram recipients (rows of communication_recipients)
    Workers,            \* worker processes
    Answers,            \* what sendMessage may return
    MaxAttempts,        \* telegramMaximumAutomaticAttempts
    Lease,              \* both 60-second leases
    BaseDelay,          \* first backoff delay
    MaxDelay,           \* largest backoff delay
    NoRecipientsDelay,  \* noRecipientsRetryMilliseconds
    TranslationWait,    \* customerMessageTranslationMaximumWaitMilliseconds
    RetryAfters,        \* retry_after values of the provider (0: none given)
    AttemptCap,         \* bound: an event counts its claims up to here
    MaxFaults           \* bound: crashes and failed database calls

ProviderAnswers == {"delivered", "retryable", "credential", "forbidden", "unknown"}

ASSUME ConstantsAssumption ==
    /\ Events \subseteq Nat
    /\ Answers \subseteq ProviderAnswers
    /\ {MaxAttempts, Lease, BaseDelay, MaxDelay, NoRecipientsDelay, AttemptCap}
         \subseteq Nat \ {0}
    /\ {TranslationWait, MaxFaults} \subseteq Nat
    /\ RetryAfters \subseteq Nat

VARIABLES
    event,        \* inquiry_outbox: one row per event
    translation,  \* the staff translation of the event's message, and its deadline
    eligible,     \* recipients the snapshot query selects now
    delivery,     \* telegram_inquiry_deliveries: one row per event and recipient
    worker,       \* the processEvent call each worker is in
    tasks,        \* processDelivery calls whose promise has not settled
    transit,      \* sendMessage requests the provider has neither taken nor refused
    accepted,     \* requests the provider turned into a message
    faults        \* crashes and failed database calls so far

tables == <<event, delivery>>
vars   == <<event, translation, eligible, delivery, worker, tasks, transit,
            accepted, faults>>
-----------------------------------------------------------------------------
Automatic == {"PENDING", "IN_FLIGHT", "RETRYABLE_FAILURE"}
Terminal  == {"DELIVERED", "PERMANENT_FAILURE", "UNKNOWN"}

Phases == {"idle", "load", "snapshot", "claim", "sending", "retry", "processed"}

Attempts == Events \X Recipients \X Nat

TypeOK ==
    /\ event \in [Events -> [state : {"absent", "pending", "processed", "purged"},
                             attempts : 0..AttemptCap,
                             availableIn : Nat, lockedFor : Nat]]
    /\ translation \in [Events -> [waiting : BOOLEAN, deadlineIn : Nat]]
    /\ eligible \subseteq Recipients
    /\ delivery \in [Events -> [Recipients ->
                        [status : Automatic \cup Terminal \cup {"NONE"},
                         attempts : 0..MaxAttempts,
                         availableIn : Nat, lockedFor : Nat]]]
    /\ worker \in [Workers -> [phase : Phases, event : Events,
                               attempts : 0..AttemptCap, retryIn : Nat]]
    /\ tasks \subseteq [event : Events, recipient : Recipients,
                        attempt : 1..MaxAttempts, worker : Workers,
                        awaited : BOOLEAN,
                        stage : {"queued", "sent"} \cup ProviderAnswers]
    /\ transit \subseteq Attempts
    /\ accepted \subseteq Attempts
    /\ faults \in 0..MaxFaults
-----------------------------------------------------------------------------
Lesser(a, b)  == IF a <= b THEN a ELSE b
Greater(a, b) == IF a >= b THEN a ELSE b

\* Exponential backoff: the exponent stops at 7.
Powers == <<1, 2, 4, 8, 16, 32, 64, 128>>
RetryDelay(attempts) ==
    Lesser(MaxDelay, BaseDelay * Powers[1 + Lesser(Greater(0, attempts - 1), 7)])

NoRow == [status |-> "NONE", attempts |-> 0, availableIn |-> 0, lockedFor |-> 0]

Rows(e) == {r \in Recipients : delivery[e][r].status # "NONE"}

RequestOf(t) == <<t.event, t.recipient, t.attempt>>

Init ==
    /\ event = [e \in Events |->
                   [state |-> "absent", attempts |-> 0, availableIn |-> 0, lockedFor |-> 0]]
    /\ translation = [e \in Events |-> [waiting |-> FALSE, deadlineIn |-> 0]]
    /\ eligible \in SUBSET Recipients
    /\ delivery = [e \in Events |-> [r \in Recipients |-> NoRow]]
    /\ \E none \in Events :
          worker = [w \in Workers |->
                       [phase |-> "idle", event |-> none, attempts |-> 0, retryIn |-> 0]]
    /\ tasks = {}
    /\ transit = {}
    /\ accepted = {}
    /\ faults = 0
-----------------------------------------------------------------------------
(* The environment: customers, staff, translation, retention, time.        *)

\* A customer submits an inquiry or a website message; the event is stored in
\* the same transaction.  A message may need a staff translation.
Publish(e) ==
    /\ event[e].state = "absent"
    /\ event' = [event EXCEPT ![e].state = "pending"]
    /\ \E waiting \in BOOLEAN :
          translation' = [translation EXCEPT ![e] =
             [waiting |-> waiting, deadlineIn |-> IF waiting THEN TranslationWait ELSE 0]]
    /\ UNCHANGED <<eligible, delivery, worker, tasks, transit, accepted, faults>>

TranslationSettles(e) ==
    /\ translation[e].waiting
    /\ translation' = [translation EXCEPT ![e] = [waiting |-> FALSE, deadlineIn |-> 0]]
    /\ UNCHANGED <<tables, eligible, worker, tasks, transit, accepted, faults>>

\* Authorizing, connecting, disabling a recipient.
ChangeRecipients ==
    /\ eligible' \in SUBSET Recipients
    /\ eligible' # eligible
    /\ UNCHANGED <<tables, translation, worker, tasks, transit, accepted, faults>>

\* Retention deletes the inquiry; the event and its rows cascade.
Purge(e) ==
    /\ event[e].state \in {"pending", "processed"}
    /\ event' = [event EXCEPT ![e] =
                   [state |-> "purged", attempts |-> 0, availableIn |-> 0, lockedFor |-> 0]]
    /\ delivery' = [delivery EXCEPT ![e] = [r \in Recipients |-> NoRow]]
    /\ translation' = [translation EXCEPT ![e] = [waiting |-> FALSE, deadlineIn |-> 0]]
    /\ UNCHANGED <<eligible, worker, tasks, transit, accepted, faults>>

Sooner(n) == Greater(0, n - 1)

Tick ==
    /\ event' = [e \in Events |-> [event[e] EXCEPT !.availableIn = Sooner(@),
                                                   !.lockedFor = Sooner(@)]]
    /\ translation' = [e \in Events |-> [translation[e] EXCEPT !.deadlineIn = Sooner(@)]]
    /\ delivery' = [e \in Events |-> [r \in Recipients |->
                      [delivery[e][r] EXCEPT !.availableIn = Sooner(@),
                                             !.lockedFor = Sooner(@)]]]
    /\ worker' = [w \in Workers |-> [worker[w] EXCEPT !.retryIn = Sooner(@)]]
    /\ UNCHANGED <<eligible, tasks, transit, accepted, faults>>
-----------------------------------------------------------------------------
(* The worker.                                                             *)

Busy(w, phase) == worker[w].phase = phase

Goto(w, phase) == worker' = [worker EXCEPT ![w].phase = phase]

\* A finished call leaves nothing behind.
Idle(w) == worker' = [worker EXCEPT ![w].phase = "idle", ![w].attempts = 0,
                                    ![w].retryIn = 0]

Claimable(e) ==
    /\ event[e].state = "pending"
    /\ event[e].availableIn = 0
    /\ event[e].lockedFor = 0

\* claimPending(1): lease the earliest due event.
Claim(w, e) ==
    /\ Busy(w, "idle")
    /\ Claimable(e)
    /\ \A f \in Events : Claimable(f) => e <= f
    /\ LET attempts == Lesser(event[e].attempts + 1, AttemptCap)
       IN  /\ event' = [event EXCEPT ![e].attempts = attempts, ![e].lockedFor = Lease]
           /\ worker' = [worker EXCEPT ![w] =
                [phase |-> "load", event |-> e, attempts |-> attempts, retryIn |-> 0]]
    /\ UNCHANGED <<translation, eligible, delivery, tasks, transit, accepted, faults>>

\* Mutant: the wait for the translation has no deadline.
WaitsForEver(e) == translation[e].waiting

\* The staff translation is still due.
Waits(e) == translation[e].waiting /\ translation[e].deadlineIn > 0

\* processEvent up to the snapshot: read the clock, the inquiry and the message;
\* put the event off when they are gone or the staff translation is still due.
\* The time that a call without recipients retries at counts from here too.
Load(w) ==
    /\ Busy(w, "load")
    /\ LET e == worker[w].event
           backoff == RetryDelay(worker[w].attempts)
           gone == event[e].state = "purged"
       IN  worker' = [worker EXCEPT
             ![w].phase = IF gone \/ Waits(e) THEN "retry" ELSE "snapshot",
             ![w].retryIn = IF gone THEN backoff
                            ELSE IF Waits(e) THEN Lesser(backoff, translation[e].deadlineIn)
                            ELSE NoRecipientsDelay]
    /\ UNCHANGED <<tables, translation, eligible, tasks, transit, accepted, faults>>

\* The calls of w's unsettled processDelivery promises that nobody awaits any more.
Abandoned(w, ts) ==
    {IF t.worker = w THEN [t EXCEPT !.awaited = FALSE] ELSE t : t \in ts}

\* The recipients a snapshot inserts: none when the event has rows already.
Chosen(e) == IF Rows(e) = {} THEN eligible ELSE {}

\* snapshotRecipients: the rows are inserted once, under the event's row lock.
Snapshot(w) ==
    /\ Busy(w, "snapshot")
    /\ LET e == worker[w].event
           NewRow == [NoRow EXCEPT !.status = "PENDING"]
       IN  IF event[e].state = "purged"
           THEN Idle(w) /\ UNCHANGED delivery
           ELSE /\ delivery' = [delivery EXCEPT ![e] = [r \in Recipients |->
                     IF r \in Chosen(e) THEN NewRow ELSE delivery[e][r]]]
                /\ Goto(w, IF Rows(e) \cup Chosen(e) = {} THEN "retry" ELSE "claim")
    /\ UNCHANGED <<event, translation, eligible, tasks, transit, accepted, faults>>

Expired(e) == {r \in Rows(e) : /\ delivery[e][r].status = "IN_FLIGHT"
                               /\ delivery[e][r].lockedFor = 0}
Due(e) == {r \in Rows(e) : /\ delivery[e][r].status \in {"PENDING", "RETRYABLE_FAILURE"}
                           /\ delivery[e][r].availableIn = 0
                           /\ delivery[e][r].lockedFor = 0}

\* Mutant: a row whose lease ran out is sent again.
GivenBack(row) == [row EXCEPT !.status = "RETRYABLE_FAILURE", !.lockedFor = 0]

GivenUp(row) == [row EXCEPT !.status = "UNKNOWN", !.lockedFor = 0]
Leased(row)  == [row EXCEPT !.status = "IN_FLIGHT", !.attempts = row.attempts + 1,
                            !.lockedFor = Lease]

\* claimDue: give up rows whose lease ran out, lease the due rows, and start one
\* processDelivery call for each.
ClaimDue(w) ==
    /\ Busy(w, "claim")
    /\ LET e == worker[w].event
       IN  /\ delivery' = [delivery EXCEPT ![e] = [r \in Recipients |->
                IF r \in Expired(e) THEN GivenUp(delivery[e][r])
                ELSE IF r \in Due(e) THEN Leased(delivery[e][r])
                ELSE delivery[e][r]]]
           /\ tasks' = tasks \cup
                {[event |-> e, recipient |-> r, attempt |-> delivery[e][r].attempts + 1,
                  worker |-> w, awaited |-> TRUE, stage |-> "queued"] : r \in Due(e)}
    /\ worker' = [worker EXCEPT ![w].phase = "sending", ![w].retryIn = 0]
    /\ UNCHANGED <<event, translation, eligible, transit, accepted, faults>>

\* Mutant: a row another worker holds in flight counts as done.
RemainingUnleased(e) == {r \in Rows(e) :
    delivery[e][r].status \in {"PENDING", "RETRYABLE_FAILURE"}}

\* summarizeEvent, once every awaited call has settled.
Remaining(e) == {r \in Rows(e) : delivery[e][r].status \in Automatic}
NextWork(e) == {IF delivery[e][r].status = "IN_FLIGHT" THEN delivery[e][r].lockedFor
                ELSE delivery[e][r].availableIn : r \in Remaining(e)}

Summarize(w) ==
    /\ Busy(w, "sending")
    /\ \A t \in tasks : ~ (t.worker = w /\ t.awaited)
    /\ LET e == worker[w].event
       IN  \/ /\ Rows(e) # {} /\ Remaining(e) = {}
              /\ Goto(w, "processed")
           \/ /\ Rows(e) = {}      \* purged meanwhile
              /\ worker' = [worker EXCEPT ![w].phase = "retry",
                              ![w].retryIn = RetryDelay(worker[w].attempts)]
           \/ \E next \in NextWork(e) :
                 /\ \A other \in NextWork(e) : next <= other
                 /\ worker' = [worker EXCEPT ![w].phase = "retry", ![w].retryIn = next]
    /\ UNCHANGED <<tables, translation, eligible, tasks, transit, accepted, faults>>

\* markProcessed and scheduleRetry: any worker may write them, whoever holds the lease.
MarkProcessed(w) ==
    /\ Busy(w, "processed")
    /\ LET e == worker[w].event
       IN  event' = IF event[e].state = "pending"
                    THEN [event EXCEPT ![e].state = "processed", ![e].lockedFor = 0]
                    ELSE event
    /\ Idle(w)
    /\ UNCHANGED <<translation, eligible, delivery, tasks, transit, accepted, faults>>

ScheduleRetry(w) ==
    /\ Busy(w, "retry")
    /\ LET e == worker[w].event
       IN  event' = IF event[e].state = "pending"
                    THEN [event EXCEPT ![e].availableIn = worker[w].retryIn,
                                       ![e].lockedFor = 0]
                    ELSE event
    /\ Idle(w)
    /\ UNCHANGED <<translation, eligible, delivery, tasks, transit, accepted, faults>>
-----------------------------------------------------------------------------
(* One processDelivery call and the provider.                              *)

Send(t) ==
    /\ t.stage = "queued"
    /\ tasks' = (tasks \ {t}) \cup {[t EXCEPT !.stage = "sent"]}
    /\ transit' = transit \cup {RequestOf(t)}
    /\ UNCHANGED <<tables, translation, eligible, worker, accepted, faults>>

\* The provider takes the request, whatever became of the caller meanwhile.
Accept(q) ==
    /\ transit' = transit \ {q}
    /\ accepted' = accepted \cup {q}
    /\ UNCHANGED <<tables, translation, eligible, worker, tasks, faults>>

\* sendMessage returns.  An error status means the provider refused the request;
\* a timeout, a broken connection or an unreadable answer tells nothing.
Answer(t, a) ==
    /\ t.stage = "sent"
    /\ \/ /\ a = "delivered"
          /\ RequestOf(t) \in accepted
          /\ UNCHANGED transit
       \/ /\ a \in {"retryable", "credential", "forbidden"}
          /\ RequestOf(t) \in transit
          /\ transit' = transit \ {RequestOf(t)}
       \/ /\ a = "unknown"
          /\ UNCHANGED transit
    /\ tasks' = (tasks \ {t}) \cup {[t EXCEPT !.stage = a]}
    /\ UNCHANGED <<tables, translation, eligible, worker, accepted, faults>>

\* A rejected call rejects Promise.all: the worker leaves processEvent and
\* execute at once, and the other calls of the batch run on unawaited.
Reject(t) ==
    IF t.awaited
    THEN /\ tasks' = Abandoned(t.worker, tasks \ {t})
         /\ Idle(t.worker)
    ELSE /\ tasks' = tasks \ {t}
         /\ UNCHANGED worker

\* Mutants: one attempt too many; an unknown outcome recorded as a failure.
StatusForLate(t) ==
    CASE t.stage = "delivered" -> "DELIVERED"
      [] t.stage = "forbidden" -> "PERMANENT_FAILURE"
      [] t.stage = "unknown" -> "UNKNOWN"
      [] OTHER -> IF t.attempt > MaxAttempts THEN "PERMANENT_FAILURE"
                  ELSE "RETRYABLE_FAILURE"
StatusForGuessed(t) ==
    CASE t.stage = "delivered" -> "DELIVERED"
      [] t.stage \in {"forbidden", "unknown"} -> "PERMANENT_FAILURE"
      [] OTHER -> IF t.attempt >= MaxAttempts THEN "PERMANENT_FAILURE"
                  ELSE "RETRYABLE_FAILURE"

StatusFor(t) ==
    CASE t.stage = "delivered" -> "DELIVERED"
      [] t.stage = "forbidden" -> "PERMANENT_FAILURE"
      [] t.stage = "unknown" -> "UNKNOWN"
      [] OTHER -> IF t.attempt >= MaxAttempts THEN "PERMANENT_FAILURE"
                  ELSE "RETRYABLE_FAILURE"

\* Mutant: the transition is not fenced.
HoldsAlways(t) == t.stage \in ProviderAnswers

\* transition(): only the attempt that holds the row in flight may move it.
Holds(t) ==
    /\ delivery[t.event][t.recipient].status = "IN_FLIGHT"
    /\ delivery[t.event][t.recipient].attempts = t.attempt

Record(t) ==
    /\ t.stage \in ProviderAnswers
    /\ \E retryAfter \in RetryAfters :
         LET wait == IF StatusFor(t) = "RETRYABLE_FAILURE"
                     THEN Greater(RetryDelay(t.attempt),
                                  IF t.stage = "retryable" THEN retryAfter ELSE 0)
                     ELSE 0
         IN  IF Holds(t)
             THEN /\ delivery' = [delivery EXCEPT ![t.event][t.recipient] =
                       [status |-> StatusFor(t), attempts |-> t.attempt,
                        availableIn |-> wait, lockedFor |-> 0]]
                  /\ tasks' = tasks \ {t}
                  /\ UNCHANGED worker
             ELSE Reject(t) /\ UNCHANGED delivery
    /\ UNCHANGED <<event, translation, eligible, transit, accepted, faults>>
-----------------------------------------------------------------------------
(* Faults.                                                                 *)

Fault == faults < MaxFaults /\ faults' = faults + 1

\* A database call of processEvent throws.
Abort(w) ==
    /\ worker[w].phase # "idle"
    /\ \A t \in tasks : ~ (t.worker = w /\ t.awaited)
    /\ Fault
    /\ Idle(w)
    /\ UNCHANGED <<tables, translation, eligible, tasks, transit, accepted>>

\* The database call of a processDelivery call throws.
RecordFails(t) ==
    /\ t.stage \in ProviderAnswers
    /\ Fault
    /\ Reject(t)
    /\ UNCHANGED <<tables, translation, eligible, transit, accepted>>

\* The process dies and is restarted.
Crash(w) ==
    /\ Fault
    /\ \/ worker[w].phase # "idle"
       \/ \E t \in tasks : t.worker = w
    /\ Idle(w)
    /\ tasks' = {t \in tasks : t.worker # w}
    /\ UNCHANGED <<tables, translation, eligible, transit, accepted>>
-----------------------------------------------------------------------------
WorkerStep(w) ==
    \/ \E e \in Events : Claim(w, e)
    \/ Load(w) \/ Snapshot(w) \/ ClaimDue(w) \/ Summarize(w)
    \/ MarkProcessed(w) \/ ScheduleRetry(w)

TaskStep(t) ==
    \/ Send(t)
    \/ \E a \in Answers : Answer(t, a)
    \/ Record(t)

Environment ==
    \/ \E e \in Events : Publish(e) \/ TranslationSettles(e) \/ Purge(e)
    \/ ChangeRecipients
    \/ \E q \in transit : Accept(q)
    \/ \E w \in Workers : Abort(w) \/ Crash(w)
    \/ \E t \in tasks : RecordFails(t)

Next ==
    \/ \E w \in Workers : WorkerStep(w)
    \/ \E t \in tasks : TaskStep(t)
    \/ Tick
    \/ Environment

Spec == Init /\ [][Next]_vars

\* Worker processes run on (the supervisor restarts them), every sendMessage
\* ends (the adapter aborts it after ten seconds), and time passes.  Nothing is
\* assumed of customers, staff, translation, retention or the provider.
TasksOf(w) == {t \in tasks : t.worker = w}

Fairness ==
    /\ \A w \in Workers : WF_vars(WorkerStep(w))
    /\ \A w \in Workers : WF_vars(\E t \in TasksOf(w) : TaskStep(t))
    /\ WF_vars(Tick)

FairSpec == Spec /\ Fairness
-----------------------------------------------------------------------------
(* Properties.                                                             *)

\* No recipient gets an event's message twice, whatever stalls, crashes, lost
\* answers and second workers do ("intentionally duplicate-averse").
AtMostOnce ==
    \A p, q \in accepted : (p[1] = q[1] /\ p[2] = q[2]) => p = q

\* What a row says is what happened: DELIVERED was received, and a permanent
\* failure was not and no request that could still arrive is on its way.
LedgerIsTrue ==
    \A e \in Events, r \in Recipients :
        /\ delivery[e][r].status = "DELIVERED" =>
              <<e, r, delivery[e][r].attempts>> \in accepted
        /\ delivery[e][r].status = "PERMANENT_FAILURE" =>
              \A q \in accepted \cup transit : ~ (q[1] = e /\ q[2] = r)

\* An event leaves the queue only when it has rows and none of them needs the
\* worker: the summary read before markProcessed cannot be outdated by another
\* worker, a late answer or a changed recipient.
ProcessedMeansSettled ==
    \A e \in Events :
        event[e].state = "processed" => Rows(e) # {} /\ Remaining(e) = {}

\* The ledger is history: a final row never changes, an event's set of rows is
\* fixed by its first snapshot, a processed event stays processed; only
\* retention takes them away.
LedgerIsHistory ==
    [][\A e \in Events :
         event'[e].state # "purged" =>
            /\ Rows(e) # {} => Rows(e)' = Rows(e)
            /\ \A r \in Rows(e) :
                  delivery[e][r].status \in Terminal =>
                     /\ delivery'[e][r].status = delivery[e][r].status
                     /\ delivery'[e][r].attempts = delivery[e][r].attempts
            /\ event[e].state = "processed" => event'[e].state = "processed"]_vars

\* Every event is processed (or purged) in the end, if recipients are not
\* missing for ever: a translation that never ends, slow or stalled workers and
\* lost answers delay it only.
EveryEventSettles ==
    <>[](eligible # {}) =>
        \A e \in Events : event[e].state = "pending" ~> event[e].state # "pending"

\* The promise of the outbox, read off its tables.
Fate == [e \in Events |-> [r \in Recipients |->
            IF event[e].state = "purged" THEN "purged"
            ELSE IF delivery[e][r].status = "NONE" THEN "none"
            ELSE IF delivery[e][r].status \in Automatic THEN "open"
            ELSE delivery[e][r].status]]
Closed == {e \in Events : event[e].state = "processed"}

Promise == INSTANCE DuplicateAverseDelivery
              WITH fate <- Fate, messages <- accepted, closed <- Closed

\* The outbox implements the duplicate-averse delivery it promises.
KeepsPromise == Promise!Spec

\* docs/tasks/0026-telegram-real-integration.md:48 "Iterations never overlap: a
\* slow iteration finishes before the delay and next iteration begin."
IterationsNeverOverlap ==
    [][\A w \in Workers :
         (worker[w].phase = "idle" /\ worker'[w].phase # "idle") => TasksOf(w) = {}]_vars
=============================================================================
