---------------------- MODULE NotificationOutboxProofs ----------------------
(***************************************************************************)
(* Proofs about NotificationOutbox, for every set of events, recipients    *)
(* and workers, every lease, delay and retry budget.                       *)
(***************************************************************************)
EXTENDS NotificationOutbox, TLAPS

EventRows == [state : {"absent", "pending", "processed", "purged"},
              attempts : 0..AttemptCap, availableIn : Nat, lockedFor : Nat]
DeliveryRows == [status : Automatic \cup Terminal \cup {"NONE"},
                 attempts : 0..MaxAttempts, availableIn : Nat, lockedFor : Nat]
WorkerRows == [phase : Phases, event : Events, attempts : 0..AttemptCap, retryIn : Nat]
Tasks == [event : Events, recipient : Recipients, attempt : 1..MaxAttempts,
          worker : Workers, awaited : BOOLEAN,
          stage : {"queued", "sent"} \cup ProviderAnswers]

\* A row that may be claimed again has attempts left.
Budget ==
    \A e \in Events, r \in Recipients :
        /\ delivery[e][r].status = "PENDING" => delivery[e][r].attempts = 0
        /\ delivery[e][r].status = "RETRYABLE_FAILURE" =>
              delivery[e][r].attempts < MaxAttempts
-----------------------------------------------------------------------------
(* Operators.                                                              *)

LEMMA ConstantTypes ==
    /\ MaxAttempts \in Nat /\ MaxAttempts >= 1
    /\ AttemptCap \in Nat /\ AttemptCap >= 1
    /\ Lease \in Nat /\ BaseDelay \in Nat /\ MaxDelay \in Nat
    /\ NoRecipientsDelay \in Nat /\ TranslationWait \in Nat /\ MaxFaults \in Nat
  BY ConstantsAssumption

\* What the two updates of claimDue leave in a row.
LEMMA GivenUpRow ==
    ASSUME NEW row \in DeliveryRows
    PROVE  /\ GivenUp(row) \in DeliveryRows
           /\ GivenUp(row).status = "UNKNOWN"
           /\ GivenUp(row).attempts = row.attempts
  BY DEF GivenUp, DeliveryRows, Terminal

LEMMA LeasedRow ==
    ASSUME NEW row \in DeliveryRows, row.attempts + 1 \in 0..MaxAttempts
    PROVE  /\ Leased(row) \in DeliveryRows
           /\ Leased(row).status = "IN_FLIGHT"
           /\ Leased(row).attempts = row.attempts + 1
  BY ConstantTypes DEF Leased, DeliveryRows, Automatic

LEMMA LesserType == ASSUME NEW a \in Nat, NEW b \in Nat
                    PROVE  Lesser(a, b) \in Nat /\ Lesser(a, b) <= a /\ Lesser(a, b) <= b
  BY DEF Lesser

LEMMA GreaterType == ASSUME NEW a \in Nat, NEW b \in Nat
                     PROVE  Greater(a, b) \in Nat
  BY DEF Greater

LEMMA SoonerType == ASSUME NEW n \in Nat PROVE Sooner(n) \in Nat
  BY DEF Sooner, Greater

\* A backoff delay is a natural number for every number of attempts.
LEMMA RetryDelayType == ASSUME NEW a \in Nat PROVE RetryDelay(a) \in Nat
<1> DEFINE i == 1 + Lesser(Greater(0, a - 1), 7)
<1>1. i \in {1, 2, 3, 4, 5, 6, 7, 8}
  BY DEF Lesser, Greater
<1>2. Powers[i] \in Nat
  BY <1>1 DEF Powers
<1>3. BaseDelay \in Nat /\ MaxDelay \in Nat
  BY ConstantsAssumption
<1>4. BaseDelay * Powers[i] \in Nat
  BY <1>2, <1>3
<1> QED
  BY <1>3, <1>4, LesserType DEF RetryDelay
-----------------------------------------------------------------------------
(* Type correctness.  The budget is needed: a claim adds one to attempts.  *)

Typed == TypeOK /\ Budget

LEMMA TypedRows ==
    TypeOK <=> /\ event \in [Events -> EventRows]
               /\ translation \in [Events -> [waiting : BOOLEAN, deadlineIn : Nat]]
               /\ eligible \subseteq Recipients
               /\ delivery \in [Events -> [Recipients -> DeliveryRows]]
               /\ worker \in [Workers -> WorkerRows]
               /\ tasks \subseteq Tasks
               /\ transit \subseteq Attempts
               /\ accepted \subseteq Attempts
               /\ faults \in 0..MaxFaults
  BY DEF TypeOK, EventRows, DeliveryRows, WorkerRows, Tasks

LEMMA InitTyped == Init => Typed
<1> SUFFICES ASSUME Init PROVE Typed
  OBVIOUS
<1> USE ConstantsAssumption DEF Init, NoRow
<1>1. event \in [Events -> EventRows]
  BY DEF EventRows
<1>2. delivery \in [Events -> [Recipients -> DeliveryRows]]
  BY DEF DeliveryRows
<1>3. worker \in [Workers -> WorkerRows]
  BY DEF WorkerRows, Phases
<1>4. Budget
  BY DEF Budget
<1> QED
  BY <1>1, <1>2, <1>3, <1>4, TypedRows DEF Typed

\* Leaving a worker's call, and dropping or abandoning its calls, keep the types.
LEMMA IdleType ==
    ASSUME TypeOK, NEW w \in Workers, Idle(w)
    PROVE  worker' \in [Workers -> WorkerRows]
<1> USE ConstantsAssumption
<1>1. worker \in [Workers -> WorkerRows]
  BY TypedRows
<1>2. 0 \in 0..AttemptCap /\ 0 \in Nat /\ "idle" \in Phases
  BY DEF Phases
<1> QED
  BY <1>1, <1>2 DEF Idle, WorkerRows

LEMMA GotoType ==
    ASSUME TypeOK, NEW w \in Workers, NEW p \in Phases, Goto(w, p)
    PROVE  worker' \in [Workers -> WorkerRows]
  BY TypedRows DEF Goto, WorkerRows

LEMMA CallType ==
    ASSUME TypeOK, NEW w \in Workers, NEW p \in Phases, NEW n \in Nat,
           worker' = [worker EXCEPT ![w].phase = p, ![w].retryIn = n]
    PROVE  worker' \in [Workers -> WorkerRows]
<1>1. worker \in [Workers -> WorkerRows]
  BY TypedRows
<1>2. worker' = [worker EXCEPT ![w] = [worker[w] EXCEPT !.phase = p, !.retryIn = n]]
  BY <1>1
<1>3. [worker[w] EXCEPT !.phase = p, !.retryIn = n] \in WorkerRows
  BY <1>1 DEF WorkerRows
<1> QED
  BY <1>1, <1>2, <1>3

LEMMA AbandonedType ==
    ASSUME NEW ts, ts \subseteq Tasks, NEW w \in Workers
    PROVE  Abandoned(w, ts) \subseteq Tasks
  BY DEF Abandoned, Tasks

LEMMA RejectType ==
    ASSUME TypeOK, NEW t \in tasks, Reject(t)
    PROVE  /\ worker' \in [Workers -> WorkerRows]
           /\ tasks' \subseteq Tasks
<1>1. t.worker \in Workers /\ tasks \subseteq Tasks
  BY TypedRows DEF Tasks
<1>2. CASE t.awaited
  <2>1. worker' \in [Workers -> WorkerRows]
    BY <1>1, <1>2, IdleType DEF Reject
  <2>2. tasks' \subseteq Tasks
    BY <1>1, <1>2, AbandonedType DEF Reject
  <2> QED
    BY <2>1, <2>2
<1>3. CASE ~ t.awaited
  BY <1>1, <1>3, TypedRows DEF Reject
<1> QED
  BY <1>2, <1>3

LEMMA TypedRowsNext ==
    TypeOK' <=> /\ event' \in [Events -> EventRows]
                /\ translation' \in [Events -> [waiting : BOOLEAN, deadlineIn : Nat]]
                /\ eligible' \subseteq Recipients
                /\ delivery' \in [Events -> [Recipients -> DeliveryRows]]
                /\ worker' \in [Workers -> WorkerRows]
                /\ tasks' \subseteq Tasks
                /\ transit' \subseteq Attempts
                /\ accepted' \subseteq Attempts
                /\ faults' \in 0..MaxFaults
  BY DEF TypeOK, EventRows, DeliveryRows, WorkerRows, Tasks

\* A claim counts one more attempt, and the budget leaves room for it.
LEMMA ClaimDueTyped ==
    ASSUME Typed, NEW w \in Workers, ClaimDue(w)
    PROVE  /\ delivery' \in [Events -> [Recipients -> DeliveryRows]]
           /\ tasks' \subseteq Tasks
           /\ worker' \in [Workers -> WorkerRows]
           /\ Budget'
<1> DEFINE e == worker[w].event
           new == [r \in Recipients |->
             IF r \in Expired(e) THEN GivenUp(delivery[e][r])
             ELSE IF r \in Due(e) THEN Leased(delivery[e][r])
             ELSE delivery[e][r]]
<1>1. /\ e \in Events
      /\ delivery \in [Events -> [Recipients -> DeliveryRows]]
      /\ worker \in [Workers -> WorkerRows]
      /\ tasks \subseteq Tasks
  BY TypedRows DEF Typed, WorkerRows
<1>2. delivery' = [delivery EXCEPT ![e] = new]
  BY <1>1 DEF ClaimDue
<1>3. ASSUME NEW r \in Due(e)
      PROVE  /\ r \in Recipients
             /\ delivery[e][r].attempts + 1 \in 1..MaxAttempts
  <2>1. /\ r \in Recipients
        /\ delivery[e][r].status = "PENDING" \/ delivery[e][r].status = "RETRYABLE_FAILURE"
    BY <1>3 DEF Due, Rows
  <2>2. delivery[e][r].attempts \in 0..MaxAttempts
    BY <1>1, <2>1 DEF DeliveryRows
  <2>3. delivery[e][r].attempts < MaxAttempts
    <3>1. CASE delivery[e][r].status = "PENDING"
      BY <1>1, <2>1, <3>1, ConstantTypes DEF Typed, Budget
    <3>2. CASE delivery[e][r].status = "RETRYABLE_FAILURE"
      BY <1>1, <2>1, <3>2 DEF Typed, Budget
    <3> QED
      BY <2>1, <3>1, <3>2
  <2> QED
    BY <2>1, <2>2, <2>3, ConstantTypes
<1>4. ASSUME NEW r \in Recipients
      PROVE  /\ new[r] \in DeliveryRows
             /\ new[r].status = "PENDING" => new[r].attempts = 0
             /\ new[r].status = "RETRYABLE_FAILURE" => new[r].attempts < MaxAttempts
  <2>1. CASE r \in Expired(e)
    <3>1. new[r] = GivenUp(delivery[e][r])
      BY <2>1
    <3> QED
      <4>1. delivery[e][r] \in DeliveryRows
        BY <1>1
      <4> QED
        BY <3>1, <4>1, GivenUpRow
  <2>2. CASE r \in Due(e) /\ r \notin Expired(e)
    <3>1. new[r] = Leased(delivery[e][r])
      BY <2>2
    <3> QED
      <4>1. delivery[e][r] \in DeliveryRows
        BY <1>1
      <4>2. delivery[e][r].attempts + 1 \in 0..MaxAttempts
        BY <1>3, <2>2
      <4> QED
        BY <3>1, <4>1, <4>2, LeasedRow
  <2>3. CASE r \notin Due(e) /\ r \notin Expired(e)
    <3>1. new[r] = delivery[e][r]
      BY <2>3
    <3> QED
      BY <1>1, <3>1 DEF Typed, Budget
  <2> QED
    BY <2>1, <2>2, <2>3
<1>5. delivery' \in [Events -> [Recipients -> DeliveryRows]]
  BY <1>1, <1>2, <1>4
<1>6. tasks' \subseteq Tasks
  <2>1. tasks' = tasks \cup
          {[event |-> e, recipient |-> r, attempt |-> delivery[e][r].attempts + 1,
            worker |-> w, awaited |-> TRUE, stage |-> "queued"] : r \in Due(e)}
    BY DEF ClaimDue
  <2>2. ASSUME NEW r \in Due(e)
        PROVE  [event |-> e, recipient |-> r, attempt |-> delivery[e][r].attempts + 1,
                worker |-> w, awaited |-> TRUE, stage |-> "queued"] \in Tasks
    BY <1>1, <1>3, <2>2 DEF Tasks
  <2> QED
    BY <1>1, <2>1, <2>2
<1>7. worker' \in [Workers -> WorkerRows]
  BY <1>1 DEF ClaimDue, WorkerRows, Phases
<1>8. Budget'
  <2> SUFFICES ASSUME NEW f \in Events, NEW r \in Recipients
               PROVE  /\ delivery'[f][r].status = "PENDING" => delivery'[f][r].attempts = 0
                      /\ delivery'[f][r].status = "RETRYABLE_FAILURE" =>
                            delivery'[f][r].attempts < MaxAttempts
    BY DEF Budget
  <2>1. CASE f = e
    BY <1>1, <1>2, <1>4, <2>1
  <2>2. CASE f # e
    BY <1>1, <1>2, <2>2 DEF Typed, Budget
  <2> QED
    BY <2>1, <2>2
<1> QED
  BY <1>5, <1>6, <1>7, <1>8

\* A recorded failure may be retried only below the limit.
LEMMA RecordTyped ==
    ASSUME Typed, NEW t \in tasks, Record(t)
    PROVE  /\ delivery' \in [Events -> [Recipients -> DeliveryRows]]
           /\ tasks' \subseteq Tasks
           /\ worker' \in [Workers -> WorkerRows]
           /\ Budget'
<1> USE ConstantsAssumption
<1>1. /\ delivery \in [Events -> [Recipients -> DeliveryRows]]
      /\ worker \in [Workers -> WorkerRows]
      /\ tasks \subseteq Tasks
      /\ t.event \in Events /\ t.recipient \in Recipients /\ t.attempt \in 1..MaxAttempts
  BY TypedRows DEF Typed, Tasks
<1>2. CASE Holds(t)
  <2>1. PICK retryAfter \in RetryAfters :
          LET wait == IF StatusFor(t) = "RETRYABLE_FAILURE"
                      THEN Greater(RetryDelay(t.attempt),
                                   IF t.stage = "retryable" THEN retryAfter ELSE 0)
                      ELSE 0
          IN  /\ delivery' = [delivery EXCEPT ![t.event][t.recipient] =
                      [status |-> StatusFor(t), attempts |-> t.attempt,
                       availableIn |-> wait, lockedFor |-> 0]]
              /\ tasks' = tasks \ {t}
              /\ UNCHANGED worker
    BY <1>2 DEF Record
  <2> DEFINE wait == IF StatusFor(t) = "RETRYABLE_FAILURE"
                     THEN Greater(RetryDelay(t.attempt),
                                  IF t.stage = "retryable" THEN retryAfter ELSE 0)
                     ELSE 0
             row == [status |-> StatusFor(t), attempts |-> t.attempt,
                     availableIn |-> wait, lockedFor |-> 0]
  <2>2. wait \in Nat
    <3>1. RetryDelay(t.attempt) \in Nat
      BY <1>1, RetryDelayType
    <3>2. (IF t.stage = "retryable" THEN retryAfter ELSE 0) \in Nat
      OBVIOUS
    <3> QED
      BY <3>1, <3>2, GreaterType
  <2>3. /\ StatusFor(t) \in Terminal \cup {"RETRYABLE_FAILURE"}
        /\ StatusFor(t) = "RETRYABLE_FAILURE" => t.attempt < MaxAttempts
    BY <1>1 DEF StatusFor, Terminal
  <2> HIDE DEF wait
  <2>4. row \in DeliveryRows
    BY <1>1, <2>2, <2>3 DEF DeliveryRows, Automatic
  <2>5. delivery' = [delivery EXCEPT ![t.event][t.recipient] = row]
    BY <2>1 DEF wait
  <2>6. ASSUME NEW f \in Events, NEW r \in Recipients
        PROVE  delivery'[f][r] = IF f = t.event /\ r = t.recipient THEN row
                                 ELSE delivery[f][r]
    BY <1>1, <2>5
  <2>7. Budget'
    <3>1. row.status = StatusFor(t) /\ row.attempts = t.attempt
      OBVIOUS
    <3> SUFFICES ASSUME NEW f \in Events, NEW r \in Recipients
                 PROVE  /\ delivery'[f][r].status = "PENDING" => delivery'[f][r].attempts = 0
                        /\ delivery'[f][r].status = "RETRYABLE_FAILURE" =>
                              delivery'[f][r].attempts < MaxAttempts
      BY DEF Budget
    <3>2. CASE f = t.event /\ r = t.recipient
      <4>1. delivery'[f][r] = row
        BY <2>6, <3>2
      <4> QED
        BY <2>3, <3>1, <4>1 DEF Terminal
    <3>3. CASE ~ (f = t.event /\ r = t.recipient)
      <4>1. delivery'[f][r] = delivery[f][r]
        BY <2>6, <3>3
      <4> QED
        BY <4>1 DEF Budget, Typed
    <3> QED
      BY <3>2, <3>3
  <2>8. delivery' \in [Events -> [Recipients -> DeliveryRows]]
    BY <1>1, <2>4, <2>5
  <2> QED
    BY <1>1, <2>1, <2>7, <2>8
<1>3. CASE ~ Holds(t)
  <2>1. Reject(t) /\ UNCHANGED delivery
    BY <1>3 DEF Record
  <2> QED
    BY <1>1, <2>1, RejectType DEF Typed, Budget
<1> QED
  BY <1>2, <1>3

\* Time only shortens what is left of a timestamp.
LEMMA TickTyped ==
    ASSUME Typed, Tick
    PROVE  /\ event' \in [Events -> EventRows]
           /\ translation' \in [Events -> [waiting : BOOLEAN, deadlineIn : Nat]]
           /\ delivery' \in [Events -> [Recipients -> DeliveryRows]]
           /\ worker' \in [Workers -> WorkerRows]
           /\ Budget'
<1>1. /\ event \in [Events -> EventRows]
      /\ translation \in [Events -> [waiting : BOOLEAN, deadlineIn : Nat]]
      /\ delivery \in [Events -> [Recipients -> DeliveryRows]]
      /\ worker \in [Workers -> WorkerRows]
  BY TypedRows DEF Typed
<1>2. event' \in [Events -> EventRows]
  BY <1>1, SoonerType DEF Tick, EventRows
<1>3. translation' \in [Events -> [waiting : BOOLEAN, deadlineIn : Nat]]
  BY <1>1, SoonerType DEF Tick
<1>4. ASSUME NEW e \in Events, NEW r \in Recipients
      PROVE  /\ delivery'[e][r] \in DeliveryRows
             /\ delivery'[e][r].status = delivery[e][r].status
             /\ delivery'[e][r].attempts = delivery[e][r].attempts
  <2>1. delivery[e][r] \in DeliveryRows
    BY <1>1
  <2>2. delivery'[e][r] = [delivery[e][r] EXCEPT
            !.availableIn = Sooner(delivery[e][r].availableIn),
            !.lockedFor = Sooner(delivery[e][r].lockedFor)]
    BY DEF Tick
  <2> QED
    BY <2>1, <2>2, SoonerType DEF DeliveryRows
<1>5. delivery' \in [Events -> [Recipients -> DeliveryRows]]
  <2>1. delivery' = [e \in Events |-> [r \in Recipients |-> delivery'[e][r]]]
    BY DEF Tick
  <2> QED
    BY <1>4, <2>1
<1>6. worker' \in [Workers -> WorkerRows]
  BY <1>1, SoonerType DEF Tick, WorkerRows
<1>7. Budget'
  BY <1>4 DEF Budget, Typed
<1> QED
  BY <1>2, <1>3, <1>5, <1>6, <1>7

\* The rows of a first snapshot.
LEMMA SnapshotTyped ==
    ASSUME Typed, NEW w \in Workers, Snapshot(w)
    PROVE  /\ delivery' \in [Events -> [Recipients -> DeliveryRows]]
           /\ worker' \in [Workers -> WorkerRows]
           /\ Budget'
<1> DEFINE e == worker[w].event
           chosen == Chosen(e)
           NewRow == [NoRow EXCEPT !.status = "PENDING"]
<1>1. /\ e \in Events
      /\ delivery \in [Events -> [Recipients -> DeliveryRows]]
      /\ worker \in [Workers -> WorkerRows]
  BY TypedRows DEF Typed, WorkerRows
<1>2. CASE event[e].state = "purged"
  BY <1>1, <1>2, IdleType DEF Snapshot, Typed, Budget
<1>3. CASE event[e].state # "purged"
  <2>1. /\ delivery' = [delivery EXCEPT ![e] = [r \in Recipients |->
                IF r \in chosen THEN NewRow ELSE delivery[e][r]]]
        /\ Goto(w, IF Rows(e) \cup chosen = {} THEN "retry" ELSE "claim")
    BY <1>3 DEF Snapshot
  <2>2. NewRow \in DeliveryRows /\ NewRow.status = "PENDING" /\ NewRow.attempts = 0
    BY ConstantTypes DEF DeliveryRows, NoRow, Automatic
  <2> HIDE DEF NewRow, chosen
  <2>3. ASSUME NEW f \in Events, NEW r \in Recipients
        PROVE  delivery'[f][r] = IF f = e /\ r \in chosen THEN NewRow ELSE delivery[f][r]
    BY <1>1, <2>1
  <2>4. delivery' \in [Events -> [Recipients -> DeliveryRows]]
    BY <1>1, <2>1, <2>2
  <2>5. Budget'
    BY <2>2, <2>3 DEF Budget, Typed
  <2>6. worker' \in [Workers -> WorkerRows]
    BY <2>1, GotoType DEF Typed, Phases
  <2> QED
    BY <2>4, <2>5, <2>6
<1> QED
  BY <1>2, <1>3

LEMMA PurgeTyped ==
    ASSUME Typed, NEW e \in Events, Purge(e)
    PROVE  /\ event' \in [Events -> EventRows]
           /\ translation' \in [Events -> [waiting : BOOLEAN, deadlineIn : Nat]]
           /\ delivery' \in [Events -> [Recipients -> DeliveryRows]]
           /\ Budget'
<1>1. /\ event \in [Events -> EventRows]
      /\ translation \in [Events -> [waiting : BOOLEAN, deadlineIn : Nat]]
      /\ delivery \in [Events -> [Recipients -> DeliveryRows]]
  BY TypedRows DEF Typed
<1>2. event' \in [Events -> EventRows]
  BY <1>1, ConstantTypes DEF Purge, EventRows
<1>3. translation' \in [Events -> [waiting : BOOLEAN, deadlineIn : Nat]]
  BY <1>1 DEF Purge
<1>4. NoRow \in DeliveryRows /\ NoRow.status = "NONE"
  BY ConstantTypes DEF NoRow, DeliveryRows
<1>5. delivery' = [delivery EXCEPT ![e] = [r \in Recipients |-> NoRow]]
  BY DEF Purge
<1>6. delivery' \in [Events -> [Recipients -> DeliveryRows]]
  BY <1>1, <1>4, <1>5
<1>7. Budget'
  BY <1>1, <1>4, <1>5 DEF Budget, Typed
<1> QED
  BY <1>2, <1>3, <1>6, <1>7

\* The steps of a worker that write the queue or only its own call.
LEMMA QueueStepTyped ==
    ASSUME Typed, NEW w \in Workers,
           \/ \E e \in Events : Claim(w, e)
           \/ Load(w) \/ Summarize(w) \/ MarkProcessed(w) \/ ScheduleRetry(w)
    PROVE  /\ event' \in [Events -> EventRows]
           /\ worker' \in [Workers -> WorkerRows]
<1>1. /\ event \in [Events -> EventRows]
      /\ translation \in [Events -> [waiting : BOOLEAN, deadlineIn : Nat]]
      /\ delivery \in [Events -> [Recipients -> DeliveryRows]]
      /\ worker \in [Workers -> WorkerRows]
      /\ worker[w].event \in Events
      /\ worker[w].attempts \in Nat
      /\ worker[w].retryIn \in Nat
  BY TypedRows, ConstantTypes DEF Typed, WorkerRows
<1>2. ASSUME NEW e \in Events, Claim(w, e)
      PROVE  /\ event' \in [Events -> EventRows]
             /\ worker' \in [Workers -> WorkerRows]
  <2> DEFINE attempts == Lesser(event[e].attempts + 1, AttemptCap)
  <2>1. attempts \in 0..AttemptCap
    <3>1. event[e].attempts + 1 \in Nat
      BY <1>1, ConstantTypes DEF EventRows
    <3> QED
      BY <3>1, ConstantTypes DEF Lesser
  <2>2. /\ event' = [event EXCEPT ![e].attempts = attempts, ![e].lockedFor = Lease]
        /\ worker' = [worker EXCEPT ![w] =
               [phase |-> "load", event |-> e, attempts |-> attempts, retryIn |-> 0]]
    BY <1>2 DEF Claim
  <2> HIDE DEF attempts
  <2>3. event' \in [Events -> EventRows]
    <3> DEFINE row == [event[e] EXCEPT !.attempts = attempts, !.lockedFor = Lease]
    <3>1. event[e] \in EventRows
      BY <1>1
    <3>2. row \in EventRows
      BY <2>1, <3>1, ConstantTypes DEF EventRows
    <3>3. event' = [event EXCEPT ![e] = row]
      BY <1>1, <2>2
    <3> QED
      BY <1>1, <3>2, <3>3
  <2>4. worker' \in [Workers -> WorkerRows]
    BY <1>1, <2>1, <2>2 DEF WorkerRows, Phases
  <2> QED
    BY <2>3, <2>4
<1>3. ASSUME Load(w)
      PROVE  /\ event' \in [Events -> EventRows]
             /\ worker' \in [Workers -> WorkerRows]
  <2>1. RetryDelay(worker[w].attempts) \in Nat
    BY <1>1, RetryDelayType
  <2>2. translation[worker[w].event].deadlineIn \in Nat
    BY <1>1
  <2>3. Lesser(RetryDelay(worker[w].attempts), translation[worker[w].event].deadlineIn) \in Nat
    BY <2>1, <2>2, LesserType
  <2>4. PICK p \in {"retry", "snapshot"}, n \in Nat :
          worker' = [worker EXCEPT ![w].phase = p, ![w].retryIn = n]
    BY <1>3, <2>1, <2>3, ConstantTypes DEF Load
  <2> QED
    BY <1>1, <1>3, <2>4, CallType DEF Load, tables, Typed, Phases
<1>4. ASSUME Summarize(w)
      PROVE  /\ event' \in [Events -> EventRows]
             /\ worker' \in [Workers -> WorkerRows]
  <2>1. RetryDelay(worker[w].attempts) \in Nat
    BY <1>1, RetryDelayType
  <2>2. NextWork(worker[w].event) \subseteq Nat
    <3>1. ASSUME NEW r \in Remaining(worker[w].event)
          PROVE  delivery[worker[w].event][r] \in DeliveryRows
      BY <1>1 DEF Remaining, Rows
    <3> QED
      BY <3>1 DEF NextWork, DeliveryRows
  <2>3. \/ Goto(w, "processed")
        \/ \E n \in Nat : worker' = [worker EXCEPT ![w].phase = "retry", ![w].retryIn = n]
    BY <1>4, <2>1, <2>2 DEF Summarize
  <2>4. CASE Goto(w, "processed")
    BY <1>1, <1>4, <2>4, GotoType DEF Summarize, tables, Typed, Phases
  <2>5. CASE \E n \in Nat : worker' = [worker EXCEPT ![w].phase = "retry", ![w].retryIn = n]
    BY <1>1, <1>4, <2>5, CallType DEF Summarize, tables, Typed, Phases
  <2> QED
    BY <2>3, <2>4, <2>5
<1>5. ASSUME MarkProcessed(w)
      PROVE  /\ event' \in [Events -> EventRows]
             /\ worker' \in [Workers -> WorkerRows]
  <2>1. worker' \in [Workers -> WorkerRows]
    BY <1>5, IdleType DEF MarkProcessed, Typed
  <2>2. event' \in [Events -> EventRows]
    BY <1>1, <1>5 DEF MarkProcessed, EventRows
  <2> QED
    BY <2>1, <2>2
<1>6. ASSUME ScheduleRetry(w)
      PROVE  /\ event' \in [Events -> EventRows]
             /\ worker' \in [Workers -> WorkerRows]
  <2>1. worker' \in [Workers -> WorkerRows]
    BY <1>6, IdleType DEF ScheduleRetry, Typed
  <2>2. event' \in [Events -> EventRows]
    <3> DEFINE e == worker[w].event
               row == [event[e] EXCEPT !.availableIn = worker[w].retryIn, !.lockedFor = 0]
    <3>1. event[e] \in EventRows
      BY <1>1
    <3>2. row \in EventRows
      BY <1>1, <3>1 DEF EventRows
    <3>3. event' = [event EXCEPT ![e] = row] \/ event' = event
      BY <1>1, <1>6 DEF ScheduleRetry
    <3> QED
      BY <1>1, <3>2, <3>3
  <2> QED
    BY <2>1, <2>2
<1> QED
  BY <1>2, <1>3, <1>4, <1>5, <1>6

LEMMA TaskStepTyped ==
    ASSUME Typed, NEW t \in tasks, TaskStep(t)
    PROVE  Typed'
<1>1. /\ tasks \subseteq Tasks /\ t \in Tasks
      /\ transit \subseteq Attempts /\ accepted \subseteq Attempts
  BY TypedRows DEF Typed
<1>2. RequestOf(t) \in Attempts
  BY <1>1, ConstantTypes DEF RequestOf, Attempts, Tasks
<1>3. CASE Send(t)
  <2>1. [t EXCEPT !.stage = "sent"] \in Tasks
    BY <1>1 DEF Tasks
  <2>2. tasks' \subseteq Tasks /\ transit' \subseteq Attempts
    BY <1>1, <1>2, <1>3, <2>1 DEF Send
  <2> QED
    BY <1>3, <2>2, TypedRows, TypedRowsNext DEF Send, Typed, Budget, tables
<1>4. ASSUME NEW a \in Answers, Answer(t, a)
      PROVE  Typed'
  <2>1. [t EXCEPT !.stage = a] \in Tasks
    BY <1>1, ConstantsAssumption DEF Tasks
  <2>2. tasks' \subseteq Tasks /\ transit' \subseteq Attempts
    BY <1>1, <1>4, <2>1 DEF Answer
  <2> QED
    BY <1>4, <2>2, TypedRows, TypedRowsNext DEF Answer, Typed, Budget, tables
<1>5. CASE Record(t)
  BY <1>5, RecordTyped, TypedRows, TypedRowsNext DEF Record, Typed
<1> QED
  BY <1>3, <1>4, <1>5 DEF TaskStep

LEMMA EnvironmentTyped ==
    ASSUME Typed, Environment
    PROVE  Typed'
<1> USE TypedRows, TypedRowsNext DEF Typed
<1>1. ASSUME NEW e \in Events, Publish(e)
      PROVE  Typed'
  <2>1. event' \in [Events -> EventRows]
    <3> DEFINE row == [event[e] EXCEPT !.state = "pending"]
    <3>1. event[e] \in EventRows /\ event \in [Events -> EventRows]
      OBVIOUS
    <3>2. row \in EventRows
      BY <3>1 DEF EventRows
    <3>3. event' = [event EXCEPT ![e] = row]
      BY <1>1, <3>1 DEF Publish
    <3> QED
      BY <3>1, <3>2, <3>3
  <2>2. translation' \in [Events -> [waiting : BOOLEAN, deadlineIn : Nat]]
    BY <1>1, ConstantTypes DEF Publish
  <2> QED
    BY <1>1, <2>1, <2>2 DEF Publish, Budget
<1>2. ASSUME NEW e \in Events, TranslationSettles(e)
      PROVE  Typed'
  <2>1. translation' \in [Events -> [waiting : BOOLEAN, deadlineIn : Nat]]
    BY <1>2 DEF TranslationSettles
  <2> QED
    BY <1>2, <2>1 DEF TranslationSettles, tables, Budget
<1>3. ASSUME NEW e \in Events, Purge(e)
      PROVE  Typed'
  BY <1>3, PurgeTyped DEF Purge
<1>4. CASE ChangeRecipients
  BY <1>4 DEF ChangeRecipients, tables, Budget
<1>5. ASSUME NEW q \in transit, Accept(q)
      PROVE  Typed'
  BY <1>5 DEF Accept, tables, Budget
<1>6. ASSUME NEW w \in Workers, Abort(w)
      PROVE  Typed'
  <2>1. faults' \in 0..MaxFaults
    BY <1>6, ConstantTypes DEF Abort, Fault
  <2> QED
    BY <1>6, <2>1, IdleType DEF Abort, tables, Budget
<1>7. ASSUME NEW w \in Workers, Crash(w)
      PROVE  Typed'
  <2>1. faults' \in 0..MaxFaults
    BY <1>7, ConstantTypes DEF Crash, Fault
  <2>2. tasks' \subseteq Tasks
    BY <1>7 DEF Crash
  <2> QED
    BY <1>7, <2>1, <2>2, IdleType DEF Crash, tables, Budget
<1>8. ASSUME NEW t \in tasks, RecordFails(t)
      PROVE  Typed'
  <2>1. faults' \in 0..MaxFaults
    BY <1>8, ConstantTypes DEF RecordFails, Fault
  <2> QED
    BY <1>8, <2>1, RejectType DEF RecordFails, tables, Budget
<1> QED
  BY <1>1, <1>2, <1>3, <1>4, <1>5, <1>6, <1>7, <1>8 DEF Environment

LEMMA NextTyped == Typed /\ [Next]_vars => Typed'
<1> SUFFICES ASSUME Typed, [Next]_vars PROVE Typed'
  OBVIOUS
<1>1. ASSUME NEW w \in Workers, WorkerStep(w)
      PROVE  Typed'
  <2>1. CASE Snapshot(w)
    BY <2>1, SnapshotTyped, TypedRows, TypedRowsNext DEF Snapshot, Typed
  <2>2. CASE ClaimDue(w)
    BY <2>2, ClaimDueTyped, TypedRows, TypedRowsNext DEF ClaimDue, Typed
  <2>3. CASE \/ \E e \in Events : Claim(w, e)
             \/ Load(w) \/ Summarize(w) \/ MarkProcessed(w) \/ ScheduleRetry(w)
    <3>1. UNCHANGED <<translation, eligible, delivery, tasks, transit, accepted, faults>>
      BY <2>3 DEF Claim, Load, Summarize, MarkProcessed, ScheduleRetry, tables
    <3>2. Budget'
      BY <3>1 DEF Budget, Typed
    <3> QED
      BY <2>3, <3>1, <3>2, QueueStepTyped, TypedRows, TypedRowsNext DEF Typed
  <2> QED
    BY <1>1, <2>1, <2>2, <2>3 DEF WorkerStep
<1>2. ASSUME NEW t \in tasks, TaskStep(t)
      PROVE  Typed'
  BY <1>2, TaskStepTyped
<1>3. CASE Tick
  BY <1>3, TickTyped, TypedRows, TypedRowsNext DEF Tick, Typed
<1>4. CASE Environment
  BY <1>4, EnvironmentTyped
<1>5. CASE UNCHANGED vars
  BY <1>5, TypedRows, TypedRowsNext DEF vars, tables, Typed, Budget
<1> QED
  BY <1>1, <1>2, <1>3, <1>4, <1>5 DEF Next

\* The tables, the workers and the requests keep their types.
THEOREM TypeCorrect == Spec => []TypeOK
<1>1. Typed => TypeOK
  BY DEF Typed
<1> QED
  BY <1>1, InitTyped, NextTyped, PTL DEF Spec
-----------------------------------------------------------------------------
(* At most one message per recipient.  A request is live while its call, the   *)
(* wire or the provider still has it.  The argument: a live request is always  *)
(* the newest attempt of its row, and such a row is in flight or final; a row  *)
(* that may be sent again therefore has no live request.                       *)

Live(e, r, a) ==
    \/ <<e, r, a>> \in transit \cup accepted
    \/ \E t \in tasks : RequestOf(t) = <<e, r, a>>

Newest ==
    \A e \in Events, r \in Recipients, a \in Nat :
        (Live(e, r, a) /\ event[e].state # "purged") =>
            /\ delivery[e][r].attempts = a
            /\ delivery[e][r].status \in {"IN_FLIGHT", "DELIVERED", "UNKNOWN"}

Single ==
    \A e \in Events, r \in Recipients, a, b \in Nat :
        (Live(e, r, a) /\ Live(e, r, b)) => a = b

OneTask ==
    \A t, u \in tasks : (t.event = u.event /\ t.recipient = u.recipient) => t = u

\* What a call knows of its request.
Stages ==
    \A t \in tasks :
        /\ t.stage \in {"queued", "retryable", "credential", "forbidden"} =>
              RequestOf(t) \notin transit \cup accepted
        /\ t.stage = "delivered" => RequestOf(t) \in accepted

Apart == transit \cap accepted = {}

PurgedRows ==
    \A e \in Events, r \in Recipients :
        event[e].state = "purged" => delivery[e][r].status = "NONE"

Confirmed ==
    \A e \in Events, r \in Recipients :
        delivery[e][r].status = "DELIVERED" => <<e, r, delivery[e][r].attempts>> \in accepted

IInv == /\ Typed /\ Newest /\ Single /\ OneTask
        /\ Stages /\ Apart /\ PurgedRows /\ Confirmed

LEMMA InitIInv == Init => IInv
<1> SUFFICES ASSUME Init PROVE IInv
  OBVIOUS
<1>1. Typed
  BY InitTyped
<1>2. tasks = {} /\ transit = {} /\ accepted = {}
  BY DEF Init
<1>3. \A e \in Events, r \in Recipients :
         event[e].state = "absent" /\ delivery[e][r].status = "NONE"
  BY DEF Init, NoRow
<1> QED
  BY <1>1, <1>2, <1>3
     DEF IInv, Newest, Single, OneTask, Stages, Apart, PurgedRows, Confirmed, Live

\* The strengthening implies what the runs check.
LEMMA IInvImplies == IInv => AtMostOnce /\ LedgerIsTrue
<1> SUFFICES ASSUME IInv PROVE AtMostOnce /\ LedgerIsTrue
  OBVIOUS
<1>1. accepted \subseteq Attempts /\ transit \subseteq Attempts
  BY TypedRows DEF IInv, Typed
<1>2. AtMostOnce
  <2> SUFFICES ASSUME NEW p \in accepted, NEW q \in accepted, p[1] = q[1], p[2] = q[2]
               PROVE  p = q
    BY DEF AtMostOnce
  <2>1. /\ p[1] \in Events /\ p[2] \in Recipients /\ p[3] \in Nat /\ q[3] \in Nat
        /\ p = <<p[1], p[2], p[3]>> /\ q = <<p[1], p[2], q[3]>>
    BY <1>1 DEF Attempts
  <2>2. Live(p[1], p[2], p[3]) /\ Live(p[1], p[2], q[3])
    BY <2>1 DEF Live
  <2>3. p[3] = q[3]
    BY <2>1, <2>2 DEF IInv, Single
  <2> QED
    BY <2>1, <2>3
<1>3. LedgerIsTrue
  <2> SUFFICES ASSUME NEW e \in Events, NEW r \in Recipients
               PROVE  /\ delivery[e][r].status = "DELIVERED" =>
                            <<e, r, delivery[e][r].attempts>> \in accepted
                      /\ delivery[e][r].status = "PERMANENT_FAILURE" =>
                            \A q \in accepted \cup transit : ~ (q[1] = e /\ q[2] = r)
    BY DEF LedgerIsTrue
  <2>1. delivery[e][r].status = "DELIVERED" => <<e, r, delivery[e][r].attempts>> \in accepted
    BY DEF IInv, Confirmed
  <2>2. ASSUME delivery[e][r].status = "PERMANENT_FAILURE",
               NEW q \in accepted \cup transit, q[1] = e, q[2] = r
        PROVE  FALSE
    <3>1. q[3] \in Nat /\ q = <<e, r, q[3]>>
      BY <1>1, <2>2 DEF Attempts
    <3>2. Live(e, r, q[3])
      BY <2>2, <3>1 DEF Live
    <3>3. event[e].state # "purged"
      BY <2>2 DEF IInv, PurgedRows
    <3> QED
      BY <2>2, <3>1, <3>2, <3>3 DEF IInv, Newest
  <2> QED
    BY <2>1, <2>2
<1> QED
  BY <1>2, <1>3

\* A step that starts no request and keeps the rows keeps the ledger's part of
\* the invariant.
LEMMA QuietStep ==
    ASSUME IInv,
           \A e \in Events : event'[e].state = "purged" <=> event[e].state = "purged",
           \A e \in Events, r \in Recipients :
              /\ delivery'[e][r].status = delivery[e][r].status
              /\ delivery'[e][r].attempts = delivery[e][r].attempts,
           \A e \in Events, r \in Recipients, a \in Nat : Live(e, r, a)' => Live(e, r, a),
           accepted \subseteq accepted'
    PROVE  Newest' /\ Single' /\ PurgedRows' /\ Confirmed'
<1>1. Newest'
  BY DEF IInv, Newest
<1>2. Single'
  BY DEF IInv, Single
<1>3. PurgedRows'
  BY DEF IInv, PurgedRows
<1>4. Confirmed'
  BY DEF IInv, Confirmed
<1> QED
  BY <1>1, <1>2, <1>3, <1>4

\* Steps that touch neither the calls nor the requests.
LEMMA SameRequests ==
    ASSUME IInv, UNCHANGED <<tasks, transit, accepted>>
    PROVE  /\ OneTask' /\ Stages' /\ Apart'
           /\ \A e \in Events, r \in Recipients, a \in Nat : Live(e, r, a)' <=> Live(e, r, a)
  BY DEF IInv, OneTask, Stages, Apart, Live, RequestOf

\* The first rows of an event: none of their recipients has a live request.
LEMMA SnapshotIInv ==
    ASSUME IInv, NEW w \in Workers, Snapshot(w), Typed'
    PROVE  IInv'
<1> DEFINE e == worker[w].event
<1>1. e \in Events /\ delivery \in [Events -> [Recipients -> DeliveryRows]]
  BY TypedRows DEF IInv, Typed, WorkerRows
<1>2. /\ OneTask' /\ Stages' /\ Apart'
      /\ \A f \in Events, r \in Recipients, a \in Nat : Live(f, r, a)' <=> Live(f, r, a)
  BY SameRequests DEF Snapshot
<1>3. event' = event /\ accepted' = accepted
  BY DEF Snapshot
<1>4. ASSUME NEW f \in Events, NEW r \in Recipients
      PROVE  \/ delivery'[f][r] = delivery[f][r]
             \/ /\ event[f].state # "purged"
                /\ delivery[f][r].status = "NONE"
                /\ delivery'[f][r].status = "PENDING"
  <2>1. CASE event[e].state = "purged"
    BY <2>1 DEF Snapshot
  <2>2. CASE event[e].state # "purged"
    <3> DEFINE chosen == Chosen(e)
               NewRow == [NoRow EXCEPT !.status = "PENDING"]
    <3>1. delivery' = [delivery EXCEPT ![e] = [s \in Recipients |->
                  IF s \in chosen THEN NewRow ELSE delivery[e][s]]]
      BY <2>2 DEF Snapshot
    <3>2. NewRow.status = "PENDING"
      BY DEF NoRow
    <3>3. r \in chosen => delivery[e][r].status = "NONE"
      BY DEF Rows, Chosen
    <3> HIDE DEF NewRow, chosen
    <3>4. delivery'[f][r] = IF f = e /\ r \in chosen THEN NewRow ELSE delivery[f][r]
      BY <1>1, <3>1
    <3> QED
      BY <2>2, <3>2, <3>3, <3>4
  <2> QED
    BY <2>1, <2>2
<1>5. Newest'
  <2> SUFFICES ASSUME NEW f \in Events, NEW r \in Recipients, NEW a \in Nat,
                      Live(f, r, a), event[f].state # "purged"
               PROVE  /\ delivery'[f][r].attempts = a
                      /\ delivery'[f][r].status \in {"IN_FLIGHT", "DELIVERED", "UNKNOWN"}
    BY <1>2, <1>3 DEF Newest
  <2>1. /\ delivery[f][r].attempts = a
        /\ delivery[f][r].status \in {"IN_FLIGHT", "DELIVERED", "UNKNOWN"}
    BY DEF IInv, Newest
  <2> QED
    BY <1>4, <2>1
<1>6. Single'
  BY <1>2 DEF IInv, Single
<1>7. PurgedRows'
  BY <1>3, <1>4 DEF IInv, PurgedRows
<1>8. Confirmed'
  BY <1>3, <1>4 DEF IInv, Confirmed
<1> QED
  BY <1>2, <1>5, <1>6, <1>7, <1>8 DEF IInv

\* A claim starts one request per due row, and only there.
LEMMA ClaimDueIInv ==
    ASSUME IInv, NEW w \in Workers, ClaimDue(w), Typed'
    PROVE  IInv'
<1> DEFINE e == worker[w].event
           New(r) == [event |-> e, recipient |-> r, attempt |-> delivery[e][r].attempts + 1,
                      worker |-> w, awaited |-> TRUE, stage |-> "queued"]
<1>1. /\ e \in Events
      /\ delivery \in [Events -> [Recipients -> DeliveryRows]]
      /\ tasks \subseteq Tasks
      /\ \A r \in Due(e) : r \in Recipients
  BY TypedRows DEF IInv, Typed, WorkerRows, Due, Rows
<1>2. /\ delivery' = [delivery EXCEPT ![e] = [r \in Recipients |->
             IF r \in Expired(e) THEN GivenUp(delivery[e][r])
             ELSE IF r \in Due(e) THEN Leased(delivery[e][r])
             ELSE delivery[e][r]]]
      /\ tasks' = tasks \cup {New(r) : r \in Due(e)}
      /\ UNCHANGED <<event, transit, accepted>>
  BY DEF ClaimDue
<1>3. ASSUME NEW r \in Due(e)
      PROVE  /\ delivery[e][r].status \in {"PENDING", "RETRYABLE_FAILURE"}
             /\ r \notin Expired(e)
             /\ event[e].state # "purged"
             /\ \A a \in Nat : ~ Live(e, r, a)
             /\ delivery[e][r].attempts + 1 \in 0..MaxAttempts
             /\ delivery[e][r].attempts \in Nat
  <2>1. delivery[e][r].status \in {"PENDING", "RETRYABLE_FAILURE"} /\ r \notin Expired(e)
    BY DEF Due, Expired
  <2>2. event[e].state # "purged"
    BY <1>1, <2>1 DEF IInv, PurgedRows
  <2>3. \A a \in Nat : ~ Live(e, r, a)
    BY <1>1, <2>1, <2>2 DEF IInv, Newest
  <2>4. delivery[e][r] \in DeliveryRows
    BY <1>1
  <2>5. delivery[e][r].attempts \in 0..MaxAttempts
    BY <2>4 DEF DeliveryRows
  <2>6. delivery[e][r].attempts < MaxAttempts
    BY <1>1, <2>1, ConstantTypes DEF IInv, Typed, Budget
  <2> QED
    BY <2>1, <2>2, <2>3, <2>5, <2>6, ConstantTypes
<1>4. ASSUME NEW f \in Events, NEW r \in Recipients
      PROVE  \/ delivery'[f][r] = delivery[f][r]
             \/ /\ f = e /\ r \in Due(e)
                /\ delivery'[f][r].status = "IN_FLIGHT"
                /\ delivery'[f][r].attempts = delivery[e][r].attempts + 1
             \/ /\ delivery[f][r].status = "IN_FLIGHT"
                /\ delivery'[f][r].status = "UNKNOWN"
                /\ delivery'[f][r].attempts = delivery[f][r].attempts
  <2>1. delivery[f][r] \in DeliveryRows
    BY <1>1
  <2>2. CASE f = e /\ r \in Expired(e)
    <3>1. delivery'[f][r] = GivenUp(delivery[f][r]) /\ delivery[f][r].status = "IN_FLIGHT"
      BY <1>1, <1>2, <2>2 DEF Expired
    <3> QED
      BY <2>1, <3>1, GivenUpRow
  <2>3. CASE f = e /\ r \in Due(e)
    <3>1. delivery'[f][r] = Leased(delivery[f][r])
      BY <1>1, <1>2, <1>3, <2>3
    <3> QED
      BY <1>3, <2>1, <2>3, <3>1, LeasedRow
  <2>4. CASE ~ (f = e /\ r \in Expired(e) \cup Due(e))
    BY <1>1, <1>2, <2>4
  <2> QED
    BY <2>2, <2>3, <2>4
<1>5. ASSUME NEW f \in Events, NEW r \in Recipients, NEW a \in Nat, Live(f, r, a)'
      PROVE  \/ Live(f, r, a) /\ ~ (f = e /\ r \in Due(e))
             \/ f = e /\ r \in Due(e) /\ a = delivery[e][r].attempts + 1
  <2>1. CASE Live(f, r, a)
    BY <1>3, <2>1
  <2>2. CASE ~ Live(f, r, a)
    <3>1. PICK t \in tasks' : RequestOf(t) = <<f, r, a>>
      BY <1>2, <1>5, <2>2 DEF Live, RequestOf
    <3>2. PICK d \in Due(e) : t = New(d)
      BY <1>2, <2>2, <3>1 DEF Live
    <3> QED
      BY <3>1, <3>2 DEF RequestOf
  <2> QED
    BY <2>1, <2>2
<1>6. Newest'
  <2> SUFFICES ASSUME NEW f \in Events, NEW r \in Recipients, NEW a \in Nat,
                      Live(f, r, a)', event[f].state # "purged"
               PROVE  /\ delivery'[f][r].attempts = a
                      /\ delivery'[f][r].status \in {"IN_FLIGHT", "DELIVERED", "UNKNOWN"}
    BY <1>2 DEF Newest
  <2>1. CASE f = e /\ r \in Due(e)
    <3>1. delivery'[f][r] = Leased(delivery[e][r]) /\ delivery[e][r] \in DeliveryRows
      BY <1>1, <1>2, <1>3, <2>1
    <3> QED
      BY <1>3, <1>5, <2>1, <3>1, LeasedRow
  <2>2. CASE ~ (f = e /\ r \in Due(e))
    <3>1. Live(f, r, a)
      BY <1>5, <2>2
    <3>2. /\ delivery[f][r].attempts = a
          /\ delivery[f][r].status \in {"IN_FLIGHT", "DELIVERED", "UNKNOWN"}
      BY <3>1 DEF IInv, Newest
    <3> QED
      BY <1>4, <2>2, <3>2
  <2> QED
    BY <2>1, <2>2
<1>7. Single'
  <2> SUFFICES ASSUME NEW f \in Events, NEW r \in Recipients, NEW a \in Nat, NEW b \in Nat,
                      Live(f, r, a)', Live(f, r, b)'
               PROVE  a = b
    BY DEF Single
  <2>1. CASE f = e /\ r \in Due(e)
    BY <1>5, <2>1
  <2>2. CASE ~ (f = e /\ r \in Due(e))
    BY <1>5, <2>2 DEF IInv, Single
  <2> QED
    BY <2>1, <2>2
<1>8. ASSUME NEW t \in tasks, NEW d \in Due(e), t.event = e, t.recipient = d
      PROVE  FALSE
  <2>1. t.attempt \in Nat
    BY <1>1, ConstantTypes DEF Tasks
  <2>2. Live(e, d, t.attempt)
    BY <1>8 DEF Live, RequestOf
  <2> QED
    BY <1>3, <2>1, <2>2
<1>9. OneTask'
  <2> SUFFICES ASSUME NEW t \in tasks', NEW u \in tasks',
                      t.event = u.event, t.recipient = u.recipient
               PROVE  t = u
    BY DEF OneTask
  <2>1. /\ t \in tasks \/ \E d \in Due(e) : t = New(d)
        /\ u \in tasks \/ \E d \in Due(e) : u = New(d)
    BY <1>2
  <2>2. CASE t \in tasks /\ u \in tasks
    BY <2>2 DEF IInv, OneTask
  <2>3. CASE \E d \in Due(e) : t = New(d)
    BY <1>8, <2>1, <2>3
  <2>4. CASE \E d \in Due(e) : u = New(d)
    BY <1>8, <2>1, <2>4
  <2> QED
    BY <2>1, <2>2, <2>3, <2>4
<1>10. Stages'
  <2> SUFFICES ASSUME NEW t \in tasks'
               PROVE  /\ t.stage \in {"queued", "retryable", "credential", "forbidden"} =>
                            RequestOf(t) \notin transit \cup accepted
                      /\ t.stage = "delivered" => RequestOf(t) \in accepted
    BY <1>2 DEF Stages, RequestOf
  <2>1. CASE t \in tasks
    BY <2>1 DEF IInv, Stages
  <2>2. ASSUME NEW d \in Due(e), t = New(d)
        PROVE  RequestOf(t) \notin transit \cup accepted /\ t.stage = "queued"
    <3>1. RequestOf(t) = <<e, d, delivery[e][d].attempts + 1>>
      BY <2>2 DEF RequestOf
    <3>2. ~ Live(e, d, delivery[e][d].attempts + 1)
      BY <1>3
    <3> QED
      BY <2>2, <3>1, <3>2 DEF Live
  <2> QED
    BY <1>2, <2>1, <2>2
<1>11. Apart'
  BY <1>2 DEF IInv, Apart
<1>12. PurgedRows'
  BY <1>2, <1>3, <1>4 DEF IInv, PurgedRows
<1>13. Confirmed'
  BY <1>2, <1>4 DEF IInv, Confirmed
<1> QED
  BY <1>6, <1>7, <1>9, <1>10, <1>11, <1>12, <1>13 DEF IInv

\* One call moves on: its copy with another stage takes its place.
LEMMA OneCallMoves ==
    ASSUME IInv, NEW t \in tasks, NEW stage,
           tasks' = (tasks \ {t}) \cup {[t EXCEPT !.stage = stage]}
    PROVE  /\ OneTask'
           /\ \A u \in tasks' :
                 \/ u \in tasks \ {t} /\ RequestOf(u) # RequestOf(t)
                 \/ u.stage = stage /\ RequestOf(u) = RequestOf(t)
           /\ \A u \in tasks' : \E v \in tasks : RequestOf(u) = RequestOf(v)
<1> DEFINE moved == [t EXCEPT !.stage = stage]
<1>1. t \in Tasks /\ tasks \subseteq Tasks
  BY TypedRows DEF IInv, Typed
<1>2. /\ moved.event = t.event /\ moved.recipient = t.recipient
      /\ moved.attempt = t.attempt /\ moved.stage = stage
  BY <1>1 DEF Tasks
<1>3. \A u \in tasks : u # t => ~ (u.event = t.event /\ u.recipient = t.recipient)
  BY DEF IInv, OneTask
<1> HIDE DEF moved
<1>4. tasks' = (tasks \ {t}) \cup {moved}
  BY DEF moved
<1>5. OneTask'
  BY <1>2, <1>3, <1>4 DEF IInv, OneTask
<1>6. \A u \in tasks' :
         \/ u \in tasks \ {t} /\ RequestOf(u) # RequestOf(t)
         \/ u.stage = stage /\ RequestOf(u) = RequestOf(t)
  BY <1>2, <1>3, <1>4 DEF RequestOf
<1>7. \A u \in tasks' : \E v \in tasks : RequestOf(u) = RequestOf(v)
  BY <1>4, <1>6
<1> QED
  BY <1>5, <1>6, <1>7

\* Calls go, or only stop being awaited.
LEMMA CallsGo ==
    ASSUME IInv, NEW kept, kept \subseteq tasks, NEW w,
           tasks' = kept \/ tasks' = Abandoned(w, kept)
    PROVE  /\ OneTask'
           /\ \A u \in tasks' : \E v \in kept : u.stage = v.stage /\ RequestOf(u) = RequestOf(v)
<1>1. tasks \subseteq Tasks
  BY TypedRows DEF IInv, Typed
<1>2. CASE tasks' = kept
  BY <1>2 DEF IInv, OneTask
<1>3. CASE tasks' = Abandoned(w, kept)
  <2> DEFINE image(v) == IF v.worker = w THEN [v EXCEPT !.awaited = FALSE] ELSE v
  <2>1. tasks' = {image(v) : v \in kept}
    BY <1>3 DEF Abandoned
  <2>2. ASSUME NEW v \in kept
        PROVE  /\ image(v).event = v.event /\ image(v).recipient = v.recipient
               /\ image(v).attempt = v.attempt /\ image(v).stage = v.stage
    BY <1>1 DEF Tasks
  <2> HIDE DEF image
  <2>3. OneTask'
    <3> SUFFICES ASSUME NEW t \in tasks', NEW u \in tasks',
                        t.event = u.event, t.recipient = u.recipient
                 PROVE  t = u
      BY DEF OneTask
    <3>1. PICK v1 \in kept, v2 \in kept : t = image(v1) /\ u = image(v2)
      BY <2>1
    <3>2. v1 = v2
      BY <2>2, <3>1 DEF IInv, OneTask
    <3> QED
      BY <3>1, <3>2
  <2>4. \A u \in tasks' : \E v \in kept : u.stage = v.stage /\ RequestOf(u) = RequestOf(v)
    BY <2>1, <2>2 DEF RequestOf
  <2> QED
    BY <2>3, <2>4
<1> QED
  BY <1>2, <1>3

\* Dropping calls on the way keeps the invariant.
LEMMA CallsGoIInv ==
    ASSUME IInv, Typed', NEW kept, kept \subseteq tasks, NEW w,
           tasks' = kept \/ tasks' = Abandoned(w, kept),
           UNCHANGED <<event, delivery, transit, accepted>>
    PROVE  IInv'
<1>1. /\ OneTask'
      /\ \A u \in tasks' : \E v \in tasks : u.stage = v.stage /\ RequestOf(u) = RequestOf(v)
  BY CallsGo
<1>2. \A e \in Events, r \in Recipients, a \in Nat : Live(e, r, a)' => Live(e, r, a)
  BY <1>1 DEF Live, RequestOf
<1>3. Newest' /\ Single' /\ PurgedRows' /\ Confirmed'
  BY <1>2, QuietStep
<1>4. Stages'
  BY <1>1 DEF IInv, Stages, RequestOf
<1>5. Apart'
  BY DEF IInv, Apart
<1> QED
  BY <1>1, <1>3, <1>4, <1>5 DEF IInv

\* The request of a call in one stage is not that of another call.
LEMMA SendIInv ==
    ASSUME IInv, Typed', NEW t \in tasks, Send(t)
    PROVE  IInv'
<1>1. /\ tasks' = (tasks \ {t}) \cup {[t EXCEPT !.stage = "sent"]}
      /\ transit' = transit \cup {RequestOf(t)}
      /\ UNCHANGED <<event, delivery, accepted>>
      /\ t.stage = "queued"
  BY DEF Send, tables
<1>2. /\ OneTask'
      /\ \A u \in tasks' :
            \/ u \in tasks \ {t} /\ RequestOf(u) # RequestOf(t)
            \/ u.stage = "sent" /\ RequestOf(u) = RequestOf(t)
      /\ \A u \in tasks' : \E v \in tasks : RequestOf(u) = RequestOf(v)
  BY <1>1, OneCallMoves
<1>3. \A e \in Events, r \in Recipients, a \in Nat : Live(e, r, a)' => Live(e, r, a)
  BY <1>1, <1>2 DEF Live, RequestOf
<1>4. Newest' /\ Single' /\ PurgedRows' /\ Confirmed'
  BY <1>1, <1>3, QuietStep
<1>5. RequestOf(t) \notin transit \cup accepted
  BY <1>1 DEF IInv, Stages
<1>6. Stages'
  BY <1>1, <1>2 DEF IInv, Stages, RequestOf
<1>7. Apart'
  BY <1>1, <1>5 DEF IInv, Apart
<1> QED
  BY <1>2, <1>4, <1>6, <1>7 DEF IInv

LEMMA AnswerIInv ==
    ASSUME IInv, Typed', NEW t \in tasks, NEW a \in Answers, Answer(t, a)
    PROVE  IInv'
<1>1. /\ tasks' = (tasks \ {t}) \cup {[t EXCEPT !.stage = a]}
      /\ transit' \subseteq transit
      /\ UNCHANGED <<event, delivery, accepted>>
  BY DEF Answer, tables
<1>2. /\ OneTask'
      /\ \A u \in tasks' :
            \/ u \in tasks \ {t} /\ RequestOf(u) # RequestOf(t)
            \/ u.stage = a /\ RequestOf(u) = RequestOf(t)
      /\ \A u \in tasks' : \E v \in tasks : RequestOf(u) = RequestOf(v)
  BY <1>1, OneCallMoves
<1>3. \A e \in Events, r \in Recipients, n \in Nat : Live(e, r, n)' => Live(e, r, n)
  BY <1>1, <1>2 DEF Live, RequestOf
<1>4. Newest' /\ Single' /\ PurgedRows' /\ Confirmed'
  BY <1>1, <1>3, QuietStep
<1>5. /\ a = "delivered" => RequestOf(t) \in accepted
      /\ a \in {"retryable", "credential", "forbidden"} =>
            RequestOf(t) \notin transit' /\ RequestOf(t) \notin accepted
      /\ a \in {"delivered", "retryable", "credential", "forbidden", "unknown"}
  BY DEF Answer, IInv, Apart
<1>6. Stages'
  <2> SUFFICES ASSUME NEW u \in tasks'
               PROVE  /\ u.stage \in {"queued", "retryable", "credential", "forbidden"} =>
                            RequestOf(u) \notin transit' \cup accepted
                      /\ u.stage = "delivered" => RequestOf(u) \in accepted
    BY <1>1 DEF Stages, RequestOf
  <2>1. CASE u \in tasks \ {t}
    BY <1>1, <2>1 DEF IInv, Stages
  <2>2. CASE u.stage = a /\ RequestOf(u) = RequestOf(t)
    BY <1>5, <2>2
  <2> QED
    BY <1>2, <2>1, <2>2
<1>7. Apart'
  BY <1>1 DEF IInv, Apart
<1> QED
  BY <1>2, <1>4, <1>6, <1>7 DEF IInv

LEMMA AcceptIInv ==
    ASSUME IInv, Typed', NEW q \in transit, Accept(q)
    PROVE  IInv'
<1>1. /\ transit' = transit \ {q} /\ accepted' = accepted \cup {q}
      /\ UNCHANGED <<event, delivery, tasks>>
  BY DEF Accept, tables
<1>2. \A e \in Events, r \in Recipients, n \in Nat : Live(e, r, n)' => Live(e, r, n)
  BY <1>1 DEF Live, RequestOf
<1>3. Newest' /\ Single' /\ PurgedRows' /\ Confirmed'
  BY <1>1, <1>2, QuietStep
<1>4. OneTask' /\ Stages' /\ Apart'
  BY <1>1 DEF IInv, OneTask, Stages, Apart, RequestOf
<1> QED
  BY <1>3, <1>4 DEF IInv

\* A recorded outcome: the row moves only for the attempt that holds it, and it
\* becomes claimable or failed only when the request was refused.
LEMMA RecordIInv ==
    ASSUME IInv, Typed', NEW t \in tasks, Record(t)
    PROVE  IInv'
<1>1. /\ UNCHANGED <<event, transit, accepted>>
      /\ t.stage \in ProviderAnswers
      /\ t \in Tasks /\ tasks \subseteq Tasks
      /\ t.event \in Events /\ t.recipient \in Recipients /\ t.attempt \in Nat
      /\ delivery \in [Events -> [Recipients -> DeliveryRows]]
  BY TypedRows, ConstantTypes DEF Record, IInv, Typed, Tasks
<1>2. CASE ~ Holds(t)
  <2>1. Reject(t) /\ delivery' = delivery
    BY <1>2 DEF Record
  <2>2. tasks' = tasks \ {t} \/ tasks' = Abandoned(t.worker, tasks \ {t})
    BY <2>1 DEF Reject
  <2> QED
    BY <1>1, <2>1, <2>2, CallsGoIInv
<1>3. CASE Holds(t)
  <2>1. PICK wait :
          /\ delivery' = [delivery EXCEPT ![t.event][t.recipient] =
                 [status |-> StatusFor(t), attempts |-> t.attempt,
                  availableIn |-> wait, lockedFor |-> 0]]
          /\ tasks' = tasks \ {t}
    BY <1>3 DEF Record
  <2>2. /\ delivery[t.event][t.recipient].status = "IN_FLIGHT"
        /\ delivery[t.event][t.recipient].attempts = t.attempt
    BY <1>3 DEF Holds
  <2>3. ASSUME NEW e \in Events, NEW r \in Recipients
        PROVE  IF e = t.event /\ r = t.recipient
               THEN delivery'[e][r].status = StatusFor(t) /\ delivery'[e][r].attempts = t.attempt
               ELSE delivery'[e][r] = delivery[e][r]
    BY <1>1, <2>1
  <2>4. OneTask' /\ \A u \in tasks' : u \in tasks /\ u # t
    BY <2>1 DEF IInv, OneTask
  <2>5. ASSUME NEW e \in Events, NEW r \in Recipients, NEW a \in Nat, Live(e, r, a)'
        PROVE  Live(e, r, a)
    BY <1>1, <2>4, <2>5 DEF Live, RequestOf
  <2>6. ASSUME NEW a \in Nat, Live(t.event, t.recipient, a)'
        PROVE  a = t.attempt /\ <<t.event, t.recipient, a>> \in transit \cup accepted
    <3>1. Live(t.event, t.recipient, t.attempt)
      BY DEF Live, RequestOf
    <3>2. a = t.attempt
      BY <1>1, <2>5, <2>6, <3>1 DEF IInv, Single
    <3>3. ASSUME NEW u \in tasks', RequestOf(u) = <<t.event, t.recipient, a>>
          PROVE  FALSE
      BY <2>4, <3>3 DEF IInv, OneTask, RequestOf
    <3> QED
      BY <1>1, <2>6, <3>2, <3>3 DEF Live, RequestOf
  <2>7. /\ StatusFor(t) \in Terminal \cup {"RETRYABLE_FAILURE"}
        /\ StatusFor(t) \notin {"DELIVERED", "UNKNOWN"} =>
              RequestOf(t) \notin transit \cup accepted
        /\ StatusFor(t) = "DELIVERED" => RequestOf(t) \in accepted
    BY <1>1 DEF StatusFor, Terminal, ProviderAnswers, IInv, Stages
  <2>8. Newest'
    <3> SUFFICES ASSUME NEW e \in Events, NEW r \in Recipients, NEW a \in Nat,
                        Live(e, r, a)', event[e].state # "purged"
                 PROVE  /\ delivery'[e][r].attempts = a
                        /\ delivery'[e][r].status \in {"IN_FLIGHT", "DELIVERED", "UNKNOWN"}
      BY <1>1 DEF Newest
    <3>1. CASE e = t.event /\ r = t.recipient
      <4>1. a = t.attempt /\ RequestOf(t) \in transit \cup accepted
        BY <2>6, <3>1 DEF RequestOf
      <4> QED
        BY <2>3, <2>7, <3>1, <4>1
    <3>2. CASE ~ (e = t.event /\ r = t.recipient)
      <4>1. delivery'[e][r] = delivery[e][r] /\ Live(e, r, a)
        BY <2>3, <2>5, <3>2
      <4> QED
        BY <4>1 DEF IInv, Newest
    <3> QED
      BY <3>1, <3>2
  <2>9. Single'
    BY <2>5 DEF IInv, Single
  <2>10. Stages'
    BY <1>1, <2>4 DEF IInv, Stages, RequestOf
  <2>11. Apart'
    BY <1>1 DEF IInv, Apart
  <2>12. PurgedRows'
    BY <1>1, <2>2, <2>3 DEF IInv, PurgedRows
  <2>13. Confirmed'
    BY <1>1, <2>3, <2>7 DEF IInv, Confirmed, RequestOf
  <2> QED
    BY <2>4, <2>8, <2>9, <2>10, <2>11, <2>12, <2>13 DEF IInv
<1> QED
  BY <1>2, <1>3

\* Retention takes an event's rows; its requests may outlive them.
LEMMA PurgeIInv ==
    ASSUME IInv, Typed', NEW e \in Events, Purge(e)
    PROVE  IInv'
<1>1. /\ event \in [Events -> EventRows]
      /\ delivery \in [Events -> [Recipients -> DeliveryRows]]
  BY TypedRows DEF IInv, Typed
<1>2. /\ OneTask' /\ Stages' /\ Apart'
      /\ \A f \in Events, r \in Recipients, a \in Nat : Live(f, r, a)' <=> Live(f, r, a)
  BY SameRequests DEF Purge
<1>3. ASSUME NEW f \in Events, NEW r \in Recipients
      PROVE  \/ /\ f # e
                /\ event'[f] = event[f] /\ delivery'[f][r] = delivery[f][r]
             \/ event'[f].state = "purged" /\ delivery'[f][r].status = "NONE"
  BY <1>1 DEF Purge, NoRow
<1>4. Newest'
  BY <1>2, <1>3 DEF IInv, Newest
<1>5. Single'
  BY <1>2 DEF IInv, Single
<1>6. PurgedRows'
  BY <1>3 DEF IInv, PurgedRows
<1>7. Confirmed'
  BY <1>3 DEF IInv, Confirmed, Purge
<1> QED
  BY <1>2, <1>4, <1>5, <1>6, <1>7 DEF IInv

\* Steps that write only the queue, time, the environment or a worker's call.
LEMMA OtherStepIInv ==
    ASSUME IInv, Typed',
           UNCHANGED <<tasks, transit, accepted>>,
           \A e \in Events : event'[e].state = "purged" <=> event[e].state = "purged",
           \A e \in Events, r \in Recipients :
              /\ delivery'[e][r].status = delivery[e][r].status
              /\ delivery'[e][r].attempts = delivery[e][r].attempts
    PROVE  IInv'
  BY SameRequests, QuietStep DEF IInv

LEMMA NextIInv == IInv /\ [Next]_vars => IInv'
<1> SUFFICES ASSUME IInv, [Next]_vars PROVE IInv'
  OBVIOUS
<1>1. Typed'
  BY NextTyped DEF IInv
<1>2. event \in [Events -> EventRows] /\ \A w \in Workers : worker[w].event \in Events
  BY TypedRows DEF IInv, Typed, WorkerRows
<1>3. ASSUME NEW w \in Workers, WorkerStep(w)
      PROVE  IInv'
  <2>1. CASE Snapshot(w)
    BY <1>1, <2>1, SnapshotIInv
  <2>2. CASE ClaimDue(w)
    BY <1>1, <2>2, ClaimDueIInv
  <2>3. CASE \E e \in Events : Claim(w, e)
    BY <1>1, <1>2, <2>3, OtherStepIInv DEF Claim
  <2>4. CASE Load(w) \/ Summarize(w)
    BY <1>1, <2>4, OtherStepIInv DEF Load, Summarize, tables
  <2>5. CASE MarkProcessed(w)
    BY <1>1, <1>2, <2>5, OtherStepIInv DEF MarkProcessed
  <2>6. CASE ScheduleRetry(w)
    BY <1>1, <1>2, <2>6, OtherStepIInv DEF ScheduleRetry
  <2> QED
    BY <1>3, <2>1, <2>2, <2>3, <2>4, <2>5, <2>6 DEF WorkerStep
<1>4. ASSUME NEW t \in tasks, TaskStep(t)
      PROVE  IInv'
  BY <1>1, <1>4, SendIInv, AnswerIInv, RecordIInv DEF TaskStep
<1>5. CASE Tick
  <2>1. ASSUME NEW e \in Events, NEW r \in Recipients
        PROVE  /\ delivery'[e][r].status = delivery[e][r].status
               /\ delivery'[e][r].attempts = delivery[e][r].attempts
    <3>1. delivery[e][r] \in DeliveryRows
      BY TypedRows DEF IInv, Typed
    <3>2. delivery'[e][r] = [delivery[e][r] EXCEPT
              !.availableIn = Sooner(delivery[e][r].availableIn),
              !.lockedFor = Sooner(delivery[e][r].lockedFor)]
      BY <1>5 DEF Tick
    <3> QED
      BY <3>1, <3>2 DEF DeliveryRows
  <2>2. \A e \in Events : event'[e].state = event[e].state
    BY <1>2, <1>5 DEF Tick, EventRows
  <2> QED
    BY <1>1, <1>5, <2>1, <2>2, OtherStepIInv DEF Tick
<1>6. CASE Environment
  <2>1. ASSUME NEW e \in Events, Publish(e)
        PROVE  IInv'
    BY <1>1, <1>2, <2>1, OtherStepIInv DEF Publish
  <2>2. ASSUME NEW e \in Events, TranslationSettles(e)
        PROVE  IInv'
    BY <1>1, <2>2, OtherStepIInv DEF TranslationSettles, tables
  <2>3. ASSUME NEW e \in Events, Purge(e)
        PROVE  IInv'
    BY <1>1, <2>3, PurgeIInv
  <2>4. CASE ChangeRecipients
    BY <1>1, <2>4, OtherStepIInv DEF ChangeRecipients, tables
  <2>5. ASSUME NEW q \in transit, Accept(q)
        PROVE  IInv'
    BY <1>1, <2>5, AcceptIInv
  <2>6. ASSUME NEW w \in Workers, Abort(w)
        PROVE  IInv'
    BY <1>1, <2>6, OtherStepIInv DEF Abort, tables
  <2>7. ASSUME NEW w \in Workers, Crash(w)
        PROVE  IInv'
    <3>1. {t \in tasks : t.worker # w} \subseteq tasks
      OBVIOUS
    <3> QED
      BY <1>1, <2>7, <3>1, CallsGoIInv DEF Crash, tables
  <2>8. ASSUME NEW t \in tasks, RecordFails(t)
        PROVE  IInv'
    <3>1. tasks' = tasks \ {t} \/ tasks' = Abandoned(t.worker, tasks \ {t})
      BY <2>8 DEF RecordFails, Reject
    <3> QED
      BY <1>1, <2>8, <3>1, CallsGoIInv DEF RecordFails, tables
  <2> QED
    BY <1>6, <2>1, <2>2, <2>3, <2>4, <2>5, <2>6, <2>7, <2>8 DEF Environment
<1>7. CASE UNCHANGED vars
  BY <1>1, <1>7, OtherStepIInv DEF vars, tables
<1> QED
  BY <1>3, <1>4, <1>5, <1>6, <1>7 DEF Next

THEOREM Invariance == Spec => []IInv
  BY InitIInv, NextIInv, PTL DEF Spec

\* Whatever stalls, crashes or answers late, no recipient gets an event's
\* message twice.
THEOREM NeverTwice == Spec => []AtMostOnce
  BY Invariance, IInvImplies, PTL

\* What the delivery ledger says of a message is what happened to it.
THEOREM LedgerAlwaysTrue == Spec => []LedgerIsTrue
  BY Invariance, IInvImplies, PTL
-----------------------------------------------------------------------------
(* An event leaves the queue settled.  A worker that saw nothing left to do    *)
(* is still right when it marks the event: settled rows are stable.            *)

Settled(e) == Rows(e) # {} /\ Remaining(e) = {}

SettledCalls ==
    /\ \A w \in Workers : worker[w].phase = "processed" =>
          Settled(worker[w].event) \/ event[worker[w].event].state = "purged"
    /\ \A e \in Events : event[e].state = "processed" => Settled(e)

\* No step but retention makes work for a settled event.
LEMMA SettledStable ==
    ASSUME Typed, Typed', [Next]_vars, NEW e \in Events, Settled(e)
    PROVE  Settled(e)' \/ event'[e].state = "purged"
<1>1. /\ event \in [Events -> EventRows]
      /\ delivery \in [Events -> [Recipients -> DeliveryRows]]
      /\ tasks \subseteq Tasks
      /\ \A w \in Workers : worker[w].event \in Events
  BY TypedRows DEF Typed, WorkerRows
<1>2. \A r \in Recipients : delivery[e][r].status \in Terminal \cup {"NONE"}
  BY <1>1 DEF Settled, Remaining, Rows, DeliveryRows
<1>3. \E r \in Recipients : delivery[e][r].status \in Terminal
  BY <1>2 DEF Settled, Rows
<1>4. ASSUME \A r \in Recipients : delivery'[e][r].status = delivery[e][r].status
      PROVE  Settled(e)'
  BY <1>4 DEF Settled, Rows, Remaining
<1>5. ASSUME NEW w \in Workers, Snapshot(w)
      PROVE  delivery'[e] = delivery[e]
  <2>1. Rows(e) # {}
    BY DEF Settled
  <2>2. CASE worker[w].event # e
    BY <1>1, <1>5, <2>2 DEF Snapshot
  <2>3. CASE worker[w].event = e
    <3>1. \/ delivery' = delivery
          \/ delivery' = [delivery EXCEPT ![e] = [r \in Recipients |-> delivery[e][r]]]
      BY <1>5, <2>1, <2>3 DEF Snapshot, Chosen
    <3> QED
      BY <1>1, <3>1
  <2> QED
    BY <2>2, <2>3
<1>6. ASSUME NEW w \in Workers, ClaimDue(w)
      PROVE  delivery'[e] = delivery[e]
  <2>1. Expired(e) = {} /\ Due(e) = {}
    BY <1>2 DEF Expired, Due, Rows, Terminal
  <2>2. CASE worker[w].event # e
    BY <1>1, <1>6, <2>2 DEF ClaimDue
  <2>3. CASE worker[w].event = e
    <3>1. delivery' = [delivery EXCEPT ![e] = [r \in Recipients |-> delivery[e][r]]]
      BY <1>6, <2>1, <2>3 DEF ClaimDue
    <3> QED
      BY <1>1, <3>1
  <2> QED
    BY <2>2, <2>3
<1>7. ASSUME NEW t \in tasks, Record(t)
      PROVE  delivery'[e] = delivery[e]
  <2>1. t.event \in Events /\ t.recipient \in Recipients
    BY <1>1 DEF Tasks
  <2>2. CASE t.event = e
    <3>1. ~ Holds(t)
      BY <1>2, <2>1, <2>2 DEF Holds, Terminal
    <3> QED
      BY <1>7, <3>1 DEF Record
  <2>3. CASE t.event # e
    BY <1>1, <1>7, <2>1, <2>3 DEF Record
  <2> QED
    BY <2>2, <2>3
<1>8. CASE Tick
  <2>1. ASSUME NEW r \in Recipients
        PROVE  delivery'[e][r].status = delivery[e][r].status
    <3>1. delivery'[e][r] = [delivery[e][r] EXCEPT
              !.availableIn = Sooner(delivery[e][r].availableIn),
              !.lockedFor = Sooner(delivery[e][r].lockedFor)]
      BY <1>8 DEF Tick
    <3>2. delivery[e][r] \in DeliveryRows
      BY <1>1
    <3> QED
      BY <3>1, <3>2 DEF DeliveryRows
  <2> QED
    BY <1>4, <2>1
<1>9. ASSUME NEW f \in Events, Purge(f)
      PROVE  delivery'[e] = delivery[e] \/ event'[e].state = "purged"
  BY <1>1, <1>9 DEF Purge
<1>10. ASSUME NEW w \in Workers, WorkerStep(w)
       PROVE  delivery'[e] = delivery[e]
  BY <1>5, <1>6, <1>10
     DEF WorkerStep, Claim, Load, Summarize, MarkProcessed, ScheduleRetry, tables
<1>11. ASSUME NEW t \in tasks, TaskStep(t)
       PROVE  delivery'[e] = delivery[e]
  BY <1>7, <1>11 DEF TaskStep, Send, Answer, tables
<1>12. CASE Environment
  <2>1. \/ delivery' = delivery
        \/ \E f \in Events : Purge(f)
    BY <1>12 DEF Environment, Publish, TranslationSettles, ChangeRecipients, Accept,
                 Abort, Crash, RecordFails, tables
  <2> QED
    BY <1>4, <1>9, <2>1
<1>13. CASE UNCHANGED vars
  BY <1>4, <1>13 DEF vars, tables
<1> QED
  BY <1>4, <1>8, <1>10, <1>11, <1>12, <1>13 DEF Next

LEMMA SettledCallsStep ==
    ASSUME Typed, Typed', SettledCalls, [Next]_vars
    PROVE  SettledCalls'
<1>1. /\ event \in [Events -> EventRows] /\ worker \in [Workers -> WorkerRows]
      /\ \A w \in Workers : worker[w].event \in Events
      /\ tasks \subseteq Tasks
  BY TypedRows DEF Typed, WorkerRows
\* Purged events stay purged, and only MarkProcessed processes one.
<1> DEFINE ByCall(e) == \E w \in Workers : /\ worker[w].phase = "processed"
                                          /\ worker[w].event = e
                                          /\ event[e].state # "purged"
           Queue(e) == /\ event[e].state = "purged" => event'[e].state = "purged"
                       /\ event'[e].state = "processed" =>
                             event[e].state = "processed" \/ ByCall(e)
<1>2. ASSUME NEW e \in Events
      PROVE  Queue(e)
  <2>1. CASE event'[e].state = event[e].state
    BY <2>1
  <2>2. CASE Tick
    BY <1>1, <2>2 DEF Tick, EventRows
  <2>3. CASE Environment
    BY <1>1, <2>3 DEF Environment, Publish, TranslationSettles, ChangeRecipients, Purge,
                      Accept, Abort, Crash, RecordFails, tables, EventRows
  <2>4. ASSUME NEW w \in Workers, WorkerStep(w)
        PROVE  Queue(e)
    <3>1. ASSUME NEW f \in Events, Claim(w, f)
          PROVE  Queue(e)
      BY <1>1, <2>1, <3>1 DEF Claim, EventRows
    <3>2. CASE MarkProcessed(w)
      BY <1>1, <3>2 DEF MarkProcessed, Busy, EventRows
    <3>3. CASE ScheduleRetry(w)
      BY <1>1, <2>1, <3>3 DEF ScheduleRetry, EventRows
    <3>4. CASE Load(w) \/ Snapshot(w) \/ ClaimDue(w) \/ Summarize(w)
      BY <2>1, <3>4 DEF Load, Snapshot, ClaimDue, Summarize, tables
    <3> QED
      BY <2>4, <3>1, <3>2, <3>3, <3>4 DEF WorkerStep
  <2>5. ASSUME NEW t \in tasks, TaskStep(t)
        PROVE  Queue(e)
    BY <2>1, <2>5 DEF TaskStep, Send, Answer, Record, tables
  <2>6. CASE UNCHANGED vars
    BY <2>1, <2>6 DEF vars, tables
  <2> QED
    BY <2>2, <2>3, <2>4, <2>5, <2>6 DEF Next
\* A call reaches "processed" only through a summary that found no work.
<1> DEFINE Call(w) == /\ worker'[w].event = worker[w].event
                      /\ worker[w].phase = "processed" \/ Settled(worker[w].event)
<1>3. ASSUME NEW w \in Workers, worker'[w].phase = "processed"
      PROVE  Call(w)
  <2>1. CASE worker' = worker
    BY <1>3, <2>1
  <2>2. CASE Tick
    <3>1. worker'[w] = [worker[w] EXCEPT !.retryIn = Sooner(worker[w].retryIn)]
      BY <2>2 DEF Tick
    <3>2. worker[w] \in WorkerRows
      BY <1>1
    <3> QED
      BY <1>3, <3>1, <3>2 DEF WorkerRows
  <2>3. ASSUME NEW v \in Workers, Idle(v)
        PROVE  Call(w)
    BY <1>1, <1>3, <2>3 DEF Idle, WorkerRows
  <2>4. ASSUME NEW t \in tasks, Reject(t)
        PROVE  Call(w)
    BY <1>1, <2>1, <2>3, <2>4 DEF Reject, Tasks
  <2>5. CASE Environment
    BY <2>1, <2>3, <2>4, <2>5 DEF Environment, Publish, TranslationSettles,
         ChangeRecipients, Purge, Accept, Abort, Crash, RecordFails
  <2>6. ASSUME NEW v \in Workers, WorkerStep(v)
        PROVE  Call(w)
    <3>1. ASSUME NEW e \in Events, Claim(v, e)
          PROVE  Call(w)
      BY <1>1, <1>3, <3>1 DEF Claim, WorkerRows
    <3>2. CASE Load(v)
      BY <1>1, <1>3, <3>2 DEF Load, WorkerRows
    <3>3. CASE Snapshot(v)
      BY <1>1, <1>3, <3>3 DEF Snapshot, Idle, Goto, WorkerRows
    <3>4. CASE ClaimDue(v)
      BY <1>1, <1>3, <3>4 DEF ClaimDue, WorkerRows
    <3>5. CASE Summarize(v)
      BY <1>1, <1>3, <3>5 DEF Summarize, Goto, WorkerRows, Settled
    <3>6. CASE MarkProcessed(v) \/ ScheduleRetry(v)
      BY <2>3, <3>6 DEF MarkProcessed, ScheduleRetry
    <3> QED
      BY <2>6, <3>1, <3>2, <3>3, <3>4, <3>5, <3>6 DEF WorkerStep
  <2>7. ASSUME NEW t \in tasks, TaskStep(t)
        PROVE  Call(w)
    BY <2>1, <2>4, <2>7 DEF TaskStep, Send, Answer, Record
  <2>8. CASE UNCHANGED vars
    BY <2>1, <2>8 DEF vars
  <2> QED
    BY <2>2, <2>5, <2>6, <2>7, <2>8 DEF Next
<1>4. ASSUME NEW w \in Workers, worker'[w].phase = "processed"
      PROVE  (Settled(worker[w].event) \/ event[worker[w].event].state = "purged")'
  <2>1. PICK e \in Events : worker[w].event = e /\ worker'[w].event = e
    BY <1>1, <1>3, <1>4
  <2>2. Settled(e) \/ event[e].state = "purged"
    BY <1>3, <1>4, <2>1 DEF SettledCalls
  <2>3. Settled(e)' \/ event'[e].state = "purged"
    BY <1>2, <2>2, SettledStable
  <2> QED
    BY <2>1, <2>3 DEF Settled, Rows, Remaining
<1>5. ASSUME NEW e \in Events, event'[e].state = "processed"
      PROVE  Settled(e)'
  <2>1. Settled(e)
    BY <1>2, <1>5 DEF SettledCalls
  <2> QED
    BY <1>5, <2>1, SettledStable
<1> QED
  BY <1>4, <1>5 DEF SettledCalls

\* An event is taken off the queue only when it has recipients and every one of
\* its deliveries is final.
THEOREM ProcessedOnlyWhenSettled == Spec => []ProcessedMeansSettled
<1>1. Init => SettledCalls
  BY DEF Init, SettledCalls
<1>2. Typed /\ Typed' /\ SettledCalls /\ [Next]_vars => SettledCalls'
  BY SettledCallsStep
<1>3. SettledCalls => ProcessedMeansSettled
  BY DEF SettledCalls, Settled, ProcessedMeansSettled
<1> QED
  BY <1>1, <1>2, <1>3, InitTyped, NextTyped, PTL DEF Spec
-----------------------------------------------------------------------------
(* The outbox keeps its promise.  Six kinds of step change what the promise   *)
(* speaks of; every other step is quiet.                                       *)

Quiet ==
    /\ accepted' = accepted
    /\ \A e \in Events :
          /\ event'[e].state = "purged" <=> event[e].state = "purged"
          /\ event'[e].state = "processed" <=> event[e].state = "processed"
          /\ \A r \in Recipients : /\ delivery'[e][r].status = delivery[e][r].status
                                   /\ delivery'[e][r].attempts = delivery[e][r].attempts

LEMMA Steps ==
    ASSUME Typed, [Next]_vars
    PROVE  \/ \E w \in Workers : Snapshot(w) \/ ClaimDue(w) \/ MarkProcessed(w)
           \/ \E t \in tasks : Record(t)
           \/ \E q \in transit : Accept(q)
           \/ \E e \in Events : Purge(e)
           \/ Quiet
<1>1. /\ event \in [Events -> EventRows]
      /\ delivery \in [Events -> [Recipients -> DeliveryRows]]
      /\ \A w \in Workers : worker[w].event \in Events
  BY TypedRows DEF Typed, WorkerRows
<1>2. CASE Tick
  <2>1. ASSUME NEW e \in Events, NEW r \in Recipients
        PROVE  /\ delivery'[e][r].status = delivery[e][r].status
               /\ delivery'[e][r].attempts = delivery[e][r].attempts
    <3>1. delivery'[e][r] = [delivery[e][r] EXCEPT
              !.availableIn = Sooner(delivery[e][r].availableIn),
              !.lockedFor = Sooner(delivery[e][r].lockedFor)]
      BY <1>2 DEF Tick
    <3>2. delivery[e][r] \in DeliveryRows
      BY <1>1
    <3> QED
      BY <3>1, <3>2 DEF DeliveryRows
  <2>2. \A e \in Events : event'[e].state = event[e].state
    BY <1>1, <1>2 DEF Tick, EventRows
  <2> QED
    BY <1>2, <2>1, <2>2 DEF Tick, Quiet
<1>3. ASSUME NEW w \in Workers, \E e \in Events : Claim(w, e)
      PROVE  Quiet
  BY <1>1, <1>3 DEF Claim, EventRows, Quiet
<1>4. ASSUME NEW w \in Workers, ScheduleRetry(w)
      PROVE  Quiet
  BY <1>1, <1>4 DEF ScheduleRetry, EventRows, Quiet
<1>5. ASSUME NEW w \in Workers, Load(w) \/ Summarize(w) \/ Abort(w) \/ Crash(w)
      PROVE  Quiet
  BY <1>5 DEF Load, Summarize, Abort, Crash, tables, Quiet
<1>6. ASSUME NEW t \in tasks, Send(t) \/ (\E a \in Answers : Answer(t, a)) \/ RecordFails(t)
      PROVE  Quiet
  BY <1>6 DEF Send, Answer, RecordFails, tables, Quiet
<1>7. ASSUME NEW e \in Events, Publish(e) \/ TranslationSettles(e)
      PROVE  Quiet
  BY <1>1, <1>7 DEF Publish, TranslationSettles, tables, EventRows, Quiet
<1>8. CASE ChangeRecipients \/ UNCHANGED vars
  BY <1>8 DEF ChangeRecipients, vars, tables, Quiet
<1> QED
  BY <1>2, <1>3, <1>4, <1>5, <1>6, <1>7, <1>8 DEF Next, WorkerStep, TaskStep, Environment

\* What the three writers of delivery rows do to them.
LEMMA SnapshotRows ==
    ASSUME Typed, NEW w \in Workers, Snapshot(w)
    PROVE  /\ worker[w].event \in Events /\ UNCHANGED <<event, accepted>>
           /\ \/ delivery' = delivery
              \/ /\ Rows(worker[w].event) = {}
                 /\ event[worker[w].event].state # "purged"
                 /\ eligible \subseteq Recipients
                 /\ \A e \in Events, r \in Recipients :
                       delivery'[e][r] = IF e = worker[w].event /\ r \in eligible
                                         THEN [NoRow EXCEPT !.status = "PENDING"]
                                         ELSE delivery[e][r]
<1> DEFINE e == worker[w].event
           NewRow == [NoRow EXCEPT !.status = "PENDING"]
<1>1. /\ e \in Events /\ eligible \subseteq Recipients
      /\ delivery \in [Events -> [Recipients -> DeliveryRows]]
  BY TypedRows DEF Typed, WorkerRows
<1>2. UNCHANGED <<event, accepted>>
  BY DEF Snapshot
<1>3. CASE event[e].state = "purged"
  BY <1>1, <1>2, <1>3 DEF Snapshot
<1>4. CASE event[e].state # "purged"
  <2>1. delivery' = [delivery EXCEPT ![e] = [r \in Recipients |->
                  IF r \in Chosen(e) THEN NewRow ELSE delivery[e][r]]]
    BY <1>4 DEF Snapshot
  <2>2. CASE Rows(e) = {}
    BY <1>1, <1>2, <1>4, <2>1, <2>2 DEF Chosen
  <2>3. CASE Rows(e) # {}
    <3>1. delivery' = delivery
      BY <1>1, <2>1, <2>3 DEF Chosen
    <3> QED
      BY <1>1, <1>2, <3>1
  <2> QED
    BY <2>2, <2>3
<1> QED
  BY <1>3, <1>4

LEMMA ClaimDueRows ==
    ASSUME IInv, NEW w \in Workers, ClaimDue(w)
    PROVE  LET c == worker[w].event IN
           /\ c \in Events /\ UNCHANGED <<event, accepted>>
           /\ \A e \in Events, r \in Recipients :
                 \/ /\ e = c /\ r \in Expired(c)
                    /\ delivery'[e][r].status = "UNKNOWN"
                 \/ /\ ~(e = c /\ r \in Expired(c))
                    /\ \/ delivery'[e][r] = delivery[e][r]
                       \/ /\ delivery[e][r].status \in {"PENDING", "RETRYABLE_FAILURE"}
                          /\ delivery'[e][r].status = "IN_FLIGHT"
           /\ \A r \in Expired(c) : r \in Recipients /\ delivery[c][r].status = "IN_FLIGHT"
<1> DEFINE c == worker[w].event
<1>1. /\ c \in Events
      /\ delivery \in [Events -> [Recipients -> DeliveryRows]]
      /\ UNCHANGED <<event, accepted>>
  BY TypedRows DEF IInv, Typed, WorkerRows, ClaimDue
<1>2. delivery' = [delivery EXCEPT ![c] = [r \in Recipients |->
             IF r \in Expired(c) THEN GivenUp(delivery[c][r])
             ELSE IF r \in Due(c) THEN Leased(delivery[c][r])
             ELSE delivery[c][r]]]
  BY DEF ClaimDue
<1>3. ASSUME NEW e \in Events, NEW r \in Recipients
      PROVE  \/ /\ e = c /\ r \in Expired(c)
                /\ delivery'[e][r].status = "UNKNOWN"
             \/ /\ ~(e = c /\ r \in Expired(c))
                /\ \/ delivery'[e][r] = delivery[e][r]
                   \/ /\ delivery[e][r].status \in {"PENDING", "RETRYABLE_FAILURE"}
                      /\ delivery'[e][r].status = "IN_FLIGHT"
  <2>1. delivery[e][r] \in DeliveryRows
    BY <1>1
  <2>2. CASE e = c /\ r \in Expired(c)
    BY <1>1, <1>2, <2>1, <2>2, GivenUpRow
  <2>3. CASE e = c /\ r \notin Expired(c) /\ r \in Due(c)
    <3>1. delivery'[e][r] = Leased(delivery[e][r])
      BY <1>1, <1>2, <2>3
    <3>2. Leased(delivery[e][r]).status = "IN_FLIGHT"
      BY <2>1 DEF Leased, DeliveryRows
    <3> QED
      BY <2>3, <3>1, <3>2 DEF Due
  <2>4. CASE ~ (e = c /\ r \in Expired(c) \cup Due(c))
    BY <1>1, <1>2, <2>4
  <2> QED
    BY <2>2, <2>3, <2>4
<1>4. \A r \in Expired(c) : r \in Recipients /\ delivery[c][r].status = "IN_FLIGHT"
  BY DEF Expired, Rows
<1> QED
  BY <1>1, <1>3, <1>4

LEMMA RecordRows ==
    ASSUME Typed, NEW t \in tasks, Record(t)
    PROVE  /\ t.event \in Events /\ t.recipient \in Recipients /\ t.attempt \in Nat
           /\ t.stage \in ProviderAnswers
           /\ UNCHANGED <<event, accepted>>
           /\ \/ delivery' = delivery
              \/ /\ Holds(t)
                 /\ \A e \in Events, r \in Recipients :
                       IF e = t.event /\ r = t.recipient
                       THEN /\ delivery'[e][r].status = StatusFor(t)
                            /\ delivery'[e][r].attempts = t.attempt
                       ELSE delivery'[e][r] = delivery[e][r]
<1>1. /\ t.event \in Events /\ t.recipient \in Recipients /\ t.attempt \in Nat
      /\ delivery \in [Events -> [Recipients -> DeliveryRows]]
      /\ t.stage \in ProviderAnswers /\ UNCHANGED <<event, accepted>>
  BY TypedRows, ConstantTypes DEF Typed, Tasks, Record
<1>2. CASE Holds(t)
  <2>1. PICK wait : delivery' = [delivery EXCEPT ![t.event][t.recipient] =
                       [status |-> StatusFor(t), attempts |-> t.attempt,
                        availableIn |-> wait, lockedFor |-> 0]]
    BY <1>2 DEF Record
  <2> DEFINE row == [status |-> StatusFor(t), attempts |-> t.attempt,
                     availableIn |-> wait, lockedFor |-> 0]
  <2>2. row.status = StatusFor(t) /\ row.attempts = t.attempt
    OBVIOUS
  <2>3. delivery' = [delivery EXCEPT ![t.event][t.recipient] = row]
    BY <2>1
  <2> HIDE DEF row
  <2>4. \A e \in Events, r \in Recipients :
           delivery'[e][r] = IF e = t.event /\ r = t.recipient THEN row ELSE delivery[e][r]
    BY <1>1, <2>3
  <2> QED
    BY <1>1, <1>2, <2>2, <2>4
<1>3. CASE ~ Holds(t)
  BY <1>1, <1>3 DEF Record
<1> QED
  BY <1>2, <1>3
-----------------------------------------------------------------------------
(* The ledger is history.                                                      *)

LEMMA HistoryStep == IInv /\ IInv' /\ SettledCalls /\ SettledCalls' /\ [Next]_vars =>
    \A e \in Events :
         event'[e].state # "purged" =>
            /\ Rows(e) # {} => Rows(e)' = Rows(e)
            /\ \A r \in Rows(e) :
                  delivery[e][r].status \in Terminal =>
                     /\ delivery'[e][r].status = delivery[e][r].status
                     /\ delivery'[e][r].attempts = delivery[e][r].attempts
            /\ event[e].state = "processed" => event'[e].state = "processed"
<1> SUFFICES ASSUME IInv, IInv', [Next]_vars, NEW e \in Events, event'[e].state # "purged"
             PROVE  /\ Rows(e) # {} => Rows(e)' = Rows(e)
                    /\ \A r \in Rows(e) :
                          delivery[e][r].status \in Terminal =>
                             /\ delivery'[e][r].status = delivery[e][r].status
                             /\ delivery'[e][r].attempts = delivery[e][r].attempts
                    /\ event[e].state = "processed" => event'[e].state = "processed"
  OBVIOUS
<1> DEFINE Kept == event[e].state = "processed" => event'[e].state = "processed"
           Row(r) == \/ /\ delivery'[e][r].status = delivery[e][r].status
                        /\ delivery'[e][r].attempts = delivery[e][r].attempts
                     \/ Rows(e) = {}
                     \/ /\ delivery[e][r].status \in Automatic
                        /\ delivery'[e][r].status # "NONE"
<1>1. Typed /\ event \in [Events -> EventRows] /\ \A w \in Workers : worker[w].event \in Events
  BY TypedRows DEF IInv, Typed, WorkerRows
<1>2. Kept /\ \A r \in Recipients : Row(r)
  <2>1. CASE Quiet
    BY <2>1 DEF Quiet
  <2>2. ASSUME NEW w \in Workers, Snapshot(w)
        PROVE  Kept /\ \A r \in Recipients : Row(r)
    BY <1>1, <2>2, SnapshotRows
  <2>3. ASSUME NEW w \in Workers, ClaimDue(w)
        PROVE  Kept /\ \A r \in Recipients : Row(r)
    BY <2>3, ClaimDueRows DEF Automatic
  <2>4. ASSUME NEW w \in Workers, MarkProcessed(w)
        PROVE  Kept /\ \A r \in Recipients : Row(r)
    BY <1>1, <2>4 DEF MarkProcessed, EventRows
  <2>5. ASSUME NEW t \in tasks, Record(t)
        PROVE  Kept /\ \A r \in Recipients : Row(r)
    <3>1. StatusFor(t) # "NONE"
      BY DEF StatusFor
    <3> QED
      BY <1>1, <2>5, <3>1, RecordRows DEF Holds, Automatic
  <2>6. ASSUME NEW q \in transit, Accept(q)
        PROVE  Kept /\ \A r \in Recipients : Row(r)
    BY <2>6 DEF Accept, tables
  <2>7. ASSUME NEW f \in Events, Purge(f)
        PROVE  Kept /\ \A r \in Recipients : Row(r)
    <3>1. f # e
      BY <1>1, <2>7 DEF Purge
    <3> QED
      BY <1>1, <2>7, <3>1 DEF Purge
  <2> QED
    BY <1>1, <2>1, <2>2, <2>3, <2>4, <2>5, <2>6, <2>7, Steps
<1>3. Rows(e) # {} => Rows(e)' = Rows(e)
  BY <1>2 DEF Rows, Automatic
<1>4. ASSUME NEW r \in Rows(e), delivery[e][r].status \in Terminal
      PROVE  /\ delivery'[e][r].status = delivery[e][r].status
             /\ delivery'[e][r].attempts = delivery[e][r].attempts
  BY <1>2, <1>4 DEF Rows, Automatic, Terminal
<1> QED
  BY <1>2, <1>3, <1>4

LEMMA CallsSettled == Spec => []SettledCalls
<1>1. Init => SettledCalls
  BY DEF Init, SettledCalls
<1>2. Typed /\ Typed' /\ SettledCalls /\ [Next]_vars => SettledCalls'
  BY SettledCallsStep
<1> QED
  BY <1>1, <1>2, InitTyped, NextTyped, PTL DEF Spec

\* A final row never changes, an event's rows are those of its first snapshot and a
\* processed event stays processed, whichever workers still write about the event.
THEOREM HistoryStays == Spec => LedgerIsHistory
  BY Invariance, CallsSettled, HistoryStep, PTL DEF Spec, LedgerIsHistory
-----------------------------------------------------------------------------
(* The refinement: every step moves the fates, messages and closed events as   *)
(* the promise allows, or leaves them alone.                                   *)

FateOf(e, r) == IF event[e].state = "purged" THEN "purged"
                ELSE IF delivery[e][r].status = "NONE" THEN "none"
                ELSE IF delivery[e][r].status \in Automatic THEN "open"
                ELSE delivery[e][r].status

\* The fates after a step, row by row.
LEMMA FatesAre ==
    /\ Fate = [e \in Events |-> [r \in Recipients |-> FateOf(e, r)]]
    /\ Fate' = [e \in Events |-> [r \in Recipients |-> FateOf(e, r)']]
  BY DEF Fate, FateOf

LEMMA FatesSame ==
    ASSUME event' = event, delivery' = delivery
    PROVE  Fate' = Fate /\ Closed' = Closed
  BY DEF Fate, Closed

LEMMA RowsOfOne ==
    ASSUME NEW e \in Events, NEW g,
           \A r \in Recipients : FateOf(e, r)' = g[r],
           g = [r \in Recipients |-> g[r]],
           \A f \in Events \ {e}, r \in Recipients : FateOf(f, r)' = FateOf(f, r)
    PROVE  Fate' = [Fate EXCEPT ![e] = g]
<1>1. [r \in Recipients |-> FateOf(e, r)'] = g
  OBVIOUS
<1>2. \A f \in Events \ {e} : [r \in Recipients |-> FateOf(f, r)'] = [r \in Recipients |-> FateOf(f, r)]
  OBVIOUS
<1> QED
  BY <1>1, <1>2, FatesAre

LEMMA OneFate ==
    ASSUME NEW e \in Events, NEW r \in Recipients, NEW x,
           FateOf(e, r)' = x,
           \A f \in Events, s \in Recipients :
               ~ (f = e /\ s = r) => FateOf(f, s)' = FateOf(f, s)
    PROVE  Fate' = [Fate EXCEPT ![e][r] = x]
<1>1. Fate' = [Fate EXCEPT ![e] = [s \in Recipients |-> IF s = r THEN x ELSE FateOf(e, s)]]
  <2> DEFINE g == [s \in Recipients |-> IF s = r THEN x ELSE FateOf(e, s)]
  <2>1. \A s \in Recipients : FateOf(e, s)' = g[s]
    OBVIOUS
  <2>2. g = [s \in Recipients |-> g[s]]
    OBVIOUS
  <2>3. \A f \in Events \ {e}, s \in Recipients : FateOf(f, s)' = FateOf(f, s)
    OBVIOUS
  <2> HIDE DEF g
  <2>4. Fate' = [Fate EXCEPT ![e] = g]
    BY <2>1, <2>2, <2>3, RowsOfOne
  <2> QED
    BY <2>4 DEF g
<1>2. [Fate[e] EXCEPT ![r] = x] = [s \in Recipients |-> IF s = r THEN x ELSE FateOf(e, s)]
  BY FatesAre
<1> QED
  BY <1>1, <1>2

\* The first rows freeze the recipients, and expired leases are given up.
LEMMA SnapshotPromise ==
    ASSUME IInv, NEW w \in Workers, Snapshot(w)
    PROVE  Promise!Next \/ UNCHANGED Promise!promise
<1>0. PICK e \in Events : e = worker[w].event
  BY SnapshotRows DEF IInv
<1> DEFINE g == [r \in Recipients |-> IF r \in eligible THEN "open" ELSE "none"]
<1>1. Typed /\ UNCHANGED <<event, accepted>> /\ e \in Events
  BY SnapshotRows DEF IInv
<1>2. CASE delivery' = delivery
  BY <1>1, <1>2, FatesSame DEF Promise!promise
<1>3. CASE delivery' # delivery
  <2>1. /\ Rows(e) = {} /\ event[e].state # "purged" /\ eligible \in SUBSET Recipients
        /\ \A f \in Events, r \in Recipients :
              delivery'[f][r] = IF f = e /\ r \in eligible
                                THEN [NoRow EXCEPT !.status = "PENDING"]
                                ELSE delivery[f][r]
    BY <1>0, <1>1, <1>3, SnapshotRows
  <2>2. [NoRow EXCEPT !.status = "PENDING"].status = "PENDING"
    BY DEF NoRow
  <2>3. \A r \in Recipients : FateOf(e, r) = "none" /\ FateOf(e, r)' = g[r]
    BY <1>1, <2>1, <2>2 DEF FateOf, Rows, Automatic
  <2>4. \A f \in Events \ {e}, r \in Recipients : FateOf(f, r)' = FateOf(f, r)
    BY <1>1, <2>1 DEF FateOf
  <2>5. Fate' = [Fate EXCEPT ![e] = g]
    <3>1. g = [r \in Recipients |-> g[r]]
      OBVIOUS
    <3> HIDE DEF g
    <3> QED
      BY <1>1, <2>3, <2>4, <3>1, RowsOfOne
  <2>6. \A r \in Recipients : Fate[e][r] = "none"
    BY <1>1, <2>3, FatesAre
  <2>7. Promise!Freeze(e)
    <3>1. UNCHANGED <<accepted, Closed>>
      BY <1>1 DEF Closed
    <3> QED
      BY <2>1, <2>5, <2>6, <3>1 DEF Promise!Freeze
  <2> QED
    BY <1>1, <2>7 DEF Promise!Next
<1> QED
  BY <1>2, <1>3

LEMMA ClaimDuePromise ==
    ASSUME IInv, NEW w \in Workers, ClaimDue(w)
    PROVE  Promise!Next
<1>0. PICK e \in Events, S \in SUBSET Recipients : e = worker[w].event /\ S = Expired(e)
  BY ClaimDueRows
<1> DEFINE g == [r \in Recipients |-> IF r \in S THEN "UNKNOWN" ELSE Fate[e][r]]
<1>1. /\ e \in Events /\ UNCHANGED <<event, accepted>>
      /\ \A f \in Events, r \in Recipients :
            \/ /\ f = e /\ r \in S /\ delivery'[f][r].status = "UNKNOWN"
            \/ /\ ~(f = e /\ r \in S)
               /\ \/ delivery'[f][r] = delivery[f][r]
                  \/ /\ delivery[f][r].status \in {"PENDING", "RETRYABLE_FAILURE"}
                     /\ delivery'[f][r].status = "IN_FLIGHT"
      /\ \A r \in S : r \in Recipients /\ delivery[e][r].status = "IN_FLIGHT"
  BY <1>0, ClaimDueRows
<1>2. \A r \in S : event[e].state # "purged" /\ FateOf(e, r) = "open"
  BY <1>1 DEF IInv, PurgedRows, FateOf, Automatic
<1>3. \A r \in S : FateOf(e, r)' = "UNKNOWN"
  BY <1>1, <1>2 DEF FateOf, Automatic
<1>4. \A f \in Events, r \in Recipients : ~(f = e /\ r \in S) => FateOf(f, r)' = FateOf(f, r)
  BY <1>1 DEF FateOf, Automatic
<1>5. \A r \in Recipients : FateOf(e, r)' = g[r]
  BY <1>1, <1>3, <1>4, FatesAre
<1>6. Fate' = [Fate EXCEPT ![e] = g]
  <2>1. g = [r \in Recipients |-> g[r]]
    OBVIOUS
  <2> HIDE DEF g
  <2> QED
    BY <1>1, <1>4, <1>5, <2>1, RowsOfOne
<1>7. S \in SUBSET {r \in Recipients : Fate[e][r] = "open"}
  BY <1>1, <1>2, FatesAre
<1>8. UNCHANGED <<accepted, Closed>>
  BY <1>1 DEF Closed
<1>9. Promise!GiveUp(e)
  BY <1>6, <1>7, <1>8 DEF Promise!GiveUp
<1> QED
  BY <1>1, <1>9 DEF Promise!Next

\* A recorded outcome is the one the provider gave.
LEMMA RecordPromise ==
    ASSUME IInv, NEW t \in tasks, Record(t)
    PROVE  Promise!Next \/ UNCHANGED Promise!promise
<1> DEFINE e == t.event
           r == t.recipient
<1>1. /\ Typed /\ e \in Events /\ r \in Recipients /\ t.attempt \in Nat
      /\ UNCHANGED <<event, accepted>> /\ t.stage \in ProviderAnswers
      /\ accepted \subseteq Attempts
  BY RecordRows, TypedRows DEF IInv, Typed
<1>2. CASE delivery' = delivery
  BY <1>1, <1>2, FatesSame DEF Promise!promise
<1>3. CASE delivery' # delivery
  <2>1. /\ Holds(t)
        /\ delivery'[e][r].status = StatusFor(t)
        /\ \A f \in Events, s \in Recipients :
              ~(f = e /\ s = r) => delivery'[f][s] = delivery[f][s]
    BY <1>1, <1>3, RecordRows
  <2>2. event[e].state # "purged" /\ FateOf(e, r) = "open"
    BY <1>1, <2>1 DEF IInv, PurgedRows, FateOf, Holds, Automatic
  <2>3. FateOf(e, r)' = IF StatusFor(t) = "RETRYABLE_FAILURE" THEN "open" ELSE StatusFor(t)
    BY <1>1, <2>1, <2>2 DEF FateOf, Automatic, StatusFor
  <2>4. \A f \in Events, s \in Recipients : ~(f = e /\ s = r) => FateOf(f, s)' = FateOf(f, s)
    BY <1>1, <2>1 DEF FateOf
  <2>5. UNCHANGED <<accepted, Closed>>
    BY <1>1 DEF Closed
  <2>6. Fate[e][r] = "open"
    BY <1>1, <2>2, FatesAre
  <2> DEFINE x == FateOf(e, r)'
  <2>7. Fate' = [Fate EXCEPT ![e][r] = x]
    BY <1>1, <2>4, OneFate
  <2>8. Live(e, r, t.attempt) /\ RequestOf(t) = <<e, r, t.attempt>>
    BY DEF Live, RequestOf
  <2>9. CASE StatusFor(t) = "DELIVERED"
    <3>1. t.stage = "delivered"
      BY <2>9 DEF StatusFor
    <3>2. Promise!Reached(e, r)
      BY <2>8, <3>1 DEF IInv, Stages, Promise!Reached, Promise!For
    <3>3. Promise!Confirm(e, r)
      BY <2>3, <2>5, <2>6, <2>7, <2>9, <3>2 DEF Promise!Confirm
    <3> QED
      BY <1>1, <3>3 DEF Promise!Next
  <2>10. CASE StatusFor(t) = "PERMANENT_FAILURE"
    <3>1. t.stage \in {"retryable", "credential", "forbidden"}
      BY <1>1, <2>10 DEF StatusFor, ProviderAnswers
    <3>2. RequestOf(t) \notin accepted
      BY <3>1 DEF IInv, Stages
    <3>3. ~ Promise!Reached(e, r)
      <4> SUFFICES ASSUME NEW m \in accepted, m[1] = e, m[2] = r PROVE FALSE
        BY DEF Promise!Reached, Promise!For
      <4>1. m = <<e, r, m[3]>> /\ m[3] \in Nat
        BY <1>1 DEF Attempts
      <4>2. Live(e, r, m[3])
        BY <4>1 DEF Live
      <4>3. m[3] = t.attempt
        BY <1>1, <2>8, <4>1, <4>2 DEF IInv, Single
      <4> QED
        BY <2>8, <3>2, <4>1, <4>3
    <3>4. Promise!Fail(e, r)
      BY <2>3, <2>5, <2>6, <2>7, <2>10, <3>3 DEF Promise!Fail
    <3> QED
      BY <1>1, <3>4 DEF Promise!Next
  <2>11. CASE StatusFor(t) = "UNKNOWN"
    <3> DEFINE g == [s \in Recipients |-> IF s \in {r} THEN "UNKNOWN" ELSE Fate[e][s]]
    <3>1. \A s \in Recipients : FateOf(e, s)' = g[s]
      BY <1>1, <2>3, <2>4, <2>11, FatesAre
    <3>2. Fate' = [Fate EXCEPT ![e] = g]
      <4>1. g = [s \in Recipients |-> g[s]]
        OBVIOUS
      <4>2. \A f \in Events \ {e}, s \in Recipients : FateOf(f, s)' = FateOf(f, s)
        BY <2>4
      <4> HIDE DEF g, e
      <4> QED
        BY <1>1, <3>1, <4>1, <4>2, RowsOfOne
    <3>3. {r} \in SUBSET {s \in Recipients : Fate[e][s] = "open"}
      BY <1>1, <2>6
    <3>4. Promise!GiveUp(e)
      BY <2>5, <3>2, <3>3 DEF Promise!GiveUp
    <3> QED
      BY <1>1, <3>4 DEF Promise!Next
  <2>12. CASE StatusFor(t) = "RETRYABLE_FAILURE"
    <3>1. \A f \in Events, s \in Recipients : FateOf(f, s)' = FateOf(f, s)
      BY <2>2, <2>3, <2>4, <2>12
    <3>2. Fate' = Fate
      BY <3>1, FatesAre
    <3> QED
      BY <2>5, <3>2 DEF Promise!promise
  <2> QED
    BY <2>9, <2>10, <2>11, <2>12 DEF StatusFor
<1> QED
  BY <1>2, <1>3

\* A message arrives first and only where nothing was recorded yet.
LEMMA AcceptPromise ==
    ASSUME IInv, NEW q \in transit, Accept(q)
    PROVE  Promise!Next
<1>1. /\ transit \subseteq Attempts /\ accepted \subseteq Attempts
      /\ delivery \in [Events -> [Recipients -> DeliveryRows]]
      /\ accepted' = accepted \cup {q} /\ UNCHANGED <<event, delivery>>
  BY TypedRows DEF IInv, Typed, Accept, tables
<1>2. PICK e \in Events, r \in Recipients, a \in Nat : q = <<e, r, a>>
  BY <1>1 DEF Attempts
<1>3. Live(e, r, a) /\ q \notin accepted
  BY <1>2 DEF Live, IInv, Apart
<1>4. ~ Promise!Reached(e, r)
  <2> SUFFICES ASSUME NEW m \in accepted, m[1] = e, m[2] = r PROVE FALSE
    BY DEF Promise!Reached, Promise!For
  <2>1. m = <<e, r, m[3]>> /\ m[3] \in Nat
    BY <1>1 DEF Attempts
  <2>2. Live(e, r, m[3])
    BY <2>1 DEF Live
  <2> QED
    BY <1>2, <1>3, <2>1, <2>2 DEF IInv, Single
<1>5. Fate[e][r] \in {"open", "UNKNOWN", "purged"}
  <2>1. FateOf(e, r) \in {"open", "UNKNOWN", "purged"}
    <3>1. CASE event[e].state = "purged"
      BY <3>1 DEF FateOf
    <3>2. CASE event[e].state # "purged"
      <4>1. /\ delivery[e][r].attempts = a
            /\ delivery[e][r].status \in {"IN_FLIGHT", "DELIVERED", "UNKNOWN"}
        BY <1>3, <3>2 DEF IInv, Newest
      <4>2. delivery[e][r].status # "DELIVERED"
        BY <1>2, <1>3, <4>1 DEF IInv, Confirmed
      <4> QED
        BY <3>2, <4>1, <4>2 DEF FateOf, Automatic
    <3> QED
      BY <3>1, <3>2
  <2> QED
    BY <2>1, FatesAre
<1>6. Promise!Deliver(e, r)
  <2>1. \E m \in accepted' : Promise!For(m, e, r) /\ accepted' = accepted \cup {m}
    BY <1>1, <1>2 DEF Promise!For
  <2>2. UNCHANGED <<Fate, Closed>>
    BY <1>1, FatesSame
  <2> QED
    BY <1>4, <1>5, <2>1, <2>2 DEF Promise!Deliver
<1> QED
  BY <1>6 DEF Promise!Next

\* An event is closed when the worker that summed it up marks it: it is settled still.
LEMMA MarkProcessedPromise ==
    ASSUME IInv, SettledCalls, NEW w \in Workers, MarkProcessed(w)
    PROVE  Promise!Next \/ UNCHANGED Promise!promise
<1>1. PICK e \in Events : e = worker[w].event
  BY TypedRows DEF IInv, Typed, WorkerRows
<1>2. /\ event \in [Events -> EventRows] /\ UNCHANGED <<delivery, accepted>>
      /\ delivery \in [Events -> [Recipients -> DeliveryRows]]
      /\ event' = IF event[e].state = "pending"
                  THEN [event EXCEPT ![e].state = "processed", ![e].lockedFor = 0]
                  ELSE event
  BY <1>1, TypedRows DEF IInv, Typed, MarkProcessed
<1>3. CASE event[e].state # "pending"
  BY <1>2, <1>3, FatesSame DEF Promise!promise
<1>4. CASE event[e].state = "pending"
  <2>1. /\ event'[e].state = "processed"
        /\ \A f \in Events \ {e} : event'[f] = event[f]
    BY <1>2, <1>4 DEF EventRows
  <2>2. Fate' = Fate
    BY <1>2, <1>4, <2>1 DEF Fate
  <2>3. Closed' = Closed \cup {e}
    BY <2>1 DEF Closed
  <2>4. Settled(e)
    BY <1>1, <1>4 DEF SettledCalls, MarkProcessed, Busy
  <2>5. \A r \in Recipients : FateOf(e, r) # "open"
    BY <1>2, <1>4, <2>4 DEF Settled, Remaining, Rows, FateOf, DeliveryRows, Terminal, Automatic
  <2>6. \E r \in Recipients : FateOf(e, r) # "none"
    BY <1>2, <1>4, <2>4 DEF Settled, Rows, FateOf, DeliveryRows, Terminal, Automatic
  <2>7. Promise!Close(e)
    BY <1>2, <2>2, <2>3, <2>5, <2>6, FatesAre DEF Promise!Close
  <2> QED
    BY <2>7 DEF Promise!Next
<1> QED
  BY <1>3, <1>4

LEMMA PurgePromise ==
    ASSUME IInv, NEW e \in Events, Purge(e)
    PROVE  Promise!Next
<1>1. /\ event'[e].state = "purged" /\ accepted' = accepted
      /\ \A f \in Events \ {e} : event'[f] = event[f] /\ delivery'[f] = delivery[f]
  BY TypedRows DEF IInv, Typed, Purge
<1> DEFINE g == [r \in Recipients |-> "purged"]
<1>2. \A r \in Recipients : FateOf(e, r)' = g[r]
  BY <1>1 DEF FateOf
<1>3. \A f \in Events \ {e}, r \in Recipients : FateOf(f, r)' = FateOf(f, r)
  BY <1>1 DEF FateOf
<1>4. Fate' = [Fate EXCEPT ![e] = g]
  <2>1. g = [r \in Recipients |-> g[r]]
    OBVIOUS
  <2> HIDE DEF g
  <2> QED
    BY <1>2, <1>3, <2>1, RowsOfOne
<1>5. Closed' = Closed \ {e}
  BY <1>1 DEF Closed
<1>6. Promise!Purge(e)
  BY <1>1, <1>4, <1>5 DEF Promise!Purge
<1> QED
  BY <1>6 DEF Promise!Next

LEMMA PromiseStep ==
    IInv /\ SettledCalls /\ [Next]_vars => [Promise!Next]_(Promise!promise)
<1> SUFFICES ASSUME IInv, SettledCalls, [Next]_vars
             PROVE  Promise!Next \/ UNCHANGED Promise!promise
  OBVIOUS
<1>1. CASE Quiet
  BY <1>1 DEF Quiet, Fate, Closed, Promise!promise
<1> QED
  BY <1>1, Steps, SnapshotPromise, ClaimDuePromise, RecordPromise, AcceptPromise,
     MarkProcessedPromise, PurgePromise DEF IInv

\* The outbox implements the duplicate-averse delivery it promises, for any number of
\* workers, events, recipients and faults.
THEOREM PromiseKept == Spec => KeepsPromise
<1>1. Init => Promise!Init
  BY DEF Init, NoRow, Promise!Init, Fate, Closed
<1> QED
  BY <1>1, Invariance, CallsSettled, PromiseStep, PTL DEF Spec, KeepsPromise, Promise!Spec
=============================================================================
