-------------------------- MODULE TranslationProofs --------------------------
(***************************************************************************)
(* Proofs about TranslationJobs, for every number of workers, messages and *)
(* attempts: the tables keep their types, and jobs, leases and workers     *)
(* implement the conversation of TranslatedLog.                            *)
(***************************************************************************)
EXTENDS TranslationJobs, TLAPS

Rows == [sender : Senders, lang : Langs, skipped : BOOLEAN]
Jobs == [status : Statuses, attempts : 0..MaxAttempts, holder : Workers \cup {"none"}, over : BOOLEAN]

\* A worker that is busy is so with a message there is, and brings a result when
\* it finishes.
Busy == \A w \in Workers :
    /\ worker[w].at # "idle" => worker[w].p \in Positions
    /\ worker[w].at = "finish" => worker[w].result # "NONE"

IInv == TranslationTypeOK /\ Busy
-----------------------------------------------------------------------------
(* Operators.                                                              *)

LEMMA NoJobType == /\ NoJob \in Jobs /\ NoJob.status = "NONE"
                   /\ Fresh \in Jobs /\ Fresh.status = "PENDING"
<1>1. NoJob \in Jobs /\ NoJob.status = "NONE"
  BY JobsAssumption DEF NoJob, Jobs, Statuses
<1>2. QED
  BY <1>1 DEF Fresh, Jobs, Statuses

\* What ends a job or makes it wait again keeps its type and that there is one.
LEMMA JobTypes ==
    ASSUME NEW j \in Jobs
    PROVE  /\ Cancelled(j) \in Jobs /\ Cancelled(j).status = "CANCELLED"
           /\ Exhausted(j) \in Jobs
           /\ Exhausted(j) = j \/ (j.status = "RUNNING" /\ Exhausted(j).status = "FAILED")
  BY JobsAssumption DEF Cancelled, Exhausted, Expired, Jobs, Statuses

\* A sequence of tables is typed element by element.
LEMMA Replaced ==
    ASSUME NEW S, NEW s \in Seq(S), NEW p \in DOMAIN s, NEW x \in S
    PROVE  /\ [s EXCEPT ![p] = x] \in Seq(S)
           /\ Len([s EXCEPT ![p] = x]) = Len(s)
           /\ DOMAIN [s EXCEPT ![p] = x] = DOMAIN s
           /\ \A q \in DOMAIN s : [s EXCEPT ![p] = x][q] = IF q = p THEN x ELSE s[q]
  OBVIOUS

LEMMA Appended ==
    ASSUME NEW S, NEW s \in Seq(S), NEW x \in S
    PROVE  /\ Append(s, x) \in Seq(S)
           /\ Len(Append(s, x)) = Len(s) + 1
           /\ DOMAIN Append(s, x) = DOMAIN s \cup {Len(s) + 1}
           /\ Len(s) + 1 \notin DOMAIN s
           /\ \A q \in DOMAIN s : Append(s, x)[q] = s[q]
           /\ Append(s, x)[Len(s) + 1] = x
  OBVIOUS

\* The tables by position.
LEMMA Tables ==
    ASSUME TranslationTypeOK
    PROVE  /\ Positions = 1..Len(message) /\ DOMAIN job = Positions
           /\ Len(message) \in Nat /\ Len(job) = Len(message)
           /\ \A p \in Positions : p \in Nat /\ message[p] \in Rows /\ job[p] \in Jobs
           /\ message \in Seq(Rows) /\ job \in Seq(Jobs)
<1>1. message \in Seq(Rows) /\ job \in Seq(Jobs) /\ Len(job) = Len(message)
  BY DEF TranslationTypeOK, Rows, Jobs
<1>2. QED
  BY <1>1 DEF Positions
-----------------------------------------------------------------------------
(* The tables keep their types.                                            *)

\* A worker that changes alone stays well typed and busy with a message.
LEMMA WorkerChanged ==
    ASSUME IInv, UNCHANGED <<message, job, queue>>, NEW w \in Workers,
           NEW r \in [at : {"idle", "lock", "work", "finish"}, p : Nat,
                       result : {"NONE", "SUCCEEDED", "FAILED", "CANCELLED"}, locked : BOOLEAN],
           r.at # "idle" => r.p \in Positions,
           r.at = "finish" => r.result # "NONE",
           worker' = [worker EXCEPT ![w] = r]
    PROVE  IInv'
<1>1. TranslationTypeOK'
  BY DEF IInv, TranslationTypeOK, Positions
<1>2. Busy'
  BY DEF IInv, TranslationTypeOK, Busy, Positions
<1>3. QED
  BY <1>1, <1>2 DEF IInv

\* One job changes and there was one before, or it takes its place in the queue.
LEMMA JobChanged ==
    ASSUME IInv, NEW p \in Positions, NEW j \in Jobs, j.status # "NONE",
           job' = [job EXCEPT ![p] = j],
           message' \in Seq(Rows), Len(message') = Len(message),
           IF job[p].status = "NONE" THEN queue' = Append(queue, p) ELSE queue' = queue,
           UNCHANGED worker
    PROVE  IInv'
<1>1. /\ job' \in Seq(Jobs) /\ Len(job') = Len(message') /\ Len(message') <= MaxMessages
      /\ Positions' = Positions
      /\ \A q \in Positions : job'[q] = IF q = p THEN j ELSE job[q]
  BY Tables DEF IInv, TranslationTypeOK, Positions
<1>2. queue' \in Seq(Positions) /\ IsInjective(queue')
      /\ ToSet(queue') = ToSet(queue) \cup {p}
  <2>1. CASE job[p].status = "NONE"
    <3>1. queue \in Seq(Positions) /\ p \notin ToSet(queue) /\ IsInjective(queue)
      BY <2>1 DEF IInv, TranslationTypeOK
    <3>2. /\ queue' \in Seq(Positions)
          /\ DOMAIN queue' = DOMAIN queue \cup {Len(queue) + 1}
          /\ \A i \in DOMAIN queue : queue'[i] = queue[i]
          /\ queue'[Len(queue) + 1] = p
      BY <2>1, <3>1, Appended
    <3>3. QED
      BY <3>1, <3>2 DEF IsInjective, ToSet
  <2>2. CASE job[p].status # "NONE"
    <3>1. queue' = queue /\ p \in ToSet(queue)
      BY <2>2 DEF IInv, TranslationTypeOK
    <3>2. QED
      BY <3>1 DEF IInv, TranslationTypeOK
  <2>3. QED
    BY <2>1, <2>2
<1>3. ToSet(queue') = {q \in Positions : job'[q].status # "NONE"}
  BY <1>1, <1>2 DEF IInv, TranslationTypeOK
<1>4. TranslationTypeOK'
  BY <1>1, <1>2, <1>3 DEF IInv, TranslationTypeOK, Rows, Jobs
<1>5. QED
  BY <1>1, <1>4 DEF IInv, Busy

\* Jobs that there are move on, without one more or less.
LEMMA JobsMoved ==
    ASSUME IInv, UNCHANGED <<message, queue>>,
           job' \in Seq(Jobs), Len(job') = Len(job),
           \A q \in Positions : job'[q].status = "NONE" <=> job[q].status = "NONE",
           worker' \in [Workers -> [at : {"idle", "lock", "work", "finish"}, p : Nat,
                               result : {"NONE", "SUCCEEDED", "FAILED", "CANCELLED"}, locked : BOOLEAN]],
           Busy'
    PROVE  IInv'
<1>1. Positions' = Positions
  BY DEF Positions
<1>2. ToSet(queue') = {q \in Positions' : job'[q].status # "NONE"}
  BY <1>1 DEF IInv, TranslationTypeOK
<1>3. TranslationTypeOK'
  BY <1>1, <1>2 DEF IInv, TranslationTypeOK, Jobs
<1>4. QED
  BY <1>3 DEF IInv

LEMMA WriteSafe == ASSUME IInv, Write PROVE IInv'
<1>1. PICK k \in Kinds : \E wanted \in Automatic(k.sender, k.lang) :
          /\ Len(message) < MaxMessages
          /\ message' = Append(message, [sender |-> k.sender, lang |-> k.lang,
                                         skipped |-> FALSE])
          /\ job'     = Append(job, IF wanted THEN Fresh ELSE NoJob)
          /\ queue'   = IF wanted THEN Append(queue, Len(message) + 1) ELSE queue
          /\ UNCHANGED worker
  BY DEF Write
<1>2. PICK wanted \in Automatic(k.sender, k.lang) :
          /\ Len(message) < MaxMessages
          /\ message' = Append(message, [sender |-> k.sender, lang |-> k.lang,
                                         skipped |-> FALSE])
          /\ job'     = Append(job, IF wanted THEN Fresh ELSE NoJob)
          /\ queue'   = IF wanted THEN Append(queue, Len(message) + 1) ELSE queue
          /\ UNCHANGED worker
  BY <1>1
<1> DEFINE new == Len(message) + 1
           j == IF wanted THEN Fresh ELSE NoJob
<1>3. k \in [sender : Senders, lang : Langs] /\ MaxMessages \in Nat
  BY JobsAssumption
<1>4. j \in Jobs /\ (j.status = "NONE" <=> ~ wanted)
  BY NoJobType, <1>2 DEF Automatic
<1>5. /\ message' \in Seq(Rows) /\ Len(message') = new /\ Positions' = Positions \cup {new}
      /\ new \notin Positions
  <2>1. [sender |-> k.sender, lang |-> k.lang, skipped |-> FALSE] \in Rows
    BY <1>3 DEF Rows
  <2>2. QED
    BY <1>2, <2>1, Tables, Appended DEF IInv, Positions
<1>6. /\ job' \in Seq(Jobs) /\ Len(job') = Len(message')
      /\ \A q \in Positions : job'[q] = job[q]
      /\ job'[new] = j
  <2>1. job \in Seq(Jobs) /\ Len(job) = Len(message) /\ DOMAIN job = Positions /\ job' = Append(job, j)
    BY <1>2, Tables DEF IInv
  <2>2. QED
    BY <1>4, <1>5, <2>1, Appended
<1>7. /\ queue' \in Seq(Positions') /\ IsInjective(queue')
      /\ ToSet(queue') = ToSet(queue) \cup (IF wanted THEN {new} ELSE {})
  <2>1. queue \in Seq(Positions) /\ queue \in Seq(Positions') /\ IsInjective(queue)
    BY <1>5 DEF IInv, TranslationTypeOK
  <2>2. CASE ~ wanted
    BY <1>2, <2>1, <2>2
  <2>3. CASE wanted
    <3>1. /\ queue' \in Seq(Positions')
          /\ DOMAIN queue' = DOMAIN queue \cup {Len(queue) + 1}
          /\ \A i \in DOMAIN queue : queue'[i] = queue[i] /\ queue[i] \in Positions
          /\ queue'[Len(queue) + 1] = new
      BY <1>2, <1>5, <2>1, <2>3, Appended
    <3>2. QED
      BY <1>5, <2>1, <2>3, <3>1 DEF IsInjective, ToSet
  <2>4. QED
    BY <2>2, <2>3, <1>2 DEF Automatic
<1>8. ToSet(queue') = {q \in Positions' : job'[q].status # "NONE"}
  <2>1. ToSet(queue) = {q \in Positions : job[q].status # "NONE"}
    BY DEF IInv, TranslationTypeOK
  <2>2. QED
    BY <1>4, <1>5, <1>6, <1>7, <2>1
<1>9. Len(message') <= MaxMessages
  BY <1>2, <1>3, <1>5, Tables DEF IInv
<1>10. TranslationTypeOK'
  BY <1>2, <1>5, <1>6, <1>7, <1>8, <1>9 DEF IInv, TranslationTypeOK, Rows, Jobs
<1>11. QED
  BY <1>2, <1>5, <1>10 DEF IInv, Busy

LEMMA StaffSafe ==
    ASSUME IInv, NEW p \in Positions, Retry(p) \/ Request(p) \/ Skip(p) \/ Confirm(p)
    PROVE  IInv'
<1>1. message[p] \in Rows /\ job[p] \in Jobs /\ message \in Seq(Rows) /\ job \in Seq(Jobs)
  BY Tables DEF IInv
<1>2. CASE Retry(p)
  BY <1>1, <1>2, NoJobType, JobChanged DEF Retry
<1>3. CASE Request(p)
  BY <1>1, <1>3, NoJobType, JobChanged DEF Request
<1>4. CASE Skip(p)
  <2>1. message' \in Seq(Rows) /\ Len(message') = Len(message)
    <3>1. message' = [message EXCEPT ![p] = [message[p] EXCEPT !.skipped = TRUE]]
      BY <1>1, <1>4 DEF Skip
    <3>2. [message[p] EXCEPT !.skipped = TRUE] \in Rows
      BY <1>1 DEF Rows
    <3>3. QED
      BY <1>1, <3>1, <3>2, Tables, Replaced DEF IInv
  <2>2. CASE job[p].status \in {"PENDING", "RUNNING"}
    <3>1. job' = [job EXCEPT ![p] = Cancelled(job[p])]
      BY <1>4, <2>2 DEF Skip
    <3>2. QED
      <4>1. Cancelled(job[p]) \in Jobs /\ Cancelled(job[p]).status = "CANCELLED"
        BY <1>1, JobTypes
      <4>2. UNCHANGED <<queue, worker>> /\ job[p].status # "NONE"
        BY <1>4, <2>2 DEF Skip
      <4>3. QED
        BY <2>1, <3>1, <4>1, <4>2, JobChanged
  <2>3. CASE job[p].status \notin {"PENDING", "RUNNING"}
    <3>1. UNCHANGED <<job, queue, worker>> /\ Positions' = Positions
      BY <1>1, <1>4, <2>1, <2>3, Tables DEF Skip, IInv, Positions
    <3>2. QED
      BY <2>1, <3>1 DEF IInv, TranslationTypeOK, Busy, Rows
  <2>4. QED
    BY <2>2, <2>3
<1>5. CASE Confirm(p)
  <2>1. PICK l \in {"same", "other"}, wanted \in BOOLEAN :
          /\ job[p].status = "NONE"
          /\ message' = [message EXCEPT ![p].lang = l]
          /\ job'     = IF wanted THEN [job EXCEPT ![p] = Fresh] ELSE job
          /\ queue'   = IF wanted THEN Append(queue, p) ELSE queue
          /\ UNCHANGED worker
    BY <1>5 DEF Confirm, Automatic
  <2>2. message' \in Seq(Rows) /\ Len(message') = Len(message)
    <3>1. message' = [message EXCEPT ![p] = [message[p] EXCEPT !.lang = l]]
      BY <2>1, <1>1
    <3>2. [message[p] EXCEPT !.lang = l] \in Rows
      BY <1>1 DEF Rows, Langs
    <3>3. QED
      BY <1>1, <3>1, <3>2, Tables, Replaced DEF IInv
  <2>3. CASE wanted
    BY <2>1, <2>2, <2>3, NoJobType, JobChanged
  <2>4. CASE ~ wanted
    <3>1. UNCHANGED <<job, queue, worker>> /\ Positions' = Positions
      BY <1>1, <2>1, <2>2, <2>4, Tables DEF IInv, Positions
    <3>2. QED
      BY <2>2, <3>1 DEF IInv, TranslationTypeOK, Busy, Rows
  <2>5. QED
    BY <2>3, <2>4
<1>6. QED
  BY <1>2, <1>3, <1>4, <1>5

\* Sweeping fails expired jobs and leaves the others alone.
LEMMA Sweeping ==
    ASSUME IInv
    PROVE  LET swept == [p \in DOMAIN job |-> Exhausted(job[p])] IN
           /\ swept \in Seq(Jobs) /\ Len(swept) = Len(job) /\ DOMAIN swept = Positions
           /\ \A p \in Positions :
                 /\ swept[p] \in Jobs
                 /\ \/ swept[p] = job[p]
                    \/ swept[p].status = "FAILED" /\ job[p].status = "RUNNING"
<1> DEFINE swept == [p \in DOMAIN job |-> Exhausted(job[p])]
<1>1. DOMAIN job = Positions /\ job \in Seq(Jobs) /\ \A p \in Positions : job[p] \in Jobs
  BY Tables DEF IInv
<1>2. \A p \in Positions : /\ swept[p] \in Jobs
                           /\ \/ swept[p] = job[p]
                              \/ swept[p].status = "FAILED" /\ job[p].status = "RUNNING"
  BY <1>1, JobTypes
<1>3. swept \in Seq(Jobs) /\ Len(swept) = Len(job)
  BY <1>1, <1>2
<1>4. QED
  BY <1>1, <1>2, <1>3

LEMMA ClaimSafe == ASSUME IInv, NEW w \in Workers, Claim(w) PROVE IInv'
<1> DEFINE swept == [p \in DOMAIN job |-> Exhausted(job[p])]
           Waits(i) == Claimable(swept[queue[i]])
<1>1. /\ swept \in Seq(Jobs) /\ Len(swept) = Len(job) /\ DOMAIN swept = Positions
      /\ \A p \in Positions :
            /\ swept[p] \in Jobs
            /\ swept[p] = job[p] \/ (swept[p].status = "FAILED" /\ job[p].status = "RUNNING")
  BY Sweeping
<1>2. /\ worker \in [Workers -> [at : {"idle", "lock", "work", "finish"}, p : Nat,
                       result : {"NONE", "SUCCEEDED", "FAILED", "CANCELLED"}, locked : BOOLEAN]]
      /\ queue \in Seq(Positions)
      /\ \A i \in DOMAIN queue : queue[i] \in Positions /\ job[queue[i]].status # "NONE"
  BY DEF IInv, TranslationTypeOK, ToSet
<1>3. UNCHANGED <<message, queue>> /\ Positions' = Positions
  BY DEF Claim, Positions
<1>4. CASE job' = swept /\ UNCHANGED worker
  <2>1. Busy'
    BY <1>3, <1>4 DEF IInv, Busy
  <2>2. QED
    BY <1>1, <1>2, <1>3, <1>4, <2>1, JobsMoved
<1>5. CASE \E i \in DOMAIN queue :
          /\ Waits(i)
          /\ job' = [swept EXCEPT ![queue[i]] =
                        [status |-> "RUNNING", attempts |-> @.attempts + 1, holder |-> w, over |-> FALSE]]
          /\ worker' = [worker EXCEPT ![w] = [Idle EXCEPT !.at = "lock", !.p = queue[i]]]
  <2>1. PICK i \in DOMAIN queue :
          /\ Waits(i)
          /\ job' = [swept EXCEPT ![queue[i]] =
                        [status |-> "RUNNING", attempts |-> @.attempts + 1, holder |-> w, over |-> FALSE]]
          /\ worker' = [worker EXCEPT ![w] = [Idle EXCEPT !.at = "lock", !.p = queue[i]]]
    BY <1>5
  <2> DEFINE p == queue[i]
             j == [status |-> "RUNNING", attempts |-> swept[p].attempts + 1, holder |-> w, over |-> FALSE]
  <2>2. p \in Positions /\ job[p].status # "NONE" /\ p \in Nat
    BY <1>2, Tables DEF IInv
  <2>3. j \in Jobs
    <3>1. swept[p] \in Jobs /\ swept[p].attempts < MaxAttempts
      BY <1>1, <2>1, <2>2 DEF Claimable
    <3>2. QED
      BY <3>1, JobsAssumption DEF Jobs, Statuses
  <2>4. /\ job' \in Seq(Jobs) /\ Len(job') = Len(job)
        /\ \A q \in Positions : job'[q] = IF q = p THEN j ELSE swept[q]
    <3>1. job' = [swept EXCEPT ![p] = j]
      BY <1>1, <2>1, <2>2
    <3> HIDE DEF swept, j, p
    <3>2. QED
      BY <1>1, <2>2, <2>3, <3>1, Replaced
  <2>5. \A q \in Positions : job'[q].status = "NONE" <=> job[q].status = "NONE"
    BY <1>1, <2>2, <2>4
  <2>6. /\ worker' \in [Workers -> [at : {"idle", "lock", "work", "finish"}, p : Nat,
                          result : {"NONE", "SUCCEEDED", "FAILED", "CANCELLED"}, locked : BOOLEAN]]
        /\ Busy'
    BY <1>2, <1>3, <2>1, <2>2 DEF Idle, IInv, Busy
  <2>7. QED
    BY <1>3, <2>4, <2>5, <2>6, JobsMoved
<1>6. QED
  BY <1>4, <1>5 DEF Claim

\* The end of a worker's turn leaves it idle.
LEMMA IdleType ==
    Idle \in [at : {"idle", "lock", "work", "finish"}, p : Nat,
              result : {"NONE", "SUCCEEDED", "FAILED", "CANCELLED"}, locked : BOOLEAN]
    /\ Idle.at = "idle"
  BY DEF Idle

LEMMA FinishSafe == ASSUME IInv, NEW w \in Workers, Finish(w) PROVE IInv'
<1> DEFINE p == worker[w].p
           r == worker[w].result
           j == [job[p] EXCEPT !.status = r, !.holder = "none", !.over = FALSE]
<1>1. /\ worker[w].at = "finish" /\ p \in Positions /\ r \in {"SUCCEEDED", "FAILED", "CANCELLED"}
      /\ worker' = [worker EXCEPT ![w] = Idle] /\ UNCHANGED <<message, queue>>
      /\ Positions' = Positions
  BY DEF Finish, IInv, Busy, TranslationTypeOK, Positions
<1>2. job[p] \in Jobs /\ job \in Seq(Jobs) /\ DOMAIN job = Positions
  BY <1>1, Tables DEF IInv
<1>3. CASE Current(w)
  <2>1. job' = [job EXCEPT ![p] = j] /\ job[p].status = "RUNNING"
    BY <1>3 DEF Finish, Current
  <2>2. j \in Jobs /\ j.status # "NONE"
    BY <1>1, <1>2 DEF Jobs, Statuses
  <2>3. /\ job' \in Seq(Jobs) /\ Len(job') = Len(job)
        /\ \A q \in Positions : job'[q] = IF q = p THEN j ELSE job[q]
    <3> HIDE DEF j, p
    <3>1. QED
      BY <1>1, <1>2, <2>1, <2>2, Replaced
  <2>4. \A q \in Positions : job'[q].status = "NONE" <=> job[q].status = "NONE"
    BY <2>1, <2>2, <2>3
  <2>5. /\ worker' \in [Workers -> [at : {"idle", "lock", "work", "finish"}, p : Nat,
                          result : {"NONE", "SUCCEEDED", "FAILED", "CANCELLED"}, locked : BOOLEAN]]
        /\ Busy'
    BY <1>1, IdleType DEF IInv, TranslationTypeOK, Busy
  <2>6. QED
    BY <1>1, <2>3, <2>4, <2>5, JobsMoved
<1>4. CASE ~ Current(w)
  <2>1. job' = job
    BY <1>4 DEF Finish
  <2>2. QED
    BY <1>1, <2>1, IdleType, WorkerChanged
<1>5. QED
  BY <1>3, <1>4

\* The steps that change nothing but a worker.
LEMMA WorkerSafe ==
    ASSUME IInv, NEW w \in Workers, Lock(w) \/ Answer(w) \/ Crash(w) \/ LoseLock(w)
    PROVE  IInv'
<1>1. /\ worker[w] \in [at : {"idle", "lock", "work", "finish"}, p : Nat,
               result : {"NONE", "SUCCEEDED", "FAILED", "CANCELLED"}, locked : BOOLEAN]
      /\ worker[w].at # "idle" => worker[w].p \in Positions
      /\ worker[w].at = "finish" => worker[w].result # "NONE"
      /\ UNCHANGED <<message, job, queue>>
  BY DEF IInv, TranslationTypeOK, Busy, Lock, Answer, Crash, LoseLock
<1>2. CASE Lock(w)
  <2>1. CASE worker' = [worker EXCEPT ![w] = Idle]
    BY <1>1, <2>1, IdleType, WorkerChanged
  <2>2. CASE worker[w].at = "lock" /\ worker' = [worker EXCEPT ![w].at = "work", ![w].locked = TRUE]
    <3>1. worker' = [worker EXCEPT ![w] = [worker[w] EXCEPT !.at = "work", !.locked = TRUE]]
      BY <2>2 DEF IInv, TranslationTypeOK
    <3>2. QED
      BY <1>1, <2>2, <3>1, WorkerChanged
  <2>3. QED
    BY <1>2, <2>1, <2>2 DEF Lock
<1>3. CASE Answer(w)
  <2>1. PICK r \in {"SUCCEEDED", "FAILED", "CANCELLED"} :
          worker[w].at = "work" /\ worker' = [worker EXCEPT ![w].at = "finish", ![w].result = r]
    BY <1>3 DEF Answer
  <2>2. worker' = [worker EXCEPT ![w] = [worker[w] EXCEPT !.at = "finish", !.result = r]]
    BY <2>1 DEF IInv, TranslationTypeOK
  <2>3. QED
    BY <1>1, <2>1, <2>2, WorkerChanged
<1>4. CASE Crash(w)
  BY <1>1, <1>4, IdleType, WorkerChanged DEF Crash
<1>5. CASE LoseLock(w)
  <2>1. worker' = [worker EXCEPT ![w] = [worker[w] EXCEPT !.locked = FALSE]]
    BY <1>5 DEF LoseLock, IInv, TranslationTypeOK
  <2>2. QED
    BY <1>1, <2>1, WorkerChanged
<1>6. QED
  BY <1>2, <1>3, <1>4, <1>5

LEMMA LeaseEndsSafe == ASSUME IInv, NEW p \in Positions, LeaseEnds(p) PROVE IInv'
<1>1. job[p] \in Jobs /\ job \in Seq(Jobs) /\ DOMAIN job = Positions
  BY Tables DEF IInv
<1>2. /\ job' = [job EXCEPT ![p] = [job[p] EXCEPT !.over = TRUE]]
      /\ [job[p] EXCEPT !.over = TRUE] \in Jobs
      /\ [job[p] EXCEPT !.over = TRUE].status = job[p].status
      /\ UNCHANGED <<message, queue, worker>> /\ job[p].status = "RUNNING"
  BY <1>1 DEF LeaseEnds, Jobs
<1>3. QED
  BY <1>1, <1>2, JobChanged, Tables DEF IInv

LEMMA InitSafe == TranslationInit => IInv
<1> SUFFICES ASSUME TranslationInit PROVE IInv
  OBVIOUS
<1>1. /\ message \in Seq([sender : Senders, lang : Langs, skipped : BOOLEAN])
      /\ job \in Seq([status : Statuses, attempts : 0..MaxAttempts, holder : Workers \cup {"none"}, over : BOOLEAN])
      /\ Len(job) = Len(message) /\ Len(message) <= MaxMessages
      /\ queue \in Seq(Positions) /\ IsInjective(queue)
      /\ Positions = {} /\ ToSet(queue) = {}
  BY JobsAssumption DEF TranslationInit, Positions, IsInjective, ToSet
<1>2. \A w \in Workers : worker[w] = Idle
  BY DEF TranslationInit
<1>3. TranslationTypeOK
  BY <1>1, IdleType DEF TranslationInit, TranslationTypeOK
<1>4. QED
  BY <1>2, <1>3, IdleType DEF IInv, Busy

LEMMA NextSafe == IInv /\ [TranslationNext]_translation => IInv'
<1> SUFFICES ASSUME IInv, [TranslationNext]_translation PROVE IInv'
  OBVIOUS
<1>1. ASSUME NEW w \in Workers, WorkerStep(w) \/ Crash(w) \/ LoseLock(w) PROVE IInv'
  BY <1>1, ClaimSafe, WorkerSafe, FinishSafe DEF WorkerStep
<1>2. ASSUME NEW p \in Positions,
             Retry(p) \/ Request(p) \/ Skip(p) \/ Confirm(p) \/ LeaseEnds(p)
      PROVE  IInv'
  BY <1>2, StaffSafe, LeaseEndsSafe
<1>3. CASE UNCHANGED translation
  BY <1>3 DEF translation, IInv, TranslationTypeOK, Busy, Positions
<1>4. QED
  BY <1>1, <1>2, <1>3, WriteSafe DEF TranslationNext

\* The tables keep their types, there is at most one job of a message, and the
\* queue has each of them once, whatever staff and workers do.
THEOREM TypeCorrect == TranslationSpec => []TranslationTypeOK
<1>1. IInv => TranslationTypeOK
  BY DEF IInv
<1>2. QED
  BY <1>1, InitSafe, NextSafe, PTL DEF TranslationSpec
-----------------------------------------------------------------------------
(* The fence of results.                                                   *)

LEMMA SameJob == ASSUME NEW p, job'[p] = job[p] PROVE Fenced(p)
  BY DEF Fenced

LEMMA ClaimFenced == ASSUME IInv, NEW w \in Workers, Claim(w), NEW p \in Positions PROVE Fenced(p)
<1> DEFINE swept == [q \in DOMAIN job |-> Exhausted(job[q])]
           Waits(i) == Claimable(swept[queue[i]])
           taken == [status |-> "RUNNING", attempts |-> swept[p].attempts + 1, holder |-> w, over |-> FALSE]
<1>1. DOMAIN swept = Positions /\ job[p] \in Jobs /\ swept[p] = Exhausted(job[p])
  BY Tables DEF IInv
<1>2. job'[p] = swept[p] \/ (job'[p] = taken /\ Claimable(swept[p]))
  <2>1. CASE job' = swept
    BY <2>1
  <2>2. CASE \E i \in DOMAIN queue :
                /\ Waits(i)
                /\ job' = [swept EXCEPT ![queue[i]] =
                      [status |-> "RUNNING", attempts |-> @.attempts + 1, holder |-> w, over |-> FALSE]]
    BY <1>1, <2>2
  <2>3. QED
    BY <2>1, <2>2 DEF Claim
<1>3. \/ swept[p] = job[p]
      \/ /\ job[p].status = "RUNNING" /\ job[p].over /\ job[p].attempts = MaxAttempts
         /\ swept[p].status = "FAILED"
  BY <1>1, JobsAssumption DEF Exhausted, Expired, Jobs
<1> HIDE DEF swept
<1>4. CASE job'[p] = swept[p]
  BY <1>3, <1>4, SameJob DEF Fenced, Ends
<1>5. CASE job'[p] = taken /\ Claimable(swept[p])
  <2>1. swept[p] = job[p] /\ job'[p].status = "RUNNING"
    BY <1>3, <1>5 DEF Claimable, Expired
  <2>2. job[p].status = "PENDING" \/ (job[p].status = "RUNNING" /\ job[p].over)
    BY <1>5, <2>1 DEF Claimable, Expired
  <2>3. QED
    BY <2>1, <2>2 DEF Fenced, Ends
<1>6. QED
  BY <1>2, <1>4, <1>5

LEMMA FinishFenced == ASSUME IInv, NEW w \in Workers, Finish(w), NEW p \in Positions PROVE Fenced(p)
<1>1. DOMAIN job = Positions /\ job[p] \in Jobs
  BY Tables DEF IInv
<1>2. CASE Current(w) /\ worker[w].p = p
  <2>1. /\ job[p].status = "RUNNING" /\ ~job[p].over /\ job[p].holder = w
        /\ worker[w].at = "finish" /\ job'[p].status = worker[w].result
    BY <1>1, <1>2 DEF Finish, Current, Jobs
  <2>2. worker[w].result \in Ends
    BY <2>1 DEF IInv, Busy, TranslationTypeOK, Ends
  <2>3. QED
    BY <1>2, <2>1, <2>2 DEF Fenced, Ends
<1>3. CASE ~(Current(w) /\ worker[w].p = p)
  <2>1. job'[p] = job[p]
    BY <1>1, <1>3 DEF Finish
  <2>2. QED
    BY <2>1, SameJob
<1>4. QED
  BY <1>2, <1>3

LEMMA StaffFenced ==
    ASSUME IInv, NEW q \in Positions, Retry(q) \/ Request(q) \/ Skip(q) \/ Confirm(q),
           NEW p \in Positions
    PROVE  Fenced(p)
<1>1. /\ DOMAIN job = Positions /\ DOMAIN message = Positions
      /\ job[p] \in Jobs /\ message[p] \in Rows
  BY Tables DEF IInv, Positions
<1>2. CASE job'[p] = job[p]
  BY <1>2, SameJob
<1>3. CASE Retry(q) \/ Request(q) \/ Confirm(q)
  <2>1. job'[p] = job[p] \/ (job'[p] = Fresh /\ Fresh.status = "PENDING")
    BY <1>1, <1>3, NoJobType DEF Retry, Request, Confirm
  <2>2. QED
    BY <1>2, <2>1 DEF Fenced, Ends
<1>4. CASE Skip(q) /\ job'[p] # job[p]
  <2>1. /\ q = p /\ job[p].status \in {"PENDING", "RUNNING"} /\ job'[p] = Cancelled(job[p])
    BY <1>1, <1>4 DEF Skip
  <2>2. job'[p].status = "CANCELLED" /\ message'[p].skipped /\ ~message[p].skipped
    BY <1>1, <1>4, <2>1, JobTypes DEF Skip, Rows
  <2>3. QED
    BY <2>1, <2>2 DEF Fenced, Ends
<1>5. QED
  BY <1>2, <1>3, <1>4

LEMMA StepFenced ==
    ASSUME IInv, [TranslationNext]_translation, NEW p \in Positions
    PROVE  Fenced(p)
<1>1. DOMAIN job = Positions /\ job \in Seq(Jobs) /\ job[p] \in Jobs
  BY Tables DEF IInv
<1>2. CASE Write
  <2>1. PICK j \in Jobs : job' = Append(job, j)
    BY <1>2, NoJobType DEF Write
  <2>2. job'[p] = job[p]
    BY <1>1, <2>1, Appended
  <2>3. QED
    BY <2>2, SameJob
<1>3. ASSUME NEW q \in Positions, LeaseEnds(q) PROVE Fenced(p)
  BY <1>1, <1>3 DEF LeaseEnds, Fenced, Ends, Jobs
<1>4. ASSUME NEW w \in Workers, Lock(w) \/ Answer(w) \/ Crash(w) \/ LoseLock(w) PROVE Fenced(p)
  BY <1>4, SameJob DEF Lock, Answer, Crash, LoseLock
<1>5. CASE UNCHANGED translation
  BY <1>5, SameJob DEF translation
<1>6. QED
  BY <1>2, <1>3, <1>4, <1>5, StaffFenced, ClaimFenced, FinishFenced DEF TranslationNext, WorkerStep

\* For any number of workers and attempts: a result that comes after its lease, or after
\* another worker has claimed the job, staff skipped its message or had it done again,
\* changes nothing.
THEOREM FencedResults == TranslationSpec => ResultsAreFenced
<1>1. IInv /\ [TranslationNext]_translation => [\A p \in Positions : Fenced(p)]_translation
  BY StepFenced
<1>2. QED
  BY <1>1, InitSafe, NextSafe, PTL DEF TranslationSpec, ResultsAreFenced
-----------------------------------------------------------------------------
(* The refinement.                                                         *)

\* What the readers see of a message.
Entry(m, j) == [sender |-> m.sender, lang |-> m.lang, skipped |-> m.skipped,
                status |-> Seen(j.status)]

Faithful ==
    /\ Conversation \in Seq(Log!Entries) /\ DOMAIN Conversation = Positions
    /\ Len(Conversation) = Len(message) /\ Log!Positions = Positions
    /\ \A p \in Positions : /\ Conversation[p] = Entry(message[p], job[p])
                            /\ Conversation[p] \in Log!Entries

LEMMA Shown == TranslationTypeOK => Faithful
<1> SUFFICES ASSUME TranslationTypeOK PROVE Faithful
  OBVIOUS
<1>1. /\ DOMAIN Conversation = Positions
      /\ \A p \in Positions : Conversation[p] = Entry(message[p], job[p])
  BY DEF Conversation, Entry
<1>2. \A p \in Positions : Conversation[p] \in Log!Entries
  <2> SUFFICES ASSUME NEW p \in Positions PROVE Entry(message[p], job[p]) \in Log!Entries
    BY <1>1
  <2>1. message[p] \in Rows /\ job[p].status \in Statuses
    BY Tables DEF Jobs
  <2>2. Seen(job[p].status) \in Log!Progress
    BY <2>1 DEF Statuses, Seen, Log!Progress
  <2>3. QED
    BY <2>1, <2>2 DEF Entry, Rows, Log!Entries, Senders, Langs, Log!Senders, Log!Langs
<1>3. Conversation = [p \in 1..Len(message) |-> Conversation[p]] /\ Len(message) \in Nat
  BY Tables DEF Conversation
<1>4. Conversation \in Seq(Log!Entries) /\ Len(Conversation) = Len(message)
  BY <1>1, <1>2, <1>3, Tables
<1>5. QED
  BY <1>1, <1>2, <1>4 DEF Log!Positions, Faithful

LEMMA ShownNext == TranslationTypeOK' => Faithful'
  BY Shown, PTL

\* Who sees the same of every message sees the same conversation.
LEMMA Unseen ==
    ASSUME TranslationTypeOK, TranslationTypeOK', Positions' = Positions,
           \A p \in Positions : Entry(message[p], job[p])' = Entry(message[p], job[p])
    PROVE  Conversation' = Conversation
<1>1. /\ Conversation' = [p \in Positions |-> Entry(message[p], job[p])']
      /\ Conversation = [p \in Positions |-> Entry(message[p], job[p])]
  BY DEF Conversation, Entry
<1>2. QED
  BY <1>1

\* Where one message changes, its entry does and no other.
LEMMA OneSeen ==
    ASSUME TranslationTypeOK, TranslationTypeOK', Positions' = Positions, NEW p \in Positions,
           \A q \in Positions \ {p} : Entry(message[q], job[q])' = Entry(message[q], job[q])
    PROVE  Conversation' = [Conversation EXCEPT ![p] = Entry(message[p], job[p])']
<1>1. /\ Conversation' = [q \in Positions |-> Entry(message[q], job[q])']
      /\ Conversation = [q \in Positions |-> Entry(message[q], job[q])]
  BY DEF Conversation, Entry
<1>2. QED
  BY <1>1

\* Fields of an entry that change, one after the other.
LEMMA FieldsSet ==
    ASSUME NEW e \in Log!Entries, NEW l \in Log!Langs, NEW s \in Log!Progress
    PROVE  /\ [[e EXCEPT !.skipped = TRUE] EXCEPT !.status = s] =
              [sender |-> e.sender, lang |-> e.lang, skipped |-> TRUE, status |-> s]
           /\ [[e EXCEPT !.lang = l] EXCEPT !.status = s] =
              [sender |-> e.sender, lang |-> l, skipped |-> e.skipped, status |-> s]
<1> DEFINE e1 == [e EXCEPT !.skipped = TRUE]
           e2 == [e EXCEPT !.lang = l]
<1>1. /\ e1 \in Log!Entries /\ e1.sender = e.sender /\ e1.lang = e.lang /\ e1.skipped = TRUE
      /\ e2 \in Log!Entries /\ e2.sender = e.sender /\ e2.lang = l /\ e2.skipped = e.skipped
  BY DEF Log!Entries
<1>2. ASSUME NEW x \in Log!Entries
      PROVE  [x EXCEPT !.status = s] =
               [sender |-> x.sender, lang |-> x.lang, skipped |-> x.skipped, status |-> s]
  BY DEF Log!Entries
<1> HIDE DEF e1, e2
<1>3. /\ [e1 EXCEPT !.status = s] = [sender |-> e.sender, lang |-> e.lang, skipped |-> TRUE, status |-> s]
      /\ [e2 EXCEPT !.status = s] = [sender |-> e.sender, lang |-> l, skipped |-> e.skipped, status |-> s]
  BY <1>1, <1>2
<1>4. QED
  BY <1>3 DEF e1, e2

LEMMA WriteShown == ASSUME IInv, IInv', Write PROVE Log!Write
<1>1. PICK k \in Kinds : \E wanted \in Automatic(k.sender, k.lang) :
          /\ Len(message) < MaxMessages
          /\ message' = Append(message, [sender |-> k.sender, lang |-> k.lang,
                                         skipped |-> FALSE])
          /\ job'     = Append(job, IF wanted THEN Fresh ELSE NoJob)
  BY DEF Write
<1>2. PICK wanted \in Automatic(k.sender, k.lang) :
          /\ Len(message) < MaxMessages
          /\ message' = Append(message, [sender |-> k.sender, lang |-> k.lang,
                                         skipped |-> FALSE])
          /\ job'     = Append(job, IF wanted THEN Fresh ELSE NoJob)
  BY <1>1
<1> DEFINE m == [sender |-> k.sender, lang |-> k.lang, skipped |-> FALSE]
           j == IF wanted THEN Fresh ELSE NoJob
           s == IF wanted THEN "WAITING" ELSE "NONE"
           new == Len(message) + 1
<1>3. m \in Rows /\ j \in Jobs /\ Seen(j.status) = s
  BY JobsAssumption, NoJobType DEF Rows, Seen
<1>4. /\ Positions' = Positions \cup {new} /\ new \notin Positions
      /\ Len(message) \in Nat /\ Len(message') = Len(message) + 1
      /\ \A p \in Positions : message'[p] = message[p] /\ job'[p] = job[p]
      /\ message'[new] = m /\ job'[new] = j
  <2>1. message \in Seq(Rows) /\ job \in Seq(Jobs) /\ Len(job) = Len(message) /\ DOMAIN job = Positions
    BY Tables DEF IInv
  <2> HIDE DEF m, j
  <2>2. message' = Append(message, m) /\ job' = Append(job, j)
    BY <1>2 DEF m, j
  <2>3. QED
    BY <1>3, <2>1, <2>2, Appended DEF Positions
<1>5. Conversation' = Append(Conversation, Entry(m, j))
  <2>1. /\ Conversation \in Seq(Log!Entries) /\ Conversation' \in Seq(Log!Entries)
        /\ Len(Conversation) = Len(message) /\ Len(Conversation') = Len(message')
        /\ DOMAIN Conversation = Positions /\ DOMAIN Conversation' = Positions'
        /\ \A p \in Positions : Conversation[p] = Entry(message[p], job[p])
        /\ \A p \in Positions' : Conversation'[p] = Entry(message'[p], job'[p])
    BY Shown, ShownNext DEF IInv, Entry, Faithful
  <2> HIDE DEF m, j, new
  <2>2. /\ \A p \in Positions : Conversation'[p] = Conversation[p]
        /\ Conversation'[new] = Entry(m, j)
    BY <1>4, <2>1
  <2>3. Entry(m, j) \in Log!Entries
    BY <1>4, <2>1, <2>2
  <2>4. QED
    BY <1>4, <2>1, <2>2, <2>3, Appended DEF new
<1>6. Entry(m, j) = [sender |-> k.sender, lang |-> k.lang,
                     skipped |-> FALSE, status |-> s]
  BY <1>3 DEF Entry
<1>7. Len(Conversation) < MaxMessages
  BY <1>2, Shown DEF IInv, Faithful
<1>8. /\ (s = "WAITING") => (k.lang = "other" /\ k.sender # "SYSTEM")
      /\ (k.lang = "other" /\ k.sender = "AI_AGENT") => (s = "WAITING")
  BY DEF Automatic
<1>9. QED
  BY <1>5, <1>6, <1>7, <1>8 DEF Log!Write

\* Staff's step on a message is the step the readers' conversation allows.
LEMMA StaffShown ==
    ASSUME IInv, IInv', NEW p \in Positions, Retry(p) \/ Request(p) \/ Skip(p) \/ Confirm(p)
    PROVE  Log!LogNext
<1>1. /\ message[p] \in Rows /\ job[p] \in Jobs /\ message \in Seq(Rows) /\ job \in Seq(Jobs)
      /\ DOMAIN message = Positions /\ DOMAIN job = Positions
  BY Tables DEF IInv, Positions
<1>2. /\ Conversation[p] = Entry(message[p], job[p]) /\ p \in Log!Positions
      /\ Conversation[p] \in Log!Entries
      /\ Conversation \in Seq(Log!Entries)
      /\ DOMAIN Conversation = Positions
  BY Shown DEF IInv, Faithful
<1>3. CASE Retry(p) \/ Request(p)
  <2>1. job' = [job EXCEPT ![p] = Fresh] /\ message' = message
    BY <1>3 DEF Retry, Request
  <2>2. Positions' = Positions /\ \A q \in Positions \ {p} : Entry(message[q], job[q])' = Entry(message[q], job[q])
    BY <1>1, <2>1 DEF Entry, Positions
  <2>3. Entry(message[p], job[p])' = [Conversation[p] EXCEPT !.status = "WAITING"]
    BY <1>1, <1>2, <2>1, NoJobType DEF Entry, Seen
  <2>4. Conversation' = [Conversation EXCEPT ![p].status = "WAITING"]
    BY <1>2, <2>2, <2>3, OneSeen DEF IInv
  <2>5. /\ ~Conversation[p].skipped
        /\ \/ Conversation[p].status = "ENDED"
           \/ /\ Conversation[p].status = "NONE" /\ Conversation[p].lang = "other"
              /\ Conversation[p].sender \in {"CUSTOMER", "INTERNAL_USER"}
    BY <1>2, <1>3 DEF Retry, Request, Entry, Seen
  <2>6. Log!Order(p)
    BY <2>4, <2>5 DEF Log!Order
  <2>7. QED
    BY <1>2, <2>6 DEF Log!LogNext
<1>4. CASE Skip(p)
  <2>1. /\ message' = [message EXCEPT ![p] = [message[p] EXCEPT !.skipped = TRUE]]
        /\ job' = [job EXCEPT ![p] = IF job[p].status \in {"PENDING", "RUNNING"}
                                     THEN Cancelled(job[p]) ELSE job[p]]
    BY <1>1, <1>4 DEF Skip
  <2>2. Positions' = Positions /\ \A q \in Positions \ {p} : Entry(message[q], job[q])' = Entry(message[q], job[q])
    BY <1>1, <2>1 DEF Entry, Positions
  <2> DEFINE e == Conversation[p]
             s == IF e.status = "WAITING" THEN "ENDED" ELSE e.status
             r == [sender |-> e.sender, lang |-> e.lang, skipped |-> TRUE,
                   status |-> s]
  <2>3. Entry(message[p], job[p])' = r
    <3>1. message'[p] = [message[p] EXCEPT !.skipped = TRUE] /\ message[p] \in Rows
      BY <1>1, <2>1
    <3>2. job'[p].status = IF job[p].status \in {"PENDING", "RUNNING"} THEN "CANCELLED" ELSE job[p].status
      BY <1>1, <2>1, JobTypes
    <3>3. Seen(job'[p].status) = IF Seen(job[p].status) = "WAITING" THEN "ENDED" ELSE Seen(job[p].status)
      BY <1>1, <3>2 DEF Seen, Jobs, Statuses
    <3>4. /\ message'[p].sender = e.sender /\ message'[p].lang = e.lang
          /\ message'[p].skipped = TRUE
          /\ Seen(job'[p].status) = s
      BY <1>2, <3>1, <3>3 DEF Entry, Rows
    <3>5. QED
      BY <3>4 DEF Entry
  <2>4. Conversation' = [Conversation EXCEPT ![p].skipped = TRUE,
                                            ![p].status = IF @ = "WAITING" THEN "ENDED" ELSE @]
    <3>1. Conversation' = [Conversation EXCEPT ![p] = r]
      BY <2>2, <2>3, OneSeen DEF IInv
    <3>2. e \in Log!Entries /\ s \in Log!Progress
      BY <1>2 DEF Log!Entries, Log!Progress
    <3>3. [[e EXCEPT !.skipped = TRUE] EXCEPT !.status = s] = r
      BY <3>2, FieldsSet DEF Log!Langs
    <3>4. QED
      BY <1>2, <3>1, <3>3 DEF Log!Entries
  <2>5. /\ Conversation[p].sender \in Log!Outbound /\ ~Conversation[p].skipped
        /\ ~Log!Safe(Conversation[p])
    BY <1>1, <1>2, <1>4 DEF Skip, Entry, Outbound, Log!Outbound, Safe, Log!Safe, Seen
  <2>6. Log!Skip(p)
    BY <2>4, <2>5 DEF Log!Skip
  <2>7. QED
    BY <1>2, <2>6 DEF Log!LogNext
<1>5. CASE Confirm(p)
  <2>1. PICK l \in {"same", "other"} : \E wanted \in Automatic(message[p].sender, l) :
          /\ message' = [message EXCEPT ![p].lang = l]
          /\ job'     = IF wanted THEN [job EXCEPT ![p] = Fresh] ELSE job
    BY <1>5 DEF Confirm
  <2>2. PICK wanted \in Automatic(message[p].sender, l) :
          /\ message' = [message EXCEPT ![p].lang = l]
          /\ job'     = IF wanted THEN [job EXCEPT ![p] = Fresh] ELSE job
    BY <2>1
  <2> DEFINE s == IF wanted THEN "WAITING" ELSE "NONE"
  <2>3. /\ message[p].sender \in {"INTERNAL_USER", "AI_AGENT"} /\ ~message[p].skipped
        /\ message[p].lang = "unknown" /\ job[p].status = "NONE"
    BY <1>5 DEF Confirm
  <2>4. /\ message'[p] = [message[p] EXCEPT !.lang = l]
        /\ Seen(job'[p].status) = s
        /\ Positions' = Positions
        /\ \A q \in Positions \ {p} : Entry(message[q], job[q])' = Entry(message[q], job[q])
    BY <1>1, <2>2, <2>3, NoJobType DEF Entry, Positions, Seen
  <2> DEFINE e == Conversation[p]
             r == [sender |-> e.sender, lang |-> l, skipped |-> e.skipped,
                   status |-> s]
  <2>5. Entry(message[p], job[p])' = r
    <3>1. /\ message'[p].sender = e.sender /\ message'[p].lang = l
          /\ message'[p].skipped = e.skipped
      BY <1>1, <1>2, <2>4 DEF Entry, Rows
    <3>2. QED
      BY <2>4, <3>1 DEF Entry
  <2>6. Conversation' = [Conversation EXCEPT ![p].lang = l, ![p].status = s]
    <3>1. Conversation' = [Conversation EXCEPT ![p] = r]
      BY <2>4, <2>5, OneSeen DEF IInv
    <3>2. e \in Log!Entries /\ s \in Log!Progress /\ l \in Log!Langs
      BY <1>2 DEF Log!Langs, Log!Progress
    <3>3. [[e EXCEPT !.lang = l] EXCEPT !.status = s] = r
      BY <3>2, FieldsSet
    <3>4. QED
      BY <1>2, <3>1, <3>3 DEF Log!Entries
  <2>7. /\ Conversation[p].sender \in {"INTERNAL_USER", "AI_AGENT"} /\ ~Conversation[p].skipped
        /\ Conversation[p].lang = "unknown" /\ Conversation[p].status = "NONE"
        /\ (s = "WAITING") => (l = "other")
        /\ (l = "other" /\ Conversation[p].sender = "AI_AGENT") => (s = "WAITING")
    <3>1. /\ Conversation[p].sender = message[p].sender /\ Conversation[p].lang = message[p].lang
          /\ Conversation[p].skipped = message[p].skipped
          /\ Conversation[p].status = Seen(job[p].status)
      BY <1>2 DEF Entry
    <3>2. wanted \in Automatic(message[p].sender, l)
      BY <2>2
    <3>3. /\ wanted => l = "other"
          /\ (l = "other" /\ message[p].sender = "AI_AGENT") => wanted
      BY <2>3, <3>2 DEF Automatic
    <3>4. QED
      BY <2>3, <3>1, <3>3 DEF Seen
  <2>8. Log!Confirm(p)
    BY <2>6, <2>7 DEF Log!Confirm
  <2>9. QED
    BY <1>2, <2>8 DEF Log!LogNext
<1>6. QED
  BY <1>3, <1>4, <1>5

\* Jobs that are being translated end, some with a translation and some without, and
\* nothing else changes.
LEMMA Translated ==
    ASSUME IInv, IInv', UNCHANGED message,
           \A p \in Positions :
              \/ Seen(job'[p].status) = Seen(job[p].status)
              \/ /\ Seen(job[p].status) = "WAITING"
                 /\ Seen(job'[p].status) \in {"SUCCEEDED", "ENDED"}
    PROVE  Log!Translate \/ Conversation' = Conversation
<1> DEFINE changed == {p \in Positions : Seen(job'[p].status) # Seen(job[p].status)}
           done    == {p \in changed : Seen(job'[p].status) = "SUCCEEDED"}
           failed  == {p \in changed : Seen(job'[p].status) = "ENDED"}
<1>1. /\ Positions' = Positions
      /\ \A p \in Positions : /\ Conversation[p] = Entry(message[p], job[p])
                              /\ Conversation[p] \in Log!Entries
      /\ Log!Positions = Positions
  <2>1. Positions' = Positions
    BY DEF Positions
  <2>2. QED
    BY <2>1, Shown DEF IInv, Faithful
<1>2. \A p \in Positions : Conversation[p].status = Seen(job[p].status)
  <2>1. \A p \in Positions : Entry(message[p], job[p]).status = Seen(job[p].status)
    BY DEF Entry
  <2>2. QED
    BY <1>1, <2>1
<1>3. CASE changed = {}
  <2>1. \A p \in Positions : Entry(message[p], job[p])' = Entry(message[p], job[p])
    BY <1>3 DEF Entry
  <2>2. QED
    BY <1>1, <2>1, Unseen DEF IInv
<1>4. CASE changed # {}
  <2>1. /\ done \cap failed = {} /\ done \cup failed = changed
        /\ done \subseteq {p \in Log!Positions : Conversation[p].status = "WAITING"}
        /\ failed \subseteq {p \in Log!Positions : Conversation[p].status = "WAITING"}
    BY <1>1, <1>2
  <2>2. \A p \in Positions :
          Entry(message[p], job[p])' = IF p \in done THEN [Conversation[p] EXCEPT !.status = "SUCCEEDED"]
                                       ELSE IF p \in failed THEN [Conversation[p] EXCEPT !.status = "ENDED"]
                                       ELSE Conversation[p]
    <3> SUFFICES ASSUME NEW p \in Positions
                 PROVE  Entry(message[p], job[p])' =
                          IF p \in done THEN [Conversation[p] EXCEPT !.status = "SUCCEEDED"]
                          ELSE IF p \in failed THEN [Conversation[p] EXCEPT !.status = "ENDED"]
                          ELSE Conversation[p]
      OBVIOUS
    <3>1. Seen(job'[p].status) = IF p \in done THEN "SUCCEEDED"
                                 ELSE IF p \in failed THEN "ENDED" ELSE Seen(job[p].status)
      BY <2>1
    <3>2. ASSUME NEW s PROVE [Conversation[p] EXCEPT !.status = s] =
             [sender |-> message[p].sender, lang |-> message[p].lang, skipped |-> message[p].skipped,
              status |-> s]
      <4>1. [Entry(message[p], job[p]) EXCEPT !.status = s] =
             [sender |-> message[p].sender, lang |-> message[p].lang, skipped |-> message[p].skipped,
              status |-> s]
        BY DEF Entry
      <4>2. QED
        BY <1>1, <4>1
    <3>3. QED
      BY <1>1, <3>1, <3>2 DEF Entry
  <2>3. Conversation' = [p \in Positions |-> Entry(message[p], job[p])']
    BY <1>1 DEF Conversation, Entry
  <2>4. Conversation' = [p \in Log!Positions |->
                           IF p \in done THEN [Conversation[p] EXCEPT !.status = "SUCCEEDED"]
                           ELSE IF p \in failed THEN [Conversation[p] EXCEPT !.status = "ENDED"]
                           ELSE Conversation[p]]
    <3> HIDE DEF done, failed
    <3>1. QED
      BY <1>1, <2>2, <2>3
  <2>5. Log!Translate
    <3>1. /\ done \in SUBSET {p \in Log!Positions : Conversation[p].status = "WAITING"}
          /\ failed \in SUBSET {p \in Log!Positions : Conversation[p].status = "WAITING"}
          /\ done \cap failed = {} /\ done \cup failed # {}
      BY <1>4, <2>1
    <3> HIDE DEF done, failed
    <3>2. QED
      BY <2>4, <3>1 DEF Log!Translate
  <2>6. QED
    BY <2>5
<1>5. QED
  BY <1>3, <1>4

LEMMA WorkerShown ==
    ASSUME IInv, IInv', NEW w \in Workers, WorkerStep(w) \/ Crash(w) \/ LoseLock(w)
    PROVE  Log!Translate \/ Conversation' = Conversation
<1>1. UNCHANGED message /\ DOMAIN job = Positions
  BY Tables DEF IInv, WorkerStep, Claim, Lock, Answer, Finish, Crash, LoseLock
<1>2. CASE Claim(w)
  <2> DEFINE swept == [p \in DOMAIN job |-> Exhausted(job[p])]
             Waits(i) == Claimable(swept[queue[i]])
  <2>1. /\ DOMAIN swept = Positions
        /\ \A p \in Positions :
              swept[p] = job[p] \/ (swept[p].status = "FAILED" /\ job[p].status = "RUNNING")
    BY Sweeping
  <2>2. \A p \in Positions : \/ job'[p] = swept[p]
                             \/ job'[p].status = "RUNNING" /\ Claimable(swept[p])
    <3>1. CASE job' = swept
      BY <3>1
    <3>2. CASE \E i \in DOMAIN queue :
                  /\ Waits(i)
                  /\ job' = [swept EXCEPT ![queue[i]] =
                        [status |-> "RUNNING", attempts |-> @.attempts + 1, holder |-> w, over |-> FALSE]]
      BY <2>1, <3>2
    <3>3. QED
      BY <1>2, <3>1, <3>2 DEF Claim
  <2>3. \A p \in Positions : \/ Seen(job'[p].status) = Seen(job[p].status)
                             \/ /\ Seen(job[p].status) = "WAITING"
                                /\ Seen(job'[p].status) \in {"SUCCEEDED", "ENDED"}
    <3> HIDE DEF swept
    <3>1. QED
      BY <2>1, <2>2 DEF Claimable, Expired, Seen
  <2>4. QED
    BY <1>1, <2>3, Translated
<1>3. CASE Finish(w)
  <2>1. worker[w].p \in Positions /\ worker[w].result \in {"SUCCEEDED", "FAILED", "CANCELLED"}
    BY <1>3 DEF Finish, IInv, Busy, TranslationTypeOK
  <2>2. job[worker[w].p] \in Jobs
    BY <2>1, Tables DEF IInv
  <2>3. \A p \in Positions : \/ job'[p] = job[p]
                             \/ /\ job[p].status = "RUNNING"
                                /\ job'[p].status \in {"SUCCEEDED", "FAILED", "CANCELLED"}
    BY <1>1, <1>3, <2>1, <2>2 DEF Finish, Current, Jobs
  <2>4. \A p \in Positions : \/ Seen(job'[p].status) = Seen(job[p].status)
                             \/ /\ Seen(job[p].status) = "WAITING"
                                /\ Seen(job'[p].status) \in {"SUCCEEDED", "ENDED"}
    BY <2>3 DEF Seen
  <2>5. QED
    BY <1>1, <2>4, Translated
<1>4. CASE Lock(w) \/ Answer(w) \/ Crash(w) \/ LoseLock(w)
  <2>1. job' = job
    BY <1>4 DEF Lock, Answer, Crash, LoseLock
  <2>2. QED
    BY <1>1, <2>1, Translated
<1>5. QED
  BY <1>2, <1>3, <1>4 DEF WorkerStep

LEMMA LeaseEndsShown ==
    ASSUME IInv, IInv', NEW p \in Positions, LeaseEnds(p)
    PROVE  Log!Translate \/ Conversation' = Conversation
<1>1. UNCHANGED message /\ DOMAIN job = Positions /\ job[p] \in Jobs
  BY Tables DEF IInv, LeaseEnds
<1>2. \A q \in Positions : job'[q].status = job[q].status
  BY <1>1 DEF LeaseEnds, Jobs
<1>3. QED
  BY <1>1, <1>2, Translated

LEMMA StepShown == IInv /\ IInv' /\ [TranslationNext]_translation => [Log!LogNext]_Conversation
<1> SUFFICES ASSUME IInv, IInv', [TranslationNext]_translation
             PROVE  Log!LogNext \/ Conversation' = Conversation
  OBVIOUS
<1>1. ASSUME NEW w \in Workers, WorkerStep(w) \/ Crash(w) \/ LoseLock(w)
      PROVE  Log!LogNext \/ Conversation' = Conversation
  BY <1>1, WorkerShown DEF Log!LogNext
<1>2. ASSUME NEW p \in Positions,
             Retry(p) \/ Request(p) \/ Skip(p) \/ Confirm(p) \/ LeaseEnds(p)
      PROVE  Log!LogNext \/ Conversation' = Conversation
  BY <1>2, StaffShown, LeaseEndsShown DEF Log!LogNext
<1>3. CASE Write
  BY <1>3, WriteShown DEF Log!LogNext
<1>4. CASE UNCHANGED translation
  <2>1. Positions' = Positions /\ \A p \in Positions : Entry(message[p], job[p])' = Entry(message[p], job[p])
    BY <1>4 DEF translation, Positions, Entry
  <2>2. QED
    BY <2>1, Unseen DEF IInv
<1>5. QED
  BY <1>1, <1>2, <1>3, <1>4 DEF TranslationNext

\* For any number of workers and messages, whatever workers, leases, locks and staff do,
\* readers see a conversation that moves as TranslatedLog allows.
THEOREM LogImplemented == TranslationSpec => ImplementsLog
<1>1. TranslationInit => Log!LogInit
  <2> SUFFICES ASSUME TranslationInit PROVE Conversation = << >>
    BY DEF Log!LogInit
  <2>1. Conversation \in Seq(Log!Entries) /\ Len(Conversation) = 0
    BY InitSafe, Shown DEF TranslationInit, IInv, Faithful
  <2>2. QED
    BY <2>1
<1>2. TranslationSpec => []IInv
  BY InitSafe, NextSafe, PTL DEF TranslationSpec
<1>3. QED
  BY <1>1, <1>2, StepShown, PTL DEF TranslationSpec, ImplementsLog, Log!LogSpec
=============================================================================
