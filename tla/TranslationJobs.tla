-------------------------- MODULE TranslationJobs --------------------------
(***************************************************************************)
(* The translation of a conversation: each message may have one job, which *)
(* any number of worker processes claim with a lease, execute under an     *)
(* advisory lock and finish with the token of their claim.  Staff retries, *)
(* requests and skips translations and confirms languages meanwhile.       *)
(***************************************************************************)
EXTENDS Naturals, Sequences, SequencesExt

CONSTANTS Kinds, MaxMessages, Workers, MaxAttempts

VARIABLES
    message,   \* conversation_messages with their conversation_message_languages
    job,       \* conversation_translation_jobs with their translations, by position
    queue,     \* the positions that have a job, oldest job first
    worker     \* what each worker process is doing

translation == <<message, job, queue, worker>>

Senders  == {"CUSTOMER", "INTERNAL_USER", "AI_AGENT", "SYSTEM"}
Langs    == {"unknown", "same", "other"}
Statuses == {"NONE", "PENDING", "RUNNING", "SUCCEEDED", "FAILED", "CANCELLED"}
Ends     == {"SUCCEEDED", "FAILED", "CANCELLED"}
Outbound == {"INTERNAL_USER", "AI_AGENT", "SYSTEM"}
Positions == DOMAIN message

ASSUME JobsAssumption ==
    /\ Kinds \subseteq [sender : Senders, lang : Langs] /\ MaxMessages \in Nat
    /\ MaxAttempts \in Nat \ {0} /\ "none" \notin Workers

\* holder names the worker whose claim wrote the row's token: a worker knows only
\* the token of the claim it is busy with.  over: leased_until has passed.
NoJob == [status |-> "NONE", attempts |-> 0, holder |-> "none", over |-> FALSE]
Fresh == [NoJob EXCEPT !.status = "PENDING"]
Idle  == [at |-> "idle", p |-> 0, result |-> "NONE", locked |-> FALSE]

TranslationTypeOK ==
    /\ message \in Seq([sender : Senders, lang : Langs, skipped : BOOLEAN])
    /\ job \in Seq([status : Statuses, attempts : 0..MaxAttempts, holder : Workers \cup {"none"}, over : BOOLEAN])
    /\ Len(job) = Len(message) /\ Len(message) <= MaxMessages
    /\ queue \in Seq(Positions) /\ IsInjective(queue)
    /\ ToSet(queue) = {p \in Positions : job[p].status # "NONE"}
    /\ worker \in [Workers -> [at : {"idle", "lock", "work", "finish"}, p : Nat,
                               result : {"NONE", "SUCCEEDED", "FAILED", "CANCELLED"}, locked : BOOLEAN]]

TranslationInit ==
    /\ message = << >> /\ job = << >> /\ queue = << >>
    /\ worker = [w \in Workers |-> Idle]

Safe(p) == /\ message[p].sender # "SYSTEM"
           /\ \/ message[p].lang = "same"
              \/ message[p].lang = "other" /\ job[p].status = "SUCCEEDED"

-----------------------------------------------------------------------------
\* Customers, staff and the assistant.

\* Whether a job comes unasked: for an answer of the assistant always, for customers
\* and staff as the policy is set at the moment.  An answer's second job, into the
\* language of the staff, is left out, unasked or requested: no customer waits for it.
Automatic(sender, lang) ==
    IF lang # "other" \/ sender = "SYSTEM" THEN {FALSE}
    ELSE IF sender = "AI_AGENT" THEN {TRUE} ELSE BOOLEAN

\* The message, its language row and its job are one transaction.
Write == \E k \in Kinds : \E wanted \in Automatic(k.sender, k.lang) :
    /\ Len(message) < MaxMessages
    /\ message' = Append(message, [sender |-> k.sender, lang |-> k.lang, skipped |-> FALSE])
    /\ job'     = Append(job, IF wanted THEN Fresh ELSE NoJob)
    /\ queue'   = IF wanted THEN Append(queue, Len(message) + 1) ELSE queue
    /\ UNCHANGED worker

\* Mutant: the attempts of a retried job go on where they were.
RetryKeepsAttempts(p) ==
    /\ ~message[p].skipped /\ job[p].status \in {"FAILED", "CANCELLED"}
    /\ job' = [job EXCEPT ![p].status = "PENDING", ![p].holder = "none", ![p].over = FALSE]
    /\ UNCHANGED <<message, queue, worker>>

Retry(p) ==
    /\ ~message[p].skipped /\ job[p].status \in {"FAILED", "CANCELLED"}
    /\ job' = [job EXCEPT ![p] = Fresh]
    /\ UNCHANGED <<message, queue, worker>>

\* Mutant: a request does not look for an earlier job.
RequestAgain(p) ==
    /\ ~message[p].skipped
    /\ message[p].sender \in {"CUSTOMER", "INTERNAL_USER"} /\ message[p].lang = "other"
    /\ job' = [job EXCEPT ![p] = Fresh] /\ queue' = Append(queue, p)
    /\ UNCHANGED <<message, worker>>

Request(p) ==
    /\ ~message[p].skipped /\ job[p].status = "NONE"
    /\ message[p].sender \in {"CUSTOMER", "INTERNAL_USER"} /\ message[p].lang = "other"
    /\ job' = [job EXCEPT ![p] = Fresh] /\ queue' = Append(queue, p)
    /\ UNCHANGED <<message, worker>>

Cancelled(j) == [j EXCEPT !.status = "CANCELLED", !.holder = "none", !.over = FALSE]

Skip(p) ==
    /\ message[p].sender \in Outbound /\ ~message[p].skipped /\ ~Safe(p)
    /\ message' = [message EXCEPT ![p].skipped = TRUE]
    /\ job' = [job EXCEPT ![p] = IF @.status \in {"PENDING", "RUNNING"} THEN Cancelled(@) ELSE @]
    /\ UNCHANGED <<queue, worker>>

Confirm(p) == \E l \in {"same", "other"} : \E wanted \in Automatic(message[p].sender, l) :
    /\ message[p].sender \in {"INTERNAL_USER", "AI_AGENT"} /\ ~message[p].skipped
    /\ message[p].lang = "unknown" /\ job[p].status = "NONE"
    /\ message' = [message EXCEPT ![p].lang = l]
    /\ job'     = IF wanted THEN [job EXCEPT ![p] = Fresh] ELSE job
    /\ queue'   = IF wanted THEN Append(queue, p) ELSE queue
    /\ UNCHANGED worker

-----------------------------------------------------------------------------
\* Workers.

Expired(j)   == j.status = "RUNNING" /\ j.over
Exhausted(j) == IF Expired(j) /\ j.attempts >= MaxAttempts
                THEN [j EXCEPT !.status = "FAILED", !.holder = "none", !.over = FALSE] ELSE j
Claimable(j) == (j.status = "PENDING" \/ Expired(j)) /\ j.attempts < MaxAttempts

\* Jobs whose last lease ran out fail, then the oldest that may be claimed is.
Claim(w) ==
    LET swept == [p \in DOMAIN job |-> Exhausted(job[p])]
        Waits(i) == Claimable(swept[queue[i]]) IN
    /\ worker[w].at = "idle"
    /\ \/ /\ \A i \in DOMAIN queue : ~Waits(i)
          /\ swept # job /\ job' = swept /\ UNCHANGED worker
       \/ \E i \in DOMAIN queue :
          /\ Waits(i) /\ \A k \in 1..i-1 : ~Waits(k)
          /\ job' = [swept EXCEPT ![queue[i]] =
                        [status |-> "RUNNING", attempts |-> @.attempts + 1, holder |-> w, over |-> FALSE]]
          /\ worker' = [worker EXCEPT ![w] = [Idle EXCEPT !.at = "lock", !.p = queue[i]]]
    /\ UNCHANGED <<message, queue>>

Free(p)    == \A v \in Workers : ~(worker[v].locked /\ worker[v].p = p)
\* Mutants: the lease token, or the lease, is not compared.
CurrentOfAnyone(w) == LET j == job[worker[w].p] IN j.status = "RUNNING" /\ ~j.over
CurrentTooLate(w)  == LET j == job[worker[w].p] IN j.status = "RUNNING" /\ j.holder = w

Current(w) == LET j == job[worker[w].p] IN j.status = "RUNNING" /\ j.holder = w /\ ~j.over

\* The try of the advisory lock with the check that follows; without either, or
\* with less than five seconds left, the job stays to its lease.
Lock(w) ==
    /\ worker[w].at = "lock"
    /\ \/ /\ Free(worker[w].p) /\ Current(w)
          /\ worker' = [worker EXCEPT ![w].at = "work", ![w].locked = TRUE]
       \/ worker' = [worker EXCEPT ![w] = Idle]
    /\ UNCHANGED <<message, job, queue>>

\* A translation, a failure of the gateway, or the emergency switch.
Answer(w) == \E r \in {"SUCCEEDED", "FAILED", "CANCELLED"} :
    /\ worker[w].at = "work"
    /\ worker' = [worker EXCEPT ![w].at = "finish", ![w].result = r]
    /\ UNCHANGED <<message, job, queue>>

\* Mutant: finish does not look at the lease of the row.
FinishBlindly(w) ==
    /\ worker[w].at = "finish"
    /\ job' = [job EXCEPT ![worker[w].p] =
                  [@ EXCEPT !.status = worker[w].result, !.holder = "none", !.over = FALSE]]
    /\ worker' = [worker EXCEPT ![w] = Idle]
    /\ UNCHANGED <<message, queue>>

Finish(w) ==
    /\ worker[w].at = "finish"
    /\ job' = IF Current(w)
              THEN [job EXCEPT ![worker[w].p] =
                       [@ EXCEPT !.status = worker[w].result, !.holder = "none", !.over = FALSE]]
              ELSE job
    /\ worker' = [worker EXCEPT ![w] = Idle]
    /\ UNCHANGED <<message, queue>>

\* The process ends, or a statement fails and its iteration with it.
Crash(w) ==
    /\ worker[w].at # "idle"
    /\ worker' = [worker EXCEPT ![w] = Idle]
    /\ UNCHANGED <<message, job, queue>>

\* The connection breaks: the server frees the lock while the worker goes on.
LoseLock(w) ==
    /\ worker[w].locked
    /\ worker' = [worker EXCEPT ![w].locked = FALSE]
    /\ UNCHANGED <<message, job, queue>>

LeaseEnds(p) ==
    /\ job[p].status = "RUNNING" /\ ~job[p].over
    /\ job' = [job EXCEPT ![p].over = TRUE]
    /\ UNCHANGED <<message, queue, worker>>

WorkerStep(w) == Claim(w) \/ Lock(w) \/ Answer(w) \/ Finish(w)

TranslationNext ==
    \/ Write
    \/ \E p \in Positions : Retry(p) \/ Request(p) \/ Skip(p) \/ Confirm(p) \/ LeaseEnds(p)
    \/ \E w \in Workers : WorkerStep(w) \/ Crash(w) \/ LoseLock(w)

\* The runtime restarts workers and time passes.
TranslationFairness ==
    /\ \A w \in Workers : WF_translation(WorkerStep(w))
    /\ \A p \in 1..MaxMessages : WF_translation(p \in Positions /\ LeaseEnds(p))

TranslationSpec == TranslationInit /\ [][TranslationNext]_translation /\ TranslationFairness

-----------------------------------------------------------------------------
\* The conversation that readers see.
Seen(status) == CASE status \in {"PENDING", "RUNNING"}  -> "WAITING"
                  [] status \in {"FAILED", "CANCELLED"} -> "ENDED"
                  [] OTHER                               -> status

Conversation ==
    [p \in Positions |-> [sender |-> message[p].sender, lang |-> message[p].lang,
                          skipped |-> message[p].skipped, status |-> Seen(job[p].status)]]

Log == INSTANCE TranslatedLog WITH log <- Conversation

\* Whatever workers, leases and staff do, readers see a conversation that only
\* moves on: what was skipped never turns up as a translation, a translation once
\* stored is never lost.
ImplementsLog == Log!LogSpec

\* What a step may do to a job that may be claimed by several workers in turn.
Fenced(p) ==
    LET j == job[p]
        k == job'[p]
    IN  /\ k.status \in Ends /\ k.status # j.status =>
              \/ k.status = "CANCELLED" /\ message'[p].skipped /\ ~message[p].skipped
              \/ k.status = "FAILED" /\ j.status = "RUNNING" /\ j.over /\ j.attempts = MaxAttempts
              \/ /\ j.status = "RUNNING" /\ ~j.over /\ j.holder \in Workers
                 /\ worker[j.holder].at = "finish" /\ worker[j.holder].p = p
                 /\ worker[j.holder].result = k.status
        /\ k.status = "RUNNING" /\ k.attempts # j.attempts =>
              j.status = "PENDING" \/ (j.status = "RUNNING" /\ j.over)
        /\ j.status \in Ends => k \in {j, Fresh}

\* A result counts only for the claim it was made for: a job ends with the result
\* of the worker whose claim is the latest and whose lease has not run out, or when
\* staff skips its message or its last lease ran out.  A claim is taken over only when
\* its lease ran out, and a job that has ended changes only when staff starts it anew.
ResultsAreFenced == [][\A p \in Positions : Fenced(p)]_translation

\* Every translation that was scheduled ends, also when workers die over it, unless
\* staff has older ones done again for ever.
TranslationsEnd ==
    \/ []<><<\E p \in Positions : Retry(p)>>_translation
    \/ \A p \in 1..MaxMessages :
          (p \in Positions /\ job[p].status \in {"PENDING", "RUNNING"})
              ~> (p \in Positions /\ job[p].status \in {"SUCCEEDED", "FAILED", "CANCELLED"})
=============================================================================
