----------------------------- MODULE AiFallback -----------------------------
(***************************************************************************)
(* The conversation log and the automatic answers to it:                   *)
(* postgres-conversation-message-repository.ts, postgres-conversation-ai-  *)
(* routing-repository.ts, process-conversation-ai-fallback-jobs.ts and the *)
(* save of postgres-ai-operations-policy-repository.ts.                    *)
(*                                                                         *)
(* A customer's message may leave a response job behind.  A worker leases  *)
(* due jobs, lets a language model answer and appends the answer if nobody *)
(* got in between: no newer message, no takeover, no disabled policy.      *)
(*                                                                         *)
(* A transaction that another one can come between is split at its row     *)
(* locks: the conversation (exclusive), the policy (shared by appends and  *)
(* answers, exclusive for its save), the job.  What it writes becomes      *)
(* visible in its last step.                                               *)
(*                                                                         *)
(* Time is abstract: a job becomes due and its lease runs out at any       *)
(* moment, and a prepared job may be too old.  Only the creation times     *)
(* that requests carry are numbers: the database compares those of         *)
(* different requests.                                                     *)
(***************************************************************************)
EXTENDS Integers, Sequences, FiniteSets, Functions

CONSTANTS
    Conversations,
    Clients,     \* requests of customers and staff in progress at one time
    Workers,     \* fallback worker processes
    MaxClaims,   \* maximumClaims
    BatchSize,   \* jobs one claim takes
    MaxHuman,    \* bound: messages of customers and staff in a conversation
    MaxClock     \* bound: different creation times

ASSUME ConstantsAssumption ==
    /\ {MaxClaims, BatchSize} \subseteq Nat \ {0}
    /\ {MaxHuman, MaxClock} \subseteq Nat

VARIABLES
    log,      \* conversation_messages: a sequence per conversation
    job,      \* conversation_ai_response_jobs, by the position of the trigger
    control,  \* conversation_ai_controls
    policy,   \* ai_operation_policy: its mode
    open,     \* the hour and the emergency switch allow automatic answers
    saving,   \* the mode a policy save is about to commit
    request,  \* what each client is doing
    worker,   \* the phase of each worker and the claims it has left
    clock     \* the creation time a request gets now

vars == <<log, job, control, policy, open, saving, request, worker, clock>>
-----------------------------------------------------------------------------
Controls == {"AUTO", "HUMAN"}         \* HUMAN: PAUSED or HUMAN_TAKEOVER
Modes    == {"DISABLED", "ENABLED"}   \* ENABLED: FALLBACK or SCHEDULED
Active   == {"PENDING", "RUNNING"}
Final    == {"SUCCEEDED", "CANCELLED", "SUPERSEDED", "FAILED"}
Plans    == {"none", "always", "continuation"}

Positions == 1..2 * MaxHuman          \* an answer to each

\* A message; an answer carries the position it answers (its identity is
\* derived from the job's).
Messages == [sender : {"CUSTOMER", "INTERNAL_USER", "AI_AGENT"}, answers : {0} \cup Positions]

\* The lease token is new with every claim, as is the number of attempts.
Claims == [conversation : Conversations, trigger : Positions, token : 1..MaxClaims]

Jobs == [status : Active \cup Final \cup {"NONE"}, attempts : 0..MaxClaims,
         due : BOOLEAN, leased : BOOLEAN, created : 0..MaxClock]

NoRequest == [kind |-> "none"]
Requests ==
    [kind : {"customer"}, conversation : Conversations, created : 0..MaxClock,
     plan : Plans, stage : {"created", "locked", "shared"},
     mode : Modes \cup {"ABSENT"}]
    \cup [kind : {"staff"}, conversation : Conversations, created : 0..MaxClock]
    \cup [kind : {"control"}, conversation : Conversations, created : 0..MaxClock,
          state : Controls]

Phases == {"idle", "check", "cancel", "prepare", "generate", "finalize", "shared",
           "judged", "cleared", "fail"}

TypeOK ==
    /\ log \in [Conversations -> Seq(Messages)]
    /\ job \in [Conversations -> [Positions -> Jobs]]
    /\ control \in [Conversations -> Controls]
    /\ policy \in Modes \cup {"ABSENT"}
    /\ open \in BOOLEAN
    /\ saving \in Modes \cup {"none"}
    /\ request \in [Clients -> Requests \cup {NoRequest}]
    /\ worker \in [Workers -> [phase : Phases, batch : Seq(Claims)]]
    /\ clock \in 0..MaxClock
-----------------------------------------------------------------------------
NoJob == [status |-> "NONE", attempts |-> 0, due |-> FALSE, leased |-> FALSE, created |-> 0]

Ended(j, status) == [NoJob EXCEPT !.status = status, !.attempts = j.attempts]

IsActive(j) == j.status \in Active

Init ==
    /\ log = [c \in Conversations |-> <<>>]
    /\ job = [c \in Conversations |-> [p \in Positions |-> NoJob]]
    /\ control = [c \in Conversations |-> "AUTO"]
    /\ policy \in {"ABSENT", "ENABLED"}
    /\ open \in BOOLEAN
    /\ saving = "none"
    /\ request = [cl \in Clients |-> NoRequest]
    /\ worker = [w \in Workers |-> [phase |-> "idle", batch |-> <<>>]]
    /\ clock = 0

Allowed == policy = "ENABLED" /\ open
-----------------------------------------------------------------------------
(* Row locks.                                                              *)

Current(w) == Head(worker[w].batch)

\* finalize has the conversation and the job.
Locks(w, c) == worker[w].phase \in {"judged", "cleared"} /\ Current(w).conversation = c

\* Mutant: finalize does not lock the conversation.
ConversationFreeOfAppends(c) ==
    \A cl \in Clients :
        request[cl].kind = "customer" /\ request[cl].conversation = c
            => request[cl].stage = "created"

\* The conversation is locked by a customer's append or an answer in progress.
ConversationFree(c) ==
    /\ \A cl \in Clients :
          request[cl].kind = "customer" /\ request[cl].conversation = c
             => request[cl].stage = "created"
    /\ \A w \in Workers : ~ Locks(w, c)

\* Mutant: an append ends the older jobs before it reads the policy.
JobFreeOfAppends(c, p) ==
    /\ \A w \in Workers : Locks(w, c) => Current(w).trigger # p
    /\ ConversationFreeOfAppends(c)

JobFree(c, p) == \A w \in Workers : Locks(w, c) => Current(w).trigger # p

\* Mutant: appends read the policy without a lock.
PolicySharedByAnswers ==
    /\ policy # "ABSENT"
    /\ \E w \in Workers : worker[w].phase \in {"shared", "judged", "cleared"}

\* Before the first save there is no policy row to lock.
PolicyShared ==
    /\ policy # "ABSENT"
    /\ \/ \E cl \in Clients : /\ request[cl].kind = "customer"
                              /\ request[cl].stage = "shared"
                              /\ request[cl].mode # "ABSENT"
       \/ \E w \in Workers : worker[w].phase \in {"shared", "judged", "cleared"}

PolicyExclusive == policy # "ABSENT" /\ saving # "none"
-----------------------------------------------------------------------------
(* Customers and staff.                                                    *)

\* Messages of customers and staff, those on their way included.
HumanMessages(c) ==
    Cardinality({p \in DOMAIN log[c] : log[c][p].sender # "AI_AGENT"})
    + Cardinality({cl \in Clients : /\ request[cl].kind \in {"customer", "staff"}
                                    /\ request[cl].conversation = c})

\* A request gets its creation time, and a customer's its plan, before its
\* transaction begins.
Submit(cl, c) ==
    /\ request[cl] = NoRequest
    /\ \/ /\ HumanMessages(c) < MaxHuman
          /\ \/ \E plan \in Plans :
                   request' = [request EXCEPT ![cl] =
                      [kind |-> "customer", conversation |-> c, created |-> clock,
                       plan |-> plan, stage |-> "created", mode |-> "ABSENT"]]
             \/ request' = [request EXCEPT ![cl] =
                   [kind |-> "staff", conversation |-> c, created |-> clock]]
       \/ \E state \in Controls :
             request' = [request EXCEPT ![cl] =
                [kind |-> "control", conversation |-> c, created |-> clock, state |-> state]]
    /\ UNCHANGED <<log, job, control, policy, open, saving, worker, clock>>

\* The database refuses a job whose updated_at or terminal_at precedes its
\* created_at; the writer's creation time becomes both.
Refused(c, created) ==
    \E p \in Positions : IsActive(job[c][p]) /\ job[c][p].created > created

\* Mutant: only waiting jobs are ended, not the one a worker has.
EndWaiting(c, status) ==
    [p \in Positions |-> IF job[c][p].status = "PENDING" THEN Ended(job[c][p], status)
                         ELSE job[c][p]]

\* The jobs of a conversation after its active ones have ended.
EndActive(c, status) ==
    [p \in Positions |-> IF IsActive(job[c][p]) THEN Ended(job[c][p], status)
                         ELSE job[c][p]]

Done(cl) == request' = [request EXCEPT ![cl] = NoRequest]

LockConversation(cl) ==
    /\ request[cl].kind = "customer"
    /\ request[cl].stage = "created"
    /\ ConversationFree(request[cl].conversation)
    /\ request' = [request EXCEPT ![cl].stage = "locked"]
    /\ UNCHANGED <<log, job, control, policy, open, saving, worker, clock>>

\* Only an append with a plan reads, and locks, the policy.
SharePolicy(cl) ==
    /\ request[cl].kind = "customer"
    /\ request[cl].stage = "locked"
    /\ request[cl].plan # "none"
    /\ ~ PolicyExclusive
    /\ request' = [request EXCEPT ![cl].stage = "shared", ![cl].mode = policy]
    /\ UNCHANGED <<log, job, control, policy, open, saving, worker, clock>>

\* The latest responder is the assistant, with an answer that succeeded.
Continues(c) ==
    \E p \in DOMAIN log[c] :
        /\ log[c][p].sender = "AI_AGENT"
        /\ \A q \in DOMAIN log[c] : q > p => log[c][q].sender = "CUSTOMER"
        /\ job[c][log[c][p].answers].status = "SUCCEEDED"

Wanted(cl, c) ==
    /\ \/ request[cl].plan = "always"
       \/ request[cl].plan = "continuation" /\ Continues(c)
    /\ request[cl].mode = "ENABLED"
    /\ control[c] = "AUTO"

\* A customer's message: older jobs are superseded, its own job is added.
WriteCustomer(cl) ==
    /\ request[cl].kind = "customer"
    /\ request[cl].stage = IF request[cl].plan = "none" THEN "locked" ELSE "shared"
    /\ LET c == request[cl].conversation
           p == Len(log[c]) + 1
           NewJob == [NoJob EXCEPT !.status = "PENDING", !.created = request[cl].created]
       IN  IF Refused(c, request[cl].created)
           THEN UNCHANGED <<log, job>>
           ELSE /\ log' = [log EXCEPT ![c] =
                             Append(log[c], [sender |-> "CUSTOMER", answers |-> 0])]
                /\ job' = [job EXCEPT ![c] =
                             IF Wanted(cl, c) THEN [EndActive(c, "SUPERSEDED") EXCEPT ![p] = NewJob]
                             ELSE EndActive(c, "SUPERSEDED")]
    /\ Done(cl)
    /\ UNCHANGED <<control, policy, open, saving, worker, clock>>

\* A reply of staff, from the panel or from Telegram.
WriteStaff(cl) ==
    /\ request[cl].kind = "staff"
    /\ LET c == request[cl].conversation
       IN  /\ ConversationFree(c)
           /\ IF Refused(c, request[cl].created)
              THEN UNCHANGED <<log, job>>
              ELSE /\ log' = [log EXCEPT ![c] =
                                Append(log[c], [sender |-> "INTERNAL_USER", answers |-> 0])]
                   /\ job' = [job EXCEPT ![c] = EndActive(c, "CANCELLED")]
    /\ Done(cl)
    /\ UNCHANGED <<control, policy, open, saving, worker, clock>>

\* Staff pause, take over or resume; a request with an old version changes nothing.
ChangeControl(cl) ==
    /\ request[cl].kind = "control"
    /\ LET c == request[cl].conversation
           state == request[cl].state
       IN  /\ ConversationFree(c)
           /\ \/ UNCHANGED <<control, job>>      \* version conflict
              \/ /\ state = "AUTO"
                 /\ control' = [control EXCEPT ![c] = state]
                 /\ UNCHANGED job
              \/ /\ state # "AUTO" /\ state # control[c]
                 /\ ~ Refused(c, request[cl].created)
                 /\ control' = [control EXCEPT ![c] = state]
                 /\ job' = [job EXCEPT ![c] = EndActive(c, "CANCELLED")]
    /\ Done(cl)
    /\ UNCHANGED <<log, policy, open, saving, worker, clock>>

\* A policy save takes the row, and commits the mode with what it cancels.
BeginSave ==
    /\ saving = "none"
    /\ ~ PolicyShared
    /\ saving' \in Modes
    /\ UNCHANGED <<log, job, control, policy, open, request, worker, clock>>

CommitSave ==
    /\ saving # "none"
    /\ saving = "DISABLED" => \A c \in Conversations, p \in Positions : JobFree(c, p)
    /\ policy' = saving
    /\ saving' = "none"
    /\ job' = IF saving = "DISABLED"
              THEN [c \in Conversations |-> EndActive(c, "CANCELLED")]
              ELSE job
    /\ UNCHANGED <<log, control, open, request, worker, clock>>
-----------------------------------------------------------------------------
(* The worker.                                                             *)

Phase(w, phase) == worker[w].phase = phase

Goto(w, phase) == worker' = [worker EXCEPT ![w].phase = phase]

\* The next claim of the batch, if there is one.
Advance(w) ==
    worker' = [worker EXCEPT ![w] =
        [phase |-> IF Len(worker[w].batch) = 1 THEN "idle" ELSE "check",
         batch |-> Tail(worker[w].batch)]]

At(c, p) == [conversation |-> c, trigger |-> p]
Of(claim) == job[claim.conversation][claim.trigger]

\* Mutant: every RUNNING job is recovered.
ExpiredAlways(c, p) == job[c][p].status = "RUNNING"

\* Mutant: one claim too many.
ExhaustedLate(c, p) == job[c][p].attempts > MaxClaims

Expired(c, p)   == job[c][p].status = "RUNNING" /\ ~ job[c][p].leased
Exhausted(c, p) == job[c][p].attempts >= MaxClaims

\* PENDING and due, or just recovered from a lease that ran out.
Claimable ==
    {k \in [conversation : Conversations, trigger : Positions] :
        LET j == Of(k) IN
        \/ j.status = "PENDING" /\ j.due
        \/ /\ Expired(k.conversation, k.trigger)
           /\ ~ Exhausted(k.conversation, k.trigger)}

Lost == {k \in [conversation : Conversations, trigger : Positions] :
            /\ Expired(k.conversation, k.trigger)
            /\ Exhausted(k.conversation, k.trigger)}

\* The claim of a job, and the jobs after claimDue has leased those in taken.
ClaimOf(k) == [conversation |-> k.conversation, trigger |-> k.trigger,
               token |-> Of(k).attempts + 1]

Leased(taken) ==
    [c \in Conversations |-> [p \in Positions |->
        LET j == job[c][p] IN
        IF At(c, p) \in taken
        THEN [j EXCEPT !.status = "RUNNING", !.attempts = j.attempts + 1, !.leased = TRUE]
        ELSE IF At(c, p) \in Lost THEN Ended(j, "FAILED")
        ELSE IF Expired(c, p) THEN [j EXCEPT !.status = "PENDING"]
        ELSE j]]

\* claimDue: fail or recover the jobs whose lease ran out, then lease up to
\* BatchSize due ones; they are worked on one after the other.
ClaimDue(w) ==
    /\ Phase(w, "idle")
    /\ Claimable \cup Lost # {}
    /\ \A c \in Conversations, p \in Positions : Expired(c, p) => JobFree(c, p)
    /\ \E n \in 0..BatchSize : \E taken \in [1..n -> Claimable] :
         /\ IsInjective(taken)
         /\ n < BatchSize => Range(taken) = Claimable
         /\ worker' = [worker EXCEPT ![w] =
              [phase |-> IF n = 0 THEN "idle" ELSE "check",
               batch |-> [i \in 1..n |-> ClaimOf(taken[i])]]]
         /\ job' = Leased(Range(taken))
    /\ UNCHANGED <<log, control, policy, open, saving, request, clock>>

\* Mutant: the update names the job only.
HoldsById(claim) == Of(claim).status # "NONE"

\* The update that ends a claimed job names its lease token.
Holds(claim) == Of(claim).status = "RUNNING" /\ Of(claim).attempts = claim.token

End(claim, status) ==
    job' = IF Holds(claim)
           THEN [job EXCEPT ![claim.conversation][claim.trigger] =
                    Ended(job[claim.conversation][claim.trigger], status)]
           ELSE job

\* Operations are asked before anything else.  A policy that cannot be read
\* allows nothing.
Check(w) ==
    /\ Phase(w, "check")
    /\ \/ Allowed /\ Goto(w, "prepare")
       \/ Goto(w, "cancel")
    /\ UNCHANGED <<log, job, control, policy, open, saving, request, clock>>

Cancel(w) ==
    /\ Phase(w, "cancel")
    /\ JobFree(Current(w).conversation, Current(w).trigger)
    /\ End(Current(w), "CANCELLED")
    /\ Advance(w)
    /\ UNCHANGED <<log, control, policy, open, saving, request, clock>>

Newer(c, p, sender) == \E q \in DOMAIN log[c] : q > p /\ log[c][q].sender = sender

\* blockingState: the status that ends a job whose conversation moved on, if any.
Blocking(c, p) ==
    IF control[c] # "AUTO" THEN {"CANCELLED"}
    ELSE IF Newer(c, p, "CUSTOMER") THEN {"SUPERSEDED"}
    ELSE IF Newer(c, p, "INTERNAL_USER") THEN {"CANCELLED"}
    ELSE {}

\* What prepare and finalize make of a claim, with the conversation and the job
\* locked.  The worker read its clock before it waited for the locks: that the
\* lease has run out may go unnoticed.
Judgement(w, tooOld, eligible) ==
    LET claim == Current(w)
        c == claim.conversation
        p == claim.trigger
    IN  /\ ConversationFree(c)
        /\ \/ /\ ~ (Holds(claim) /\ Of(claim).leased)      \* stale lease
              /\ Advance(w)
              /\ UNCHANGED job
           \/ /\ Holds(claim)
              /\ \E status \in Blocking(c, p) \cup tooOld : End(claim, status)
              /\ Advance(w)
           \/ /\ Holds(claim)
              /\ Blocking(c, p) = {}
              /\ Goto(w, eligible)
              /\ UNCHANGED job

Prepare(w) ==
    /\ Phase(w, "prepare")
    /\ \E tooOld \in {{}, {"CANCELLED"}} : Judgement(w, tooOld, "generate")
    /\ UNCHANGED <<log, control, policy, open, saving, request, clock>>

\* The agent answers or gives up.
Generate(w) ==
    /\ Phase(w, "generate")
    /\ Goto(w, "finalize") \/ Goto(w, "fail")
    /\ UNCHANGED <<log, job, control, policy, open, saving, request, clock>>

\* finalize, first lock: the policy.
Share(w) ==
    /\ Phase(w, "finalize")
    /\ ~ PolicyExclusive
    /\ Goto(w, "shared")
    /\ UNCHANGED <<log, job, control, policy, open, saving, request, clock>>

\* The conversation and the job.
Judge(w) ==
    /\ Phase(w, "shared")
    /\ Judgement(w, {}, "judged")
    /\ UNCHANGED <<log, control, policy, open, saving, request, clock>>

\* Operations are asked again, on another connection.
AskAgain(w) ==
    /\ Phase(w, "judged")
    /\ \/ /\ Allowed
          /\ Goto(w, "cleared")
          /\ UNCHANGED job
       \/ End(Current(w), "CANCELLED") /\ Advance(w)
    /\ UNCHANGED <<log, control, policy, open, saving, request, clock>>

Answered(c, p) == \E q \in DOMAIN log[c] : log[c][q].answers = p

\* The answer and the job's end are written; without the job nothing is.
Answer(w) ==
    /\ Phase(w, "cleared")
    /\ LET claim == Current(w)
           c == claim.conversation
           p == claim.trigger
       IN  /\ Holds(claim)
           /\ log' = IF Answered(c, p) THEN log
                     ELSE [log EXCEPT ![c] =
                             Append(log[c], [sender |-> "AI_AGENT", answers |-> p])]
           /\ End(claim, "SUCCEEDED")
    /\ Advance(w)
    /\ UNCHANGED <<control, policy, open, saving, request, clock>>

Fail(w) ==
    /\ Phase(w, "fail")
    /\ JobFree(Current(w).conversation, Current(w).trigger)
    /\ End(Current(w), "FAILED")
    /\ Advance(w)
    /\ UNCHANGED <<log, control, policy, open, saving, request, clock>>

\* A database call of finalize throws; its transaction is rolled back.
FinalizeThrows(w) ==
    /\ worker[w].phase \in {"finalize", "shared", "judged", "cleared"}
    /\ Goto(w, "fail")
    /\ UNCHANGED <<log, job, control, policy, open, saving, request, clock>>

\* The process dies, or a call outside the try block throws: the batch is dropped.
Crash(w) ==
    /\ worker[w].phase # "idle"
    /\ worker' = [worker EXCEPT ![w] = [phase |-> "idle", batch |-> <<>>]]
    /\ UNCHANGED <<log, job, control, policy, open, saving, request, clock>>
-----------------------------------------------------------------------------
(* Time.                                                                   *)

BecomesDue(c, p) ==
    /\ job[c][p].status = "PENDING" /\ ~ job[c][p].due
    /\ job' = [job EXCEPT ![c][p].due = TRUE]
    /\ UNCHANGED <<log, control, policy, open, saving, request, worker, clock>>

LeaseEnds(c, p) ==
    /\ job[c][p].leased
    /\ job' = [job EXCEPT ![c][p].leased = FALSE]
    /\ UNCHANGED <<log, control, policy, open, saving, request, worker, clock>>

Hour ==
    /\ open' = ~ open
    /\ UNCHANGED <<log, job, control, policy, saving, request, worker, clock>>

Tick ==
    /\ clock < MaxClock
    /\ clock' = clock + 1
    /\ UNCHANGED <<log, job, control, policy, open, saving, request, worker>>
-----------------------------------------------------------------------------
ClientStep(cl) ==
    \/ LockConversation(cl) \/ SharePolicy(cl)
    \/ WriteCustomer(cl) \/ WriteStaff(cl) \/ ChangeControl(cl)

WorkerStep(w) ==
    \/ ClaimDue(w) \/ Check(w) \/ Cancel(w) \/ Prepare(w) \/ Generate(w)
    \/ Share(w) \/ Judge(w) \/ AskAgain(w) \/ Answer(w) \/ Fail(w)

Next ==
    \/ \E cl \in Clients : ClientStep(cl) \/ \E c \in Conversations : Submit(cl, c)
    \/ \E w \in Workers : WorkerStep(w) \/ FinalizeThrows(w) \/ Crash(w)
    \/ \E c \in Conversations, p \in Positions :
          BecomesDue(c, p) \/ LeaseEnds(c, p)
    \/ BeginSave \/ CommitSave \/ Hour \/ Tick

Spec == Init /\ [][Next]_vars

\* Row locks are granted in the order of arrival, so a step that waits for one
\* is taken although others keep taking the lock: strong fairness.  Transactions
\* in progress go on, and time passes.  No worker is assumed to stay alive.
Fairness ==
    /\ \A cl \in Clients : SF_vars(ClientStep(cl))
    /\ \A w \in Workers : SF_vars(WorkerStep(w))
    /\ WF_vars(CommitSave)
    /\ \A c \in Conversations, p \in Positions :
          WF_vars(BecomesDue(c, p)) /\ WF_vars(LeaseEnds(c, p))

FairSpec == Spec /\ Fairness
-----------------------------------------------------------------------------
(* Properties.                                                             *)

\* A job that may still answer is wanted: automatic answers are enabled, nobody
\* has taken the conversation over, and no customer or staff message followed
\* its trigger.  So at most one job per conversation is active, and neither
\* resuming a conversation nor enabling the policy revives an older one.
ActiveJobsAreWanted ==
    \A c \in Conversations, p \in Positions :
        IsActive(job[c][p]) =>
            /\ policy = "ENABLED"
            /\ Blocking(c, p) = {}
            /\ p \in DOMAIN log[c] /\ log[c][p].sender = "CUSTOMER"

\* A job is SUCCEEDED exactly when the log holds its answer, once, right behind
\* the message it answers: whatever crashed, ran twice or came late.
AnswersAreSingle ==
    \A c \in Conversations :
        /\ \A p \in Positions :
              job[c][p].status = "SUCCEEDED" <=>
                 p + 1 \in DOMAIN log[c] /\ log[c][p + 1].answers = p
        /\ \A q \in DOMAIN log[c] : log[c][q].answers \in {0, q - 1}

\* The life of a job, as docs/tasks/0034-ai-human-fallback-routing.md tells it:
\* final states are final, only a lease that ran out takes a claim back, and a
\* claim that was taken back is never the one that ends the job.
LegalTransitions ==
    [][\A c \in Conversations, p \in Positions :
         LET j == job[c][p]
             k == job'[c][p]
         IN  /\ j.status \in Final => k.status = j.status
             /\ k.status = "PENDING" /\ j.status # "PENDING" =>
                   j.status = "NONE" \/ (j.status = "RUNNING" /\ ~ j.leased)
             /\ k.status \in {"SUCCEEDED", "FAILED"} /\ j.status # k.status =>
                   /\ j.status = "RUNNING"
                   /\ \/ ~ j.leased /\ j.attempts = MaxClaims
                      \/ \E w \in Workers :
                            /\ worker[w].phase \in {"cleared", "fail"}
                            /\ Current(w) = [conversation |-> c, trigger |-> p,
                                             token |-> j.attempts]]_vars

\* Who wrote each message, and where an answer has been cleared.
Senders == [c \in Conversations |-> [i \in DOMAIN log[c] |-> log[c][i].sender]]

Cleared == [c \in Conversations |->
               \E w \in Workers : Phase(w, "cleared") /\ Current(w).conversation = c]

Promise == INSTANCE HumansFirst
    WITH senders <- Senders, enabled <- policy = "ENABLED", cleared <- Cleared

\* An answer goes out only while what cleared it still holds: it answers the
\* newest message, nobody took the conversation over and the policy is enabled,
\* whatever customers, staff and other workers did while the model was thinking.
PutsHumansFirst == Promise!Spec

\* Every job ends and every request is answered: no lock is waited for in vain,
\* and crashes only use up the claims of a job.
EverythingEnds ==
    /\ \A c \in Conversations, p \in Positions :
          IsActive(job[c][p]) ~> ~ IsActive(job[c][p])
    /\ \A cl \in Clients : request[cl] # NoRequest ~> request[cl] = NoRequest

\* docs/tasks/0034-ai-human-fallback-routing.md:25 "Whichever Conversation
\* transaction obtains the lock first defines the race outcome", and :23 "A new
\* customer message supersedes older PENDING or RUNNING jobs": a message that
\* gets the lock is stored, also behind one that was created after it.
LockedMessagesAreStored ==
    [][\A cl \in Clients :
         request[cl].kind \in {"customer", "staff"} /\ request'[cl] = NoRequest =>
            Len(log'[request[cl].conversation]) > Len(log[request[cl].conversation])]_vars
=============================================================================
