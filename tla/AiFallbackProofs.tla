-------------------------- MODULE AiFallbackProofs --------------------------
(***************************************************************************)
(* Proofs about AiFallback, for every set of conversations, requests and   *)
(* workers, every number of claims and every batch size.                   *)
(***************************************************************************)
EXTENDS AiFallback, SequenceTheorems, TLAPS

JobTable    == [Conversations -> [Positions -> Jobs]]
WorkerRows  == [phase : Phases, batch : Seq(Claims)]

\* Only an idle worker has no claim.
Busy == \A w \in Workers : worker[w].phase # "idle" => worker[w].batch # <<>>

\* A job that waits has claims left.
ClaimsLeft ==
    \A c \in Conversations, p \in Positions :
        job[c][p].status = "PENDING" => job[c][p].attempts < MaxClaims

Typed == TypeOK /\ Busy /\ ClaimsLeft

\* The policy an append has read is the one in force until it ends.
PolicyHeld ==
    /\ saving # "none" => ~ PolicyShared
    /\ \A cl \in Clients :
          request[cl].kind = "customer" /\ request[cl].stage = "shared"
             => request[cl].mode \in {policy, "ABSENT"}

\* An answer follows the customer's message it answers.
Replies ==
    \A c \in Conversations : \A q \in DOMAIN log[c] :
        /\ log[c][q].sender = "AI_AGENT" <=> log[c][q].answers # 0
        /\ log[c][q].answers # 0 =>
              /\ log[c][q].answers = q - 1
              /\ log[c][q - 1].sender = "CUSTOMER"

IInv == Typed /\ PolicyHeld /\ ActiveJobsAreWanted /\ Replies /\ AnswersAreSingle
-----------------------------------------------------------------------------
(* Operators.                                                              *)

LEMMA ConstantTypes ==
    /\ MaxClaims \in Nat /\ MaxClaims >= 1
    /\ BatchSize \in Nat /\ BatchSize >= 1
    /\ MaxHuman \in Nat /\ MaxClock \in Nat
  BY ConstantsAssumption

LEMMA NoJobType == NoJob \in Jobs
  BY ConstantTypes DEF NoJob, Jobs

\* Ending a job leaves a final state and the number of claims.
LEMMA EndedJob ==
    ASSUME NEW j \in Jobs, NEW status \in Final
    PROVE  /\ Ended(j, status) \in Jobs
           /\ Ended(j, status).status = status
           /\ Ended(j, status).attempts = j.attempts
           /\ ~ IsActive(Ended(j, status))
<1>1. NoJob \in Jobs /\ status \in Active \cup Final \cup {"NONE"} /\ j.attempts \in 0..MaxClaims
  BY NoJobType DEF Jobs
<1>2. /\ Ended(j, status) \in Jobs
      /\ Ended(j, status).status = status
      /\ Ended(j, status).attempts = j.attempts
  BY <1>1 DEF Ended, Jobs
<1> QED
  BY <1>2 DEF IsActive, Active, Final

\* What ending the active jobs of a conversation does to each job.
LEMMA EndActiveJobs ==
    ASSUME job \in JobTable, NEW c \in Conversations, NEW status \in Final
    PROVE  /\ EndActive(c, status) \in [Positions -> Jobs]
           /\ \A p \in Positions :
                 /\ IsActive(job[c][p]) => EndActive(c, status)[p].status = status
                 /\ ~ IsActive(job[c][p]) => EndActive(c, status)[p] = job[c][p]
                 /\ ~ IsActive(EndActive(c, status)[p])
<1>1. ASSUME NEW p \in Positions
      PROVE  job[c][p] \in Jobs
  BY DEF JobTable
<1> QED
  BY <1>1, EndedJob DEF EndActive

\* What ending a claimed job does to each job: nothing, or it ends the claim's.
LEMMA EndClaim ==
    ASSUME job \in JobTable, NEW claim \in Claims, NEW status \in Final, End(claim, status)
    PROVE  /\ job' \in JobTable
           /\ \A c \in Conversations, p \in Positions :
                 \/ job'[c][p] = job[c][p]
                 \/ /\ Holds(claim)
                    /\ c = claim.conversation /\ p = claim.trigger
                    /\ job'[c][p].status = status
                    /\ job'[c][p].attempts = job[c][p].attempts
           /\ Holds(claim) => job'[claim.conversation][claim.trigger].status = status
<1> DEFINE c0 == claim.conversation
           p0 == claim.trigger
<1>1. c0 \in Conversations /\ p0 \in Positions
  BY DEF Claims
<1>2. job[c0][p0] \in Jobs
  BY <1>1 DEF JobTable
<1>3. CASE Holds(claim)
  <2>1. job' = [job EXCEPT ![c0][p0] = Ended(job[c0][p0], status)]
    BY <1>3 DEF End
  <2> HIDE DEF c0, p0
  <2>2. job' \in JobTable
    BY <1>1, <1>2, <2>1, EndedJob DEF JobTable
  <2>3. job'[c0][p0] = Ended(job[c0][p0], status)
    BY <1>1, <2>1 DEF JobTable
  <2>4. \A c \in Conversations, p \in Positions :
           c # c0 \/ p # p0 => job'[c][p] = job[c][p]
    BY <1>1, <2>1 DEF JobTable
  <2> QED
    BY <1>1, <1>2, <1>3, <2>2, <2>3, <2>4, EndedJob DEF c0, p0
<1>4. CASE ~ Holds(claim)
  BY <1>4 DEF End
<1> QED
  BY <1>3, <1>4

LEMMA CurrentClaim ==
    ASSUME Typed, NEW w \in Workers, worker[w].phase # "idle"
    PROVE  /\ worker[w] \in WorkerRows
           /\ worker[w].batch \in Seq(Claims) /\ worker[w].batch # <<>>
           /\ Current(w) \in Claims
           /\ Current(w).conversation \in Conversations
           /\ Current(w).trigger \in Positions
<1>1. worker[w] \in WorkerRows
  BY DEF Typed, TypeOK, WorkerRows
<1>2. worker[w].batch \in Seq(Claims) /\ worker[w].batch # <<>>
  BY <1>1 DEF WorkerRows, Typed, Busy
<1>3. Current(w) \in Claims
  BY <1>2 DEF Current
<1> QED
  BY <1>1, <1>2, <1>3 DEF Claims

\* Going on to the next claim keeps the types of the workers.
LEMMA AdvanceType ==
    ASSUME Typed, NEW w \in Workers, worker[w].phase # "idle", Advance(w)
    PROVE  /\ worker' \in [Workers -> WorkerRows] /\ Busy'
           /\ worker'[w].phase \in {"idle", "check"}
           /\ \A v \in Workers : v # w => worker'[v] = worker[v]
<1> DEFINE b == worker[w].batch
           row == [phase |-> IF Len(b) = 1 THEN "idle" ELSE "check", batch |-> Tail(b)]
<1>1. b \in Seq(Claims) /\ b # <<>>
  BY CurrentClaim
<1>2. /\ Tail(b) \in Seq(Claims)
      /\ Len(b) # 1 => Tail(b) # <<>>
  <2>1. Tail(b) \in Seq(Claims) /\ Len(Tail(b)) = Len(b) - 1
    BY <1>1, HeadTailProperties
  <2>2. Len(b) \in Nat /\ (Tail(b) = <<>> => Len(Tail(b)) = 0)
    BY <1>1, <2>1, EmptySeq, LenProperties
  <2>3. Len(b) # 1 => Tail(b) # <<>>
    <3> DEFINE t == Len(Tail(b))
               n == Len(b)
    <3>1. n \in Nat /\ t = n - 1 /\ (n # 1 => t # 0)
      BY <2>1, <2>2
    <3> QED
      BY <2>2, <3>1
  <2> QED
    BY <2>1, <2>3
<1>3. /\ row \in WorkerRows /\ (row.phase # "idle" => row.batch # <<>>)
      /\ row.phase \in {"idle", "check"}
  BY <1>2 DEF WorkerRows, Phases
<1>4. worker' = [worker EXCEPT ![w] = row]
  BY DEF Advance
<1>5. worker \in [Workers -> WorkerRows]
  BY DEF Typed, TypeOK, WorkerRows
<1> HIDE DEF row
<1> QED
  BY <1>3, <1>4, <1>5 DEF Busy, Typed

LEMMA GotoType ==
    ASSUME Typed, NEW w \in Workers, NEW phase \in Phases,
           worker[w].phase # "idle", Goto(w, phase)
    PROVE  /\ worker' \in [Workers -> WorkerRows] /\ Busy'
           /\ worker'[w].phase = phase
           /\ \A v \in Workers : v # w => worker'[v] = worker[v]
<1>1. worker \in [Workers -> WorkerRows]
  BY DEF Typed, TypeOK, WorkerRows
<1>2. /\ worker'[w] = [worker[w] EXCEPT !.phase = phase]
      /\ worker[w].batch # <<>>
      /\ \A v \in Workers : v # w => worker'[v] = worker[v]
  BY <1>1 DEF Goto, Typed, Busy
<1>3. worker'[w].batch = worker[w].batch /\ worker'[w].phase = phase
  BY <1>1, <1>2 DEF WorkerRows
<1>4. worker' \in [Workers -> WorkerRows]
  BY <1>1 DEF Goto, WorkerRows
<1> QED
  BY <1>2, <1>3, <1>4 DEF Busy, Typed
-----------------------------------------------------------------------------
(* Effects.  Most steps only end jobs, without success.                    *)

Quiet ==
    /\ job' \in JobTable
    /\ \A c \in Conversations, p \in Positions :
          /\ IsActive(job'[c][p]) => IsActive(job[c][p])
          /\ job'[c][p].status = "SUCCEEDED" <=> job[c][p].status = "SUCCEEDED"
          /\ job'[c][p].status = "PENDING" => job'[c][p].attempts < MaxClaims

LEMMA Tables ==
    TypeOK <=> /\ log \in [Conversations -> Seq(Messages)]
               /\ job \in JobTable
               /\ control \in [Conversations -> Controls]
               /\ policy \in Modes \cup {"ABSENT"}
               /\ open \in BOOLEAN
               /\ saving \in Modes \cup {"none"}
               /\ request \in [Clients -> Requests \cup {NoRequest}]
               /\ worker \in [Workers -> WorkerRows]
               /\ clock \in 0..MaxClock
  BY DEF TypeOK, JobTable, WorkerRows

LEMMA SameJobs == ASSUME Typed, UNCHANGED job PROVE Quiet
  BY Tables DEF Typed, ClaimsLeft, Quiet

LEMMA EndQuiet ==
    ASSUME Typed, NEW claim \in Claims, NEW status \in Final \ {"SUCCEEDED"}, End(claim, status)
    PROVE  Quiet
<1>1. job \in JobTable
  BY Tables DEF Typed
<1>2. /\ job' \in JobTable
      /\ \A c \in Conversations, p \in Positions :
            \/ job'[c][p] = job[c][p]
            \/ /\ job[c][p].status = "RUNNING"
               /\ job'[c][p].status = status
  BY <1>1, EndClaim DEF Holds, Of
<1> QED
  BY <1>2 DEF Quiet, Typed, ClaimsLeft, IsActive, Active, Final

LEMMA QuietWanted ==
    ASSUME ActiveJobsAreWanted, Quiet, UNCHANGED <<log, control, policy>>
    PROVE  ActiveJobsAreWanted'
  BY DEF ActiveJobsAreWanted, Quiet, Blocking, Newer

LEMMA QuietAnswers ==
    ASSUME Replies, AnswersAreSingle, Quiet, UNCHANGED log
    PROVE  Replies' /\ AnswersAreSingle'
  BY DEF Replies, AnswersAreSingle, Quiet

LEMMA QuietClaimsLeft == Quiet => ClaimsLeft'
  BY DEF Quiet, ClaimsLeft

\* Nothing happens to the policy and its locks but that some are released.
LEMMA SamePolicy ==
    ASSUME PolicyHeld, UNCHANGED <<policy, saving, request>>,
           \A w \in Workers : worker'[w].phase \in {"shared", "judged", "cleared"}
                                 => worker[w].phase \in {"shared", "judged", "cleared"}
    PROVE  PolicyHeld'
  BY DEF PolicyHeld, PolicyShared
-----------------------------------------------------------------------------
(* Steps of a worker.                                                      *)

\* A worker's step that keeps the log and ends jobs at most.
LEMMA WorkerEffect ==
    ASSUME IInv, NEW w \in Workers, worker[w].phase # "idle", Quiet,
           UNCHANGED <<log, control, policy, open, saving, request, clock>>,
           \/ Advance(w)
           \/ \E phase \in Phases :
                 /\ Goto(w, phase)
                 /\ phase \in {"shared", "judged", "cleared"}
                       => worker[w].phase \in {"shared", "judged", "cleared"}
    PROVE  IInv'
<1>1. /\ worker' \in [Workers -> WorkerRows] /\ Busy'
      /\ worker'[w].phase \in {"shared", "judged", "cleared"}
            => worker[w].phase \in {"shared", "judged", "cleared"}
      /\ \A v \in Workers : v # w => worker'[v] = worker[v]
  BY AdvanceType, GotoType DEF IInv
<1>2. Typed'
  BY <1>1, Tables, QuietClaimsLeft DEF IInv, Typed, TypeOK, Quiet, WorkerRows, JobTable
<1>3. PolicyHeld'
  BY <1>1, SamePolicy DEF IInv
<1> QED
  BY <1>2, <1>3, QuietWanted, QuietAnswers DEF IInv

LEMMA FinalStates == {"CANCELLED", "SUPERSEDED", "FAILED"} \subseteq Final \ {"SUCCEEDED"}
  BY DEF Final

LEMMA CheckSafe == ASSUME IInv, NEW w \in Workers, Check(w) PROVE IInv'
<1>1. Quiet /\ worker[w].phase = "check"
  BY SameJobs DEF IInv, Check, Phase
<1>2. Goto(w, "prepare") \/ Goto(w, "cancel")
  BY DEF Check
<1> QED
  BY <1>1, <1>2, WorkerEffect DEF Check, Phases

LEMMA GenerateSafe == ASSUME IInv, NEW w \in Workers, Generate(w) PROVE IInv'
<1>1. Quiet /\ worker[w].phase = "generate"
  BY SameJobs DEF IInv, Generate, Phase
<1>2. Goto(w, "finalize") \/ Goto(w, "fail")
  BY DEF Generate
<1> QED
  BY <1>1, <1>2, WorkerEffect DEF Generate, Phases

LEMMA FinalizeThrowsSafe == ASSUME IInv, NEW w \in Workers, FinalizeThrows(w) PROVE IInv'
<1>1. Quiet /\ worker[w].phase # "idle"
  BY SameJobs DEF IInv, FinalizeThrows
<1> QED
  BY <1>1, WorkerEffect DEF FinalizeThrows, Phases

LEMMA CancelSafe == ASSUME IInv, NEW w \in Workers, Cancel(w) PROVE IInv'
<1>1. worker[w].phase # "idle" /\ Current(w) \in Claims
  BY CurrentClaim DEF IInv, Cancel, Phase
<1>2. Quiet
  BY <1>1, EndQuiet, FinalStates DEF IInv, Cancel
<1> QED
  BY <1>1, <1>2, WorkerEffect DEF Cancel

LEMMA FailSafe == ASSUME IInv, NEW w \in Workers, Fail(w) PROVE IInv'
<1>1. worker[w].phase # "idle" /\ Current(w) \in Claims
  BY CurrentClaim DEF IInv, Fail, Phase
<1>2. Quiet
  BY <1>1, EndQuiet, FinalStates DEF IInv, Fail
<1> QED
  BY <1>1, <1>2, WorkerEffect DEF Fail

\* prepare and the first half of finalize end a job at most.
LEMMA JudgementQuiet ==
    ASSUME IInv, NEW w \in Workers, worker[w].phase # "idle",
           NEW tooOld \in {{}, {"CANCELLED"}}, NEW eligible \in Phases,
           Judgement(w, tooOld, eligible)
    PROVE  Quiet /\ (Advance(w) \/ Goto(w, eligible))
<1>1. Current(w) \in Claims
  BY CurrentClaim DEF IInv
<1>2. CASE job' = job
  BY <1>2, SameJobs DEF IInv, Judgement
<1>3. CASE \E status \in Blocking(Current(w).conversation, Current(w).trigger) \cup tooOld :
              End(Current(w), status) /\ Advance(w)
  <2>1. Blocking(Current(w).conversation, Current(w).trigger) \cup tooOld
           \subseteq Final \ {"SUCCEEDED"}
    BY FinalStates DEF Blocking
  <2> QED
    BY <1>1, <1>3, <2>1, EndQuiet DEF IInv
<1> QED
  BY <1>2, <1>3 DEF Judgement

LEMMA PrepareSafe == ASSUME IInv, NEW w \in Workers, Prepare(w) PROVE IInv'
<1>1. worker[w].phase # "idle" /\ "generate" \in Phases
  BY DEF Prepare, Phase, Phases
<1>2. Quiet /\ (Advance(w) \/ Goto(w, "generate"))
  BY <1>1, JudgementQuiet DEF Prepare
<1> QED
  BY <1>1, <1>2, WorkerEffect DEF Prepare

LEMMA JudgeSafe == ASSUME IInv, NEW w \in Workers, Judge(w) PROVE IInv'
<1>1. worker[w].phase = "shared" /\ "judged" \in Phases
  BY DEF Judge, Phase, Phases
<1>2. Quiet /\ (Advance(w) \/ Goto(w, "judged"))
  BY <1>1, JudgementQuiet DEF Judge
<1> QED
  BY <1>1, <1>2, WorkerEffect DEF Judge

LEMMA AskAgainSafe == ASSUME IInv, NEW w \in Workers, AskAgain(w) PROVE IInv'
<1>1. worker[w].phase = "judged" /\ "cleared" \in Phases /\ Current(w) \in Claims
  BY CurrentClaim DEF IInv, AskAgain, Phase, Phases
<1>2. Quiet /\ (Advance(w) \/ Goto(w, "cleared"))
  BY <1>1, EndQuiet, SameJobs, FinalStates DEF IInv, AskAgain
<1> QED
  BY <1>1, <1>2, WorkerEffect DEF AskAgain

\* A worker takes the policy only while no save has it.
LEMMA ShareSafe == ASSUME IInv, NEW w \in Workers, Share(w) PROVE IInv'
<1> USE DEF Share
<1>1. worker[w].phase # "idle" /\ "shared" \in Phases
  BY DEF Phase, Phases
<1>2. worker' \in [Workers -> WorkerRows] /\ Busy'
  BY <1>1, GotoType DEF IInv
<1>3. Quiet
  BY SameJobs DEF IInv
<1>4. Typed'
  BY <1>2, <1>3, Tables, QuietClaimsLeft DEF IInv, Typed, TypeOK, Quiet, WorkerRows, JobTable
<1>5. PolicyHeld'
  BY DEF IInv, PolicyHeld, PolicyShared, PolicyExclusive
<1> QED
  BY <1>3, <1>4, <1>5, QuietWanted, QuietAnswers DEF IInv

LEMMA CrashSafe == ASSUME IInv, NEW w \in Workers, Crash(w) PROVE IInv'
<1> USE DEF Crash
<1>1. [phase |-> "idle", batch |-> <<>>] \in WorkerRows
  BY EmptySeq DEF WorkerRows, Phases
<1>2. /\ worker' \in [Workers -> WorkerRows] /\ Busy'
      /\ \A v \in Workers : worker'[v].phase = "idle" \/ worker'[v] = worker[v]
  BY <1>1, Tables DEF IInv, Typed, Busy
<1>3. Quiet
  BY SameJobs DEF IInv
<1>4. Typed'
  BY <1>2, <1>3, Tables, QuietClaimsLeft DEF IInv, Typed, TypeOK, Quiet, WorkerRows, JobTable
<1>5. PolicyHeld'
  BY <1>2, SamePolicy DEF IInv
<1> QED
  BY <1>3, <1>4, <1>5, QuietWanted, QuietAnswers DEF IInv

\* What claimDue makes of each job: a claim, a failure, a recovery or nothing.
LEMMA ClaimDueQuiet ==
    ASSUME IInv, NEW taken \in SUBSET Claimable, job' = Leased(taken)
    PROVE  Quiet
<1>1. \A c \in Conversations, p \in Positions :
         /\ job'[c][p] \in Jobs
         /\ IsActive(job'[c][p]) => IsActive(job[c][p])
         /\ job'[c][p].status = "SUCCEEDED" <=> job[c][p].status = "SUCCEEDED"
         /\ job'[c][p].status = "PENDING" => job'[c][p].attempts < MaxClaims
  <2> SUFFICES ASSUME NEW c \in Conversations, NEW p \in Positions
               PROVE  /\ job'[c][p] \in Jobs
                      /\ IsActive(job'[c][p]) => IsActive(job[c][p])
                      /\ job'[c][p].status = "SUCCEEDED" <=> job[c][p].status = "SUCCEEDED"
                      /\ job'[c][p].status = "PENDING" => job'[c][p].attempts < MaxClaims
    OBVIOUS
  <2> DEFINE j == job[c][p]
             k == job'[c][p]
  <2>1. /\ j \in Jobs /\ j.attempts \in 0..MaxClaims
        /\ j.status = "PENDING" => j.attempts < MaxClaims
    BY Tables DEF IInv, Typed, ClaimsLeft, JobTable, Jobs
  <2>2. MaxClaims \in Nat
    BY ConstantTypes
  <2>3. CASE At(c, p) \in taken
    <3>1. At(c, p) \in Claimable
      BY <2>3
    <3>2. IsActive(j) /\ j.attempts < MaxClaims
      BY <2>1, <2>2, <3>1 DEF Claimable, Of, At, Expired, Exhausted, IsActive, Active
    <3>3. k = [j EXCEPT !.status = "RUNNING", !.attempts = j.attempts + 1, !.leased = TRUE]
      BY <2>3 DEF Leased
    <3> HIDE DEF j, k
    <3>4. j.attempts + 1 \in 0..MaxClaims
      BY <2>1, <2>2, <3>2
    <3>5. k \in Jobs /\ k.status = "RUNNING"
      BY <2>1, <3>3, <3>4 DEF Jobs, Active
    <3> QED
      BY <3>2, <3>5 DEF j, k, IsActive, Active
  <2>4. CASE At(c, p) \notin taken /\ At(c, p) \in Lost
    <3>1. j.status = "RUNNING"
      BY <2>4 DEF Lost, At, Expired
    <3>2. k = Ended(j, "FAILED")
      BY <2>4 DEF Leased
    <3> QED
      BY <2>1, <3>1, <3>2, EndedJob DEF IsActive, Active, Final
  <2>5. CASE At(c, p) \notin taken /\ At(c, p) \notin Lost /\ Expired(c, p)
    <3>1. j.status = "RUNNING" /\ j.attempts < MaxClaims
      BY <2>1, <2>2, <2>5 DEF Lost, At, Expired, Exhausted
    <3>2. k = [j EXCEPT !.status = "PENDING"]
      BY <2>5 DEF Leased
    <3> HIDE DEF j, k
    <3>3. k \in Jobs /\ k.status = "PENDING" /\ k.attempts = j.attempts
      BY <2>1, <3>2 DEF Jobs, Active
    <3> QED
      BY <3>1, <3>3 DEF j, k, IsActive, Active
  <2>6. CASE At(c, p) \notin taken /\ At(c, p) \notin Lost /\ ~ Expired(c, p)
    BY <2>1, <2>6 DEF Leased
  <2> QED
    BY <2>3, <2>4, <2>5, <2>6
<1>2. job' \in JobTable
  BY <1>1 DEF JobTable, Leased
<1> QED
  BY <1>1, <1>2 DEF Quiet

LEMMA ClaimDueSafe == ASSUME IInv, NEW w \in Workers, ClaimDue(w) PROVE IInv'
<1>1. PICK n \in 0..BatchSize :
         \E taken \in [1..n -> Claimable] :
            /\ worker' = [worker EXCEPT ![w] =
                 [phase |-> IF n = 0 THEN "idle" ELSE "check",
                  batch |-> [i \in 1..n |-> ClaimOf(taken[i])]]]
            /\ job' = Leased(Range(taken))
  BY DEF ClaimDue
<1>2. PICK taken \in [1..n -> Claimable] :
         /\ worker' = [worker EXCEPT ![w] =
              [phase |-> IF n = 0 THEN "idle" ELSE "check",
               batch |-> [i \in 1..n |-> ClaimOf(taken[i])]]]
         /\ job' = Leased(Range(taken))
  BY <1>1
<1>quiet. Quiet
  BY <1>2, ClaimDueQuiet DEF Range
<1> DEFINE batch == [i \in 1..n |-> ClaimOf(taken[i])]
<1>3. n \in Nat /\ MaxClaims \in Nat
  BY ConstantTypes
<1>4. \A i \in 1..n : ClaimOf(taken[i]) \in Claims
  <2> SUFFICES ASSUME NEW i \in 1..n PROVE ClaimOf(taken[i]) \in Claims
    OBVIOUS
  <2>1. taken[i] \in Claimable
    OBVIOUS
  <2>2. taken[i].conversation \in Conversations /\ taken[i].trigger \in Positions
    BY <2>1 DEF Claimable
  <2>3. Of(taken[i]) \in Jobs
    BY <2>2, Tables DEF IInv, Typed, JobTable, Of
  <2>4. Of(taken[i]).attempts \in 0..MaxClaims /\ Of(taken[i]).attempts < MaxClaims
    BY <1>3, <2>1, <2>2, <2>3 DEF Claimable, Of, Expired, Exhausted, Jobs, IInv, Typed, ClaimsLeft
  <2> QED
    BY <1>3, <2>2, <2>4 DEF Claims, ClaimOf
<1>5. batch \in Seq(Claims)
  BY <1>3, <1>4
<1>6. n # 0 => batch # <<>>
  <2>1. DOMAIN batch = 1..n
    OBVIOUS
  <2>2. n # 0 => 1 \in DOMAIN batch
    BY <1>3, <2>1
  <2> HIDE DEF batch
  <2> QED
    BY <2>2
<1>7. worker' = [worker EXCEPT ![w] = [phase |-> IF n = 0 THEN "idle" ELSE "check",
                                       batch |-> batch]]
  BY <1>2
<1> HIDE DEF batch
<1>8. /\ worker' \in [Workers -> WorkerRows] /\ Busy'
      /\ worker'[w].phase \in {"idle", "check"}
      /\ \A v \in Workers : v # w => worker'[v] = worker[v]
  BY <1>5, <1>6, <1>7, Tables DEF IInv, Typed, Busy, WorkerRows, Phases
<1>9. Typed'
  BY <1>quiet, <1>8, Tables, QuietClaimsLeft
  DEF ClaimDue, IInv, Typed, TypeOK, Quiet, WorkerRows, JobTable
<1>10. PolicyHeld'
  BY <1>8, SamePolicy DEF IInv, ClaimDue
<1> QED
  BY <1>quiet, <1>9, <1>10, QuietWanted, QuietAnswers DEF IInv, ClaimDue
-----------------------------------------------------------------------------
(* Steps that write to the log.                                            *)

LEMMA Positive == \A p \in Positions : p \in Nat /\ p >= 1
  BY ConstantTypes DEF Positions

LEMMA LogTypes ==
    ASSUME TypeOK, NEW c \in Conversations
    PROVE  /\ log[c] \in Seq(Messages) /\ Len(log[c]) \in Nat
           /\ DOMAIN log[c] = 1..Len(log[c])
           /\ \A q \in DOMAIN log[c] : log[c][q] \in Messages
  BY LenProperties, ElementOfSeq DEF TypeOK

\* A message is added behind those that are there.
LEMMA Appended ==
    ASSUME TypeOK, NEW c0 \in Conversations, NEW m \in Messages,
           log' = [log EXCEPT ![c0] = Append(log[c0], m)]
    PROVE  /\ log' \in [Conversations -> Seq(Messages)]
           /\ \A c \in Conversations : c # c0 => log'[c] = log[c]
           /\ DOMAIN log'[c0] = 1..Len(log[c0]) + 1
           /\ \A q \in DOMAIN log[c0] : log'[c0][q] = log[c0][q]
           /\ log'[c0][Len(log[c0]) + 1] = m
<1>1. log[c0] \in Seq(Messages) /\ Len(log[c0]) \in Nat /\ DOMAIN log[c0] = 1..Len(log[c0])
  BY LogTypes
<1>2. log \in [Conversations -> Seq(Messages)]
  BY DEF TypeOK
<1>3. log'[c0] = Append(log[c0], m)
  BY <1>2
<1>4. /\ Append(log[c0], m) \in Seq(Messages)
      /\ Len(Append(log[c0], m)) = Len(log[c0]) + 1
      /\ \A i \in 1..Len(log[c0]) : Append(log[c0], m)[i] = log[c0][i]
      /\ Append(log[c0], m)[Len(log[c0]) + 1] = m
  BY <1>1, AppendProperties
<1>5. DOMAIN Append(log[c0], m) = 1..Len(log[c0]) + 1
  BY <1>4, LenProperties
<1> QED
  BY <1>1, <1>2, <1>3, <1>4, <1>5

LEMMA RepliesAppended ==
    ASSUME TypeOK, Replies, NEW c0 \in Conversations, NEW m \in Messages,
           log' = [log EXCEPT ![c0] = Append(log[c0], m)],
           m.sender = "AI_AGENT" <=> m.answers # 0,
           m.answers # 0 => /\ m.answers = Len(log[c0])
                            /\ log[c0][Len(log[c0])].sender = "CUSTOMER"
    PROVE  Replies'
<1> DEFINE n == Len(log[c0])
<1>1. n \in Nat /\ DOMAIN log[c0] = 1..n
  BY LogTypes
<1>2. /\ \A c \in Conversations : c # c0 => log'[c] = log[c]
      /\ DOMAIN log'[c0] = 1..n + 1
      /\ \A q \in DOMAIN log[c0] : log'[c0][q] = log[c0][q]
      /\ log'[c0][n + 1] = m
  BY Appended
<1>3. m.answers # 0 => n \in DOMAIN log[c0]
  BY <1>1, Positive DEF Messages
<1> HIDE DEF n
<1> SUFFICES ASSUME NEW c \in Conversations, NEW q \in DOMAIN log'[c]
             PROVE  /\ log'[c][q].sender = "AI_AGENT" <=> log'[c][q].answers # 0
                    /\ log'[c][q].answers # 0 =>
                          /\ log'[c][q].answers = q - 1
                          /\ log'[c][q - 1].sender = "CUSTOMER"
  BY DEF Replies
<1>4. CASE c # c0
  BY <1>2, <1>4 DEF Replies
<1>5. CASE c = c0 /\ q = n + 1
  <2>1. log'[c][q] = m /\ q - 1 = n
    BY <1>1, <1>2, <1>5
  <2>2. m.answers # 0 => log'[c][n] = log[c0][n]
    BY <1>2, <1>3, <1>5
  <2> QED
    BY <2>1, <2>2 DEF n
<1>6. CASE c = c0 /\ q # n + 1
  <2>1. q \in 1..n /\ q \in DOMAIN log[c0]
    BY <1>1, <1>2, <1>6
  <2>2. log'[c][q] = log[c0][q]
    BY <1>2, <1>6, <2>1
  <2>3. /\ log[c0][q].sender = "AI_AGENT" <=> log[c0][q].answers # 0
        /\ log[c0][q].answers # 0 =>
              log[c0][q].answers = q - 1 /\ log[c0][q - 1].sender = "CUSTOMER"
    BY <2>1 DEF Replies
  <2>4. log[c0][q].answers # 0 => q - 1 \in DOMAIN log[c0]
    BY <1>1, <2>1, <2>3
  <2> QED
    BY <1>2, <1>6, <2>2, <2>3, <2>4
<1> QED
  BY <1>4, <1>5, <1>6

\* The message behind the trigger of an active job does not exist.
LEMMA ActiveIsNewest ==
    ASSUME IInv, NEW c \in Conversations, NEW p \in Positions, IsActive(job[c][p])
    PROVE  Len(log[c]) = p
<1>1. /\ DOMAIN log[c] = 1..Len(log[c]) /\ Len(log[c]) \in Nat
      /\ \A q \in DOMAIN log[c] : log[c][q] \in Messages
  BY LogTypes DEF IInv, Typed
<1>2. /\ p \in DOMAIN log[c]
      /\ \A q \in DOMAIN log[c] : q > p => log[c][q].sender \notin {"CUSTOMER", "INTERNAL_USER"}
  BY DEF IInv, ActiveJobsAreWanted, Blocking, Newer
<1>3. p \in Nat
  BY Positive
<1>4. ASSUME p + 1 \in DOMAIN log[c]
      PROVE  FALSE
  <2>1. log[c][p + 1].sender = "AI_AGENT"
    BY <1>1, <1>2, <1>3, <1>4 DEF Messages
  <2>2. log[c][p + 1].answers = p
    BY <1>3, <1>4, <2>1 DEF IInv, Replies
  <2>3. job[c][p].status = "SUCCEEDED"
    BY <1>4, <2>2 DEF IInv, AnswersAreSingle
  <2> QED
    BY <2>3 DEF IsActive, Active
<1> QED
  BY <1>1, <1>2, <1>3, <1>4

LEMMA AnswerSafe == ASSUME IInv, NEW w \in Workers, Answer(w) PROVE IInv'
<1> DEFINE claim == Current(w)
           c0 == claim.conversation
           p0 == claim.trigger
           m == [sender |-> "AI_AGENT", answers |-> p0]
<1>1. /\ worker[w].phase = "cleared" /\ claim \in Claims
      /\ c0 \in Conversations /\ p0 \in Positions
  BY CurrentClaim DEF IInv, Answer, Phase
<1>2. Holds(claim) /\ End(claim, "SUCCEEDED") /\ Advance(w)
  BY DEF Answer
<1>3. job[c0][p0].status = "RUNNING" /\ IsActive(job[c0][p0])
  BY <1>2 DEF Holds, Of, IsActive, Active
<1>4. /\ p0 \in Nat /\ p0 >= 1 /\ Len(log[c0]) = p0
      /\ DOMAIN log[c0] = 1..p0
      /\ log[c0][p0].sender = "CUSTOMER"
  BY <1>1, <1>3, Positive, ActiveIsNewest, LogTypes DEF IInv, Typed, ActiveJobsAreWanted
<1>5. ~ Answered(c0, p0)
  <2> SUFFICES ASSUME NEW q \in DOMAIN log[c0], log[c0][q].answers = p0
               PROVE  FALSE
    BY DEF Answered
  <2>1. p0 = q - 1
    BY <1>1, <1>4 DEF IInv, Replies
  <2> QED
    BY <1>4, <2>1
<1>6. m \in Messages
  BY <1>1 DEF Messages
<1>7. log' = [log EXCEPT ![c0] = Append(log[c0], m)]
  BY <1>5 DEF Answer
<1> HIDE DEF m
<1>8. /\ job' \in JobTable
      /\ job'[c0][p0].status = "SUCCEEDED"
      /\ \A c \in Conversations, p \in Positions :
            c # c0 \/ p # p0 => job'[c][p] = job[c][p]
  <2>1. job \in JobTable /\ "SUCCEEDED" \in Final
    BY Tables DEF IInv, Typed, Final
  <2> QED
    BY <1>1, <1>2, <2>1, EndClaim
<1>9. /\ worker' \in [Workers -> WorkerRows] /\ Busy'
      /\ worker'[w].phase \in {"idle", "check"}
      /\ \A v \in Workers : v # w => worker'[v] = worker[v]
  BY <1>1, <1>2, AdvanceType DEF IInv
<1> HIDE DEF claim, c0, p0
<1>10. /\ log' \in [Conversations -> Seq(Messages)]
       /\ \A c \in Conversations : c # c0 => log'[c] = log[c]
       /\ DOMAIN log'[c0] = 1..p0 + 1
       /\ \A q \in DOMAIN log[c0] : log'[c0][q] = log[c0][q]
       /\ log'[c0][p0 + 1].sender = "AI_AGENT" /\ log'[c0][p0 + 1].answers = p0
  <2>1. /\ log' \in [Conversations -> Seq(Messages)]
        /\ \A c \in Conversations : c # c0 => log'[c] = log[c]
        /\ DOMAIN log'[c0] = 1..Len(log[c0]) + 1
        /\ \A q \in DOMAIN log[c0] : log'[c0][q] = log[c0][q]
        /\ log'[c0][Len(log[c0]) + 1] = m
    BY <1>1, <1>6, <1>7, Appended DEF IInv, Typed
  <2> QED
    BY <1>4, <2>1 DEF m
<1>11. Typed'
  <2>1. ClaimsLeft'
    BY <1>8 DEF IInv, Typed, ClaimsLeft
  <2> QED
    BY <1>8, <1>9, <1>10, <2>1, Tables DEF Answer, IInv, Typed, TypeOK, WorkerRows, JobTable
<1>12. PolicyHeld'
  BY <1>9, SamePolicy DEF IInv, Answer
<1>13. ActiveJobsAreWanted'
  <2> SUFFICES ASSUME NEW c \in Conversations, NEW p \in Positions, IsActive(job'[c][p])
               PROVE  /\ policy' = "ENABLED"
                      /\ Blocking(c, p)' = {}
                      /\ p \in DOMAIN log'[c] /\ log'[c][p].sender = "CUSTOMER"
    BY DEF ActiveJobsAreWanted
  <2>1. (c # c0 \/ p # p0) /\ job'[c][p] = job[c][p]
    BY <1>8 DEF IsActive, Active
  <2>2. c # c0
    <3> SUFFICES ASSUME c = c0 PROVE FALSE
      OBVIOUS
    <3>1. Len(log[c0]) = p
      BY <1>1, <2>1, ActiveIsNewest
    <3> QED
      BY <1>4, <2>1, <3>1
  <2>3. log'[c] = log[c] /\ policy' = policy /\ control' = control
    BY <1>10, <2>2 DEF Answer
  <2> QED
    BY <2>1, <2>3 DEF IInv, ActiveJobsAreWanted, Blocking, Newer
<1>14. Replies'
  <2>1. m.sender = "AI_AGENT" /\ m.answers = p0
    BY DEF m
  <2>2. /\ m.sender = "AI_AGENT" <=> m.answers # 0
        /\ m.answers = Len(log[c0]) /\ log[c0][Len(log[c0])].sender = "CUSTOMER"
    BY <1>4, <2>1
  <2>3. TypeOK /\ Replies
    BY DEF IInv, Typed
  <2> QED
    BY <1>1, <1>6, <1>7, <2>2, <2>3, RepliesAppended
<1>15. AnswersAreSingle'
  <2> SUFFICES ASSUME NEW c \in Conversations
               PROVE  /\ \A p \in Positions :
                            job'[c][p].status = "SUCCEEDED" <=>
                               p + 1 \in DOMAIN log'[c] /\ log'[c][p + 1].answers = p
                      /\ \A q \in DOMAIN log'[c] : log'[c][q].answers \in {0, q - 1}
    BY DEF AnswersAreSingle
  <2>1. CASE c # c0
    BY <1>8, <1>10, <2>1 DEF IInv, AnswersAreSingle
  <2>2. CASE c = c0
    <3>1. ASSUME NEW p \in Positions
          PROVE  job'[c][p].status = "SUCCEEDED" <=>
                    p + 1 \in DOMAIN log'[c] /\ log'[c][p + 1].answers = p
      <4>1. p \in Nat
        BY Positive
      <4>2. CASE p = p0
        BY <1>4, <1>8, <1>10, <2>2, <4>1, <4>2
      <4>3. CASE p # p0
        BY <1>4, <1>8, <1>10, <2>2, <4>1, <4>3 DEF IInv, AnswersAreSingle
      <4> QED
        BY <4>2, <4>3
    <3>2. \A q \in DOMAIN log'[c] : log'[c][q].answers \in {0, q - 1}
      BY <1>4, <1>10, <2>2 DEF IInv, AnswersAreSingle
    <3> QED
      BY <3>1, <3>2
  <2> QED
    BY <2>1, <2>2
<1> QED
  BY <1>11, <1>12, <1>13, <1>14, <1>15 DEF IInv

LEMMA EndActiveQuiet ==
    ASSUME Typed, NEW c0 \in Conversations, NEW status \in Final \ {"SUCCEEDED"},
           job' = [job EXCEPT ![c0] = EndActive(c0, status)]
    PROVE  /\ Quiet
           /\ \A p \in Positions : ~ IsActive(job'[c0][p])
           /\ \A c \in Conversations : c # c0 => job'[c] = job[c]
<1>1. job \in JobTable
  BY Tables DEF Typed
<1>2. /\ EndActive(c0, status) \in [Positions -> Jobs]
      /\ \A p \in Positions :
            /\ IsActive(job[c0][p]) => EndActive(c0, status)[p].status = status
            /\ ~ IsActive(job[c0][p]) => EndActive(c0, status)[p] = job[c0][p]
            /\ ~ IsActive(EndActive(c0, status)[p])
  BY <1>1, EndActiveJobs
<1>3. /\ job' \in JobTable
      /\ job'[c0] = EndActive(c0, status)
      /\ \A c \in Conversations : c # c0 => job'[c] = job[c]
  BY <1>1, <1>2 DEF JobTable
<1>4. \A p \in Positions :
         /\ ~ IsActive(job'[c0][p])
         /\ job'[c0][p].status = "SUCCEEDED" <=> job[c0][p].status = "SUCCEEDED"
         /\ job'[c0][p].status = "PENDING" => job'[c0][p].attempts < MaxClaims
  BY <1>2, <1>3 DEF IsActive, Active, Final
<1> QED
  BY <1>3, <1>4 DEF Quiet, Typed, ClaimsLeft

\* A message of a customer or of staff answers nothing and changes no answer.
LEMMA HumanAppended ==
    ASSUME IInv, NEW c0 \in Conversations, NEW m \in Messages,
           m.sender # "AI_AGENT", m.answers = 0,
           log' = [log EXCEPT ![c0] = Append(log[c0], m)],
           \A c \in Conversations, p \in Positions :
              job'[c][p].status = "SUCCEEDED" <=> job[c][p].status = "SUCCEEDED"
    PROVE  Replies' /\ AnswersAreSingle'
<1> DEFINE n == Len(log[c0])
<1>1. n \in Nat /\ DOMAIN log[c0] = 1..n
  BY LogTypes DEF IInv, Typed
<1>2. /\ \A c \in Conversations : c # c0 => log'[c] = log[c]
      /\ DOMAIN log'[c0] = 1..n + 1
      /\ \A q \in DOMAIN log[c0] : log'[c0][q] = log[c0][q]
      /\ log'[c0][n + 1] = m
  BY Appended DEF IInv, Typed
<1>3. Replies'
  BY RepliesAppended DEF IInv, Typed
<1> HIDE DEF n
<1>4. ASSUME NEW c \in Conversations, NEW p \in Positions
      PROVE  job'[c][p].status = "SUCCEEDED" <=>
                p + 1 \in DOMAIN log'[c] /\ log'[c][p + 1].answers = p
  <2>1. p \in Nat /\ p >= 1
    BY Positive
  <2>2. job[c][p].status = "SUCCEEDED" <=>
           p + 1 \in DOMAIN log[c] /\ log[c][p + 1].answers = p
    BY DEF IInv, AnswersAreSingle
  <2>3. CASE c # c0
    BY <1>2, <2>2, <2>3
  <2>4. CASE c = c0 /\ p = n
    BY <1>1, <1>2, <2>1, <2>2, <2>4
  <2>5. CASE c = c0 /\ p # n
    <3>1. p + 1 \in DOMAIN log'[c] <=> p + 1 \in DOMAIN log[c]
      BY <1>1, <1>2, <2>1, <2>5
    <3> QED
      BY <1>2, <2>2, <2>5, <3>1
  <2> QED
    BY <2>3, <2>4, <2>5
<1>5. ASSUME NEW c \in Conversations, NEW q \in DOMAIN log'[c]
      PROVE  log'[c][q].answers \in {0, q - 1}
  <2>1. CASE c # c0
    BY <1>2, <2>1 DEF IInv, AnswersAreSingle
  <2>2. CASE c = c0
    BY <1>1, <1>2, <2>2 DEF IInv, AnswersAreSingle
  <2> QED
    BY <2>1, <2>2
<1> QED
  BY <1>3, <1>4, <1>5 DEF AnswersAreSingle

LEMMA DoneEffect ==
    ASSUME IInv, NEW cl \in Clients, Done(cl), UNCHANGED <<policy, saving, worker>>
    PROVE  request' \in [Clients -> Requests \cup {NoRequest}] /\ PolicyHeld'
<1>1. request \in [Clients -> Requests \cup {NoRequest}]
  BY DEF IInv, Typed, TypeOK
<1>2. /\ request' \in [Clients -> Requests \cup {NoRequest}]
      /\ \A k \in Clients : request'[k] = request[k] \/ request'[k].kind = "none"
  BY <1>1 DEF Done, NoRequest
<1> QED
  BY <1>2 DEF IInv, PolicyHeld, PolicyShared

\* A request that ends without writing.
LEMMA GivesUp ==
    ASSUME IInv, NEW cl \in Clients, Done(cl),
           UNCHANGED <<log, job, control, policy, open, saving, worker, clock>>
    PROVE  IInv'
<1>1. request' \in [Clients -> Requests \cup {NoRequest}] /\ PolicyHeld'
  BY DoneEffect
<1>2. Quiet
  BY SameJobs DEF IInv
<1>3. Typed'
  BY <1>1, <1>2, QuietClaimsLeft DEF IInv, Typed, TypeOK, Busy
<1> QED
  BY <1>1, <1>2, <1>3, QuietWanted, QuietAnswers DEF IInv

\* A conversation without active jobs may change as it likes.
LEMMA WantedElsewhere ==
    ASSUME IInv, NEW c0 \in Conversations, policy' = policy,
           \A p \in Positions : ~ IsActive(job'[c0][p]),
           \A c \in Conversations : c # c0 =>
              /\ log'[c] = log[c] /\ control'[c] = control[c]
              /\ \A p \in Positions : IsActive(job'[c][p]) => IsActive(job[c][p])
    PROVE  ActiveJobsAreWanted'
<1> SUFFICES ASSUME NEW c \in Conversations, NEW p \in Positions, IsActive(job'[c][p])
             PROVE  /\ policy' = "ENABLED"
                    /\ Blocking(c, p)' = {}
                    /\ p \in DOMAIN log'[c] /\ log'[c][p].sender = "CUSTOMER"
  BY DEF ActiveJobsAreWanted
<1>1. c # c0
  OBVIOUS
<1>2. IsActive(job[c][p]) /\ log'[c] = log[c] /\ control'[c] = control[c]
  BY <1>1
<1> QED
  BY <1>2 DEF IInv, ActiveJobsAreWanted, Blocking, Newer

LEMMA WriteStaffSafe == ASSUME IInv, NEW cl \in Clients, WriteStaff(cl) PROVE IInv'
<1> DEFINE c0 == request[cl].conversation
           m == [sender |-> "INTERNAL_USER", answers |-> 0]
<1>1. /\ request' \in [Clients -> Requests \cup {NoRequest}] /\ PolicyHeld'
      /\ UNCHANGED <<control, policy, open, saving, worker, clock>> /\ Done(cl)
  BY DoneEffect DEF WriteStaff
<1>2. CASE Refused(c0, request[cl].created)
  BY <1>1, <1>2, GivesUp DEF WriteStaff
<1>3. CASE ~ Refused(c0, request[cl].created)
  <2>1. c0 \in Conversations
    BY DEF WriteStaff, IInv, Typed, TypeOK, Requests, NoRequest
  <2>2. /\ log' = [log EXCEPT ![c0] = Append(log[c0], m)]
        /\ job' = [job EXCEPT ![c0] = EndActive(c0, "CANCELLED")]
    BY <1>3 DEF WriteStaff
  <2>3. m \in Messages /\ m.sender # "AI_AGENT" /\ m.answers = 0
    BY DEF Messages
  <2> HIDE DEF c0, m
  <2>4. /\ Quiet
        /\ \A p \in Positions : ~ IsActive(job'[c0][p])
        /\ \A c \in Conversations : c # c0 => job'[c] = job[c]
    BY <2>1, <2>2, EndActiveQuiet, FinalStates DEF IInv
  <2>5. Replies' /\ AnswersAreSingle'
    BY <2>1, <2>2, <2>3, <2>4, HumanAppended DEF Quiet
  <2>6. /\ log' \in [Conversations -> Seq(Messages)]
        /\ \A c \in Conversations : c # c0 => log'[c] = log[c]
    BY <2>1, <2>2, <2>3, Appended DEF IInv, Typed
  <2>7. Typed'
    BY <1>1, <2>4, <2>6, Tables, QuietClaimsLeft DEF IInv, Typed, Busy, TypeOK, Quiet, JobTable
  <2>8. ActiveJobsAreWanted'
    BY <1>1, <2>1, <2>4, <2>6, WantedElsewhere
  <2> QED
    BY <1>1, <2>5, <2>7, <2>8 DEF IInv
<1> QED
  BY <1>2, <1>3

LEMMA ChangeControlSafe == ASSUME IInv, NEW cl \in Clients, ChangeControl(cl) PROVE IInv'
<1> DEFINE c0 == request[cl].conversation
           state == request[cl].state
<1>1. /\ request' \in [Clients -> Requests \cup {NoRequest}] /\ PolicyHeld'
      /\ UNCHANGED <<log, policy, open, saving, worker, clock>> /\ Done(cl)
  BY DoneEffect DEF ChangeControl
<1>2. c0 \in Conversations /\ state \in Controls
  BY DEF ChangeControl, IInv, Typed, TypeOK, Requests, NoRequest
<1>3. CASE UNCHANGED <<control, job>>
  BY <1>1, <1>3, GivesUp
<1>4. CASE state = "AUTO" /\ control' = [control EXCEPT ![c0] = state] /\ UNCHANGED job
  <2>1. Quiet
    BY <1>4, SameJobs DEF IInv
  <2>2. Typed'
    BY <1>1, <1>2, <1>4, <2>1, QuietClaimsLeft DEF IInv, Typed, Busy, TypeOK
  <2>3. \A c \in Conversations : control[c] = "AUTO" => control'[c] = "AUTO"
    BY <1>2, <1>4 DEF IInv, Typed, TypeOK
  <2>4. ActiveJobsAreWanted'
    BY <1>1, <1>4, <2>3 DEF IInv, ActiveJobsAreWanted, Blocking, Newer
  <2> QED
    BY <1>1, <2>1, <2>2, <2>4, QuietAnswers DEF IInv
<1>5. CASE /\ control' = [control EXCEPT ![c0] = state]
           /\ job' = [job EXCEPT ![c0] = EndActive(c0, "CANCELLED")]
  <2> HIDE DEF c0, state
  <2>1. /\ Quiet
        /\ \A p \in Positions : ~ IsActive(job'[c0][p])
        /\ \A c \in Conversations : c # c0 => job'[c] = job[c]
    BY <1>2, <1>5, EndActiveQuiet, FinalStates DEF IInv
  <2>2. /\ control' \in [Conversations -> Controls]
        /\ \A c \in Conversations : c # c0 => control'[c] = control[c]
    BY <1>2, <1>5 DEF IInv, Typed, TypeOK
  <2>3. Typed'
    BY <1>1, <2>1, <2>2, Tables, QuietClaimsLeft DEF IInv, Typed, Busy, TypeOK, Quiet, JobTable
  <2>4. ActiveJobsAreWanted'
    BY <1>1, <1>2, <2>1, <2>2, WantedElsewhere
  <2> QED
    BY <1>1, <2>1, <2>3, <2>4, QuietAnswers DEF IInv
<1> QED
  BY <1>3, <1>4, <1>5 DEF ChangeControl

\* A job is added only under the policy that is in force.
LEMMA WriteCustomerSafe == ASSUME IInv, NEW cl \in Clients, WriteCustomer(cl) PROVE IInv'
<1> DEFINE c0 == request[cl].conversation
           p0 == Len(log[c0]) + 1
           m == [sender |-> "CUSTOMER", answers |-> 0]
           NewJob == [NoJob EXCEPT !.status = "PENDING", !.created = request[cl].created]
           ended == EndActive(c0, "SUPERSEDED")
<1>1. /\ request' \in [Clients -> Requests \cup {NoRequest}] /\ PolicyHeld'
      /\ UNCHANGED <<control, policy, open, saving, worker, clock>> /\ Done(cl)
  BY DoneEffect DEF WriteCustomer
<1>2. c0 \in Conversations /\ request[cl].created \in 0..MaxClock
  BY DEF WriteCustomer, IInv, Typed, TypeOK, Requests, NoRequest
<1>3. CASE Refused(c0, request[cl].created)
  BY <1>1, <1>3, GivesUp DEF WriteCustomer
<1>4. CASE ~ Refused(c0, request[cl].created)
  <2>1. /\ log' = [log EXCEPT ![c0] = Append(log[c0], m)]
        /\ job' = [job EXCEPT ![c0] = IF Wanted(cl, c0) THEN [ended EXCEPT ![p0] = NewJob]
                                      ELSE ended]
    BY <1>4 DEF WriteCustomer
  <2>2. m \in Messages /\ m.sender = "CUSTOMER" /\ m.answers = 0
    BY DEF Messages
  <2>3. /\ log[c0] \in Seq(Messages) /\ Len(log[c0]) \in Nat
        /\ DOMAIN log[c0] = 1..Len(log[c0])
    BY <1>2, LogTypes DEF IInv, Typed
  <2>4. job \in JobTable
    BY Tables DEF IInv, Typed
  <2>5. /\ ended \in [Positions -> Jobs]
        /\ \A p \in Positions :
              /\ ~ IsActive(ended[p])
              /\ ended[p].status = "SUCCEEDED" <=> job[c0][p].status = "SUCCEEDED"
    <3>1. "SUPERSEDED" \in Final
      BY DEF Final
    <3> QED
      BY <1>2, <2>4, <3>1, EndActiveJobs DEF IsActive, Active
  <2>6. NewJob \in Jobs /\ NewJob.status = "PENDING" /\ NewJob.attempts = 0
    <3>1. NoJob \in Jobs /\ NoJob.attempts = 0
      BY NoJobType DEF NoJob
    <3>2. "PENDING" \in Active \cup Final \cup {"NONE"}
      BY DEF Active
    <3> QED
      BY <1>2, <3>1, <3>2 DEF Jobs
  <2>7. p0 \in Positions => job[c0][p0].status # "SUCCEEDED"
    BY <1>2, <2>3 DEF IInv, AnswersAreSingle
  <2> HIDE DEF c0, m, NewJob, ended
  <2>8. /\ job' \in JobTable
        /\ \A c \in Conversations : c # c0 => job'[c] = job[c]
        /\ \A p \in Positions :
              \/ job'[c0][p] = ended[p]
              \/ p = p0 /\ Wanted(cl, c0) /\ job'[c0][p] = NewJob
    BY <1>2, <2>1, <2>4, <2>5, <2>6 DEF JobTable
  <2>9. \A c \in Conversations, p \in Positions :
           job'[c][p].status = "SUCCEEDED" <=> job[c][p].status = "SUCCEEDED"
    BY <2>5, <2>6, <2>7, <2>8
  <2>10. Replies' /\ AnswersAreSingle'
    BY <1>2, <2>1, <2>2, <2>9, HumanAppended
  <2>11. /\ log' \in [Conversations -> Seq(Messages)]
         /\ \A c \in Conversations : c # c0 => log'[c] = log[c]
         /\ DOMAIN log'[c0] = 1..p0 /\ log'[c0][p0] = m
    BY <1>2, <2>1, <2>2, Appended DEF IInv, Typed
  <2>12. Typed'
    <3>1. ClaimsLeft'
      BY <2>5, <2>6, <2>8, ConstantTypes DEF IInv, Typed, ClaimsLeft, IsActive, Active
    <3> QED
      BY <1>1, <2>8, <2>11, <3>1, Tables DEF IInv, Typed, Busy, TypeOK, JobTable
  <2>13. ActiveJobsAreWanted'
    <3> SUFFICES ASSUME NEW c \in Conversations, NEW p \in Positions, IsActive(job'[c][p])
                 PROVE  /\ policy' = "ENABLED"
                        /\ Blocking(c, p)' = {}
                        /\ p \in DOMAIN log'[c] /\ log'[c][p].sender = "CUSTOMER"
      BY DEF ActiveJobsAreWanted
    <3>1. CASE c # c0
      <4>1. IsActive(job[c][p]) /\ log'[c] = log[c] /\ control'[c] = control[c] /\ policy' = policy
        BY <1>1, <2>8, <2>11, <3>1
      <4> QED
        BY <4>1 DEF IInv, ActiveJobsAreWanted, Blocking, Newer
    <3>2. CASE c = c0
      <4>1. p = p0 /\ Wanted(cl, c0)
        BY <2>5, <2>8, <3>2
      <4>2. /\ request[cl].kind = "customer" /\ request[cl].plan # "none"
            /\ request[cl].stage = "shared" /\ request[cl].mode = "ENABLED"
            /\ control[c0] = "AUTO"
        BY <4>1 DEF Wanted, WriteCustomer
      <4>3. policy = "ENABLED"
        BY <4>2 DEF IInv, PolicyHeld
      <4>4. \A q \in DOMAIN log'[c0] : ~ (q > p0)
        BY <2>3, <2>11
      <4> QED
        BY <1>1, <2>2, <2>3, <2>11, <3>2, <4>1, <4>2, <4>3, <4>4 DEF Blocking, Newer
    <3> QED
      BY <3>1, <3>2
  <2> QED
    BY <1>1, <2>10, <2>12, <2>13 DEF IInv
<1> QED
  BY <1>3, <1>4
-----------------------------------------------------------------------------
(* Requests, the policy and time.                                          *)

\* Steps that change neither jobs, log, control nor policy.
LEMMA Untouched ==
    ASSUME IInv, UNCHANGED <<log, job, control, policy, worker>>,
           open' \in BOOLEAN, saving' \in Modes \cup {"none"}, clock' \in 0..MaxClock,
           request' \in [Clients -> Requests \cup {NoRequest}], PolicyHeld'
    PROVE  IInv'
<1>1. Quiet
  BY SameJobs DEF IInv
<1>2. Typed'
  BY <1>1, QuietClaimsLeft DEF IInv, Typed, Busy, TypeOK
<1> QED
  BY <1>1, <1>2, QuietWanted, QuietAnswers DEF IInv

\* Only the jobs change, and no new one is active.
LEMMA OnlyJobs ==
    ASSUME IInv, Quiet,
           UNCHANGED <<log, control, policy, open, saving, request, worker, clock>>
    PROVE  IInv'
<1>1. Typed'
  BY Tables, QuietClaimsLeft DEF IInv, Typed, Busy, TypeOK, Quiet, JobTable
<1>2. PolicyHeld'
  BY DEF IInv, PolicyHeld, PolicyShared
<1> QED
  BY <1>1, <1>2, QuietWanted, QuietAnswers DEF IInv

LEMMA SubmitSafe ==
    ASSUME IInv, NEW cl \in Clients, NEW c \in Conversations, Submit(cl, c)
    PROVE  IInv'
<1>1. PICK r \in Requests :
         /\ request' = [request EXCEPT ![cl] = r]
         /\ r.kind = "customer" => r.stage = "created"
  <2>1. clock \in 0..MaxClock /\ request[cl] = NoRequest
    BY DEF IInv, Typed, TypeOK, Submit
  <2>2. ASSUME NEW plan \in Plans,
               request' = [request EXCEPT ![cl] =
                  [kind |-> "customer", conversation |-> c, created |-> clock,
                   plan |-> plan, stage |-> "created", mode |-> "ABSENT"]]
        PROVE  \E r \in Requests : /\ request' = [request EXCEPT ![cl] = r]
                                   /\ r.kind = "customer" => r.stage = "created"
    <3> DEFINE r == [kind |-> "customer", conversation |-> c, created |-> clock,
                     plan |-> plan, stage |-> "created", mode |-> "ABSENT"]
    <3>1. r \in Requests /\ r.stage = "created"
      BY <2>1 DEF Requests
    <3>2. request' = [request EXCEPT ![cl] = r]
      BY <2>2
    <3> HIDE DEF r
    <3> QED
      BY <3>1, <3>2
  <2>3. ASSUME request' = [request EXCEPT ![cl] =
                  [kind |-> "staff", conversation |-> c, created |-> clock]]
        PROVE  \E r \in Requests : /\ request' = [request EXCEPT ![cl] = r]
                                   /\ r.kind = "customer" => r.stage = "created"
    <3> DEFINE r == [kind |-> "staff", conversation |-> c, created |-> clock]
    <3>1. r \in Requests /\ r.kind # "customer"
      BY <2>1 DEF Requests
    <3>2. request' = [request EXCEPT ![cl] = r]
      BY <2>3
    <3> HIDE DEF r
    <3> QED
      BY <3>1, <3>2
  <2>4. ASSUME NEW state \in Controls,
               request' = [request EXCEPT ![cl] =
                  [kind |-> "control", conversation |-> c, created |-> clock, state |-> state]]
        PROVE  \E r \in Requests : /\ request' = [request EXCEPT ![cl] = r]
                                   /\ r.kind = "customer" => r.stage = "created"
    <3> DEFINE r == [kind |-> "control", conversation |-> c, created |-> clock, state |-> state]
    <3>1. r \in Requests /\ r.kind # "customer"
      BY <2>1 DEF Requests
    <3>2. request' = [request EXCEPT ![cl] = r]
      BY <2>4
    <3> HIDE DEF r
    <3> QED
      BY <3>1, <3>2
  <2> QED
    BY <2>2, <2>3, <2>4 DEF Submit
<1>2. /\ request' \in [Clients -> Requests \cup {NoRequest}]
      /\ \A k \in Clients :
            \/ request'[k] = request[k]
            \/ request'[k].kind = "customer" => request'[k].stage = "created"
  BY <1>1 DEF IInv, Typed, TypeOK
<1>3. UNCHANGED <<log, job, control, policy, open, saving, worker, clock>>
  BY DEF Submit
<1>4. PolicyHeld'
  BY <1>2, <1>3 DEF IInv, PolicyHeld, PolicyShared
<1> QED
  BY <1>2, <1>3, <1>4, Untouched DEF IInv, Typed, TypeOK

\* A customer's append going on.
LEMMA CustomerRequest ==
    ASSUME IInv, NEW cl \in Clients, request[cl].kind = "customer"
    PROVE  request[cl] \in [kind : {"customer"}, conversation : Conversations,
                            created : 0..MaxClock, plan : Plans,
                            stage : {"created", "locked", "shared"},
                            mode : Modes \cup {"ABSENT"}]
  BY DEF IInv, Typed, TypeOK, Requests, NoRequest

LEMMA LockConversationSafe ==
    ASSUME IInv, NEW cl \in Clients, LockConversation(cl)
    PROVE  IInv'
<1> DEFINE r == [request[cl] EXCEPT !.stage = "locked"]
<1>1. r \in Requests /\ r.stage = "locked"
  BY CustomerRequest DEF LockConversation, Requests
<1>2. request' = [request EXCEPT ![cl] = r]
  BY DEF LockConversation
<1> HIDE DEF r
<1>3. /\ request' \in [Clients -> Requests \cup {NoRequest}]
      /\ \A k \in Clients : request'[k] = request[k] \/ request'[k].stage = "locked"
  BY <1>1, <1>2 DEF IInv, Typed, TypeOK
<1>4. UNCHANGED <<log, job, control, policy, open, saving, worker, clock>>
  BY DEF LockConversation
<1>5. PolicyHeld'
  BY <1>3, <1>4 DEF IInv, PolicyHeld, PolicyShared
<1> QED
  BY <1>3, <1>4, <1>5, Untouched DEF IInv, Typed, TypeOK

LEMMA SharePolicySafe ==
    ASSUME IInv, NEW cl \in Clients, SharePolicy(cl)
    PROVE  IInv'
<1> DEFINE r == [request[cl] EXCEPT !.stage = "shared", !.mode = policy]
<1>1. r \in Requests /\ r.mode = policy
  BY CustomerRequest DEF SharePolicy, Requests, IInv, Typed, TypeOK
<1>2. request' = [request EXCEPT ![cl] = r]
  BY DEF SharePolicy
<1> HIDE DEF r
<1>3. /\ request' \in [Clients -> Requests \cup {NoRequest}]
      /\ \A k \in Clients : request'[k] = request[k] \/ request'[k].mode = policy
  BY <1>1, <1>2 DEF IInv, Typed, TypeOK
<1>4. UNCHANGED <<log, job, control, policy, open, saving, worker, clock>>
  BY DEF SharePolicy
<1>5. PolicyHeld'
  BY <1>3, <1>4 DEF IInv, PolicyHeld, PolicyShared, SharePolicy, PolicyExclusive
<1> QED
  BY <1>3, <1>4, <1>5, Untouched DEF IInv, Typed, TypeOK

LEMMA BeginSaveSafe == ASSUME IInv, BeginSave PROVE IInv'
<1>1. PolicyHeld'
  BY DEF BeginSave, IInv, PolicyHeld, PolicyShared
<1> QED
  BY <1>1, Untouched DEF BeginSave, IInv, Typed, TypeOK

\* Disabling leaves no active job, and no append has read another policy.
LEMMA CommitSaveSafe == ASSUME IInv, CommitSave PROVE IInv'
<1>1. /\ saving \in Modes /\ policy' = saving /\ saving' = "none"
      /\ UNCHANGED <<log, control, open, request, worker, clock>>
  BY DEF CommitSave, IInv, Typed, TypeOK
<1>2. PolicyHeld'
  BY DEF CommitSave, IInv, PolicyHeld, PolicyShared
<1>3. Quiet /\ (saving = "DISABLED" =>
                   \A c \in Conversations, p \in Positions : ~ IsActive(job'[c][p]))
  <2>1. CASE saving = "DISABLED"
    <3>1. "CANCELLED" \in Final /\ job \in JobTable
      BY Tables DEF Final, IInv, Typed
    <3>2. job' = [c \in Conversations |-> EndActive(c, "CANCELLED")]
      BY <2>1 DEF CommitSave
    <3>3. ASSUME NEW c \in Conversations
          PROVE  /\ job'[c] \in [Positions -> Jobs]
                 /\ \A p \in Positions :
                       /\ ~ IsActive(job'[c][p])
                       /\ IsActive(job[c][p]) => job'[c][p].status = "CANCELLED"
                       /\ ~ IsActive(job[c][p]) => job'[c][p] = job[c][p]
      BY <3>1, <3>2, EndActiveJobs
    <3>4. job' \in JobTable
      BY <3>2, <3>3 DEF JobTable
    <3> QED
      BY <3>3, <3>4 DEF Quiet, IsActive, Active
  <2>2. CASE saving # "DISABLED"
    BY <2>2, SameJobs DEF CommitSave, IInv
  <2> QED
    BY <2>1, <2>2
<1>4. Typed'
  BY <1>1, <1>3, Tables, QuietClaimsLeft DEF IInv, Typed, Busy, TypeOK, Quiet, JobTable
<1>5. ActiveJobsAreWanted'
  BY <1>1, <1>3 DEF IInv, ActiveJobsAreWanted, Quiet, Blocking, Newer, Modes
<1> QED
  BY <1>1, <1>2, <1>3, <1>4, <1>5, QuietAnswers DEF IInv

LEMMA BecomesDueSafe ==
    ASSUME IInv, NEW c \in Conversations, NEW p \in Positions, BecomesDue(c, p)
    PROVE  IInv'
<1> DEFINE j == [job[c][p] EXCEPT !.due = TRUE]
<1>1. job \in JobTable /\ job[c][p] \in Jobs
  BY Tables DEF IInv, Typed, JobTable
<1>2. j \in Jobs /\ j.status = job[c][p].status /\ j.attempts = job[c][p].attempts
  BY <1>1 DEF Jobs
<1>3. job' = [job EXCEPT ![c][p] = j]
  BY DEF BecomesDue
<1> HIDE DEF j
<1>4. Quiet
  BY <1>1, <1>2, <1>3 DEF Quiet, JobTable, IsActive, IInv, Typed, ClaimsLeft
<1> QED
  BY <1>4, OnlyJobs DEF BecomesDue

LEMMA LeaseEndsSafe ==
    ASSUME IInv, NEW c \in Conversations, NEW p \in Positions, LeaseEnds(c, p)
    PROVE  IInv'
<1> DEFINE j == [job[c][p] EXCEPT !.leased = FALSE]
<1>1. job \in JobTable /\ job[c][p] \in Jobs
  BY Tables DEF IInv, Typed, JobTable
<1>2. j \in Jobs /\ j.status = job[c][p].status /\ j.attempts = job[c][p].attempts
  BY <1>1 DEF Jobs
<1>3. job' = [job EXCEPT ![c][p] = j]
  BY DEF LeaseEnds
<1> HIDE DEF j
<1>4. Quiet
  BY <1>1, <1>2, <1>3 DEF Quiet, JobTable, IsActive, IInv, Typed, ClaimsLeft
<1> QED
  BY <1>4, OnlyJobs DEF LeaseEnds

\* Only the hour or the clock changes, or nothing.
LEMMA TimeSafe == ASSUME IInv, Hour \/ Tick \/ UNCHANGED vars PROVE IInv'
<1>1. UNCHANGED <<log, job, control, policy, saving, request, worker>>
  BY DEF Hour, Tick, vars
<1>2. open' \in BOOLEAN
  BY Zenon DEF Hour, Tick, vars, IInv, Typed, TypeOK
<1>3. clock' \in 0..MaxClock
  BY ConstantTypes DEF Hour, Tick, vars, IInv, Typed, TypeOK
<1>4. PolicyHeld'
  BY <1>1 DEF IInv, PolicyHeld, PolicyShared
<1> QED
  BY <1>1, <1>2, <1>3, <1>4, Untouched DEF IInv, Typed, TypeOK
-----------------------------------------------------------------------------
(* The theorems.                                                           *)

LEMMA InitSafe == Init => IInv
<1> SUFFICES ASSUME Init PROVE IInv
  OBVIOUS
<1> USE DEF Init
<1>1. NoJob \in Jobs /\ NoJob.status = "NONE"
  BY NoJobType DEF NoJob
<1>2. \A c \in Conversations : log[c] = <<>> /\ DOMAIN log[c] = {}
  BY EmptySeq
<1>3. Typed
  <2>1. <<>> \in Seq(Messages) /\ <<>> \in Seq(Claims)
    BY EmptySeq
  <2>2. [phase |-> "idle", batch |-> <<>>] \in WorkerRows
    BY <2>1 DEF WorkerRows, Phases
  <2>3. TypeOK
    BY <1>1, <2>1, <2>2, ConstantTypes, Tables DEF JobTable, Controls, Modes
  <2> QED
    BY <1>1, <2>3 DEF Typed, Busy, ClaimsLeft
<1>4. PolicyHeld
  BY DEF PolicyHeld, NoRequest
<1>5. ActiveJobsAreWanted
  BY <1>1 DEF ActiveJobsAreWanted, IsActive, Active
<1>6. Replies /\ AnswersAreSingle
  BY <1>1, <1>2 DEF Replies, AnswersAreSingle
<1> QED
  BY <1>3, <1>4, <1>5, <1>6 DEF IInv

LEMMA NextSafe == ASSUME IInv, [Next]_vars PROVE IInv'
<1>1. ASSUME NEW cl \in Clients, ClientStep(cl) PROVE IInv'
  BY <1>1, LockConversationSafe, SharePolicySafe, WriteCustomerSafe, WriteStaffSafe,
     ChangeControlSafe DEF ClientStep
<1>2. ASSUME NEW w \in Workers, WorkerStep(w) \/ FinalizeThrows(w) \/ Crash(w) PROVE IInv'
  BY <1>2, ClaimDueSafe, CheckSafe, CancelSafe, PrepareSafe, GenerateSafe, ShareSafe,
     JudgeSafe, AskAgainSafe, AnswerSafe, FailSafe, FinalizeThrowsSafe, CrashSafe
     DEF WorkerStep
<1>3. ASSUME NEW c \in Conversations, NEW p \in Positions, BecomesDue(c, p) \/ LeaseEnds(c, p)
      PROVE  IInv'
  BY <1>3, BecomesDueSafe, LeaseEndsSafe
<1>4. CASE BeginSave \/ CommitSave
  BY <1>4, BeginSaveSafe, CommitSaveSafe
<1>5. CASE Hour \/ Tick \/ UNCHANGED vars
  BY <1>5, TimeSafe
<1> QED
  BY <1>1, <1>2, <1>3, <1>4, <1>5, SubmitSafe DEF Next

\* The invariant that carries the others holds in every state of every run.
THEOREM Invariance == Spec => []IInv
<1>1. Init => IInv
  BY InitSafe
<1>2. IInv /\ [Next]_vars => IInv'
  BY NextSafe
<1> QED
  BY <1>1, <1>2, PTL DEF Spec

\* The rows of the tables and the state of the workers always have their types.
THEOREM TypeCorrect == Spec => []TypeOK
<1>1. IInv => TypeOK
  BY DEF IInv, Typed
<1> QED
  BY <1>1, Invariance, PTL

\* Whatever customers, staff, workers and policy saves do, and in whatever
\* order: a job that may still answer is wanted (the newest message is its
\* trigger, nobody has taken over, the policy is enabled).
THEOREM JobsAreWanted == Spec => []ActiveJobsAreWanted
<1>1. IInv => ActiveJobsAreWanted
  BY DEF IInv
<1> QED
  BY <1>1, Invariance, PTL

\* Whatever crashes, runs twice or comes late: a job is SUCCEEDED exactly when
\* the log holds its answer, once, right behind the message it answers.
THEOREM SingleAnswers == Spec => []AnswersAreSingle
<1>1. IInv => AnswersAreSingle
  BY DEF IInv
<1> QED
  BY <1>1, Invariance, PTL
-----------------------------------------------------------------------------
(* The life of a job.                                                          *)

\* A conversation is locked once: by one answer in progress or by appends.  Who has
\* locked a job holds its claim.
Locked ==
    /\ \A w, v \in Workers, c \in Conversations : Locks(w, c) /\ Locks(v, c) => w = v
    /\ \A w \in Workers, cl \in Clients :
          request[cl].kind = "customer" /\ request[cl].stage # "created"
             => ~ Locks(w, request[cl].conversation)
    /\ \A w \in Workers : worker[w].phase \in {"judged", "cleared"} => Holds(Current(w))

\* Every job has its message.
Placed ==
    \A c \in Conversations, p \in Positions :
        job[c][p].status # "NONE" => p \in DOMAIN log[c]

LInv == IInv /\ Locked /\ Placed

\* What LegalTransitions says of one job.
Legal(c, p) ==
    LET j == job[c][p]
        k == job'[c][p]
    IN  /\ j.status \in Final => k.status = j.status
        /\ k.status = "PENDING" /\ j.status # "PENDING" =>
              j.status = "NONE" \/ (j.status = "RUNNING" /\ ~ j.leased)
        /\ k.status \in {"SUCCEEDED", "FAILED"} /\ j.status # k.status =>
              /\ j.status = "RUNNING"
              /\ \/ ~ j.leased /\ j.attempts = MaxClaims
                 \/ \E w \in Workers :
                       /\ worker[w].phase \in {"cleared", "fail"}
                       /\ Current(w) = [conversation |-> c, trigger |-> p,
                                        token |-> j.attempts]

\* A legal step of a job; a job appears with its message.
Moves(c, p) == Legal(c, p) /\ (job[c][p].status = "NONE" => \/ job'[c][p].status = "NONE"
                                                            \/ p \in DOMAIN log'[c])

\* The job a worker has locked is left alone.
Still(w) ==
    LET c == Current(w).conversation
        p == Current(w).trigger
    IN  job'[c][p].status = job[c][p].status /\ job'[c][p].attempts = job[c][p].attempts

LEMMA SameStatusMoves ==
    ASSUME \A c \in Conversations, p \in Positions :
              /\ job'[c][p].status = job[c][p].status
              /\ job'[c][p].attempts = job[c][p].attempts
    PROVE  \A c \in Conversations, p \in Positions : Moves(c, p)
  BY DEF Moves, Legal

\* The job of a claim ends; only an answer and a failure give it these states.
LEMMA EndMoves ==
    ASSUME Typed, NEW w \in Workers, worker[w].phase # "idle", NEW status \in Final,
           End(Current(w), status),
           status \in {"SUCCEEDED", "FAILED"} => worker[w].phase \in {"cleared", "fail"}
    PROVE  \A c \in Conversations, p \in Positions :
              /\ Moves(c, p)
              /\ \/ job'[c][p] = job[c][p]
                 \/ c = Current(w).conversation /\ p = Current(w).trigger
<1>1. Current(w) \in Claims /\ job \in JobTable
  BY CurrentClaim, Tables DEF Typed
<1>2. \A c \in Conversations, p \in Positions :
         \/ job'[c][p] = job[c][p]
         \/ /\ Holds(Current(w))
            /\ c = Current(w).conversation /\ p = Current(w).trigger
            /\ job'[c][p].status = status
  BY <1>1, EndClaim
<1>3. ASSUME NEW c \in Conversations, NEW p \in Positions, Holds(Current(w)),
             c = Current(w).conversation, p = Current(w).trigger, job'[c][p].status = status
      PROVE  Moves(c, p)
  <2>1. job[c][p].status = "RUNNING" /\ job[c][p].attempts = Current(w).token
    BY <1>3 DEF Holds, Of
  <2>2. Current(w) = [conversation |-> c, trigger |-> p, token |-> job[c][p].attempts]
    BY <1>1, <1>3, <2>1 DEF Claims
  <2> QED
    BY <1>3, <2>1, <2>2 DEF Moves, Legal, Final
<1>4. ASSUME NEW c \in Conversations, NEW p \in Positions, job'[c][p] = job[c][p]
      PROVE  Moves(c, p)
  BY <1>4 DEF Moves, Legal
<1> QED
  BY <1>2, <1>3, <1>4

LEMMA EndActiveMoves ==
    ASSUME Typed, NEW c \in Conversations, NEW status \in {"CANCELLED", "SUPERSEDED"},
           job'[c] = EndActive(c, status)
    PROVE  \A p \in Positions : Moves(c, p)
<1>1. status \in Final /\ job \in JobTable
  BY Tables DEF Final, Typed
<1>2. \A p \in Positions :
         /\ IsActive(job[c][p]) => job'[c][p].status = status
         /\ ~ IsActive(job[c][p]) => job'[c][p] = job[c][p]
  BY <1>1, EndActiveJobs
<1> QED
  BY <1>2 DEF Moves, Legal, IsActive, Active, Final

\* claimDue touches only jobs that wait or whose lease ran out.
LEMMA ClaimDueMoves ==
    ASSUME Typed, NEW taken \in SUBSET Claimable, job' = Leased(taken)
    PROVE  \A c \in Conversations, p \in Positions :
              /\ Moves(c, p)
              /\ (job[c][p].status = "RUNNING" /\ ~ Expired(c, p)) => job'[c][p] = job[c][p]
<1> SUFFICES ASSUME NEW c \in Conversations, NEW p \in Positions
             PROVE  /\ Moves(c, p)
                    /\ (job[c][p].status = "RUNNING" /\ ~ Expired(c, p)) => job'[c][p] = job[c][p]
  OBVIOUS
<1> DEFINE j == job[c][p]
           k == job'[c][p]
<1>1. j \in Jobs /\ j.attempts \in 0..MaxClaims /\ MaxClaims \in Nat
  BY Tables, ConstantTypes DEF Typed, JobTable, Jobs
<1>2. CASE At(c, p) \in taken
  <2>1. At(c, p) \in Claimable
    BY <1>2
  <2>2. IsActive(j) /\ (j.status = "RUNNING" => Expired(c, p))
    BY <2>1 DEF Claimable, Of, At, Expired, IsActive, Active
  <2>3. k = [j EXCEPT !.status = "RUNNING", !.attempts = j.attempts + 1, !.leased = TRUE]
    BY <1>2 DEF Leased
  <2> HIDE DEF j, k
  <2>4. k.status = "RUNNING"
    BY <1>1, <2>3 DEF Jobs
  <2> QED
    BY <2>2, <2>4 DEF j, k, Moves, Legal, IsActive, Active, Final
<1>3. CASE At(c, p) \notin taken /\ At(c, p) \in Lost
  <2>1. Expired(c, p) /\ j.attempts = MaxClaims
    BY <1>1, <1>3 DEF Lost, At, Exhausted
  <2>2. k = Ended(j, "FAILED")
    BY <1>3 DEF Leased
  <2>3. k.status = "FAILED"
    BY <1>1, <2>2, EndedJob DEF Final
  <2> QED
    BY <2>1, <2>3 DEF Moves, Legal, Expired, Final
<1>4. CASE At(c, p) \notin taken /\ At(c, p) \notin Lost /\ Expired(c, p)
  <2>1. k = [j EXCEPT !.status = "PENDING"]
    BY <1>4 DEF Leased
  <2> HIDE DEF j, k
  <2>2. k.status = "PENDING"
    BY <1>1, <2>1 DEF Jobs
  <2> QED
    BY <1>4, <2>2 DEF j, k, Moves, Legal, Expired, Final
<1>5. CASE At(c, p) \notin taken /\ At(c, p) \notin Lost /\ ~ Expired(c, p)
  <2>1. k = j
    BY <1>5 DEF Leased
  <2> QED
    BY <2>1 DEF Moves, Legal
<1> QED
  BY <1>2, <1>3, <1>4, <1>5

\* A customer's message takes a place where no job has been.
LEMMA WriteCustomerMoves ==
    ASSUME IInv, Placed, NEW cl \in Clients, WriteCustomer(cl)
    PROVE  /\ \A c \in Conversations, p \in Positions : Moves(c, p)
           /\ \A c \in Conversations : c # request[cl].conversation => job'[c] = job[c]
<1> DEFINE c0 == request[cl].conversation
           p0 == Len(log[c0]) + 1
           m == [sender |-> "CUSTOMER", answers |-> 0]
           NewJob == [NoJob EXCEPT !.status = "PENDING", !.created = request[cl].created]
           ended == EndActive(c0, "SUPERSEDED")
<1>1. CASE Refused(c0, request[cl].created)
  <2>1. job' = job
    BY <1>1 DEF WriteCustomer
  <2> QED
    BY <2>1, SameStatusMoves
<1>2. CASE ~ Refused(c0, request[cl].created)
  <2>1. /\ log' = [log EXCEPT ![c0] = Append(log[c0], m)]
        /\ job' = [job EXCEPT ![c0] = IF Wanted(cl, c0) THEN [ended EXCEPT ![p0] = NewJob]
                                      ELSE ended]
        /\ c0 \in Conversations /\ m \in Messages
    BY <1>2 DEF WriteCustomer, IInv, Typed, TypeOK, Requests, NoRequest, Messages
  <2>2. NewJob.status = "PENDING"
    BY DEF NoJob
  <2>3. /\ ended \in [Positions -> Jobs]
        /\ \A p \in Positions :
              /\ IsActive(job[c0][p]) => ended[p].status = "SUPERSEDED"
              /\ ~ IsActive(job[c0][p]) => ended[p] = job[c0][p]
    BY <2>1, EndActiveJobs, Tables DEF IInv, Typed, Final
  <2>4. /\ DOMAIN log[c0] = 1..Len(log[c0]) /\ Len(log[c0]) \in Nat
        /\ DOMAIN log'[c0] = 1..p0
    BY <2>1, LogTypes, Appended DEF IInv, Typed
  <2>5. p0 \in Positions => job[c0][p0].status = "NONE"
    BY <2>1, <2>4 DEF Placed
  <2> HIDE DEF c0, m, NewJob, ended
  <2>6. /\ \A c \in Conversations : c # c0 => job'[c] = job[c]
        /\ \A p \in Positions : \/ job'[c0][p] = ended[p]
                                \/ p = p0 /\ job'[c0][p] = NewJob
    BY <2>1, <2>3, Tables DEF IInv, Typed, JobTable
  <2>7. \A c \in Conversations, p \in Positions : c # c0 => Moves(c, p)
    BY <2>6 DEF Moves, Legal
  <2>8. \A p \in Positions : Moves(c0, p)
    <3> SUFFICES ASSUME NEW p \in Positions PROVE Moves(c0, p)
      OBVIOUS
    <3>1. CASE job'[c0][p] = ended[p]
      BY <2>3, <3>1 DEF Moves, Legal, IsActive, Active, Final
    <3>2. CASE p = p0 /\ job'[c0][p] = NewJob
      <4>1. p0 \in DOMAIN log'[c0]
        BY <2>4
      <4> QED
        BY <2>2, <2>5, <3>2, <4>1 DEF Moves, Legal, Final
    <3> QED
      BY <2>6, <3>1, <3>2
  <2> QED
    BY <2>6, <2>7, <2>8 DEF c0
<1> QED
  BY <1>1, <1>2

LEMMA AllMove ==
    ASSUME IInv, Placed, [Next]_vars
    PROVE  \A c \in Conversations, p \in Positions : Moves(c, p)
<1> DEFINE All == \A c \in Conversations, p \in Positions : Moves(c, p)
<1>1. ASSUME job' = job PROVE All
  BY <1>1, SameStatusMoves
<1>2. ASSUME NEW w \in Workers, WorkerStep(w) PROVE All
  <2>1. CASE ClaimDue(w)
    <3>1. PICK n \in 0..BatchSize : \E t \in [1..n -> Claimable] : job' = Leased(Range(t))
      BY <2>1 DEF ClaimDue
    <3>2. PICK t \in [1..n -> Claimable] : job' = Leased(Range(t))
      BY <3>1
    <3>3. Range(t) \in SUBSET Claimable
      BY DEF Range
    <3> QED
      BY <3>2, <3>3, ClaimDueMoves DEF IInv
  <2>2. CASE Cancel(w) \/ Fail(w)
    <3>1. worker[w].phase # "idle" /\ "CANCELLED" \in Final /\ "FAILED" \in Final
      BY <2>2 DEF Cancel, Fail, Phase, Final
    <3> QED
      BY <2>2, <3>1, EndMoves DEF Cancel, Fail, Phase, IInv
  <2>3. CASE Prepare(w) \/ Judge(w)
    <3>1. worker[w].phase # "idle"
      BY <2>3 DEF Prepare, Judge, Phase
    <3>2. job' = job \/ \E status \in {"CANCELLED", "SUPERSEDED"} : End(Current(w), status)
      BY <2>3 DEF Prepare, Judge, Judgement, Blocking
    <3>3. {"CANCELLED", "SUPERSEDED"} \subseteq Final
      BY DEF Final
    <3> QED
      BY <1>1, <3>1, <3>2, <3>3, EndMoves DEF IInv
  <2>4. CASE AskAgain(w)
    <3>1. worker[w].phase # "idle" /\ "CANCELLED" \in Final
      BY <2>4 DEF AskAgain, Phase, Final
    <3> QED
      BY <1>1, <2>4, <3>1, EndMoves DEF AskAgain, IInv
  <2>5. CASE Answer(w)
    <3>1. worker[w].phase = "cleared" /\ "SUCCEEDED" \in Final
      BY <2>5 DEF Answer, Phase, Final
    <3> QED
      BY <2>5, <3>1, EndMoves DEF Answer, IInv
  <2>6. CASE Check(w) \/ Generate(w) \/ Share(w)
    BY <1>1, <2>6 DEF Check, Generate, Share
  <2> QED
    BY <1>2, <2>1, <2>2, <2>3, <2>4, <2>5, <2>6 DEF WorkerStep
<1>3. ASSUME NEW cl \in Clients, WriteStaff(cl) \/ ChangeControl(cl) PROVE All
  <2>1. \/ job' = job
        \/ job' = [job EXCEPT ![request[cl].conversation] =
                      EndActive(request[cl].conversation, "CANCELLED")]
    BY <1>3 DEF WriteStaff, ChangeControl
  <2>2. request[cl].conversation \in Conversations
    BY <1>3 DEF WriteStaff, ChangeControl, IInv, Typed, TypeOK, Requests, NoRequest
  <2>3. ASSUME NEW c0 \in Conversations, job' = [job EXCEPT ![c0] = EndActive(c0, "CANCELLED")]
        PROVE  All
    <3>1. job'[c0] = EndActive(c0, "CANCELLED") /\ \A c \in Conversations \ {c0} : job'[c] = job[c]
      BY <2>3, Tables DEF IInv, Typed, JobTable
    <3>2. \A c \in Conversations \ {c0}, p \in Positions : Moves(c, p)
      BY <3>1 DEF Moves, Legal
    <3>3. \A p \in Positions : Moves(c0, p)
      BY <3>1, EndActiveMoves DEF IInv
    <3> QED
      BY <3>2, <3>3
  <2> QED
    BY <1>1, <2>1, <2>2, <2>3
<1>4. ASSUME NEW cl \in Clients, ClientStep(cl) \/ \E c \in Conversations : Submit(cl, c)
      PROVE  All
  BY <1>1, <1>3, <1>4, WriteCustomerMoves DEF ClientStep, LockConversation, SharePolicy, Submit
<1>5. CASE CommitSave
  <2>1. CASE saving = "DISABLED"
    <3>1. \A c \in Conversations : job'[c] = EndActive(c, "CANCELLED")
      BY <1>5, <2>1 DEF CommitSave
    <3> QED
      BY <3>1, EndActiveMoves DEF IInv
  <2>2. CASE saving # "DISABLED"
    BY <1>1, <1>5, <2>2 DEF CommitSave
  <2> QED
    BY <2>1, <2>2
<1>6. ASSUME NEW c \in Conversations, NEW p \in Positions, BecomesDue(c, p) \/ LeaseEnds(c, p)
      PROVE  All
  <2>1. ASSUME NEW d \in Conversations, NEW q \in Positions
        PROVE  job'[d][q].status = job[d][q].status /\ job'[d][q].attempts = job[d][q].attempts
    <3>1. job[c][p] \in Jobs /\ job \in JobTable
      BY Tables DEF IInv, Typed, JobTable
    <3>2. PICK x \in BOOLEAN :
             \/ job' = [job EXCEPT ![c][p] = [job[c][p] EXCEPT !.due = x]]
             \/ job' = [job EXCEPT ![c][p] = [job[c][p] EXCEPT !.leased = x]]
      BY <1>6, <3>1 DEF BecomesDue, LeaseEnds
    <3>3. PICK j \in Jobs : /\ job' = [job EXCEPT ![c][p] = j]
                            /\ j.status = job[c][p].status /\ j.attempts = job[c][p].attempts
      BY <3>1, <3>2 DEF Jobs
    <3> QED
      BY <3>1, <3>3 DEF JobTable
  <2> QED
    BY <2>1, SameStatusMoves
<1>7. CASE \/ \E w \in Workers : FinalizeThrows(w) \/ Crash(w)
           \/ BeginSave \/ Hour \/ Tick \/ UNCHANGED vars
  BY <1>1, <1>7 DEF FinalizeThrows, Crash, BeginSave, Hour, Tick, vars
<1> QED
  BY <1>2, <1>4, <1>5, <1>6, <1>7 DEF Next

\* A log only grows.
LEMMA LogGrows ==
    ASSUME IInv, [Next]_vars
    PROVE  \A c \in Conversations : DOMAIN log[c] \subseteq DOMAIN log'[c]
<1> DEFINE Grows == \A c \in Conversations : DOMAIN log[c] \subseteq DOMAIN log'[c]
<1>1. ASSUME NEW c0 \in Conversations, NEW m \in Messages,
             log' = [log EXCEPT ![c0] = Append(log[c0], m)]
      PROVE  Grows
  <2>1. /\ \A c \in Conversations : c # c0 => log'[c] = log[c]
        /\ DOMAIN log'[c0] = 1..Len(log[c0]) + 1
        /\ DOMAIN log[c0] = 1..Len(log[c0]) /\ Len(log[c0]) \in Nat
    BY <1>1, Appended, LogTypes DEF IInv, Typed
  <2>2. DOMAIN log[c0] \subseteq DOMAIN log'[c0]
    BY <2>1
  <2> QED
    BY <2>1, <2>2
<1>2. ASSUME NEW cl \in Clients, WriteCustomer(cl) \/ WriteStaff(cl)
      PROVE  Grows
  <2>1. request[cl].conversation \in Conversations
    BY <1>2 DEF WriteCustomer, WriteStaff, IInv, Typed, TypeOK, Requests, NoRequest
  <2>2. \/ log' = log
        \/ \E m \in Messages : log' = [log EXCEPT ![request[cl].conversation] =
                                          Append(log[request[cl].conversation], m)]
    BY <1>2 DEF WriteCustomer, WriteStaff, Messages
  <2> QED
    BY <1>1, <2>1, <2>2
<1>3. ASSUME NEW w \in Workers, Answer(w)
      PROVE  Grows
  <2>1. Current(w).conversation \in Conversations /\ Current(w).trigger \in Positions
    BY <1>3, CurrentClaim DEF Answer, Phase, IInv
  <2>2. \/ log' = log
        \/ \E m \in Messages : log' = [log EXCEPT ![Current(w).conversation] =
                                          Append(log[Current(w).conversation], m)]
    BY <1>3, <2>1 DEF Answer, Messages
  <2> QED
    BY <1>1, <2>1, <2>2
<1>4. ASSUME log' = log PROVE Grows
  BY <1>4
<1> QED
  BY <1>2, <1>3, <1>4 DEF Next, ClientStep, LockConversation, SharePolicy, ChangeControl, Submit,
     WorkerStep, ClaimDue, Check, Cancel, Prepare, Generate, Share, Judge, AskAgain, Fail,
     FinalizeThrows, Crash, BecomesDue, LeaseEnds, BeginSave, CommitSave, Hour, Tick, vars

LEMMA PlacedStep ==
    ASSUME IInv, Placed, [Next]_vars
    PROVE  Placed'
<1>1. /\ \A c \in Conversations, p \in Positions : Moves(c, p)
      /\ \A c \in Conversations : DOMAIN log[c] \subseteq DOMAIN log'[c]
  BY AllMove, LogGrows
<1> QED
  BY <1>1 DEF Placed, Moves

\* A worker comes to lock a conversation only in judge, and then it is free.
LEMMA WorkersLock ==
    ASSUME IInv, [Next]_vars, NEW v \in Workers, worker'[v].phase \in {"judged", "cleared"}
    PROVE  /\ Current(v)' = Current(v)
           /\ \/ worker[v].phase \in {"judged", "cleared"}
              \/ /\ worker[v].phase = "shared"
                 /\ ConversationFree(Current(v).conversation) /\ Holds(Current(v))
                 /\ UNCHANGED <<job, request>>
                 /\ \A u \in Workers : u # v => worker'[u] = worker[u]
<1> DEFINE Goal == /\ Current(v)' = Current(v)
                   /\ \/ worker[v].phase \in {"judged", "cleared"}
                      \/ /\ worker[v].phase = "shared"
                         /\ ConversationFree(Current(v).conversation) /\ Holds(Current(v))
                         /\ UNCHANGED <<job, request>>
                         /\ \A u \in Workers : u # v => worker'[u] = worker[u]
<1>1. worker \in [Workers -> WorkerRows]
  BY Tables DEF IInv, Typed
<1>2. ASSUME worker'[v] = worker[v] PROVE Goal
  BY <1>2 DEF Current
<1>3. ASSUME NEW w \in Workers, Advance(w) PROVE Goal
  BY <1>1, <1>2, <1>3 DEF Advance
<1>4. ASSUME NEW w \in Workers, NEW ph, Goto(w, ph), ph # "judged" \/ w # v,
             ph = "cleared" => worker[w].phase = "judged"
      PROVE  Goal
  BY <1>1, <1>2, <1>4 DEF Goto, WorkerRows, Current
<1>5. ASSUME NEW w \in Workers, Judge(w) PROVE Goal
  <2>1. CASE Advance(w)
    BY <1>3, <2>1
  <2>2. CASE w # v
    BY <1>4, <1>3, <1>5, <2>2 DEF Judge, Judgement
  <2>3. CASE w = v /\ ~ Advance(w)
    <3>1. /\ Goto(v, "judged") /\ worker[v].phase = "shared"
          /\ ConversationFree(Current(v).conversation) /\ Holds(Current(v))
          /\ UNCHANGED <<job, request>>
      BY <1>5, <2>3 DEF Judge, Judgement, Phase
    <3>2. worker'[v].batch = worker[v].batch
      BY <1>1, <3>1 DEF Goto, WorkerRows
    <3> QED
      BY <3>1, <3>2 DEF Goto, Current
  <2> QED
    BY <2>1, <2>2, <2>3
<1>6. ASSUME NEW w \in Workers, Prepare(w) PROVE Goal
  BY <1>3, <1>4, <1>6 DEF Prepare, Judgement
<1>7. ASSUME NEW w \in Workers, ClaimDue(w) PROVE Goal
  <2>1. \A u \in Workers : worker'[u] = worker[u] \/ worker'[u].phase \in {"idle", "check"}
    BY <1>1, <1>7 DEF ClaimDue
  <2> QED
    BY <1>2, <2>1
<1>8. ASSUME NEW w \in Workers, Crash(w) PROVE Goal
  <2>1. \A u \in Workers : worker'[u] = worker[u] \/ worker'[u].phase = "idle"
    BY <1>1, <1>8 DEF Crash
  <2> QED
    BY <1>2, <2>1
<1>9. ASSUME NEW w \in Workers,
             Check(w) \/ Cancel(w) \/ Generate(w) \/ Share(w) \/ AskAgain(w) \/ Answer(w)
             \/ Fail(w) \/ FinalizeThrows(w)
      PROVE  Goal
  BY <1>3, <1>4, <1>9 DEF Check, Cancel, Generate, Share, AskAgain, Answer, Fail,
                          FinalizeThrows, Phase
<1> HIDE DEF Goal
<1>10. ASSUME UNCHANGED worker PROVE Goal
  BY <1>2, <1>10
<1>11. Goal
  BY <1>5, <1>6, <1>7, <1>8, <1>9, <1>10 DEF Next, ClientStep, WorkerStep, LockConversation,
     SharePolicy, WriteCustomer, WriteStaff, ChangeControl, Submit, BecomesDue, LeaseEnds,
     BeginSave, CommitSave, Hour, Tick, vars
<1> QED
  BY <1>11 DEF Goal

\* A locked job is its holder's: nobody else ends it or claims it again.
LEMMA LockedStill ==
    ASSUME IInv, Locked, [Next]_vars, NEW v \in Workers,
           worker[v].phase \in {"judged", "cleared"}, worker'[v].phase \in {"judged", "cleared"}
    PROVE  Still(v)
<1> DEFINE c == Current(v).conversation
           p == Current(v).trigger
<1>1. /\ c \in Conversations /\ p \in Positions /\ job[c][p].status = "RUNNING"
      /\ Locks(v, c) /\ worker \in [Workers -> WorkerRows] /\ job \in JobTable
  BY CurrentClaim, Tables DEF IInv, Typed, Locked, Holds, Of, Locks
<1>2. ASSUME job'[c][p] = job[c][p] PROVE Still(v)
  BY <1>2 DEF Still
<1>3. ASSUME NEW w \in Workers, Cancel(w) \/ Fail(w) PROVE Still(v)
  <2>1. /\ JobFree(Current(w).conversation, Current(w).trigger)
        /\ worker[w].phase # "idle"
        /\ \E status \in {"CANCELLED", "FAILED"} : End(Current(w), status)
    BY <1>3 DEF Cancel, Fail, Phase
  <2>2. ~ (c = Current(w).conversation /\ p = Current(w).trigger)
    BY <1>1, <2>1 DEF JobFree
  <2>3. job'[c][p] = job[c][p]
    BY <1>1, <2>1, <2>2, CurrentClaim, EndClaim DEF Final, IInv
  <2> QED
    BY <1>2, <2>3
<1>4. ASSUME NEW w \in Workers, Prepare(w) \/ Judge(w) PROVE Still(v)
  <2>1. /\ ConversationFree(Current(w).conversation)
        /\ worker[w].phase # "idle"
        /\ job' = job \/ \E status \in {"CANCELLED", "SUPERSEDED"} : End(Current(w), status)
    BY <1>4 DEF Prepare, Judge, Phase, Judgement, Blocking
  <2>2. c # Current(w).conversation
    BY <1>1, <2>1 DEF ConversationFree
  <2>3. job'[c][p] = job[c][p]
    BY <1>1, <2>1, <2>2, CurrentClaim, EndClaim DEF Final, IInv
  <2> QED
    BY <1>2, <2>3
<1>5. ASSUME NEW w \in Workers, AskAgain(w) \/ Answer(w) PROVE Still(v)
  <2>1. CASE w = v
    <3>1. ~ Advance(v)
      BY <1>1 DEF Advance
    <3> QED
      BY <1>2, <1>5, <2>1, <3>1 DEF AskAgain, Answer
  <2>2. CASE w # v
    <3>1. /\ Locks(w, Current(w).conversation) /\ worker[w].phase # "idle"
          /\ job' = job \/ \E status \in {"CANCELLED", "SUCCEEDED"} : End(Current(w), status)
      BY <1>5 DEF AskAgain, Answer, Phase, Locks
    <3>2. Current(w).conversation \in Conversations /\ Current(w) \in Claims
      BY <3>1, CurrentClaim DEF IInv
    <3>3. c # Current(w).conversation
      BY <1>1, <2>2, <3>1, <3>2 DEF Locked
    <3>4. job'[c][p] = job[c][p]
      BY <1>1, <3>1, <3>2, <3>3, EndClaim DEF Final
    <3> QED
      BY <1>2, <3>4
  <2> QED
    BY <2>1, <2>2
<1>6. ASSUME NEW w \in Workers, ClaimDue(w) PROVE Still(v)
  <2>1. PICK n \in 0..BatchSize : \E t \in [1..n -> Claimable] : job' = Leased(Range(t))
    BY <1>6 DEF ClaimDue
  <2>2. PICK t \in [1..n -> Claimable] : job' = Leased(Range(t))
    BY <2>1
  <2>3. Range(t) \in SUBSET Claimable
    BY DEF Range
  <2>4. ~ Expired(c, p)
    BY <1>1, <1>6 DEF ClaimDue, JobFree
  <2> QED
    BY <1>1, <1>2, <2>2, <2>3, <2>4, ClaimDueMoves DEF IInv
<1>7. ASSUME NEW cl \in Clients, WriteCustomer(cl) PROVE Still(v)
  <2>1. c # request[cl].conversation
    BY <1>1, <1>7 DEF WriteCustomer, Locked
  <2>2. job' = job \/ \E x : job' = [job EXCEPT ![request[cl].conversation] = x]
    BY <1>7 DEF WriteCustomer
  <2>3. job'[c] = job[c]
    BY <1>1, <2>1, <2>2 DEF JobTable
  <2> QED
    BY <1>2, <2>3
<1>8. ASSUME NEW cl \in Clients, WriteStaff(cl) \/ ChangeControl(cl) PROVE Still(v)
  <2>1. /\ ConversationFree(request[cl].conversation)
        /\ job' = job \/ \E x : job' = [job EXCEPT ![request[cl].conversation] = x]
    BY <1>8 DEF WriteStaff, ChangeControl
  <2>2. c # request[cl].conversation
    BY <1>1, <2>1 DEF ConversationFree
  <2>3. job'[c] = job[c]
    BY <1>1, <2>1, <2>2 DEF JobTable
  <2> QED
    BY <1>2, <2>3
<1>9. CASE CommitSave
  <2>1. job' = job
    BY <1>1, <1>9 DEF CommitSave, JobFree
  <2> QED
    BY <1>2, <2>1
<1>10. ASSUME NEW d \in Conversations, NEW q \in Positions, BecomesDue(d, q) \/ LeaseEnds(d, q)
       PROVE  Still(v)
  <2>1. job[d][q] \in Jobs
    BY <1>1 DEF JobTable
  <2>2. PICK x \in BOOLEAN :
           \/ job' = [job EXCEPT ![d][q] = [job[d][q] EXCEPT !.due = x]]
           \/ job' = [job EXCEPT ![d][q] = [job[d][q] EXCEPT !.leased = x]]
    BY <1>10, <2>1 DEF BecomesDue, LeaseEnds
  <2>3. PICK j \in Jobs : /\ job' = [job EXCEPT ![d][q] = j]
                          /\ j.status = job[d][q].status /\ j.attempts = job[d][q].attempts
    BY <2>1, <2>2 DEF Jobs
  <2> QED
    BY <1>1, <2>3 DEF JobTable, Still
<1>11. ASSUME job' = job PROVE Still(v)
  BY <1>11 DEF Still
<1> QED
  BY <1>3, <1>4, <1>5, <1>6, <1>7, <1>8, <1>9, <1>10, <1>11
     DEF Next, ClientStep, WorkerStep, LockConversation, SharePolicy, Submit, Check, Generate,
         Share, FinalizeThrows, Crash, BeginSave, Hour, Tick, vars

\* An append comes to lock a conversation only when it is free.
LEMMA RequestsLock ==
    ASSUME IInv, [Next]_vars, NEW cl \in Clients,
           request'[cl].kind = "customer", request'[cl].stage # "created"
    PROVE  /\ request[cl].kind = "customer"
           /\ request'[cl].conversation = request[cl].conversation
           /\ \/ request[cl].stage # "created"
              \/ ConversationFree(request[cl].conversation) /\ UNCHANGED worker
<1> DEFINE Goal == /\ request[cl].kind = "customer"
                   /\ request'[cl].conversation = request[cl].conversation
                   /\ \/ request[cl].stage # "created"
                      \/ ConversationFree(request[cl].conversation) /\ UNCHANGED worker
<1>1. request \in [Clients -> Requests \cup {NoRequest}]
  BY Tables DEF IInv, Typed
<1>2. ASSUME request'[cl] = request[cl] PROVE Goal
  BY <1>2
<1>3. ASSUME NEW k \in Clients, Done(k) PROVE Goal
  BY <1>1, <1>2, <1>3 DEF Done, NoRequest
<1>4. ASSUME NEW k \in Clients, LockConversation(k) PROVE Goal
  <2>1. CASE k # cl
    BY <1>1, <1>2, <1>4, <2>1 DEF LockConversation
  <2>2. CASE k = cl
    <3>1. request'[cl] = [request[cl] EXCEPT !.stage = "locked"]
      BY <1>1, <1>4, <2>2 DEF LockConversation
    <3> QED
      BY <1>4, <2>2, <3>1, CustomerRequest DEF LockConversation
  <2> QED
    BY <2>1, <2>2
<1>5. ASSUME NEW k \in Clients, SharePolicy(k) PROVE Goal
  <2>1. CASE k # cl
    BY <1>1, <1>2, <1>5, <2>1 DEF SharePolicy
  <2>2. CASE k = cl
    <3>1. /\ request'[cl] = [request[cl] EXCEPT !.stage = "shared", !.mode = policy]
          /\ request[cl].kind = "customer" /\ request[cl].stage # "created"
      BY <1>1, <1>5, <2>2 DEF SharePolicy
    <3>2. request[cl] \in [kind : {"customer"}, conversation : Conversations,
                           created : 0..MaxClock, plan : Plans,
                           stage : {"created", "locked", "shared"},
                           mode : Modes \cup {"ABSENT"}]
      BY <3>1, CustomerRequest
    <3>3. request'[cl].conversation = request[cl].conversation
      BY <3>1, <3>2
    <3> QED
      BY <3>1, <3>3
  <2> QED
    BY <2>1, <2>2
<1>6. ASSUME NEW k \in Clients, NEW c \in Conversations, Submit(k, c) PROVE Goal
  <2>1. CASE k # cl
    BY <1>1, <1>2, <1>6, <2>1 DEF Submit
  <2>2. CASE k = cl
    <3>1. request'[cl].kind = "customer" => request'[cl].stage = "created"
      BY <1>1, <1>6, <2>2 DEF Submit
    <3> QED
      BY <3>1
  <2> QED
    BY <2>1, <2>2
<1> HIDE DEF Goal
<1>7. ASSUME UNCHANGED request PROVE Goal
  BY <1>2, <1>7
<1>8. Goal
  BY <1>3, <1>4, <1>5, <1>6, <1>7 DEF Next, ClientStep, WriteCustomer, WriteStaff, ChangeControl,
     WorkerStep, ClaimDue, Check, Cancel, Prepare, Generate, Share, Judge, AskAgain, Answer, Fail,
     FinalizeThrows, Crash, BecomesDue, LeaseEnds, BeginSave, CommitSave, Hour, Tick, vars
<1> QED
  BY <1>8 DEF Goal

\* What is locked stays locked for one: a lock is taken only where nobody has it.
LEMMA LockedStep ==
    ASSUME IInv, Locked, [Next]_vars
    PROVE  Locked'
<1>1. ASSUME NEW v \in Workers, worker'[v].phase \in {"judged", "cleared"}
      PROVE  Holds(Current(v))'
  <2>1. /\ Current(v)' = Current(v)
        /\ \/ worker[v].phase \in {"judged", "cleared"}
           \/ worker[v].phase = "shared" /\ Holds(Current(v)) /\ UNCHANGED job
    BY <1>1, WorkersLock
  <2>2. Holds(Current(v)) /\ Still(v)
    BY <1>1, <2>1, LockedStill DEF Locked, Still
  <2> QED
    BY <2>1, <2>2 DEF Holds, Of, Still
<1>2. ASSUME NEW v \in Workers, NEW w \in Workers, NEW c \in Conversations,
             Locks(v, c)', Locks(w, c)', v # w
      PROVE  FALSE
  <2>1. /\ worker'[v].phase \in {"judged", "cleared"} /\ Current(v)'.conversation = c
        /\ worker'[w].phase \in {"judged", "cleared"} /\ Current(w)'.conversation = c
    BY <1>2 DEF Locks
  <2>2. /\ Current(v)' = Current(v) /\ Current(w)' = Current(w)
        /\ \/ worker[v].phase \in {"judged", "cleared"}
           \/ /\ ConversationFree(c) /\ worker'[w] = worker[w]
        /\ \/ worker[w].phase \in {"judged", "cleared"}
           \/ /\ ConversationFree(c) /\ worker'[v] = worker[v]
    BY <1>2, <2>1, WorkersLock
  <2> QED
    BY <1>2, <2>1, <2>2 DEF Locked, Locks, ConversationFree
<1>3. ASSUME NEW v \in Workers, NEW cl \in Clients,
             request'[cl].kind = "customer", request'[cl].stage # "created",
             Locks(v, request[cl].conversation)'
      PROVE  FALSE
  <2>0. PICK c : c = request[cl].conversation
    OBVIOUS
  <2>1. /\ request[cl].kind = "customer" /\ request'[cl].conversation = c
        /\ \/ request[cl].stage # "created"
           \/ ConversationFree(c) /\ UNCHANGED worker
    BY <1>3, <2>0, RequestsLock
  <2>2. worker'[v].phase \in {"judged", "cleared"} /\ Current(v)'.conversation = c
    BY <1>3, <2>1 DEF Locks
  <2>3. /\ Current(v)' = Current(v)
        /\ \/ worker[v].phase \in {"judged", "cleared"}
           \/ ConversationFree(c) /\ UNCHANGED request
    BY <2>2, WorkersLock
  <2>4. c \in Conversations
    BY <2>0, <2>1, CustomerRequest
  <2> QED
    BY <1>3, <2>0, <2>1, <2>2, <2>3, <2>4 DEF Locked, Locks, ConversationFree
<1> QED
  BY <1>1, <1>2, <1>3 DEF Locked

\* The locks and the places hold in every state of every run.
LEMMA Locking == Spec => [](IInv /\ Locked /\ Placed)
<1>1. Init => Locked /\ Placed
  BY DEF Init, Locked, Placed, Locks, NoRequest, NoJob
<1>2. IInv /\ Locked /\ Placed /\ [Next]_vars => Locked' /\ Placed'
  BY LockedStep, PlacedStep
<1> QED
  BY <1>1, <1>2, InitSafe, NextSafe, PTL DEF Spec

\* For any number of workers, clients and claims: final states are final, only a
\* lease that ran out takes a claim back, and only the worker that holds the last
\* claim, or the recovery of a job without claims left, gives it SUCCEEDED or FAILED.
THEOREM JobsLiveLegally == Spec => LegalTransitions
<1>1. IInv /\ Placed /\ [Next]_vars
         => \A c \in Conversations, p \in Positions : Legal(c, p)
  BY AllMove DEF Moves
<1>2. IInv /\ Placed /\ [Next]_vars
         => [\A c \in Conversations, p \in Positions :
                LET j == job[c][p]
                    k == job'[c][p]
                IN  /\ j.status \in Final => k.status = j.status
                    /\ k.status = "PENDING" /\ j.status # "PENDING" =>
                          j.status = "NONE" \/ (j.status = "RUNNING" /\ ~ j.leased)
                    /\ k.status \in {"SUCCEEDED", "FAILED"} /\ j.status # k.status =>
                          /\ j.status = "RUNNING"
                          /\ \/ ~ j.leased /\ j.attempts = MaxClaims
                             \/ \E w \in Workers :
                                   /\ worker[w].phase \in {"cleared", "fail"}
                                   /\ Current(w) = [conversation |-> c, trigger |-> p,
                                                    token |-> j.attempts]]_vars
  BY <1>1 DEF Legal
<1> QED
  BY <1>2, Locking, PTL DEF Spec, LegalTransitions
-----------------------------------------------------------------------------
(* The promise (HumansFirst).                                                  *)

\* The assistant is cleared in c.
Clears(w, c) == worker[w].phase = "cleared" /\ Current(w).conversation = c

LEMMA ClearedIs ==
    /\ Cleared = [c \in Conversations |-> \E w \in Workers : Clears(w, c)]
    /\ Cleared' = [c \in Conversations |-> \E w \in Workers : Clears(w, c)']
  BY DEF Cleared, Clears, Phase

LEMMA ClearedSame ==
    ASSUME \A w \in Workers, c \in Conversations : Clears(w, c)' <=> Clears(w, c)
    PROVE  Cleared' = Cleared
  BY ClearedIs

\* Where nobody has a lock, nobody is cleared.
LEMMA FreeIsNotCleared ==
    ASSUME NEW c \in Conversations, \A w \in Workers : ~ Locks(w, c), UNCHANGED worker
    PROVE  Cleared' = [Cleared EXCEPT ![c] = FALSE]
<1>1. \A w \in Workers : ~ Clears(w, c)
  BY DEF Locks, Clears
<1>2. \A w \in Workers, d \in Conversations : Clears(w, d)' <=> Clears(w, d)
  BY DEF Clears, Current
<1> QED
  BY <1>1, <1>2, ClearedIs

\* A worker that was cleared goes on: nobody else was cleared there.
LEMMA ClearedGoesOn ==
    ASSUME IInv, Locked, NEW w \in Workers, worker[w].phase = "cleared",
           worker'[w].phase # "cleared",
           \A v \in Workers : v # w => worker'[v] = worker[v]
    PROVE  /\ Current(w).conversation \in Conversations
           /\ Cleared[Current(w).conversation]
           /\ Cleared' = [Cleared EXCEPT ![Current(w).conversation] = FALSE]
<1>1. PICK c \in Conversations : c = Current(w).conversation
  BY CurrentClaim DEF IInv
<1>2. Clears(w, c) /\ ~ Clears(w, c)'
  BY <1>1 DEF Clears
<1>3. \A v \in Workers : v # w => ~ Clears(v, c)
  BY <1>1, <1>2 DEF Clears, Locked, Locks
<1>4. \A v \in Workers, d \in Conversations : v # w => (Clears(v, d)' <=> Clears(v, d))
  BY DEF Clears, Current
<1>5. \A d \in Conversations : ~ Clears(w, d)' /\ (d # c => ~ Clears(w, d))
  BY <1>1, <1>2 DEF Clears
<1>6. Cleared[c]
  BY <1>2, ClearedIs
<1>7. \A d \in Conversations : d # c =>
         ((\E v \in Workers : Clears(v, d)') <=> (\E v \in Workers : Clears(v, d)))
  BY <1>4, <1>5
<1>8. ~ \E v \in Workers : Clears(v, c)'
  BY <1>3, <1>4, <1>5
<1>9. Cleared' = [Cleared EXCEPT ![c] = FALSE]
  BY <1>7, <1>8, ClearedIs
<1> QED
  BY <1>1, <1>6, <1>9

\* A worker is cleared.
LEMMA ClearedNow ==
    ASSUME IInv, NEW w \in Workers, worker[w].phase = "judged", Goto(w, "cleared")
    PROVE  Cleared' = [Cleared EXCEPT ![Current(w).conversation] = TRUE]
<1>1. PICK c \in Conversations : c = Current(w).conversation
  BY CurrentClaim DEF IInv
<1>2. worker \in [Workers -> WorkerRows]
  BY Tables DEF IInv, Typed
<1>3. worker' = [worker EXCEPT ![w] = [worker[w] EXCEPT !.phase = "cleared"]]
  BY <1>2 DEF Goto, WorkerRows
<1>4. /\ Clears(w, c)'
      /\ \A d \in Conversations : d # c => ~ Clears(w, d)'
      /\ \A d \in Conversations : ~ Clears(w, d)
  BY <1>1, <1>2, <1>3 DEF Clears, Current, WorkerRows
<1>5. \A v \in Workers, d \in Conversations : v # w => (Clears(v, d)' <=> Clears(v, d))
  BY <1>2, <1>3 DEF Clears, Current
<1>6. /\ \E v \in Workers : Clears(v, c)'
      /\ \A d \in Conversations : d # c =>
            ((\E v \in Workers : Clears(v, d)') <=> (\E v \in Workers : Clears(v, d)))
  BY <1>4, <1>5
<1> QED
  BY <1>1, <1>6, ClearedIs

\* A step of a worker that neither was nor is cleared.
LEMMA NotCleared ==
    ASSUME NEW w \in Workers, worker[w].phase # "cleared", worker'[w].phase # "cleared",
           \A v \in Workers : v # w => worker'[v] = worker[v]
    PROVE  Cleared' = Cleared
<1>1. \A v \in Workers, d \in Conversations : Clears(v, d)' <=> Clears(v, d)
  BY DEF Clears, Current
<1> QED
  BY <1>1, ClearedSame

LEMMA SendersAppended ==
    ASSUME TypeOK, NEW c0 \in Conversations, NEW m \in Messages,
           log' = [log EXCEPT ![c0] = Append(log[c0], m)]
    PROVE  Senders' = [Senders EXCEPT ![c0] = Append(Senders[c0], m.sender)]
<1> DEFINE n == Len(log[c0])
           old == [i \in 1..n |-> log[c0][i].sender]
           new == [i \in 1..n + 1 |-> log'[c0][i].sender]
<1>1. /\ \A c \in Conversations : c # c0 => log'[c] = log[c]
      /\ DOMAIN log'[c0] = 1..n + 1
      /\ \A q \in 1..n : log'[c0][q] = log[c0][q]
      /\ log'[c0][n + 1] = m
      /\ DOMAIN log[c0] = 1..n /\ n \in Nat
      /\ \A q \in DOMAIN log[c0] : log[c0][q] \in Messages
  BY Appended, LogTypes
<1>2. \A c \in Conversations : Senders[c] = [i \in DOMAIN log[c] |-> log[c][i].sender]
  BY DEF Senders
<1>3. \A c \in Conversations : Senders'[c] = [i \in DOMAIN log'[c] |-> log'[c][i].sender]
  BY DEF Senders
<1>4. Senders[c0] = old /\ Senders'[c0] = new
  BY <1>1, <1>2, <1>3
<1>5. new = Append(old, m.sender)
  <2>1. old \in Seq({"CUSTOMER", "INTERNAL_USER", "AI_AGENT"}) /\ Len(old) = n
    BY <1>1 DEF Messages
  <2>2. m.sender \in {"CUSTOMER", "INTERNAL_USER", "AI_AGENT"}
    BY DEF Messages
  <2>3. new \in Seq({"CUSTOMER", "INTERNAL_USER", "AI_AGENT"}) /\ Len(new) = n + 1
    BY <1>1, <2>2 DEF Messages
  <2>4. /\ \A i \in 1..n : new[i] = old[i]
        /\ new[n + 1] = m.sender
    BY <1>1
  <2> HIDE DEF old, new
  <2>5. /\ Append(old, m.sender) \in Seq({"CUSTOMER", "INTERNAL_USER", "AI_AGENT"})
        /\ Len(Append(old, m.sender)) = n + 1
        /\ \A i \in 1..n : Append(old, m.sender)[i] = old[i]
        /\ Append(old, m.sender)[n + 1] = m.sender
    BY <2>1, <2>2, AppendProperties
  <2>6. /\ DOMAIN Append(old, m.sender) = 1..n + 1 /\ DOMAIN new = 1..n + 1
        /\ Append(old, m.sender) = [i \in DOMAIN Append(old, m.sender) |-> Append(old, m.sender)[i]]
        /\ new = [i \in DOMAIN new |-> new[i]]
    BY <2>3, <2>5, LenProperties
  <2>7. \A i \in 1..n + 1 : new[i] = Append(old, m.sender)[i]
    BY <1>1, <2>4, <2>5
  <2> QED
    BY <2>6, <2>7
<1> HIDE DEF old, new
<1>6. ASSUME NEW c \in Conversations, c # c0
      PROVE  Senders'[c] = Senders[c]
  <2>1. log'[c] = log[c]
    BY <1>1, <1>6
  <2>2. /\ Senders[c] = [i \in DOMAIN log[c] |-> log[c][i].sender]
        /\ Senders'[c] = [i \in DOMAIN log'[c] |-> log'[c][i].sender]
    BY <1>2, <1>3
  <2> QED
    BY <2>1, <2>2
<1>7. /\ DOMAIN Senders = Conversations /\ DOMAIN Senders' = Conversations
      /\ Senders = [c \in Conversations |-> Senders[c]]
      /\ Senders' = [c \in Conversations |-> Senders'[c]]
  BY DEF Senders
<1> QED
  BY <1>4, <1>5, <1>6, <1>7

LEMMA NewestIs ==
    ASSUME IInv, NEW c \in Conversations, NEW p \in Positions, IsActive(job[c][p])
    PROVE  Promise!Newest(c) = "CUSTOMER"
<1>1. /\ Len(log[c]) = p /\ DOMAIN log[c] = 1..p /\ p \in Nat /\ p >= 1
      /\ log[c][p].sender = "CUSTOMER"
  BY ActiveIsNewest, LogTypes, Positive DEF IInv, Typed, ActiveJobsAreWanted
<1>2. Senders[c] = [i \in 1..p |-> log[c][i].sender]
  BY <1>1 DEF Senders
<1>3. Len(Senders[c]) = p /\ Senders[c] # <<>> /\ Senders[c][p] = "CUSTOMER"
  BY <1>1, <1>2
<1> QED
  BY <1>3 DEF Promise!Newest

LEMMA SameSenders == ASSUME UNCHANGED log PROVE Senders' = Senders
  BY DEF Senders

\* The assistant says what it was cleared for, or gives up.
LEMMA AssistantPromise ==
    ASSUME IInv, Locked, NEW w \in Workers, worker[w].phase = "cleared",
           worker'[w].phase # "cleared",
           \A v \in Workers : v # w => worker'[v] = worker[v],
           UNCHANGED <<control, policy, open>>,
           \/ UNCHANGED log
           \/ \E m \in Messages :
                 /\ m.sender = "AI_AGENT"
                 /\ log' = [log EXCEPT ![Current(w).conversation] =
                              Append(log[Current(w).conversation], m)]
    PROVE  Promise!Next
<1>1. PICK c \in Conversations : c = Current(w).conversation
  BY CurrentClaim DEF IInv
<1>2. Cleared[c] /\ Cleared' = [Cleared EXCEPT ![c] = FALSE]
  BY <1>1, ClearedGoesOn
<1>3. \/ Senders' = [Senders EXCEPT ![c] = Append(Senders[c], "AI_AGENT")]
      \/ UNCHANGED Senders
  BY <1>1, SendersAppended, SameSenders DEF IInv, Typed
<1>4. Promise!Assistant(c)
  BY <1>2, <1>3 DEF Promise!Assistant
<1> QED
  BY <1>4 DEF Promise!Next

LEMMA AnswerPromise ==
    ASSUME IInv, Locked, NEW w \in Workers, Answer(w)
    PROVE  Promise!Next
<1>1. /\ worker[w].phase = "cleared" /\ Advance(w)
      /\ UNCHANGED <<control, policy, open>>
      /\ \/ log' = log
         \/ log' = [log EXCEPT ![Current(w).conversation] =
                      Append(log[Current(w).conversation],
                             [sender |-> "AI_AGENT", answers |-> Current(w).trigger])]
  BY DEF Answer, Phase
<1>2. [sender |-> "AI_AGENT", answers |-> Current(w).trigger] \in Messages
  BY <1>1, CurrentClaim DEF IInv, Messages
<1>3. worker'[w].phase # "cleared" /\ \A v \in Workers : v # w => worker'[v] = worker[v]
  BY <1>1, AdvanceType DEF IInv
<1> QED
  BY <1>1, <1>2, <1>3, AssistantPromise

\* The worker is cleared while the job is held: its trigger is the newest message.
LEMMA AskAgainPromise ==
    ASSUME IInv, Locked, NEW w \in Workers, AskAgain(w)
    PROVE  Promise!Next \/ UNCHANGED Promise!promise
<1>1. /\ worker[w].phase = "judged" /\ UNCHANGED <<log, control, policy, open>>
      /\ (Allowed /\ Goto(w, "cleared")) \/ Advance(w)
      /\ Senders' = Senders
  BY SameSenders DEF AskAgain, Phase
<1>2. CASE Advance(w)
  <2>1. worker'[w].phase # "cleared" /\ \A v \in Workers : v # w => worker'[v] = worker[v]
    BY <1>1, <1>2, AdvanceType DEF IInv
  <2> QED
    BY <1>1, <2>1, NotCleared DEF Promise!promise
<1>3. CASE Allowed /\ Goto(w, "cleared")
  <2>1. PICK c \in Conversations, p \in Positions :
           c = Current(w).conversation /\ p = Current(w).trigger
    BY <1>1, CurrentClaim DEF IInv
  <2>2. IsActive(job[c][p])
    BY <1>1, <2>1 DEF Locked, Holds, Of, IsActive, Active
  <2>3. Promise!Newest(c) = "CUSTOMER" /\ control[c] = "AUTO"
    BY <2>2, NewestIs DEF IInv, ActiveJobsAreWanted, Blocking
  <2>4. Cleared' = [Cleared EXCEPT ![c] = TRUE]
    BY <1>1, <1>3, <2>1, ClearedNow
  <2>5. Promise!Clear(c)
    BY <1>1, <1>3, <2>3, <2>4 DEF Promise!Clear, Allowed
  <2> QED
    BY <2>5 DEF Promise!Next
<1> QED
  BY <1>1, <1>2, <1>3

\* The other steps of a worker leave the messages alone; a cleared worker may give up.
LEMMA OtherWorkerPromise ==
    ASSUME IInv, Locked, NEW w \in Workers,
           \/ ClaimDue(w) \/ Check(w) \/ Cancel(w) \/ Prepare(w) \/ Generate(w) \/ Share(w)
           \/ Judge(w) \/ Fail(w) \/ FinalizeThrows(w) \/ Crash(w)
    PROVE  Promise!Next \/ UNCHANGED Promise!promise
<1>1. UNCHANGED <<log, control, policy, open>> /\ Senders' = Senders
  BY SameSenders DEF ClaimDue, Check, Cancel, Prepare, Generate, Share, Judge, Fail,
     FinalizeThrows, Crash
<1>2. worker \in [Workers -> WorkerRows]
  BY Tables DEF IInv, Typed
<1>3. worker'[w].phase # "cleared" /\ \A v \in Workers : v # w => worker'[v] = worker[v]
  <2>2. ASSUME NEW ph, Goto(w, ph), ph # "cleared"
        PROVE  worker'[w].phase # "cleared" /\ \A v \in Workers : v # w => worker'[v] = worker[v]
    BY <1>2, <2>2 DEF Goto, WorkerRows
  <2>3. ASSUME Advance(w)
        PROVE  worker'[w].phase # "cleared" /\ \A v \in Workers : v # w => worker'[v] = worker[v]
    BY <1>2, <2>3 DEF Advance
  <2>4. CASE ClaimDue(w)
    <3>1. \E n \in 0..BatchSize : \E taken \in [1..n -> Claimable] :
             worker' = [worker EXCEPT ![w] =
                [phase |-> IF n = 0 THEN "idle" ELSE "check",
                 batch |-> [i \in 1..n |-> ClaimOf(taken[i])]]]
      BY <2>4 DEF ClaimDue
    <3>2. \E n, b : worker' = [worker EXCEPT ![w] =
                                  [phase |-> IF n = 0 THEN "idle" ELSE "check", batch |-> b]]
      BY <3>1, Zenon
    <3>3. PICK n, b : worker' = [worker EXCEPT ![w] =
                                   [phase |-> IF n = 0 THEN "idle" ELSE "check", batch |-> b]]
      BY <3>2
    <3> QED
      BY <1>2, <3>3
  <2>5. CASE Crash(w)
    BY <1>2, <2>5 DEF Crash
  <2>6. CASE \/ Check(w) \/ Cancel(w) \/ Prepare(w) \/ Generate(w) \/ Share(w)
             \/ Judge(w) \/ Fail(w) \/ FinalizeThrows(w)
    <3>1. \/ Advance(w)
          \/ \E ph \in {"prepare", "cancel", "generate", "finalize", "fail", "shared", "judged"} :
                Goto(w, ph)
      BY <2>6 DEF Check, Cancel, Prepare, Generate, Share, Judge, Fail, FinalizeThrows, Judgement
    <3> QED
      BY <2>2, <2>3, <3>1
  <2> QED
    BY <2>4, <2>5, <2>6
<1>4. CASE worker[w].phase = "cleared"
  BY <1>1, <1>3, <1>4, AssistantPromise
<1>5. CASE worker[w].phase # "cleared"
  BY <1>1, <1>3, <1>5, NotCleared DEF Promise!promise
<1> QED
  BY <1>4, <1>5

\* Nothing the promise speaks of changes.
LEMMA NothingPromised ==
    ASSUME UNCHANGED <<log, control, policy, open, worker>>
    PROVE  UNCHANGED Promise!promise
<1>1. \A w \in Workers, c \in Conversations : Clears(w, c)' <=> Clears(w, c)
  BY DEF Clears, Current
<1> QED
  BY <1>1, ClearedSame, SameSenders DEF Promise!promise

\* A customer or a colleague writes where no answer is in progress.
LEMMA HumanPromise ==
    ASSUME IInv, NEW c \in Conversations, NEW m \in Messages, m.sender # "AI_AGENT",
           log' = [log EXCEPT ![c] = Append(log[c], m)],
           \A w \in Workers : ~ Locks(w, c),
           UNCHANGED <<control, policy, open, worker>>
    PROVE  Promise!Next
<1>1. Senders' = [Senders EXCEPT ![c] = Append(Senders[c], m.sender)]
  BY SendersAppended DEF IInv, Typed
<1>2. m.sender \in {"CUSTOMER", "INTERNAL_USER"}
  BY DEF Messages
<1>3. Cleared' = [Cleared EXCEPT ![c] = FALSE]
  BY FreeIsNotCleared
<1>4. Promise!Human(c)
  BY <1>1, <1>2, <1>3 DEF Promise!Human
<1> QED
  BY <1>4 DEF Promise!Next

LEMMA WriteCustomerPromise ==
    ASSUME IInv, Locked, NEW cl \in Clients, WriteCustomer(cl)
    PROVE  Promise!Next \/ UNCHANGED Promise!promise
<1>1. PICK c \in Conversations : c = request[cl].conversation
  BY CustomerRequest DEF WriteCustomer
<1>2. \A w \in Workers : ~ Locks(w, c)
  BY <1>1 DEF WriteCustomer, Locked
<1>3. /\ UNCHANGED <<control, policy, open, worker>>
      /\ \/ log' = log
         \/ log' = [log EXCEPT ![c] = Append(log[c], [sender |-> "CUSTOMER", answers |-> 0])]
  BY <1>1 DEF WriteCustomer
<1>4. [sender |-> "CUSTOMER", answers |-> 0] \in Messages
  BY DEF Messages
<1> QED
  BY <1>2, <1>3, <1>4, HumanPromise, NothingPromised

LEMMA WriteStaffPromise ==
    ASSUME IInv, NEW cl \in Clients, WriteStaff(cl)
    PROVE  Promise!Next \/ UNCHANGED Promise!promise
<1>1. PICK c \in Conversations : c = request[cl].conversation
  BY DEF WriteStaff, IInv, Typed, TypeOK, Requests, NoRequest
<1>2. \A w \in Workers : ~ Locks(w, c)
  BY <1>1 DEF WriteStaff, ConversationFree
<1>3. /\ UNCHANGED <<control, policy, open, worker>>
      /\ \/ log' = log
         \/ log' = [log EXCEPT ![c] =
                      Append(log[c], [sender |-> "INTERNAL_USER", answers |-> 0])]
  BY <1>1 DEF WriteStaff
<1>4. [sender |-> "INTERNAL_USER", answers |-> 0] \in Messages
  BY DEF Messages
<1> QED
  BY <1>2, <1>3, <1>4, HumanPromise, NothingPromised

LEMMA ChangeControlPromise ==
    ASSUME IInv, NEW cl \in Clients, ChangeControl(cl)
    PROVE  Promise!Next \/ UNCHANGED Promise!promise
<1>1. PICK c \in Conversations, state \in Controls :
         c = request[cl].conversation /\ state = request[cl].state
  BY DEF ChangeControl, IInv, Typed, TypeOK, Requests, NoRequest
<1>2. /\ UNCHANGED <<log, policy, open, worker>>
      /\ \A w \in Workers : ~ Locks(w, c)
      /\ control' = control \/ control' = [control EXCEPT ![c] = state]
  BY <1>1 DEF ChangeControl, ConversationFree
<1>3. CASE control' = control
  BY <1>2, <1>3, NothingPromised
<1>4. CASE control' = [control EXCEPT ![c] = state]
  <2>1. Promise!Steer(c)
    BY <1>2, <1>4, FreeIsNotCleared, SameSenders DEF Promise!Steer, Controls
  <2> QED
    BY <2>1 DEF Promise!Next
<1> QED
  BY <1>2, <1>3, <1>4

\* A policy that is being saved is not shared by an answer in progress; one that is not
\* there has no job to answer.
LEMMA CommitSavePromise ==
    ASSUME IInv, Locked, CommitSave
    PROVE  Promise!Next
<1>1. /\ UNCHANGED <<log, control, open, worker>> /\ policy' = saving
      /\ saving \in Modes
  BY DEF CommitSave, IInv, Typed, TypeOK
<1>2. \A w \in Workers, c \in Conversations : ~ Clears(w, c)
  <2> SUFFICES ASSUME NEW w \in Workers, worker[w].phase = "cleared" PROVE FALSE
    BY DEF Clears
  <2>1. PICK c \in Conversations, p \in Positions :
           c = Current(w).conversation /\ p = Current(w).trigger
    BY CurrentClaim DEF IInv
  <2>2. IsActive(job[c][p])
    BY <2>1 DEF Locked, Holds, Of, IsActive, Active
  <2>3. policy = "ENABLED"
    BY <2>2 DEF IInv, ActiveJobsAreWanted
  <2>4. PolicyShared
    BY <2>3 DEF PolicyShared
  <2> QED
    BY <2>4 DEF IInv, PolicyHeld, CommitSave
<1>3. \A w \in Workers, c \in Conversations : Clears(w, c)' <=> Clears(w, c)
  BY <1>1 DEF Clears, Current
<1>4. Cleared' = Cleared /\ Cleared' = [c \in Conversations |-> FALSE]
  BY <1>2, <1>3, ClearedIs, ClearedSame
<1>5. CASE saving = "ENABLED"
  <2>1. Promise!Enable
    BY <1>1, <1>4, <1>5, SameSenders DEF Promise!Enable
  <2> QED
    BY <2>1 DEF Promise!Next
<1>6. CASE saving = "DISABLED"
  <2>1. Promise!Disable
    BY <1>1, <1>4, <1>6, SameSenders DEF Promise!Disable
  <2> QED
    BY <2>1 DEF Promise!Next
<1> QED
  BY <1>1, <1>5, <1>6 DEF Modes

LEMMA HourPromise ==
    ASSUME Hour
    PROVE  Promise!Next
<1>1. UNCHANGED <<log, control, policy, worker>> /\ open' = ~ open
  BY DEF Hour
<1>2. \A w \in Workers, c \in Conversations : Clears(w, c)' <=> Clears(w, c)
  BY <1>1 DEF Clears, Current
<1>3. Promise!Hour
  BY <1>1, <1>2, ClearedSame, SameSenders DEF Promise!Hour
<1> QED
  BY <1>3 DEF Promise!Next

LEMMA PromiseStep ==
    ASSUME IInv, Locked, [Next]_vars
    PROVE  Promise!Next \/ UNCHANGED Promise!promise
<1>1. ASSUME NEW w \in Workers, WorkerStep(w) \/ FinalizeThrows(w) \/ Crash(w)
      PROVE  Promise!Next \/ UNCHANGED Promise!promise
  BY <1>1, AnswerPromise, AskAgainPromise, OtherWorkerPromise DEF WorkerStep
<1>2. ASSUME NEW cl \in Clients, ClientStep(cl) \/ \E c \in Conversations : Submit(cl, c)
      PROVE  Promise!Next \/ UNCHANGED Promise!promise
  <2>1. CASE WriteCustomer(cl)
    BY <2>1, WriteCustomerPromise
  <2>2. CASE WriteStaff(cl)
    BY <2>2, WriteStaffPromise
  <2>3. CASE ChangeControl(cl)
    BY <2>3, ChangeControlPromise
  <2>4. CASE LockConversation(cl) \/ SharePolicy(cl) \/ \E c \in Conversations : Submit(cl, c)
    BY <2>4, NothingPromised DEF LockConversation, SharePolicy, Submit
  <2> QED
    BY <1>2, <2>1, <2>2, <2>3, <2>4 DEF ClientStep
<1>3. CASE \/ \E c \in Conversations, p \in Positions : BecomesDue(c, p) \/ LeaseEnds(c, p)
           \/ BeginSave \/ Tick \/ UNCHANGED vars
  BY <1>3, NothingPromised DEF BecomesDue, LeaseEnds, BeginSave, Tick, vars
<1> QED
  BY <1>1, <1>2, <1>3, CommitSavePromise, HourPromise DEF Next

\* For any number of workers, conversations and messages, and whatever crashes: the
\* assistant speaks only where it was cleared to answer the newest message, and what
\* would have kept it from being cleared takes the clearance back.
THEOREM HumansComeFirst == Spec => PutsHumansFirst
<1>1. Init => Promise!Init
  <2> SUFFICES ASSUME Init PROVE Promise!Init
    OBVIOUS
  <2>1. Senders = [c \in Conversations |-> <<>>]
    BY DEF Init, Senders
  <2>2. \A w \in Workers, c \in Conversations : ~ Clears(w, c)
    BY DEF Init, Clears
  <2>3. Cleared = [c \in Conversations |-> FALSE]
    BY <2>2, ClearedIs
  <2> QED
    BY <2>1, <2>3 DEF Init, Promise!Init
<1>2. IInv /\ Locked /\ [Next]_vars => [Promise!Next]_(Promise!promise)
  BY PromiseStep
<1> QED
  BY <1>1, <1>2, Locking, PTL DEF Spec, PutsHumansFirst, Promise!Spec
=============================================================================
