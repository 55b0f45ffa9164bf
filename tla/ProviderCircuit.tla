-------------------------- MODULE ProviderCircuit --------------------------
(***************************************************************************)
(* Calls to language models and the circuits that guard them:              *)
(* execute-ai-provider-request.ts, ai-provider-failure-policy.ts and       *)
(* postgres-ai-runtime-health-repository.ts.                               *)
(*                                                                         *)
(* A call tries its candidates in turn, each with its credentials, each of *)
(* those at most twice.  A target (candidate and credential) has a row     *)
(* with its circuit, shared by all processes.  An attempt takes a permit,  *)
(* which is the version it gives the row; its result is written only if    *)
(* the row still has that version.                                         *)
(*                                                                         *)
(* Every statement is one step.  A version is compared for equality only:  *)
(* it is named by the call it was given to.  Time is abstract: a circuit   *)
(* has been open long enough, or a probe's lease runs out, at any moment.  *)
(***************************************************************************)
EXTENDS Integers, Sequences, FiniteSets

CONSTANTS
    Calls,         \* calls in progress at one time, of all processes
    Route,         \* the number of credentials of each candidate, in order
    MaxAttempts,   \* maxAttemptsPerCredential
    Threshold,     \* circuitFailureThreshold
    SlowProbes,    \* whether a call may take longer than halfOpenLeaseMs
    MaxFaults      \* bound: failed database calls and crashes

ASSUME CircuitAssumption ==
    /\ Route \in Seq(Nat \ {0}) /\ Route # <<>>
    /\ {MaxAttempts, Threshold} \subseteq Nat \ {0}
    /\ SlowProbes \in BOOLEAN
    /\ MaxFaults \in Nat
    /\ "none" \notin Calls

VARIABLES
    health,   \* ai_provider_runtime_health, by target
    call,     \* where each call is in execute
    faults    \* faults so far

vars == <<health, call, faults>>
-----------------------------------------------------------------------------
Targets == UNION {{<<c, k>> : k \in 1..Route[c]} : c \in DOMAIN Route}
End     == <<0, 0>>

States  == {"CLOSED", "OPEN", "HALF_OPEN"}

\* How an attempt ends.  outage: TIMEOUT, NETWORK, PROVIDER_UNAVAILABLE or
\* PROVIDER_SERVER_ERROR; limit: RATE_LIMIT; credential: AUTHENTICATION,
\* PERMISSION or MISSING_SECRET; model: MODEL_NOT_FOUND_OR_CONFIG or
\* MALFORMED_RESPONSE; terminal: the others.
Outcomes       == {"success", "outage", "limit", "credential", "model", "terminal"}
Qualifying     == {"outage"}
Retryable      == {"outage", "limit"}
MovesCandidate == {"limit", "model"}
Ends           == {"success", "terminal"}

\* over: open_until (OPEN) or half_open_lease_until (HALF_OPEN) has passed.
\* permit: the call that the row's version was given to, if any.
Rows == [state : States, failures : 0..Threshold, over : BOOLEAN, permit : Calls \cup {"none"}]

NoCall == [phase |-> "idle", at |-> End, retry |-> 0, probe |-> FALSE,
           outcome |-> "none"]
CallRows == [phase : {"acquire", "calling", "record"}, at : Targets, retry : 0..MaxAttempts - 1,
             probe : BOOLEAN, outcome : Outcomes \cup {"none"}]

TypeOK ==
    /\ health \in [Targets -> Rows]
    /\ call \in [Calls -> CallRows \cup {NoCall}]
    /\ faults \in 0..MaxFaults

\* A target without a row yet is one that is CLOSED.
Init ==
    /\ health = [t \in Targets |->
                   [state |-> "CLOSED", failures |-> 0, over |-> FALSE, permit |-> "none"]]
    /\ call = [r \in Calls |-> NoCall]
    /\ faults = 0
-----------------------------------------------------------------------------
(* The circuit of a target.                                                *)

\* Mutant: a probe that is under way keeps the others out for good.
ShutByProbe(h) == (h.state = "OPEN" /\ ~ h.over) \/ h.state = "HALF_OPEN"

\* acquire refuses.
Shut(h) == h.state # "CLOSED" /\ ~ h.over

\* acquire: a circuit that has been open long enough, or whose probe's lease
\* ran out, lets one probe through.
Permitted(h, r) == [h EXCEPT !.state = IF h.state = "CLOSED" THEN "CLOSED" ELSE "HALF_OPEN",
                             !.over = FALSE, !.permit = r]

\* recordSuccess
Succeeded(h) == [state |-> "CLOSED", failures |-> 0, over |-> FALSE, permit |-> "none"]

Opens(h) == h.state = "HALF_OPEN" \/ h.failures + 1 >= Threshold

\* recordQualifyingFailure; failures above the threshold make no difference.
Failed(h) ==
    [state |-> IF Opens(h) THEN "OPEN" ELSE "CLOSED",
     failures |-> IF h.failures < Threshold THEN h.failures + 1 ELSE Threshold,
     over |-> FALSE, permit |-> "none"]

\* releaseWithoutHealthChange: a probe that tells nothing leaves the circuit to
\* the next one.
Released(h) ==
    [h EXCEPT !.state = IF h.state = "HALF_OPEN" THEN "OPEN" ELSE h.state,
              !.over = h.state = "HALF_OPEN" \/ h.over, !.permit = "none"]

Recorded(h, outcome) ==
    IF outcome = "success" THEN Succeeded(h)
    ELSE IF outcome \in Qualifying THEN Failed(h)
    ELSE Released(h)

\* Mutant: the update names the target only.
WriteByTarget(r) == health' = [health EXCEPT ![call[r].at] = Recorded(@, call[r].outcome)]

\* Only the row's version may write it.
Write(r) ==
    health' = [health EXCEPT ![call[r].at] =
                 IF @.permit = r THEN Recorded(@, call[r].outcome) ELSE @]
-----------------------------------------------------------------------------
(* A call.                                                                 *)

NextCandidate(t) == IF t[1] < Len(Route) THEN <<t[1] + 1, 1>> ELSE End

NextCredential(t) == IF t[2] < Route[t[1]] THEN <<t[1], t[2] + 1>> ELSE NextCandidate(t)

Finish(r) == call' = [call EXCEPT ![r] = NoCall]

\* Mutant: retries are not counted.
TryUncounted(r, t) ==
    IF t = End THEN Finish(r)
    ELSE call' = [call EXCEPT ![r] = [NoCall EXCEPT !.phase = "acquire", !.at = t]]

\* An attempt at t: the first one at a new target, a retry at the same.
Try(r, t) ==
    IF t = End THEN Finish(r)
    ELSE call' = [call EXCEPT ![r] =
             [NoCall EXCEPT !.phase = "acquire", !.at = t,
                            !.retry = IF t = call[r].at THEN call[r].retry + 1 ELSE 0]]

Begin(r) ==
    /\ call[r] = NoCall
    /\ Try(r, <<1, 1>>)
    /\ UNCHANGED <<health, faults>>

\* A circuit that is shut sends the call to the next credential.
Acquire(r) ==
    /\ call[r].phase = "acquire"
    /\ LET t == call[r].at
       IN  IF Shut(health[t])
           THEN Try(r, NextCredential(t)) /\ UNCHANGED health
           ELSE /\ health' = [health EXCEPT ![t] = Permitted(@, r)]
                /\ call' = [call EXCEPT ![r].phase = "calling",
                                        ![r].probe = health[t].state # "CLOSED"]
    /\ UNCHANGED faults

\* The adapter returns or throws, in the end by its timeout.
Answer(r) ==
    /\ call[r].phase = "calling"
    /\ \E outcome \in Outcomes :
          call' = [call EXCEPT ![r].phase = "record", ![r].outcome = outcome]
    /\ UNCHANGED <<health, faults>>

\* Mutant: one retry too many.
RetriesLate(r) == call[r].outcome \in Retryable /\ call[r].retry < MaxAttempts

Retries(r) == call[r].outcome \in Retryable /\ call[r].retry + 1 < MaxAttempts

\* Where a call goes after an attempt that did not end it.
Afterwards(r) ==
    LET t == call[r].at IN
    IF Retries(r) THEN t
    ELSE IF call[r].outcome \in MovesCandidate THEN NextCandidate(t)
    ELSE NextCredential(t)

Record(r) ==
    /\ call[r].phase = "record"
    /\ Write(r)
    /\ IF call[r].outcome \in Ends THEN Finish(r)
       ELSE Try(r, Afterwards(r))
    /\ UNCHANGED faults

\* The caller's signal is seen before an attempt; during one it is an outcome.
Cancel(r) ==
    /\ call[r].phase = "acquire"
    /\ Finish(r)
    /\ UNCHANGED <<health, faults>>
-----------------------------------------------------------------------------
(* Faults and time.                                                        *)

Fault == faults < MaxFaults /\ faults' = faults + 1

\* acquire throws, before its commit or after: then nobody has the permit.
AcquireThrows(r) ==
    /\ call[r].phase = "acquire"
    /\ Fault
    /\ \/ UNCHANGED health
       \/ /\ ~ Shut(health[call[r].at])
          /\ health' = [health EXCEPT ![call[r].at] = Permitted(@, "none")]
    /\ Finish(r)

\* The write of a result throws, applied or not.  The one of a success is inside
\* the try block: it counts as an unknown failure of the provider.
RecordThrows(r) ==
    /\ call[r].phase = "record"
    /\ Fault
    /\ UNCHANGED health \/ Write(r)
    /\ IF call[r].outcome = "success"
       THEN call' = [call EXCEPT ![r].outcome = "terminal"]
       ELSE Finish(r)

Crash(r) ==
    /\ call[r] # NoCall
    /\ Fault
    /\ Finish(r)
    /\ UNCHANGED health

Probing(t) ==
    \E r \in Calls : /\ call[r].phase \in {"calling", "record"}
                     /\ call[r].at = t /\ health[t].permit = r

Passes(t) ==
    /\ health[t].state # "CLOSED" /\ ~ health[t].over
    /\ SlowProbes \/ ~ Probing(t)
    /\ health' = [health EXCEPT ![t].over = TRUE]
    /\ UNCHANGED <<call, faults>>
-----------------------------------------------------------------------------
Step(r) == Acquire(r) \/ Answer(r) \/ Record(r)

Next ==
    \/ \E r \in Calls : Begin(r) \/ Step(r) \/ Cancel(r)
                           \/ AcquireThrows(r) \/ RecordThrows(r) \/ Crash(r)
    \/ \E t \in Targets : Passes(t)

Spec == Init /\ [][Next]_vars

\* Calls in progress go on (the adapter has a timeout), and time passes.  Nobody
\* has to call.
Fairness ==
    /\ \A r \in Calls : WF_vars(Step(r))
    /\ \A t \in Targets : WF_vars(Passes(t))

FairSpec == Spec /\ Fairness
-----------------------------------------------------------------------------
(* Properties.                                                             *)

\* Late results decide nothing: an open circuit stays open for its time, and one
\* that is being probed is closed or opened by a probe of its own, whatever calls
\* from before it opened are still to end.
LateResultsDecideNothing ==
    [][\A t \in Targets :
         /\ health[t].state = "OPEN" /\ ~ health[t].over => health'[t].state = "OPEN"
         /\ health[t].state = "HALF_OPEN" /\ health'[t].state # "HALF_OPEN" =>
               \E r \in Calls : call[r].probe /\ call[r].at = t /\ call[r].phase = "record"]_vars

\* Every call ends: retries, failover and probes are bounded.
EveryCallEnds == \A r \in Calls : call[r] # NoCall ~> call[r] = NoCall

AcquireAt(t) == \E r \in Calls : call[r].at = t /\ Acquire(r)
RecordAt(t)  == \E r \in Calls : call[r].at = t /\ Record(r)

\* From some time on, all results of t are of one kind, and there are ever more.
AllResults(t, outcome) ==
    /\ []<><<RecordAt(t)>>_vars
    /\ <>[](\A r \in Calls : call[r].phase = "record" /\ call[r].at = t
                                => call[r].outcome = outcome)

\* A circuit is not shut for good, whichever probe died: a target that is asked
\* for again and again is called again and again.
NeverShutForGood ==
    \A t \in Targets :
        []<><<AcquireAt(t)>>_vars
            => []<>(\E r \in Calls : call[r].phase = "calling" /\ call[r].at = t)

\* docs/tasks/0033-ai-provider-gateway.md:37 "Three consecutive qualifying
\* failures open a target for 30 seconds": a target that keeps failing opens.
FailingTargetsOpen ==
    \A t \in Targets : AllResults(t, "outage") => []<>(health[t].state # "CLOSED")
=============================================================================
