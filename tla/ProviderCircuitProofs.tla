----------------------- MODULE ProviderCircuitProofs -----------------------
(***************************************************************************)
(* Proofs about ProviderCircuit, for every set of calls, every route of    *)
(* candidates and credentials, every number of attempts and every          *)
(* threshold.                                                              *)
(***************************************************************************)
EXTENDS ProviderCircuit, SequenceTheorems, TLAPS

\* The state of a circuit and its count agree, whoever wrote them last: it is
\* closed exactly while fewer failures than the threshold are counted.
CountMatchesState ==
    \A t \in Targets : health[t].state = "CLOSED" <=> health[t].failures < Threshold

\* The call holds the permit of the target it is trying.
Holding(r, t) ==
    /\ health[t].permit = r
    /\ call[r].at = t
    /\ call[r].phase \in {"calling", "record"}

\* Nobody may write an open circuit, and who may write a half-open one probes it.
PermitsFit ==
    \A t \in Targets :
        /\ health[t].state = "OPEN" => health[t].permit = "none"
        /\ health[t].state = "HALF_OPEN" =>
              \A r \in Calls : Holding(r, t) => call[r].probe

\* A result that is to be recorded is there.
Answered == \A r \in Calls : call[r].phase = "record" => call[r].outcome \in Outcomes

IInv == TypeOK /\ Answered /\ CountMatchesState /\ PermitsFit
-----------------------------------------------------------------------------
(* Operators.                                                              *)

LEMMA ConstantTypes ==
    /\ Route \in Seq(Nat \ {0}) /\ Len(Route) \in Nat /\ Len(Route) >= 1
    /\ DOMAIN Route = 1..Len(Route)
    /\ MaxAttempts \in Nat /\ MaxAttempts >= 1
    /\ Threshold \in Nat /\ Threshold >= 1
    /\ MaxFaults \in Nat
    /\ "none" \notin Calls
<1>1. /\ Route \in Seq(Nat \ {0}) /\ Route # <<>>
      /\ MaxAttempts \in Nat \ {0} /\ Threshold \in Nat \ {0} /\ MaxFaults \in Nat
      /\ "none" \notin Calls
  BY CircuitAssumption
<1>2. Len(Route) \in Nat /\ DOMAIN Route = 1..Len(Route) /\ Len(Route) # 0
  BY <1>1, LenProperties, EmptySeq
<1> QED
  BY <1>1, <1>2

\* A call goes from a target to a target, or ends.
LEMMA NextTargets ==
    /\ <<1, 1>> \in Targets
    /\ \A t \in Targets : /\ NextCandidate(t) \in Targets \cup {End}
                          /\ NextCredential(t) \in Targets \cup {End}
<1>1. \A c \in 1..Len(Route) : Route[c] \in Nat /\ Route[c] >= 1
  <2> SUFFICES ASSUME NEW c \in 1..Len(Route)
               PROVE  Route[c] \in Nat \ {0}
    OBVIOUS
  <2> QED
    BY ConstantTypes, ElementOfSeq
<1>2. \A c \in 1..Len(Route) : \A k \in 1..Route[c] : <<c, k>> \in Targets
  BY ConstantTypes DEF Targets
<1>3. <<1, 1>> \in Targets
  BY <1>1, <1>2, ConstantTypes
<1>4. ASSUME NEW t \in Targets
      PROVE  /\ NextCandidate(t) \in Targets \cup {End}
             /\ NextCredential(t) \in Targets \cup {End}
  <2>1. PICK c \in 1..Len(Route) : \E k \in 1..Route[c] : t = <<c, k>>
    BY ConstantTypes DEF Targets
  <2>2. PICK k \in 1..Route[c] : t = <<c, k>>
    BY <2>1
  <2>3. NextCandidate(t) \in Targets \cup {End}
    <3>1. CASE c < Len(Route)
      <4>1. c + 1 \in 1..Len(Route) /\ 1 \in 1..Route[c + 1]
        BY <1>1, <3>1, ConstantTypes
      <4> QED
        BY <1>2, <2>2, <4>1 DEF NextCandidate
    <3>2. CASE ~ (c < Len(Route))
      BY <2>2, <3>2 DEF NextCandidate
    <3> QED
      BY <3>1, <3>2
  <2>4. NextCredential(t) \in Targets \cup {End}
    <3>1. CASE k < Route[c]
      <4>1. k + 1 \in 1..Route[c]
        BY <1>1, <3>1
      <4> QED
        BY <1>2, <2>2, <3>1, <4>1 DEF NextCredential
    <3>2. CASE ~ (k < Route[c])
      BY <2>2, <2>3, <3>2 DEF NextCredential
    <3> QED
      BY <3>1, <3>2
  <2> QED
    BY <2>3, <2>4
<1> QED
  BY <1>3, <1>4

\* A call never comes back to a target it has left.
LEMMA Onward == \A t \in Targets : NextCandidate(t) # t /\ NextCredential(t) # t
<1> SUFFICES ASSUME NEW t \in Targets
             PROVE  NextCandidate(t) # t /\ NextCredential(t) # t
  OBVIOUS
<1>1. PICK c \in 1..Len(Route) : \E k \in 1..Route[c] : t = <<c, k>>
  BY ConstantTypes DEF Targets
<1>2. PICK k \in 1..Route[c] : t = <<c, k>>
  BY <1>1
<1>3. c \in Nat /\ k \in Nat /\ c >= 1
  BY ConstantTypes
<1>4. NextCandidate(t) \in {<<c + 1, 1>>, <<0, 0>>}
  BY <1>2 DEF NextCandidate, End
<1>5. NextCredential(t) \in {<<c, k + 1>>, <<c + 1, 1>>, <<0, 0>>}
  BY <1>2, <1>4 DEF NextCredential
<1> QED
  BY <1>2, <1>3, <1>4, <1>5

\* What a permit and a result make of a row.
LEMMA RowOperators ==
    ASSUME NEW h \in Rows, NEW p \in Calls \cup {"none"}, NEW outcome \in Outcomes,
           h.state = "CLOSED" <=> h.failures < Threshold
    PROVE  /\ Permitted(h, p) \in Rows
           /\ Permitted(h, p).state = IF h.state = "CLOSED" THEN "CLOSED" ELSE "HALF_OPEN"
           /\ Permitted(h, p).permit = p
           /\ Permitted(h, p).failures = h.failures
           /\ h.state # "OPEN" =>
                 /\ Recorded(h, outcome) \in Rows
                 /\ Recorded(h, outcome).permit = "none"
                 /\ Recorded(h, outcome).state \in {"CLOSED", "OPEN"}
                 /\ Recorded(h, outcome).state = "CLOSED"
                       <=> Recorded(h, outcome).failures < Threshold
<1>1. /\ h.state \in States /\ h.failures \in 0..Threshold /\ h.over \in BOOLEAN
      /\ h.permit \in Calls \cup {"none"}
  BY DEF Rows
<1>2. Threshold \in Nat /\ Threshold >= 1
  BY ConstantTypes
<1>3. /\ Permitted(h, p) \in Rows
      /\ Permitted(h, p).state = IF h.state = "CLOSED" THEN "CLOSED" ELSE "HALF_OPEN"
      /\ Permitted(h, p).permit = p
      /\ Permitted(h, p).failures = h.failures
  BY <1>1 DEF Permitted, Rows, States
<1>4. ASSUME h.state # "OPEN"
      PROVE  /\ Recorded(h, outcome) \in Rows
             /\ Recorded(h, outcome).permit = "none"
             /\ Recorded(h, outcome).state \in {"CLOSED", "OPEN"}
             /\ Recorded(h, outcome).state = "CLOSED"
                   <=> Recorded(h, outcome).failures < Threshold
  <2>1. /\ Succeeded(h) \in Rows /\ Succeeded(h).permit = "none"
        /\ Succeeded(h).state = "CLOSED" /\ Succeeded(h).failures = 0
    BY <1>1, <1>2 DEF Succeeded, Rows, States
  <2>2. /\ Failed(h) \in Rows /\ Failed(h).permit = "none"
        /\ Failed(h).state = IF Opens(h) THEN "OPEN" ELSE "CLOSED"
        /\ Failed(h).failures = IF h.failures < Threshold THEN h.failures + 1 ELSE Threshold
    BY <1>1, <1>2 DEF Failed, Rows, States
  <2>3. Failed(h).state = "CLOSED" <=> Failed(h).failures < Threshold
    BY <1>1, <1>2, <1>4, <2>2 DEF Opens, States
  <2>4. /\ Released(h) \in Rows /\ Released(h).permit = "none"
        /\ Released(h).state = IF h.state = "HALF_OPEN" THEN "OPEN" ELSE h.state
        /\ Released(h).failures = h.failures
    <3>1. (h.state = "HALF_OPEN" \/ h.over) \in BOOLEAN
      BY Zenon
    <3> QED
      BY <1>1, <3>1 DEF Released, Rows, States
  <2>5. /\ Released(h).state \in {"CLOSED", "OPEN"}
        /\ Released(h).state = "CLOSED" <=> Released(h).failures < Threshold
    BY <1>1, <1>4, <2>4 DEF States
  <2> QED
    BY <1>2, <2>1, <2>2, <2>3, <2>4, <2>5 DEF Recorded
<1> QED
  BY <1>3, <1>4
-----------------------------------------------------------------------------
(* What a step may do to a call and to a row.                              *)

\* A call that is not at an attempt after the step holds nothing.
Quits(r) ==
    /\ call' \in [Calls -> CallRows \cup {NoCall}]
    /\ call'[r].phase \in {"idle", "acquire"}
    /\ \A q \in Calls : q # r => call'[q] = call[q]

LEMMA NoCallShape ==
    NoCall \in [phase : {"idle"}, at : {End}, retry : {0}, probe : {FALSE},
                outcome : {"none"}]
  BY DEF NoCall

LEMMA FinishQuits ==
    ASSUME TypeOK, NEW r \in Calls, Finish(r)
    PROVE  Quits(r)
  BY NoCallShape DEF TypeOK, Finish, Quits

LEMMA TryQuits ==
    ASSUME TypeOK, NEW r \in Calls, NEW t \in Targets \cup {End},
           t = call[r].at => call[r].retry \in 0..MaxAttempts - 2,
           Try(r, t)
    PROVE  Quits(r)
<1> DEFINE retry == IF t = call[r].at THEN call[r].retry + 1 ELSE 0
           row == [NoCall EXCEPT !.phase = "acquire", !.at = t, !.retry = retry]
<1>1. CASE t = End
  BY <1>1, FinishQuits DEF Try
<1>2. CASE t # End
  <2>1. retry \in 0..MaxAttempts - 1
    BY ConstantTypes
  <2>2. t \in Targets
    BY <1>2
  <2> HIDE DEF retry
  <2>3. row \in CallRows /\ row.phase = "acquire"
    BY <2>1, <2>2, NoCallShape DEF CallRows
  <2>4. call' = [call EXCEPT ![r] = row]
    BY <1>2 DEF Try, retry
  <2> HIDE DEF row
  <2> QED
    BY <2>3, <2>4 DEF TypeOK, Quits
<1> QED
  BY <1>1, <1>2

\* A call in progress has the fields of its row.
LEMMA Fields ==
    ASSUME TypeOK, NEW r \in Calls, call[r].phase # "idle"
    PROVE  /\ call[r] \in CallRows
           /\ call[r].at \in Targets /\ health[call[r].at] \in Rows
  BY NoCallShape DEF TypeOK, CallRows

\* The row of t is left alone, or gets a permit, or the result of its holder.
Changes(t) ==
    \/ health'[t] = health[t]
    \/ \E p \in Calls \cup {"none"} :
          ~ Shut(health[t]) /\ health'[t] = Permitted(health[t], p)
    \/ \E r \in Calls :
          /\ Holding(r, t) /\ call[r].phase = "record"
          /\ health'[t] = Recorded(health[t], call[r].outcome)
          /\ call[r].outcome \in Outcomes
    \/ /\ health[t].state # "CLOSED"
       /\ health'[t] = [health[t] EXCEPT !.over = TRUE]

\* Rows keep their types and agree with their counts under every change.
LEMMA ChangesSafe ==
    ASSUME IInv, NEW t \in Targets, Changes(t)
    PROVE  /\ health'[t] \in Rows
           /\ health'[t].state = "CLOSED" <=> health'[t].failures < Threshold
           /\ health'[t].state = "OPEN" => health'[t].permit = "none"
           /\ health[t].state = "OPEN" /\ ~ health[t].over => health'[t].state = "OPEN"
           /\ health[t].state = "HALF_OPEN" /\ health'[t].state # "HALF_OPEN" =>
                 \E r \in Calls : Holding(r, t) /\ call[r].phase = "record"
           /\ \/ health'[t].state = health[t].state /\ health'[t].permit = health[t].permit
              \/ health'[t].state # "HALF_OPEN"
              \/ health[t].state # "CLOSED" /\ health'[t].state = "HALF_OPEN"
                    /\ ~ Shut(health[t])
<1>1. /\ health[t] \in Rows
      /\ health[t].state = "CLOSED" <=> health[t].failures < Threshold
      /\ health[t].state = "OPEN" => health[t].permit = "none"
  BY DEF IInv, TypeOK, CountMatchesState, PermitsFit
<1>2. CASE health'[t] = health[t]
  BY <1>1, <1>2
<1>3. ASSUME NEW p \in Calls \cup {"none"},
             ~ Shut(health[t]), health'[t] = Permitted(health[t], p)
      PROVE  /\ health'[t] \in Rows
             /\ health'[t].state = IF health[t].state = "CLOSED" THEN "CLOSED" ELSE "HALF_OPEN"
             /\ health'[t].failures = health[t].failures
             /\ ~ (health[t].state = "OPEN" /\ ~ health[t].over)
  <2>1. "success" \in Outcomes
    BY DEF Outcomes
  <2> QED
    BY <1>1, <1>3, <2>1, RowOperators DEF Shut
<1>4. ASSUME NEW r \in Calls, Holding(r, t), call[r].phase = "record",
             health'[t] = Recorded(health[t], call[r].outcome), call[r].outcome \in Outcomes
      PROVE  /\ health[t].state # "OPEN"
             /\ health'[t] \in Rows /\ health'[t].permit = "none"
             /\ health'[t].state \in {"CLOSED", "OPEN"}
             /\ health'[t].state = "CLOSED" <=> health'[t].failures < Threshold
  <2>1. health[t].state # "OPEN"
    BY <1>1, <1>4, ConstantTypes DEF Holding
  <2> QED
    BY <1>1, <1>4, <2>1, RowOperators
<1>5. CASE health[t].state # "CLOSED" /\ health'[t] = [health[t] EXCEPT !.over = TRUE]
  <2>1. /\ health'[t] \in Rows /\ health'[t].state = health[t].state
        /\ health'[t].failures = health[t].failures /\ health'[t].permit = health[t].permit
    BY <1>1, <1>5 DEF Rows
  <2> QED
    BY <1>1, <2>1
<1> QED
  BY <1>1, <1>2, <1>3, <1>4, <1>5 DEF Changes, Rows, States

\* One row changes.
LEMMA RowChange ==
    ASSUME IInv, NEW t0 \in Targets, NEW x, health' = [health EXCEPT ![t0] = x],
           health'[t0] = x => Changes(t0)
    PROVE  /\ health' \in [Targets -> Rows] /\ CountMatchesState'
           /\ \A t \in Targets : /\ Changes(t)
                                 /\ health'[t].state = "OPEN" => health'[t].permit = "none"
           /\ \A t \in Targets : t # t0 => health'[t] = health[t]
           /\ health'[t0] = x
<1>1. health'[t0] = x /\ \A t \in Targets : t # t0 => health'[t] = health[t]
  BY DEF IInv, TypeOK
<1>2. \A t \in Targets : Changes(t)
  BY <1>1 DEF Changes
<1>3. x \in Rows
  BY <1>1, <1>2, ChangesSafe
<1>4. health' \in [Targets -> Rows]
  BY <1>3 DEF IInv, TypeOK
<1>5. CountMatchesState'
  BY <1>2, ChangesSafe DEF CountMatchesState
<1> QED
  BY <1>1, <1>2, <1>4, <1>5, ChangesSafe

LEMMA NoRowChange ==
    ASSUME IInv, UNCHANGED health
    PROVE  /\ health' \in [Targets -> Rows] /\ CountMatchesState'
           /\ \A t \in Targets : /\ Changes(t)
                                 /\ health'[t].state = "OPEN" => health'[t].permit = "none"
  BY DEF IInv, TypeOK, CountMatchesState, PermitsFit, Changes

\* Nobody becomes the holder of a permit.
LEMMA PermitsKept ==
    ASSUME IInv,
           \A t \in Targets :
              /\ health'[t].state = "OPEN" => health'[t].permit = "none"
              /\ health'[t].state = "HALF_OPEN" =>
                    \/ health'[t].permit = "none"
                    \/ health'[t].permit = health[t].permit /\ health[t].state = "HALF_OPEN",
           \A q \in Calls :
              call'[q].phase \in {"calling", "record"} =>
                 /\ call[q].phase \in {"calling", "record"}
                 /\ call'[q].at = call[q].at /\ call'[q].probe = call[q].probe
    PROVE  PermitsFit'
<1> SUFFICES ASSUME NEW t \in Targets, health'[t].state = "HALF_OPEN",
                    NEW q \in Calls, Holding(q, t)'
             PROVE  call'[q].probe
  BY DEF PermitsFit
<1>1. health'[t].permit = q /\ call'[q].at = t /\ call'[q].phase \in {"calling", "record"}
  BY DEF Holding
<1>2. health[t].permit = q /\ health[t].state = "HALF_OPEN"
  BY <1>1, ConstantTypes
<1>3. Holding(q, t) /\ call'[q].probe = call[q].probe
  BY <1>1, <1>2 DEF Holding
<1> QED
  BY <1>2, <1>3 DEF IInv, PermitsFit

\* What a result, written or not, does to the rows.
LEMMA WriteEffect ==
    ASSUME IInv, NEW r \in Calls, call[r].phase = "record", UNCHANGED health \/ Write(r)
    PROVE  /\ health' \in [Targets -> Rows] /\ CountMatchesState'
           /\ \A t \in Targets :
                 /\ Changes(t)
                 /\ health'[t].state = "OPEN" => health'[t].permit = "none"
                 /\ health'[t] = health[t] \/ health'[t].permit = "none"
<1> DEFINE t0 == call[r].at
<1>1. t0 \in Targets /\ call[r].outcome \in Outcomes /\ health[t0] \in Rows
  BY Fields DEF IInv, Answered
<1>2. CASE UNCHANGED health
  BY <1>2, NoRowChange
<1>3. CASE Write(r) /\ health[t0].permit = r
  <2>1. health' = [health EXCEPT ![t0] = Recorded(health[t0], call[r].outcome)]
    BY <1>3 DEF Write
  <2>2. Holding(r, t0)
    BY <1>3 DEF Holding
  <2>3. health[t0].state # "OPEN" /\ (health[t0].state = "CLOSED" <=> health[t0].failures < Threshold)
    BY <1>1, <1>3, ConstantTypes DEF IInv, PermitsFit, CountMatchesState
  <2>4. Recorded(health[t0], call[r].outcome).permit = "none"
    BY <1>1, <2>3, RowOperators
  <2> DEFINE x == Recorded(health[t0], call[r].outcome)
  <2>5. health'[t0] = x => Changes(t0)
    BY <1>1, <2>2 DEF Changes
  <2> HIDE DEF x, t0
  <2>6. health' = [health EXCEPT ![t0] = x]
    BY <2>1 DEF x
  <2>7. /\ health' \in [Targets -> Rows] /\ CountMatchesState'
        /\ \A t \in Targets : /\ Changes(t)
                              /\ health'[t].state = "OPEN" => health'[t].permit = "none"
        /\ \A t \in Targets : t # t0 => health'[t] = health[t]
        /\ health'[t0] = x
    BY <1>1, <2>5, <2>6, RowChange
  <2> QED
    BY <2>4, <2>7 DEF x
<1>4. CASE Write(r) /\ health[t0].permit # r
  <2>1. UNCHANGED health
    BY <1>1, <1>4 DEF Write, IInv, TypeOK
  <2> QED
    BY <2>1, NoRowChange
<1> QED
  BY <1>2, <1>3, <1>4

\* A step after which the acting call is at no attempt.
LEMMA QuitsSafe ==
    ASSUME IInv, NEW r \in Calls, Quits(r), faults' \in 0..MaxFaults,
           health' \in [Targets -> Rows], CountMatchesState',
           \A t \in Targets :
              /\ health'[t].state = "OPEN" => health'[t].permit = "none"
              /\ health'[t] = health[t] \/ health'[t].permit = "none"
    PROVE  IInv'
<1>1. TypeOK' /\ Answered'
  BY DEF Quits, TypeOK, IInv, Answered
<1>2. PermitsFit'
  BY PermitsKept DEF Quits
<1> QED
  BY <1>1, <1>2 DEF IInv
-----------------------------------------------------------------------------
(* The steps.                                                              *)

Good == IInv' /\ \A t \in Targets : Changes(t)

LEMMA BeginSafe == ASSUME IInv, NEW r \in Calls, Begin(r) PROVE Good
<1>1. <<1, 1>> # call[r].at
  BY NoCallShape DEF Begin, End
<1>2. Quits(r)
  BY <1>1, NextTargets, TryQuits DEF Begin, IInv
<1> QED
  BY <1>2, NoRowChange, QuitsSafe DEF Begin, Good, IInv, TypeOK

LEMMA CancelSafe == ASSUME IInv, NEW r \in Calls, Cancel(r) PROVE Good
<1>1. Quits(r)
  BY FinishQuits DEF Cancel, IInv
<1> QED
  BY <1>1, NoRowChange, QuitsSafe DEF Cancel, Good, IInv, TypeOK

LEMMA FaultType == ASSUME IInv, Fault PROVE faults' \in 0..MaxFaults
  BY ConstantTypes DEF Fault, IInv, TypeOK

LEMMA CrashSafe == ASSUME IInv, NEW r \in Calls, Crash(r) PROVE Good
<1>1. Quits(r)
  BY FinishQuits DEF Crash, IInv
<1> QED
  BY <1>1, NoRowChange, QuitsSafe, FaultType DEF Crash, Good

LEMMA AcquireThrowsSafe == ASSUME IInv, NEW r \in Calls, AcquireThrows(r) PROVE Good
<1> DEFINE t0 == call[r].at
           x == Permitted(health[t0], "none")
<1>1. Quits(r) /\ faults' \in 0..MaxFaults
  BY FinishQuits, FaultType DEF AcquireThrows, IInv
<1>2. CASE UNCHANGED health
  BY <1>1, <1>2, NoRowChange, QuitsSafe DEF Good
<1>3. CASE ~ Shut(health[t0]) /\ health' = [health EXCEPT ![t0] = x]
  <2>1. t0 \in Targets /\ health[t0] \in Rows
    BY Fields DEF AcquireThrows, IInv
  <2>2. x.permit = "none"
    BY <2>1, RowOperators DEF IInv, CountMatchesState, Outcomes
  <2>3. health'[t0] = x => Changes(t0)
    BY <1>3 DEF Changes
  <2> HIDE DEF x, t0
  <2>4. /\ health' \in [Targets -> Rows] /\ CountMatchesState'
        /\ \A t \in Targets : /\ Changes(t)
                              /\ health'[t].state = "OPEN" => health'[t].permit = "none"
                              /\ health'[t] = health[t] \/ health'[t].permit = "none"
    BY <1>3, <2>1, <2>2, <2>3, RowChange
  <2> QED
    BY <1>1, <2>4, QuitsSafe DEF Good
<1> QED
  BY <1>2, <1>3 DEF AcquireThrows

LEMMA RecordSafe == ASSUME IInv, NEW r \in Calls, Record(r) PROVE Good
<1> DEFINE t0 == call[r].at
<1>1. /\ call[r] \in CallRows /\ t0 \in Targets /\ call[r].outcome \in Outcomes
      /\ call[r].phase = "record"
  BY Fields DEF Record, IInv, Answered
<1>2. /\ health' \in [Targets -> Rows] /\ CountMatchesState'
      /\ \A t \in Targets :
            /\ Changes(t)
            /\ health'[t].state = "OPEN" => health'[t].permit = "none"
            /\ health'[t] = health[t] \/ health'[t].permit = "none"
  BY <1>1, WriteEffect DEF Record
<1>3. Quits(r)
  <2>1. CASE call[r].outcome \in Ends
    BY <2>1, FinishQuits DEF Record, IInv
  <2>2. CASE call[r].outcome \notin Ends
    <3> DEFINE t == Afterwards(r)
    <3>1. Try(r, t)
      BY <2>2 DEF Record
    <3>2. t \in Targets \cup {End}
      BY <1>1, NextTargets DEF Afterwards
    <3>3. t = t0 => call[r].retry \in 0..MaxAttempts - 2
      <4>1. call[r].retry \in 0..MaxAttempts - 1
        BY <1>1 DEF CallRows
      <4>2. CASE Retries(r)
        BY <4>1, <4>2, ConstantTypes DEF Retries
      <4>3. CASE ~ Retries(r)
        BY <1>1, <4>3, Onward DEF Afterwards
      <4> QED
        BY <4>2, <4>3
    <3> HIDE DEF t
    <3> QED
      BY <3>1, <3>2, <3>3, TryQuits DEF IInv
  <2> QED
    BY <2>1, <2>2
<1> QED
  BY <1>2, <1>3, QuitsSafe DEF Record, Good, IInv, TypeOK

LEMMA RecordThrowsSafe == ASSUME IInv, NEW r \in Calls, RecordThrows(r) PROVE Good
<1>1. /\ call[r] \in CallRows /\ call[r].phase = "record" /\ faults' \in 0..MaxFaults
      /\ call \in [Calls -> CallRows \cup {NoCall}]
  BY Fields, FaultType DEF RecordThrows, IInv, TypeOK
<1>2. /\ health' \in [Targets -> Rows] /\ CountMatchesState'
      /\ \A t \in Targets :
            /\ Changes(t)
            /\ health'[t].state = "OPEN" => health'[t].permit = "none"
            /\ health'[t] = health[t] \/ health'[t].permit = "none"
  BY <1>1, WriteEffect DEF RecordThrows
<1>3. CASE call[r].outcome = "success"
  <2> DEFINE row == [call[r] EXCEPT !.outcome = "terminal"]
  <2>1. /\ row \in CallRows /\ row.phase = "record" /\ row.outcome \in Outcomes
        /\ row.at = call[r].at /\ row.probe = call[r].probe
    BY <1>1 DEF CallRows, Outcomes
  <2>2. call' = [call EXCEPT ![r] = row]
    BY <1>3 DEF RecordThrows
  <2> HIDE DEF row
  <2>3. /\ call' \in [Calls -> CallRows \cup {NoCall}] /\ call'[r] = row
        /\ \A q \in Calls : q # r => call'[q] = call[q]
    BY <1>1, <2>1, <2>2
  <2>4. TypeOK' /\ Answered'
    BY <1>1, <1>2, <2>1, <2>3 DEF IInv, TypeOK, Answered
  <2>5. PermitsFit'
    BY <1>1, <1>2, <2>1, <2>3, PermitsKept
  <2> QED
    BY <1>2, <2>4, <2>5 DEF Good, IInv
<1>4. CASE call[r].outcome # "success"
  <2>1. Quits(r)
    BY <1>4, FinishQuits DEF RecordThrows, IInv
  <2> QED
    BY <1>1, <1>2, <2>1, QuitsSafe DEF Good
<1> QED
  BY <1>3, <1>4

LEMMA AnswerSafe == ASSUME IInv, NEW r \in Calls, Answer(r) PROVE Good
<1>1. /\ call[r] \in CallRows /\ call[r].phase = "calling"
      /\ call \in [Calls -> CallRows \cup {NoCall}]
      /\ UNCHANGED <<health, faults>>
  BY Fields DEF Answer, IInv, TypeOK
<1>2. PICK outcome \in Outcomes :
         call' = [call EXCEPT ![r].phase = "record", ![r].outcome = outcome]
  BY DEF Answer
<1> DEFINE row == [call[r] EXCEPT !.phase = "record", !.outcome = outcome]
<1>3. /\ row \in CallRows /\ row.phase = "record" /\ row.outcome \in Outcomes
      /\ row.at = call[r].at /\ row.probe = call[r].probe
  BY <1>1 DEF CallRows
<1>4. call' = [call EXCEPT ![r] = row]
  BY <1>2
<1> HIDE DEF row
<1>5. /\ call' \in [Calls -> CallRows \cup {NoCall}] /\ call'[r] = row
      /\ \A q \in Calls : q # r => call'[q] = call[q]
  BY <1>1, <1>3, <1>4
<1>6. TypeOK' /\ Answered'
  BY <1>1, <1>3, <1>5 DEF IInv, TypeOK, Answered
<1>7. PermitsFit'
  <2>1. \A q \in Calls :
           call'[q].phase \in {"calling", "record"} =>
              /\ call[q].phase \in {"calling", "record"}
              /\ call'[q].at = call[q].at /\ call'[q].probe = call[q].probe
    BY <1>1, <1>3, <1>5
  <2> QED
    BY <1>1, <2>1, PermitsKept DEF IInv, PermitsFit
<1> QED
  BY <1>1, <1>6, <1>7, NoRowChange DEF Good, IInv

LEMMA AcquireSafe == ASSUME IInv, NEW r \in Calls, Acquire(r) PROVE Good
<1> DEFINE t0 == call[r].at
<1>1. /\ call[r] \in CallRows /\ call[r].phase = "acquire" /\ UNCHANGED faults
      /\ t0 \in Targets /\ health[t0] \in Rows
      /\ call \in [Calls -> CallRows \cup {NoCall}]
  BY Fields DEF Acquire, IInv, TypeOK
<1>2. CASE Shut(health[t0])
  <2>1. Try(r, NextCredential(t0)) /\ UNCHANGED health
    BY <1>2 DEF Acquire
  <2>2. Quits(r)
    BY <1>1, <2>1, NextTargets, Onward, TryQuits DEF IInv
  <2> QED
    BY <1>1, <2>1, <2>2, NoRowChange, QuitsSafe DEF Good, IInv, TypeOK
<1>3. CASE ~ Shut(health[t0])
  <2> DEFINE x == Permitted(health[t0], r)
             probe == health[t0].state # "CLOSED"
             row == [call[r] EXCEPT !.phase = "calling", !.probe = probe]
  <2>1. health' = [health EXCEPT ![t0] = x] /\ call' = [call EXCEPT ![r] = row]
    BY <1>3 DEF Acquire
  <2>2. x.permit = r /\ x.state = IF health[t0].state = "CLOSED" THEN "CLOSED" ELSE "HALF_OPEN"
    BY <1>1, RowOperators DEF IInv, CountMatchesState, Outcomes
  <2>3. health'[t0] = x => Changes(t0)
    BY <1>3 DEF Changes
  <2>4. probe \in BOOLEAN
    BY Zenon
  <2>5. x.state = "HALF_OPEN" => probe = TRUE
    BY <2>2, Zenon
  <2> HIDE DEF probe, x
  <2>6. row \in CallRows /\ row.phase = "calling" /\ row.at = t0 /\ row.probe = probe
    BY <1>1, <2>4 DEF CallRows
  <2> HIDE DEF row, t0
  <2>7. /\ health' \in [Targets -> Rows] /\ CountMatchesState'
        /\ \A t \in Targets : /\ Changes(t)
                              /\ health'[t].state = "OPEN" => health'[t].permit = "none"
        /\ \A t \in Targets : t # t0 => health'[t] = health[t]
        /\ health'[t0] = x
    BY <1>1, <2>1, <2>3, RowChange
  <2>8. /\ call' \in [Calls -> CallRows \cup {NoCall}] /\ call'[r] = row
        /\ \A q \in Calls : q # r => call'[q] = call[q]
    BY <1>1, <2>1, <2>6
  <2>9. TypeOK' /\ Answered'
    BY <1>1, <2>6, <2>7, <2>8 DEF IInv, TypeOK, Answered
  <2>10. PermitsFit'
    <3>1. ASSUME NEW t \in Targets, health'[t].state = "HALF_OPEN",
                 NEW q \in Calls, Holding(q, t)'
          PROVE  call'[q].probe
      <4>1. health'[t].permit = q /\ call'[q].at = t /\ call'[q].phase \in {"calling", "record"}
        BY <3>1 DEF Holding
      <4>2. CASE t = t0
        BY <2>2, <2>5, <2>6, <2>7, <2>8, <3>1, <4>1, <4>2
      <4>3. CASE t # t0
        <5>1. q # r /\ health'[t] = health[t] /\ call'[q] = call[q]
          BY <2>6, <2>7, <2>8, <4>1, <4>3
        <5> QED
          BY <3>1, <4>1, <5>1 DEF IInv, PermitsFit, Holding
      <4> QED
        BY <4>2, <4>3
    <3> QED
      BY <2>7, <3>1 DEF PermitsFit
  <2> QED
    BY <2>7, <2>9, <2>10 DEF Good, IInv
<1> QED
  BY <1>2, <1>3

LEMMA PassesSafe == ASSUME IInv, NEW t0 \in Targets, Passes(t0) PROVE Good
<1> DEFINE x == [health[t0] EXCEPT !.over = TRUE]
<1>1. health[t0] \in Rows
  BY DEF IInv, TypeOK
<1>2. /\ health' = [health EXCEPT ![t0] = x] /\ UNCHANGED <<call, faults>>
      /\ health[t0].state # "CLOSED"
  BY DEF Passes
<1>3. x.state = health[t0].state /\ x.permit = health[t0].permit
  BY <1>1 DEF Rows
<1>4. health'[t0] = x => Changes(t0)
  BY <1>2 DEF Changes
<1> HIDE DEF x
<1>5. /\ health' \in [Targets -> Rows] /\ CountMatchesState'
      /\ \A t \in Targets : /\ Changes(t)
                            /\ health'[t].state = "OPEN" => health'[t].permit = "none"
      /\ \A t \in Targets : t # t0 => health'[t] = health[t]
      /\ health'[t0] = x
  BY <1>2, <1>4, RowChange
<1>6. TypeOK' /\ Answered'
  BY <1>2, <1>5 DEF IInv, TypeOK, Answered
<1>7. PermitsFit'
  BY <1>2, <1>3, <1>5, PermitsKept
<1> QED
  BY <1>5, <1>6, <1>7 DEF Good, IInv
-----------------------------------------------------------------------------
LEMMA InitSafe == Init => IInv
<1> SUFFICES ASSUME Init PROVE IInv
  OBVIOUS
<1>1. Threshold \in Nat /\ Threshold >= 1 /\ MaxFaults \in Nat
  BY ConstantTypes
<1>2. /\ health \in [Targets -> Rows]
      /\ \A t \in Targets : health[t].state = "CLOSED" /\ health[t].failures = 0
  BY <1>1 DEF Init, Rows, States
<1>3. call = [r \in Calls |-> NoCall] /\ faults \in 0..MaxFaults
  BY <1>1 DEF Init
<1>4. TypeOK
  BY <1>2, <1>3 DEF TypeOK
<1>5. Answered
  BY <1>3, NoCallShape DEF Answered
<1> QED
  BY <1>1, <1>2, <1>4, <1>5 DEF IInv, CountMatchesState, PermitsFit

LEMMA StutterSafe == ASSUME IInv, UNCHANGED vars PROVE Good
<1>1. UNCHANGED <<health, call, faults>>
  BY DEF vars
<1>2. TypeOK' /\ Answered'
  BY <1>1 DEF IInv, TypeOK, Answered
<1>3. PermitsFit'
  BY <1>1 DEF IInv, PermitsFit, Holding
<1> QED
  BY <1>1, <1>2, <1>3, NoRowChange DEF Good, IInv

LEMMA NextSafe == IInv /\ [Next]_vars => Good
<1> SUFFICES ASSUME IInv, [Next]_vars PROVE Good
  OBVIOUS
<1>1. CASE UNCHANGED vars
  BY <1>1, StutterSafe
<1>2. ASSUME NEW r \in Calls,
             \/ Begin(r) \/ Step(r) \/ Cancel(r)
             \/ AcquireThrows(r) \/ RecordThrows(r) \/ Crash(r)
      PROVE  Good
  BY <1>2, BeginSafe, AcquireSafe, AnswerSafe, RecordSafe, CancelSafe, AcquireThrowsSafe,
     RecordThrowsSafe, CrashSafe DEF Step
<1>3. ASSUME NEW t \in Targets, Passes(t) PROVE Good
  BY <1>3, PassesSafe
<1> QED
  BY <1>1, <1>2, <1>3 DEF Next

\* The invariant that carries the others holds in every state of every run.
THEOREM Invariance == Spec => []IInv
<1>1. Init => IInv
  BY InitSafe
<1>2. IInv /\ [Next]_vars => IInv'
  BY NextSafe DEF Good
<1> QED
  BY <1>1, <1>2, PTL DEF Spec

\* The rows of the table and the calls always have their types.
THEOREM TypeCorrect == Spec => []TypeOK
<1>1. IInv => TypeOK
  BY DEF IInv
<1> QED
  BY <1>1, Invariance, PTL

\* Whichever calls overlap, fail, crash or answer late, a circuit is closed
\* exactly while fewer failures than the threshold are counted.
THEOREM CountAgrees == Spec => []CountMatchesState
<1>1. IInv => CountMatchesState
  BY DEF IInv
<1> QED
  BY <1>1, Invariance, PTL

\* A result of a call from before a circuit opened, written late, neither ends
\* the time it is open nor decides for the probe: for any number of calls.
THEOREM LateResults == Spec => LateResultsDecideNothing
<1> DEFINE Decided(t) ==
      /\ health[t].state = "OPEN" /\ ~ health[t].over => health'[t].state = "OPEN"
      /\ health[t].state = "HALF_OPEN" /\ health'[t].state # "HALF_OPEN" =>
            \E r \in Calls : call[r].probe /\ call[r].at = t /\ call[r].phase = "record"
<1>1. IInv /\ [Next]_vars => \A t \in Targets : Decided(t)
  <2> SUFFICES ASSUME IInv, [Next]_vars, NEW t \in Targets
               PROVE  Decided(t)
    OBVIOUS
  <2>1. Changes(t)
    BY NextSafe DEF Good
  <2>2. health[t].state = "OPEN" /\ ~ health[t].over => health'[t].state = "OPEN"
    BY <2>1, ChangesSafe
  <2>3. ASSUME health[t].state = "HALF_OPEN", health'[t].state # "HALF_OPEN"
        PROVE  \E r \in Calls : call[r].probe /\ call[r].at = t /\ call[r].phase = "record"
    <3>1. PICK r \in Calls : Holding(r, t) /\ call[r].phase = "record"
      BY <2>1, <2>3, ChangesSafe
    <3>2. call[r].probe
      BY <2>3, <3>1 DEF IInv, PermitsFit
    <3> QED
      BY <3>1, <3>2 DEF Holding
  <2> QED
    BY <2>2, <2>3
<1>2. IInv /\ [Next]_vars => [\A t \in Targets : Decided(t)]_vars
  BY <1>1
<1> QED
  BY <1>2, Invariance, PTL DEF Spec, LateResultsDecideNothing
=============================================================================
