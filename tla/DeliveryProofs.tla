--------------------------- MODULE DeliveryProofs ---------------------------
(***************************************************************************)
(* Proofs about ChannelDelivery, over a conversation that goes on being    *)
(* written and translated: for any number of worker processes, messages    *)
(* and attempts.                                                           *)
(***************************************************************************)
EXTENDS CustomerDelivery, SequenceTheorems, FiniteSetTheorems, TLAPS
-----------------------------------------------------------------------------
(* The inductive invariant.                                                *)

Deliveries ==
    [status : Terminal \cup {"NONE", "PENDING", "RUNNING"}, attempts : 0..MaxSends,
     holder : Dispatchers \cup {"none"}, over : BOOLEAN]

\* What a worker does about a conversation of n messages: none twice in a batch.
Dispatches(n) ==
    {d \in [at : {"idle", "check", "send", "record"}, batch : Seq(1..n), outcome : Outcomes,
            again : BOOLEAN, unclear : SUBSET (1..n)] :
       /\ d.at = "idle" <=> d.batch = << >>
       /\ Len(d.batch) <= Batch
       /\ \A i, j \in DOMAIN d.batch : d.batch[i] = d.batch[j] => i = j}

Typed ==
    /\ LogTypeOK
    /\ deliveries \in [1..MaxMessages -> Deliveries]
    /\ dispatcher \in [Dispatchers -> Dispatches(Len(log))]
    /\ sent \subseteq (1..Len(log)) \X (1..MaxSends) \X SUBSET (1..Len(log))

\* The deliveries of a batch that have not been sent, and may still be.
UnsentOf(d) == {d.batch[i] : i \in {j \in DOMAIN d.batch : j > 1 \/ d.at # "record"}}
Unsent(w)   == UnsentOf(dispatcher[w])

\* The delivery of message p was never sent.
Silent(p) == \A r \in sent : r[1] # p

Leased(p, w) == deliveries[p].status = "RUNNING" /\ deliveries[p].holder = w

\* What is in a batch and unsent is in no other batch, still leased or given up.
Waiting ==
    \A w \in Dispatchers : \A p \in Unsent(w) :
        /\ Silent(p) /\ (Leased(p, w) \/ deliveries[p].status = "UNKNOWN")
        /\ \A v \in Dispatchers : p \in Unsent(v) => v = w

\* A worker that still holds the lease records what happened.
Knowing ==
    \A w \in Dispatchers : dispatcher[w].at = "record" /\ Leased(First(w), w) =>
        /\ dispatcher[w].outcome \in {"RETRYABLE", "FAILED"} => Silent(First(w))
        /\ dispatcher[w].outcome = "DELIVERED" => ~ Silent(First(w))

\* The ledger does not lie, and a delivery is sent once.
Truthful ==
    /\ \A p \in 1..MaxMessages :
          /\ deliveries[p].status \in {"NONE", "PENDING", "FAILED"} => Silent(p)
          /\ deliveries[p].status = "DELIVERED" => ~ Silent(p)
    /\ \A r, s \in sent : r[1] = s[1] => r = s

\* Who claims a delivery may try it once more.
Counted ==
    \A p \in 1..MaxMessages :
        /\ deliveries[p].status \in {"NONE", "PENDING"} => deliveries[p].attempts < MaxSends
        /\ deliveries[p].status \in {"RUNNING", "UNKNOWN"} => deliveries[p].attempts >= 1

\* Message q waits for its translation, or may once its language is known.
May(q) == Blocks(q) \/ log[q].lang = "unknown"

\* Nothing before message p waits for its translation, or ever may, but those of u.
Clear(p, u) == \A q \in 1..p - 1 : May(q) => q \in u

\* What was unclear at the check before a send accounts for all that may still wait.
Cleared ==
    /\ \A w \in Dispatchers : dispatcher[w].at = "send" => Clear(First(w), dispatcher[w].unclear)
    /\ \A r \in sent : Clear(r[1], r[3])

Once == Waiting /\ Knowing /\ Truthful /\ Counted

IInv == Typed /\ Once /\ Cleared
-----------------------------------------------------------------------------
(* The conversation goes on.                                               *)

\* A message is appended or one is changed; none starts to hold up a later one, unless
\* its language was unknown.
LEMMA LogGoesOn ==
    ASSUME LogTypeOK, LogNext
    PROVE  /\ LogTypeOK' /\ Len(log) \in Nat /\ Len(log') \in Nat /\ Len(log) <= Len(log')
           /\ \A q \in 1..Len(log) : May(q)' => May(q)
<1>1. /\ log \in Seq(Entries) /\ Len(log) \in Nat /\ DOMAIN log = 1..Len(log)
      /\ \A q \in 1..Len(log) : log[q] \in Entries
      /\ Len(log) <= MaxMessages /\ MaxMessages \in Nat
  BY LenProperties, ElementOfSeq, LogAssumption DEF LogTypeOK
<1>2. CASE Write
  <2>1. PICK k \in Kinds, s \in {"NONE", "WAITING"} :
           /\ Len(log) < MaxMessages
           /\ log' = Append(log, [sender |-> k.sender, lang |-> k.lang,
                                  skipped |-> FALSE, status |-> s])
    BY <1>2 DEF Write
  <2>2. PICK e : e = [sender |-> k.sender, lang |-> k.lang,
                      skipped |-> FALSE, status |-> s]
    OBVIOUS
  <2>3. e \in Entries
    BY <2>2, LogAssumption DEF Entries, Progress
  <2>4. /\ log' \in Seq(Entries) /\ Len(log') = Len(log) + 1
        /\ \A q \in 1..Len(log) : log'[q] = log[q]
    BY <1>1, <2>1, <2>2, <2>3, AppendProperties
  <2>5. LogTypeOK' /\ Len(log') \in Nat /\ Len(log) <= Len(log')
    BY <1>1, <2>1, <2>4 DEF LogTypeOK
  <2>6. \A q \in 1..Len(log) : May(q)' <=> May(q)
    BY <2>4 DEF May, Blocks
  <2> QED
    BY <1>1, <2>4, <2>5, <2>6
<1>3. ASSUME NEW p \in Positions, NEW e \in Entries, log' = [log EXCEPT ![p] = e],
             e.sender = log[p].sender,
             \/ log[p].lang = "unknown"
             \/ e.lang = log[p].lang /\ e.lang # "unknown"
                /\ (~ e.skipped => ~ log[p].skipped)
                /\ (e.status # "SUCCEEDED" => log[p].status # "SUCCEEDED")
      PROVE  /\ LogTypeOK' /\ Len(log') = Len(log)
             /\ \A q \in 1..Len(log) : May(q)' => May(q)
  <2>0. p \in 1..Len(log)
    BY <1>1 DEF Positions
  <2>1. log' \in Seq(Entries) /\ Len(log') = Len(log)
    BY <1>1, <1>3, <2>0, ExceptSeq
  <2>2. \A q \in 1..Len(log) : log'[q] = IF q = p THEN e ELSE log[q]
    BY <1>1, <1>3
  <2>3. LogTypeOK'
    BY <1>1, <2>1 DEF LogTypeOK
  <2>4. ASSUME NEW q \in 1..Len(log), May(q)'
        PROVE  May(q)
    <3>1. CASE q = p
      <4>1. log'[q] = e
        BY <2>2, <3>1
      <4> QED
        BY <1>3, <2>4, <3>1, <4>1 DEF May, Blocks
    <3>2. CASE q # p
      <4>1. log'[q] = log[q]
        BY <2>2, <3>2
      <4> QED
        BY <2>4, <4>1 DEF May, Blocks
    <3> QED
      BY <3>1, <3>2
  <2> QED
    BY <2>1, <2>3, <2>4
<1>4. ASSUME NEW p \in Positions, Skip(p) \/ Confirm(p) \/ Order(p)
      PROVE  /\ LogTypeOK' /\ Len(log') = Len(log)
             /\ \A q \in 1..Len(log) : May(q)' => May(q)
  <2>0. log[p] \in Entries
    BY <1>1 DEF Positions
  <2>1. CASE Skip(p)
    <3>1. PICK e : e = [log[p] EXCEPT !.skipped = TRUE, !.status = IF @ = "WAITING" THEN "ENDED" ELSE @]
      OBVIOUS
    <3>2. /\ e \in Entries /\ e.sender = log[p].sender /\ e.skipped /\ e.lang = log[p].lang
          /\ e.status # "SUCCEEDED" => log[p].status # "SUCCEEDED"
      BY <2>0, <3>1 DEF Entries, Progress
    <3>3. log' = [log EXCEPT ![p] = e]
      BY <1>1, <2>0, <2>1, <3>1 DEF Skip, Entries
    <3> QED
      BY <1>3, <3>2, <3>3
  <2>2. CASE Confirm(p)
    <3>1. PICK l \in {"same", "other"}, s \in {"NONE", "WAITING"} :
             log' = [log EXCEPT ![p].lang = l, ![p].status = s] /\ log[p].lang = "unknown"
      BY <2>2 DEF Confirm
    <3>2. PICK e : e = [log[p] EXCEPT !.lang = l, !.status = s]
      OBVIOUS
    <3>3. e \in Entries /\ e.sender = log[p].sender
      BY <2>0, <3>2 DEF Entries, Langs, Progress
    <3>4. log' = [log EXCEPT ![p] = e]
      BY <1>1, <2>0, <3>1, <3>2 DEF Entries
    <3> QED
      BY <1>3, <3>1, <3>3, <3>4
  <2>3. CASE Order(p)
    <3>1. PICK e : e = [log[p] EXCEPT !.status = "WAITING"]
      OBVIOUS
    <3>2. /\ e \in Entries /\ e.sender = log[p].sender /\ e.skipped = log[p].skipped
          /\ e.lang = log[p].lang
      BY <2>0, <3>1 DEF Entries, Progress
    <3>3. log' = [log EXCEPT ![p] = e] /\ log[p].status # "SUCCEEDED"
      BY <1>1, <2>3, <3>1 DEF Order
    <3> QED
      BY <1>3, <3>2, <3>3
  <2> QED
    BY <1>4, <2>1, <2>2, <2>3
<1>5. CASE Translate
  <2>1. PICK done \in SUBSET {p \in Positions : log[p].status = "WAITING"},
             failed \in SUBSET {p \in Positions : log[p].status = "WAITING"} :
           log' = [p \in Positions |-> IF p \in done THEN [log[p] EXCEPT !.status = "SUCCEEDED"]
                                       ELSE IF p \in failed THEN [log[p] EXCEPT !.status = "ENDED"]
                                       ELSE log[p]]
    BY <1>5 DEF Translate
  <2>2. \A p \in 1..Len(log) :
           /\ log'[p] \in Entries /\ log'[p].sender = log[p].sender
           /\ log'[p].skipped = log[p].skipped /\ log'[p].lang = log[p].lang
           /\ log'[p].status = log[p].status \/ log[p].status = "WAITING"
    BY <1>1, <2>1 DEF Entries, Progress, Positions
  <2>3. log' = [p \in 1..Len(log) |-> log'[p]]
    BY <1>1, <2>1 DEF Positions
  <2>4. log' \in Seq(Entries) /\ Len(log') = Len(log)
    BY <1>1, <2>2, <2>3
  <2> QED
    BY <1>1, <2>2, <2>4 DEF LogTypeOK, May, Blocks
<1> QED
  BY <1>1, <1>2, <1>4, <1>5 DEF LogNext

-----------------------------------------------------------------------------
(* Batches.                                                                *)

LEMMA Batches ==
    ASSUME NEW n \in Nat, NEW d \in Dispatches(n), d.at # "idle"
    PROVE  /\ d.batch \in Seq(1..n) /\ d.batch # << >> /\ Len(d.batch) \in Nat \ {0}
           /\ DOMAIN d.batch = 1..Len(d.batch)
           /\ Head(d.batch) = d.batch[1] /\ Head(d.batch) \in 1..n
           /\ d.at # "record" => Head(d.batch) \in UnsentOf(d)
           /\ d.at = "record" => Head(d.batch) \notin UnsentOf(d)
<1>1. d.batch \in Seq(1..n) /\ d.batch # << >>
  BY DEF Dispatches
<1>2. /\ Len(d.batch) \in Nat \ {0} /\ DOMAIN d.batch = 1..Len(d.batch)
  BY <1>1, EmptySeq, LenProperties
<1>3. Head(d.batch) = d.batch[1] /\ 1 \in 1..Len(d.batch)
  BY <1>1, <1>2
<1>4. Head(d.batch) \in 1..n
  BY <1>1, <1>3, ElementOfSeq
<1>5. d.at = "record" => Head(d.batch) \notin UnsentOf(d)
  BY <1>2, <1>3 DEF UnsentOf, Dispatches
<1> QED
  BY <1>1, <1>2, <1>3, <1>4, <1>5 DEF UnsentOf

\* After its first delivery a worker takes the next one.
Next1(d) == IF Len(d.batch) = 1 THEN Off ELSE [Off EXCEPT !.at = "check", !.batch = Tail(d.batch)]

LEMMA OffTyped ==
    ASSUME NEW n \in Nat
    PROVE  Off \in Dispatches(n) /\ UnsentOf(Off) = {} /\ Off.at = "idle"
<1>1. << >> \in Seq(1..n) /\ Len(<< >>) = 0 /\ DOMAIN << >> = {}
  BY EmptySeq
<1> QED
  BY <1>1, ChannelAssumption DEF Off, Dispatches, UnsentOf, Outcomes

LEMMA NextOfBatch ==
    ASSUME NEW n \in Nat, NEW d \in Dispatches(n), d.at # "idle"
    PROVE  /\ Next1(d) \in Dispatches(n) /\ Next1(d).at \in {"idle", "check"}
           /\ UnsentOf(Next1(d)) \subseteq UnsentOf(d) \ {Head(d.batch)}
<1>1. /\ d.batch \in Seq(1..n) /\ d.batch # << >> /\ Len(d.batch) \in Nat \ {0}
      /\ DOMAIN d.batch = 1..Len(d.batch) /\ Head(d.batch) = d.batch[1]
  BY Batches
<1>2. CASE Len(d.batch) = 1
  BY <1>2, OffTyped DEF Next1
<1>3. CASE Len(d.batch) # 1
  <2>1. PICK b : b = Tail(d.batch)
    OBVIOUS
  <2>2. /\ b \in Seq(1..n) /\ Len(b) = Len(d.batch) - 1
        /\ \A i \in 1..Len(b) : b[i] = d.batch[i + 1]
    BY <1>1, <2>1, HeadTailProperties
  <2>3. b # << >> /\ DOMAIN b = 1..Len(b) /\ Len(b) \in Nat /\ Len(b) <= Batch
    <3>1. DOMAIN b = 1..Len(b) /\ Len(b) \in Nat
      BY <2>2, LenProperties
    <3>2. Len(b) # 0
      BY <1>1, <1>3, <2>2
    <3>3. Len(d.batch) <= Batch /\ Batch \in Nat
      BY ChannelAssumption DEF Dispatches
    <3>4. Len(<< >>) = 0
      OBVIOUS
    <3>5. b # << >>
      BY <3>2, <3>4
    <3>6. Len(d.batch) \in Nat
      BY <1>1
    <3>7. Len(b) <= Batch
      BY <2>2, <3>1, <3>3, <3>6
    <3> QED
      BY <3>1, <3>5, <3>7
  <2>4. \A i, j \in DOMAIN b : b[i] = b[j] => i = j
    <3> SUFFICES ASSUME NEW i \in 1..Len(b), NEW j \in 1..Len(b), b[i] = b[j]
                 PROVE  i = j
      BY <2>3
    <3>1. i + 1 \in DOMAIN d.batch /\ j + 1 \in DOMAIN d.batch
      BY <1>1, <2>2, <2>3
    <3>2. d.batch[i + 1] = d.batch[j + 1]
      BY <2>2
    <3> QED
      BY <3>1, <3>2 DEF Dispatches
  <2>5. PICK e : e = [Off EXCEPT !.at = "check", !.batch = b]
    OBVIOUS
  <2>6. e = Next1(d) /\ e.at = "check" /\ e.batch = b /\ e.outcome = "UNKNOWN"
        /\ e.again = FALSE /\ e.unclear = {}
    BY <1>3, <2>1, <2>5 DEF Next1, Off
  <2>7. e \in Dispatches(n)
    BY <2>2, <2>3, <2>4, <2>5 DEF Dispatches, Off, Outcomes
  <2>8. ASSUME NEW x \in UnsentOf(e)
        PROVE  x \in UnsentOf(d) /\ x # Head(d.batch)
    <3>1. PICK i \in 1..Len(b) : x = b[i]
      BY <2>3, <2>6 DEF UnsentOf
    <3>2. /\ i + 1 \in DOMAIN d.batch /\ i + 1 > 1 /\ x = d.batch[i + 1] /\ 1 \in DOMAIN d.batch
      BY <1>1, <2>2, <2>3, <3>1
    <3>3. x # d.batch[1]
      BY <3>2 DEF Dispatches
    <3> QED
      BY <1>1, <3>2, <3>3 DEF UnsentOf
  <2> QED
    BY <2>6, <2>7, <2>8
<1> QED
  BY <1>2, <1>3

\* A worker goes on to another step of its first delivery.
LEMMA StepOfBatch ==
    ASSUME NEW n \in Nat, NEW d \in Dispatches(n), d.at # "idle",
           NEW e, e.at = "send" \/ e.at = "record", e.outcome \in Outcomes, e.again \in BOOLEAN,
           e.unclear \in SUBSET (1..n),
           e = [at |-> e.at, batch |-> d.batch, outcome |-> e.outcome, again |-> e.again,
                unclear |-> e.unclear]
    PROVE  /\ e \in Dispatches(n) /\ e.batch = d.batch
           /\ e.at = "record" => UnsentOf(e) \subseteq UnsentOf(d)
           /\ d.at # "record" => UnsentOf(e) \subseteq UnsentOf(d)
<1>1. PICK at, o, again, u : at = e.at /\ o = e.outcome /\ again = e.again /\ u = e.unclear
  OBVIOUS
<1>2. e = [at |-> at, batch |-> d.batch, outcome |-> o, again |-> again, unclear |-> u]
  BY <1>1
<1>3. e.batch = d.batch
  BY <1>2
<1>4. e \in Dispatches(n)
  BY <1>1, <1>2, <1>3 DEF Dispatches
<1>5. Head(d.batch) = d.batch[1] /\ DOMAIN d.batch = 1..Len(d.batch) /\ Len(d.batch) \in Nat \ {0}
  BY Batches
<1> QED
  BY <1>3, <1>4, <1>5 DEF UnsentOf

\* More messages do not spoil a batch.
LEMMA LongerLog ==
    ASSUME NEW n \in Nat, NEW m \in Nat, n <= m, NEW d \in Dispatches(n)
    PROVE  d \in Dispatches(m)
<1>1. 1..n \subseteq 1..m
  OBVIOUS
<1>2. d.batch \in Seq(1..m)
  BY <1>1, SeqMonotonic DEF Dispatches
<1>3. d = [at |-> d.at, batch |-> d.batch, outcome |-> d.outcome, again |-> d.again,
           unclear |-> d.unclear]
  BY DEF Dispatches
<1>4. d.unclear \in SUBSET (1..m)
  BY <1>1 DEF Dispatches
<1> QED
  BY <1>2, <1>3, <1>4 DEF Dispatches

\* A worker alone changes what it is doing, and leaves no more unsent than it had.
LEMMA OneWorker ==
    ASSUME NEW n \in Nat, dispatcher \in [Dispatchers -> Dispatches(n)], NEW w \in Dispatchers,
           NEW d \in Dispatches(n), UnsentOf(d) \subseteq Unsent(w),
           dispatcher' = [dispatcher EXCEPT ![w] = d]
    PROVE  /\ dispatcher' \in [Dispatchers -> Dispatches(n)] /\ dispatcher'[w] = d
           /\ \A v \in Dispatchers : v # w => dispatcher'[v] = dispatcher[v]
           /\ \A v \in Dispatchers : Unsent(v)' \subseteq Unsent(v)
<1>1. /\ dispatcher' \in [Dispatchers -> Dispatches(n)] /\ dispatcher'[w] = d
      /\ \A v \in Dispatchers : v # w => dispatcher'[v] = dispatcher[v]
  OBVIOUS
<1>2. \A v \in Dispatchers : Unsent(v)' = UnsentOf(dispatcher'[v])
  BY DEF Unsent
<1>3. Unsent(w)' \subseteq Unsent(w)
  BY <1>1, <1>2
<1>4. \A v \in Dispatchers : v # w => Unsent(v)' = Unsent(v)
  BY <1>1, <1>2 DEF Unsent
<1> QED
  BY <1>1, <1>3, <1>4
-----------------------------------------------------------------------------
(* A worker goes on with its batch.                                        *)

\* An honest end, or another try, of the delivery of message p.
Closes(p, e) ==
    /\ e \in Deliveries /\ e.status \in Terminal \cup {"PENDING"}
    /\ e.status \in {"PENDING", "FAILED"} => Silent(p)
    /\ e.status = "DELIVERED" => ~ Silent(p)
    /\ e.status = "PENDING" => e.attempts < MaxSends
    /\ e.status = "UNKNOWN" => e.attempts >= 1

\* What a worker does without sending: it leaves the ledger alone or ends the delivery it has
\* leased and drops it.
GoesOn(w, d) ==
    /\ dispatcher' = [dispatcher EXCEPT ![w] = d]
    /\ d \in Dispatches(Len(log)) /\ UnsentOf(d) \subseteq Unsent(w)
    /\ d.at = "record" => d.outcome = "UNKNOWN"
    /\ d.at = "send" => Clear(Head(d.batch), d.unclear)
    /\ UNCHANGED <<log, sent>>

Ends(w, d) == \E p \in 1..MaxMessages, e \in Deliveries :
    /\ Leased(p, w) /\ p \notin UnsentOf(d) /\ Closes(p, e)
    /\ deliveries' = [deliveries EXCEPT ![p] = e]

LEMMA KeptTyped ==
    ASSUME IInv, NEW w \in Dispatchers, NEW d, GoesOn(w, d),
           deliveries' = deliveries \/ Ends(w, d)
    PROVE  Typed'
<1>1. Len(log) \in Nat
  BY LenProperties DEF IInv, Typed, LogTypeOK
<1>2. dispatcher' \in [Dispatchers -> Dispatches(Len(log))]
  BY <1>1, OneWorker DEF IInv, Typed, GoesOn
<1>3. log' = log /\ sent' = sent /\ Len(log') = Len(log) /\ LogTypeOK'
  BY DEF GoesOn, IInv, Typed, LogTypeOK
<1>4. deliveries' \in [1..MaxMessages -> Deliveries]
  BY DEF Ends, IInv, Typed
<1> QED
  BY <1>2, <1>3, <1>4 DEF IInv, Typed

LEMMA KeptOnce ==
    ASSUME IInv, NEW w \in Dispatchers, NEW d, GoesOn(w, d),
           deliveries' = deliveries \/ Ends(w, d)
    PROVE  Once'
<1>1. Len(log) \in Nat
  BY LenProperties DEF IInv, Typed, LogTypeOK
<1>2. /\ dispatcher' \in [Dispatchers -> Dispatches(Len(log))] /\ dispatcher'[w] = d
      /\ \A v \in Dispatchers : v # w => dispatcher'[v] = dispatcher[v]
      /\ \A v \in Dispatchers : Unsent(v)' \subseteq Unsent(v)
  BY <1>1, OneWorker DEF IInv, Typed, GoesOn
<1>3. \A p : Silent(p)' <=> Silent(p)
  BY DEF GoesOn, Silent
<1>4. Unsent(w)' = UnsentOf(d)
  BY <1>2 DEF Unsent
<1>5. CASE deliveries' = deliveries
  <2>1. \A p, v : Leased(p, v)' <=> Leased(p, v)
    BY <1>5 DEF Leased
  <2>2. Waiting'
    BY <1>2, <1>3, <1>5, <2>1 DEF Waiting, IInv, Once
  <2>3. Knowing'
    <3> SUFFICES ASSUME NEW v \in Dispatchers, (dispatcher[v].at = "record" /\ Leased(First(v), v))'
                 PROVE  /\ dispatcher'[v].outcome \in {"RETRYABLE", "FAILED"} => Silent(First(v))'
                        /\ dispatcher'[v].outcome = "DELIVERED" => ~ Silent(First(v))'
      BY DEF Knowing
    <3>1. CASE v = w
      BY <1>2, <3>1 DEF GoesOn
    <3>2. CASE v # w
      <4>1. dispatcher'[v] = dispatcher[v] /\ First(v)' = First(v)
        BY <1>2, <3>2 DEF First
      <4> QED
        BY <1>3, <2>1, <4>1 DEF Knowing, IInv, Once
    <3> QED
      BY <3>1, <3>2
  <2>4. Truthful' /\ Counted'
    BY <1>3, <1>5 DEF Truthful, Counted, IInv, Once, GoesOn
  <2> QED
    BY <2>2, <2>3, <2>4 DEF Once
<1>6. CASE Ends(w, d)
  <2>1. PICK p \in 1..MaxMessages, e \in Deliveries :
           /\ Leased(p, w) /\ p \notin UnsentOf(d) /\ Closes(p, e)
           /\ deliveries' = [deliveries EXCEPT ![p] = e]
    BY <1>6 DEF Ends
  <2>2. /\ deliveries'[p] = e /\ e.status # "RUNNING"
        /\ \A q : q # p => deliveries'[q] = deliveries[q]
    BY <2>1 DEF IInv, Typed, Closes, Terminal
  <2>3. /\ \A q, v : Leased(q, v)' => q # p /\ Leased(q, v)
        /\ \A q, v : q # p /\ Leased(q, v) => Leased(q, v)'
    BY <2>2 DEF Leased
  <2>4. \A v \in Dispatchers : p \notin Unsent(v)'
    <3>1. p \notin Unsent(w)'
      BY <1>4, <2>1
    <3>2. \A v \in Dispatchers : v # w => p \notin Unsent(v)
      BY <2>1 DEF Waiting, IInv, Once, Leased
    <3> QED
      BY <1>2, <3>1, <3>2
  <2>5. Waiting'
    BY <1>2, <1>3, <2>2, <2>3, <2>4 DEF Waiting, IInv, Once
  <2>6. Knowing'
    <3> SUFFICES ASSUME NEW v \in Dispatchers, (dispatcher[v].at = "record" /\ Leased(First(v), v))'
                 PROVE  /\ dispatcher'[v].outcome \in {"RETRYABLE", "FAILED"} => Silent(First(v))'
                        /\ dispatcher'[v].outcome = "DELIVERED" => ~ Silent(First(v))'
      BY DEF Knowing
    <3>1. CASE v = w
      BY <1>2, <3>1 DEF GoesOn
    <3>2. CASE v # w
      <4>1. dispatcher'[v] = dispatcher[v] /\ First(v)' = First(v)
        BY <1>2, <3>2 DEF First
      <4>2. Leased(First(v), v)
        BY <2>3, <4>1
      <4> QED
        BY <1>3, <4>1, <4>2 DEF Knowing, IInv, Once
    <3> QED
      BY <3>1, <3>2
  <2>7. Truthful'
    BY <1>3, <2>1, <2>2 DEF Truthful, IInv, Once, GoesOn, Closes, Terminal
  <2>8. Counted'
    BY <2>1, <2>2 DEF Counted, IInv, Once, Closes, Terminal
  <2> QED
    BY <2>5, <2>6, <2>7, <2>8 DEF Once
<1> QED
  BY <1>5, <1>6

LEMMA KeptClear ==
    ASSUME IInv, NEW w \in Dispatchers, NEW d, GoesOn(w, d)
    PROVE  Cleared'
<1>1. log' = log /\ sent' = sent
  BY DEF GoesOn
<1>2. \A p, u : Clear(p, u)' <=> Clear(p, u)
  BY <1>1 DEF Clear, May, Blocks
<1>3. \A r \in sent' : Clear(r[1], r[3])'
  BY <1>1, <1>2 DEF IInv, Cleared
<1>4. \A v \in Dispatchers : dispatcher'[v] = dispatcher[v] \/ (v = w /\ dispatcher'[v] = d)
  BY DEF IInv, Typed, GoesOn
<1>5. ASSUME NEW v \in Dispatchers, dispatcher'[v].at = "send"
      PROVE  Clear(First(v), dispatcher[v].unclear)'
  <2>1. CASE dispatcher'[v] = dispatcher[v]
    <3>1. First(v)' = First(v)
      BY <2>1 DEF First
    <3>2. Clear(First(v), dispatcher[v].unclear)
      BY <1>5, <2>1 DEF IInv, Cleared
    <3> QED
      BY <1>1, <2>1, <3>1, <3>2 DEF Clear, May, Blocks
  <2>2. CASE dispatcher'[v] = d
    <3>1. First(v)' = Head(d.batch)
      BY <2>2 DEF First
    <3>2. Clear(Head(d.batch), d.unclear)
      BY <1>5, <2>2 DEF GoesOn
    <3> QED
      BY <1>1, <2>2, <3>1, <3>2 DEF Clear, May, Blocks
  <2> QED
    BY <1>4, <2>1, <2>2
<1> QED
  BY <1>3, <1>5 DEF Cleared

LEMMA Kept ==
    ASSUME IInv, NEW w \in Dispatchers, NEW d, GoesOn(w, d),
           deliveries' = deliveries \/ Ends(w, d)
    PROVE  IInv'
  BY KeptTyped, KeptOnce, KeptClear DEF IInv

\* What holds of a worker with a batch.
LEMMA AtWork ==
    ASSUME IInv, NEW w \in Dispatchers, dispatcher[w].at # "idle"
    PROVE  /\ Len(log) \in Nat /\ Len(log) <= MaxMessages
           /\ dispatcher[w] \in Dispatches(Len(log))
           /\ First(w) = Head(dispatcher[w].batch)
           /\ First(w) \in 1..Len(log) /\ First(w) \in 1..MaxMessages
           /\ deliveries[First(w)] \in Deliveries
           /\ dispatcher[w].at # "record" => First(w) \in Unsent(w)
           /\ dispatcher[w].at = "record" => First(w) \notin Unsent(w)
<1>1. Len(log) \in Nat /\ Len(log) <= MaxMessages /\ MaxMessages \in Nat
  BY LenProperties, LogAssumption DEF IInv, Typed, LogTypeOK
<1>2. dispatcher[w] \in Dispatches(Len(log))
  BY DEF IInv, Typed
<1>3. PICK d : d = dispatcher[w]
  OBVIOUS
<1>4. d \in Dispatches(Len(log)) /\ d.at # "idle"
  BY <1>2, <1>3
<1>5. /\ Head(d.batch) \in 1..Len(log)
      /\ d.at # "record" => Head(d.batch) \in UnsentOf(d)
      /\ d.at = "record" => Head(d.batch) \notin UnsentOf(d)
  BY <1>1, <1>4, Batches
<1>6. First(w) = Head(d.batch) /\ Unsent(w) = UnsentOf(d)
  BY <1>3 DEF First, Unsent
<1>7. First(w) \in 1..MaxMessages /\ deliveries[First(w)] \in Deliveries
  BY <1>1, <1>5, <1>6 DEF IInv, Typed
<1> QED
  BY <1>1, <1>2, <1>3, <1>5, <1>6, <1>7

\* A worker takes the next delivery of its batch: nothing of it is the first.
LEMMA TakesNext ==
    ASSUME IInv, NEW w \in Dispatchers, dispatcher[w].at # "idle", Advance(w), UNCHANGED <<log, sent>>
    PROVE  \E d : GoesOn(w, d) /\ First(w) \notin UnsentOf(d)
<1>1. /\ Len(log) \in Nat /\ dispatcher[w] \in Dispatches(Len(log))
      /\ First(w) = Head(dispatcher[w].batch)
  BY AtWork
<1>2. PICK c : c = dispatcher[w]
  OBVIOUS
<1>3. c \in Dispatches(Len(log)) /\ c.at # "idle"
  BY <1>1, <1>2
<1>4. PICK d : d = Next1(c)
  OBVIOUS
<1>5. /\ d \in Dispatches(Len(log)) /\ d.at \in {"idle", "check"}
      /\ UnsentOf(d) \subseteq UnsentOf(c) \ {Head(c.batch)}
  BY <1>1, <1>3, <1>4, NextOfBatch
<1>6. dispatcher' = [dispatcher EXCEPT ![w] = d]
  BY <1>2, <1>4 DEF Advance, Rest, Next1
<1>7. Unsent(w) = UnsentOf(c)
  BY <1>2 DEF Unsent
<1> QED
  BY <1>1, <1>2, <1>5, <1>6, <1>7 DEF GoesOn

LEMMA WithholdKept ==
    ASSUME IInv, NEW w \in Dispatchers, Withhold(w)
    PROVE  IInv'
<1>1. dispatcher[w].at # "idle" /\ Advance(w) /\ UNCHANGED <<log, deliveries, sent>>
  BY DEF Withhold
<1> QED
  BY <1>1, TakesNext, Kept

LEMMA RefuseKept ==
    ASSUME IInv, NEW w \in Dispatchers, Refuse(w)
    PROVE  IInv'
<1>1. /\ dispatcher[w].at = "check" /\ Advance(w) /\ UNCHANGED <<log, sent>>
      /\ deliveries' = IF Current(w) THEN [deliveries EXCEPT ![First(w)] = Ended(@, "FAILED")]
                       ELSE deliveries
  BY DEF Refuse
<1>2. PICK d : GoesOn(w, d) /\ First(w) \notin UnsentOf(d)
  BY <1>1, TakesNext
<1>3. First(w) \in 1..MaxMessages /\ deliveries[First(w)] \in Deliveries /\ First(w) \in Unsent(w)
  BY <1>1, AtWork
<1>4. CASE Current(w)
  <2>1. PICK e : e = Ended(deliveries[First(w)], "FAILED")
    OBVIOUS
  <2>2. e \in Deliveries /\ e.status = "FAILED"
    BY <1>3, <2>1 DEF Ended, Deliveries, Terminal
  <2>3. deliveries' = [deliveries EXCEPT ![First(w)] = e]
    BY <1>1, <1>3, <1>4, <2>1 DEF IInv, Typed
  <2>4. Silent(First(w)) /\ Leased(First(w), w)
    BY <1>3, <1>4 DEF IInv, Once, Waiting, Current, Leased
  <2>5. Closes(First(w), e)
    BY <2>2, <2>4 DEF Closes, Terminal
  <2>6. Ends(w, d)
    BY <1>2, <1>3, <2>2, <2>3, <2>4, <2>5 DEF Ends
  <2> QED
    BY <1>2, <2>6, Kept
<1>5. CASE ~ Current(w)
  BY <1>1, <1>2, <1>5, Kept
<1> QED
  BY <1>4, <1>5

\* A worker goes on to another step of its first delivery.
LEMMA TakesStep ==
    ASSUME IInv, NEW w \in Dispatchers, dispatcher[w].at # "idle",
           NEW at \in {"send", "record"}, NEW o \in Outcomes, NEW again \in BOOLEAN,
           NEW u \in SUBSET (1..Len(log)), at = "record" => o = "UNKNOWN",
           at = "send" => dispatcher[w].at = "check" /\ Clear(First(w), u),
           dispatcher' = [dispatcher EXCEPT ![w] = [@ EXCEPT !.at = at, !.outcome = o, !.again = again,
                                                             !.unclear = u]],
           UNCHANGED <<log, sent>>
    PROVE  \E d : GoesOn(w, d) /\ UnsentOf(d) \subseteq Unsent(w)
<1>1. /\ Len(log) \in Nat /\ dispatcher[w] \in Dispatches(Len(log))
      /\ First(w) = Head(dispatcher[w].batch)
  BY AtWork
<1>2. PICK c : c = dispatcher[w]
  OBVIOUS
<1>3. c \in Dispatches(Len(log)) /\ c.at # "idle" /\ First(w) = Head(c.batch)
  BY <1>1, <1>2
<1>4. PICK d : d = [c EXCEPT !.at = at, !.outcome = o, !.again = again, !.unclear = u]
  OBVIOUS
<1>0. PICK n \in Nat : n = Len(log)
  BY <1>1
<1>5. /\ d \in Dispatches(Len(log)) /\ d.at = at /\ d.batch = c.batch /\ d.outcome = o
      /\ d.unclear = u
      /\ at = "record" => UnsentOf(d) \subseteq UnsentOf(c)
      /\ c.at # "record" => UnsentOf(d) \subseteq UnsentOf(c)
  <2>1. n \in Nat /\ c \in Dispatches(n) /\ c.at # "idle"
    BY <1>0, <1>3
  <2>3. d = [at |-> at, batch |-> c.batch, outcome |-> o, again |-> again, unclear |-> u]
    BY <1>4, <2>1 DEF Dispatches
  <2>4. d.at = at /\ d.outcome = o /\ d.again = again /\ d.unclear = u
    BY <2>3
  <2>5. /\ d.outcome \in Outcomes /\ d.again \in BOOLEAN /\ (d.at = "send" \/ d.at = "record")
        /\ d.unclear \in SUBSET (1..n)
        /\ d = [at |-> d.at, batch |-> c.batch, outcome |-> d.outcome, again |-> d.again,
                unclear |-> d.unclear]
    BY <1>0, <2>3, <2>4
  <2>2. /\ d \in Dispatches(n) /\ d.at = at /\ d.batch = c.batch /\ d.outcome = o
        /\ at = "record" => UnsentOf(d) \subseteq UnsentOf(c)
        /\ c.at # "record" => UnsentOf(d) \subseteq UnsentOf(c)
    BY <2>1, <2>4, <2>5, StepOfBatch
  <2> QED
    BY <1>0, <2>2, <2>4
<1>6. UnsentOf(d) \subseteq UnsentOf(c)
  BY <1>2, <1>5
<1>7. dispatcher' = [dispatcher EXCEPT ![w] = d]
  BY <1>2, <1>4 DEF IInv, Typed
<1>8. Unsent(w) = UnsentOf(c)
  BY <1>2 DEF Unsent
<1>9. d.at = "send" => Clear(Head(d.batch), d.unclear)
  BY <1>3, <1>5
<1>10. GoesOn(w, d)
  BY <1>5, <1>6, <1>7, <1>8, <1>9 DEF GoesOn
<1> QED
  BY <1>6, <1>8, <1>10

\* What a worker does is a record.
LEMMA Fields ==
    ASSUME IInv, NEW w \in Dispatchers
    PROVE  /\ dispatcher[w].outcome \in Outcomes /\ dispatcher[w].again \in BOOLEAN
           /\ dispatcher[w].unclear \in SUBSET (1..Len(log))
           /\ dispatcher[w] = [at |-> dispatcher[w].at, batch |-> dispatcher[w].batch,
                               outcome |-> dispatcher[w].outcome, again |-> dispatcher[w].again,
                               unclear |-> dispatcher[w].unclear]
<1>1. dispatcher[w] \in Dispatches(Len(log))
  BY DEF IInv, Typed
<1> QED
  BY <1>1 DEF Dispatches

LEMMA PreflightKept ==
    ASSUME IInv, NEW w \in Dispatchers, Preflight(w)
    PROVE  IInv'
<1>1. PICK o, again, u : /\ o = dispatcher[w].outcome /\ again = dispatcher[w].again
                         /\ u = Unclear(First(w))
  OBVIOUS
<1>2. o \in Outcomes /\ again \in BOOLEAN
  BY <1>1, Fields
<1>3. /\ dispatcher[w].at = "check" /\ ~ Blocked(First(w)) /\ UNCHANGED <<log, deliveries, sent>>
      /\ dispatcher' = [dispatcher EXCEPT ![w].at = "send", ![w].unclear = u]
  BY <1>1 DEF Preflight
<1>4. [dispatcher[w] EXCEPT !.at = "send", !.unclear = u]
         = [dispatcher[w] EXCEPT !.at = "send", !.outcome = o, !.again = again, !.unclear = u]
  BY <1>1, Fields
<1>5. dispatcher' = [dispatcher EXCEPT ![w] = [@ EXCEPT !.at = "send", !.outcome = o, !.again = again,
                                                        !.unclear = u]]
  BY <1>3, <1>4 DEF IInv, Typed
<1>6. Clear(First(w), u)
  BY <1>1, <1>3 DEF Clear, May, Blocked, Unclear
<1>7. u \in SUBSET (1..Len(log))
  <2>1. Len(log) \in Nat /\ First(w) \in 1..Len(log)
    BY <1>3, AtWork
  <2> QED
    BY <1>1, <2>1 DEF Unclear
<1>8. \E d : GoesOn(w, d) /\ UnsentOf(d) \subseteq Unsent(w)
  BY <1>2, <1>3, <1>5, <1>6, <1>7, TakesStep
<1> QED
  BY <1>3, <1>8, Kept

LEMMA PreflightThrowsKept ==
    ASSUME IInv, NEW w \in Dispatchers, PreflightThrows(w)
    PROVE  IInv'
<1>1. PICK again, u : again = dispatcher[w].again /\ u = dispatcher[w].unclear
  OBVIOUS
<1>2. "UNKNOWN" \in Outcomes /\ again \in BOOLEAN /\ u \in SUBSET (1..Len(log))
  BY <1>1, Fields DEF Outcomes
<1>3. /\ dispatcher[w].at = "check" /\ UNCHANGED <<log, deliveries, sent>>
      /\ dispatcher' = [dispatcher EXCEPT ![w].at = "record", ![w].outcome = "UNKNOWN"]
  BY DEF PreflightThrows
<1>4. [dispatcher[w] EXCEPT !.at = "record", !.outcome = "UNKNOWN"]
         = [dispatcher[w] EXCEPT !.at = "record", !.outcome = "UNKNOWN", !.again = again, !.unclear = u]
  BY <1>1, Fields
<1>5. dispatcher' = [dispatcher EXCEPT ![w] =
                       [@ EXCEPT !.at = "record", !.outcome = "UNKNOWN", !.again = again, !.unclear = u]]
  BY <1>3, <1>4 DEF IInv, Typed
<1>6. \E d : GoesOn(w, d) /\ UnsentOf(d) \subseteq Unsent(w)
  BY <1>2, <1>3, <1>5, TakesStep
<1> QED
  BY <1>3, <1>6, Kept

\* What a worker that still holds the lease writes is true.
LEMMA Marked ==
    ASSUME IInv, NEW w \in Dispatchers, dispatcher[w].at = "record", Mark(w),
           NEW d, First(w) \notin UnsentOf(d)
    PROVE  deliveries' = deliveries \/ Ends(w, d)
<1>1. CASE Current(w)
  <2>1. First(w) \in 1..MaxMessages /\ deliveries[First(w)] \in Deliveries
    BY AtWork
  <2>2. PICK c : c = deliveries[First(w)]
    OBVIOUS
  <2>3. PICK o \in Outcomes : o = dispatcher[w].outcome
    BY Fields
  <2>4. PICK e : e = Recorded(c, o)
    OBVIOUS
  <2>5. /\ c \in Deliveries /\ c.status = "RUNNING" /\ c.attempts \in 0..MaxSends /\ MaxSends \in Nat
        /\ c.attempts >= 1
    BY <1>1, <2>1, <2>2, ChannelAssumption DEF Current, Deliveries, IInv, Once, Counted
  <2>6. e \in Deliveries /\ e.attempts = c.attempts
    BY <2>4, <2>5 DEF Recorded, Ended, Deliveries, Outcomes, Terminal
  <2>7. /\ o # "RETRYABLE" => e.status = o
        /\ o = "RETRYABLE" => e.status = IF c.attempts >= MaxSends THEN "FAILED" ELSE "PENDING"
    BY <2>4, <2>5 DEF Recorded, Ended, Deliveries
  <2>8. Leased(First(w), w)
    BY <1>1 DEF Current, Leased
  <2>9. /\ o \in {"RETRYABLE", "FAILED"} => Silent(First(w))
        /\ o = "DELIVERED" => ~ Silent(First(w))
    BY <2>3, <2>8 DEF IInv, Once, Knowing
  <2>10. Closes(First(w), e)
    BY <2>3, <2>5, <2>6, <2>7, <2>9 DEF Closes, Terminal, Outcomes
  <2>11. deliveries' = [deliveries EXCEPT ![First(w)] = e]
    BY <1>1, <2>1, <2>2, <2>3, <2>4 DEF Mark, IInv, Typed
  <2> QED
    BY <2>1, <2>6, <2>8, <2>10, <2>11 DEF Ends
<1>2. CASE ~ Current(w)
  BY <1>2 DEF Mark
<1> QED
  BY <1>1, <1>2

LEMMA RecordKept ==
    ASSUME IInv, NEW w \in Dispatchers, Record(w)
    PROVE  IInv'
<1>1. dispatcher[w].at = "record" /\ Mark(w) /\ Advance(w) /\ UNCHANGED <<log, sent>>
  BY DEF Record
<1>2. PICK d : GoesOn(w, d) /\ First(w) \notin UnsentOf(d)
  BY <1>1, TakesNext
<1> QED
  BY <1>1, <1>2, Marked, Kept

LEMMA Stops ==
    ASSUME IInv, NEW w \in Dispatchers, dispatcher' = [dispatcher EXCEPT ![w] = Off],
           UNCHANGED <<log, sent>>
    PROVE  GoesOn(w, Off) /\ UnsentOf(Off) = {}
<1>1. Len(log) \in Nat
  BY LenProperties DEF IInv, Typed, LogTypeOK
<1>2. Off \in Dispatches(Len(log)) /\ UnsentOf(Off) = {} /\ Off.at = "idle"
  BY <1>1, OffTyped
<1> QED
  BY <1>2 DEF GoesOn

LEMMA RecordThrowsKept ==
    ASSUME IInv, NEW w \in Dispatchers, RecordThrows(w)
    PROVE  IInv'
<1>1. /\ dispatcher[w].at = "record" /\ UNCHANGED <<log, sent>> /\ (Mark(w) \/ deliveries' = deliveries)
      /\ dispatcher' = [dispatcher EXCEPT ![w] =
                          IF @.again THEN Off ELSE [@ EXCEPT !.outcome = "UNKNOWN", !.again = TRUE]]
  BY DEF RecordThrows
<1>2. \E d : GoesOn(w, d) /\ First(w) \notin UnsentOf(d)
  <2>1. CASE dispatcher[w].again
    <3>1. dispatcher' = [dispatcher EXCEPT ![w] = Off]
      BY <1>1, <2>1 DEF IInv, Typed
    <3> QED
      BY <1>1, <3>1, Stops
  <2>2. CASE ~ dispatcher[w].again
    <3>0. PICK u \in SUBSET (1..Len(log)) : u = dispatcher[w].unclear
      BY Fields
    <3>1. [dispatcher[w] EXCEPT !.outcome = "UNKNOWN", !.again = TRUE]
             = [dispatcher[w] EXCEPT !.at = "record", !.outcome = "UNKNOWN", !.again = TRUE,
                                     !.unclear = u]
      BY <1>1, <3>0, Fields
    <3>2. dispatcher' = [dispatcher EXCEPT ![w] =
                           [@ EXCEPT !.at = "record", !.outcome = "UNKNOWN", !.again = TRUE,
                                     !.unclear = u]]
      BY <1>1, <2>2, <3>1 DEF IInv, Typed
    <3>3. "UNKNOWN" \in Outcomes /\ TRUE \in BOOLEAN
      BY DEF Outcomes
    <3>4. \E d : GoesOn(w, d) /\ UnsentOf(d) \subseteq Unsent(w)
      BY <1>1, <3>2, <3>3, TakesStep
    <3> QED
      BY <1>1, <3>4, AtWork
  <2> QED
    BY <2>1, <2>2
<1> QED
  BY <1>1, <1>2, Marked, Kept

LEMMA CrashKept ==
    ASSUME IInv, NEW w \in Dispatchers, Crash(w)
    PROVE  IInv'
<1>1. dispatcher' = [dispatcher EXCEPT ![w] = Off] /\ UNCHANGED <<log, deliveries, sent>>
  BY DEF Crash
<1> QED
  BY <1>1, Stops, Kept
-----------------------------------------------------------------------------
(* A worker sends.                                                         *)

LEMMA Sends ==
    ASSUME IInv, NEW w \in Dispatchers, Send(w)
    PROVE  \E o \in Outcomes, d \in Dispatches(Len(log)) :
             /\ dispatcher[w].at = "send" /\ UNCHANGED <<log, deliveries>>
             /\ sent' = IF o \in {"RETRYABLE", "FAILED"} THEN sent ELSE sent \cup {Mine(w)}
             /\ dispatcher' = [dispatcher EXCEPT ![w] = d]
             /\ d.at = "record" /\ d.outcome = o /\ Head(d.batch) = First(w)
             /\ UnsentOf(d) \subseteq Unsent(w) \ {First(w)}
<1>1. PICK o \in Outcomes :
         /\ dispatcher[w].at = "send" /\ UNCHANGED <<log, deliveries>>
         /\ sent' = IF o \in {"RETRYABLE", "FAILED"} THEN sent ELSE sent \cup {Mine(w)}
         /\ dispatcher' = [dispatcher EXCEPT ![w].at = "record", ![w].outcome = o, ![w].unclear = {}]
  BY DEF Send
<1>2. PICK n \in Nat : n = Len(log)
  BY <1>1, AtWork
<1>3. PICK c : c = dispatcher[w]
  OBVIOUS
<1>4. c \in Dispatches(n) /\ c.at # "idle" /\ First(w) = Head(c.batch)
  BY <1>1, <1>2, <1>3, AtWork
<1>5. PICK d : d = [c EXCEPT !.at = "record", !.outcome = o, !.unclear = {}]
  OBVIOUS
<1>6. /\ d = [at |-> "record", batch |-> c.batch, outcome |-> o, again |-> c.again, unclear |-> {}]
      /\ c.again \in BOOLEAN
  BY <1>4, <1>5 DEF Dispatches
<1>7. /\ d.at = "record" /\ d.outcome = o /\ d.again \in BOOLEAN /\ (d.at = "send" \/ d.at = "record")
      /\ d = [at |-> d.at, batch |-> c.batch, outcome |-> d.outcome, again |-> d.again,
              unclear |-> d.unclear]
      /\ d.unclear \in SUBSET (1..n)
  BY <1>6
<1>8. d \in Dispatches(n) /\ d.batch = c.batch /\ UnsentOf(d) \subseteq UnsentOf(c)
  BY <1>4, <1>7, StepOfBatch
<1>9. Head(d.batch) \notin UnsentOf(d)
  BY <1>7, <1>8, Batches
<1>10. dispatcher' = [dispatcher EXCEPT ![w] = d]
  BY <1>1, <1>3, <1>5 DEF IInv, Typed
<1>11. Unsent(w) = UnsentOf(c)
  BY <1>3 DEF Unsent
<1>12. /\ d \in Dispatches(Len(log)) /\ Head(d.batch) = First(w)
       /\ UnsentOf(d) \subseteq Unsent(w) \ {First(w)}
  BY <1>2, <1>4, <1>8, <1>9, <1>11
<1> QED
  BY <1>1, <1>7, <1>10, <1>12

LEMMA SendKept ==
    ASSUME IInv, NEW w \in Dispatchers, Send(w)
    PROVE  IInv'
<1>1. PICK o \in Outcomes, d \in Dispatches(Len(log)) :
         /\ dispatcher[w].at = "send" /\ UNCHANGED <<log, deliveries>>
         /\ sent' = IF o \in {"RETRYABLE", "FAILED"} THEN sent ELSE sent \cup {Mine(w)}
         /\ dispatcher' = [dispatcher EXCEPT ![w] = d]
         /\ d.at = "record" /\ d.outcome = o /\ Head(d.batch) = First(w)
         /\ UnsentOf(d) \subseteq Unsent(w) \ {First(w)}
  BY Sends
<1>2. PICK p : p = First(w)
  OBVIOUS
<1>3. /\ Len(log) \in Nat /\ p \in 1..Len(log) /\ p \in 1..MaxMessages
      /\ deliveries[p] \in Deliveries /\ p \in Unsent(w)
  BY <1>1, <1>2, AtWork
<1>4. /\ dispatcher' \in [Dispatchers -> Dispatches(Len(log))] /\ dispatcher'[w] = d
      /\ \A v \in Dispatchers : v # w => dispatcher'[v] = dispatcher[v]
      /\ \A v \in Dispatchers : Unsent(v)' \subseteq Unsent(v)
  BY <1>1, <1>3, OneWorker DEF IInv, Typed
<1>5. /\ Silent(p) /\ deliveries[p].status \in {"RUNNING", "UNKNOWN"}
      /\ \A v \in Dispatchers : v # w => p \notin Unsent(v) /\ ~ Leased(p, v)
  BY <1>3 DEF IInv, Once, Waiting, Leased
<1>6. \A v \in Dispatchers : p \notin Unsent(v)'
  <2>1. Unsent(w)' = UnsentOf(d)
    BY <1>4 DEF Unsent
  <2> QED
    BY <1>1, <1>2, <1>4, <1>5, <2>1
<1>7. PICK r : r = <<p, deliveries[p].attempts, dispatcher[w].unclear>>
  OBVIOUS
<1>8. /\ r \in (1..Len(log)) \X (1..MaxSends) \X SUBSET (1..Len(log))
      /\ r[1] = p /\ r[3] = dispatcher[w].unclear /\ Mine(w) = r
  <2>1. deliveries[p].attempts \in 0..MaxSends /\ deliveries[p].attempts >= 1 /\ MaxSends \in Nat
    BY <1>3, <1>5, ChannelAssumption DEF Deliveries, IInv, Once, Counted
  <2>2. deliveries[p].attempts \in 1..MaxSends
    BY <2>1
  <2>3. dispatcher[w].unclear \in SUBSET (1..Len(log))
    BY Fields
  <2> QED
    BY <1>2, <1>3, <1>7, <2>2, <2>3 DEF Mine
<1>9. /\ \A q : q # p => (Silent(q)' <=> Silent(q))
      /\ o \in {"RETRYABLE", "FAILED"} => Silent(p)'
      /\ o \notin {"RETRYABLE", "FAILED"} => ~ Silent(p)'
      /\ \A t \in sent' : t \in sent \/ t = r
  <2>1. CASE o \in {"RETRYABLE", "FAILED"}
    BY <1>1, <1>5, <2>1 DEF Silent
  <2>2. CASE o \notin {"RETRYABLE", "FAILED"}
    <3>1. sent' = sent \cup {r}
      BY <1>1, <1>8, <2>2
    <3> QED
      BY <1>8, <2>2, <3>1 DEF Silent
  <2> QED
    BY <2>1, <2>2
<1>10. \A q, v : Leased(q, v)' <=> Leased(q, v)
  BY <1>1 DEF Leased
<1>11. Typed'
  <2>1. sent' \subseteq (1..Len(log)) \X (1..MaxSends) \X SUBSET (1..Len(log))
    BY <1>8, <1>9 DEF IInv, Typed
  <2>2. log' = log /\ deliveries' = deliveries
    BY <1>1
  <2> QED
    BY <1>4, <2>1, <2>2 DEF IInv, Typed, LogTypeOK
<1>12. Waiting'
  BY <1>1, <1>4, <1>6, <1>9, <1>10 DEF IInv, Once, Waiting
<1>13. Knowing'
  <2> SUFFICES ASSUME NEW v \in Dispatchers, (dispatcher[v].at = "record" /\ Leased(First(v), v))'
               PROVE  /\ dispatcher'[v].outcome \in {"RETRYABLE", "FAILED"} => Silent(First(v))'
                      /\ dispatcher'[v].outcome = "DELIVERED" => ~ Silent(First(v))'
    BY DEF Knowing
  <2>1. CASE v = w
    <3>1. First(v)' = p /\ dispatcher'[v].outcome = o
      BY <1>1, <1>2, <1>4, <2>1 DEF First
    <3> QED
      BY <1>9, <3>1 DEF Silent
  <2>2. CASE v # w
    <3>1. dispatcher'[v] = dispatcher[v] /\ First(v)' = First(v)
      BY <1>4, <2>2 DEF First
    <3>2. Leased(First(v), v) /\ First(v) # p
      BY <1>5, <1>10, <2>2, <3>1
    <3>3. /\ dispatcher[v].outcome \in {"RETRYABLE", "FAILED"} => Silent(First(v))
          /\ dispatcher[v].outcome = "DELIVERED" => ~ Silent(First(v))
      BY <3>1, <3>2 DEF IInv, Once, Knowing
    <3>4. Silent(First(v))' <=> Silent(First(v))
      <4>1. PICK q : q = First(v)
        OBVIOUS
      <4>2. Silent(q)' <=> Silent(q)
        BY <1>9, <3>2, <4>1
      <4> QED
        BY <3>1, <4>1, <4>2 DEF Silent
    <3> QED
      BY <3>1, <3>3, <3>4
  <2> QED
    BY <2>1, <2>2
<1>14. Truthful'
  <2>1. \A q \in 1..MaxMessages :
           /\ deliveries'[q].status \in {"NONE", "PENDING", "FAILED"} => Silent(q)'
           /\ deliveries'[q].status = "DELIVERED" => ~ Silent(q)'
    BY <1>1, <1>5, <1>9 DEF IInv, Once, Truthful
  <2>2. \A t, s \in sent' : t[1] = s[1] => t = s
    BY <1>5, <1>8, <1>9 DEF IInv, Once, Truthful, Silent
  <2> QED
    BY <2>1, <2>2 DEF Truthful
<1>15. Counted'
  BY <1>1 DEF IInv, Once, Counted
<1>16. Cleared'
  <2>0. \A q, u : Clear(q, u)' <=> Clear(q, u)
    BY <1>1 DEF Clear, May, Blocks
  <2>2. ASSUME NEW v \in Dispatchers, dispatcher'[v].at = "send"
        PROVE  Clear(First(v), dispatcher[v].unclear)'
    <3>1. v # w /\ dispatcher'[v] = dispatcher[v] /\ First(v)' = First(v)
      BY <1>1, <1>4, <2>2 DEF First
    <3>2. Clear(First(v), dispatcher[v].unclear)
      BY <2>2, <3>1 DEF IInv, Cleared
    <3> QED
      BY <1>1, <3>1, <3>2 DEF Clear, May, Blocks
  <2>3. Clear(p, r[3])
    BY <1>1, <1>2, <1>8 DEF IInv, Cleared
  <2>4. \A t \in sent' : Clear(t[1], t[3])
    BY <1>8, <1>9, <2>3 DEF IInv, Cleared
  <2>5. \A t \in sent' : Clear(t[1], t[3])'
    BY <2>0, <2>4
  <2> QED
    BY <2>2, <2>5 DEF Cleared
<1> QED
  BY <1>11, <1>12, <1>13, <1>14, <1>15, <1>16 DEF IInv, Once
-----------------------------------------------------------------------------
(* A worker claims.                                                        *)

\* A set of messages in some order is a batch.
LEMMA BatchOf ==
    ASSUME NEW n \in Nat, NEW s \in SUBSET (1..n), NEW b, b \in SetToSeqs(s), Cardinality(s) <= Batch,
           b # << >>
    PROVE  /\ [Off EXCEPT !.at = "check", !.batch = b] \in Dispatches(n)
           /\ UnsentOf([Off EXCEPT !.at = "check", !.batch = b]) \subseteq s
<1>1. IsFiniteSet(s)
  <2>1. 1 \in Int /\ n \in Int
    OBVIOUS
  <2>2. IsFiniteSet(1..n)
    BY <2>1, FS_Interval
  <2> QED
    BY <2>2, FS_Subset
<1>2. PICK k : k = Cardinality(s)
  OBVIOUS
<1>3. k \in Nat /\ k <= Batch
  BY <1>1, <1>2, FS_CardinalityType
<1>4. b \in [1..k -> s] /\ \A i, j \in 1..k : i # j => b[i] # b[j]
  BY <1>2 DEF SetToSeqs
<1>5. b \in Seq(1..n) /\ Len(b) = k /\ DOMAIN b = 1..k
  <2>1. b \in [1..k -> 1..n]
    BY <1>4
  <2> QED
    BY <1>3, <2>1
<1>6. PICK e : e = [Off EXCEPT !.at = "check", !.batch = b]
  OBVIOUS
<1>7. /\ e = [at |-> "check", batch |-> b, outcome |-> "UNKNOWN", again |-> FALSE, unclear |-> {}]
      /\ e.batch = b /\ e.at = "check"
  BY <1>6 DEF Off
<1>8. e \in Dispatches(n)
  BY <1>3, <1>4, <1>5, <1>7 DEF Dispatches, Outcomes
<1>9. UnsentOf(e) \subseteq s
  BY <1>4, <1>5, <1>7 DEF UnsentOf
<1> QED
  BY <1>6, <1>8, <1>9

\* What a claim does to the delivery of message q, of which it may take those of s.
Sweeps(w, s, q) ==
    /\ q \in s => /\ deliveries[q].status = "PENDING" /\ deliveries'[q].status = "RUNNING"
                  /\ deliveries'[q].attempts = deliveries[q].attempts + 1
                  /\ deliveries'[q].holder = w
    /\ q \notin s => \/ deliveries'[q] = deliveries[q]
                     \/ /\ deliveries[q].status = "RUNNING" /\ deliveries'[q].status = "UNKNOWN"
                        /\ deliveries'[q].attempts = deliveries[q].attempts

LEMMA Claims ==
    ASSUME IInv, NEW w \in Dispatchers, ClaimDue(w)
    PROVE  \E s \in SUBSET (1..Len(log)), d \in Dispatches(Len(log)) :
             /\ dispatcher[w].at = "idle" /\ UNCHANGED <<log, sent>>
             /\ deliveries' \in [1..MaxMessages -> Deliveries]
             /\ \A q \in 1..MaxMessages : Sweeps(w, s, q)
             /\ dispatcher' = [dispatcher EXCEPT ![w] = d]
             /\ d.at \in {"idle", "check"} /\ UnsentOf(d) \subseteq s
<1>1. /\ deliveries \in [1..MaxMessages -> Deliveries] /\ DOMAIN deliveries = 1..MaxMessages
      /\ dispatcher \in [Dispatchers -> Dispatches(Len(log))]
      /\ Len(log) \in Nat /\ MaxMessages \in Nat /\ Len(log) <= MaxMessages /\ Positions = 1..Len(log)
  BY LenProperties, LogAssumption DEF IInv, Typed, LogTypeOK, Positions
<1>2. PICK a : a = [p \in DOMAIN deliveries |-> Swept(deliveries[p])]
  OBVIOUS
<1>3. PICK ready : ready = {p \in Positions : a[p].status = "PENDING" /\ Ready(p) /\ ~ Blocked(p)}
  OBVIOUS
<1>4. /\ dispatcher[w].at = "idle" /\ UNCHANGED <<log, sent>>
      /\ \E s \in {t \in SUBSET ready : Cardinality(t) <= Batch} : \E b \in SetToSeqs(s) :
            /\ deliveries' = [p \in DOMAIN a |-> IF p \in s THEN Claimed(a[p], w) ELSE a[p]]
            /\ dispatcher' = IF b = << >> THEN dispatcher
                             ELSE [dispatcher EXCEPT ![w] = [Off EXCEPT !.at = "check", !.batch = b]]
  BY <1>2, <1>3 DEF ClaimDue
<1>5. PICK s, b :
         /\ s \in SUBSET ready /\ b \in SetToSeqs(s)
         /\ Cardinality(s) <= Batch
         /\ deliveries' = [p \in DOMAIN a |-> IF p \in s THEN Claimed(a[p], w) ELSE a[p]]
         /\ dispatcher' = IF b = << >> THEN dispatcher
                          ELSE [dispatcher EXCEPT ![w] = [Off EXCEPT !.at = "check", !.batch = b]]
  BY <1>4
<1>6. s \in SUBSET (1..Len(log)) /\ \A q \in s : q \in 1..MaxMessages /\ a[q].status = "PENDING"
  BY <1>1, <1>3, <1>5
<1>7. ASSUME NEW q \in 1..MaxMessages
      PROVE  Sweeps(w, s, q) /\ deliveries'[q] \in Deliveries
  <2>1. PICK x \in Deliveries : x = deliveries[q]
    BY <1>1
  <2>2. PICK y : y = Swept(x)
    OBVIOUS
  <2>3. a[q] = y /\ deliveries'[q] = IF q \in s THEN Claimed(y, w) ELSE y
    BY <1>1, <1>2, <1>5, <2>1, <2>2
  <2>4. /\ y \in Deliveries /\ y.attempts = x.attempts
        /\ y = x \/ (x.status = "RUNNING" /\ y.status = "UNKNOWN")
    BY <2>2 DEF Swept, Stale, Ended, Deliveries, Terminal
  <2>5. CASE q \notin s
    BY <2>1, <2>3, <2>4, <2>5 DEF Sweeps
  <2>6. CASE q \in s
    <3>1. y = x /\ x.status = "PENDING"
      BY <1>6, <2>3, <2>4, <2>6
    <3>2. x.attempts < MaxSends /\ x.attempts \in 0..MaxSends /\ MaxSends \in Nat
      BY <2>1, <3>1, ChannelAssumption DEF IInv, Once, Counted, Deliveries
    <3>3. PICK z : z = Claimed(x, w)
      OBVIOUS
    <3>4. x.attempts + 1 \in 0..MaxSends
      BY <3>2
    <3>5. z = [status |-> "RUNNING", attempts |-> x.attempts + 1, holder |-> w, over |-> x.over]
      BY <3>3 DEF Claimed, Deliveries
    <3>6. /\ z \in Deliveries /\ z.status = "RUNNING" /\ z.attempts = x.attempts + 1 /\ z.holder = w
      BY <3>4, <3>5 DEF Deliveries
    <3> QED
      BY <2>1, <2>3, <2>6, <3>1, <3>3, <3>6 DEF Sweeps
  <2> QED
    BY <2>5, <2>6
<1>8. deliveries' \in [1..MaxMessages -> Deliveries]
  BY <1>1, <1>2, <1>5, <1>7
<1>9. \E d \in Dispatches(Len(log)) : /\ dispatcher' = [dispatcher EXCEPT ![w] = d]
                                      /\ d.at \in {"idle", "check"} /\ UnsentOf(d) \subseteq s
  <2>1. CASE b = << >>
    <3>1. PICK d : d = dispatcher[w]
      OBVIOUS
    <3>2. d \in Dispatches(Len(log)) /\ d.at = "idle"
      BY <1>1, <1>4, <3>1
    <3>3. dispatcher' = [dispatcher EXCEPT ![w] = d]
      BY <1>1, <1>5, <2>1, <3>1
    <3>4. UnsentOf(d) = {}
      BY <3>2, EmptySeq DEF UnsentOf, Dispatches
    <3> QED
      BY <3>2, <3>3, <3>4
  <2>2. CASE b # << >>
    <3>1. PICK d : d = [Off EXCEPT !.at = "check", !.batch = b]
      OBVIOUS
    <3>2. d \in Dispatches(Len(log)) /\ UnsentOf(d) \subseteq s
      BY <1>1, <1>5, <1>6, <2>2, <3>1, BatchOf
    <3>3. dispatcher' = [dispatcher EXCEPT ![w] = d] /\ d.at = "check"
      BY <1>5, <2>2, <3>1 DEF Off
    <3> QED
      BY <3>2, <3>3
  <2> QED
    BY <2>1, <2>2
<1> QED
  BY <1>4, <1>6, <1>7, <1>8, <1>9

LEMMA ClaimKept ==
    ASSUME IInv, NEW w \in Dispatchers, ClaimDue(w)
    PROVE  IInv'
<1>1. PICK s \in SUBSET (1..Len(log)), d \in Dispatches(Len(log)) :
         /\ dispatcher[w].at = "idle" /\ UNCHANGED <<log, sent>>
         /\ deliveries' \in [1..MaxMessages -> Deliveries]
         /\ \A q \in 1..MaxMessages : Sweeps(w, s, q)
         /\ dispatcher' = [dispatcher EXCEPT ![w] = d]
         /\ d.at \in {"idle", "check"} /\ UnsentOf(d) \subseteq s
  BY Claims
<1>2. /\ dispatcher \in [Dispatchers -> Dispatches(Len(log))]
      /\ Len(log) \in Nat /\ MaxMessages \in Nat /\ Len(log) <= MaxMessages
  BY LenProperties, LogAssumption DEF IInv, Typed, LogTypeOK
<1>3. /\ dispatcher' \in [Dispatchers -> Dispatches(Len(log))] /\ dispatcher'[w] = d
      /\ \A v \in Dispatchers : v # w => dispatcher'[v] = dispatcher[v]
  BY <1>1, <1>2
<1>4. /\ Unsent(w)' \subseteq s
      /\ \A v \in Dispatchers : v # w => Unsent(v)' = Unsent(v)
  BY <1>1, <1>3 DEF Unsent
<1>5. \A p : Silent(p)' <=> Silent(p)
  BY <1>1 DEF Silent
<1>6. ASSUME NEW v \in Dispatchers, NEW p \in Unsent(v)
      PROVE  p \in 1..MaxMessages
  <2>1. PICK c : c = dispatcher[v]
    OBVIOUS
  <2>2. c \in Dispatches(Len(log)) /\ p \in UnsentOf(c)
    BY <1>2, <2>1 DEF Unsent
  <2>3. c.batch \in Seq(1..Len(log))
    BY <2>2 DEF Dispatches
  <2>4. PICK i \in DOMAIN c.batch : p = c.batch[i]
    BY <2>2 DEF UnsentOf
  <2>5. p \in 1..Len(log)
    BY <2>3, <2>4, ElementOfSeq, LenProperties
  <2> QED
    BY <1>2, <2>5
<1>7. \A p \in s : /\ p \in 1..MaxMessages /\ Silent(p) /\ Leased(p, w)'
                   /\ \A v \in Dispatchers : p \notin Unsent(v)
  <2> SUFFICES ASSUME NEW p \in s
               PROVE  /\ p \in 1..MaxMessages /\ Silent(p) /\ Leased(p, w)'
                      /\ \A v \in Dispatchers : p \notin Unsent(v)
    OBVIOUS
  <2>1. p \in 1..MaxMessages
    BY <1>2
  <2>2. deliveries[p].status = "PENDING" /\ Leased(p, w)'
    BY <1>1, <2>1 DEF Sweeps, Leased
  <2> QED
    BY <2>1, <2>2 DEF IInv, Once, Truthful, Waiting, Leased
<1>8. \A p \in 1..MaxMessages : p \notin s =>
         /\ \A v : Leased(p, v) => Leased(p, v)' \/ deliveries'[p].status = "UNKNOWN"
         /\ \A v : Leased(p, v)' => Leased(p, v)
         /\ deliveries[p].status = "UNKNOWN" => deliveries'[p].status = "UNKNOWN"
  BY <1>1 DEF Sweeps, Leased
<1>9. Typed'
  BY <1>1, <1>3 DEF IInv, Typed, LogTypeOK
<1>10. Waiting'
  <2> SUFFICES ASSUME NEW v \in Dispatchers, NEW p \in Unsent(v)'
               PROVE  /\ Silent(p)' /\ (Leased(p, v)' \/ deliveries'[p].status = "UNKNOWN")
                      /\ \A u \in Dispatchers : p \in Unsent(u)' => u = v
    BY DEF Waiting
  <2>1. CASE v = w
    <3>1. p \in s
      BY <1>4, <2>1
    <3> QED
      BY <1>4, <1>5, <1>7, <2>1, <3>1
  <2>2. CASE v # w
    <3>1. p \in Unsent(v) /\ p \notin s /\ p \in 1..MaxMessages
      BY <1>4, <1>6, <1>7, <2>2
    <3>2. /\ Silent(p) /\ (Leased(p, v) \/ deliveries[p].status = "UNKNOWN")
          /\ \A u \in Dispatchers : p \in Unsent(u) => u = v
      BY <3>1 DEF IInv, Once, Waiting
    <3>3. Leased(p, v)' \/ deliveries'[p].status = "UNKNOWN"
      BY <1>8, <3>1, <3>2
    <3> QED
      BY <1>4, <1>5, <3>1, <3>2, <3>3
  <2> QED
    BY <2>1, <2>2
<1>11. Knowing'
  <2> SUFFICES ASSUME NEW v \in Dispatchers, (dispatcher[v].at = "record" /\ Leased(First(v), v))'
               PROVE  /\ dispatcher'[v].outcome \in {"RETRYABLE", "FAILED"} => Silent(First(v))'
                      /\ dispatcher'[v].outcome = "DELIVERED" => ~ Silent(First(v))'
    BY DEF Knowing
  <2>1. v # w
    BY <1>1, <1>3
  <2>2. dispatcher'[v] = dispatcher[v] /\ First(v)' = First(v) /\ dispatcher[v].at # "idle"
    BY <1>3, <2>1 DEF First
  <2>3. First(v) \in 1..MaxMessages
    BY <2>2, AtWork
  <2>4. First(v) \notin s
    <3> SUFFICES ASSUME First(v) \in s PROVE FALSE
      OBVIOUS
    <3>1. deliveries'[First(v)].holder = w
      BY <1>1, <2>3 DEF Sweeps
    <3>2. deliveries'[First(v)].holder = v
      BY <2>2 DEF Leased
    <3> QED
      BY <2>1, <3>1, <3>2
  <2>5. Leased(First(v), v)
    BY <1>8, <2>2, <2>3, <2>4 DEF Leased
  <2> QED
    BY <1>5, <2>2, <2>5 DEF IInv, Once, Knowing
<1>12. Truthful'
  <2>1. ASSUME NEW p \in 1..MaxMessages
        PROVE  /\ deliveries'[p].status \in {"NONE", "PENDING", "FAILED"} => Silent(p)'
               /\ deliveries'[p].status = "DELIVERED" => ~ Silent(p)'
    BY <1>1, <1>5 DEF Sweeps, IInv, Once, Truthful
  <2> QED
    BY <1>1, <2>1 DEF IInv, Once, Truthful
<1>13. Counted'
  <2>1. ASSUME NEW p \in 1..MaxMessages
        PROVE  /\ deliveries'[p].status \in {"NONE", "PENDING"} => deliveries'[p].attempts < MaxSends
               /\ deliveries'[p].status \in {"RUNNING", "UNKNOWN"} => deliveries'[p].attempts >= 1
    <3>1. deliveries[p].attempts \in Nat
      BY DEF IInv, Typed, Deliveries
    <3> QED
      BY <1>1, <3>1 DEF Sweeps, IInv, Once, Counted
  <2> QED
    BY <2>1 DEF Counted
<1>14. Cleared'
  <2>1. ASSUME NEW v \in Dispatchers, dispatcher'[v].at = "send"
        PROVE  Clear(First(v), dispatcher[v].unclear)'
    <3>1. dispatcher'[v] = dispatcher[v] /\ First(v)' = First(v)
      BY <1>1, <1>3, <2>1 DEF First
    <3>2. Clear(First(v), dispatcher[v].unclear)
      BY <2>1, <3>1 DEF IInv, Cleared
    <3> QED
      BY <1>1, <3>1, <3>2 DEF Clear, May, Blocks
  <2>2. \A r \in sent' : Clear(r[1], r[3])'
    BY <1>1 DEF IInv, Cleared, Clear, May, Blocks
  <2> QED
    BY <2>1, <2>2 DEF Cleared
<1> QED
  BY <1>9, <1>10, <1>11, <1>12, <1>13, <1>14 DEF IInv, Once
-----------------------------------------------------------------------------
(* What happens to the deliveries and the conversation otherwise.          *)

\* One delivery changes so little that nobody's batch is concerned.
LEMMA LedgerKept ==
    ASSUME IInv, UNCHANGED <<log, dispatcher, sent>>, NEW p \in 1..MaxMessages, NEW e \in Deliveries,
           deliveries' = [deliveries EXCEPT ![p] = e], e.attempts = deliveries[p].attempts,
           \/ e.status = deliveries[p].status /\ e.holder = deliveries[p].holder
           \/ deliveries[p].status = "NONE" /\ e.status = "PENDING"
    PROVE  IInv'
<1>1. /\ deliveries'[p] = e /\ \A q : q # p => deliveries'[q] = deliveries[q]
      /\ deliveries' \in [1..MaxMessages -> Deliveries]
  BY DEF IInv, Typed
<1>2. /\ \A q, v : Leased(q, v)' <=> Leased(q, v)
      /\ \A q : deliveries[q].status = "UNKNOWN" => deliveries'[q].status = "UNKNOWN"
  BY <1>1 DEF Leased
<1>3. \A q : Silent(q)' <=> Silent(q)
  BY DEF Silent
<1>4. \A v \in Dispatchers : Unsent(v)' = Unsent(v) /\ First(v)' = First(v)
  BY DEF Unsent, First
<1>5. Typed'
  BY <1>1 DEF IInv, Typed, LogTypeOK
<1>6. Waiting'
  BY <1>2, <1>3, <1>4 DEF IInv, Once, Waiting
<1>7. Knowing'
  BY <1>2, <1>3, <1>4 DEF IInv, Once, Knowing
<1>8. Truthful'
  BY <1>1, <1>3 DEF IInv, Once, Truthful
<1>9. Counted'
  BY <1>1 DEF IInv, Once, Counted
<1>10. Cleared'
  BY <1>4 DEF IInv, Cleared, Clear, May, Blocks
<1> QED
  BY <1>5, <1>6, <1>7, <1>8, <1>9, <1>10 DEF IInv, Once

LEMMA Positioned ==
    ASSUME IInv, NEW p \in Positions
    PROVE  p \in 1..MaxMessages /\ deliveries[p] \in Deliveries
<1>1. Len(log) \in Nat /\ MaxMessages \in Nat /\ Len(log) <= MaxMessages /\ Positions = 1..Len(log)
  BY LenProperties, LogAssumption DEF IInv, Typed, LogTypeOK, Positions
<1> QED
  BY <1>1 DEF IInv, Typed

LEMMA ScheduleKept ==
    ASSUME IInv, NEW p \in Positions, Schedule(p)
    PROVE  IInv'
<1>1. PICK e : e = [deliveries[p] EXCEPT !.status = "PENDING"]
  OBVIOUS
<1>2. p \in 1..MaxMessages /\ deliveries[p] \in Deliveries
  BY Positioned
<1>3. e \in Deliveries /\ e.status = "PENDING" /\ e.attempts = deliveries[p].attempts
  BY <1>1, <1>2 DEF Deliveries
<1>4. deliveries' = [deliveries EXCEPT ![p] = e]
  BY <1>1, <1>2 DEF Schedule, IInv, Typed
<1> QED
  BY <1>2, <1>3, <1>4, LedgerKept DEF Schedule

LEMMA LeaseEndsKept ==
    ASSUME IInv, NEW p \in Positions, LeaseEnds(p)
    PROVE  IInv'
<1>1. PICK e : e = [deliveries[p] EXCEPT !.over = TRUE]
  OBVIOUS
<1>2. p \in 1..MaxMessages /\ deliveries[p] \in Deliveries
  BY Positioned
<1>3. /\ e \in Deliveries /\ e.status = deliveries[p].status /\ e.holder = deliveries[p].holder
      /\ e.attempts = deliveries[p].attempts
  BY <1>1, <1>2 DEF Deliveries
<1>4. deliveries' = [deliveries EXCEPT ![p] = e]
  BY <1>1, <1>2 DEF LeaseEnds, IInv, Typed
<1> QED
  BY <1>2, <1>3, <1>4, LedgerKept DEF LeaseEnds

\* What is or may be sent is in the conversation, so what is written later is after it.
LEMMA ConverseKept ==
    ASSUME IInv, LogNext, UNCHANGED channel
    PROVE  IInv'
<1>1. UNCHANGED <<deliveries, dispatcher, sent>> /\ LogTypeOK
  BY DEF channel, IInv, Typed
<1>2. PICK n, m : n = Len(log) /\ m = Len(log')
  OBVIOUS
<1>3. /\ LogTypeOK' /\ n \in Nat /\ m \in Nat /\ n <= m
      /\ \A q \in 1..n : May(q)' => May(q)
  BY <1>1, <1>2, LogGoesOn
<1>4. \A v \in Dispatchers : dispatcher[v] \in Dispatches(n) /\ dispatcher[v] \in Dispatches(m)
  BY <1>2, <1>3, LongerLog DEF IInv, Typed
<1>5. Typed'
  <2>1. dispatcher' \in [Dispatchers -> Dispatches(m)]
    BY <1>1, <1>4 DEF IInv, Typed
  <2>2. 1..n \subseteq 1..m
    BY <1>3
  <2>3. sent' \subseteq (1..m) \X (1..MaxSends) \X SUBSET (1..m)
    <3>1. (1..n) \X (1..MaxSends) \X SUBSET (1..n) \subseteq (1..m) \X (1..MaxSends) \X SUBSET (1..m)
      BY <2>2
    <3> QED
      BY <1>1, <1>2, <3>1 DEF IInv, Typed
  <2> QED
    BY <1>1, <1>2, <1>3, <2>1, <2>3 DEF IInv, Typed
<1>6. Once'
  BY <1>1 DEF IInv, Once, Waiting, Knowing, Truthful, Counted, Unsent, Leased, Silent, First
<1>7. \A p \in 1..n : \A u : Clear(p, u) => Clear(p, u)'
  <2> SUFFICES ASSUME NEW p \in 1..n, NEW u, Clear(p, u), NEW q \in 1..p - 1, May(q)'
               PROVE  q \in u
    BY DEF Clear
  <2>1. q \in 1..n
    BY <1>3
  <2> QED
    BY <1>3, <2>1 DEF Clear
<1>8. Cleared'
  <2>1. ASSUME NEW v \in Dispatchers, dispatcher'[v].at = "send"
        PROVE  Clear(First(v), dispatcher[v].unclear)'
    <3>1. dispatcher[v].at = "send" /\ First(v)' = First(v) /\ dispatcher' = dispatcher
      BY <1>1, <2>1 DEF First
    <3>2. First(v) \in 1..n /\ Clear(First(v), dispatcher[v].unclear)
      BY <1>2, <3>1, AtWork DEF IInv, Cleared
    <3>3. PICK p, u : p = First(v) /\ u = dispatcher[v].unclear
      OBVIOUS
    <3>4. Clear(p, u)'
      BY <1>7, <3>2, <3>3
    <3> QED
      BY <3>1, <3>3, <3>4 DEF Clear
  <2>2. ASSUME NEW r \in sent'
        PROVE  Clear(r[1], r[3])'
    <3>1. r \in sent /\ r[1] \in 1..n
      BY <1>1, <1>2, <2>2 DEF IInv, Typed
    <3> QED
      BY <1>7, <3>1 DEF IInv, Cleared
  <2> QED
    BY <2>1, <2>2 DEF Cleared
<1> QED
  BY <1>5, <1>6, <1>8 DEF IInv

\* Where the conversation and the deliveries stand as they did, everything holds as it did.
LEMMA Rests ==
    ASSUME IInv, UNCHANGED <<log, channel>>
    PROVE  IInv'
  BY DEF IInv, channel, Typed, LogTypeOK, Once, Waiting, Knowing, Truthful, Counted, Unsent, Leased,
         Silent, First, Cleared, Clear, May, Blocks
-----------------------------------------------------------------------------
(* The invariant.                                                          *)

LEMMA InitHolds ==
    ASSUME Init
    PROVE  IInv
<1>1. /\ log = << >> /\ sent = {} /\ deliveries = [p \in 1..MaxMessages |-> NoDelivery]
      /\ dispatcher = [w \in Dispatchers |-> Off]
  BY DEF Init, LogInit, ChannelInit
<1>2. log \in Seq(Entries) /\ Len(log) = 0 /\ LogTypeOK
  BY <1>1, EmptySeq, LogAssumption DEF LogTypeOK
<1>3. Off \in Dispatches(Len(log)) /\ UnsentOf(Off) = {} /\ Off.at = "idle"
  BY <1>2, OffTyped
<1>4. /\ NoDelivery \in Deliveries /\ NoDelivery.status = "NONE" /\ NoDelivery.attempts = 0
  BY ChannelAssumption DEF NoDelivery, Deliveries
<1>5. Typed
  BY <1>1, <1>2, <1>3, <1>4 DEF Typed
<1>6. \A w \in Dispatchers : Unsent(w) = {} /\ dispatcher[w].at = "idle"
  BY <1>1, <1>3 DEF Unsent
<1>7. Once
  BY <1>1, <1>4, <1>6, ChannelAssumption DEF Once, Waiting, Knowing, Truthful, Counted, Silent
<1>8. Cleared
  BY <1>1, <1>6 DEF Cleared
<1> QED
  BY <1>5, <1>7, <1>8 DEF IInv

LEMMA NextKeeps ==
    ASSUME IInv, [Next]_vars
    PROVE  IInv'
<1>1. CASE Converse
  BY <1>1, ConverseKept DEF Converse
<1>2. CASE Website(StreamNext)
  <2>1. UNCHANGED <<log, channel>>
    BY <1>2 DEF Website, StreamNext, Open, Read, Publish, Receive, Disconnect, Reload
  <2> QED
    BY <2>1, Rests
<1>3. CASE Carried(ChannelNext)
  <2>1. CASE \E p \in Positions : Schedule(p) \/ LeaseEnds(p)
    BY <2>1, ScheduleKept, LeaseEndsKept
  <2>2. ASSUME NEW w \in Dispatchers,
               Dispatch(w) \/ Refuse(w) \/ PreflightThrows(w) \/ RecordThrows(w) \/ Crash(w)
        PROVE  IInv'
    BY <2>2, ClaimKept, WithholdKept, PreflightKept, SendKept, RecordKept, RefuseKept,
       PreflightThrowsKept, RecordThrowsKept, CrashKept DEF Dispatch
  <2> QED
    BY <1>3, <2>1, <2>2 DEF Carried, ChannelNext
<1>4. CASE UNCHANGED vars
  BY <1>4, Rests DEF vars
<1> QED
  BY <1>1, <1>2, <1>3, <1>4 DEF Next

LEMMA Invariance == Spec => []IInv
  BY InitHolds, NextKeeps, PTL DEF Spec
-----------------------------------------------------------------------------
(* What it is for.                                                         *)

\* The customer gets a message at most once, and the ledger never says otherwise: between the
\* claim, the check, the send and the record a worker may stall, crash, lose its lease or the
\* answer of the database, and another may sweep and claim.
THEOREM CustomersGetItOnce == Spec => []SentOnce
<1>1. IInv => SentOnce
  <2> SUFFICES ASSUME IInv PROVE SentOnce
    OBVIOUS
  <2>1. Len(log) \in Nat /\ MaxMessages \in Nat /\ Len(log) <= MaxMessages /\ Positions = 1..Len(log)
    BY LenProperties, LogAssumption DEF IInv, Typed, LogTypeOK, Positions
  <2> SUFFICES ASSUME NEW p \in Positions, NEW mine, mine = {r \in sent : r[1] = p}
               PROVE  /\ Cardinality(mine) <= 1
                      /\ deliveries[p].status = "DELIVERED" => mine # {}
                      /\ deliveries[p].status \in {"NONE", "PENDING", "FAILED"} => mine = {}
    BY DEF SentOnce
  <2>2. p \in 1..MaxMessages
    BY <2>1
  <2>3. mine = {} <=> Silent(p)
    BY DEF Silent
  <2>4. Cardinality(mine) <= 1
    <3>1. \A r, s \in mine : r = s
      BY DEF IInv, Once, Truthful
    <3>2. CASE mine = {}
      BY <3>2, FS_EmptySet
    <3>3. CASE mine # {}
      <4>1. PICK r : r \in mine
        BY <3>3
      <4>2. mine = {r}
        BY <3>1, <4>1
      <4>3. Cardinality({r}) = 1
        BY FS_Singleton
      <4> QED
        BY <4>2, <4>3
    <3> QED
      BY <3>2, <3>3
  <2> QED
    BY <2>2, <2>3, <2>4 DEF IInv, Once, Truthful
<1> QED
  BY <1>1, Invariance, PTL

\* No message overtakes an earlier one whose translation is still to come, unless nobody knew
\* that one's language at the check right before the send: what staff confirm or order between
\* claim and check holds the message back, and after the check no other message becomes one to
\* wait for, whatever staff, the translating workers and other dispatchers do until the send.
THEOREM NobodyOvertakes == Spec => []NoneOvertakes
<1>1. IInv => NoneOvertakes
  BY DEF IInv, Cleared, Clear, May, NoneOvertakes
<1> QED
  BY <1>1, Invariance, PTL
=============================================================================
