---------------------------- MODULE StreamProofs ----------------------------
(***************************************************************************)
(* Proofs about CustomerStream, over a conversation that goes on being     *)
(* written and translated: for any length of the conversation, of a page,  *)
(* of the memory of a registration and of what is under way, and for any   *)
(* number of broken connections.                                           *)
(***************************************************************************)
EXTENDS DeliveryProofs
-----------------------------------------------------------------------------
(* Numbers.                                                                *)

LEMMA Least ==
    ASSUME NEW S, S \subseteq Nat, S # {}
    PROVE  Min(S) \in S /\ \A x \in S : Min(S) <= x
<1> DEFINE R == {p \in Nat \X Nat : p[1] < p[2]}
<1>1. IsWellFoundedOn(R, Nat)
  BY NatLessThanWellFounded DEF OpToRel
<1>2. \A x, y \in S : <<y, x>> \notin R => x <= y
  OBVIOUS
<1> HIDE DEF R
<1>3. PICK x \in S : \A y \in S : ~ (<<y, x>> \in R)
  BY <1>1, WFMin
<1> QED
  BY <1>2, <1>3 DEF Min

LEMMA Greatest ==
    ASSUME NEW n \in Nat, NEW S, S \subseteq 0..n, S # {}
    PROVE  Max(S) \in S /\ \A x \in S : x <= Max(S)
<1> DEFINE T == {n - x : x \in S}
<1>1. T \subseteq Nat /\ T # {}
  OBVIOUS
<1>2. Min(T) \in T /\ \A y \in T : Min(T) <= y
  BY <1>1, Least
<1>3. PICK m \in S : Min(T) = n - m
  BY <1>2
<1>4. ASSUME NEW x \in S PROVE x <= m
  <2>1. n - x \in T
    OBVIOUS
  <2>2. n - m <= n - x
    BY <1>2, <1>3, <2>1
  <2>3. x \in 0..n /\ m \in 0..n
    BY <1>3
  <2> QED
    BY <2>2, <2>3
<1>5. \A x \in S : m >= x
  BY <1>4
<1> QED
  BY <1>3, <1>4, <1>5 DEF Max

\* f lists S in increasing order.
Lists(f, S) ==
    /\ f \in [1..Cardinality(S) -> S] /\ Range(f) = S
    /\ \A i, j \in DOMAIN f : i < j => f[i] < f[j]

LEMMA OrderExists ==
    ASSUME NEW n \in Nat, NEW S, S \subseteq 1..n
    PROVE  \E f : Lists(f, S)
<1> DEFINE Unlisted == {m \in Nat : \E U : U \subseteq 1..m /\ ~ \E f : Lists(f, U)}
<1> SUFFICES ASSUME Unlisted # {} PROVE FALSE
  OBVIOUS
<1>1. PICK m : m = Min(Unlisted)
  OBVIOUS
<1>2. m \in Unlisted /\ \A k \in Unlisted : m <= k
  <2>1. Unlisted \subseteq Nat
    OBVIOUS
  <2> HIDE DEF Unlisted
  <2> QED
    BY <1>1, <2>1, Least
<1>3. PICK U : U \subseteq 1..m /\ ~ \E f : Lists(f, U)
  BY <1>2
<1>4. m \in Nat /\ IsFiniteSet(U)
  <2>1. m \in Nat
    BY <1>2
  <2>2. IsFiniteSet(1..m)
    BY <2>1, FS_Interval
  <2> QED
    BY <1>3, <2>1, <2>2, FS_Subset
<1>5. CASE m = 0
  <2>1. U = {} /\ Cardinality({}) = 0
    BY <1>3, <1>5, FS_EmptySet
  <2>2. Lists([i \in 1..0 |-> 0], U)
    BY <2>1 DEF Lists, Range
  <2> QED
    BY <1>3, <2>2
<1>6. CASE m # 0
  <2>1. m - 1 \in Nat /\ m - 1 \notin Unlisted
    BY <1>2, <1>4, <1>6
  <2>2. m \in U
    <3> SUFFICES ASSUME m \notin U PROVE FALSE
      OBVIOUS
    <3>1. U \subseteq 1..m - 1
      BY <1>3, <1>4
    <3> QED
      BY <1>3, <2>1, <3>1
  <2>3. PICK V : V = U \ {m}
    OBVIOUS
  <2>4. V \subseteq 1..m - 1 /\ U = V \cup {m} /\ m \notin V
    BY <1>3, <1>4, <2>2, <2>3
  <2>5. PICK f : Lists(f, V)
    BY <2>1, <2>4
  <2>6. PICK c : c = Cardinality(V)
    OBVIOUS
  <2>7. c \in Nat /\ Cardinality(U) = c + 1
    BY <1>4, <2>3, <2>4, <2>6, FS_RemoveElement, FS_AddElement, FS_CardinalityType, FS_Subset
  <2>8. /\ f \in [1..c -> V] /\ (\A x \in V : \E i \in 1..c : f[i] = x)
        /\ \A i, j \in 1..c : i < j => f[i] < f[j]
    BY <2>5, <2>6 DEF Lists, Range
  <2>9. PICK g : g = [i \in 1..c + 1 |-> IF i = c + 1 THEN m ELSE f[i]]
    OBVIOUS
  <2>10. /\ g[c + 1] = m /\ \A i \in 1..c : g[i] = f[i] /\ f[i] \in V
         /\ DOMAIN g = 1..c + 1
    BY <2>7, <2>8, <2>9
  <2>11. g \in [1..c + 1 -> U]
    BY <2>4, <2>7, <2>8, <2>9
  <2>12. Range(g) = U
    <3>1. \A x \in U : \E i \in 1..c + 1 : g[i] = x
      BY <2>4, <2>7, <2>8, <2>10
    <3> QED
      BY <2>10, <2>11, <3>1 DEF Range
  <2>13. \A i, j \in 1..c + 1 : i < j => g[i] < g[j]
    <3> SUFFICES ASSUME NEW i \in 1..c + 1, NEW j \in 1..c + 1, i < j PROVE g[i] < g[j]
      OBVIOUS
    <3>1. i \in 1..c
      BY <2>7
    <3>4. g[i] = f[i] /\ f[i] \in 1..m - 1
      BY <2>4, <2>10, <3>1
    <3>2. CASE j = c + 1
      BY <1>4, <2>10, <3>2, <3>4
    <3>3. CASE j # c + 1
      BY <2>7, <2>8, <2>10, <3>1, <3>3, <3>4
    <3> QED
      BY <3>2, <3>3
  <2> QED
    BY <1>3, <2>7, <2>10, <2>11, <2>12, <2>13 DEF Lists
<1> QED
  BY <1>5, <1>6

LEMMA Ordered ==
    ASSUME NEW n \in Nat, NEW S, S \subseteq 1..n
    PROVE  Lists(InOrder(S), S) /\ Cardinality(S) \in Nat
<1>1. PICK c, f : c = Cardinality(S) /\ f = InOrder(S)
  OBVIOUS
<1>2. IsFiniteSet(S) /\ c \in Nat
  <2>1. IsFiniteSet(1..n)
    BY FS_Interval
  <2> QED
    BY <1>1, <2>1, FS_Subset, FS_CardinalityType
<1>3. f \in [1..c -> S] /\ \A i, j \in 1..c : i < j => f[i] < f[j]
  <2>1. PICK g : Lists(g, S)
    BY OrderExists
  <2> QED
    BY <1>1, <2>1 DEF Lists, InOrder
<1>4. f \in Injection(1..c, S)
  <2>1. ASSUME NEW i \in 1..c PROVE f[i] \in Nat
    <3>1. f[i] \in S
      BY <1>3
    <3>2. S \subseteq Nat
      OBVIOUS
    <3> QED
      BY <3>1, <3>2
  <2>2. \A i, j \in 1..c : f[i] = f[j] => ~ i < j /\ ~ j < i
    BY <1>3, <2>1
  <2>3. \A i, j \in 1..c : f[i] = f[j] => i = j
    BY <1>2, <2>2
  <2> QED
    BY <1>3, <2>3 DEF Injection, IsInjective
<1>5. f \in Surjection(1..c, S)
  <2>1. IsFiniteSet(1..c) /\ Cardinality(1..c) = c
    BY <1>2, FS_Interval
  <2> QED
    BY <1>1, <1>2, <1>4, <2>1, FS_Injection
<1>6. \A x \in S : \E i \in 1..c : f[i] = x
  BY <1>3, <1>5 DEF Surjection
<1> QED
  BY <1>1, <1>2, <1>3, <1>6 DEF Lists, Range
-----------------------------------------------------------------------------
(* The inductive invariant.                                                *)

\* What a customer can read, and what none ever has to.
Readable(e) == e.sender = "CUSTOMER" \/ (~e.skipped /\ Safe(e))
Excused(e)  == e.skipped \/ e.sender = "SYSTEM"

\* Every message up to position n of conversation l is in S or excused.
Covered(l, S, n) == \A p \in 1..n : p \in S \/ Excused(l[p])

\* The page of a poll, over a conversation of n messages.
Pages(n) == Seq([cursor : 1..n, resume : 0..n])

Streams(n) ==
    [at : {"closed", "read", "publish"}, scan : 0..n, resume : 0..n, page : Pages(n),
     cursor : 0..n, sent : Seq(1..n)]

Messages(n) == [cursor : 1..n, id : 0..n]
Wires(n)    == Seq(Messages(n))
Browsers(n) == [shown : SUBSET (1..n), last : 0..n]

StreamTyped ==
    /\ LogTypeOK
    /\ stream \in Streams(Len(log)) /\ wire \in Wires(Len(log)) /\ client \in Browsers(Len(log))
    /\ drops \in 0..MaxDrops

\* The messages of the frames up to the i-th.
Brought(w, i) == {w[j].cursor : j \in 1..i}

\* Rows of a page that was read beyond position after.
Rises(l, page, after) ==
    /\ \A i \in DOMAIN page :
          page[i].cursor > after /\ page[i].resume <= page[i].cursor /\ Readable(l[page[i].cursor])
    /\ \A i, j \in DOMAIN page : i < j => page[i].cursor < page[j].cursor

\* No message before the position to resume from is missing: it was read before, or in the page.
Whole(l, page, after) ==
    \A i \in DOMAIN page : \A p \in 1..page[i].resume :
        p <= after \/ Excused(l[p]) \/ \E j \in 1..i : page[j].cursor = p

\* A poll that is not ahead of its repairs read a whole page.
Polled == /\ Rises(log, stream.page, stream.scan)
          /\ stream.resume <= stream.scan
          /\ stream.scan = stream.resume => Whole(log, stream.page, stream.scan)

\* Each cursor covers what is behind it: with what is shown, and the frames before it.
Sure(c, w, i) == c.shown \cup Brought(w, i)

Covering ==
    /\ Covered(log, client.shown, client.last)
    /\ \A i \in 1..Len(wire) : Covered(log, Sure(client, wire, i), wire[i].id)
    /\ stream.at # "closed" =>
          /\ Covered(log, Sure(client, wire, Len(wire)), stream.cursor)
          /\ Covered(log, Sure(client, wire, Len(wire)), stream.resume)
          /\ Range(stream.sent) \subseteq Sure(client, wire, Len(wire))

ReadableAll == \A p \in Sure(client, wire, Len(wire)) : Readable(log[p])

Streaming == StreamTyped /\ Polled /\ Covering /\ ReadableAll
-----------------------------------------------------------------------------
(* The conversation goes on.                                               *)

\* What conversation m keeps of l: what could be read, can be, and nothing excused comes back.
Keeps(l, m) ==
    /\ Len(l) \in Nat /\ Len(m) \in Nat /\ Len(l) <= Len(m)
    /\ \A p \in 1..Len(l) : /\ Readable(l[p]) => Readable(m[p])
                            /\ Excused(l[p]) => Excused(m[p])

LEMMA LogKeeps ==
    ASSUME LogTypeOK, LogNext
    PROVE  LogTypeOK' /\ Keeps(log, log')
<1>1. /\ log \in Seq(Entries) /\ Len(log) \in Nat /\ DOMAIN log = 1..Len(log)
      /\ \A q \in 1..Len(log) : log[q] \in Entries
  BY LenProperties, ElementOfSeq DEF LogTypeOK
<1>2. LogTypeOK' /\ Len(log') \in Nat /\ Len(log) <= Len(log')
  BY LogGoesOn
<1>3. CASE Write
  <2>1. PICK e : log' = Append(log, e)
    BY <1>3 DEF Write
  <2>2. \A q \in 1..Len(log) : log'[q] = log[q]
    BY <1>1, <2>1
  <2> QED
    BY <1>1, <1>2, <2>2 DEF Keeps
<1>4. ASSUME NEW p \in Positions, NEW e, log' = [log EXCEPT ![p] = e],
             Readable(log[p]) => Readable(e), Excused(log[p]) => Excused(e)
      PROVE  Keeps(log, log')
  <2>1. \A q \in 1..Len(log) : log'[q] = IF q = p THEN e ELSE log[q]
    BY <1>1, <1>4
  <2> QED
    BY <1>1, <1>2, <1>4, <2>1 DEF Keeps
<1>5. CASE Translate
  <2>1. PICK done, failed \in SUBSET {p \in Positions : log[p].status = "WAITING"} :
           log' = [p \in Positions |-> IF p \in done THEN [log[p] EXCEPT !.status = "SUCCEEDED"]
                                       ELSE IF p \in failed THEN [log[p] EXCEPT !.status = "ENDED"]
                                       ELSE log[p]]
    BY <1>5 DEF Translate
  <2>2. ASSUME NEW q \in 1..Len(log)
        PROVE  (Readable(log[q]) => Readable(log'[q])) /\ (Excused(log[q]) => Excused(log'[q]))
    <3>1. q \in Positions /\ log[q] \in Entries
      BY <1>1, <2>2 DEF Positions
    <3>2. CASE q \in done \cup failed
      <4>1. PICK s \in {"SUCCEEDED", "ENDED"} : log'[q] = [log[q] EXCEPT !.status = s]
        BY <2>1, <3>1, <3>2
      <4>2. log[q].status = "WAITING"
        BY <3>2
      <4>3. /\ log'[q].sender = log[q].sender /\ log'[q].skipped = log[q].skipped
            /\ log'[q].lang = log[q].lang
        BY <3>1, <4>1 DEF Entries
      <4> QED
        BY <4>2, <4>3 DEF Readable, Excused, Safe
    <3>3. CASE q \notin done \cup failed
      <4>1. log'[q] = log[q]
        BY <2>1, <3>1, <3>3
      <4> QED
        BY <4>1
    <3> QED
      BY <3>2, <3>3
  <2> QED
    BY <1>1, <1>2, <2>2 DEF Keeps
<1>6. ASSUME NEW p \in Positions, Skip(p) \/ Confirm(p) \/ Order(p)
      PROVE  Keeps(log, log')
  <2>0. log[p] \in Entries
    BY <1>1 DEF Positions
  <2>1. CASE Skip(p)
    <3>1. PICK s : s = IF log[p].status = "WAITING" THEN "ENDED" ELSE log[p].status
      OBVIOUS
    <3>2. PICK e : e = [log[p] EXCEPT !.skipped = TRUE, !.status = s]
      OBVIOUS
    <3>3. log' = [log EXCEPT ![p] = e]
      BY <2>1, <3>1, <3>2 DEF Skip
    <3>4. e.skipped = TRUE
      BY <2>0, <3>2 DEF Entries
    <3>5. ~ Readable(log[p])
      BY <2>1 DEF Skip, Readable, Outbound
    <3> QED
      BY <1>4, <3>3, <3>4, <3>5 DEF Excused
  <2>2. CASE Confirm(p)
    <3>1. PICK l \in {"same", "other"}, s \in {"NONE", "WAITING"} :
             /\ log' = [log EXCEPT ![p].lang = l, ![p].status = s]
             /\ log[p].sender \in {"INTERNAL_USER", "AI_AGENT"} /\ ~ log[p].skipped
             /\ log[p].lang = "unknown"
      BY <2>2 DEF Confirm
    <3>2. PICK e : e = [log[p] EXCEPT !.lang = l, !.status = s]
      OBVIOUS
    <3>3. log' = [log EXCEPT ![p] = e]
      BY <3>1, <3>2
    <3>4. ~ Readable(log[p]) /\ ~ Excused(log[p])
      BY <3>1 DEF Readable, Excused, Safe
    <3> QED
      BY <1>4, <3>3, <3>4
  <2>3. CASE Order(p)
    <3>1. PICK e : e = [log[p] EXCEPT !.status = "WAITING"]
      OBVIOUS
    <3>2. /\ log' = [log EXCEPT ![p] = e] /\ ~ log[p].skipped /\ log[p].status # "SUCCEEDED"
      BY <2>3, <3>1 DEF Order
    <3>3. e.sender = log[p].sender /\ e.skipped = log[p].skipped /\ e.lang = log[p].lang
      BY <2>0, <3>1 DEF Entries
    <3>4. /\ Readable(log[p]) => Readable(e)
          /\ Excused(log[p]) => Excused(e)
      BY <3>2, <3>3 DEF Readable, Excused, Safe
    <3> QED
      BY <1>4, <3>2, <3>4
  <2> QED
    BY <1>6, <2>1, <2>2, <2>3
<1> QED
  BY <1>2, <1>3, <1>5, <1>6 DEF LogNext
-----------------------------------------------------------------------------
(* What the queries and the registration do.                               *)

LEMMA Logged ==
    ASSUME LogTypeOK
    PROVE  /\ Len(log) \in Nat /\ Positions = 1..Len(log) /\ Len(log) <= MaxMessages /\ MaxMessages \in Nat
           /\ \A p \in 1..Len(log) : log[p] \in Entries
  BY LenProperties, ElementOfSeq, LogAssumption DEF LogTypeOK, Positions

\* What cannot be read and does not hold the cursor back is excused.
LEMMA HeldOrNot ==
    ASSUME LogTypeOK, NEW p \in Positions
    PROVE  /\ Visible(p) <=> Readable(log[p])
           /\ ~ Held(p) => Visible(p) \/ Excused(log[p])
  BY Logged DEF Visible, Readable, Held, Excused, Safe, Entries, Senders

\* Page is a page of at most limit rows that follow position after.
PageOf(page, after, limit) ==
    /\ page \in Pages(Len(log)) /\ Len(page) <= limit
    /\ Rises(log, page, after) /\ Whole(log, page, after)

LEMMA RowsArePage ==
    ASSUME LogTypeOK, NEW after \in Nat, NEW limit \in Nat \ {0}
    PROVE  PageOf(Rows(after, limit), after, limit)
<1>1. PICK n : n = Len(log)
  OBVIOUS
<1>2. PICK V : V = {p \in Positions : p > after /\ Visible(p)}
  OBVIOUS
<1>3. PICK f, c : f = InOrder(V) /\ c = Cardinality(V)
  OBVIOUS
<1>4. n \in Nat /\ Positions = 1..n /\ V \subseteq 1..n
  BY <1>1, <1>2, Logged
<1>5. /\ c \in Nat /\ f \in [1..c -> V] /\ (\A p \in V : \E i \in 1..c : f[i] = p)
      /\ \A i, j \in 1..c : i < j => f[i] < f[j]
  <2>1. Lists(f, V) /\ c \in Nat
    BY <1>3, <1>4, Ordered
  <2> QED
    BY <1>3, <2>1 DEF Lists, Range
<1>6. f \in Seq(V) /\ Len(f) = c
  BY <1>5
<1>7. PICK k : k = Min({limit, c})
  OBVIOUS
<1>8. k \in Nat /\ k <= c /\ k <= limit
  <2>1. {limit, c} \subseteq Nat /\ {limit, c} # {}
    BY <1>5
  <2> QED
    BY <1>7, <2>1, Least
<1>9. PICK page : page = Rows(after, limit)
  OBVIOUS
<1>10. /\ page \in Pages(n) /\ Len(page) = k /\ DOMAIN page = 1..k
       /\ \A i \in 1..k : /\ page[i].cursor = f[i] /\ page[i].resume <= f[i]
                          /\ \A p \in 1..page[i].resume : ~ Held(p)
  <2>1. PICK held : held = Barrier
    OBVIOUS
  <2>2. PICK low : low = Min(held)
    OBVIOUS
  <2>3. /\ held \subseteq 1..n /\ \A p \in 1..n : Held(p) => p \in held
        /\ held # {} => low \in held /\ \A p \in held : low <= p
    <3>1. held \subseteq 1..n /\ \A p \in 1..n : Held(p) => p \in held
      BY <1>4, <2>1 DEF Barrier
    <3>2. held \subseteq Nat
      BY <1>4, <3>1
    <3>3. held # {} => low \in held /\ \A p \in held : low <= p
      BY <2>2, <3>2, Least
    <3> QED
      BY <3>1, <3>3
  <2>4. page = [i \in 1..k |->
                  [cursor |-> f[i],
                   resume |-> IF held # {} /\ f[i] > low THEN low - 1 ELSE f[i]]]
    BY <1>2, <1>3, <1>6, <1>7, <1>9, <2>1, <2>2 DEF Rows
  <2>5. ASSUME NEW i \in 1..k
        PROVE  /\ page[i] \in [cursor : 1..n, resume : 0..n]
               /\ page[i].cursor = f[i] /\ page[i].resume <= f[i]
               /\ \A p \in 1..page[i].resume : ~ Held(p)
    <3>0. PICK x : x = f[i]
      OBVIOUS
    <3>1. x \in V /\ x \in 1..n
      <4>1. i \in 1..c
        BY <1>5, <1>8
      <4> QED
        BY <1>4, <1>5, <3>0, <4>1
    <3>2. PICK r : r = IF held # {} /\ x > low THEN low - 1 ELSE x
      OBVIOUS
    <3>3. page[i] = [cursor |-> x, resume |-> r]
      BY <2>4, <3>0, <3>2
    <3>4. r \in 0..n /\ r <= x /\ \A p \in 1..r : p \in 1..n /\ p \notin held
      <4>1. CASE held # {} /\ x > low
        <5>1. low \in 1..n /\ r = low - 1 /\ low < x
          BY <2>3, <3>1, <3>2, <4>1
        <5>2. r \in 0..n /\ r <= x
          BY <1>4, <3>1, <5>1
        <5>3. ASSUME NEW p \in 1..r
              PROVE  p \in 1..n /\ ~ low <= p
          BY <1>4, <3>1, <5>1
        <5> QED
          BY <2>3, <4>1, <5>2, <5>3
      <4>2. CASE ~ (held # {} /\ x > low)
        <5>1. r = x
          BY <3>2, <4>2
        <5>2. \A p \in 1..r : p \in 1..n
          BY <1>4, <3>1, <5>1
        <5>3. ASSUME NEW p \in 1..r, p \in held
              PROVE  FALSE
          <6>1. low \in 1..n /\ low <= p
            BY <2>3, <5>3
          <6>2. ~ x > low
            BY <4>2, <5>3
          <6>3. p = x
            BY <1>4, <3>1, <5>1, <6>1, <6>2
          <6> QED
            BY <1>2, <2>1, <3>1, <5>3, <6>3, HeldOrNot DEF Barrier, Held, Visible
        <5> QED
          BY <1>4, <3>1, <5>1, <5>2, <5>3
      <4> QED
        BY <4>1, <4>2
    <3> QED
      BY <2>3, <3>0, <3>1, <3>3, <3>4
  <2>6. page \in Seq([cursor : 1..n, resume : 0..n]) /\ Len(page) = k /\ DOMAIN page = 1..k
    BY <1>8, <2>4, <2>5
  <2> QED
    BY <2>5, <2>6 DEF Pages
<1>11. Rises(log, page, after)
  <2>1. \A i \in 1..k : f[i] \in V
    BY <1>5, <1>8
  <2>2. \A i \in 1..k : f[i] > after /\ Readable(log[f[i]])
    BY <1>2, <2>1, HeldOrNot
  <2>3. \A i, j \in 1..k : i < j => f[i] < f[j]
    BY <1>5, <1>8
  <2> QED
    BY <1>10, <2>2, <2>3 DEF Rises
<1>12. Whole(log, page, after)
  <2> SUFFICES ASSUME NEW i \in 1..k, NEW p \in 1..page[i].resume, p > after, ~ Excused(log[p])
               PROVE  \E j \in 1..i : page[j].cursor = p
    BY <1>4, <1>10 DEF Whole, Pages
  <2>1. f[i] \in 1..n /\ page[i].resume \in 0..n /\ p \in 1..n /\ p <= f[i]
    <3>1. page[i].cursor \in 1..n /\ page[i].resume \in 0..n
      <4>1. page \in Seq([cursor : 1..n, resume : 0..n]) /\ i \in 1..Len(page)
        BY <1>8, <1>10 DEF Pages
      <4>2. page[i] \in [cursor : 1..n, resume : 0..n]
        BY <4>1, ElementOfSeq
      <4> QED
        BY <4>2
    <3>2. page[i].cursor = f[i] /\ page[i].resume <= f[i]
      BY <1>10
    <3>3. PICK q, r : q = f[i] /\ r = page[i].resume
      OBVIOUS
    <3> QED
      BY <1>4, <3>1, <3>2, <3>3
  <2>2. Visible(p)
    BY <1>4, <1>10, <2>1, HeldOrNot
  <2>3. PICK j \in 1..c : f[j] = p
    BY <1>2, <1>4, <1>5, <2>1, <2>2
  <2>4. ~ i < j
    BY <1>5, <1>8, <2>1, <2>3
  <2>5. j \in 1..i /\ j \in 1..k
    BY <1>8, <2>4
  <2> QED
    BY <1>10, <2>3, <2>5
<1> QED
  BY <1>1, <1>8, <1>9, <1>10, <1>11, <1>12 DEF PageOf

\* What a registration remembers, it remembered before.
LEMMA Remembers ==
    ASSUME NEW n \in Nat, NEW s \in Seq(1..n), NEW cursor \in Nat
    PROVE  Forget(s, cursor) \in Seq(1..n) /\ Range(Forget(s, cursor)) \subseteq Range(s)
<1>1. PICK I, f, c : I = {i \in DOMAIN s : s[i] > cursor} /\ f = InOrder(I) /\ c = Cardinality(I)
  OBVIOUS
<1>2. DOMAIN s = 1..Len(s) /\ Len(s) \in Nat /\ I \subseteq 1..Len(s)
  BY <1>1
<1>3. c \in Nat /\ f \in [1..c -> I]
  BY <1>1, <1>2, Ordered DEF Lists
<1>4. PICK kept : kept = [k \in 1..c |-> s[f[k]]]
  OBVIOUS
<1>5. /\ \A k \in 1..c : kept[k] \in Range(s) /\ kept[k] \in 1..n
      /\ kept \in Seq(1..n) /\ Len(kept) = c /\ DOMAIN kept = 1..c
  <2>1. \A k \in 1..c : kept[k] = s[f[k]] /\ f[k] \in DOMAIN s
    BY <1>2, <1>3, <1>4
  <2>2. \A k \in 1..c : kept[k] \in Range(s) /\ kept[k] \in 1..n
    BY <2>1 DEF Range
  <2> QED
    BY <1>3, <1>4, <2>2
<1>6. Forget(s, cursor) = IF Len(kept) > Remembered THEN Tail(kept) ELSE kept
  BY <1>1, <1>3, <1>4 DEF Forget
<1>7. CASE Len(kept) > Remembered
  <2>1. Len(kept) >= 1
    BY <1>3, <1>5, <1>7, StreamAssumption
  <2>2. /\ Tail(kept) \in Seq(1..n) /\ Len(Tail(kept)) = c - 1 /\ DOMAIN Tail(kept) = 1..c - 1
        /\ \A k \in 1..c - 1 : Tail(kept)[k] = kept[k + 1]
    BY <1>3, <1>5, <2>1
  <2>3. \A k \in 1..c - 1 : k + 1 \in 1..c
    BY <1>3
  <2> QED
    BY <1>5, <1>6, <1>7, <2>2, <2>3 DEF Range
<1>8. CASE ~ Len(kept) > Remembered
  BY <1>5, <1>6, <1>8 DEF Range
<1> QED
  BY <1>7, <1>8
-----------------------------------------------------------------------------
(* A registration goes through a page.                                     *)

LEMMA BroughtOneMore ==
    ASSUME NEW n \in Nat, NEW w \in Wires(n), NEW e \in Messages(n)
    PROVE  /\ Append(w, e) \in Wires(n) /\ Len(Append(w, e)) = Len(w) + 1 /\ Len(w) \in Nat
           /\ Append(w, e)[Len(w) + 1] = e
           /\ \A i \in 1..Len(w) : Append(w, e)[i] = w[i] /\ Brought(Append(w, e), i) = Brought(w, i)
           /\ Brought(Append(w, e), Len(w) + 1) = Brought(w, Len(w)) \cup {e.cursor}
<1>1. PICK v : v = Append(w, e)
  OBVIOUS
<1>2. /\ v \in Wires(n) /\ Len(v) = Len(w) + 1 /\ Len(w) \in Nat /\ v[Len(w) + 1] = e
      /\ \A i \in 1..Len(w) : v[i] = w[i]
  BY <1>1, AppendProperties, LenProperties DEF Wires
<1>3. \A i \in 1..Len(w) : Brought(v, i) = Brought(w, i)
  <2> SUFFICES ASSUME NEW i \in 1..Len(w) PROVE Brought(v, i) = Brought(w, i)
    OBVIOUS
  <2>1. \A j \in 1..i : v[j] = w[j]
    BY <1>2
  <2> QED
    BY <2>1 DEF Brought
<1>4. Brought(v, Len(w) + 1) = Brought(w, Len(w)) \cup {e.cursor}
  <2>1. \A x : x \in Brought(v, Len(w) + 1) <=> x \in Brought(w, Len(w)) \/ x = e.cursor
    <3>1. ASSUME NEW j \in 1..Len(w) + 1
          PROVE  v[j].cursor \in Brought(w, Len(w)) \/ v[j].cursor = e.cursor
      <4>1. CASE j = Len(w) + 1
        BY <1>2, <4>1
      <4>2. CASE j # Len(w) + 1
        <5>1. j \in 1..Len(w)
          BY <1>2, <4>2
        <5> QED
          BY <1>2, <5>1 DEF Brought
      <4> QED
        BY <4>1, <4>2
    <3>2. ASSUME NEW j \in 1..Len(w)
          PROVE  j \in 1..Len(w) + 1 /\ v[j] = w[j]
      BY <1>2
    <3>3. Len(w) + 1 \in 1..Len(w) + 1
      BY <1>2
    <3> QED
      BY <1>2, <3>1, <3>2, <3>3 DEF Brought
  <2> QED
    BY <2>1
<1> QED
  BY <1>1, <1>2, <1>3, <1>4

\* What the customer has, or will when the frames arrive.
Has(S, st) == S \cup Brought(st.frames, Len(st.frames))

\* A registration whose cursors are behind nothing that the customer who has S will lack.
Registers(S, st) ==
    /\ st \in [cursor : 0..Len(log), sent : Seq(1..Len(log)), frames : Wires(Len(log))]
    /\ Range(st.sent) \subseteq Has(S, st)
    /\ Covered(log, Has(S, st), st.cursor)
    /\ \A k \in 1..Len(st.frames) :
          /\ Covered(log, S \cup Brought(st.frames, k), st.frames[k].id)
          /\ Readable(log[st.frames[k].cursor])

LEMMA FrameRegisters ==
    ASSUME LogTypeOK, NEW S, NEW st, Registers(S, st),
           NEW u \in [cursor : 1..Len(log), resume : 0..Len(log)], Readable(log[u.cursor]),
           \A p \in 1..u.resume : p = u.cursor \/ Excused(log[p]) \/ p \in Has(S, st) \/ p <= st.cursor
    PROVE  /\ Registers(S, Frame(st, u))
           /\ Has(S, st) \subseteq Has(S, Frame(st, u)) /\ st.cursor <= Frame(st, u).cursor
           /\ u.cursor \in Has(S, Frame(st, u)) \/ u.cursor <= Frame(st, u).cursor
<1>1. PICK n, a, b, d : n = Len(log) /\ a = st.cursor /\ b = u.resume /\ d = u.cursor
  OBVIOUS
<1>2. n \in Nat /\ a \in 0..n /\ b \in 0..n /\ d \in 1..n
  BY <1>1, Logged DEF Registers
<1>3. PICK c : c = Max({a, b})
  OBVIOUS
<1>4. c \in 0..n /\ a <= c /\ (c = a \/ c = b)
  <2>1. {a, b} \subseteq 0..n /\ {a, b} # {}
    BY <1>2
  <2> QED
    BY <1>2, <1>3, <2>1, Greatest
<1>5. CASE d <= a \/ (c = a /\ d \in Range(st.sent))
  <2>1. Frame(st, u) = st
    BY <1>1, <1>3, <1>5 DEF Frame
  <2>2. d \in Range(st.sent) => d \in Has(S, st)
    BY DEF Registers
  <2> QED
    BY <1>1, <1>2, <1>5, <2>1, <2>2
<1>6. CASE ~ (d <= a \/ (c = a /\ d \in Range(st.sent)))
  <2>1. PICK s, e, f :
           /\ s = Forget(IF d > c /\ d \notin Range(st.sent) THEN Append(st.sent, d) ELSE st.sent, c)
           /\ e = [cursor |-> d, id |-> c]
           /\ f = Append(st.frames, e)
    OBVIOUS
  <2>2. PICK new : new = [cursor |-> c, sent |-> s, frames |-> f]
    OBVIOUS
  <2>3. Frame(st, u) = new
    BY <1>1, <1>3, <1>6, <2>1, <2>2 DEF Frame
  <2>4. s \in Seq(1..n) /\ Range(s) \subseteq Range(st.sent) \cup {d}
    <3>1. st.sent \in Seq(1..n)
      BY <1>1 DEF Registers
    <3>2. PICK t : t = IF d > c /\ d \notin Range(st.sent) THEN Append(st.sent, d) ELSE st.sent
      OBVIOUS
    <3>3. t \in Seq(1..n) /\ Range(t) \subseteq Range(st.sent) \cup {d}
      <4>1. CASE d > c /\ d \notin Range(st.sent)
        <5>1. /\ t \in Seq(1..n) /\ Len(t) = Len(st.sent) + 1 /\ t[Len(st.sent) + 1] = d
              /\ \A i \in 1..Len(st.sent) : t[i] = st.sent[i]
          BY <1>2, <3>1, <3>2, <4>1, AppendProperties
        <5>2. \A i \in DOMAIN t : i = Len(st.sent) + 1 \/ i \in 1..Len(st.sent)
          BY <3>1, <5>1
        <5>3. DOMAIN st.sent = 1..Len(st.sent)
          BY <3>1
        <5> QED
          BY <5>1, <5>2, <5>3 DEF Range
      <4>2. CASE ~ (d > c /\ d \notin Range(st.sent))
        BY <3>1, <3>2, <4>2
      <4> QED
        BY <4>1, <4>2
    <3>4. Forget(t, c) \in Seq(1..n) /\ Range(Forget(t, c)) \subseteq Range(t)
      <4>1. c \in Nat /\ n \in Nat /\ t \in Seq(1..n)
        BY <1>2, <1>4, <3>3
      <4> QED
        BY ONLY <4>1, Remembers
    <3> QED
      BY <2>1, <3>2, <3>3, <3>4
  <2>5. e \in Messages(n) /\ st.frames \in Wires(n) /\ e.cursor = d /\ e.id = c
    BY <1>1, <1>2, <1>4, <2>1 DEF Registers, Messages
  <2>6. PICK g, k : g = st.frames /\ k = Len(st.frames)
    OBVIOUS
  <2>7. /\ f \in Wires(n) /\ Len(f) = k + 1 /\ k \in Nat /\ f[k + 1] = e
        /\ \A i \in 1..k : f[i] = g[i] /\ Brought(f, i) = Brought(g, i)
        /\ Brought(f, k + 1) = Brought(g, k) \cup {d}
    <3>1. /\ n \in Nat /\ g \in Wires(n) /\ e \in Messages(n)
          /\ f = Append(g, e) /\ k = Len(g) /\ e.cursor = d
      BY <1>2, <2>1, <2>5, <2>6
    <3>2. f \in Wires(n) /\ Len(f) = k + 1 /\ k \in Nat /\ f[k + 1] = e
      BY ONLY <3>1, BroughtOneMore
    <3>3. \A i \in 1..k : f[i] = g[i] /\ Brought(f, i) = Brought(g, i)
      BY ONLY <3>1, BroughtOneMore
    <3>4. Brought(f, k + 1) = Brought(g, k) \cup {d}
      BY ONLY <3>1, BroughtOneMore
    <3> QED
      BY <3>2, <3>3, <3>4
  <2>8. new.cursor = c /\ new.sent = s /\ new.frames = f
    BY <2>2
  <2>9. Has(S, new) = Has(S, st) \cup {d}
    BY <2>6, <2>7, <2>8 DEF Has
  <2>10. Covered(log, Has(S, new), c)
    <3> SUFFICES ASSUME NEW p \in 1..c PROVE p \in Has(S, new) \/ Excused(log[p])
      BY DEF Covered
    <3>1. CASE p <= a
      <4>1. p \in 1..a
        BY <1>2, <3>1
      <4> QED
        BY <1>1, <2>9, <4>1 DEF Registers, Covered
    <3>2. CASE ~ p <= a
      <4>1. p \in 1..b
        BY <1>2, <1>4, <3>2
      <4> QED
        BY <1>1, <2>9, <3>2, <4>1
    <3> QED
      BY <3>1, <3>2
  <2>11. new \in [cursor : 0..n, sent : Seq(1..n), frames : Wires(n)]
    BY <1>4, <2>2, <2>4, <2>7
  <2>12. Range(s) \subseteq Has(S, new)
    BY <2>4, <2>9 DEF Registers
  <2>13. \A i \in 1..k + 1 : /\ Covered(log, S \cup Brought(f, i), f[i].id)
                             /\ Readable(log[f[i].cursor])
    <3> SUFFICES ASSUME NEW i \in 1..k + 1
                 PROVE  Covered(log, S \cup Brought(f, i), f[i].id) /\ Readable(log[f[i].cursor])
      OBVIOUS
    <3>1. CASE i = k + 1
      <4>1. S \cup Brought(f, i) = Has(S, new)
        BY <2>7, <2>8, <3>1 DEF Has
      <4> QED
        BY <1>1, <2>5, <2>7, <2>10, <3>1, <4>1
    <3>2. CASE i # k + 1
      <4>1. i \in 1..k
        BY <2>7, <3>2
      <4> QED
        BY <2>6, <2>7, <4>1 DEF Registers
    <3> QED
      BY <3>1, <3>2
  <2>14. Registers(S, new)
    BY <1>1, <2>7, <2>8, <2>10, <2>11, <2>12, <2>13 DEF Registers
  <2> QED
    BY <1>1, <1>4, <2>3, <2>8, <2>9, <2>14
<1> QED
  BY <1>5, <1>6

\* The registration after each row of a page.
LEMMA RunExists ==
    ASSUME NEW n \in Nat, NEW page
    PROVE  \E g : g = [i \in 0..n |->
                         IF i = 0 THEN [cursor |-> stream.cursor, sent |-> stream.sent, frames |-> << >>]
                         ELSE Frame(g[i - 1], page[i])]
<1> DEFINE First0 == [cursor |-> stream.cursor, sent |-> stream.sent, frames |-> << >>]
           Runs(g, m) == g = [i \in 0..m |-> IF i = 0 THEN First0 ELSE Frame(g[i - 1], page[i])]
           Stuck == {m \in Nat : ~ \E g : Runs(g, m)}
<1> SUFFICES ASSUME Stuck # {} PROVE FALSE
  OBVIOUS
<1>1. PICK m : m = Min(Stuck)
  OBVIOUS
<1>2. m \in Stuck /\ \A k \in Stuck : m <= k
  <2>1. Stuck \subseteq Nat
    OBVIOUS
  <2> HIDE DEF Stuck
  <2> QED
    BY <1>1, <2>1, Least
<1>3. m \in Nat
  BY <1>2
<1>4. CASE m = 0
  <2>1. PICK g : g = [i \in 0..0 |-> First0]
    OBVIOUS
  <2>2. Runs(g, 0)
    BY <2>1
  <2> QED
    BY <1>2, <1>4, <2>2
<1>5. CASE m # 0
  <2>1. m - 1 \in Nat /\ m - 1 \notin Stuck
    <3> HIDE DEF Stuck
    <3>1. m - 1 \in Nat /\ ~ m <= m - 1
      BY <1>3, <1>5
    <3> QED
      BY <1>2, <3>1
  <2>2. PICK g : Runs(g, m - 1)
    BY <2>1
  <2>3. PICK h : h = [i \in 0..m |-> IF i = m THEN Frame(g[m - 1], page[m]) ELSE g[i]]
    OBVIOUS
  <2>4. \A i \in 0..m - 1 : h[i] = g[i]
    BY <1>3, <2>3
  <2>5. ASSUME NEW i \in 0..m
        PROVE  h[i] = IF i = 0 THEN First0 ELSE Frame(h[i - 1], page[i])
    <3>1. CASE i = m
      <4>1. h[m] = Frame(g[m - 1], page[m]) /\ h[m - 1] = g[m - 1]
        BY <1>3, <1>5, <2>3, <2>4
      <4> QED
        BY <1>5, <3>1, <4>1
    <3>2. CASE i # m
      <4>1. i \in 0..m - 1 /\ h[i] = g[i]
        BY <1>3, <2>4, <3>2
      <4>2. g[i] = IF i = 0 THEN First0 ELSE Frame(g[i - 1], page[i])
        BY <2>2, <4>1
      <4>3. CASE i # 0
        <5>1. i - 1 \in 0..m - 1
          BY <1>3, <4>1, <4>3
        <5> QED
          BY <2>4, <4>1, <4>2, <4>3, <5>1
      <4> QED
        BY <4>1, <4>2, <4>3
    <3> QED
      BY <3>1, <3>2
  <2>6. Runs(h, m)
    BY <2>3, <2>5
  <2> QED
    BY <1>2, <2>6
<1> QED
  BY <1>4, <1>5

LEMMA RegisteredRuns ==
    ASSUME NEW page, Len(page) \in Nat
    PROVE  /\ Registered(page)[0] = [cursor |-> stream.cursor, sent |-> stream.sent, frames |-> << >>]
           /\ \A i \in 1..Len(page) : Registered(page)[i] = Frame(Registered(page)[i - 1], page[i])
<1> DEFINE Runs(g) == g = [i \in 0..Len(page) |->
                         IF i = 0 THEN [cursor |-> stream.cursor, sent |-> stream.sent, frames |-> << >>]
                         ELSE Frame(g[i - 1], page[i])]
<1>1. Registered(page) = CHOOSE g : Runs(g)
  BY Zenon DEF Registered
<1>2. \E g : Runs(g)
  BY RunExists, Zenon
<1>3. Runs(CHOOSE g : Runs(g))
  BY <1>2, Zenon
<1>4. Runs(Registered(page))
  BY <1>1, <1>3, Zenon
<1> QED
  BY <1>4

LEMMA PageRegisters ==
    ASSUME LogTypeOK, NEW S, NEW page \in Pages(Len(log)),
           Registers(S, [cursor |-> stream.cursor, sent |-> stream.sent, frames |-> << >>]),
           \A i \in DOMAIN page : Readable(log[page[i].cursor]),
           \A i \in DOMAIN page : \A p \in 1..page[i].resume :
               p \in S \/ Excused(log[p]) \/ \E j \in 1..i : page[j].cursor = p
    PROVE  /\ Registers(S, Frames(page))
           /\ \A j \in DOMAIN page : \/ page[j].cursor \in Has(S, Frames(page))
                                     \/ page[j].cursor <= Frames(page).cursor
<1>1. PICK n, R : n = Len(page) /\ R = Registered(page)
  OBVIOUS
<1>2. /\ n \in Nat /\ DOMAIN page = 1..n
      /\ \A i \in 1..n : page[i] \in [cursor : 1..Len(log), resume : 0..Len(log)]
  <2>1. page \in Seq([cursor : 1..Len(log), resume : 0..Len(log)])
    BY DEF Pages
  <2>2. n \in Nat /\ DOMAIN page = 1..n
    BY <1>1, <2>1
  <2> QED
    BY <1>1, <2>1, <2>2, ElementOfSeq
<1>3. /\ R[0] = [cursor |-> stream.cursor, sent |-> stream.sent, frames |-> << >>]
      /\ \A i \in 1..n : R[i] = Frame(R[i - 1], page[i])
  BY <1>1, <1>2, RegisteredRuns
<1> DEFINE Done(i) == /\ Registers(S, R[i])
                      /\ \A j \in 1..i : \/ page[j].cursor \in Has(S, R[i])
                                         \/ page[j].cursor <= R[i].cursor
           Undone == {i \in 0..n : ~ Done(i)}
<1>4. Done(0)
  BY <1>3
<1>5. ASSUME NEW i \in 1..n, Done(i - 1) PROVE Done(i)
  <2>1. PICK st, u : st = R[i - 1] /\ u = page[i]
    OBVIOUS
  <2>2. /\ Registers(S, st) /\ u \in [cursor : 1..Len(log), resume : 0..Len(log)]
        /\ Readable(log[u.cursor])
    BY <1>2, <1>5, <2>1
  <2>3. \A j \in 1..i - 1 : page[j].cursor \in Has(S, st) \/ page[j].cursor <= st.cursor
    BY <1>5, <2>1
  <2>4. \A p \in 1..u.resume : p = u.cursor \/ Excused(log[p]) \/ p \in Has(S, st) \/ p <= st.cursor
    <3> SUFFICES ASSUME NEW p \in 1..u.resume, ~ Excused(log[p]), p # u.cursor
                 PROVE  p \in Has(S, st) \/ p <= st.cursor
      OBVIOUS
    <3>1. CASE p \in S
      BY <3>1 DEF Has
    <3>2. CASE p \notin S
      <4>1. PICK j \in 1..i : page[j].cursor = p
        BY <1>2, <2>1, <3>2
      <4>2. j \in 1..i - 1
        BY <1>2, <2>1, <4>1
      <4> QED
        BY <2>3, <4>1, <4>2
    <3> QED
      BY <3>1, <3>2
  <2>5. PICK new : new = Frame(st, u)
    OBVIOUS
  <2>6. /\ Registers(S, new) /\ Has(S, st) \subseteq Has(S, new) /\ st.cursor <= new.cursor
        /\ u.cursor \in Has(S, new) \/ u.cursor <= new.cursor
    <3> HIDE DEF Done, Undone
    <3>1. /\ Registers(S, Frame(st, u))
          /\ Has(S, st) \subseteq Has(S, Frame(st, u)) /\ st.cursor <= Frame(st, u).cursor
          /\ u.cursor \in Has(S, Frame(st, u)) \/ u.cursor <= Frame(st, u).cursor
      BY <2>2, <2>4, FrameRegisters
    <3> QED
      BY <2>5, <3>1
  <2>7. R[i] = new
    BY <1>3, <2>1, <2>5
  <2>8. ASSUME NEW j \in 1..i
        PROVE  page[j].cursor \in Has(S, new) \/ page[j].cursor <= new.cursor
    <3>1. CASE j = i
      BY <2>1, <2>6, <3>1
    <3>2. CASE j # i
      <4>1. j \in 1..i - 1 /\ j \in 1..n
        BY <1>2, <3>2
      <4>2. PICK a, b, c : a = page[j].cursor /\ b = st.cursor /\ c = new.cursor
        OBVIOUS
      <4>3. a \in Nat /\ b \in Nat /\ c \in Nat /\ b <= c
        BY <1>2, <2>2, <2>6, <4>1, <4>2, Logged DEF Registers
      <4>4. a \in Has(S, st) \/ a <= b
        BY <2>3, <4>1, <4>2
      <4> QED
        BY <2>6, <4>2, <4>3, <4>4
    <3> QED
      BY <3>1, <3>2
  <2> QED
    BY <2>6, <2>7, <2>8
<1>6. Undone = {}
  <2> SUFFICES ASSUME Undone # {} PROVE FALSE
    OBVIOUS
  <2>1. PICK m : m = Min(Undone)
    OBVIOUS
  <2>2. m \in Undone /\ \A k \in Undone : m <= k
    <3>1. Undone \subseteq Nat
      OBVIOUS
    <3> HIDE DEF Undone
    <3> QED
      BY <2>1, <3>1, Least
  <2>3. m \in 0..n /\ ~ Done(m)
    BY <2>2
  <2> HIDE DEF Done
  <2>4. m \in 1..n
    BY <1>2, <1>4, <2>3
  <2>5. m - 1 \in 0..n /\ ~ m <= m - 1
    BY <1>2, <2>4
  <2>6. m - 1 \notin Undone
    <3> HIDE DEF Undone
    <3> QED
      BY <2>2, <2>5
  <2>7. Done(m - 1)
    BY <2>5, <2>6
  <2> QED
    BY <1>5, <2>3, <2>4, <2>7
<1>7. Done(n)
  <2> HIDE DEF Done
  <2> QED
    BY <1>2, <1>6
<1>8. Frames(page) = R[n]
  BY <1>1 DEF Frames
<1> QED
  BY <1>2, <1>7, <1>8
-----------------------------------------------------------------------------
(* The steps.                                                              *)

LEMMA CoveredMore ==
    ASSUME NEW l, NEW S, NEW T, S \subseteq T, NEW n, Covered(l, S, n)
    PROVE  Covered(l, T, n)
  BY DEF Covered

\* v is what was under way, with the frames f of a page behind it.
Joined(n, w, f, v) ==
    /\ v \in Wires(n) /\ Len(v) = Len(w) + Len(f) /\ Len(w) \in Nat /\ Len(f) \in Nat
    /\ \A i \in 1..Len(w) : v[i] = w[i] /\ Brought(v, i) = Brought(w, i)
    /\ \A k \in 1..Len(f) : v[Len(w) + k] = f[k]
    /\ \A k \in 0..Len(f) : Brought(v, Len(w) + k) = Brought(w, Len(w)) \cup Brought(f, k)

LEMMA BroughtTogether ==
    ASSUME NEW n \in Nat, NEW w \in Wires(n), NEW f \in Wires(n)
    PROVE  Joined(n, w, f, w \o f)
<1>1. PICK v, a, b : v = w \o f /\ a = Len(w) /\ b = Len(f)
  OBVIOUS
<1>2. /\ v \in Wires(n) /\ Len(v) = a + b /\ a \in Nat /\ b \in Nat
      /\ \A i \in 1..a : v[i] = w[i]
  BY <1>1, ConcatProperties, LenProperties DEF Wires
<1>3. \A k \in 1..b : v[a + k] = f[k]
  <2> SUFFICES ASSUME NEW k \in 1..b PROVE v[a + k] = f[k]
    OBVIOUS
  <2>1. a + k \in 1..a + b /\ ~ a + k <= a /\ (a + k) - a = k
    BY <1>2
  <2> QED
    BY <1>1, <1>2, <2>1, ConcatProperties DEF Wires
<1>4. \A i \in 1..a : Brought(v, i) = Brought(w, i)
  <2> SUFFICES ASSUME NEW i \in 1..a PROVE Brought(v, i) = Brought(w, i)
    OBVIOUS
  <2>1. \A j \in 1..i : v[j] = w[j]
    BY <1>2
  <2> QED
    BY <2>1 DEF Brought
<1>5. ASSUME NEW k \in 0..b
      PROVE  Brought(v, a + k) = Brought(w, a) \cup Brought(f, k)
  <2>1. \A x : x \in Brought(v, a + k) <=> x \in Brought(w, a) \/ x \in Brought(f, k)
    <3>1. ASSUME NEW j \in 1..a + k
          PROVE  v[j].cursor \in Brought(w, a) \/ v[j].cursor \in Brought(f, k)
      <4>1. CASE j <= a
        <5>1. j \in 1..a
          BY <1>2, <4>1
        <5> QED
          BY <1>2, <5>1 DEF Brought
      <4>2. CASE ~ j <= a
        <5>1. PICK i : i = j - a
          OBVIOUS
        <5>2. i \in 1..k /\ i \in 1..b /\ a + i = j
          BY <1>2, <4>2, <5>1
        <5>3. v[j] = f[i]
          BY <1>3, <5>2
        <5> QED
          BY <5>2, <5>3 DEF Brought
      <4> QED
        BY <4>1, <4>2
    <3>2. ASSUME NEW j \in 1..a
          PROVE  j \in 1..a + k /\ v[j] = w[j]
      BY <1>2
    <3>3. ASSUME NEW j \in 1..k
          PROVE  a + j \in 1..a + k /\ v[a + j] = f[j]
      <4>1. j \in 1..b /\ a + j \in 1..a + k
        BY <1>2
      <4> QED
        BY <1>3, <4>1
    <3> QED
      BY <3>1, <3>2, <3>3 DEF Brought
  <2> QED
    BY <2>1
<1> QED
  BY <1>1, <1>2, <1>3, <1>4, <1>5 DEF Joined

\* What the customer has does not shrink, so what was covered is.
LEMMA Unchanging ==
    ASSUME Streaming, UNCHANGED <<log, streaming>>
    PROVE  Streaming'
  BY DEF Streaming, streaming, StreamTyped, LogTypeOK, Polled, Covering, ReadableAll

LEMMA InStreaming ==
    ASSUME Streaming
    PROVE  /\ LogTypeOK /\ Len(log) \in Nat
           /\ stream \in Streams(Len(log)) /\ wire \in Wires(Len(log)) /\ client \in Browsers(Len(log))
           /\ Len(wire) \in Nat
           /\ Sure(client, wire, Len(wire)) \subseteq 1..Len(log)
<1>1. LogTypeOK /\ Len(log) \in Nat /\ stream \in Streams(Len(log)) /\ wire \in Wires(Len(log))
      /\ client \in Browsers(Len(log)) /\ Len(wire) \in Nat
  BY Logged, LenProperties DEF Streaming, StreamTyped, Wires
<1>2. \A j \in 1..Len(wire) : wire[j].cursor \in 1..Len(log)
  <2>1. wire \in Seq(Messages(Len(log)))
    BY <1>1 DEF Wires
  <2>2. \A j \in 1..Len(wire) : wire[j] \in Messages(Len(log))
    BY <2>1, ElementOfSeq
  <2> QED
    BY <2>2 DEF Messages
<1> QED
  BY <1>1, <1>2 DEF Sure, Brought, Browsers

\* An empty page holds nothing back.
LEMMA NoRows ==
    ASSUME NEW l, NEW after
    PROVE  Rises(l, << >>, after) /\ Whole(l, << >>, after) /\ \A n \in Nat : << >> \in Pages(n)
  BY EmptySeq DEF Rises, Whole, Pages

LEMMA ReadKept ==
    ASSUME Streaming, Read
    PROVE  Streaming'
<1>1. PICK n, page : n = Len(log) /\ page = Rows(stream.scan, PageLimit)
  OBVIOUS
<1>2. /\ LogTypeOK /\ n \in Nat /\ stream \in Streams(n) /\ stream.scan \in Nat
      /\ stream.at = "read" /\ stream' = [stream EXCEPT !.page = page, !.at = "publish"]
      /\ UNCHANGED <<log, wire, client, drops>>
  BY <1>1, InStreaming DEF Read, Streams
<1>3. page \in Pages(n) /\ Rises(log, page, stream.scan) /\ Whole(log, page, stream.scan)
  BY <1>1, <1>2, RowsArePage, StreamAssumption DEF PageOf
<1>4. /\ stream' \in Streams(n) /\ stream'.page = page /\ stream'.at = "publish"
      /\ stream'.scan = stream.scan /\ stream'.resume = stream.resume
      /\ stream'.cursor = stream.cursor /\ stream'.sent = stream.sent
  BY <1>2, <1>3 DEF Streams
<1>5. StreamTyped'
  BY <1>1, <1>2, <1>4 DEF Streaming, StreamTyped, LogTypeOK
<1>6. Polled'
  BY <1>2, <1>3, <1>4 DEF Streaming, Polled
<1>7. Covering' /\ ReadableAll'
  BY <1>2, <1>4 DEF Streaming, Covering, ReadableAll
<1> QED
  BY <1>5, <1>6, <1>7 DEF Streaming

LEMMA ClosedIs ==
    ASSUME NEW n \in Nat
    PROVE  /\ Closed \in Streams(n) /\ Closed.at = "closed" /\ Closed.page = << >>
           /\ Closed.resume = Closed.scan /\ << >> \in Wires(n) /\ Len(<< >>) = 0
           /\ \A i : i \in 1..0 <=> FALSE
  BY EmptySeq DEF Closed, Streams, Pages, Wires

LEMMA OpenKept ==
    ASSUME Streaming, Open
    PROVE  Streaming'
<1>1. PICK n, last : n = Len(log) /\ last = client.last
  OBVIOUS
<1>2. n \in Nat /\ last \in 0..n
  BY <1>1, InStreaming DEF Browsers
<1>3. PICK new : new = [Closed EXCEPT !.at = "read", !.scan = last, !.resume = last, !.cursor = last]
  OBVIOUS
<1>4. new = [at |-> "read", scan |-> last, resume |-> last, page |-> << >>, cursor |-> last,
             sent |-> << >>]
  BY <1>3 DEF Closed
<1>5. stream' = new /\ UNCHANGED <<log, wire, client, drops>>
  BY <1>1, <1>3 DEF Open
<1>6. new \in Streams(n)
  BY <1>2, <1>4, NoRows, EmptySeq DEF Streams
<1>7. StreamTyped'
  BY <1>1, <1>5, <1>6 DEF Streaming, StreamTyped, LogTypeOK
<1>8. Polled'
  BY <1>2, <1>4, <1>5, NoRows DEF Polled
<1>9. Covering'
  <2>1. Covered(log, Sure(client, wire, Len(wire)), last)
    <3>1. Covered(log, client.shown, last) /\ client.shown \subseteq Sure(client, wire, Len(wire))
      BY <1>1 DEF Streaming, Covering, Sure
    <3> QED
      BY <3>1, CoveredMore
  <2>2. Range(new.sent) = {}
    BY <1>4 DEF Range
  <2> QED
    BY <1>4, <1>5, <2>1, <2>2 DEF Streaming, Covering
<1>10. ReadableAll'
  BY <1>5 DEF Streaming, ReadableAll
<1> QED
  BY <1>7, <1>8, <1>9, <1>10 DEF Streaming

\* What closes the stream leaves nothing but what is shown.
LEMMA CloseKept ==
    ASSUME Streaming, stream' = Closed, wire' = << >>, UNCHANGED log, drops' \in 0..MaxDrops,
           client' \in Browsers(Len(log)), Covered(log, client'.shown, client'.last),
           \A p \in client'.shown : Readable(log[p])
    PROVE  Streaming'
<1>1. PICK n : n = Len(log)
  OBVIOUS
<1>2. n \in Nat /\ log' = log /\ LogTypeOK
  BY <1>1, InStreaming
<1>3. /\ Closed \in Streams(n) /\ Closed.at = "closed" /\ Closed.page = << >>
      /\ Closed.resume = Closed.scan /\ << >> \in Wires(n) /\ Len(<< >>) = 0
      /\ \A i : i \in 1..0 <=> FALSE
  BY <1>2, ClosedIs
<1>4. StreamTyped'
  BY <1>1, <1>2, <1>3 DEF StreamTyped, LogTypeOK
<1>5. Polled'
  <2>1. Closed.scan = 0
    BY DEF Closed
  <2> QED
    BY <1>3, <2>1, NoRows DEF Polled
<1>6. Sure(client', << >>, 0) = client'.shown
  BY <1>3 DEF Sure, Brought
<1>7. Covering'
  BY <1>2, <1>3 DEF Covering
<1>8. ReadableAll'
  BY <1>2, <1>3, <1>6 DEF ReadableAll
<1> QED
  BY <1>4, <1>5, <1>7, <1>8 DEF Streaming

LEMMA DisconnectKept ==
    ASSUME Streaming, Disconnect
    PROVE  Streaming'
<1>1. /\ client' = client /\ client \in Browsers(Len(log)) /\ Covered(log, client.shown, client.last)
      /\ \A p \in client.shown : Readable(log[p])
  BY InStreaming DEF Disconnect, Streaming, Covering, ReadableAll, Sure
<1>2. drops' \in 0..MaxDrops
  BY StreamAssumption DEF Disconnect, Streaming, StreamTyped
<1> QED
  BY <1>1, <1>2, CloseKept DEF Disconnect

LEMMA ReloadKept ==
    ASSUME Streaming, Reload
    PROVE  Streaming'
<1>1. PICK n, page : n = Len(log) /\ page = Rows(0, History)
  OBVIOUS
<1>2. n \in Nat /\ PageOf(page, 0, History)
  BY <1>1, InStreaming, RowsArePage, StreamAssumption
<1>3. PICK shown : shown = {row.cursor : row \in Range(page)}
  OBVIOUS
<1>4. client' = [shown |-> shown, last |-> 0]
  BY <1>1, <1>3 DEF Reload
<1>5. shown \in SUBSET (1..n) /\ \A p \in shown : Readable(log[p])
  <2>1. page \in Seq([cursor : 1..n, resume : 0..n]) /\ Rises(log, page, 0)
    BY <1>1, <1>2 DEF PageOf, Pages
  <2>2. DOMAIN page = 1..Len(page) /\ \A i \in 1..Len(page) : page[i] \in [cursor : 1..n, resume : 0..n]
    <3>1. DOMAIN page = 1..Len(page)
      BY <2>1
    <3> QED
      BY <2>1, <3>1, ElementOfSeq
  <2> QED
    BY <1>3, <2>1, <2>2 DEF Range, Rises
<1>6. client' \in Browsers(n) /\ client'.shown = shown /\ client'.last = 0
  BY <1>2, <1>4, <1>5 DEF Browsers
<1>7. Covered(log, shown, 0)
  BY DEF Covered
<1>8. drops' \in 0..MaxDrops
  BY StreamAssumption DEF Reload, Streaming, StreamTyped
<1> QED
  BY <1>1, <1>5, <1>6, <1>7, <1>8, CloseKept DEF Reload

LEMMA ReceiveKept ==
    ASSUME Streaming, Receive
    PROVE  Streaming'
<1>1. PICK n, m, head, rest : n = Len(log) /\ m = Len(wire) /\ head = wire[1] /\ rest = Tail(wire)
  OBVIOUS
<1>2. /\ LogTypeOK /\ n \in Nat /\ m \in Nat /\ wire \in Wires(n) /\ client \in Browsers(n)
      /\ UNCHANGED <<log, stream, drops>>
  BY <1>1, InStreaming DEF Receive
<1>3. /\ m >= 1 /\ head \in Messages(n) /\ Head(wire) = head
      /\ rest \in Wires(n) /\ Len(rest) = m - 1 /\ \A i \in 1..m - 1 : rest[i] = wire[i + 1]
  <2>1. wire \in Seq(Messages(n)) /\ wire # << >>
    BY <1>2 DEF Wires, Receive
  <2>2. m >= 1
    BY <1>1, <1>2, <2>1, EmptySeq
  <2>3. head \in Messages(n)
    BY <1>1, <1>2, <2>1, <2>2, ElementOfSeq
  <2> QED
    BY <1>1, <2>1, <2>2, <2>3 DEF Wires
<1>4. PICK shown, last : /\ shown = client.shown \cup {head.cursor}
                         /\ last = IF head.id = 0 THEN client.last ELSE head.id
  OBVIOUS
<1>5. client' = [shown |-> shown, last |-> last] /\ wire' = rest
  BY <1>1, <1>3, <1>4 DEF Receive
<1>6. client' \in Browsers(n) /\ client'.shown = shown /\ client'.last = last
  BY <1>2, <1>3, <1>4, <1>5 DEF Browsers, Messages
<1>7. ASSUME NEW i \in 0..m - 1
      PROVE  Sure(client', rest, i) = Sure(client, wire, i + 1)
  <2>1. \A x : x \in Brought(wire, i + 1) <=> x \in Brought(rest, i) \/ x = head.cursor
    <3>1. ASSUME NEW j \in 1..i + 1
          PROVE  wire[j].cursor \in Brought(rest, i) \/ wire[j].cursor = head.cursor
      <4>1. CASE j = 1
        BY <1>1, <4>1
      <4>2. CASE j # 1
        <5>1. PICK k : k = j - 1
          OBVIOUS
        <5>2. k \in 1..i /\ k \in 1..m - 1 /\ k + 1 = j
          BY <1>2, <4>2, <5>1
        <5>3. rest[k] = wire[j]
          BY <1>3, <5>2
        <5> QED
          BY <5>2, <5>3 DEF Brought
      <4> QED
        BY <4>1, <4>2
    <3>2. ASSUME NEW j \in 1..i
          PROVE  j + 1 \in 1..i + 1 /\ rest[j] = wire[j + 1]
      <4>1. j \in 1..m - 1 /\ j + 1 \in 1..i + 1
        BY <1>2
      <4> QED
        BY <1>3, <4>1
    <3>3. 1 \in 1..i + 1
      BY <1>2
    <3> QED
      BY <1>1, <3>1, <3>2, <3>3 DEF Brought
  <2> QED
    BY <1>4, <1>6, <2>1 DEF Sure
<1>8. Sure(client', rest, m - 1) = Sure(client, wire, m)
  BY <1>2, <1>3, <1>7
<1>9. Covered(log, shown, last)
  <2>1. CASE head.id = 0
    <3>1. Covered(log, client.shown, client.last)
      BY DEF Streaming, Covering
    <3> QED
      BY <1>4, <2>1, <3>1, CoveredMore
  <2>2. CASE head.id # 0
    <3>1. Covered(log, Sure(client, wire, 1), wire[1].id)
      BY <1>1, <1>2, <1>3 DEF Streaming, Covering
    <3>2. Sure(client, wire, 1) = shown
      BY <1>1, <1>4 DEF Sure, Brought
    <3> QED
      BY <1>1, <1>4, <2>2, <3>1, <3>2
  <2> QED
    BY <2>1, <2>2
<1>10. \A i \in 1..m - 1 : Covered(log, Sure(client', rest, i), rest[i].id)
  <2> SUFFICES ASSUME NEW i \in 1..m - 1
               PROVE  Covered(log, Sure(client', rest, i), rest[i].id)
    OBVIOUS
  <2>1. i + 1 \in 1..m /\ i \in 0..m - 1
    BY <1>2
  <2>2. Covered(log, Sure(client, wire, i + 1), wire[i + 1].id)
    BY <1>1, <2>1 DEF Streaming, Covering
  <2> QED
    BY <1>3, <1>7, <2>1, <2>2
<1>11. StreamTyped'
  BY <1>1, <1>2, <1>3, <1>5, <1>6 DEF Streaming, StreamTyped, LogTypeOK
<1>12. Polled'
  BY <1>2 DEF Streaming, Polled
<1>13. Covering'
  BY <1>1, <1>2, <1>3, <1>5, <1>6, <1>8, <1>9, <1>10 DEF Streaming, Covering
<1>14. ReadableAll'
  BY <1>1, <1>2, <1>3, <1>5, <1>8 DEF Streaming, ReadableAll
<1> QED
  BY <1>11, <1>12, <1>13, <1>14 DEF Streaming

LEMMA PublishKept ==
    ASSUME Streaming, Publish
    PROVE  Streaming'
<1>1. PICK n, page, S, m : n = Len(log) /\ page = stream.page /\ m = Len(wire)
                           /\ S = Sure(client, wire, m)
  OBVIOUS
<1>2. PICK out, resume : out = Frames(page)
                         /\ resume = Max({stream.resume} \cup {page[i].resume : i \in DOMAIN page})
  OBVIOUS
<1>3. /\ LogTypeOK /\ n \in Nat /\ stream \in Streams(n) /\ wire \in Wires(n) /\ client \in Browsers(n)
      /\ m \in Nat /\ UNCHANGED <<log, client, drops>> /\ stream.at = "publish"
  BY <1>1, InStreaming DEF Publish
<1>4. /\ page \in Seq([cursor : 1..n, resume : 0..n]) /\ page \in Pages(n) /\ Len(page) \in Nat
      /\ DOMAIN page = 1..Len(page) /\ stream.scan \in 0..n /\ stream.resume \in 0..n
      /\ stream.cursor \in 0..n /\ stream.sent \in Seq(1..n)
  BY <1>1, <1>3 DEF Streams, Pages
<1>5. ASSUME NEW i \in 1..Len(page)
      PROVE  page[i].cursor \in 1..n /\ page[i].resume \in 0..n
  <2>1. page[i] \in [cursor : 1..n, resume : 0..n]
    BY <1>4, ElementOfSeq
  <2> QED
    BY <2>1
<1>6. /\ Rises(log, page, stream.scan) /\ stream.resume <= stream.scan
      /\ stream.scan = stream.resume => Whole(log, page, stream.scan)
  BY <1>1 DEF Streaming, Polled
<1>7. /\ Covered(log, S, stream.cursor) /\ Covered(log, S, stream.resume)
      /\ Range(stream.sent) \subseteq S
      /\ \A i \in 1..m : Covered(log, Sure(client, wire, i), wire[i].id)
      /\ \A p \in S : Readable(log[p])
      /\ Covered(log, client.shown, client.last)
  BY <1>1, <1>3 DEF Streaming, Covering, ReadableAll
<1>8. CASE Behind(page) \/ page = << >>
  <2>1. /\ stream' = [stream EXCEPT !.at = "read", !.page = << >>, !.scan = stream.resume]
        /\ wire' = wire
    BY <1>1, <1>8 DEF Publish
  <2>2. /\ stream' \in Streams(n) /\ stream'.page = << >> /\ stream'.at = "read"
        /\ stream'.scan = stream.resume /\ stream'.resume = stream.resume
        /\ stream'.cursor = stream.cursor /\ stream'.sent = stream.sent
    BY <1>3, <1>4, <2>1, NoRows DEF Streams
  <2>3. StreamTyped'
    BY <1>1, <1>3, <2>1, <2>2 DEF Streaming, StreamTyped, LogTypeOK
  <2>4. Polled'
    BY <1>3, <1>4, <2>2, NoRows DEF Polled
  <2>5. Covering' /\ ReadableAll'
    BY <1>3, <2>1, <2>2 DEF Streaming, Covering, ReadableAll
  <2> QED
    BY <2>3, <2>4, <2>5 DEF Streaming
<1>9. CASE ~ (Behind(page) \/ page = << >>)
  <2>1. PICK scan : scan = IF Len(page) < PageLimit THEN resume ELSE Last(page).cursor
    OBVIOUS
  <2>2. /\ stream' = [at |-> "read", page |-> << >>, resume |-> resume, scan |-> scan,
                      cursor |-> out.cursor, sent |-> out.sent]
        /\ wire' = wire \o out.frames
    BY <1>1, <1>2, <1>9, <2>1 DEF Publish
  <2>3. Len(page) \in 1..Len(page) /\ page # << >>
    BY <1>4, <1>9, EmptySeq
  \* The position to go on from.
  <2>4. /\ resume \in 0..n /\ stream.resume <= resume
        /\ \A i \in 1..Len(page) : page[i].resume <= resume
        /\ resume = stream.resume \/ \E i \in 1..Len(page) : resume = page[i].resume
    <3>1. PICK R : R = {stream.resume} \cup {page[i].resume : i \in DOMAIN page}
      OBVIOUS
    <3>2. R \subseteq 0..n /\ R # {}
      BY <1>4, <1>5, <3>1
    <3>3. resume \in R /\ \A x \in R : x <= resume
      BY <1>2, <1>3, <3>1, <3>2, Greatest
    <3> QED
      BY <1>4, <3>1, <3>2, <3>3
  <2>5. scan \in 0..n /\ resume <= scan
    <3>1. CASE Len(page) < PageLimit
      BY <2>1, <2>4, <3>1
    <3>2. CASE ~ Len(page) < PageLimit
      <4>1. PICK c : c = page[Len(page)].cursor
        OBVIOUS
      <4>2. scan = c /\ c \in 1..n /\ c > stream.scan
        BY <1>4, <1>5, <1>6, <2>1, <2>3, <3>2, <4>1 DEF Last, Rises
      <4>3. \A i \in 1..Len(page) : page[i].resume <= c
        <5> SUFFICES ASSUME NEW i \in 1..Len(page) PROVE page[i].resume <= c
          OBVIOUS
        <5>1. PICK r, d : r = page[i].resume /\ d = page[i].cursor
          OBVIOUS
        <5>2. r <= d /\ r \in 0..n /\ d \in 1..n
          BY <1>4, <1>5, <1>6, <5>1 DEF Rises
        <5>3. d <= c
          <6>1. CASE i = Len(page)
            BY <4>1, <4>2, <5>1, <5>2, <6>1
          <6>2. CASE i # Len(page)
            <7>1. i < Len(page)
              <8>1. PICK l : l = Len(page)
                OBVIOUS
              <8>2. l \in Nat /\ i \in 1..l /\ i # l
                BY <1>4, <6>2, <8>1
              <8> QED
                BY <8>1, <8>2
            <7>2. d < c
              BY <1>4, <1>6, <2>3, <4>1, <5>1, <7>1 DEF Rises
            <7> QED
              BY <4>2, <5>2, <7>2
          <6> QED
            BY <6>1, <6>2
        <5> QED
          BY <4>2, <5>1, <5>2, <5>3
      <4>4. stream.resume <= c
        BY <1>4, <1>6, <4>2
      <4> QED
        BY <2>4, <4>2, <4>3, <4>4
    <3> QED
      BY <3>1, <3>2
  \* Nothing before a position to resume from is missing.
  <2>6. \A i \in DOMAIN page : \A p \in 1..page[i].resume :
            p \in S \/ Excused(log[p]) \/ \E j \in 1..i : page[j].cursor = p
    <3> SUFFICES ASSUME NEW i \in 1..Len(page), NEW p \in 1..page[i].resume,
                        p \notin S, ~ Excused(log[p])
                 PROVE  \E j \in 1..i : page[j].cursor = p
      BY <1>4
    <3>1. PICK r : r = page[i].resume
      OBVIOUS
    <3>2. p \in 1..r /\ r \in 0..n
      BY <1>5, <3>1
    <3>3. ~ p <= stream.resume
      BY <1>4, <1>7, <3>2 DEF Covered
    <3>4. CASE stream.scan = stream.resume
      BY <1>4, <1>6, <3>3, <3>4 DEF Whole
    <3>5. CASE stream.scan # stream.resume
      <4>1. stream.scan > stream.resume
        BY <1>4, <1>6, <3>5
      <4>2. ~ r > stream.resume
        BY <1>4, <1>9, <3>1, <4>1 DEF Behind
      <4> QED
        BY <1>4, <3>2, <3>3, <4>2
    <3> QED
      BY <3>4, <3>5
  <2>7. /\ Registers(S, out)
        /\ \A j \in DOMAIN page : page[j].cursor \in Has(S, out) \/ page[j].cursor <= out.cursor
    <3>1. PICK st : st = [cursor |-> stream.cursor, sent |-> stream.sent, frames |-> << >>]
      OBVIOUS
    <3>2. /\ st.cursor = stream.cursor /\ st.sent = stream.sent /\ st.frames = << >>
          /\ Len(<< >>) = 0 /\ << >> \in Wires(n) /\ \A i : i \in 1..0 <=> FALSE
      BY <1>3, <3>1, ClosedIs
    <3>3. Has(S, st) = S
      BY <3>2 DEF Has, Brought
    <3>4. st \in [cursor : 0..n, sent : Seq(1..n), frames : Wires(n)]
      BY <1>4, <3>1, <3>2
    <3>5. Registers(S, st)
      BY <1>1, <1>7, <3>2, <3>3, <3>4 DEF Registers
    <3>6. page \in Pages(Len(log)) /\ \A i \in DOMAIN page : Readable(log[page[i].cursor])
      BY <1>1, <1>4, <1>6 DEF Rises
    <3> HIDE DEF Pages
    <3>7. /\ Registers(S, Frames(page))
          /\ \A j \in DOMAIN page : \/ page[j].cursor \in Has(S, Frames(page))
                                    \/ page[j].cursor <= Frames(page).cursor
      BY <1>3, <2>6, <3>1, <3>5, <3>6, PageRegisters
    <3> QED
      BY <1>2, <3>7
  <2>8. PICK f, k : f = out.frames /\ k = Len(out.frames)
    OBVIOUS
  <2>9. /\ out.cursor \in 0..n /\ out.sent \in Seq(1..n) /\ f \in Wires(n)
        /\ Range(out.sent) \subseteq Has(S, out) /\ Covered(log, Has(S, out), out.cursor)
        /\ \A i \in 1..k : /\ Covered(log, S \cup Brought(f, i), f[i].id)
                           /\ Readable(log[f[i].cursor])
    BY <1>1, <2>7, <2>8 DEF Registers
  <2>10. /\ wire' \in Wires(n) /\ Len(wire') = m + k /\ k \in Nat
         /\ \A i \in 1..m : wire'[i] = wire[i] /\ Brought(wire', i) = Brought(wire, i)
         /\ \A i \in 1..k : wire'[m + i] = f[i]
         /\ \A i \in 0..k : Brought(wire', m + i) = Brought(wire, m) \cup Brought(f, i)
    <3>1. Joined(n, wire, f, wire \o f)
      BY <1>3, <2>9, BroughtTogether
    <3>2. Joined(n, wire, f, wire')
      BY <2>2, <2>8, <3>1
    <3> QED
      BY <1>1, <2>8, <3>2 DEF Joined
  <2>11. /\ \A i \in 0..k : Sure(client, wire', m + i) = S \cup Brought(f, i)
         /\ \A i \in 1..m : Sure(client, wire', i) = Sure(client, wire, i)
    BY <1>1, <2>10 DEF Sure
  <2>12. Has(S, out) = Sure(client, wire', m + k)
    BY <2>8, <2>10, <2>11 DEF Has
  <2>13. Covered(log, Has(S, out), resume)
    <3>1. CASE resume = stream.resume
      <4>1. S \subseteq Has(S, out)
        BY DEF Has
      <4> QED
        BY <1>7, <3>1, <4>1, CoveredMore
    <3>2. CASE resume # stream.resume
      <4>1. PICK i \in 1..Len(page) : resume = page[i].resume
        BY <2>4, <3>2
      <4> SUFFICES ASSUME NEW p \in 1..resume, ~ Excused(log[p]) PROVE p \in Has(S, out)
        BY DEF Covered
      <4>2. CASE p \in S
        BY <4>2 DEF Has
      <4>3. CASE p \notin S
        <5>1. PICK j \in 1..i : page[j].cursor = p
          BY <1>4, <2>6, <4>1, <4>3
        <5>2. j \in DOMAIN page
          BY <1>4
        <5>3. p \in Has(S, out) \/ p <= out.cursor
          BY <2>7, <5>1, <5>2
        <5> QED
          BY <2>4, <2>9, <5>3 DEF Covered
      <4> QED
        BY <4>2, <4>3
    <3> QED
      BY <3>1, <3>2
  <2>14. /\ stream' \in Streams(n) /\ stream'.page = << >> /\ stream'.at = "read"
         /\ stream'.scan = scan /\ stream'.resume = resume
         /\ stream'.cursor = out.cursor /\ stream'.sent = out.sent
    BY <1>3, <2>2, <2>4, <2>5, <2>9, NoRows DEF Streams
  <2>15. StreamTyped'
    BY <1>1, <1>3, <2>10, <2>14 DEF Streaming, StreamTyped, LogTypeOK
  <2>16. Polled'
    BY <2>5, <2>14, NoRows DEF Polled
  <2>17. \A i \in 1..m + k : Covered(log, Sure(client, wire', i), wire'[i].id)
    <3> SUFFICES ASSUME NEW i \in 1..m + k PROVE Covered(log, Sure(client, wire', i), wire'[i].id)
      OBVIOUS
    <3>1. CASE i <= m
      <4>1. i \in 1..m
        BY <1>3, <2>10, <3>1
      <4> QED
        BY <1>7, <2>10, <2>11, <4>1
    <3>2. CASE ~ i <= m
      <4>1. PICK j : j = i - m
        OBVIOUS
      <4>2. j \in 1..k /\ j \in 0..k /\ i = m + j
        BY <1>3, <2>10, <3>2, <4>1
      <4>3. Sure(client, wire', i) = S \cup Brought(f, j) /\ wire'[i] = f[j]
        BY <2>10, <2>11, <4>2
      <4> QED
        BY <2>9, <4>2, <4>3
    <3> QED
      BY <3>1, <3>2
  <2>18. Covering'
    BY <1>3, <1>7, <2>9, <2>10, <2>12, <2>13, <2>14, <2>17 DEF Covering
  <2>19. ReadableAll'
    <3>1. \A p \in Has(S, out) : Readable(log[p])
      BY <1>7, <2>8, <2>9 DEF Has, Brought
    <3> QED
      BY <1>3, <2>10, <2>12, <3>1 DEF ReadableAll
  <2> QED
    BY <2>15, <2>16, <2>18, <2>19 DEF Streaming
<1> QED
  BY <1>8, <1>9

\* The conversation goes on: what is covered, stays covered.
LEMMA CoveredLater ==
    ASSUME NEW l, NEW m, Keeps(l, m), NEW S, NEW n \in 0..Len(l), Covered(l, S, n)
    PROVE  Covered(m, S, n)
<1> SUFFICES ASSUME NEW p \in 1..n PROVE p \in S \/ Excused(m[p])
  BY DEF Covered
<1>1. p \in 1..Len(l)
  BY DEF Keeps
<1> QED
  BY <1>1 DEF Covered, Keeps

LEMMA Longer ==
    ASSUME NEW n \in Nat, NEW m \in Nat, n <= m
    PROVE  /\ Streams(n) \subseteq Streams(m) /\ Wires(n) \subseteq Wires(m)
           /\ Browsers(n) \subseteq Browsers(m)
<1>1. 0..n \subseteq 0..m /\ 1..n \subseteq 1..m
  OBVIOUS
<1>2. Pages(n) \subseteq Pages(m)
  <2>1. [cursor : 1..n, resume : 0..n] \subseteq [cursor : 1..m, resume : 0..m]
    BY <1>1
  <2> QED
    BY <2>1, SeqMonotonic DEF Pages
<1>3. Wires(n) \subseteq Wires(m)
  <2>1. Messages(n) \subseteq Messages(m)
    BY <1>1 DEF Messages
  <2> QED
    BY <2>1, SeqMonotonic DEF Wires
<1>4. Seq(1..n) \subseteq Seq(1..m)
  BY <1>1, SeqMonotonic
<1>5. Streams(n) \subseteq Streams(m)
  <2> SUFFICES ASSUME NEW s \in Streams(n) PROVE s \in Streams(m)
    OBVIOUS
  <2>1. /\ s.at \in {"closed", "read", "publish"} /\ s.scan \in 0..m /\ s.resume \in 0..m
        /\ s.page \in Pages(m) /\ s.cursor \in 0..m /\ s.sent \in Seq(1..m)
    BY <1>1, <1>2, <1>4 DEF Streams
  <2>2. s = [at |-> s.at, scan |-> s.scan, resume |-> s.resume, page |-> s.page,
             cursor |-> s.cursor, sent |-> s.sent]
    BY DEF Streams
  <2> QED
    BY <2>1, <2>2 DEF Streams
<1>6. Browsers(n) \subseteq Browsers(m)
  BY <1>1 DEF Browsers
<1> QED
  BY <1>3, <1>5, <1>6

LEMMA LogKept ==
    ASSUME Streaming, LogNext, UNCHANGED streaming
    PROVE  Streaming'
<1>1. PICK n, m, k, page : n = Len(log) /\ m = Len(log') /\ k = Len(wire) /\ page = stream.page
  OBVIOUS
<1>2. /\ LogTypeOK /\ n \in Nat /\ k \in Nat
      /\ stream \in Streams(n) /\ wire \in Wires(n) /\ client \in Browsers(n)
      /\ Sure(client, wire, k) \subseteq 1..n
      /\ UNCHANGED <<stream, wire, client, drops>>
  BY <1>1, InStreaming DEF streaming
<1>3. LogTypeOK' /\ Keeps(log, log') /\ m \in Nat /\ n <= m
  BY <1>1, <1>2, LogKeeps DEF Keeps
<1>4. StreamTyped'
  BY <1>1, <1>2, <1>3, Longer DEF Streaming, StreamTyped
<1>5. /\ page \in Seq([cursor : 1..n, resume : 0..n]) /\ DOMAIN page = 1..Len(page)
      /\ Len(page) \in Nat /\ stream.cursor \in 0..n /\ stream.resume \in 0..n
  BY <1>1, <1>2 DEF Streams, Pages
<1>6. ASSUME NEW i \in DOMAIN page
      PROVE  page[i].cursor \in 1..n /\ page[i].resume \in 0..n
  <2>1. page[i] \in [cursor : 1..n, resume : 0..n]
    BY <1>5, ElementOfSeq
  <2> QED
    BY <2>1
<1>7. ASSUME NEW p \in 1..n
      PROVE  (Readable(log[p]) => Readable(log'[p])) /\ (Excused(log[p]) => Excused(log'[p]))
  BY <1>1, <1>3 DEF Keeps
<1>8. Polled'
  <2>1. /\ Rises(log, page, stream.scan) /\ stream.resume <= stream.scan
        /\ stream.scan = stream.resume => Whole(log, page, stream.scan)
    BY <1>1 DEF Streaming, Polled
  <2>2. Rises(log', page, stream.scan)
    BY <1>6, <1>7, <2>1 DEF Rises
  <2>3. ASSUME Whole(log, page, stream.scan)
        PROVE  Whole(log', page, stream.scan)
    <3> SUFFICES ASSUME NEW i \in DOMAIN page, NEW p \in 1..page[i].resume
                 PROVE  p <= stream.scan \/ Excused(log'[p]) \/ \E j \in 1..i : page[j].cursor = p
      BY DEF Whole
    <3>1. PICK r : r = page[i].resume
      OBVIOUS
    <3>2. p \in 1..n
      BY <1>2, <1>6, <3>1
    <3> QED
      BY <1>7, <2>3, <3>2 DEF Whole
  <2> QED
    BY <1>1, <1>2, <2>1, <2>2, <2>3 DEF Polled
<1>9. Covering'
  <2>1. ASSUME NEW i \in 1..k
        PROVE  Covered(log', Sure(client, wire, i), wire[i].id)
    <3>1. Covered(log, Sure(client, wire, i), wire[i].id)
      BY <1>1 DEF Streaming, Covering
    <3>2. wire[i].id \in 0..n
      <4>1. wire \in Seq(Messages(n)) /\ i \in 1..Len(wire)
        BY <1>1, <1>2 DEF Wires
      <4>2. wire[i] \in Messages(n)
        BY <4>1, ElementOfSeq
      <4> QED
        BY <4>2 DEF Messages
    <3> QED
      BY <1>1, <1>3, <3>1, <3>2, CoveredLater
  <2>2. Covered(log', client.shown, client.last)
    <3>1. client.last \in 0..n /\ Covered(log, client.shown, client.last)
      BY <1>2 DEF Browsers, Streaming, Covering
    <3> QED
      BY <1>1, <1>3, <3>1, CoveredLater
  <2>3. ASSUME stream.at # "closed"
        PROVE  /\ Covered(log', Sure(client, wire, k), stream.cursor)
               /\ Covered(log', Sure(client, wire, k), stream.resume)
               /\ Range(stream.sent) \subseteq Sure(client, wire, k)
    <3>1. /\ Covered(log, Sure(client, wire, k), stream.cursor)
          /\ Covered(log, Sure(client, wire, k), stream.resume)
          /\ Range(stream.sent) \subseteq Sure(client, wire, k)
      BY <1>1, <2>3 DEF Streaming, Covering
    <3> QED
      BY <1>1, <1>3, <1>5, <3>1, CoveredLater
  <2> QED
    BY <1>1, <1>2, <2>1, <2>2, <2>3 DEF Covering
<1>10. ReadableAll'
  BY <1>1, <1>2, <1>7 DEF Streaming, ReadableAll
<1> QED
  BY <1>4, <1>8, <1>9, <1>10 DEF Streaming
-----------------------------------------------------------------------------
(* The invariant.                                                          *)

LEMMA StreamInitHolds ==
    ASSUME Init
    PROVE  Streaming
<1>1. /\ stream = Closed /\ wire = << >> /\ drops = 0 /\ client = [shown |-> {}, last |-> 0]
      /\ LogTypeOK
  BY InitHolds DEF Init, StreamInit, IInv, Typed
<1>2. PICK n : n = Len(log)
  OBVIOUS
<1>3. n \in Nat
  BY <1>1, <1>2, Logged
<1>4. /\ Closed \in Streams(n) /\ Closed.at = "closed" /\ Closed.page = << >>
      /\ Closed.resume = Closed.scan /\ << >> \in Wires(n) /\ Len(<< >>) = 0
      /\ \A i : i \in 1..0 <=> FALSE
  BY <1>3, ClosedIs
<1>5. client \in Browsers(n) /\ client.shown = {} /\ client.last = 0
  BY <1>1, <1>3 DEF Browsers
<1>6. StreamTyped
  BY <1>1, <1>2, <1>4, <1>5, StreamAssumption DEF StreamTyped
<1>7. Polled
  <2>1. Closed.scan = 0
    BY DEF Closed
  <2> QED
    BY <1>1, <1>4, <2>1, NoRows DEF Polled
<1>8. Covering
  <2>1. Covered(log, {}, 0)
    BY DEF Covered
  <2> QED
    BY <1>1, <1>4, <1>5, <2>1 DEF Covering
<1>9. ReadableAll
  <2>1. Sure(client, << >>, 0) = {}
    BY <1>4, <1>5 DEF Sure, Brought
  <2> QED
    BY <1>1, <1>4, <2>1 DEF ReadableAll
<1> QED
  BY <1>6, <1>7, <1>8, <1>9 DEF Streaming

LEMMA StreamNextKeeps ==
    ASSUME Streaming, [Next]_vars
    PROVE  Streaming'
<1>1. CASE Converse
  BY <1>1, LogKept DEF Converse
<1>2. CASE Website(StreamNext)
  <2>1. StreamNext
    BY <1>2 DEF Website
  <2> QED
    BY <2>1, OpenKept, ReadKept, PublishKept, ReceiveKept, DisconnectKept, ReloadKept DEF StreamNext
<1>3. CASE Carried(ChannelNext)
  <2>1. UNCHANGED <<log, streaming>>
    BY <1>3 DEF Carried, ChannelNext, Dispatch, Schedule, LeaseEnds, ClaimDue, Withhold, Preflight, Send,
          Record, Refuse, PreflightThrows, RecordThrows, Crash
  <2> QED
    BY <2>1, Unchanging
<1>4. CASE UNCHANGED vars
  BY <1>4, Unchanging DEF vars
<1> QED
  BY <1>1, <1>2, <1>3, <1>4 DEF Next

LEMMA StreamInvariance == Spec => []Streaming
  BY StreamInitHolds, StreamNextKeeps, PTL DEF Spec
-----------------------------------------------------------------------------
(* What it is for.                                                         *)

LEMMA CursorsCover ==
    ASSUME Streaming
    PROVE  NothingIsPassedBy
  BY DEF Streaming, Covering, Covered, Excused, NothingIsPassedBy

LEMMA ReadableIsVisible ==
    ASSUME Streaming
    PROVE  ShownIsSafe
<1> SUFFICES ASSUME NEW p \in client.shown \cup {wire[i].cursor : i \in DOMAIN wire} PROVE Visible(p)
  BY DEF ShownIsSafe
<1>1. DOMAIN wire = 1..Len(wire)
  BY InStreaming DEF Wires
<1>2. p \in Sure(client, wire, Len(wire))
  BY <1>1 DEF Sure, Brought
<1> QED
  BY <1>2 DEF Streaming, ReadableAll, Readable, Visible

\* Whatever breaks, is evicted from the memory of a registration, is read ahead of a repair or
\* becomes readable late, the browser never has a cursor to resume from with a message behind it
\* that the customer lacks, could read and would never be sent.
THEOREM NobodyIsPassedBy == Spec => []NothingIsPassedBy
  BY StreamInvariance, CursorsCover, PTL

\* No frame and no history has a message that is not for the customer, or is not translated, and
\* none that the customer has is withdrawn: neither between the query and the frame nor afterwards.
THEOREM NothingUnsafeIsShown == Spec => []ShownIsSafe
  BY StreamInvariance, ReadableIsVisible, PTL

LEMMA StreamTypes ==
    ASSUME Streaming
    PROVE  StreamTypeOK
<1>1. PICK n, m : n = Len(log) /\ m = MaxMessages
  OBVIOUS
<1>2. /\ LogTypeOK /\ n \in Nat /\ stream \in Streams(n) /\ wire \in Wires(n) /\ client \in Browsers(n)
      /\ drops \in 0..MaxDrops
  BY <1>1, InStreaming DEF Streaming, StreamTyped
<1>3. m \in Nat /\ n <= m /\ Positions = 1..n
  BY <1>1, <1>2, Logged
<1>4. stream \in Streams(m) /\ wire \in Wires(m)
  BY <1>2, <1>3, Longer
<1>5. 1..m \subseteq 0..m /\ Cursors = 0..m
  BY <1>1, <1>3 DEF Cursors
<1>6. Seq(1..m) \subseteq Seq(Cursors)
  BY <1>5, SeqMonotonic
<1>7. Pages(m) \subseteq Seq([cursor : Cursors, resume : Cursors])
  <2>1. [cursor : 1..m, resume : 0..m] \subseteq [cursor : Cursors, resume : Cursors]
    BY <1>5
  <2> QED
    <3>1. PICK A, B : A = [cursor : 1..m, resume : 0..m] /\ B = [cursor : Cursors, resume : Cursors]
      OBVIOUS
    <3>2. A \subseteq B
      BY <2>1, <3>1
    <3>3. Seq(A) \subseteq Seq(B)
      BY ONLY <3>2, SeqMonotonic
    <3> QED
      BY <3>1, <3>3 DEF Pages
<1>8. Wires(m) \subseteq Seq([cursor : Cursors, id : Cursors])
  <2>1. Messages(m) \subseteq [cursor : Cursors, id : Cursors]
    BY <1>5 DEF Messages
  <2> QED
    BY <2>1, SeqMonotonic DEF Wires
<1>9. stream \in [at : {"closed", "read", "publish"}, scan : Cursors, resume : Cursors,
                  page : Seq([cursor : Cursors, resume : Cursors]),
                  cursor : Cursors, sent : Seq(Cursors)]
  BY <1>4, <1>5, <1>6, <1>7 DEF Streams
<1>10. client \in [shown : SUBSET Positions, last : Cursors]
  BY <1>2, <1>3, <1>5 DEF Browsers
<1> QED
  BY <1>2, <1>4, <1>8, <1>9, <1>10 DEF StreamTypeOK

LEMMA ChannelTypes ==
    ASSUME IInv
    PROVE  ChannelTypeOK
<1>1. LogTypeOK /\ Positions = 1..Len(log) /\ sent \subseteq Positions \X (1..MaxSends) \X SUBSET Positions
  BY Logged DEF IInv, Typed
<1>2. \A w \in Dispatchers : dispatcher[w] \in Dispatches(Len(log))
  BY DEF IInv, Typed
<1>3. ASSUME NEW w \in Dispatchers
      PROVE  /\ dispatcher[w].at \in {"idle", "check", "send", "record"}
             /\ dispatcher[w].batch \in Seq(Positions) /\ Len(dispatcher[w].batch) <= Batch
             /\ (dispatcher[w].at = "idle") <=> (dispatcher[w].batch = << >>)
             /\ dispatcher[w].outcome \in Outcomes /\ dispatcher[w].again \in BOOLEAN
             /\ dispatcher[w].unclear \subseteq Positions
  BY <1>1, <1>2 DEF Dispatches
<1>4. deliveries \in [1..MaxMessages ->
          [status : Terminal \cup {"NONE", "PENDING", "RUNNING"}, attempts : 0..MaxSends,
           holder : Dispatchers \cup {"none"}, over : BOOLEAN]]
  BY DEF IInv, Typed, Deliveries
<1> QED
  BY <1>1, <1>3, <1>4 DEF ChannelTypeOK

\* Every variable of the conversation, the stream and the channel keeps to its type: no position
\* outruns the conversation, no delivery its attempts, no worker its batch.
THEOREM DeliveryTypes == Spec => []TypeOK
<1> DEFINE Reached == via \in {"website", "channel"}
<1>1. Init => Reached
  BY DEF Init
<1>2. Reached /\ [Next]_vars => Reached'
  BY DEF Next, Converse, Website, Carried, vars
<1>3. Spec => []Reached
  BY <1>1, <1>2, PTL DEF Spec
<1>4. IInv /\ Streaming /\ Reached => TypeOK
  BY StreamTypes, ChannelTypes DEF TypeOK, IInv, Typed
<1> QED
  BY <1>3, <1>4, Invariance, StreamInvariance, PTL
=============================================================================
