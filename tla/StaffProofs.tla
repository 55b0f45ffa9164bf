----------------------------- MODULE StaffProofs -----------------------------
(***************************************************************************)
(* Proofs about StaffOperations: for any number of accounts, of Telegram   *)
(* users and groups and of transactions at a time, whatever staff a        *)
(* behaviour begins with.                                                  *)
(***************************************************************************)
EXTENDS StaffOperations, SequenceTheorems, FiniteSetTheorems, WellFoundedInduction, TLAPS
-----------------------------------------------------------------------------
(* What a transaction is.                                                  *)

Ops == AccountOps \cup TelegramOps \cup DeskOps \cup {"login", "none"}

AllRows == {Admin} \cup ({"account", "invitation", "request", "groupRequest", "member"} \X Accounts)
                   \cup ({"group"} \X Groups)

Args == Roles \cup {"ON", "OFF", "MUTED", "none"} \cup Groups \cup DOMAIN Follows
Saws == States \cup DOMAIN Follows \cup {"none"}

Tasks == [op : Ops, by : Nat, on : Nat, arg : Args, no : Nat,
          todo : Seq(AllRows), has : SUBSET AllRows, saw : Saws]

\* The locks that are still wanted.
Left(t) == ToSet(t.todo)

\* The rows an operation locks, whatever the order.
Rows(t) ==
    CASE t.op \in {"createInvitation", "activateInvitation", "revokeInvitation"} ->
            {Row("account", t.by), Row("invitation", t.on)}
      [] t.op \in {"changeRole", "setActive"} -> {Admin, Row("account", t.by), Row("account", t.on)}
      [] t.op = "bootstrap" -> {Admin, Row("account", t.on)}
      [] t.op \in {"createRequest", "consume"} -> {Row("account", t.on), Row("request", t.on)}
      [] t.op = "revokeRequest" ->
            {Row("account", t.by), Row("account", t.on), Row("request", t.on)}
      [] t.op = "disconnect" ->
            {Row("account", t.by), Row("account", t.on), Row("request", t.on), Member(t.on)}
      [] t.op = "setMember" -> {Row("account", t.by), Row("account", t.on), Member(t.on)}
      [] t.op \in {"createGroupRequest", "revokeGroupRequest"} ->
            {Row("account", t.on), Row("groupRequest", t.on)}
      [] t.op = "consumeGroup" ->
            {Row("account", t.on), Row("groupRequest", t.on), Group(t.arg)}
      [] t.op \in GroupOps -> {Row("account", t.on), Group(t.arg)}
      [] t.op = "assign" /\ t.on # None -> {Row("account", t.on)}
      [] OTHER -> {}

\* The order of locks: accounts by their ids, before everything that belongs to them, unless
\* the operation comes with a token.
Class(op, r) ==
    IF r[1] = "admin" THEN 1
    ELSE IF r[1] = "account" THEN 2
    ELSE IF r[1] \in {"invitation", "request", "groupRequest"} /\ op \in RowsFirst THEN 0
    ELSE IF r[1] \in {"invitation", "request", "groupRequest"} THEN 3 ELSE 4
Before(op, r, q) ==
    Class(op, r) < Class(op, q) \/ (r[1] = "account" /\ q[1] = "account" /\ r[2] < q[2])

Chain(op, s) == \A i, j \in DOMAIN s : i < j => Before(op, s[i], s[j])

InOrder(t) == Chain(t.op, t.todo) /\ \A r \in t.has, q \in Left(t) : Before(t.op, r, q)

\* Who acts on whom, and with what.
Addressed(t) ==
    /\ t.op \notin {"none", "assign", "changeStatus"} => t.on \in Accounts
    /\ t.op \in {"createInvitation", "activateInvitation", "revokeInvitation", "changeRole",
                 "setActive", "revokeRequest", "disconnect", "setMember"} => t.by \in Accounts
    /\ t.op = "createInvitation" => t.arg \in Roles \ {"SUPER_ADMIN"}
    /\ t.op = "changeRole" => t.arg \in Roles
    /\ t.op = "setActive" => t.arg \in {"ON", "OFF"}
    /\ t.op = "setMember" => t.arg \in {"ON", "MUTED"}
    /\ t.op \in GroupOps \cup {"consumeGroup"} => t.arg \in Groups
    /\ t.op = "consume" => t.by \in Users
    /\ t.op = "assign" => t.on \in Accounts \cup {None} /\ t.by \in Accounts \cup {None} /\ t.by # t.on
    /\ t.op = "changeStatus" => t.saw \in DOMAIN Follows /\ t.arg \in Follows[t.saw]

Fit(t) == t \in Tasks /\ Addressed(t) /\ Left(t) \cup t.has = Rows(t) /\ InOrder(t)
-----------------------------------------------------------------------------
(* What a transaction may rely on.                                         *)

\* It has read the accounts under their locks, all of them.
Judged(t) == \A r \in Left(t) : r[1] # "account"

\* What it found is still so.
Sound(t) ==
    /\ t.op = "activateInvitation" =>
          /\ t.no \in 1..invitations[t.on].no
          /\ t.no = invitations[t.on].no => t.by = invitations[t.on].by
          /\ Row("invitation", t.on) \in t.has =>
                t.no = invitations[t.on].no /\ Outstanding(invitations[t.on])
          /\ Judged(t) => MayInvite(t.by, invitations[t.on].role)
    /\ t.op = "changeRole" /\ Judged(t) =>
          /\ Exists(t.on) /\ accounts[t.by].active /\ MayChangeRole(t.by, t.on, t.arg)
          /\ ~ (LastSuperAdmin(t.on) /\ t.arg # "SUPER_ADMIN")
    /\ t.op = "setActive" /\ Judged(t) =>
          /\ Exists(t.on) /\ accounts[t.by].active /\ MayManageTarget(t.by, t.on)
          /\ accounts[t.on].active # (t.arg = "ON")
          /\ ~ (t.arg = "OFF" /\ LastSuperAdmin(t.on))
    /\ t.op = "bootstrap" =>
          /\ Admin \in t.has => ActiveSuperAdmins = {}
          /\ Judged(t) => accounts[t.on].role = "ADMIN" /\ accounts[t.on].active
    /\ t.op = "consume" =>
          /\ Row("request", t.on) \in t.has =>
                t.no = requests[t.on].no /\ Outstanding(requests[t.on])
          /\ Judged(t) => MayUseOwn(t.on)
    /\ t.op = "consumeGroup" =>
          /\ Row("groupRequest", t.on) \in t.has =>
                t.no = groupRequests[t.on].no /\ Outstanding(groupRequests[t.on])
          /\ Judged(t) => ActorAllowed(t.on) /\ t.by \in Linked(t.on)
    /\ t.op = "assign" /\ t.on # None /\ Judged(t) => accounts[t.on].active
    /\ \A r \in Recipients \cap t.has : t.saw = recipients[r].state

\* A row has one holder.
Exclusive == \A c, d \in Clerks : c # d => clerk[c].has \cap clerk[d].has = {}

Transactions ==
    /\ clerk \in [Clerks -> Tasks] /\ Exclusive
    /\ \A c \in Clerks : Fit(clerk[c]) /\ Sound(clerk[c])
-----------------------------------------------------------------------------
(* The tables.                                                             *)

People == [role : Roles \cup {"NONE"}, active : BOOLEAN]
Progressed == {"NONE", "OPEN", "OVER", "CONSUMED", "REVOKED"}
Ago == [no : Nat, status : Progressed]

InvitationRows == [no : Nat, status : Progressed, by : Accounts \cup {0},
                   role : (Roles \ {"SUPER_ADMIN"}) \cup {"NONE"}]
SessionRows == [status : {"OPEN", "OVER", "REVOKED"}, after : SUBSET Clerks]

PeopleTable == agenda.tokens \in [Accounts -> Nat] /\ accounts \in [Accounts -> People]

InvitationTable ==
    /\ invitations \in [Accounts -> InvitationRows]
    /\ \A a \in Accounts :
          /\ invitations[a].no <= agenda.tokens[a]
          /\ invitations[a].no > 0 => invitations[a].by \in Accounts
          /\ Outstanding(invitations[a]) => invitations[a].role \in Roles

SessionTable ==
    /\ sessions \in [Accounts -> Seq(SessionRows)]
    /\ \A a \in Accounts : Len(sessions[a]) <= agenda.tokens[a]

AccountTables == PeopleTable /\ InvitationTable /\ SessionTable

\* A request that is not dead is newer than those that are.
RequestTable ==
    /\ requests \in [Accounts -> Ago] /\ groupRequests \in [Accounts -> Ago]
    /\ dead \in [Accounts -> Nat]
    /\ \A a \in Accounts :
          /\ requests[a].no <= agenda.tokens[a] /\ groupRequests[a].no <= agenda.tokens[a]
          /\ Outstanding(requests[a]) => dead[a] < requests[a].no

\* A member has one link at a time.
LinkTable ==
    /\ links \in [Users -> [of : Accounts \cup {0}, on : BOOLEAN]]
    /\ \A u \in Users : links[u].on => links[u].of # 0
    /\ \A u, v \in Users : links[u].on /\ links[v].on /\ links[u].of = links[v].of => u = v

RecipientTable ==
    /\ recipients \in [Recipients -> [state : States, chat : Users \cup {0}]]
    /\ RecipientsAreLinked

TelegramTables == RequestTable /\ LinkTable /\ RecipientTable

DeskTables ==
    /\ inquiry \in [status : DOMAIN Follows, at : 0..Latest]
    /\ assignment \in [member : Accounts \cup {None}, at : 0..Latest]

Tables == AccountTables /\ TelegramTables /\ DeskTables

IInv == Tables /\ Transactions
-----------------------------------------------------------------------------
(* Plans: the locks of an operation, in order.                             *)

LEMMA PlanOfOne ==
    ASSUME NEW op, NEW r \in AllRows, NEW s, s = <<r>>
    PROVE  s \in Seq(AllRows) /\ ToSet(s) = {r} /\ Chain(op, s)
  BY DEF ToSet, Chain

LEMMA PlanOfTwo ==
    ASSUME NEW op, NEW r \in AllRows, NEW q \in AllRows, Before(op, r, q), NEW s, s = <<r, q>>
    PROVE  s \in Seq(AllRows) /\ ToSet(s) = {r, q} /\ Chain(op, s)
<1>1. s \in Seq(AllRows) /\ DOMAIN s = {1, 2} /\ s[1] = r /\ s[2] = q
  OBVIOUS
<1> QED
  BY <1>1 DEF ToSet, Chain

LEMMA PlanOfThree ==
    ASSUME NEW op, NEW r \in AllRows, NEW q \in AllRows, NEW p \in AllRows,
           Before(op, r, q), Before(op, r, p), Before(op, q, p), NEW s, s = <<r, q, p>>
    PROVE  s \in Seq(AllRows) /\ ToSet(s) = {r, q, p} /\ Chain(op, s)
<1>1. s \in Seq(AllRows) /\ DOMAIN s = {1, 2, 3} /\ s[1] = r /\ s[2] = q /\ s[3] = p
  OBVIOUS
<1> QED
  BY <1>1 DEF ToSet, Chain

\* Whatever is in s comes before whatever is in t.
Precedes(op, s, t) == \A r \in ToSet(s), q \in ToSet(t) : Before(op, r, q)

LEMMA PlanOfBoth ==
    ASSUME NEW op, NEW s \in Seq(AllRows), NEW t \in Seq(AllRows), Chain(op, s), Chain(op, t),
           Precedes(op, s, t), NEW u, u = s \o t
    PROVE  /\ u \in Seq(AllRows) /\ Chain(op, u)
           /\ \A x : x \in ToSet(u) <=> x \in ToSet(s) \/ x \in ToSet(t)
<1>1. PICK m \in Nat, n \in Nat : m = Len(s) /\ n = Len(t)
  BY LenProperties
<1>2. /\ u \in Seq(AllRows) /\ Len(u) = m + n
      /\ \A i \in 1..m + n : u[i] = IF i <= m THEN s[i] ELSE t[i - m]
  BY <1>1, ConcatProperties
<1>3. DOMAIN s = 1..m /\ DOMAIN t = 1..n /\ DOMAIN u = 1..m + n
  BY <1>1, <1>2, LenProperties
<1>4. \A i \in 1..m : i \in DOMAIN u /\ u[i] = s[i]
  BY <1>2, <1>3
<1>5. \A i \in 1..n : m + i \in DOMAIN u /\ u[m + i] = t[i]
  BY <1>2, <1>3
<1>6. \A i \in DOMAIN u : i \in 1..m \/ \E j \in 1..n : i = m + j
  <2> SUFFICES ASSUME NEW i \in DOMAIN u, i \notin 1..m PROVE \E j \in 1..n : i = m + j
    OBVIOUS
  <2>1. i - m \in 1..n /\ i = m + (i - m)
    BY <1>3
  <2> QED
    BY <2>1
<1>7. ToSet(u) = ToSet(s) \cup ToSet(t)
  <2>1. ASSUME NEW x \in ToSet(u) PROVE x \in ToSet(s) \cup ToSet(t)
    <3>1. PICK i \in DOMAIN u : x = u[i]
      BY DEF ToSet
    <3>2. CASE i \in 1..m
      BY <1>3, <1>4, <3>1, <3>2 DEF ToSet
    <3>3. CASE i \notin 1..m
      <4>1. PICK j \in 1..n : i = m + j
        BY <1>6, <3>3
      <4> QED
        BY <1>3, <1>5, <3>1, <4>1 DEF ToSet
    <3> QED
      BY <3>2, <3>3
  <2>2. ToSet(s) \subseteq ToSet(u)
    BY <1>3, <1>4 DEF ToSet
  <2>3. ToSet(t) \subseteq ToSet(u)
    BY <1>3, <1>5 DEF ToSet
  <2> QED
    BY <2>1, <2>2, <2>3
<1>8. Chain(op, u)
  <2> SUFFICES ASSUME NEW i \in DOMAIN u, NEW j \in DOMAIN u, i < j
               PROVE  Before(op, u[i], u[j])
    BY DEF Chain
  <2>1. CASE j \in 1..m
    <3>1. i \in 1..m
      BY <1>3, <2>1
    <3> QED
      BY <1>3, <1>4, <2>1, <3>1 DEF Chain
  <2>2. CASE i \in 1..m /\ j \notin 1..m
    <3>1. PICK k \in 1..n : j = m + k
      BY <1>6, <2>2
    <3>2. u[i] = s[i] /\ u[j] = t[k]
      BY <1>4, <1>5, <2>2, <3>1
    <3> QED
      BY <1>3, <2>2, <3>2 DEF ToSet, Precedes
  <2>3. CASE i \notin 1..m /\ j \notin 1..m
    <3>1. PICK k \in 1..n, l \in 1..n : i = m + k /\ j = m + l
      BY <1>6, <2>3
    <3>2. k < l
      BY <3>1
    <3> QED
      BY <1>3, <1>5, <3>1, <3>2 DEF Chain
  <2> QED
    BY <2>1, <2>2, <2>3
<1> QED
  BY <1>2, <1>7, <1>8

\* The first lock of a plan is taken.
LEMMA PlanGoesOn ==
    ASSUME NEW op, NEW s \in Seq(AllRows), Chain(op, s), s # << >>, NEW r, r = Head(s),
           NEW b, b = Tail(s)
    PROVE  /\ r \in AllRows /\ b \in Seq(AllRows) /\ Chain(op, b)
           /\ ToSet(s) = ToSet(b) \cup {r} /\ \A q \in ToSet(b) : Before(op, r, q)
<1>1. PICK n \in Nat : n = Len(s)
  BY LenProperties
<1>2. /\ r \in AllRows /\ b \in Seq(AllRows) /\ Len(b) = n - 1
      /\ \A i \in 1..Len(b) : b[i] = s[i + 1]
  BY <1>1, HeadTailProperties
<1>3. n # 0 /\ r = s[1]
  BY <1>1, EmptySeq
<1>4. DOMAIN s = 1..n /\ DOMAIN b = 1..n - 1
  BY <1>1, <1>2, LenProperties
<1>5. \A i \in 1..n - 1 : b[i] = s[i + 1] /\ i + 1 \in 1..n /\ 1 < i + 1
  BY <1>1, <1>2
<1>6. \A i \in 1..n : i = 1 \/ \E j \in 1..n - 1 : i = j + 1
  <2> SUFFICES ASSUME NEW i \in 1..n, i # 1 PROVE \E j \in 1..n - 1 : i = j + 1
    OBVIOUS
  <2>1. i - 1 \in 1..n - 1 /\ i = (i - 1) + 1
    OBVIOUS
  <2> QED
    BY <2>1
<1>7. 1 \in 1..n
  BY <1>3
<1>8. ToSet(s) = ToSet(b) \cup {r}
  <2>1. ASSUME NEW x \in ToSet(s) PROVE x \in ToSet(b) \cup {r}
    <3>1. PICK i \in 1..n : x = s[i]
      BY <1>4 DEF ToSet
    <3>2. CASE i = 1
      BY <1>3, <3>1, <3>2
    <3>3. CASE i # 1
      <4>1. PICK j \in 1..n - 1 : i = j + 1
        BY <1>6, <3>3
      <4> QED
        BY <1>4, <1>5, <3>1, <4>1 DEF ToSet
    <3> QED
      BY <3>2, <3>3
  <2>2. ToSet(b) \subseteq ToSet(s)
    BY <1>4, <1>5 DEF ToSet
  <2>3. r \in ToSet(s)
    BY <1>3, <1>4, <1>7 DEF ToSet
  <2> QED
    BY <2>1, <2>2, <2>3
<1>9. \A q \in ToSet(b) : Before(op, r, q)
  BY <1>3, <1>4, <1>5, <1>7 DEF ToSet, Chain
<1>10. Chain(op, b)
  <2> SUFFICES ASSUME NEW i \in DOMAIN b, NEW j \in DOMAIN b, i < j
               PROVE  Before(op, b[i], b[j])
    BY DEF Chain
  <2>1. /\ i + 1 \in DOMAIN s /\ j + 1 \in DOMAIN s /\ i + 1 < j + 1
        /\ b[i] = s[i + 1] /\ b[j] = s[j + 1]
    BY <1>4, <1>5
  <2> QED
    BY <2>1 DEF Chain
<1> QED
  BY <1>2, <1>8, <1>9, <1>10
-----------------------------------------------------------------------------
(* A transaction takes a lock.                                             *)

Locked(t, saw) == [t EXCEPT !.todo = Tail(t.todo), !.has = t.has \cup {Head(t.todo)}, !.saw = saw]

LEMMA Taking ==
    ASSUME NEW t, Fit(t), t.todo # << >>, NEW r, r = Head(t.todo), NEW saw \in Saws,
           t.op # "changeStatus",
           NEW u, u = Locked(t, saw)
    PROVE  /\ Fit(u) /\ r \in Rows(t) /\ r \in AllRows
           /\ u.op = t.op /\ u.by = t.by /\ u.on = t.on /\ u.arg = t.arg /\ u.no = t.no
           /\ u.has = t.has \cup {r} /\ u.saw = saw /\ Left(t) = Left(u) \cup {r}
<1>1. PICK s, b, op, h : s = t.todo /\ b = Tail(s) /\ op = t.op /\ h = t.has \cup {r}
  OBVIOUS
<1>2. /\ s \in Seq(AllRows) /\ Chain(op, s) /\ s # << >> /\ r = Head(s)
      /\ t \in Tasks /\ t.has \in SUBSET AllRows
  BY <1>1 DEF Fit, Tasks, InOrder
<1>3. /\ r \in AllRows /\ b \in Seq(AllRows) /\ Chain(op, b)
      /\ ToSet(s) = ToSet(b) \cup {r} /\ \A q \in ToSet(b) : Before(op, r, q)
  <2>1. s \in Seq(AllRows) /\ Chain(op, s) /\ s # << >> /\ r = Head(s) /\ b = Tail(s)
    BY <1>1, <1>2
  <2>2. r \in AllRows /\ b \in Seq(AllRows)
    BY ONLY <2>1, PlanGoesOn
  <2>3. Chain(op, b)
    BY ONLY <2>1, PlanGoesOn
  <2>4. ToSet(s) = ToSet(b) \cup {r}
    BY ONLY <2>1, PlanGoesOn
  <2>5. \A q \in ToSet(b) : Before(op, r, q)
    BY ONLY <2>1, PlanGoesOn
  <2> QED
    BY <2>2, <2>3, <2>4, <2>5
<1>4. /\ u = [op |-> t.op, by |-> t.by, on |-> t.on, arg |-> t.arg, no |-> t.no,
               todo |-> b, has |-> h, saw |-> saw]
      /\ h \in SUBSET AllRows
  BY <1>1, <1>2, <1>3 DEF Tasks, Locked
<1>5. /\ u \in Tasks /\ u.todo = b /\ u.has = t.has \cup {r} /\ u.saw = saw
      /\ u.op = t.op /\ u.by = t.by /\ u.on = t.on /\ u.arg = t.arg /\ u.no = t.no
  <2>1. u \in Tasks
    BY <1>2, <1>3, <1>4 DEF Tasks
  <2> QED
    BY <1>1, <1>4, <2>1
<1>6. Left(t) = Left(u) \cup {r} /\ Left(u) = ToSet(b) /\ Left(t) = ToSet(s)
  BY <1>1, <1>3, <1>5 DEF Left
<1>7. Rows(u) = Rows(t)
  BY <1>5 DEF Rows
<1>8. Left(u) \cup u.has = Rows(u) /\ r \in Rows(t)
  BY <1>5, <1>6, <1>7 DEF Fit
<1>9. InOrder(u)
  <2>1. \A q \in Left(u) : q \in Left(t) /\ Before(op, r, q)
    BY <1>3, <1>6
  <2>2. \A p \in t.has, q \in Left(t) : Before(op, p, q)
    BY <1>1 DEF InOrder, Fit
  <2>3. \A p \in u.has : p \in t.has \/ p = r
    BY <1>5
  <2>4. \A p \in u.has, q \in Left(u) : Before(op, p, q)
    BY <2>1, <2>2, <2>3
  <2>5. u.op = op /\ Chain(op, u.todo)
    BY <1>1, <1>3, <1>5
  <2> QED
    BY <2>4, <2>5 DEF InOrder
<1>10. Addressed(u)
  BY <1>5 DEF Addressed, Fit
<1> QED
  BY <1>3, <1>5, <1>6, <1>8, <1>9, <1>10 DEF Fit
-----------------------------------------------------------------------------
(* What a transaction relies on stays so while others leave its rows alone. *)

SameToken(x, y) == y.no = x.no /\ (Outstanding(x) => Outstanding(y))

\* Nothing of the rows in H is disturbed.
Undisturbed(H) ==
    /\ \A a \in Accounts :
          /\ Row("account", a) \in H =>
                /\ Exists(a) => accounts'[a] = accounts[a]
                /\ accounts[a].active => accounts'[a].active
                /\ Linked(a) \subseteq Linked(a)'
          /\ Row("invitation", a) \in H => SameToken(invitations[a], invitations'[a])
          /\ Row("request", a) \in H => SameToken(requests[a], requests'[a])
          /\ Row("groupRequest", a) \in H => SameToken(groupRequests[a], groupRequests'[a])
    /\ Admin \in H => ActiveSuperAdmins' = ActiveSuperAdmins
    /\ \A r \in Recipients \cap H : recipients'[r].state = recipients[r].state

\* An invitation keeps what it says, a new one has a higher number.
Issued == \A a \in Accounts :
    /\ invitations[a].no \in Nat /\ invitations'[a].no \in Nat /\ invitations[a].no <= invitations'[a].no
    /\ invitations'[a].no = invitations[a].no =>
          invitations'[a].by = invitations[a].by /\ invitations'[a].role = invitations[a].role

LEMMA Kinds ==
    /\ \A k, x : Row(k, x) = <<k, x>> /\ Row(k, x)[1] = k /\ Row(k, x)[2] = x
    /\ Admin = <<"admin", 0>> /\ Admin[1] = "admin"
    /\ \A x : Member(x) = Row("member", x) /\ Group(x) = Row("group", x)
  BY DEF Row, Admin, Member, Group

LEMMA HoldsAccounts ==
    ASSUME NEW t, Fit(t), Judged(t), NEW a, Row("account", a) \in Rows(t)
    PROVE  Row("account", a) \in t.has
  BY Kinds DEF Fit, Judged

\* What comes before the accounts is held when they are.
LEMMA HoldsEarlier ==
    ASSUME NEW t, Fit(t), Judged(t), NEW a, Row("account", a) \in Rows(t),
           NEW r, r \in Rows(t), Class(t.op, r) \in {0, 1}
    PROVE  r \in t.has
<1>1. Row("account", a) \in t.has
  BY HoldsAccounts
<1>2. SUFFICES ASSUME r \in Left(t) PROVE FALSE
  BY DEF Fit
<1>3. Before(t.op, Row("account", a), r)
  BY <1>1, <1>2 DEF Fit, InOrder
<1>4. Row("account", a)[1] = "account"
  BY Kinds
<1>5. Class(t.op, Row("account", a)) = 2
  BY <1>4 DEF Class
<1>6. r[1] # "account"
  BY DEF Class
<1> QED
  BY <1>3, <1>5, <1>6 DEF Before

LEMMA Stable ==
    ASSUME NEW t, Fit(t), Sound(t), Undisturbed(t.has), Issued
    PROVE  Sound(t)'
<1>1. CASE t.op = "activateInvitation"
  <2>1. t.on \in Accounts /\ t.by \in Accounts
    BY <1>1 DEF Fit, Addressed
  <2>2. Rows(t) = {Row("account", t.by), Row("invitation", t.on)}
    BY <1>1 DEF Rows, GroupOps
  <2>3. /\ t.no \in 1..invitations[t.on].no
        /\ t.no = invitations[t.on].no => t.by = invitations[t.on].by
        /\ Row("invitation", t.on) \in t.has =>
              t.no = invitations[t.on].no /\ Outstanding(invitations[t.on])
        /\ Judged(t) => MayInvite(t.by, invitations[t.on].role)
    BY <1>1 DEF Sound
  <2>4. /\ invitations[t.on].no \in Nat /\ invitations'[t.on].no \in Nat
        /\ invitations[t.on].no <= invitations'[t.on].no
        /\ invitations'[t.on].no = invitations[t.on].no =>
              invitations'[t.on].by = invitations[t.on].by /\ invitations'[t.on].role = invitations[t.on].role
    BY <2>1 DEF Issued
  <2>5. /\ t.no \in 1..invitations'[t.on].no
        /\ t.no = invitations'[t.on].no => t.by = invitations'[t.on].by
    BY <2>3, <2>4
  <2>6. ASSUME Row("invitation", t.on) \in t.has
        PROVE  /\ invitations'[t.on].no = invitations[t.on].no
               /\ t.no = invitations'[t.on].no /\ Outstanding(invitations'[t.on])
    BY <2>1, <2>3, <2>6 DEF Undisturbed, SameToken
  <2>7. ASSUME Judged(t)
        PROVE  MayInvite(t.by, invitations[t.on].role)'
    <3>1. Row("account", t.by) \in Rows(t) /\ Row("invitation", t.on) \in Rows(t)
      BY <2>2
    <3>2. Class(t.op, Row("invitation", t.on)) = 0
      BY <1>1, Kinds DEF Class, RowsFirst
    <3>3. Row("account", t.by) \in t.has
      BY <2>7, <3>1, HoldsAccounts
    <3>4. Row("invitation", t.on) \in t.has
      BY <2>7, <3>1, <3>2, HoldsEarlier
    <3>5. invitations'[t.on].role = invitations[t.on].role
      BY <2>4, <2>6, <3>4
    <3>6. MayInvite(t.by, invitations[t.on].role)
      BY <2>3, <2>7
    <3>7. accounts'[t.by] = accounts[t.by]
      BY <2>1, <3>3, <3>6 DEF Undisturbed, MayInvite, MayManageTeam, Exists
    <3> QED
      BY <3>5, <3>6, <3>7 DEF MayInvite, MayManageTeam
  <2>8. t.has \cap Recipients = {}
    BY <2>2, Kinds DEF Fit, Recipients
  <2> QED
    BY <1>1, <2>5, <2>6, <2>7, <2>8 DEF Sound
<1>2. CASE t.op \in {"changeRole", "setActive"}
  <2>1. t.on \in Accounts /\ t.by \in Accounts
    BY <1>2 DEF Fit, Addressed
  <2>2. Rows(t) = {Admin, Row("account", t.by), Row("account", t.on)}
    BY <1>2 DEF Rows, GroupOps
  <2>3. t.has \cap Recipients = {}
    BY <2>2, Kinds DEF Fit, Recipients
  <2>4. ASSUME Judged(t)
        PROVE  /\ Row("account", t.by) \in t.has /\ Row("account", t.on) \in t.has
               /\ ActiveSuperAdmins' = ActiveSuperAdmins
    <3>1. /\ Row("account", t.by) \in t.has /\ Row("account", t.on) \in t.has
      BY <2>2, <2>4, HoldsAccounts
    <3>2. Class(t.op, Admin) = 1
      BY Kinds DEF Class
    <3>3. Admin \in t.has
      BY <2>2, <2>4, <3>2, HoldsEarlier
    <3> QED
      BY <3>1, <3>3 DEF Undisturbed
  <2>5. ASSUME t.op = "changeRole", Judged(t)
        PROVE  (/\ Exists(t.on) /\ accounts[t.by].active /\ MayChangeRole(t.by, t.on, t.arg)
                /\ ~ (LastSuperAdmin(t.on) /\ t.arg # "SUPER_ADMIN"))'
    <3>1. /\ Exists(t.on) /\ accounts[t.by].active /\ MayChangeRole(t.by, t.on, t.arg)
          /\ ~ (LastSuperAdmin(t.on) /\ t.arg # "SUPER_ADMIN")
      BY <2>5 DEF Sound
    <3>2. accounts'[t.on] = accounts[t.on] /\ accounts'[t.by] = accounts[t.by]
      BY <2>1, <2>4, <2>5, <3>1 DEF Undisturbed, MayChangeRole, MayManageTarget, MayManageTeam, Exists
    <3>3. (Exists(t.on) /\ accounts[t.by].active /\ MayChangeRole(t.by, t.on, t.arg))'
      BY <3>1, <3>2 DEF MayChangeRole, MayManageTarget, MayManageTeam, Exists
    <3> QED
      BY <2>4, <2>5, <3>1, <3>3 DEF LastSuperAdmin
  <2>6. ASSUME t.op = "setActive", Judged(t)
        PROVE  (/\ Exists(t.on) /\ accounts[t.by].active /\ MayManageTarget(t.by, t.on)
                /\ accounts[t.on].active # (t.arg = "ON")
                /\ ~ (t.arg = "OFF" /\ LastSuperAdmin(t.on)))'
    <3>1. /\ Exists(t.on) /\ accounts[t.by].active /\ MayManageTarget(t.by, t.on)
          /\ accounts[t.on].active # (t.arg = "ON")
          /\ ~ (t.arg = "OFF" /\ LastSuperAdmin(t.on))
      BY <2>6 DEF Sound
    <3>2. accounts'[t.on] = accounts[t.on] /\ accounts'[t.by] = accounts[t.by]
      BY <2>1, <2>4, <2>6, <3>1 DEF Undisturbed, MayManageTarget, MayManageTeam, Exists
    <3>3. (Exists(t.on) /\ accounts[t.by].active /\ MayManageTarget(t.by, t.on))'
      BY <3>1, <3>2 DEF MayManageTarget, MayManageTeam, Exists
    <3>4. accounts'[t.on].active # (t.arg = "ON")
      BY <3>1, <3>2
    <3> QED
      BY <2>4, <2>6, <3>1, <3>3, <3>4 DEF LastSuperAdmin
  <2> QED
    BY <1>2, <2>3, <2>5, <2>6 DEF Sound
<1>3. CASE t.op = "bootstrap"
  <2>1. t.on \in Accounts
    BY <1>3 DEF Fit, Addressed
  <2>2. Rows(t) = {Admin, Row("account", t.on)}
    BY <1>3 DEF Rows, GroupOps
  <2>3. t.has \cap Recipients = {}
    BY <2>2, Kinds DEF Fit, Recipients
  <2>4. Admin \in t.has => ActiveSuperAdmins' = {}
    BY <1>3 DEF Sound, Undisturbed
  <2>5. ASSUME Judged(t)
        PROVE  accounts'[t.on].role = "ADMIN" /\ accounts'[t.on].active
    <3>1. Row("account", t.on) \in t.has
      BY <2>2, <2>5, HoldsAccounts
    <3>2. accounts[t.on].role = "ADMIN" /\ accounts[t.on].active
      BY <1>3, <2>5 DEF Sound
    <3>3. accounts'[t.on] = accounts[t.on]
      BY <2>1, <3>1, <3>2 DEF Undisturbed, Exists
    <3> QED
      BY <3>2, <3>3
  <2> QED
    BY <1>3, <2>3, <2>4, <2>5 DEF Sound
<1>4. CASE t.op = "consume"
  <2>1. t.on \in Accounts
    BY <1>4 DEF Fit, Addressed
  <2>2. Rows(t) = {Row("account", t.on), Row("request", t.on)}
    BY <1>4 DEF Rows, GroupOps
  <2>3. t.has \cap Recipients = {}
    BY <2>2, Kinds DEF Fit, Recipients
  <2>4. ASSUME Row("request", t.on) \in t.has
        PROVE  t.no = requests'[t.on].no /\ Outstanding(requests'[t.on])
    BY <1>4, <2>1, <2>4 DEF Sound, Undisturbed, SameToken
  <2>5. ASSUME Judged(t)
        PROVE  MayUseOwn(t.on)'
    <3>1. Row("account", t.on) \in t.has
      BY <2>2, <2>5, HoldsAccounts
    <3>2. MayUseOwn(t.on)
      BY <1>4, <2>5 DEF Sound
    <3>3. accounts'[t.on] = accounts[t.on]
      BY <2>1, <3>1, <3>2 DEF Undisturbed, MayUseOwn
    <3> QED
      BY <3>2, <3>3 DEF MayUseOwn, Exists
  <2> QED
    BY <1>4, <2>3, <2>4, <2>5 DEF Sound
<1>5. CASE t.op = "consumeGroup"
  <2>1. t.on \in Accounts
    BY <1>5 DEF Fit, Addressed
  <2>2. Rows(t) = {Row("account", t.on), Row("groupRequest", t.on), Group(t.arg)}
    BY <1>5 DEF Rows, GroupOps
  <2>3. \A r \in Recipients \cap t.has : t.saw = recipients'[r].state
    BY DEF Sound, Undisturbed
  <2>4. ASSUME Row("groupRequest", t.on) \in t.has
        PROVE  t.no = groupRequests'[t.on].no /\ Outstanding(groupRequests'[t.on])
    BY <1>5, <2>1, <2>4 DEF Sound, Undisturbed, SameToken
  <2>5. ASSUME Judged(t)
        PROVE  ActorAllowed(t.on)' /\ t.by \in Linked(t.on)'
    <3>1. Row("account", t.on) \in t.has
      BY <2>2, <2>5, HoldsAccounts
    <3>2. ActorAllowed(t.on) /\ t.by \in Linked(t.on)
      BY <1>5, <2>5 DEF Sound
    <3>3. accounts'[t.on] = accounts[t.on] /\ Linked(t.on) \subseteq Linked(t.on)'
      BY <2>1, <3>1, <3>2 DEF Undisturbed, ActorAllowed
    <3> QED
      BY <3>2, <3>3 DEF ActorAllowed, Exists, MayManageTeam
  <2> QED
    BY <1>5, <2>3, <2>4, <2>5 DEF Sound
<1>6. CASE t.op = "assign"
  <2>1. \A r \in Recipients \cap t.has : t.saw = recipients'[r].state
    BY DEF Sound, Undisturbed
  <2>2. ASSUME t.on # None, Judged(t)
        PROVE  accounts'[t.on].active
    <3>1. t.on \in Accounts /\ Rows(t) = {Row("account", t.on)}
      BY <1>6, <2>2 DEF Fit, Addressed, Rows, GroupOps
    <3>2. Row("account", t.on) \in t.has
      BY <2>2, <3>1, HoldsAccounts
    <3>3. accounts[t.on].active
      BY <1>6, <2>2 DEF Sound
    <3> QED
      BY <3>1, <3>2, <3>3 DEF Undisturbed
  <2> QED
    BY <1>6, <2>1, <2>2 DEF Sound
<1>7. CASE t.op \notin {"activateInvitation", "changeRole", "setActive", "bootstrap", "consume",
                        "consumeGroup", "assign"}
  <2>1. \A r \in Recipients \cap t.has : t.saw = recipients'[r].state
    BY DEF Sound, Undisturbed
  <2> QED
    BY <1>7, <2>1 DEF Sound
<1> QED
  BY <1>1, <1>2, <1>3, <1>4, <1>5, <1>6, <1>7
-----------------------------------------------------------------------------
(* One transaction moves.                                                  *)

\* The others are as they were.
LEMMA OneMoves ==
    ASSUME Transactions, Issued, NEW c \in Clerks, NEW u, clerk' = [clerk EXCEPT ![c] = u],
           Fit(u), Sound(u)',
           \A r \in u.has : r \in clerk[c].has \/ ~ Held(r),
           \A d \in Clerks \ {c} : Undisturbed(clerk[d].has)
    PROVE  Transactions'
<1>1. /\ clerk \in [Clerks -> Tasks] /\ clerk'[c] = u
      /\ \A d \in Clerks : d # c => clerk'[d] = clerk[d]
  BY DEF Transactions
<1>2. clerk' \in [Clerks -> Tasks]
  BY <1>1 DEF Fit
<1>3. Exclusive'
  <2>1. \A d \in Clerks : d # c => u.has \cap clerk[d].has = {}
    BY DEF Transactions, Exclusive, Held
  <2> QED
    BY <1>1, <2>1 DEF Transactions, Exclusive
<1>4. ASSUME NEW d \in Clerks
      PROVE  Fit(clerk'[d]) /\ Sound(clerk[d])'
  <2>1. CASE d = c
    <3>1. Sound(clerk[d])' <=> Sound(u)'
      BY <1>1, <2>1 DEF Sound
    <3> QED
      BY <1>1, <2>1, <3>1
  <2>2. CASE d # c
    <3>1. PICK t : t = clerk[d]
      OBVIOUS
    <3>2. clerk'[d] = t /\ Fit(t) /\ Sound(t) /\ Undisturbed(t.has)
      BY <1>1, <2>2, <3>1 DEF Transactions
    <3>3. Sound(t)'
      BY <3>2, Stable
    <3>4. Sound(clerk[d])' <=> Sound(t)'
      BY <3>2 DEF Sound
    <3> QED
      BY <3>2, <3>3, <3>4
  <2> QED
    BY <2>1, <2>2
<1> QED
  BY <1>2, <1>3, <1>4 DEF Transactions

\* Nobody moves, a row changes that nobody has.
LEMMA NobodyMoves ==
    ASSUME Transactions, Issued, clerk' = clerk, \A d \in Clerks : Undisturbed(clerk[d].has)
    PROVE  Transactions'
<1>1. ASSUME NEW d \in Clerks
      PROVE  Sound(clerk[d])'
  <2>1. PICK t : t = clerk[d]
    OBVIOUS
  <2>2. Fit(t) /\ Sound(t) /\ Undisturbed(t.has)
    BY <2>1 DEF Transactions
  <2>3. Sound(t)'
    BY <2>2, Stable
  <2> QED
    BY <2>1, <2>3 DEF Sound
<1> QED
  BY <1>1 DEF Transactions, Exclusive

LEMMA IdleFits == Fit(Idle) /\ Sound(Idle) /\ Sound(Idle)' /\ Idle.has = {} /\ Idle.op = "none"
<1>1. << >> \in Seq(AllRows) /\ ToSet(<< >>) = {} /\ DOMAIN << >> = {}
  BY EmptySeq DEF ToSet
<1>2. /\ Idle.op = "none" /\ Idle.todo = << >> /\ Idle.has = {} /\ Idle.saw = "none" /\ Idle.arg = "none"
      /\ Idle.by = 0 /\ Idle.on = 0 /\ Idle.no = 0
  BY DEF Idle
<1>3. Idle \in Tasks
  BY <1>1 DEF Idle, Tasks, Ops, Args, Saws
<1>4. Left(Idle) = {} /\ Rows(Idle) = {} /\ InOrder(Idle) /\ Addressed(Idle)
  BY <1>1, <1>2 DEF Left, Rows, InOrder, Chain, Addressed, GroupOps
<1> QED
  BY <1>2, <1>3, <1>4 DEF Fit, Sound

\* A transaction ends, with whatever it wrote.
LEMMA OneEnds ==
    ASSUME Transactions, Issued, NEW c \in Clerks, Ends(c),
           \A d \in Clerks \ {c} : Undisturbed(clerk[d].has)
    PROVE  Transactions'
<1>1. clerk' = [clerk EXCEPT ![c] = Idle]
  BY DEF Ends
<1>2. PICK u : u = Idle
  OBVIOUS
<1>3. Fit(u) /\ Sound(u)' /\ u.has = {}
  BY <1>2, IdleFits
<1> QED
  BY <1>1, <1>2, <1>3, OneMoves

\* What nobody writes nobody disturbs.
LEMMA NothingDisturbed ==
    ASSUME AccountTables, UNCHANGED <<accounts, requests, groupRequests, links, recipients>>,
           \A a \in Accounts : /\ invitations'[a].no = invitations[a].no
                               /\ invitations'[a].by = invitations[a].by
                               /\ invitations'[a].role = invitations[a].role
                               /\ Outstanding(invitations[a]) => Outstanding(invitations'[a])
    PROVE  Issued /\ \A H : Undisturbed(H)
<1>1. Issued
  BY DEF Issued, AccountTables, PeopleTable, InvitationTable, InvitationRows
<1>2. ActiveSuperAdmins' = ActiveSuperAdmins /\ \A a : Linked(a)' = Linked(a)
  BY DEF ActiveSuperAdmins, Linked
<1>3. ASSUME NEW H
      PROVE  Undisturbed(H)
  BY <1>2 DEF Undisturbed, SameToken
<1> QED
  BY <1>1, <1>3
-----------------------------------------------------------------------------
(* A transaction begins.                                                   *)

Fresh(op, by, on, arg, no, plan) ==
    [op |-> op, by |-> by, on |-> on, arg |-> arg, no |-> no, todo |-> plan, has |-> {}, saw |-> "none"]

LEMMA Beginning ==
    ASSUME IInv, UNCHANGED <<accounts, invitations, requests, groupRequests, links, recipients>>,
           NEW c \in Clerks, NEW op, NEW by, NEW on, NEW arg, NEW no, NEW plan, Begin(c, op, by, on, arg, no, plan),
           NEW u, u = Fresh(op, by, on, arg, no, plan),
           op \in Ops, by \in Nat, on \in Nat, arg \in Args, no \in Nat,
           plan \in Seq(AllRows), Chain(op, plan), ToSet(plan) = Rows(u), Addressed(u), Sound(u)
    PROVE  Transactions'
<1>1. /\ u.op = op /\ u.by = by /\ u.on = on /\ u.arg = arg /\ u.no = no /\ u.todo = plan
      /\ u.has = {} /\ u.saw = "none"
  BY DEF Fresh
<1>2. u \in Tasks
  BY DEF Fresh, Tasks, Saws
<1>3. Left(u) = ToSet(plan) /\ InOrder(u)
  BY <1>1 DEF Left, InOrder
<1>4. Fit(u)
  BY <1>1, <1>2, <1>3 DEF Fit
<1>5. Issued /\ \A H : Undisturbed(H)
  BY NothingDisturbed DEF IInv, Tables
<1>6. Sound(u)'
  BY <1>4, <1>5, Stable
<1>7. clerk' = [clerk EXCEPT ![c] = u]
  BY DEF Begin, Fresh
<1> QED
  BY <1>1, <1>4, <1>5, <1>6, <1>7, OneMoves DEF IInv

LEMMA Classes ==
    ASSUME NEW op
    PROVE  /\ Class(op, Admin) = 1
           /\ \A a : Class(op, Row("account", a)) = 2 /\ Class(op, Row("member", a)) = 4
                     /\ Class(op, Row("group", a)) = 4 /\ Class(op, Member(a)) = 4 /\ Class(op, Group(a)) = 4
           /\ \A a : /\ Class(op, Row("invitation", a)) = IF op \in RowsFirst THEN 0 ELSE 3
                     /\ Class(op, Row("request", a)) = IF op \in RowsFirst THEN 0 ELSE 3
                     /\ Class(op, Row("groupRequest", a)) = IF op \in RowsFirst THEN 0 ELSE 3
  BY Kinds DEF Class

LEMMA RowsKnown ==
    /\ Admin \in AllRows
    /\ \A a \in Accounts : /\ Row("account", a) \in AllRows /\ Row("invitation", a) \in AllRows
                           /\ Row("request", a) \in AllRows /\ Row("groupRequest", a) \in AllRows
                           /\ Member(a) \in AllRows
    /\ \A g \in Groups : Group(g) \in AllRows
  BY Kinds DEF AllRows, Row, Member, Group

LEMMA IdentitiesInOrder ==
    ASSUME NEW op, NEW a \in Accounts, NEW b \in Accounts, NEW s, s = Identities(a, b)
    PROVE  /\ s \in Seq(AllRows) /\ Chain(op, s)
           /\ ToSet(s) = {Row("account", a), Row("account", b)}
<1>1. PICK r, q : r = Row("account", a) /\ q = Row("account", b)
  OBVIOUS
<1>2. r \in AllRows /\ q \in AllRows /\ a \in Nat /\ b \in Nat
  BY <1>1, RowsKnown, StaffAssumption DEF StaffAssumption
<1>3. (a < b => Before(op, r, q)) /\ (b < a => Before(op, q, r))
  BY <1>1, Kinds DEF Before
<1>4. CASE a = b
  <2>1. s = <<r>> /\ r = q
    BY <1>1, <1>4 DEF Identities
  <2>2. s \in Seq(AllRows) /\ ToSet(s) = {r} /\ Chain(op, s)
    BY <1>2, <2>1, PlanOfOne
  <2> QED
    BY <1>1, <2>1, <2>2
<1>5. CASE a < b
  <2>1. s = <<r, q>>
    BY <1>1, <1>2, <1>5 DEF Identities
  <2>2. s \in Seq(AllRows) /\ ToSet(s) = {r, q} /\ Chain(op, s)
    BY <1>2, <1>3, <1>5, <2>1, PlanOfTwo
  <2> QED
    BY <1>1, <2>2
<1>6. CASE b < a
  <2>1. s = <<q, r>>
    BY <1>1, <1>2, <1>6 DEF Identities
  <2>2. s \in Seq(AllRows) /\ ToSet(s) = {q, r} /\ Chain(op, s)
    BY <1>2, <1>3, <1>6, <2>1, PlanOfTwo
  <2> QED
    BY <1>1, <2>2
<1> QED
  BY <1>2, <1>4, <1>5, <1>6

\* Whoever has no lock yet relies on nothing.
LEMMA FreshRelies ==
    ASSUME NEW op, NEW by, NEW on, NEW arg, NEW no, NEW plan, NEW u, u = Fresh(op, by, on, arg, no, plan),
           op # "activateInvitation",
           op \in {"changeRole", "setActive", "bootstrap", "consume", "consumeGroup"}
              \/ (op = "assign" /\ on # None) => \E a : Row("account", a) \in ToSet(plan)
    PROVE  Sound(u)
<1>1. u.op = op /\ u.on = on /\ u.has = {} /\ u.todo = plan
  BY DEF Fresh
<1>2. (\E a : Row("account", a) \in ToSet(plan)) => ~ Judged(u)
  BY <1>1, Kinds DEF Judged, Left
<1> QED
  BY <1>1, <1>2 DEF Sound

\* The numbers of accounts and Telegram users.
LEMMA Numbers == /\ \A a \in Accounts : a \in Nat /\ a # 0
                 /\ \A u \in Users : u \in Nat
                 /\ 0 \in Nat /\ "none" \in Args
  BY StaffAssumption, TelegramAssumption DEF StaffAssumption, TelegramAssumption, Args

LEMMA BeginInvitationKept ==
    ASSUME IInv, UNCHANGED <<accounts, invitations, requests, groupRequests, links, recipients>>,
           NEW c \in Clerks, BeginInvitation(c)
    PROVE  Transactions'
<1>1. PICK by \in Accounts, on \in Accounts, role \in Roles \ {"SUPER_ADMIN"} :
         Begin(c, "createInvitation", by, on, role, 0, <<Row("account", by), Row("invitation", on)>>)
  BY DEF BeginInvitation
<1>2. PICK op, plan : op = "createInvitation" /\ plan = <<Row("account", by), Row("invitation", on)>>
  OBVIOUS
<1>3. PICK u : u = Fresh(op, by, on, role, 0, plan)
  OBVIOUS
<1>4. Before(op, Row("account", by), Row("invitation", on))
  BY <1>2, Classes DEF Before, RowsFirst
<1>5. plan \in Seq(AllRows) /\ ToSet(plan) = {Row("account", by), Row("invitation", on)} /\ Chain(op, plan)
  BY <1>2, <1>4, RowsKnown, PlanOfTwo
<1>6. u.op = op /\ u.by = by /\ u.on = on /\ u.arg = role
  BY <1>3 DEF Fresh
<1>7. ToSet(plan) = Rows(u) /\ Addressed(u)
  BY <1>2, <1>5, <1>6 DEF Rows, Addressed, GroupOps
<1>8. Sound(u)
  BY <1>2, <1>3, FreshRelies
<1>9. op \in Ops /\ by \in Nat /\ on \in Nat /\ role \in Args /\ 0 \in Nat
  BY <1>2, Numbers DEF Ops, AccountOps, Args
<1>10. Begin(c, op, by, on, role, 0, plan)
  BY <1>1, <1>2
<1> QED
  BY <1>3, <1>5, <1>7, <1>8, <1>9, <1>10, Beginning

LEMMA BeginActivationKept ==
    ASSUME IInv, UNCHANGED <<accounts, invitations, requests, groupRequests, links, recipients>>,
           NEW c \in Clerks, BeginActivation(c)
    PROVE  Transactions'
<1>1. PICK on, no :
         /\ on \in Accounts /\ no \in 1..invitations[on].no
         /\ Begin(c, "activateInvitation", invitations[on].by, on, "none", no,
                  <<Row("invitation", on), Row("account", invitations[on].by)>>)
  BY DEF BeginActivation
<1>2. PICK op, by, arg, plan : /\ op = "activateInvitation" /\ by = invitations[on].by /\ arg = "none"
                               /\ plan = <<Row("invitation", on), Row("account", by)>>
  OBVIOUS
<1>3. PICK u : u = Fresh(op, by, on, arg, no, plan)
  OBVIOUS
<1>4. invitations[on].no \in Nat /\ by \in Accounts /\ no \in Nat /\ on \in Accounts
  BY <1>1, <1>2 DEF IInv, Tables, AccountTables, PeopleTable, InvitationTable, InvitationRows
<1>5. Before(op, Row("invitation", on), Row("account", by))
  BY <1>2, Classes DEF Before, RowsFirst
<1>6. plan \in Seq(AllRows) /\ ToSet(plan) = {Row("invitation", on), Row("account", by)} /\ Chain(op, plan)
  BY <1>2, <1>4, <1>5, RowsKnown, PlanOfTwo
<1>7. /\ u.op = op /\ u.by = by /\ u.on = on /\ u.arg = arg /\ u.no = no /\ u.todo = plan
      /\ u.has = {}
  BY <1>3 DEF Fresh
<1>8. ToSet(plan) = Rows(u) /\ Addressed(u)
  BY <1>2, <1>4, <1>6, <1>7 DEF Rows, Addressed, GroupOps
<1>9. ~ Judged(u)
  BY <1>6, <1>7, Kinds DEF Judged, Left
<1>10. Sound(u)
  BY <1>1, <1>2, <1>7, <1>9 DEF Sound
<1>11. op \in Ops /\ by \in Nat /\ on \in Nat /\ arg \in Args /\ no \in Nat
  BY <1>2, <1>4, Numbers DEF Ops, AccountOps
<1>12. Begin(c, op, by, on, arg, no, plan)
  BY <1>1, <1>2
<1> QED
  BY <1>3, <1>6, <1>8, <1>10, <1>11, <1>12, Beginning

LEMMA BeginRevocationKept ==
    ASSUME IInv, UNCHANGED <<accounts, invitations, requests, groupRequests, links, recipients>>,
           NEW c \in Clerks, BeginRevocation(c)
    PROVE  Transactions'
<1>1. PICK by \in Accounts, on \in Accounts :
         Begin(c, "revokeInvitation", by, on, "none", invitations[on].no,
               <<Row("invitation", on), Row("account", by)>>)
  BY DEF BeginRevocation
<1>2. PICK op, arg, no, plan : /\ op = "revokeInvitation" /\ arg = "none" /\ no = invitations[on].no
                               /\ plan = <<Row("invitation", on), Row("account", by)>>
  OBVIOUS
<1>3. PICK u : u = Fresh(op, by, on, arg, no, plan)
  OBVIOUS
<1>4. Before(op, Row("invitation", on), Row("account", by))
  BY <1>2, Classes DEF Before, RowsFirst
<1>5. plan \in Seq(AllRows) /\ ToSet(plan) = {Row("invitation", on), Row("account", by)} /\ Chain(op, plan)
  BY <1>2, <1>4, RowsKnown, PlanOfTwo
<1>6. u.op = op /\ u.by = by /\ u.on = on /\ u.arg = arg
  BY <1>3 DEF Fresh
<1>7. ToSet(plan) = Rows(u) /\ Addressed(u)
  BY <1>2, <1>5, <1>6 DEF Rows, Addressed, GroupOps
<1>8. Sound(u)
  BY <1>2, <1>3, FreshRelies
<1>9. op \in Ops /\ by \in Nat /\ on \in Nat /\ arg \in Args /\ no \in Nat
  BY <1>2, Numbers DEF Ops, AccountOps, IInv, Tables, AccountTables, PeopleTable, InvitationTable, InvitationRows
<1>10. Begin(c, op, by, on, arg, no, plan)
  BY <1>1, <1>2
<1> QED
  BY <1>3, <1>5, <1>7, <1>8, <1>9, <1>10, Beginning

\* Changes of accounts lock the administration first.
LEMMA AdministrationFirst ==
    ASSUME NEW op, NEW by \in Accounts, NEW on \in Accounts, NEW plan, plan = <<Admin>> \o Identities(by, on)
    PROVE  /\ plan \in Seq(AllRows) /\ Chain(op, plan)
           /\ ToSet(plan) = {Admin, Row("account", by), Row("account", on)}
<1>1. PICK s, t : s = <<Admin>> /\ t = Identities(by, on)
  OBVIOUS
<1>2. s \in Seq(AllRows) /\ ToSet(s) = {Admin} /\ Chain(op, s)
  BY <1>1, RowsKnown, PlanOfOne
<1>3. /\ t \in Seq(AllRows) /\ Chain(op, t)
      /\ ToSet(t) = {Row("account", by), Row("account", on)}
  BY <1>1, IdentitiesInOrder
<1>4. \A r \in ToSet(s), q \in ToSet(t) : Before(op, r, q)
  BY <1>2, <1>3, Classes DEF Before
<1>5. plan = s \o t
  BY <1>1
<1>6. /\ s \in Seq(AllRows) /\ t \in Seq(AllRows) /\ Chain(op, s) /\ Chain(op, t)
      /\ plan = s \o t /\ Precedes(op, s, t)
  BY <1>2, <1>3, <1>4, <1>5 DEF Precedes
<1>7. plan \in Seq(AllRows) /\ Chain(op, plan)
  BY ONLY <1>6, PlanOfBoth
<1>8. \A x : x \in ToSet(plan) <=> x \in ToSet(s) \/ x \in ToSet(t)
  BY ONLY <1>6, PlanOfBoth
<1> QED
  BY <1>2, <1>3, <1>7, <1>8

LEMMA BeginChangeRoleKept ==
    ASSUME IInv, UNCHANGED <<accounts, invitations, requests, groupRequests, links, recipients>>,
           NEW c \in Clerks, BeginChangeRole(c)
    PROVE  Transactions'
<1>1. PICK by \in Accounts, on \in Accounts, role \in Roles :
         Begin(c, "changeRole", by, on, role, 0, <<Admin>> \o Identities(by, on))
  BY DEF BeginChangeRole
<1>2. PICK op, plan : op = "changeRole" /\ plan = <<Admin>> \o Identities(by, on)
  OBVIOUS
<1>3. PICK u : u = Fresh(op, by, on, role, 0, plan)
  OBVIOUS
<1>4. /\ plan \in Seq(AllRows) /\ Chain(op, plan)
      /\ ToSet(plan) = {Admin, Row("account", by), Row("account", on)}
  BY <1>2, AdministrationFirst
<1>5. u.op = op /\ u.by = by /\ u.on = on /\ u.arg = role
  BY <1>3 DEF Fresh
<1>6. ToSet(plan) = Rows(u) /\ Addressed(u)
  BY <1>2, <1>4, <1>5 DEF Rows, Addressed, GroupOps
<1>7. Row("account", by) \in ToSet(plan)
  BY <1>4
<1>8. Sound(u)
  BY <1>2, <1>3, <1>7, FreshRelies
<1>9. op \in Ops /\ by \in Nat /\ on \in Nat /\ role \in Args /\ 0 \in Nat
  BY <1>2, Numbers DEF Ops, AccountOps, Args
<1>10. Begin(c, op, by, on, role, 0, plan)
  BY <1>1, <1>2
<1> QED
  BY <1>3, <1>4, <1>6, <1>8, <1>9, <1>10, Beginning

LEMMA BeginSetActiveKept ==
    ASSUME IInv, UNCHANGED <<accounts, invitations, requests, groupRequests, links, recipients>>,
           NEW c \in Clerks, BeginSetActive(c)
    PROVE  Transactions'
<1>1. PICK by \in Accounts, on \in Accounts, switch \in {"ON", "OFF"} :
         Begin(c, "setActive", by, on, switch, 0, <<Admin>> \o Identities(by, on))
  BY DEF BeginSetActive
<1>2. PICK op, plan : op = "setActive" /\ plan = <<Admin>> \o Identities(by, on)
  OBVIOUS
<1>3. PICK u : u = Fresh(op, by, on, switch, 0, plan)
  OBVIOUS
<1>4. /\ plan \in Seq(AllRows) /\ Chain(op, plan)
      /\ ToSet(plan) = {Admin, Row("account", by), Row("account", on)}
  BY <1>2, AdministrationFirst
<1>5. u.op = op /\ u.by = by /\ u.on = on /\ u.arg = switch
  BY <1>3 DEF Fresh
<1>6. ToSet(plan) = Rows(u) /\ Addressed(u)
  BY <1>2, <1>4, <1>5 DEF Rows, Addressed, GroupOps
<1>7. Row("account", by) \in ToSet(plan)
  BY <1>4
<1>8. Sound(u)
  BY <1>2, <1>3, <1>7, FreshRelies
<1>9. op \in Ops /\ by \in Nat /\ on \in Nat /\ switch \in Args /\ 0 \in Nat
  BY <1>2, Numbers DEF Ops, AccountOps, Args
<1>10. Begin(c, op, by, on, switch, 0, plan)
  BY <1>1, <1>2
<1> QED
  BY <1>3, <1>4, <1>6, <1>8, <1>9, <1>10, Beginning

LEMMA BeginBootstrapKept ==
    ASSUME IInv, UNCHANGED <<accounts, invitations, requests, groupRequests, links, recipients>>,
           NEW c \in Clerks, BeginBootstrap(c)
    PROVE  Transactions'
<1>1. PICK on \in Accounts : Begin(c, "bootstrap", 0, on, "none", 0, <<Admin, Row("account", on)>>)
  BY DEF BeginBootstrap
<1>2. PICK op, arg, plan : op = "bootstrap" /\ arg = "none" /\ plan = <<Admin, Row("account", on)>>
  OBVIOUS
<1>3. PICK u : u = Fresh(op, 0, on, arg, 0, plan)
  OBVIOUS
<1>4. Before(op, Admin, Row("account", on))
  BY Classes DEF Before
<1>5. plan \in Seq(AllRows) /\ ToSet(plan) = {Admin, Row("account", on)} /\ Chain(op, plan)
  BY <1>2, <1>4, RowsKnown, PlanOfTwo
<1>6. u.op = op /\ u.on = on /\ u.arg = arg
  BY <1>3 DEF Fresh
<1>7. ToSet(plan) = Rows(u) /\ Addressed(u)
  BY <1>2, <1>5, <1>6 DEF Rows, Addressed, GroupOps
<1>8. Row("account", on) \in ToSet(plan)
  BY <1>5
<1>9. Sound(u)
  BY <1>2, <1>3, <1>8, FreshRelies
<1>10. op \in Ops /\ on \in Nat /\ arg \in Args /\ 0 \in Nat
  BY <1>2, Numbers DEF Ops, AccountOps
<1>11. Begin(c, op, 0, on, arg, 0, plan)
  BY <1>1, <1>2
<1> QED
  BY <1>3, <1>5, <1>7, <1>9, <1>10, <1>11, Beginning

LEMMA BeginLoginKept ==
    ASSUME IInv, UNCHANGED <<accounts, invitations, requests, groupRequests, links, recipients>>,
           NEW c \in Clerks, BeginLogin(c)
    PROVE  Transactions'
<1>1. PICK a \in Accounts : Begin(c, "login", a, a, "none", 0, << >>)
  BY DEF BeginLogin
<1>2. PICK op, arg, plan : op = "login" /\ arg = "none" /\ plan = << >>
  OBVIOUS
<1>3. PICK u : u = Fresh(op, a, a, arg, 0, plan)
  OBVIOUS
<1>4. plan \in Seq(AllRows) /\ ToSet(plan) = {} /\ Chain(op, plan)
  BY <1>2, EmptySeq DEF ToSet, Chain
<1>5. u.op = op /\ u.on = a /\ u.arg = arg
  BY <1>3 DEF Fresh
<1>6. ToSet(plan) = Rows(u) /\ Addressed(u)
  BY <1>2, <1>4, <1>5 DEF Rows, Addressed, GroupOps
<1>7. Sound(u)
  BY <1>2, <1>3, FreshRelies
<1>8. op \in Ops /\ a \in Nat /\ arg \in Args /\ 0 \in Nat
  BY <1>2, Numbers DEF Ops
<1>9. Begin(c, op, a, a, arg, 0, plan)
  BY <1>1, <1>2
<1> QED
  BY <1>3, <1>4, <1>6, <1>7, <1>8, <1>9, Beginning
AfterAccounts(op, s) == \A q \in ToSet(s) : Class(op, q) \in {3, 4}

\* Changes of what belongs to an account lock the two accounts first.
LEMMA IdentitiesFirst ==
    ASSUME NEW op, NEW by \in Accounts, NEW on \in Accounts, NEW rest \in Seq(AllRows), Chain(op, rest),
           AfterAccounts(op, rest), NEW plan, plan = Identities(by, on) \o rest
    PROVE  /\ plan \in Seq(AllRows) /\ Chain(op, plan)
           /\ \A x : x \in ToSet(plan) <=> x \in {Row("account", by), Row("account", on)} \/ x \in ToSet(rest)
<1>1. PICK s : s = Identities(by, on)
  OBVIOUS
<1>2. /\ s \in Seq(AllRows) /\ Chain(op, s)
      /\ ToSet(s) = {Row("account", by), Row("account", on)}
  BY <1>1, IdentitiesInOrder
<1>3. Precedes(op, s, rest)
  <2> SUFFICES ASSUME NEW r \in ToSet(s), NEW q \in ToSet(rest)
               PROVE  Before(op, r, q)
    BY DEF Precedes
  <2>1. Class(op, r) = 2
    BY <1>2, Classes
  <2>2. Class(op, q) \in {3, 4}
    BY DEF AfterAccounts
  <2> QED
    BY <2>1, <2>2 DEF Before
<1>4. /\ s \in Seq(AllRows) /\ rest \in Seq(AllRows) /\ Chain(op, s) /\ Chain(op, rest)
      /\ plan = s \o rest /\ Precedes(op, s, rest)
  BY <1>1, <1>2, <1>3
<1>5. plan \in Seq(AllRows) /\ Chain(op, plan)
  BY ONLY <1>4, PlanOfBoth
<1>6. \A x : x \in ToSet(plan) <=> x \in ToSet(s) \/ x \in ToSet(rest)
  BY ONLY <1>4, PlanOfBoth
<1> QED
  BY <1>2, <1>5, <1>6

LEMMA BeginRequestKept ==
    ASSUME IInv, UNCHANGED <<accounts, invitations, requests, groupRequests, links, recipients>>,
           NEW c \in Clerks, BeginRequest(c)
    PROVE  Transactions'
<1>1. PICK a \in Accounts :
         Begin(c, "createRequest", a, a, "none", 0, <<Row("account", a), Row("request", a)>>)
  BY DEF BeginRequest
<1>2. PICK op, arg, no, plan : /\ op = "createRequest" /\ arg = "none" /\ no = 0
                           /\ plan = <<Row("account", a), Row("request", a)>>
  OBVIOUS
<1>3. PICK u : u = Fresh(op, a, a, arg, no, plan)
  OBVIOUS
<1>4. op \in Ops /\ a \in Nat /\ a \in Nat /\ arg \in Args /\ no \in Nat
  BY <1>1, <1>2, Numbers DEF Ops, TelegramOps, GroupOps, Args, IInv, Tables, TelegramTables, RequestTable, LinkTable, RecipientTable, Ago
<1>5. Before(op, Row("account", a), Row("request", a))
  BY <1>1, <1>2, Kinds DEF Before, Class, RowsFirst, GroupOps
<1>6. Row("account", a) \in AllRows /\ Row("request", a) \in AllRows
  BY <1>1, RowsKnown
<1>7. plan \in Seq(AllRows) /\ ToSet(plan) = {Row("account", a), Row("request", a)} /\ Chain(op, plan)
  BY <1>2, <1>5, <1>6, PlanOfTwo
<1>8. /\ u.op = op /\ u.by = a /\ u.on = a /\ u.arg = arg
      /\ \E b : Row("account", b) \in ToSet(plan)
  BY <1>3, <1>7 DEF Fresh
<1>9. ToSet(plan) = Rows(u)
  BY <1>1, <1>2, <1>5, <1>7, <1>8 DEF Rows, GroupOps
<1>10. Addressed(u)
  BY <1>1, <1>2, <1>8 DEF Addressed, GroupOps
<1>11. Sound(u)
  BY <1>1, <1>2, <1>3, <1>8, FreshRelies DEF GroupOps
<1>12. Begin(c, op, a, a, arg, no, plan)
  BY <1>1, <1>2
<1> QED
  BY <1>3, <1>4, <1>7, <1>9, <1>10, <1>11, <1>12, Beginning

LEMMA BeginConsumeKept ==
    ASSUME IInv, UNCHANGED <<accounts, invitations, requests, groupRequests, links, recipients>>,
           NEW c \in Clerks, BeginConsume(c)
    PROVE  Transactions'
<1>1. PICK a, v, no :
         /\ a \in Accounts /\ v \in Users /\ no \in 1..requests[a].no
         /\ Begin(c, "consume", v, a, "none", no, <<Row("request", a), Row("account", a)>>)
  BY DEF BeginConsume
<1>2. PICK op, arg, plan : /\ op = "consume" /\ arg = "none"
                       /\ plan = <<Row("request", a), Row("account", a)>>
  OBVIOUS
<1>3. PICK u : u = Fresh(op, v, a, arg, no, plan)
  OBVIOUS
<1>4. op \in Ops /\ v \in Nat /\ a \in Nat /\ arg \in Args /\ no \in Nat
  BY <1>1, <1>2, Numbers DEF Ops, TelegramOps, GroupOps, Args, IInv, Tables, TelegramTables, RequestTable, LinkTable, RecipientTable, Ago
<1>5. Before(op, Row("request", a), Row("account", a))
  BY <1>1, <1>2, Kinds DEF Before, Class, RowsFirst, GroupOps
<1>6. Row("request", a) \in AllRows /\ Row("account", a) \in AllRows
  BY <1>1, RowsKnown
<1>7. plan \in Seq(AllRows) /\ ToSet(plan) = {Row("request", a), Row("account", a)} /\ Chain(op, plan)
  BY <1>2, <1>5, <1>6, PlanOfTwo
<1>8. /\ u.op = op /\ u.by = v /\ u.on = a /\ u.arg = arg
      /\ \E b : Row("account", b) \in ToSet(plan)
  BY <1>3, <1>7 DEF Fresh
<1>9. ToSet(plan) = Rows(u)
  BY <1>1, <1>2, <1>5, <1>7, <1>8 DEF Rows, GroupOps
<1>10. Addressed(u)
  BY <1>1, <1>2, <1>8 DEF Addressed, GroupOps
<1>11. Sound(u)
  BY <1>1, <1>2, <1>3, <1>8, FreshRelies DEF GroupOps
<1>12. Begin(c, op, v, a, arg, no, plan)
  BY <1>1, <1>2
<1> QED
  BY <1>3, <1>4, <1>7, <1>9, <1>10, <1>11, <1>12, Beginning

LEMMA BeginRevokeRequestKept ==
    ASSUME IInv, UNCHANGED <<accounts, invitations, requests, groupRequests, links, recipients>>,
           NEW c \in Clerks, BeginRevokeRequest(c)
    PROVE  Transactions'
<1>1. PICK by \in Accounts, on \in Accounts :
         Begin(c, "revokeRequest", by, on, "none", 0, Identities(by, on) \o <<Row("request", on)>>)
  BY DEF BeginRevokeRequest
<1>2. PICK op, arg, no, rest, plan : /\ op = "revokeRequest" /\ arg = "none" /\ no = 0
                                 /\ rest = <<Row("request", on)>> /\ plan = Identities(by, on) \o rest
  OBVIOUS
<1>3. PICK u : u = Fresh(op, by, on, arg, no, plan)
  OBVIOUS
<1>4. op \in Ops /\ by \in Nat /\ on \in Nat /\ arg \in Args /\ no \in Nat
  BY <1>1, <1>2, Numbers DEF Ops, TelegramOps, GroupOps, Args, IInv, Tables, TelegramTables, RequestTable, LinkTable, RecipientTable, Ago
<1>5. rest \in Seq(AllRows) /\ ToSet(rest) = {Row("request", on)} /\ Chain(op, rest)
  BY <1>1, <1>2, RowsKnown, PlanOfOne
<1>6. AfterAccounts(op, rest)
  <2>1. Class(op, Row("request", on)) \in {3, 4}
    BY <1>2, Kinds DEF Class, RowsFirst
  <2> QED
    BY <1>5, <2>1 DEF AfterAccounts
<1>7. /\ plan \in Seq(AllRows) /\ Chain(op, plan)
      /\ ToSet(plan) = {Row("account", by), Row("account", on)} \cup ToSet(rest)
  <2>1. /\ by \in Accounts /\ on \in Accounts /\ rest \in Seq(AllRows) /\ Chain(op, rest)
        /\ AfterAccounts(op, rest) /\ plan = Identities(by, on) \o rest
    BY <1>1, <1>2, <1>5, <1>6
  <2>2. plan \in Seq(AllRows) /\ Chain(op, plan)
    BY ONLY <2>1, IdentitiesFirst
  <2>3. \A x : x \in ToSet(plan) <=> x \in {Row("account", by), Row("account", on)} \/ x \in ToSet(rest)
    BY ONLY <2>1, IdentitiesFirst
  <2> QED
    BY <2>2, <2>3
<1>8. /\ u.op = op /\ u.by = by /\ u.on = on /\ u.arg = arg
      /\ \E b : Row("account", b) \in ToSet(plan)
  BY <1>3, <1>7 DEF Fresh
<1>9. ToSet(plan) = Rows(u)
  BY <1>1, <1>2, <1>5, <1>7, <1>8 DEF Rows, GroupOps
<1>10. Addressed(u)
  BY <1>1, <1>2, <1>8 DEF Addressed, GroupOps
<1>11. Sound(u)
  BY <1>1, <1>2, <1>3, <1>8, FreshRelies DEF GroupOps
<1>12. Begin(c, op, by, on, arg, no, plan)
  BY <1>1, <1>2
<1> QED
  BY <1>3, <1>4, <1>7, <1>9, <1>10, <1>11, <1>12, Beginning

LEMMA BeginDisconnectKept ==
    ASSUME IInv, UNCHANGED <<accounts, invitations, requests, groupRequests, links, recipients>>,
           NEW c \in Clerks, BeginDisconnect(c)
    PROVE  Transactions'
<1>1. PICK by \in Accounts, on \in Accounts :
         Begin(c, "disconnect", by, on, "none", 0, Identities(by, on) \o <<Row("request", on), Member(on)>>)
  BY DEF BeginDisconnect
<1>2. PICK op, arg, no, rest, plan : /\ op = "disconnect" /\ arg = "none" /\ no = 0
                                 /\ rest = <<Row("request", on), Member(on)>> /\ plan = Identities(by, on) \o rest
  OBVIOUS
<1>3. PICK u : u = Fresh(op, by, on, arg, no, plan)
  OBVIOUS
<1>4. op \in Ops /\ by \in Nat /\ on \in Nat /\ arg \in Args /\ no \in Nat
  BY <1>1, <1>2, Numbers DEF Ops, TelegramOps, GroupOps, Args, IInv, Tables, TelegramTables, RequestTable, LinkTable, RecipientTable, Ago
<1>5. rest \in Seq(AllRows) /\ ToSet(rest) = {Row("request", on), Member(on)} /\ Chain(op, rest)
  <2>1. Before(op, Row("request", on), Member(on)) /\ Row("request", on) \in AllRows /\ Member(on) \in AllRows
    BY <1>1, <1>2, RowsKnown, Kinds DEF Before, Class, RowsFirst
  <2> QED
    BY <1>2, <2>1, PlanOfTwo
<1>6. AfterAccounts(op, rest)
  <2>1. Class(op, Row("request", on)) \in {3, 4} /\ Class(op, Member(on)) \in {3, 4}
    BY <1>2, Kinds DEF Class, RowsFirst
  <2> QED
    BY <1>5, <2>1 DEF AfterAccounts
<1>7. /\ plan \in Seq(AllRows) /\ Chain(op, plan)
      /\ ToSet(plan) = {Row("account", by), Row("account", on)} \cup ToSet(rest)
  <2>1. /\ by \in Accounts /\ on \in Accounts /\ rest \in Seq(AllRows) /\ Chain(op, rest)
        /\ AfterAccounts(op, rest) /\ plan = Identities(by, on) \o rest
    BY <1>1, <1>2, <1>5, <1>6
  <2>2. plan \in Seq(AllRows) /\ Chain(op, plan)
    BY ONLY <2>1, IdentitiesFirst
  <2>3. \A x : x \in ToSet(plan) <=> x \in {Row("account", by), Row("account", on)} \/ x \in ToSet(rest)
    BY ONLY <2>1, IdentitiesFirst
  <2> QED
    BY <2>2, <2>3
<1>8. /\ u.op = op /\ u.by = by /\ u.on = on /\ u.arg = arg
      /\ \E b : Row("account", b) \in ToSet(plan)
  BY <1>3, <1>7 DEF Fresh
<1>9. ToSet(plan) = Rows(u)
  BY <1>1, <1>2, <1>5, <1>7, <1>8 DEF Rows, GroupOps
<1>10. Addressed(u)
  BY <1>1, <1>2, <1>8 DEF Addressed, GroupOps
<1>11. Sound(u)
  BY <1>1, <1>2, <1>3, <1>8, FreshRelies DEF GroupOps
<1>12. Begin(c, op, by, on, arg, no, plan)
  BY <1>1, <1>2
<1> QED
  BY <1>3, <1>4, <1>7, <1>9, <1>10, <1>11, <1>12, Beginning

LEMMA BeginSetMemberKept ==
    ASSUME IInv, UNCHANGED <<accounts, invitations, requests, groupRequests, links, recipients>>,
           NEW c \in Clerks, BeginSetMember(c)
    PROVE  Transactions'
<1>1. PICK by \in Accounts, on \in Accounts, switch \in {"ON", "MUTED"} :
         Begin(c, "setMember", by, on, switch, 0, Identities(by, on) \o <<Member(on)>>)
  BY DEF BeginSetMember
<1>2. PICK op, arg, no, rest, plan : /\ op = "setMember" /\ arg = switch /\ no = 0
                                 /\ rest = <<Member(on)>> /\ plan = Identities(by, on) \o rest
  OBVIOUS
<1>3. PICK u : u = Fresh(op, by, on, arg, no, plan)
  OBVIOUS
<1>4. op \in Ops /\ by \in Nat /\ on \in Nat /\ arg \in Args /\ no \in Nat
  BY <1>1, <1>2, Numbers DEF Ops, TelegramOps, GroupOps, Args, IInv, Tables, TelegramTables, RequestTable, LinkTable, RecipientTable, Ago
<1>5. rest \in Seq(AllRows) /\ ToSet(rest) = {Member(on)} /\ Chain(op, rest)
  BY <1>1, <1>2, RowsKnown, PlanOfOne
<1>6. AfterAccounts(op, rest)
  <2>1. Class(op, Member(on)) \in {3, 4}
    BY <1>2, Kinds DEF Class, RowsFirst
  <2> QED
    BY <1>5, <2>1 DEF AfterAccounts
<1>7. /\ plan \in Seq(AllRows) /\ Chain(op, plan)
      /\ ToSet(plan) = {Row("account", by), Row("account", on)} \cup ToSet(rest)
  <2>1. /\ by \in Accounts /\ on \in Accounts /\ rest \in Seq(AllRows) /\ Chain(op, rest)
        /\ AfterAccounts(op, rest) /\ plan = Identities(by, on) \o rest
    BY <1>1, <1>2, <1>5, <1>6
  <2>2. plan \in Seq(AllRows) /\ Chain(op, plan)
    BY ONLY <2>1, IdentitiesFirst
  <2>3. \A x : x \in ToSet(plan) <=> x \in {Row("account", by), Row("account", on)} \/ x \in ToSet(rest)
    BY ONLY <2>1, IdentitiesFirst
  <2> QED
    BY <2>2, <2>3
<1>8. /\ u.op = op /\ u.by = by /\ u.on = on /\ u.arg = arg
      /\ \E b : Row("account", b) \in ToSet(plan)
  BY <1>3, <1>7 DEF Fresh
<1>9. ToSet(plan) = Rows(u)
  BY <1>1, <1>2, <1>5, <1>7, <1>8 DEF Rows, GroupOps
<1>10. Addressed(u)
  BY <1>1, <1>2, <1>8 DEF Addressed, GroupOps
<1>11. Sound(u)
  BY <1>1, <1>2, <1>3, <1>8, FreshRelies DEF GroupOps
<1>12. Begin(c, op, by, on, arg, no, plan)
  BY <1>1, <1>2
<1> QED
  BY <1>3, <1>4, <1>7, <1>9, <1>10, <1>11, <1>12, Beginning

LEMMA BeginGroupRequestKept ==
    ASSUME IInv, UNCHANGED <<accounts, invitations, requests, groupRequests, links, recipients>>,
           NEW c \in Clerks, BeginGroupRequest(c)
    PROVE  Transactions'
<1>1. PICK a \in Accounts, op \in {"createGroupRequest", "revokeGroupRequest"} :
         Begin(c, op, a, a, "none", 0, <<Row("account", a), Row("groupRequest", a)>>)
  BY DEF BeginGroupRequest
<1>2. PICK arg, no, plan : /\ arg = "none" /\ no = 0
                       /\ plan = <<Row("account", a), Row("groupRequest", a)>>
  OBVIOUS
<1>3. PICK u : u = Fresh(op, a, a, arg, no, plan)
  OBVIOUS
<1>4. op \in Ops /\ a \in Nat /\ a \in Nat /\ arg \in Args /\ no \in Nat
  BY <1>1, <1>2, Numbers DEF Ops, TelegramOps, GroupOps, Args, IInv, Tables, TelegramTables, RequestTable, LinkTable, RecipientTable, Ago
<1>5. Before(op, Row("account", a), Row("groupRequest", a))
  BY <1>1, <1>2, Kinds DEF Before, Class, RowsFirst, GroupOps
<1>6. Row("account", a) \in AllRows /\ Row("groupRequest", a) \in AllRows
  BY <1>1, RowsKnown
<1>7. plan \in Seq(AllRows) /\ ToSet(plan) = {Row("account", a), Row("groupRequest", a)} /\ Chain(op, plan)
  BY <1>2, <1>5, <1>6, PlanOfTwo
<1>8. /\ u.op = op /\ u.by = a /\ u.on = a /\ u.arg = arg
      /\ \E b : Row("account", b) \in ToSet(plan)
  BY <1>3, <1>7 DEF Fresh
<1>9. ToSet(plan) = Rows(u)
  BY <1>1, <1>2, <1>5, <1>7, <1>8 DEF Rows, GroupOps
<1>10. Addressed(u)
  BY <1>1, <1>2, <1>8 DEF Addressed, GroupOps
<1>11. Sound(u)
  BY <1>1, <1>2, <1>3, <1>8, FreshRelies DEF GroupOps
<1>12. Begin(c, op, a, a, arg, no, plan)
  BY <1>1, <1>2
<1> QED
  BY <1>3, <1>4, <1>7, <1>9, <1>10, <1>11, <1>12, Beginning

LEMMA BeginConsumeGroupKept ==
    ASSUME IInv, UNCHANGED <<accounts, invitations, requests, groupRequests, links, recipients>>,
           NEW c \in Clerks, BeginConsumeGroup(c)
    PROVE  Transactions'
<1>1. PICK a, g, v, no :
         /\ a \in Accounts /\ g \in Groups /\ v \in Users /\ no \in 1..groupRequests[a].no
         /\ Begin(c, "consumeGroup", v, a, g, no,
                  <<Row("groupRequest", a), Row("account", a), Group(g)>>)
  BY DEF BeginConsumeGroup
<1>2. PICK op, plan : /\ op = "consumeGroup"
                  /\ plan = <<Row("groupRequest", a), Row("account", a), Group(g)>>
  OBVIOUS
<1>3. PICK u : u = Fresh(op, v, a, g, no, plan)
  OBVIOUS
<1>4. op \in Ops /\ v \in Nat /\ a \in Nat /\ g \in Args /\ no \in Nat
  BY <1>1, <1>2, Numbers DEF Ops, TelegramOps, GroupOps, Args, IInv, Tables, TelegramTables, RequestTable, LinkTable, RecipientTable, Ago
<1>5. Before(op, Row("groupRequest", a), Row("account", a)) /\ Before(op, Row("groupRequest", a), Group(g)) /\ Before(op, Row("account", a), Group(g))
  BY <1>1, <1>2, Kinds DEF Before, Class, RowsFirst, GroupOps
<1>6. Row("groupRequest", a) \in AllRows /\ Row("account", a) \in AllRows /\ Group(g) \in AllRows
  BY <1>1, RowsKnown
<1>7. plan \in Seq(AllRows) /\ ToSet(plan) = {Row("groupRequest", a), Row("account", a), Group(g)} /\ Chain(op, plan)
  BY <1>2, <1>5, <1>6, PlanOfThree
<1>8. /\ u.op = op /\ u.by = v /\ u.on = a /\ u.arg = g
      /\ \E b : Row("account", b) \in ToSet(plan)
  BY <1>3, <1>7 DEF Fresh
<1>9. ToSet(plan) = Rows(u)
  BY <1>1, <1>2, <1>5, <1>7, <1>8 DEF Rows, GroupOps
<1>10. Addressed(u)
  BY <1>1, <1>2, <1>8 DEF Addressed, GroupOps
<1>11. Sound(u)
  BY <1>1, <1>2, <1>3, <1>8, FreshRelies DEF GroupOps
<1>12. Begin(c, op, v, a, g, no, plan)
  BY <1>1, <1>2
<1> QED
  BY <1>3, <1>4, <1>7, <1>9, <1>10, <1>11, <1>12, Beginning

LEMMA BeginSetGroupKept ==
    ASSUME IInv, UNCHANGED <<accounts, invitations, requests, groupRequests, links, recipients>>,
           NEW c \in Clerks, BeginSetGroup(c)
    PROVE  Transactions'
<1>1. PICK a \in Accounts, g \in Groups, op \in GroupOps :
         Begin(c, op, a, a, g, 0, <<Row("account", a), Group(g)>>)
  BY DEF BeginSetGroup
<1>2. PICK no, plan : no = 0 /\ plan = <<Row("account", a), Group(g)>>
  OBVIOUS
<1>3. PICK u : u = Fresh(op, a, a, g, no, plan)
  OBVIOUS
<1>4. op \in Ops /\ a \in Nat /\ a \in Nat /\ g \in Args /\ no \in Nat
  BY <1>1, <1>2, Numbers DEF Ops, TelegramOps, GroupOps, Args, IInv, Tables, TelegramTables, RequestTable, LinkTable, RecipientTable, Ago
<1>5. Before(op, Row("account", a), Group(g))
  BY <1>1, <1>2, Kinds DEF Before, Class, RowsFirst, GroupOps
<1>6. Row("account", a) \in AllRows /\ Group(g) \in AllRows
  BY <1>1, RowsKnown
<1>7. plan \in Seq(AllRows) /\ ToSet(plan) = {Row("account", a), Group(g)} /\ Chain(op, plan)
  BY <1>2, <1>5, <1>6, PlanOfTwo
<1>8. /\ u.op = op /\ u.by = a /\ u.on = a /\ u.arg = g
      /\ \E b : Row("account", b) \in ToSet(plan)
  BY <1>3, <1>7 DEF Fresh
<1>9. ToSet(plan) = Rows(u)
  BY <1>1, <1>2, <1>5, <1>7, <1>8 DEF Rows, GroupOps
<1>10. Addressed(u)
  BY <1>1, <1>2, <1>8 DEF Addressed, GroupOps
<1>11. Sound(u)
  BY <1>1, <1>2, <1>3, <1>8, FreshRelies DEF GroupOps
<1>12. Begin(c, op, a, a, g, no, plan)
  BY <1>1, <1>2
<1> QED
  BY <1>3, <1>4, <1>7, <1>9, <1>10, <1>11, <1>12, Beginning

LEMMA BeginAssignKept ==
    ASSUME IInv, UNCHANGED <<accounts, invitations, requests, groupRequests, links, recipients>>,
           NEW c \in Clerks, BeginAssign(c)
    PROVE  Transactions'
<1>1. PICK by, no : by = assignment.member /\ no = assignment.at
  OBVIOUS
<1>2. PICK on, plan, op, arg :
         /\ on \in (Accounts \cup {None}) \ {by} /\ op = "assign" /\ arg = "none"
         /\ plan = IF on = None THEN << >> ELSE <<Row("account", on)>>
         /\ Begin(c, op, by, on, arg, no, plan)
  BY <1>1 DEF BeginAssign
<1>3. PICK u : u = Fresh(op, by, on, arg, no, plan)
  OBVIOUS
<1>4. /\ by \in Accounts \cup {None} /\ no \in Nat /\ op \in Ops /\ by \in Nat /\ on \in Nat /\ arg \in Args
      /\ by # on
  <2>1. by \in Accounts \cup {None} /\ no \in 0..Latest
    BY <1>1 DEF IInv, Tables, DeskTables
  <2>2. no \in Nat
    BY <2>1, DeskAssumption DEF DeskAssumption
  <2> QED
    BY <1>1, <1>2, <2>1, <2>2, Numbers DEF Ops, DeskOps, None
<1>5. /\ plan \in Seq(AllRows) /\ Chain(op, plan)
      /\ ToSet(plan) = IF on = None THEN {} ELSE {Row("account", on)}
  <2>1. CASE on = None
    <3>1. plan = << >>
      BY <1>2, <2>1
    <3>2. plan \in Seq(AllRows) /\ ToSet(plan) = {} /\ Chain(op, plan)
      BY <3>1, EmptySeq DEF ToSet, Chain
    <3> QED
      BY <2>1, <3>2
  <2>2. CASE on # None
    <3>1. PICK r : r = Row("account", on)
      OBVIOUS
    <3>2. plan = <<r>> /\ r \in AllRows
      BY <1>2, <2>2, <3>1, RowsKnown
    <3>3. plan \in Seq(AllRows) /\ ToSet(plan) = {r} /\ Chain(op, plan)
      BY ONLY <3>2, PlanOfOne
    <3> QED
      BY <2>2, <3>1, <3>3
  <2> QED
    BY <2>1, <2>2
<1>6. u.op = op /\ u.by = by /\ u.on = on /\ u.arg = arg
  BY <1>3 DEF Fresh
<1>7. ToSet(plan) = Rows(u)
  BY <1>2, <1>5, <1>6 DEF Rows, GroupOps
<1>8. Addressed(u)
  BY <1>1, <1>2, <1>4, <1>6 DEF Addressed, GroupOps
<1>9. Sound(u)
  BY <1>2, <1>3, <1>5, FreshRelies
<1>10. Begin(c, op, by, on, arg, no, plan) /\ plan \in Seq(AllRows) /\ Chain(op, plan)
  BY <1>2, <1>5
<1> QED
  BY <1>3, <1>4, <1>7, <1>8, <1>9, <1>10, Beginning

LEMMA BeginChangeStatusKept ==
    ASSUME IInv, UNCHANGED <<accounts, invitations, requests, groupRequests, links, recipients>>,
           NEW c \in Clerks, BeginChangeStatus(c)
    PROVE  Transactions'
<1>1. PICK next \in Follows[inquiry.status] :
         clerk' = [clerk EXCEPT ![c] = [Idle EXCEPT !.op = "changeStatus", !.arg = next,
                                              !.saw = inquiry.status, !.no = inquiry.at]]
  BY DEF BeginChangeStatus
<1>2. PICK u, from, no : /\ from = inquiry.status /\ no = inquiry.at
                         /\ u = [Idle EXCEPT !.op = "changeStatus", !.arg = next, !.saw = from, !.no = no]
  OBVIOUS
<1>3. /\ u = [op |-> "changeStatus", by |-> 0, on |-> 0, arg |-> next, no |-> no,
               todo |-> << >>, has |-> {}, saw |-> from]
  BY <1>2 DEF Idle
<1>4. /\ u.op = "changeStatus" /\ u.by = 0 /\ u.on = 0 /\ u.arg = next /\ u.no = no
      /\ u.todo = << >> /\ u.has = {} /\ u.saw = from
  BY <1>3
<1>5. from \in DOMAIN Follows /\ next \in Follows[from] /\ next \in DOMAIN Follows /\ no \in Nat
  <2>1. from \in DOMAIN Follows /\ no \in 0..Latest
    BY <1>2 DEF IInv, Tables, DeskTables
  <2>2. next \in Follows[from]
    BY <1>1, <1>2
  <2> QED
    BY <2>1, <2>2, DeskAssumption DEF Follows, DeskAssumption
<1>6. << >> \in Seq(AllRows) /\ ToSet(<< >>) = {} /\ DOMAIN << >> = {}
  BY EmptySeq DEF ToSet
<1>7. u \in Tasks
  BY <1>3, <1>5, <1>6 DEF Tasks, Ops, DeskOps, Args, Saws
<1>8. Left(u) = {} /\ Rows(u) = {} /\ InOrder(u) /\ Addressed(u)
  BY <1>4, <1>5, <1>6 DEF Left, Rows, InOrder, Chain, Addressed, GroupOps
<1>9. Fit(u) /\ Sound(u)'
  BY <1>4, <1>7, <1>8 DEF Fit, Sound
<1>10. Issued /\ \A H : Undisturbed(H)
  BY NothingDisturbed DEF IInv, Tables
<1> QED
  BY <1>1, <1>2, <1>4, <1>9, <1>10, OneMoves DEF IInv
-----------------------------------------------------------------------------
(* A transaction asks for its next lock.                                   *)

\* The account it is about to lock is the last one.
Reading(t) == Head(t.todo)[1] = "account" /\ (Len(t.todo) > 1 => t.todo[2][1] # "account")

\* It has judged either before or by this lock.
LEMMA JudgedByNow ==
    ASSUME NEW t, Fit(t), t.todo # << >>, NEW r, r = Head(t.todo), NEW u, Left(t) = Left(u) \cup {r},
           u.todo = Tail(t.todo), Judged(u)
    PROVE  (r[1] # "account" /\ Judged(t)) \/ (r[1] = "account" /\ Reading(t))
<1>1. CASE r[1] # "account"
  BY <1>1 DEF Judged
<1>2. CASE r[1] = "account"
  <2>1. PICK s, b : s = t.todo /\ b = Tail(s)
    OBVIOUS
  <2>2. s \in Seq(AllRows) /\ s # << >>
    BY <2>1 DEF Fit, Tasks
  <2>3. ASSUME Len(s) > 1
        PROVE  s[2] \in ToSet(b)
    <3>1. b \in Seq(AllRows) /\ Len(b) = Len(s) - 1 /\ \A i \in 1..Len(b) : b[i] = s[i + 1]
      BY <2>1, <2>2, HeadTailProperties
    <3>2. Len(s) \in Nat /\ 1 \in 1..Len(b)
      BY <2>2, <2>3, <3>1, LenProperties
    <3>3. DOMAIN b = 1..Len(b) /\ b[1] = s[2]
      BY <3>1, <3>2, LenProperties
    <3> QED
      BY <3>2, <3>3 DEF ToSet
  <2>4. Len(s) > 1 => s[2][1] # "account"
    BY <2>1, <2>3 DEF Judged, Left
  <2> QED
    BY <1>2, <2>1, <2>4 DEF Reading
<1> QED
  BY <1>1, <1>2

LEMMA LockGranted ==
    ASSUME NEW c \in Clerks, NEW saw, Lock(c, TRUE, saw)
    PROVE  clerk' = [clerk EXCEPT ![c] = Locked(clerk[c], saw)]
  BY DEF Lock, Wants, Keeps, Locked

LEMMA Waiting ==
    ASSUME IInv, UNCHANGED <<accounts, invitations, requests, groupRequests, links, recipients>>,
           NEW c \in Clerks, NEW saw \in Saws, NEW t, t = clerk[c], t.op # "changeStatus", Lock(c, TRUE, saw),
           NEW u, u = Locked(t, saw), Sound(u)
    PROVE  Transactions'
<1>1. Issued /\ \A H : Undisturbed(H)
  BY NothingDisturbed DEF IInv, Tables
<1>2. clerk' = [clerk EXCEPT ![c] = u]
  BY LockGranted
<1>3. PICK r : r = Head(t.todo)
  OBVIOUS
<1>4. Fit(t) /\ t.todo # << >> /\ ~ Held(r)
  BY <1>3 DEF Lock, Wants, IInv, Transactions
<1>5. Fit(u) /\ u.has = t.has \cup {r}
  BY <1>3, <1>4, Taking
<1>6. Sound(u)'
  BY <1>1, <1>5, Stable
<1>7. \A q \in u.has : q \in clerk[c].has \/ ~ Held(q)
  BY <1>4, <1>5
<1> QED
  BY <1>1, <1>2, <1>5, <1>6, <1>7, OneMoves DEF IInv

LEMMA Refused ==
    ASSUME IInv, UNCHANGED <<accounts, invitations, requests, groupRequests, links, recipients>>,
           NEW c \in Clerks, clerk' = [clerk EXCEPT ![c] = Idle]
    PROVE  Transactions'
<1>1. Issued /\ \A H : Undisturbed(H)
  BY NothingDisturbed DEF IInv, Tables
<1> QED
  BY <1>1, OneEnds DEF IInv, Ends

LEMMA AccountLockKept ==
    ASSUME IInv, UNCHANGED <<accounts, invitations, requests, groupRequests, links, recipients>>,
           NEW c \in Clerks, AccountLock(c)
    PROVE  Transactions'
<1>1. PICK t, r, u : t = clerk[c] /\ r = Head(t.todo) /\ u = Locked(t, "none")
  OBVIOUS
<1>2. /\ t.op \in AccountOps /\ t.todo # << >> /\ ~ Held(r)
  BY <1>1 DEF AccountLock, Lock, Wants
<1>3. CASE ~ AccountCheck(c)
  BY <1>1, <1>3, Refused DEF AccountLock, Lock
<1>4. CASE AccountCheck(c)
  <2>1. Lock(c, TRUE, "none")
    BY <1>1, <1>4 DEF AccountLock, Lock
  <2>2. Fit(t) /\ Sound(t) /\ "none" \in Saws /\ t.op # "changeStatus"
    BY <1>1, <1>2 DEF IInv, Transactions, Saws, AccountOps
  <2>3. /\ Fit(u) /\ r \in Rows(t) /\ r \in AllRows
        /\ u.op = t.op /\ u.by = t.by /\ u.on = t.on /\ u.arg = t.arg /\ u.no = t.no
        /\ u.has = t.has \cup {r} /\ Left(t) = Left(u) \cup {r} /\ u.todo = Tail(t.todo)
    <3>1. u.todo = Tail(t.todo)
      BY <1>1, <2>2 DEF Locked, Fit, Tasks
    <3> QED
      BY <1>1, <1>2, <2>2, <3>1, Taking
  <2>4. Judged(u) => (r[1] # "account" /\ Judged(t)) \/ (r[1] = "account" /\ Reading(t))
    BY <1>1, <1>2, <2>2, <2>3, JudgedByNow
  <2>5. (ReadsIdentities(c) <=> Reading(t)) /\ (Reading(t) => r[1] = "account")
    BY <1>1 DEF ReadsIdentities, Reading, Wants
  <2>6. u.has \cap Recipients = {}
    <3>1. Rows(t) \cap Recipients = {}
      BY <1>2, Kinds DEF Rows, Recipients, AccountOps, GroupOps
    <3>2. t.has \subseteq Rows(t)
      BY <2>2 DEF Fit
    <3> QED
      BY <2>3, <3>1, <3>2
  <2> SUFFICES Sound(u)
    BY <1>1, <2>1, <2>2, Waiting
  <2>7. CASE t.op \in {"createInvitation", "revokeInvitation"}
    BY <2>3, <2>6, <2>7 DEF Sound
  <2>8. CASE t.op = "activateInvitation"
    <3>1. /\ ~ Reading(t) => invitations[t.on].no = t.no /\ invitations[t.on].status = "OPEN"
          /\ Reading(t) => MayInvite(t.by, invitations[t.on].role)
      BY <1>1, <1>4, <2>5, <2>8 DEF AccountCheck
    <3>2. Row("invitation", t.on) \in u.has =>
            t.no = invitations[t.on].no /\ Outstanding(invitations[t.on])
      BY <2>2, <2>3, <2>5, <2>8, <3>1, Kinds DEF Sound, Outstanding
    <3>3. Judged(u) => MayInvite(t.by, invitations[t.on].role)
      BY <2>2, <2>4, <2>8, <3>1 DEF Sound
    <3>4. /\ t.no \in 1..invitations[t.on].no
          /\ t.no = invitations[t.on].no => t.by = invitations[t.on].by
      BY <2>2, <2>8 DEF Sound
    <3> QED
      BY <2>3, <2>6, <2>8, <3>2, <3>3, <3>4 DEF Sound
  <2>9. CASE t.op = "changeRole"
    <3>1. Reading(t) =>
            /\ Exists(t.on) /\ accounts[t.by].active /\ MayChangeRole(t.by, t.on, t.arg)
            /\ ~ (LastSuperAdmin(t.on) /\ t.arg # "SUPER_ADMIN")
      BY <1>1, <1>4, <2>5, <2>9 DEF AccountCheck
    <3>2. Judged(u) =>
            /\ Exists(t.on) /\ accounts[t.by].active /\ MayChangeRole(t.by, t.on, t.arg)
            /\ ~ (LastSuperAdmin(t.on) /\ t.arg # "SUPER_ADMIN")
      BY <2>2, <2>4, <2>9, <3>1 DEF Sound
    <3> QED
      BY <2>3, <2>6, <2>9, <3>2 DEF Sound
  <2>10. CASE t.op = "setActive"
    <3>1. Reading(t) =>
            /\ Exists(t.on) /\ accounts[t.by].active /\ MayManageTarget(t.by, t.on)
            /\ accounts[t.on].active # (t.arg = "ON")
            /\ ~ (t.arg = "OFF" /\ LastSuperAdmin(t.on))
      BY <1>1, <1>4, <2>5, <2>10 DEF AccountCheck
    <3>2. Judged(u) =>
            /\ Exists(t.on) /\ accounts[t.by].active /\ MayManageTarget(t.by, t.on)
            /\ accounts[t.on].active # (t.arg = "ON")
            /\ ~ (t.arg = "OFF" /\ LastSuperAdmin(t.on))
      BY <2>2, <2>4, <2>10, <3>1 DEF Sound
    <3> QED
      BY <2>3, <2>6, <2>10, <3>2 DEF Sound
  <2>11. CASE t.op = "bootstrap"
    <3>1. /\ ~ Reading(t) => ActiveSuperAdmins = {}
          /\ Reading(t) => accounts[t.on].role = "ADMIN" /\ accounts[t.on].active
      BY <1>1, <1>4, <2>5, <2>11 DEF AccountCheck
    <3>2. Admin \in u.has => ActiveSuperAdmins = {}
      BY <2>2, <2>3, <2>5, <2>11, <3>1, Kinds DEF Sound
    <3>3. Judged(u) => accounts[t.on].role = "ADMIN" /\ accounts[t.on].active
      BY <2>2, <2>4, <2>11, <3>1 DEF Sound
    <3> QED
      BY <2>3, <2>6, <2>11, <3>2, <3>3 DEF Sound
  <2> QED
    BY <1>2, <2>7, <2>8, <2>9, <2>10, <2>11 DEF AccountOps
<1> QED
  BY <1>3, <1>4

LEMMA DeskLockKept ==
    ASSUME IInv, UNCHANGED <<accounts, invitations, requests, groupRequests, links, recipients>>,
           NEW c \in Clerks, DeskLock(c)
    PROVE  Transactions'
<1>1. PICK t, r, u : t = clerk[c] /\ r = Head(t.todo) /\ u = Locked(t, "none")
  OBVIOUS
<1>2. /\ t.op = "assign" /\ t.todo # << >> /\ ~ Held(r)
  BY <1>1 DEF DeskLock, Lock, Wants
<1>3. CASE ~ accounts[t.on].active
  BY <1>1, <1>3, Refused DEF DeskLock, Lock
<1>4. CASE accounts[t.on].active
  <2>1. Lock(c, TRUE, "none")
    BY <1>1, <1>4 DEF DeskLock, Lock
  <2>2. Fit(t) /\ Sound(t) /\ "none" \in Saws /\ t.op # "changeStatus"
    BY <1>1, <1>2 DEF IInv, Transactions, Saws
  <2>3. /\ Fit(u) /\ u.op = t.op /\ u.on = t.on /\ u.has = t.has \cup {r}
    BY <1>1, <1>2, <2>2, Taking
  <2>4. u.has \cap Recipients = {}
    BY <1>2, <2>3, Kinds DEF Rows, Recipients, Fit, GroupOps
  <2>5. Sound(u)
    BY <1>2, <1>4, <2>3, <2>4 DEF Sound
  <2> QED
    BY <1>1, <2>1, <2>2, <2>5, Waiting
<1> QED
  BY <1>3, <1>4

LEMMA TelegramLockKept ==
    ASSUME IInv, UNCHANGED <<accounts, invitations, requests, groupRequests, links, recipients>>,
           NEW c \in Clerks, TelegramLock(c)
    PROVE  Transactions'
<1>1. PICK t, r, saw, u : t = clerk[c] /\ r = Head(t.todo) /\ saw = Sees(c) /\ u = Locked(t, saw)
  OBVIOUS
<1>2. /\ t.op \in TelegramOps /\ t.todo # << >> /\ ~ Held(r)
  BY <1>1 DEF TelegramLock, Lock, Wants
<1>3. CASE ~ TelegramCheck(c)
  BY <1>1, <1>3, Refused DEF TelegramLock, Lock
<1>4. CASE TelegramCheck(c)
  <2>1. Lock(c, TRUE, saw)
    BY <1>1, <1>4 DEF TelegramLock, Lock
  <2>2. Fit(t) /\ Sound(t) /\ t.op # "changeStatus"
    BY <1>1, <1>2 DEF IInv, Transactions, TelegramOps, GroupOps
  <2>3. saw = (IF r \in Recipients THEN recipients[r].state ELSE t.saw) /\ saw \in Saws
    <3>1. saw = (IF r \in Recipients THEN recipients[r].state ELSE t.saw)
      BY <1>1 DEF Sees, Wants
    <3>2. t.saw \in Saws
      BY <2>2 DEF Fit, Tasks
    <3>3. r \in Recipients => recipients[r].state \in Saws
      BY DEF IInv, Tables, TelegramTables, RequestTable, LinkTable, RecipientTable, Saws
    <3> QED
      BY <3>1, <3>2, <3>3
  <2>4. /\ Fit(u) /\ r \in Rows(t) /\ r \in AllRows
        /\ u.op = t.op /\ u.by = t.by /\ u.on = t.on /\ u.arg = t.arg /\ u.no = t.no
        /\ u.has = t.has \cup {r} /\ u.saw = saw /\ Left(t) = Left(u) \cup {r} /\ u.todo = Tail(t.todo)
    <3>1. u.todo = Tail(t.todo)
      BY <1>1, <2>2 DEF Locked, Fit, Tasks
    <3>2. /\ Fit(t) /\ t.todo # << >> /\ r = Head(t.todo) /\ saw \in Saws
          /\ t.op # "changeStatus" /\ u = Locked(t, saw)
      BY <1>1, <1>2, <2>2, <2>3
    <3> QED
      BY ONLY <3>1, <3>2, Taking
  <2>5. Judged(u) => (r[1] # "account" /\ Judged(t)) \/ (r[1] = "account" /\ Reading(t))
    BY <1>1, <1>2, <2>2, <2>4, JudgedByNow
  <2>6. (ReadsIdentities(c) <=> Reading(t)) /\ (Reading(t) => r[1] = "account") /\ Wants(c) = r
    BY <1>1 DEF ReadsIdentities, Reading, Wants
  <2>7. \A p, q \in Rows(t) \cap Recipients : p = q
    BY <1>2, Kinds DEF Rows, Recipients, TelegramOps, GroupOps
  <2>8. \A q \in u.has \cap Recipients : u.saw = recipients[q].state
    <3> SUFFICES ASSUME NEW q \in u.has \cap Recipients
                 PROVE  u.saw = recipients[q].state
      OBVIOUS
    <3>1. q \in Rows(t) /\ t.has \subseteq Rows(t)
      BY <2>2, <2>4 DEF Fit
    <3>2. CASE r \in Recipients
      <4>1. q = r
        BY <2>4, <2>7, <3>1, <3>2
      <4> QED
        BY <2>3, <2>4, <3>2, <4>1
    <3>3. CASE r \notin Recipients
      BY <2>2, <2>3, <2>4, <3>3 DEF Sound
    <3> QED
      BY <3>2, <3>3
  <2> SUFFICES Sound(u)
    BY <1>1, <2>1, <2>2, <2>3, Waiting
  <2>9. CASE t.op = "consume"
    <3>1. /\ ~ Reading(t) => Stands(requests[t.on], t.no)
          /\ Reading(t) => MayUseOwn(t.on)
      BY <1>1, <1>4, <2>6, <2>9 DEF TelegramCheck, GroupOps
    <3>2. Row("request", t.on) \in u.has =>
            t.no = requests[t.on].no /\ Outstanding(requests[t.on])
      BY <2>2, <2>4, <2>6, <2>9, <3>1, Kinds DEF Sound, Outstanding, Stands
    <3>3. Judged(u) => MayUseOwn(t.on)
      BY <2>2, <2>5, <2>9, <3>1 DEF Sound
    <3> QED
      BY <2>4, <2>8, <2>9, <3>2, <3>3 DEF Sound
  <2>10. CASE t.op = "consumeGroup"
    <3>1. /\ r[1] = "groupRequest" => Stands(groupRequests[t.on], t.no)
          /\ Reading(t) => ActorAllowed(t.on) /\ t.by \in Linked(t.on)
      BY <1>1, <1>4, <2>6, <2>10 DEF TelegramCheck, GroupOps
    <3>2. Row("groupRequest", t.on) \in u.has =>
            t.no = groupRequests[t.on].no /\ Outstanding(groupRequests[t.on])
      BY <2>2, <2>4, <2>10, <3>1, Kinds DEF Sound, Outstanding, Stands
    <3>3. Judged(u) => ActorAllowed(t.on) /\ t.by \in Linked(t.on)
      BY <2>2, <2>5, <2>10, <3>1 DEF Sound
    <3> QED
      BY <2>4, <2>8, <2>10, <3>2, <3>3 DEF Sound
  <2>11. CASE t.op \notin {"consume", "consumeGroup"}
    BY <1>2, <2>4, <2>8, <2>11 DEF Sound, TelegramOps, GroupOps
  <2> QED
    BY <2>9, <2>10, <2>11
<1> QED
  BY <1>3, <1>4
-----------------------------------------------------------------------------
(* A transaction commits: what it writes are rows that it has locked.      *)

\* Only the rows in R are written.
OnlyThose(R) ==
    /\ \A a \in Accounts :
          /\ Row("account", a) \notin R => accounts'[a] = accounts[a] /\ Linked(a)' = Linked(a)
          /\ Row("invitation", a) \notin R => invitations'[a] = invitations[a]
          /\ Row("request", a) \notin R => requests'[a] = requests[a]
          /\ Row("groupRequest", a) \notin R => groupRequests'[a] = groupRequests[a]
    /\ Admin \notin R => ActiveSuperAdmins' = ActiveSuperAdmins
    /\ \A r \in Recipients : r \notin R => recipients'[r] = recipients[r]

Leaves(R) == \A H : H \cap R = {} => Undisturbed(H)

LEMMA OthersAreLeft ==
    ASSUME NEW R, OnlyThose(R)
    PROVE  Leaves(R)
<1> SUFFICES ASSUME NEW H, H \cap R = {}
             PROVE  Undisturbed(H)
  BY DEF Leaves
<1>1. ASSUME NEW a \in Accounts
      PROVE  /\ Row("account", a) \in H =>
                  /\ Exists(a) => accounts'[a] = accounts[a]
                  /\ accounts[a].active => accounts'[a].active
                  /\ Linked(a) \subseteq Linked(a)'
             /\ Row("invitation", a) \in H => SameToken(invitations[a], invitations'[a])
             /\ Row("request", a) \in H => SameToken(requests[a], requests'[a])
             /\ Row("groupRequest", a) \in H => SameToken(groupRequests[a], groupRequests'[a])
  <2>1. Row("account", a) \in H =>
            /\ Exists(a) => accounts'[a] = accounts[a]
            /\ accounts[a].active => accounts'[a].active
            /\ Linked(a) \subseteq Linked(a)'
    BY DEF OnlyThose
  <2>2. Row("invitation", a) \in H => SameToken(invitations[a], invitations'[a])
    BY DEF OnlyThose, SameToken
  <2>3. Row("request", a) \in H => SameToken(requests[a], requests'[a])
    BY DEF OnlyThose, SameToken
  <2>4. Row("groupRequest", a) \in H => SameToken(groupRequests[a], groupRequests'[a])
    BY DEF OnlyThose, SameToken
  <2> QED
    BY <2>1, <2>2, <2>3, <2>4
<1>2. Admin \in H => ActiveSuperAdmins' = ActiveSuperAdmins
  BY DEF OnlyThose
<1>3. \A r \in Recipients \cap H : recipients'[r].state = recipients[r].state
  BY DEF OnlyThose
<1> QED
  BY <1>1, <1>2, <1>3 DEF Undisturbed

LEMMA Decided ==
    ASSUME IInv, NEW c \in Clerks, NEW t, t = clerk[c], t.todo = << >>
    PROVE  Fit(t) /\ Sound(t) /\ Judged(t) /\ t.has = Rows(t)
<1>1. Fit(t) /\ Sound(t)
  BY DEF IInv, Transactions
<1>2. Left(t) = {}
  BY EmptySeq DEF Left, ToSet
<1> QED
  BY <1>1, <1>2 DEF Fit, Judged

LEMMA Committing ==
    ASSUME IInv, NEW c \in Clerks, NEW t, t = clerk[c], t.todo = << >>, Ends(c),
           Issued, NEW R, R = Rows(t), Leaves(R)
    PROVE  Transactions'
<1>1. clerk[c].has = R
  BY Decided
<1>2. ASSUME NEW d \in Clerks \ {c}
      PROVE  Undisturbed(clerk[d].has)
  BY <1>1 DEF IInv, Transactions, Exclusive, Leaves
<1> QED
  BY <1>2, OneEnds DEF IInv

\* Invitations that stay are what they were.
LEMMA IssuedBefore ==
    ASSUME IInv, invitations' = invitations
    PROVE  Issued
  BY DEF IInv, Tables, AccountTables, InvitationTable, InvitationRows, Issued

\* An invitation is written, or used, or withdrawn.
LEMMA OneInvitation ==
    ASSUME IInv, agenda' = agenda, NEW on \in Accounts, NEW old, old = invitations[on],
           NEW new \in InvitationRows, invitations' = [invitations EXCEPT ![on] = new],
           old.no <= new.no, new.no <= agenda.tokens[on], new.no > 0 => new.by \in Accounts,
           Outstanding(new) => new.role \in Roles,
           new.no = old.no => new.by = old.by /\ new.role = old.role
    PROVE  /\ Issued /\ InvitationTable' /\ invitations'[on] = new
           /\ \A a \in Accounts : a # on => invitations'[a] = invitations[a]
<1>1. /\ invitations \in [Accounts -> InvitationRows] /\ agenda.tokens \in [Accounts -> Nat]
      /\ \A a \in Accounts : /\ invitations[a].no \in Nat /\ invitations[a].no <= agenda.tokens[a]
                              /\ (invitations[a].no > 0 => invitations[a].by \in Accounts)
                              /\ (Outstanding(invitations[a]) => invitations[a].role \in Roles)
  BY DEF IInv, Tables, AccountTables, PeopleTable, InvitationTable, InvitationRows
<1>2. /\ invitations' \in [Accounts -> InvitationRows] /\ invitations'[on] = new
      /\ \A a \in Accounts : a # on => invitations'[a] = invitations[a]
  BY <1>1
<1>3. new.no \in Nat
  BY DEF InvitationRows
<1>4. ASSUME NEW a \in Accounts
      PROVE  /\ invitations'[a].no \in Nat
             /\ invitations[a].no <= invitations'[a].no
             /\ (invitations'[a].no = invitations[a].no =>
                  invitations'[a].by = invitations[a].by /\ invitations'[a].role = invitations[a].role)
             /\ invitations'[a].no <= agenda.tokens[a]
             /\ invitations'[a].no > 0 => invitations'[a].by \in Accounts
             /\ Outstanding(invitations'[a]) => invitations'[a].role \in Roles
  <2>1. CASE a # on
    BY <1>1, <1>2, <2>1
  <2>2. CASE a = on
    BY <1>2, <1>3, <2>2
  <2> QED
    BY <2>1, <2>2
<1>5. Issued
  BY <1>1, <1>4 DEF Issued
<1>6. InvitationTable'
  BY <1>2, <1>4 DEF InvitationTable
<1> QED
  BY <1>2, <1>5, <1>6

\* Only its status changes.
LEMMA InvitationMarked ==
    ASSUME IInv, agenda' = agenda, NEW on \in Accounts, NEW status, status \in Progressed,
           Outstanding(invitations[on]),
           invitations' = [invitations EXCEPT ![on].status = status]
    PROVE  /\ Issued /\ InvitationTable' /\ invitations'[on].status = status
           /\ \A a \in Accounts : a # on => invitations'[a] = invitations[a]
<1>1. PICK old, new : old = invitations[on] /\ new = [old EXCEPT !.status = status]
  OBVIOUS
<1>2. old \in InvitationRows /\ old.no <= agenda.tokens[on] /\ (old.no > 0 => old.by \in Accounts) /\ old.role \in Roles
  BY <1>1 DEF IInv, Tables, AccountTables, InvitationTable
<1>3. /\ new = [no |-> old.no, status |-> status, by |-> old.by, role |-> old.role]
      /\ new \in InvitationRows /\ new.no = old.no /\ new.by = old.by /\ new.role = old.role /\ old.no \in Nat
  BY <1>1, <1>2 DEF InvitationRows
<1>4. invitations' = [invitations EXCEPT ![on] = new]
  BY <1>1
<1>5. /\ Issued /\ InvitationTable' /\ invitations'[on] = new
      /\ \A a \in Accounts : a # on => invitations'[a] = invitations[a]
  <2>1. /\ IInv /\ agenda' = agenda /\ on \in Accounts /\ old = invitations[on] /\ new \in InvitationRows
        /\ invitations' = [invitations EXCEPT ![on] = new]
        /\ old.no <= new.no /\ new.no <= agenda.tokens[on] /\ (new.no > 0 => new.by \in Accounts)
        /\ (Outstanding(new) => new.role \in Roles)
        /\ (new.no = old.no => new.by = old.by /\ new.role = old.role)
    BY <1>1, <1>2, <1>3, <1>4
  <2> QED
    BY ONLY <2>1, OneInvitation
<1>6. new.status = status
  BY <1>3
<1> QED
  BY <1>5, <1>6

LEMMA SessionsStay ==
    ASSUME IInv, UNCHANGED <<agenda, sessions>>
    PROVE  SessionTable'
  BY DEF IInv, Tables, AccountTables, SessionTable

LEMMA InvitationsStay ==
    ASSUME IInv, UNCHANGED <<agenda, invitations>>
    PROVE  InvitationTable'
  BY DEF IInv, Tables, AccountTables, InvitationTable, Outstanding

LEMMA PeopleStay ==
    ASSUME IInv, UNCHANGED <<agenda, accounts>>
    PROVE  PeopleTable'
  BY DEF IInv, Tables, AccountTables, PeopleTable

\* An account is written.
LEMMA OnePerson ==
    ASSUME IInv, agenda' = agenda, NEW on \in Accounts, NEW p \in People,
           accounts' = [accounts EXCEPT ![on] = p]
    PROVE  PeopleTable' /\ accounts'[on] = p /\ \A a \in Accounts : a # on => accounts'[a] = accounts[a]
  BY DEF IInv, Tables, AccountTables, PeopleTable

LEMMA CommitInvitationKept ==
    ASSUME IInv, UNCHANGED <<requests, groupRequests, links, recipients, agenda>>,
           NEW c \in Clerks, CommitInvitation(c)
    PROVE  Transactions' /\ AccountTables'
<1>1. PICK t, old : t = clerk[c] /\ old = invitations[t.on]
  OBVIOUS
<1>2. t.op = "createInvitation" /\ t.todo = << >> /\ Ends(c)
  BY <1>1 DEF CommitInvitation, Ready
<1>3. t.on \in Accounts /\ t.by \in Accounts /\ t.arg \in Roles \ {"SUPER_ADMIN"}
  BY <1>1, <1>2, Decided DEF Fit, Addressed
<1>4. PICK new : new = [no |-> old.no + 1, status |-> "OPEN", by |-> t.by, role |-> t.arg]
  OBVIOUS
<1>5. /\ old.no < agenda.tokens[t.on] /\ UNCHANGED <<accounts, sessions>>
      /\ invitations' = IF old.status = "OPEN" THEN invitations ELSE [invitations EXCEPT ![t.on] = new]
  BY <1>1, <1>4 DEF CommitInvitation
<1>6. old.no \in Nat /\ agenda.tokens[t.on] \in Nat
  BY <1>1, <1>3 DEF IInv, Tables, AccountTables, PeopleTable, InvitationTable, InvitationRows
<1>7. /\ new \in InvitationRows /\ new.no = old.no + 1 /\ new.by = t.by /\ new.role = t.arg
  BY <1>3, <1>4, <1>6 DEF InvitationRows, Progressed
<1>8. Issued /\ InvitationTable' /\ \A a \in Accounts : a # t.on => invitations'[a] = invitations[a]
  <2>1. CASE old.status = "OPEN"
    BY <1>5, <2>1, IssuedBefore, InvitationsStay
  <2>2. CASE old.status # "OPEN"
    <3>1. /\ invitations' = [invitations EXCEPT ![t.on] = new] /\ old.no <= new.no /\ new.no # old.no
          /\ new.no <= agenda.tokens[t.on] /\ new.by \in Accounts /\ new.role \in Roles
      BY <1>3, <1>5, <1>6, <1>7, <2>2
    <3> QED
      BY <1>1, <1>3, <1>7, <3>1, OneInvitation
  <2> QED
    BY <2>1, <2>2
<1>9. PICK R : R = Rows(t)
  OBVIOUS
<1>10. Row("invitation", t.on) \in R
  BY <1>2, <1>9 DEF Rows, GroupOps
<1>11. OnlyThose(R)
  BY <1>5, <1>8, <1>10 DEF OnlyThose, Linked, ActiveSuperAdmins
<1>12. Transactions'
  BY <1>1, <1>2, <1>8, <1>9, <1>11, OthersAreLeft, Committing
<1> QED
  BY <1>5, <1>8, <1>12, PeopleStay, SessionsStay DEF AccountTables

\* An account appears that no lock is on: nobody relies on its absence.
LEMMA Appearing ==
    ASSUME IInv, UNCHANGED <<requests, groupRequests, links, recipients>>, NEW on \in Accounts, ~ Exists(on),
           NEW p \in People, p.active, p.role # "SUPER_ADMIN", accounts' = [accounts EXCEPT ![on] = p],
           NEW R, \A a \in Accounts : Row("invitation", a) \notin R => invitations'[a] = invitations[a]
    PROVE  Leaves(R)
<1>1. accounts'[on] = p /\ \A a \in Accounts : a # on => accounts'[a] = accounts[a]
  BY DEF IInv, Tables, AccountTables, PeopleTable
<1>2. ActiveSuperAdmins' = ActiveSuperAdmins
  BY <1>1 DEF ActiveSuperAdmins, Exists
<1>3. \A a : Linked(a)' = Linked(a)
  BY DEF Linked
<1> SUFFICES ASSUME NEW H, H \cap R = {}
             PROVE  Undisturbed(H)
  BY DEF Leaves
<1>4. \A a \in Accounts : /\ Exists(a) => accounts'[a] = accounts[a]
                          /\ accounts[a].active => accounts'[a].active
  BY <1>1
<1>5. \A a \in Accounts : Row("invitation", a) \in H => SameToken(invitations[a], invitations'[a])
  BY DEF SameToken
<1>6. \A a \in Accounts : /\ SameToken(requests[a], requests'[a])
                          /\ SameToken(groupRequests[a], groupRequests'[a])
  BY DEF SameToken
<1> QED
  BY <1>2, <1>3, <1>4, <1>5, <1>6 DEF Undisturbed

LEMMA CommitActivationKept ==
    ASSUME IInv, UNCHANGED <<requests, groupRequests, links, recipients, agenda>>,
           NEW c \in Clerks, CommitActivation(c)
    PROVE  Transactions' /\ AccountTables'
<1>1. PICK t, R : t = clerk[c] /\ R = Rows(t)
  OBVIOUS
<1>2. t.op = "activateInvitation" /\ t.todo = << >> /\ Ends(c) /\ sessions' = sessions
  BY <1>1 DEF CommitActivation, Ready
<1>3. Fit(t) /\ Sound(t) /\ Judged(t) /\ t.has = R
  BY <1>1, <1>2, Decided
<1>4. t.on \in Accounts /\ t.by \in Accounts
  BY <1>2, <1>3 DEF Fit, Addressed
<1>5. Row("invitation", t.on) \in R
  BY <1>1, <1>2 DEF Rows, GroupOps
<1>6. Outstanding(invitations[t.on])
  BY <1>2, <1>3, <1>5 DEF Sound
<1>7. CASE Exists(t.on)
  <2>1. UNCHANGED <<accounts, invitations>>
    BY <1>1, <1>7 DEF CommitActivation
  <2>2. OnlyThose(R)
    BY <2>1 DEF OnlyThose, Linked, ActiveSuperAdmins
  <2>3. Transactions'
    BY <1>1, <1>2, <2>1, <2>2, IssuedBefore, OthersAreLeft, Committing
  <2> QED
    BY <1>2, <2>1, <2>3, PeopleStay, InvitationsStay, SessionsStay DEF AccountTables
<1>8. CASE ~ Exists(t.on)
  <2>1. PICK p, status : p = [role |-> invitations[t.on].role, active |-> TRUE] /\ status = "CONSUMED"
    OBVIOUS
  <2>2. /\ accounts' = [accounts EXCEPT ![t.on] = p]
        /\ invitations' = [invitations EXCEPT ![t.on].status = status]
    BY <1>1, <1>8, <2>1 DEF CommitActivation
  <2>3. invitations[t.on].role \in Roles \ {"SUPER_ADMIN"}
    BY <1>4, <1>6 DEF IInv, Tables, AccountTables, InvitationTable, InvitationRows
  <2>4. p \in People /\ p.active /\ p.role # "SUPER_ADMIN" /\ status \in Progressed
    BY <2>1, <2>3 DEF People, Progressed
  <2>5. /\ Issued /\ InvitationTable'
        /\ \A a \in Accounts : a # t.on => invitations'[a] = invitations[a]
    BY <1>4, <1>6, <2>2, <2>4, InvitationMarked
  <2>6. \A a \in Accounts : Row("invitation", a) \notin R => invitations'[a] = invitations[a]
    BY <1>5, <2>5
  <2>7. Leaves(R)
    BY <1>4, <1>8, <2>2, <2>4, <2>6, Appearing
  <2>8. Transactions'
    BY <1>1, <1>2, <2>5, <2>7, Committing
  <2>9. PeopleTable'
    BY <1>4, <2>2, <2>4, OnePerson
  <2> QED
    BY <1>2, <2>5, <2>8, <2>9, SessionsStay DEF AccountTables
<1> QED
  BY <1>7, <1>8

LEMMA CommitRevocationKept ==
    ASSUME IInv, UNCHANGED <<requests, groupRequests, links, recipients, agenda>>,
           NEW c \in Clerks, CommitRevocation(c)
    PROVE  Transactions' /\ AccountTables'
<1>1. PICK t, R, status : t = clerk[c] /\ R = Rows(t) /\ status = "REVOKED"
  OBVIOUS
<1>2. t.op = "revokeInvitation" /\ t.todo = << >> /\ Ends(c) /\ UNCHANGED <<accounts, sessions>>
  BY <1>1 DEF CommitRevocation, Ready
<1>3. t.on \in Accounts
  BY <1>1, <1>2, Decided DEF Fit, Addressed
<1>4. Row("invitation", t.on) \in R
  BY <1>1, <1>2 DEF Rows, GroupOps
<1>5. Issued /\ InvitationTable' /\ \A a \in Accounts : a # t.on => invitations'[a] = invitations[a]
  <2>1. CASE invitations' = invitations
    BY <2>1, IssuedBefore, InvitationsStay
  <2>2. CASE invitations' # invitations
    <3>1. Outstanding(invitations[t.on]) /\ invitations' = [invitations EXCEPT ![t.on].status = status]
      BY <1>1, <2>2 DEF CommitRevocation
    <3>2. status \in Progressed
      BY <1>1 DEF Progressed
    <3> QED
      BY <1>3, <3>1, <3>2, InvitationMarked
  <2> QED
    BY <2>1, <2>2
<1>6. OnlyThose(R)
  BY <1>2, <1>4, <1>5 DEF OnlyThose, Linked, ActiveSuperAdmins
<1>7. Transactions'
  BY <1>1, <1>2, <1>5, <1>6, OthersAreLeft, Committing
<1> QED
  BY <1>2, <1>5, <1>7, PeopleStay, SessionsStay DEF AccountTables

\* An account changes under its own lock and that of the administration.
LEMMA ChangedUnderLock ==
    ASSUME IInv, UNCHANGED <<requests, groupRequests, links, recipients, agenda, invitations>>,
           NEW c \in Clerks, NEW t, t = clerk[c], t.op \in {"changeRole", "setActive", "bootstrap"},
           t.todo = << >>, Ends(c), NEW on, on = t.on, NEW p \in People, accounts' = [accounts EXCEPT ![on] = p]
    PROVE  Transactions' /\ PeopleTable' /\ InvitationTable'
<1>1. PICK R : R = Rows(t)
  OBVIOUS
<1>2. on \in Accounts /\ Fit(t)
  BY Decided DEF Fit, Addressed
<1>3. Row("account", on) \in R /\ Admin \in R
  BY <1>1 DEF Rows, GroupOps
<1>4. PeopleTable' /\ \A a \in Accounts : a # on => accounts'[a] = accounts[a]
  BY <1>2, OnePerson
<1>5. OnlyThose(R)
  BY <1>3, <1>4 DEF OnlyThose, Linked
<1>6. Transactions'
  BY <1>1, <1>5, IssuedBefore, OthersAreLeft, Committing
<1> QED
  BY <1>4, <1>6, InvitationsStay

LEMMA CommitChangeRoleKept ==
    ASSUME IInv, UNCHANGED <<requests, groupRequests, links, recipients, agenda>>,
           NEW c \in Clerks, CommitChangeRole(c)
    PROVE  Transactions' /\ AccountTables'
<1>1. PICK t, on, p : /\ t = clerk[c] /\ on = t.on
                      /\ p = [role |-> t.arg, active |-> accounts[on].active]
  OBVIOUS
<1>2. t.op = "changeRole" /\ t.todo = << >> /\ Ends(c) /\ UNCHANGED <<invitations, sessions>>
  BY <1>1 DEF CommitChangeRole, Ready
<1>3. on \in Accounts /\ t.arg \in Roles
  BY <1>1, <1>2, Decided DEF Fit, Addressed
<1>4. accounts[on] \in People
  BY <1>3 DEF IInv, Tables, AccountTables, PeopleTable
<1>5. p \in People /\ [accounts[on] EXCEPT !.role = t.arg] = p
  BY <1>1, <1>3, <1>4 DEF People
<1>6. accounts' = [accounts EXCEPT ![on] = p]
  BY <1>1, <1>5 DEF CommitChangeRole
<1>7. Transactions' /\ PeopleTable' /\ InvitationTable'
  BY <1>1, <1>2, <1>5, <1>6, ChangedUnderLock
<1> QED
  BY <1>2, <1>7, SessionsStay DEF AccountTables

LEMMA CommitBootstrapKept ==
    ASSUME IInv, UNCHANGED <<requests, groupRequests, links, recipients, agenda>>,
           NEW c \in Clerks, CommitBootstrap(c)
    PROVE  Transactions' /\ AccountTables'
<1>1. PICK t, on, p : /\ t = clerk[c] /\ on = t.on
                      /\ p = [role |-> "SUPER_ADMIN", active |-> accounts[on].active]
  OBVIOUS
<1>2. t.op = "bootstrap" /\ t.todo = << >> /\ Ends(c) /\ UNCHANGED <<invitations, sessions>>
  BY <1>1 DEF CommitBootstrap, Ready
<1>3. on \in Accounts
  BY <1>1, <1>2, Decided DEF Fit, Addressed
<1>4. accounts[on] \in People /\ "SUPER_ADMIN" \in Roles
  BY <1>3, StaffAssumption DEF IInv, Tables, AccountTables, PeopleTable, StaffAssumption
<1>5. p \in People /\ [accounts[on] EXCEPT !.role = "SUPER_ADMIN"] = p
  BY <1>1, <1>4 DEF People
<1>6. accounts' = [accounts EXCEPT ![on] = p]
  BY <1>1, <1>5 DEF CommitBootstrap
<1>7. Transactions' /\ PeopleTable' /\ InvitationTable'
  BY <1>1, <1>2, <1>5, <1>6, ChangedUnderLock
<1> QED
  BY <1>2, <1>7, SessionsStay DEF AccountTables

\* The sessions of one account are written.
LEMMA SomeonesSessions ==
    ASSUME IInv, agenda' = agenda, NEW a \in Accounts, NEW s \in Seq(SessionRows), Len(s) <= agenda.tokens[a],
           sessions' = [sessions EXCEPT ![a] = s]
    PROVE  SessionTable'
  BY DEF IInv, Tables, AccountTables, SessionTable

\* Each session becomes another.
LEMMA Rewritten ==
    ASSUME NEW s \in Seq(SessionRows), NEW f, DOMAIN f = DOMAIN s,
           \A i \in DOMAIN s : f[i] \in SessionRows, f = [i \in DOMAIN s |-> f[i]]
    PROVE  f \in Seq(SessionRows) /\ Len(f) = Len(s)
<1>1. PICK n \in Nat : n = Len(s)
  BY LenProperties
<1>2. DOMAIN s = 1..n
  BY <1>1, LenProperties
<1>3. f \in [1..n -> SessionRows]
  BY <1>2
<1>4. f \in Seq(SessionRows)
  BY <1>3
<1>5. DOMAIN f = 1..Len(f) /\ Len(f) \in Nat
  BY <1>4, LenProperties
<1> QED
  BY <1>1, <1>2, <1>4, <1>5

LEMMA Cutting ==
    ASSUME IInv, NEW a \in Accounts
    PROVE  SessionsCut(a) \in Seq(SessionRows) /\ Len(SessionsCut(a)) = Len(sessions[a])
<1>1. PICK s, f : s = sessions[a] /\ f = SessionsCut(a)
  OBVIOUS
<1>2. s \in Seq(SessionRows)
  BY <1>1 DEF IInv, Tables, AccountTables, SessionTable
<1>3. f = [i \in DOMAIN s |-> [s[i] EXCEPT !.status = "REVOKED"]]
  BY <1>1 DEF SessionsCut
<1>4. \A i \in DOMAIN s : f[i] \in SessionRows
  <2> SUFFICES ASSUME NEW i \in DOMAIN s PROVE f[i] \in SessionRows
    OBVIOUS
  <2>1. s[i] \in SessionRows
    BY <1>2, LenProperties
  <2> QED
    BY <1>3, <2>1 DEF SessionRows
<1>5. DOMAIN f = DOMAIN s /\ f = [i \in DOMAIN s |-> f[i]]
  BY <1>3
<1>6. f \in Seq(SessionRows) /\ Len(f) = Len(s)
  BY <1>2, <1>4, <1>5, Rewritten
<1> QED
  BY <1>1, <1>6

LEMMA CommitSetActiveKept ==
    ASSUME IInv, UNCHANGED <<requests, groupRequests, links, recipients, agenda>>,
           NEW c \in Clerks, CommitSetActive(c)
    PROVE  Transactions' /\ AccountTables'
<1>1. PICK t, on : t = clerk[c] /\ on = t.on
  OBVIOUS
<1>2. t.op = "setActive" /\ t.todo = << >> /\ Ends(c) /\ UNCHANGED invitations
  BY <1>1 DEF CommitSetActive, Ready
<1>3. on \in Accounts
  BY <1>1, <1>2, Decided DEF Fit, Addressed
<1>4. accounts[on] \in People /\ accounts \in [Accounts -> People]
  BY <1>3 DEF IInv, Tables, AccountTables, PeopleTable
<1>5. ASSUME NEW switch \in BOOLEAN, accounts' = [accounts EXCEPT ![on].active = switch]
      PROVE  Transactions' /\ PeopleTable' /\ InvitationTable'
  <2>1. PICK p : p = [role |-> accounts[on].role, active |-> switch]
    OBVIOUS
  <2>2. p \in People /\ [accounts[on] EXCEPT !.active = switch] = p
    BY <1>4, <2>1 DEF People
  <2>3. accounts' = [accounts EXCEPT ![on] = p]
    BY <1>5, <2>2
  <2> QED
    BY <1>1, <1>2, <2>2, <2>3, ChangedUnderLock
<1>6. CASE UNCHANGED <<accounts, sessions>>
  <2>1. PICK R : R = Rows(t)
    OBVIOUS
  <2>2. OnlyThose(R)
    BY <1>2, <1>6 DEF OnlyThose, Linked, ActiveSuperAdmins
  <2>3. Transactions'
    BY <1>1, <1>2, <2>1, <2>2, IssuedBefore, OthersAreLeft, Committing
  <2> QED
    BY <1>2, <1>6, <2>3, PeopleStay, InvitationsStay, SessionsStay DEF AccountTables
<1>7. CASE accounts' = [accounts EXCEPT ![on].active = FALSE] /\ sessions' = [sessions EXCEPT ![on] = SessionsCut(on)]
  <2>1. Transactions' /\ PeopleTable' /\ InvitationTable'
    BY <1>5, <1>7
  <2>2. PICK s : s = SessionsCut(on)
    OBVIOUS
  <2>3. s \in Seq(SessionRows) /\ Len(s) <= agenda.tokens[on]
    BY <1>3, <2>2, Cutting DEF IInv, Tables, AccountTables, SessionTable
  <2>4. SessionTable'
    BY <1>3, <1>7, <2>2, <2>3, SomeonesSessions
  <2> QED
    BY <2>1, <2>4 DEF AccountTables
<1>8. CASE accounts' = [accounts EXCEPT ![on].active = TRUE] /\ sessions' = sessions
  <2>1. Transactions' /\ PeopleTable' /\ InvitationTable'
    BY <1>5, <1>8
  <2> QED
    BY <1>8, <2>1, SessionsStay DEF AccountTables
<1> QED
  BY <1>1, <1>6, <1>7, <1>8 DEF CommitSetActive
-----------------------------------------------------------------------------
(* What needs no lock: sessions, the command, and the passing of time.     *)

LEMMA SessionsOf ==
    ASSUME IInv, NEW a \in Accounts
    PROVE  sessions[a] \in Seq(SessionRows) /\ Len(sessions[a]) \in Nat /\ Len(sessions[a]) <= agenda.tokens[a]
           /\ DOMAIN sessions[a] = 1..Len(sessions[a]) /\ \A i \in DOMAIN sessions[a] : sessions[a][i] \in SessionRows
<1>1. sessions[a] \in Seq(SessionRows) /\ Len(sessions[a]) <= agenda.tokens[a]
  BY DEF IInv, Tables, AccountTables, SessionTable
<1> QED
  BY <1>1, LenProperties

LEMMA SessionTableInBeginning ==
    ASSUME IInv, agenda' = agenda, NEW c \in Clerks, BeginSetActive(c)
    PROVE  SessionTable'
<1>1. sessions' = [a \in Accounts |->
            [i \in DOMAIN sessions[a] |-> [sessions[a][i] EXCEPT !.after = @ \ {c}]]]
  BY DEF BeginSetActive
<1>2. ASSUME NEW a \in Accounts
      PROVE  sessions'[a] \in Seq(SessionRows) /\ Len(sessions'[a]) <= agenda.tokens[a]
  <2>1. PICK s, f : s = sessions[a] /\ f = sessions'[a]
    OBVIOUS
  <2>2. s \in Seq(SessionRows) /\ Len(s) <= agenda.tokens[a] /\ \A i \in DOMAIN s : s[i] \in SessionRows
    BY <2>1, SessionsOf
  <2>3. f = [i \in DOMAIN s |-> [s[i] EXCEPT !.after = s[i].after \ {c}]]
    BY <1>1, <2>1
  <2>4. \A i \in DOMAIN s : f[i] \in SessionRows
    BY <2>2, <2>3 DEF SessionRows
  <2>5. DOMAIN f = DOMAIN s /\ f = [i \in DOMAIN s |-> f[i]]
    BY <2>3
  <2>6. f \in Seq(SessionRows) /\ Len(f) = Len(s)
    BY <2>2, <2>4, <2>5, Rewritten
  <2> QED
    BY <2>1, <2>2, <2>6
<1>3. DOMAIN sessions' = Accounts
  BY <1>1
<1>4. sessions' = [a \in Accounts |-> sessions'[a]]
  BY <1>1, <1>3
<1> QED
  BY <1>2, <1>4 DEF SessionTable

LEMMA CreateSessionKept ==
    ASSUME IInv, UNCHANGED <<requests, groupRequests, links, recipients, agenda>>,
           NEW c \in Clerks, CreateSession(c)
    PROVE  Transactions' /\ AccountTables'
<1>1. PICK t, a : t = clerk[c] /\ a = t.on
  OBVIOUS
<1>2. /\ t.op = "login" /\ t.todo = << >> /\ Len(sessions[a]) < agenda.tokens[a] /\ UNCHANGED <<accounts, invitations>>
      /\ clerk' = [clerk EXCEPT ![c] = Idle]
  BY <1>1 DEF CreateSession, Ready, Ends
<1>3. a \in Accounts
  BY <1>1, <1>2, Decided DEF Fit, Addressed
<1>4. Transactions'
  BY <1>2, Refused
<1>5. PICK after \in SUBSET Dated(a) :
         sessions' = [sessions EXCEPT ![a] = Append(sessions[a], [status |-> "OPEN", after |-> after])]
  BY <1>1 DEF CreateSession
<1>6. PICK row, s, n : row = [status |-> "OPEN", after |-> after] /\ s = Append(sessions[a], row) /\ n = Len(sessions[a])
  OBVIOUS
<1>7. row \in SessionRows
  BY <1>5, <1>6 DEF SessionRows, Dated
<1>8. sessions[a] \in Seq(SessionRows) /\ n \in Nat /\ n < agenda.tokens[a] /\ agenda.tokens[a] \in Nat
  BY <1>2, <1>3, <1>6, SessionsOf DEF IInv, Tables, AccountTables, PeopleTable
<1>9. s \in Seq(SessionRows) /\ Len(s) = n + 1
  BY <1>6, <1>7, <1>8
<1>10. SessionTable'
  <2>1. Len(s) <= agenda.tokens[a]
    BY <1>8, <1>9
  <2>2. sessions' = [sessions EXCEPT ![a] = s]
    BY <1>5, <1>6
  <2> QED
    BY <1>3, <1>9, <2>1, <2>2, SomeonesSessions
<1> QED
  BY <1>2, <1>4, <1>10, PeopleStay, InvitationsStay DEF AccountTables

\* A session is marked.
LEMMA SessionMarked ==
    ASSUME IInv, UNCHANGED <<accounts, invitations, requests, groupRequests, links, recipients, agenda, clerk>>,
           NEW a \in Accounts, NEW i \in DOMAIN sessions[a], NEW status, status \in {"OVER", "REVOKED"},
           sessions' = [sessions EXCEPT ![a][i].status = status]
    PROVE  Transactions' /\ AccountTables'
<1>1. PICK s, row, f : s = sessions[a] /\ row = [s[i] EXCEPT !.status = status] /\ f = [s EXCEPT ![i] = row]
  OBVIOUS
<1>2. s \in Seq(SessionRows) /\ Len(s) <= agenda.tokens[a] /\ i \in 1..Len(s) /\ s[i] \in SessionRows
  BY <1>1, SessionsOf
<1>3. row \in SessionRows
  BY <1>1, <1>2 DEF SessionRows
<1>4. f \in Seq(SessionRows) /\ Len(f) = Len(s)
  BY <1>1, <1>2, <1>3, ExceptSeq
<1>5. sessions' = [sessions EXCEPT ![a] = f]
  BY <1>1
<1>6. SessionTable'
  BY <1>2, <1>4, <1>5, SomeonesSessions
<1>7. Issued /\ \A H : Undisturbed(H)
  BY NothingDisturbed DEF IInv, Tables
<1>8. Transactions'
  BY <1>7, NobodyMoves DEF IInv
<1> QED
  BY <1>6, <1>8, PeopleStay, InvitationsStay DEF AccountTables

LEMMA ProvisionKept ==
    ASSUME IInv, UNCHANGED <<requests, groupRequests, links, recipients, agenda>>,
           NEW a \in Accounts, Provision(a)
    PROVE  Transactions' /\ AccountTables'
<1>1. ~ Exists(a) /\ UNCHANGED <<invitations, sessions, clerk>>
  BY DEF Provision
<1>2. PICK role \in {"ADMIN", "SALES"} : accounts' = [accounts EXCEPT ![a] = [role |-> role, active |-> TRUE]]
  BY DEF Provision
<1>3. PICK p, R : p = [role |-> role, active |-> TRUE] /\ R = {}
  OBVIOUS
<1>4. p \in People /\ p.active /\ p.role # "SUPER_ADMIN"
  BY <1>2, <1>3, StaffAssumption DEF People, StaffAssumption
<1>5. accounts' = [accounts EXCEPT ![a] = p]
  BY <1>2, <1>3
<1>6. \A b \in Accounts : Row("invitation", b) \notin R => invitations'[b] = invitations[b]
  BY <1>1
<1>7. Leaves(R)
  BY <1>1, <1>4, <1>5, <1>6, Appearing
<1>8. \A H : Undisturbed(H)
  BY <1>3, <1>7 DEF Leaves
<1>9. Transactions'
  BY <1>1, <1>8, IssuedBefore, NobodyMoves DEF IInv
<1>10. PeopleTable'
  BY <1>4, <1>5, OnePerson
<1> QED
  BY <1>1, <1>9, <1>10, InvitationsStay, SessionsStay DEF AccountTables

LEMMA ExpireInvitationKept ==
    ASSUME IInv, UNCHANGED <<requests, groupRequests, links, recipients, agenda>>,
           NEW a \in Accounts, ExpireInvitation(a)
    PROVE  Transactions' /\ AccountTables'
<1>1. PICK status : status = "OVER"
  OBVIOUS
<1>2. /\ Outstanding(invitations[a]) /\ invitations' = [invitations EXCEPT ![a].status = status]
      /\ status \in Progressed /\ UNCHANGED <<accounts, sessions, clerk>>
  BY <1>1 DEF ExpireInvitation, Outstanding, Progressed
<1>3. /\ Issued /\ InvitationTable' /\ invitations'[a].status = status
      /\ \A b \in Accounts : b # a => invitations'[b] = invitations[b]
  BY <1>2, InvitationMarked
<1>4. \A b \in Accounts : /\ invitations'[b].no = invitations[b].no
                          /\ invitations'[b].by = invitations[b].by
                          /\ invitations'[b].role = invitations[b].role
                          /\ Outstanding(invitations[b]) => Outstanding(invitations'[b])
  <2> SUFFICES ASSUME NEW b \in Accounts
               PROVE  /\ invitations'[b].no = invitations[b].no
                      /\ invitations'[b].by = invitations[b].by
                      /\ invitations'[b].role = invitations[b].role
                      /\ Outstanding(invitations[b]) => Outstanding(invitations'[b])
    OBVIOUS
  <2>1. CASE b # a
    BY <1>3, <2>1
  <2>2. CASE b = a
    <3>1. invitations \in [Accounts -> InvitationRows]
      BY DEF IInv, Tables, AccountTables, InvitationTable
    <3>2. invitations'[a] = [invitations[a] EXCEPT !.status = status]
      BY <1>2, <3>1
    <3>3. invitations[a] \in InvitationRows
      BY <3>1
    <3> QED
      BY <1>1, <1>3, <2>2, <3>2, <3>3 DEF InvitationRows, Outstanding
  <2> QED
    BY <2>1, <2>2
<1>5. Issued /\ \A H : Undisturbed(H)
  BY <1>2, <1>4, NothingDisturbed DEF IInv, Tables
<1>6. Transactions'
  BY <1>2, <1>5, NobodyMoves DEF IInv
<1> QED
  BY <1>2, <1>3, <1>6, PeopleStay, SessionsStay DEF AccountTables
-----------------------------------------------------------------------------
(* Telegram: the tables of requests, links and recipients.                 *)

LEMMA RequestsStay ==
    ASSUME IInv, agenda' = agenda, UNCHANGED <<requests, groupRequests, dead>>
    PROVE  RequestTable'
<1>1. RequestTable
  BY DEF IInv, Tables, TelegramTables
<1> QED
  BY <1>1 DEF RequestTable

LEMMA LinksStay ==
    ASSUME IInv, links' = links
    PROVE  LinkTable' /\ \A a \in Accounts : Linked(a)' = Linked(a)
<1>1. LinkTable
  BY DEF IInv, Tables, TelegramTables
<1> QED
  BY <1>1 DEF LinkTable, Linked

LEMMA RecipientsStay ==
    ASSUME IInv, recipients' = recipients, \A a \in Accounts : Linked(a) \subseteq Linked(a)'
    PROVE  RecipientTable'
<1>1. RecipientTable
  BY DEF IInv, Tables, TelegramTables
<1> QED
  BY <1>1 DEF RecipientTable, RecipientsAreLinked

\* A request is written, or ends.
LEMMA OneRequest ==
    ASSUME IInv, agenda' = agenda, NEW a \in Accounts, NEW new \in Ago, new.no <= agenda.tokens[a],
           NEW d \in Nat, Outstanding(new) => d < new.no,
           requests' = [requests EXCEPT ![a] = new], dead' = [dead EXCEPT ![a] = d],
           groupRequests' = groupRequests
    PROVE  RequestTable' /\ \A b \in Accounts : b # a => requests'[b] = requests[b]
<1>1. /\ requests \in [Accounts -> Ago] /\ groupRequests \in [Accounts -> Ago]
      /\ dead \in [Accounts -> Nat]
      /\ \A b \in Accounts :
          /\ requests[b].no <= agenda.tokens[b] /\ groupRequests[b].no <= agenda.tokens[b]
          /\ Outstanding(requests[b]) => dead[b] < requests[b].no
  BY DEF IInv, Tables, TelegramTables, RequestTable
<1>2. requests' \in [Accounts -> Ago] /\ dead' \in [Accounts -> Nat]
  BY <1>1
<1>3. requests'[a] = new /\ dead'[a] = d
      /\ \A b \in Accounts : b # a => requests'[b] = requests[b] /\ dead'[b] = dead[b]
  BY <1>1
<1>4. ASSUME NEW b \in Accounts
      PROVE  /\ requests'[b].no <= agenda.tokens[b] /\ groupRequests'[b].no <= agenda.tokens[b]
             /\ Outstanding(requests'[b]) => dead'[b] < requests'[b].no
  <2>1. CASE b = a
    BY <1>1, <1>3, <2>1
  <2>2. CASE b # a
    BY <1>1, <1>3, <2>2
  <2> QED
    BY <2>1, <2>2
<1>5. RequestTable'
  BY <1>1, <1>2, <1>4 DEF RequestTable
<1> QED
  BY <1>3, <1>5

LEMMA OneGroupRequest ==
    ASSUME IInv, agenda' = agenda, NEW a \in Accounts, NEW new \in Ago, new.no <= agenda.tokens[a],
           groupRequests' = [groupRequests EXCEPT ![a] = new], UNCHANGED <<requests, dead>>
    PROVE  RequestTable' /\ \A b \in Accounts : b # a => groupRequests'[b] = groupRequests[b]
<1>1. /\ requests \in [Accounts -> Ago] /\ groupRequests \in [Accounts -> Ago]
      /\ dead \in [Accounts -> Nat]
      /\ \A b \in Accounts :
          /\ requests[b].no <= agenda.tokens[b] /\ groupRequests[b].no <= agenda.tokens[b]
          /\ Outstanding(requests[b]) => dead[b] < requests[b].no
  BY DEF IInv, Tables, TelegramTables, RequestTable
<1>2. /\ groupRequests' \in [Accounts -> Ago] /\ groupRequests'[a] = new
      /\ \A b \in Accounts : b # a => groupRequests'[b] = groupRequests[b]
  BY <1>1
<1>3. \A b \in Accounts : groupRequests'[b].no <= agenda.tokens[b]
  BY <1>1, <1>2
<1> QED
  BY <1>1, <1>2, <1>3 DEF RequestTable

LEMMA OneRecipient ==
    ASSUME IInv, NEW r \in Recipients, NEW state \in States, NEW chat \in Users \cup {0},
           recipients' = [recipients EXCEPT ![r] = [state |-> state, chat |-> chat]],
           \A a \in Accounts : Member(a) # r => Linked(a) \subseteq Linked(a)',
           \A a \in Accounts : Member(a) = r /\ IsAuthorized(state) => chat \in Linked(a)'
    PROVE  /\ RecipientTable' /\ recipients'[r].state = state
           /\ \A q \in Recipients : q # r => recipients'[q] = recipients[q]
<1>1. recipients \in [Recipients -> [state : States, chat : Users \cup {0}]] /\ RecipientsAreLinked
  BY DEF IInv, Tables, TelegramTables, RecipientTable
<1>2. /\ recipients' \in [Recipients -> [state : States, chat : Users \cup {0}]]
      /\ recipients'[r] = [state |-> state, chat |-> chat]
      /\ \A q \in Recipients : q # r => recipients'[q] = recipients[q]
  BY <1>1
<1>3. ASSUME NEW a \in Accounts, IsAuthorized(recipients'[Member(a)].state)
      PROVE  recipients'[Member(a)].chat \in Linked(a)'
  <2>1. Member(a) \in Recipients
    BY DEF Recipients
  <2>2. CASE Member(a) = r
    BY <1>2, <1>3, <2>2
  <2>3. CASE Member(a) # r
    BY <1>1, <1>2, <1>3, <2>1, <2>3 DEF RecipientsAreLinked
  <2> QED
    BY <2>2, <2>3
<1>4. RecipientsAreLinked'
  BY <1>3 DEF RecipientsAreLinked
<1> QED
  BY <1>2, <1>4 DEF RecipientTable

LEMMA RequestsOf ==
    ASSUME IInv, NEW a \in Accounts
    PROVE  /\ requests[a] = [no |-> requests[a].no, status |-> requests[a].status]
           /\ groupRequests[a] = [no |-> groupRequests[a].no, status |-> groupRequests[a].status]
           /\ requests[a].no \in Nat /\ groupRequests[a].no \in Nat /\ dead[a] \in Nat
           /\ requests[a].status \in Progressed /\ groupRequests[a].status \in Progressed
           /\ requests[a].no <= agenda.tokens[a] /\ groupRequests[a].no <= agenda.tokens[a]
           /\ agenda.tokens[a] \in Nat
           /\ Outstanding(requests[a]) => dead[a] < requests[a].no
           /\ requests \in [Accounts -> Ago] /\ groupRequests \in [Accounts -> Ago]
           /\ dead \in [Accounts -> Nat]
<1>1. RequestTable /\ agenda.tokens[a] \in Nat
  BY DEF IInv, Tables, TelegramTables, AccountTables, PeopleTable
<1>2. requests[a] \in Ago /\ groupRequests[a] \in Ago
  BY <1>1 DEF RequestTable
<1> QED
  BY <1>1, <1>2 DEF RequestTable, Ago

\* A commit that leaves the accounts alone.
LEMMA TelegramCommitting ==
    ASSUME IInv, UNCHANGED <<accounts, invitations>>, NEW c \in Clerks, NEW t, t = clerk[c],
           t.todo = << >>, Ends(c), NEW R, R = Rows(t),
           \A a \in Accounts :
              /\ Row("account", a) \notin R => Linked(a)' = Linked(a)
              /\ Row("request", a) \notin R => requests'[a] = requests[a]
              /\ Row("groupRequest", a) \notin R => groupRequests'[a] = groupRequests[a],
           \A r \in Recipients : r \notin R => recipients'[r] = recipients[r]
    PROVE  Transactions'
<1>1. OnlyThose(R)
  BY DEF OnlyThose, ActiveSuperAdmins
<1> QED
  BY <1>1, IssuedBefore, OthersAreLeft, Committing

\* What is outstanding ends, or what is not stays; the dead are all up to now.
LEMMA CuttingOff ==
    ASSUME IInv, agenda' = agenda, NEW a \in Accounts, CutOff(a), groupRequests' = groupRequests
    PROVE  RequestTable' /\ \A b \in Accounts : b # a => requests'[b] = requests[b]
<1>1. PICK old, new, d : old = requests[a] /\ new = Revoked(old) /\ d = requests[a].no
  OBVIOUS
<1>2. new = [no |-> old.no, status |-> IF Outstanding(old) THEN "REVOKED" ELSE old.status]
  <2>1. old = [no |-> old.no, status |-> old.status] /\ new = Revoked(old)
    BY <1>1, RequestsOf
  <2>2. [old EXCEPT !.status = "REVOKED"] = [no |-> old.no, status |-> "REVOKED"]
    BY <2>1
  <2> QED
    BY <2>1, <2>2 DEF Revoked
<1>3. /\ new \in Ago /\ new.no <= agenda.tokens[a] /\ d \in Nat /\ ~ Outstanding(new)
      /\ requests' = [requests EXCEPT ![a] = new] /\ dead' = [dead EXCEPT ![a] = d]
  <2>1. /\ old.no \in Nat /\ old.status \in Progressed /\ old.no <= agenda.tokens[a]
    BY <1>1, RequestsOf
  <2>2. new \in Ago /\ new.no = old.no /\ ~ Outstanding(new)
    BY <1>2, <2>1 DEF Ago, Progressed, Outstanding
  <2>3. requests' = [requests EXCEPT ![a] = new] /\ dead' = [dead EXCEPT ![a] = d]
    BY <1>1, RequestsOf DEF CutOff
  <2> QED
    BY <1>1, <2>1, <2>2, <2>3
<1> QED
  BY <1>3, OneRequest
-----------------------------------------------------------------------------
(* Telegram: commits.                                                      *)

LEMMA CommitRequestKept ==
    ASSUME IInv, UNCHANGED <<rows, agenda>>, NEW c \in Clerks, CommitRequest(c)
    PROVE  Transactions' /\ TelegramTables'
<1>1. PICK t, a, new, R, d : /\ t = clerk[c] /\ a = t.on /\ new = Request(requests[a].no + 1) /\ R = Rows(t)
                             /\ d = requests[a].no
  OBVIOUS
<1>2. /\ t.op = "createRequest" /\ t.todo = << >> /\ Ends(c) /\ requests[a].no < agenda.tokens[a]
      /\ requests' = [requests EXCEPT ![a] = new] /\ dead' = [dead EXCEPT ![a] = d]
      /\ UNCHANGED <<recipients, groupRequests, links, accounts, invitations>>
  BY <1>1 DEF CommitRequest, Ready, Unrecorded, rows
<1>3. a \in Accounts
  BY <1>1, <1>2, Decided DEF Fit, Addressed
<1>4. new \in Ago /\ new.no <= agenda.tokens[a] /\ d \in Nat /\ d < new.no
  <2>1. d \in Nat /\ d < agenda.tokens[a] /\ agenda.tokens[a] \in Nat
    BY <1>1, <1>2, <1>3, RequestsOf
  <2>2. new = [no |-> d + 1, status |-> "OPEN"]
    BY <1>1 DEF Request
  <2> QED
    BY <2>1, <2>2 DEF Ago, Progressed
<1>5. RequestTable' /\ \A b \in Accounts : b # a => requests'[b] = requests[b]
  BY <1>2, <1>3, <1>4, OneRequest
<1>6. LinkTable' /\ RecipientTable' /\ \A b \in Accounts : Linked(b)' = Linked(b)
  BY <1>2, LinksStay, RecipientsStay
<1>7. Row("request", a) \in R
  BY <1>1, <1>2 DEF Rows, GroupOps
<1>8. Transactions'
  BY <1>1, <1>2, <1>5, <1>6, <1>7, TelegramCommitting
<1> QED
  BY <1>5, <1>6, <1>8 DEF TelegramTables

LEMMA CommitRevokeRequestKept ==
    ASSUME IInv, UNCHANGED <<rows, agenda>>, NEW c \in Clerks, CommitRevokeRequest(c)
    PROVE  Transactions' /\ TelegramTables'
<1>1. PICK t, a, R : t = clerk[c] /\ a = t.on /\ R = Rows(t)
  OBVIOUS
<1>2. /\ t.op = "revokeRequest" /\ t.todo = << >> /\ Ends(c) /\ CutOff(a)
      /\ UNCHANGED <<recipients, groupRequests, links, accounts, invitations>>
  BY <1>1 DEF CommitRevokeRequest, Ready, Unrecorded, rows
<1>3. a \in Accounts
  BY <1>1, <1>2, Decided DEF Fit, Addressed
<1>4. RequestTable' /\ \A b \in Accounts : b # a => requests'[b] = requests[b]
  BY <1>2, <1>3, CuttingOff
<1>5. LinkTable' /\ RecipientTable' /\ \A b \in Accounts : Linked(b)' = Linked(b)
  BY <1>2, LinksStay, RecipientsStay
<1>6. Row("request", a) \in R
  BY <1>1, <1>2 DEF Rows, GroupOps
<1>7. Transactions'
  BY <1>1, <1>2, <1>4, <1>5, <1>6, TelegramCommitting
<1> QED
  BY <1>4, <1>5, <1>7 DEF TelegramTables

\* A Telegram user that belongs to nobody else is linked to a member that has no other.
LEMMA Linking ==
    ASSUME IInv, NEW u \in Users, NEW a \in Accounts, ~ Taken(u, a),
           links' = [links EXCEPT ![u] = [of |-> a, on |-> TRUE]]
    PROVE  /\ LinkTable' /\ Linked(a) \subseteq Linked(a)'
           /\ \A b \in Accounts : b # a => Linked(b)' = Linked(b)
<1>1. /\ links \in [Users -> [of : Accounts \cup {0}, on : BOOLEAN]]
      /\ \A v \in Users : links[v].on => links[v].of # 0
      /\ \A v, w \in Users : links[v].on /\ links[w].on /\ links[v].of = links[w].of => v = w
  BY DEF IInv, Tables, TelegramTables, LinkTable
<1>2. links[u].of \in {0, a} /\ \A v \in Users : links[v].on /\ links[v].of = a => v = u
  BY DEF Taken, Linked
<1>3. 0 \notin Accounts
  BY StaffAssumption DEF StaffAssumption
<1>4. /\ links' \in [Users -> [of : Accounts \cup {0}, on : BOOLEAN]]
      /\ links'[u].of = a /\ links'[u].on /\ \A v \in Users : v # u => links'[v] = links[v]
  BY <1>1
<1>5. \A v \in Users : links'[v].on => links'[v].of # 0
  BY <1>1, <1>3, <1>4
<1>6. \A v, w \in Users : links'[v].on /\ links'[w].on /\ links'[v].of = links'[w].of => v = w
  <2> SUFFICES ASSUME NEW v \in Users, NEW w \in Users,
                      links'[v].on, links'[w].on, links'[v].of = links'[w].of
               PROVE  v = w
    OBVIOUS
  <2>1. CASE v # u /\ w # u
    BY <1>1, <1>4, <2>1
  <2>2. CASE v = u /\ w # u
    BY <1>2, <1>4, <2>2
  <2>3. CASE v # u /\ w = u
    BY <1>2, <1>4, <2>3
  <2> QED
    BY <2>1, <2>2, <2>3
<1>7. LinkTable'
  BY <1>4, <1>5, <1>6 DEF LinkTable
<1>8. Linked(a) \subseteq Linked(a)'
  BY <1>2, <1>4 DEF Linked
<1>9. ASSUME NEW b \in Accounts, b # a
      PROVE  Linked(b)' = Linked(b)
  <2>1. ~ (links[u].on /\ links[u].of = b)
    BY <1>2, <1>3, <1>9
  <2>2. \A v \in Users : (links'[v].on /\ links'[v].of = b) <=> (links[v].on /\ links[v].of = b)
    BY <1>4, <1>9, <2>1
  <2> QED
    BY <2>2 DEF Linked
<1> QED
  BY <1>7, <1>8, <1>9

LEMMA CommitConsumeKept ==
    ASSUME IInv, UNCHANGED <<rows, agenda>>, NEW c \in Clerks, CommitConsume(c)
    PROVE  Transactions' /\ TelegramTables'
<1>1. PICK t, a, u, R : t = clerk[c] /\ a = t.on /\ u = t.by /\ R = Rows(t)
  OBVIOUS
<1>2. /\ t.op = "consume" /\ t.todo = << >> /\ Ends(c)
      /\ UNCHANGED <<recipients, groupRequests, dead, accounts, invitations>>
  BY <1>1 DEF CommitConsume, Ready, Unrecorded, rows
<1>3. a \in Accounts /\ u \in Users
  BY <1>1, <1>2, Decided DEF Fit, Addressed
<1>4. Row("request", a) \in R /\ Row("account", a) \in R
  BY <1>1, <1>2 DEF Rows, GroupOps
<1>5. CASE Taken(u, a)
  <2>1. UNCHANGED <<requests, links>>
    BY <1>1, <1>5 DEF CommitConsume
  <2>2. RequestTable' /\ LinkTable' /\ RecipientTable' /\ \A b \in Accounts : Linked(b)' = Linked(b)
    BY <1>2, <2>1, RequestsStay, LinksStay, RecipientsStay
  <2>3. Transactions'
    BY <1>1, <1>2, <2>1, <2>2, TelegramCommitting
  <2> QED
    BY <2>2, <2>3 DEF TelegramTables
<1>6. CASE ~ Taken(u, a)
  <2>1. links' = [links EXCEPT ![u] = [of |-> a, on |-> TRUE]] /\ requests' = [requests EXCEPT ![a].status = "CONSUMED"]
    BY <1>1, <1>6 DEF CommitConsume
  <2>2. PICK new, d : new = [no |-> requests[a].no, status |-> "CONSUMED"] /\ d = dead[a]
    OBVIOUS
  <2>3. [requests[a] EXCEPT !.status = "CONSUMED"] = new
    <3>1. PICK old : old = requests[a] /\ old = [no |-> old.no, status |-> old.status]
      BY <1>3, RequestsOf
    <3>2. [old EXCEPT !.status = "CONSUMED"] = [no |-> old.no, status |-> "CONSUMED"]
      BY <3>1
    <3> QED
      BY <2>2, <3>1, <3>2
  <2>4. /\ new \in Ago /\ new.no <= agenda.tokens[a] /\ d \in Nat /\ ~ Outstanding(new)
        /\ requests' = [requests EXCEPT ![a] = new] /\ dead' = [dead EXCEPT ![a] = d]
    <3>1. requests[a].no \in Nat /\ d \in Nat /\ requests[a].no <= agenda.tokens[a]
      BY <1>3, <2>2, RequestsOf
    <3>2. new \in Ago /\ new.no <= agenda.tokens[a] /\ ~ Outstanding(new)
      BY <2>2, <3>1 DEF Ago, Progressed, Outstanding
    <3>3. dead' = [dead EXCEPT ![a] = d]
      BY <1>2, <1>3, <2>2, RequestsOf
    <3> QED
      BY <2>1, <2>3, <3>1, <3>2, <3>3
  <2>5. RequestTable' /\ \A b \in Accounts : b # a => requests'[b] = requests[b]
    BY <1>2, <1>3, <2>4, OneRequest
  <2>6. /\ LinkTable' /\ Linked(a) \subseteq Linked(a)'
        /\ \A b \in Accounts : b # a => Linked(b)' = Linked(b)
    BY <1>3, <1>6, <2>1, Linking
  <2>7. RecipientTable'
    BY <1>2, <2>6, RecipientsStay
  <2>8. Transactions'
    BY <1>1, <1>2, <1>4, <2>5, <2>6, TelegramCommitting
  <2> QED
    BY <2>5, <2>6, <2>7, <2>8 DEF TelegramTables
<1> QED
  BY <1>5, <1>6

\* The links of a member are switched off, the others stay.
LEMMA Unlinking ==
    ASSUME IInv, NEW a \in Accounts,
           links' = [u \in Users |-> IF u \in Linked(a) THEN [links[u] EXCEPT !.on = FALSE] ELSE links[u]]
    PROVE  LinkTable' /\ \A b \in Accounts : b # a => Linked(b)' = Linked(b)
<1>1. /\ links \in [Users -> [of : Accounts \cup {0}, on : BOOLEAN]]
      /\ \A v \in Users : links[v].on => links[v].of # 0
      /\ \A v, w \in Users : links[v].on /\ links[w].on /\ links[v].of = links[w].of => v = w
  BY DEF IInv, Tables, TelegramTables, LinkTable
<1>2. ASSUME NEW u \in Users
      PROVE  /\ links'[u] \in [of : Accounts \cup {0}, on : BOOLEAN]
             /\ links'[u].of = links[u].of
             /\ links'[u].on <=> links[u].on /\ links[u].of # a
  <2>1. CASE u \notin Linked(a)
    BY <1>1, <2>1 DEF Linked
  <2>2. CASE u \in Linked(a)
    <3>1. PICK old, new : old = links[u] /\ new = [old EXCEPT !.on = FALSE]
      OBVIOUS
    <3>2. links'[u] = new /\ old \in [of : Accounts \cup {0}, on : BOOLEAN] /\ old.of = a
      BY <1>1, <2>2, <3>1 DEF Linked
    <3>3. new \in [of : Accounts \cup {0}, on : BOOLEAN] /\ new.of = old.of /\ ~ new.on
      BY <3>1, <3>2
    <3> QED
      BY <3>1, <3>2, <3>3
  <2> QED
    BY <2>1, <2>2
<1>3. links' \in [Users -> [of : Accounts \cup {0}, on : BOOLEAN]]
  <2>1. links' = [u \in Users |-> links'[u]]
    OBVIOUS
  <2> QED
    BY <1>2, <2>1
<1>4. LinkTable'
  BY <1>1, <1>2, <1>3 DEF LinkTable
<1>5. \A b \in Accounts : b # a => Linked(b)' = Linked(b)
  BY <1>2 DEF Linked
<1> QED
  BY <1>4, <1>5

LEMMA CommitDisconnectKept ==
    ASSUME IInv, UNCHANGED <<rows, agenda>>, NEW c \in Clerks, CommitDisconnect(c)
    PROVE  Transactions' /\ TelegramTables'
<1>1. PICK t, a, R : t = clerk[c] /\ a = t.on /\ R = Rows(t)
  OBVIOUS
<1>2. /\ t.op = "disconnect" /\ t.todo = << >> /\ Ends(c) /\ CutOff(a) /\ SwitchedOff(c, a)
      /\ UNCHANGED <<groupRequests, accounts, invitations>>
      /\ links' = [u \in Users |-> IF u \in Linked(a) THEN [links[u] EXCEPT !.on = FALSE] ELSE links[u]]
  BY <1>1 DEF CommitDisconnect, Ready, rows
<1>3. a \in Accounts
  BY <1>1, <1>2, Decided DEF Fit, Addressed
<1>4. RequestTable' /\ \A b \in Accounts : b # a => requests'[b] = requests[b]
  BY <1>2, <1>3, CuttingOff
<1>5. LinkTable' /\ \A b \in Accounts : b # a => Linked(b)' = Linked(b)
  BY <1>2, <1>3, Unlinking
<1>6. Row("request", a) \in R /\ Row("account", a) \in R /\ Member(a) \in R
  BY <1>1, <1>2 DEF Rows, GroupOps
<1>7. PICK r : r = Member(a)
  OBVIOUS
<1>8. r \in Recipients /\ \A b \in Accounts : Member(b) = r => b = a
  BY <1>3, <1>7, Kinds DEF Recipients
<1>9. RecipientTable' /\ \A q \in Recipients : q # r => recipients'[q] = recipients[q]
  <2>1. CASE Linked(a) # {} /\ IsAuthorized(recipients[Member(a)].state)
    <3>1. recipients' = [recipients EXCEPT ![r] = [state |-> "OFF", chat |-> 0]]
      BY <1>2, <1>7, <2>1 DEF SwitchedOff, Recorded
    <3>2. "OFF" \in States /\ 0 \in Users \cup {0} /\ ~ IsAuthorized("OFF")
      BY DEF States, IsAuthorized
    <3>3. \A b \in Accounts : Member(b) # r => Linked(b) \subseteq Linked(b)'
      BY <1>5, <1>7
    <3> QED
      BY <1>8, <3>1, <3>2, <3>3, OneRecipient
  <2>2. CASE ~ (Linked(a) # {} /\ IsAuthorized(recipients[Member(a)].state))
    <3>1. recipients' = recipients
      BY <1>2, <2>2 DEF SwitchedOff, Unrecorded
    <3>2. /\ recipients \in [Recipients -> [state : States, chat : Users \cup {0}]]
          /\ \A b \in Accounts : IsAuthorized(recipients[Member(b)].state) => recipients[Member(b)].chat \in Linked(b)
      BY DEF IInv, Tables, TelegramTables, RecipientTable, RecipientsAreLinked
    <3>3. ~ IsAuthorized(recipients[Member(a)].state)
      BY <1>3, <2>2, <3>2
    <3>4. \A b \in Accounts : IsAuthorized(recipients'[Member(b)].state) => recipients'[Member(b)].chat \in Linked(b)'
      <4> SUFFICES ASSUME NEW b \in Accounts, IsAuthorized(recipients'[Member(b)].state)
                   PROVE  recipients'[Member(b)].chat \in Linked(b)'
        OBVIOUS
      <4>1. b # a
        BY <3>1, <3>3
      <4> QED
        BY <1>5, <3>1, <3>2, <4>1
    <3> QED
      BY <3>1, <3>2, <3>4 DEF RecipientTable, RecipientsAreLinked
  <2> QED
    BY <2>1, <2>2
<1>10. Transactions'
  BY <1>1, <1>2, <1>4, <1>5, <1>6, <1>7, <1>9, TelegramCommitting
<1> QED
  BY <1>4, <1>5, <1>9, <1>10 DEF TelegramTables

LEMMA CommitSetMemberKept ==
    ASSUME IInv, UNCHANGED <<rows, agenda>>, NEW c \in Clerks, CommitSetMember(c)
    PROVE  Transactions' /\ TelegramTables'
<1>1. PICK t, a, r, R : t = clerk[c] /\ a = t.on /\ R = Rows(t) /\ r = Member(a)
  OBVIOUS
<1>2. /\ t.op = "setMember" /\ t.todo = << >> /\ Ends(c)
      /\ UNCHANGED <<requests, groupRequests, links, dead, accounts, invitations>>
  BY <1>1 DEF CommitSetMember, Ready, rows
<1>3. a \in Accounts /\ t.arg \in {"ON", "MUTED"}
  BY <1>1, <1>2, Decided DEF Fit, Addressed
<1>4. RequestTable' /\ LinkTable' /\ \A b \in Accounts : Linked(b)' = Linked(b)
  BY <1>2, RequestsStay, LinksStay
<1>5. r \in R
  BY <1>1, <1>2 DEF Rows, GroupOps
<1>6. r \in Recipients /\ \A b \in Accounts : Member(b) = r => b = a
  BY <1>1, <1>3, Kinds DEF Recipients
<1>7. RecipientTable' /\ \A q \in Recipients : q # r => recipients'[q] = recipients[q]
  <2>1. CASE recipients' = recipients
    BY <1>4, <2>1, RecipientsStay
  <2>2. CASE recipients' # recipients
    <3>1. PICK u \in Linked(a) : recipients' = [recipients EXCEPT ![r] = [state |-> t.arg, chat |-> u]]
      BY <1>1, <2>2 DEF CommitSetMember, Recorded, Unrecorded
    <3>2. t.arg \in States /\ u \in Users
      BY <1>3, <3>1 DEF States, Linked
    <3>3. \A b \in Accounts : Member(b) = r => u \in Linked(b)'
      BY <1>3, <1>4, <1>6, <3>1
    <3> QED
      BY <1>4, <1>6, <3>1, <3>2, <3>3, OneRecipient
  <2> QED
    BY <2>1, <2>2
<1>8. Transactions'
  BY <1>1, <1>2, <1>4, <1>5, <1>7, TelegramCommitting
<1> QED
  BY <1>4, <1>7, <1>8 DEF TelegramTables

LEMMA CommitGroupRequestKept ==
    ASSUME IInv, UNCHANGED <<rows, agenda>>, NEW c \in Clerks, CommitGroupRequest(c)
    PROVE  Transactions' /\ TelegramTables'
<1>1. PICK t, a, R : t = clerk[c] /\ a = t.on /\ R = Rows(t)
  OBVIOUS
<1>2. /\ t.op \in {"createGroupRequest", "revokeGroupRequest"} /\ t.todo = << >> /\ Ends(c)
      /\ UNCHANGED <<recipients, requests, links, dead, accounts, invitations>>
  BY <1>1 DEF CommitGroupRequest, Ready, Unrecorded, rows
<1>3. a \in Accounts
  BY <1>1, <1>2, Decided DEF Fit, Addressed
<1>4. PICK old : old = groupRequests[a] /\ old = [no |-> old.no, status |-> old.status]
                 /\ old.no \in Nat /\ old.status \in Progressed /\ old.no <= agenda.tokens[a] /\ agenda.tokens[a] \in Nat
  BY <1>3, RequestsOf
<1>5. PICK new \in Ago : new.no <= agenda.tokens[a] /\ groupRequests' = [groupRequests EXCEPT ![a] = new]
  <2>1. CASE t.op = "createGroupRequest"
    <3>1. old.no < agenda.tokens[a] /\ groupRequests' = [groupRequests EXCEPT ![a] = Request(old.no + 1)]
      BY <1>1, <1>4, <2>1 DEF CommitGroupRequest, Ready
    <3>2. Request(old.no + 1) \in Ago /\ Request(old.no + 1).no <= agenda.tokens[a]
      BY <1>4, <3>1 DEF Request, Ago, Progressed
    <3> QED
      BY <3>1, <3>2
  <2>2. CASE t.op = "revokeGroupRequest"
    <3>1. groupRequests' = [groupRequests EXCEPT ![a] = Revoked(old)]
      BY <1>1, <1>4, <2>2 DEF CommitGroupRequest, Ready
    <3>2. [old EXCEPT !.status = "REVOKED"] = [no |-> old.no, status |-> "REVOKED"]
      BY <1>4
    <3>3. Revoked(old) = [no |-> old.no, status |-> IF Outstanding(old) THEN "REVOKED" ELSE old.status]
      BY <1>4, <3>2 DEF Revoked
    <3>4. Revoked(old) \in Ago /\ Revoked(old).no = old.no
      BY <1>4, <3>3 DEF Ago, Progressed
    <3> QED
      BY <1>4, <3>1, <3>4
  <2> QED
    BY <1>2, <2>1, <2>2
<1>6. RequestTable' /\ \A b \in Accounts : b # a => groupRequests'[b] = groupRequests[b]
  BY <1>2, <1>3, <1>5, OneGroupRequest
<1>7. LinkTable' /\ RecipientTable' /\ \A b \in Accounts : Linked(b)' = Linked(b)
  BY <1>2, LinksStay, RecipientsStay
<1>8. Row("groupRequest", a) \in R
  BY <1>1, <1>2 DEF Rows, GroupOps
<1>9. Transactions'
  BY <1>1, <1>2, <1>6, <1>7, <1>8, TelegramCommitting
<1> QED
  BY <1>6, <1>7, <1>9 DEF TelegramTables

LEMMA GroupsAreNotMembers ==
    ASSUME NEW g \in Groups
    PROVE  Group(g) \in Recipients /\ \A b : Member(b) # Group(g)
  BY Kinds DEF Recipients

LEMMA CommitConsumeGroupKept ==
    ASSUME IInv, UNCHANGED <<rows, agenda>>, NEW c \in Clerks, CommitConsumeGroup(c)
    PROVE  Transactions' /\ TelegramTables'
<1>1. PICK t, a, r, R : t = clerk[c] /\ a = t.on /\ R = Rows(t) /\ r = Group(t.arg)
  OBVIOUS
<1>2. /\ t.op = "consumeGroup" /\ t.todo = << >> /\ Ends(c)
      /\ UNCHANGED <<requests, links, dead, accounts, invitations>>
      /\ groupRequests' = [groupRequests EXCEPT ![a].status = "CONSUMED"]
      /\ recipients' = [recipients EXCEPT ![r] = [state |-> "ON", chat |-> 0]]
  BY <1>1 DEF CommitConsumeGroup, Ready, Recorded, rows
<1>3. a \in Accounts /\ t.arg \in Groups
  BY <1>1, <1>2, Decided DEF Fit, Addressed
<1>4. r \in Recipients /\ \A b : Member(b) # r
  BY <1>1, <1>3, GroupsAreNotMembers
<1>5. LinkTable' /\ \A b \in Accounts : Linked(b)' = Linked(b)
  BY <1>2, LinksStay
<1>6. RecipientTable' /\ \A q \in Recipients : q # r => recipients'[q] = recipients[q]
  <2>1. "ON" \in States /\ 0 \in Users \cup {0}
    BY DEF States
  <2> QED
    BY <1>2, <1>4, <1>5, <2>1, OneRecipient
<1>7. PICK old, new : /\ old = groupRequests[a] /\ old = [no |-> old.no, status |-> old.status]
                      /\ old.no \in Nat /\ old.no <= agenda.tokens[a]
                      /\ new = [no |-> old.no, status |-> "CONSUMED"]
  BY <1>3, RequestsOf
<1>8. new \in Ago /\ new.no <= agenda.tokens[a] /\ groupRequests' = [groupRequests EXCEPT ![a] = new]
  <2>1. [old EXCEPT !.status = "CONSUMED"] = new
    BY <1>7
  <2> QED
    BY <1>2, <1>7, <2>1 DEF Ago, Progressed
<1>9. RequestTable' /\ \A b \in Accounts : b # a => groupRequests'[b] = groupRequests[b]
  BY <1>2, <1>3, <1>8, OneGroupRequest
<1>10. Row("groupRequest", a) \in R /\ r \in R
  BY <1>1, <1>2 DEF Rows, GroupOps
<1>11. Transactions'
  BY <1>1, <1>2, <1>5, <1>6, <1>9, <1>10, TelegramCommitting
<1> QED
  BY <1>5, <1>6, <1>9, <1>11 DEF TelegramTables

LEMMA CommitSetGroupKept ==
    ASSUME IInv, UNCHANGED <<rows, agenda>>, NEW c \in Clerks, CommitSetGroup(c)
    PROVE  Transactions' /\ TelegramTables'
<1>1. PICK t, r, state, R : /\ t = clerk[c] /\ R = Rows(t) /\ r = Group(t.arg)
                            /\ state = GroupAfter(t.op, t.saw)
  OBVIOUS
<1>2. /\ t.op \in GroupOps /\ t.todo = << >> /\ Ends(c)
      /\ UNCHANGED <<requests, groupRequests, links, dead, accounts, invitations>>
      /\ recipients' = recipients \/ recipients' = [recipients EXCEPT ![r] = [state |-> state, chat |-> 0]]
  BY <1>1 DEF CommitSetGroup, Recorded, Unrecorded, rows
<1>3. t.arg \in Groups /\ Sound(t) /\ t.has = R
  BY <1>1, <1>2, Decided DEF Fit, Addressed
<1>4. r \in Recipients /\ \A b : Member(b) # r
  BY <1>1, <1>3, GroupsAreNotMembers
<1>5. r \in R
  BY <1>1, <1>2 DEF Rows, GroupOps
<1>6. state \in States
  <2>1. t.saw = recipients[r].state
    BY <1>3, <1>4, <1>5 DEF Sound
  <2>2. t.saw \in States
    BY <1>4, <2>1 DEF IInv, Tables, TelegramTables, RecipientTable
  <2> QED
    BY <1>1, <1>2, <2>2 DEF GroupAfter, GroupOps, States
<1>7. RequestTable' /\ LinkTable' /\ \A b \in Accounts : Linked(b)' = Linked(b)
  BY <1>2, RequestsStay, LinksStay
<1>8. RecipientTable' /\ \A q \in Recipients : q # r => recipients'[q] = recipients[q]
  <2>1. CASE recipients' = recipients
    BY <1>7, <2>1, RecipientsStay
  <2>2. CASE recipients' = [recipients EXCEPT ![r] = [state |-> state, chat |-> 0]]
    <3>1. 0 \in Users \cup {0}
      OBVIOUS
    <3> QED
      BY <1>4, <1>6, <1>7, <2>2, <3>1, OneRecipient
  <2> QED
    BY <1>2, <2>1, <2>2
<1>9. Transactions'
  BY <1>1, <1>2, <1>5, <1>7, <1>8, TelegramCommitting
<1> QED
  BY <1>7, <1>8, <1>9 DEF TelegramTables

LEMMA ExpireRequestKept ==
    ASSUME IInv, UNCHANGED <<rows, agenda>>, NEW a \in Accounts, ExpireRequest(a)
    PROVE  Transactions' /\ TelegramTables'
<1>1. UNCHANGED <<clerk, links, dead, recipients, accounts, invitations>>
  BY DEF ExpireRequest, Unrecorded, rows
<1>2. LinkTable' /\ RecipientTable' /\ \A b \in Accounts : Linked(b)' = Linked(b)
  BY <1>1, LinksStay, RecipientsStay
<1>3. /\ requests \in [Accounts -> Ago] /\ groupRequests \in [Accounts -> Ago] /\ dead \in [Accounts -> Nat]
  BY RequestsOf
<1>4. ASSUME NEW old \in Ago, old.status = "OPEN", NEW new, new = [old EXCEPT !.status = "OVER"]
      PROVE  new \in Ago /\ new.no = old.no /\ Outstanding(old) /\ Outstanding(new)
  BY <1>4 DEF Ago, Progressed, Outstanding
<1>5. RequestTable' /\ \A b \in Accounts : /\ SameToken(requests[b], requests'[b])
                                           /\ SameToken(groupRequests[b], groupRequests'[b])
  <2>1. CASE requests[a].status = "OPEN" /\ requests' = [requests EXCEPT ![a].status = "OVER"]
             /\ UNCHANGED groupRequests
    <3>1. PICK old, new, d : old = requests[a] /\ new = [old EXCEPT !.status = "OVER"] /\ d = dead[a]
      OBVIOUS
    <3>2. /\ new \in Ago /\ new.no = old.no /\ Outstanding(old) /\ Outstanding(new) /\ d \in Nat
          /\ new.no <= agenda.tokens[a] /\ d < new.no
      BY <1>4, <2>1, <3>1, RequestsOf
    <3>3. requests' = [requests EXCEPT ![a] = new] /\ dead' = [dead EXCEPT ![a] = d]
      BY <1>1, <1>3, <2>1, <3>1
    <3>4. RequestTable' /\ \A b \in Accounts : b # a => requests'[b] = requests[b]
      BY <2>1, <3>2, <3>3, OneRequest
    <3>5. requests'[a] = new
      BY <1>3, <3>3
    <3>6. \A b \in Accounts : SameToken(requests[b], requests'[b])
      BY <3>1, <3>2, <3>4, <3>5 DEF SameToken
    <3> QED
      BY <2>1, <3>4, <3>6 DEF SameToken
  <2>2. CASE groupRequests[a].status = "OPEN" /\ groupRequests' = [groupRequests EXCEPT ![a].status = "OVER"]
             /\ UNCHANGED requests
    <3>1. PICK old, new : old = groupRequests[a] /\ new = [old EXCEPT !.status = "OVER"]
      OBVIOUS
    <3>2. /\ new \in Ago /\ new.no = old.no /\ Outstanding(old) /\ Outstanding(new)
          /\ new.no <= agenda.tokens[a]
      BY <1>4, <2>2, <3>1, RequestsOf
    <3>3. groupRequests' = [groupRequests EXCEPT ![a] = new]
      BY <1>3, <2>2, <3>1
    <3>4. RequestTable' /\ \A b \in Accounts : b # a => groupRequests'[b] = groupRequests[b]
      BY <1>1, <2>2, <3>2, <3>3, OneGroupRequest
    <3>5. groupRequests'[a] = new
      BY <1>3, <3>3
    <3>6. \A b \in Accounts : SameToken(groupRequests[b], groupRequests'[b])
      BY <3>1, <3>2, <3>4, <3>5 DEF SameToken
    <3> QED
      BY <2>2, <3>4, <3>6 DEF SameToken
  <2> QED
    BY <2>1, <2>2 DEF ExpireRequest
<1>6. \A H : Undisturbed(H)
  BY <1>1, <1>2, <1>5 DEF Undisturbed, SameToken, ActiveSuperAdmins
<1>7. Transactions'
  BY <1>1, <1>6, IssuedBefore, NobodyMoves DEF IInv
<1> QED
  BY <1>2, <1>5, <1>7 DEF TelegramTables
-----------------------------------------------------------------------------
(* The desk.                                                               *)

LEMMA CommitAssignKept ==
    ASSUME IInv, UNCHANGED <<accounts, invitations, requests, groupRequests, links, recipients>>,
           NEW c \in Clerks, CommitAssign(c)
    PROVE  Transactions' /\ DeskTables'
<1>1. PICK t : t = clerk[c]
  OBVIOUS
<1>2. t.op = "assign" /\ t.todo = << >> /\ clerk' = [clerk EXCEPT ![c] = Idle] /\ UNCHANGED inquiry
  BY <1>1 DEF CommitAssign, Ready, Ends
<1>3. t.on \in Accounts \cup {None} /\ t.no \in Nat
  BY <1>1, <1>2, Decided DEF Fit, Addressed, Tasks
<1>4. DeskTables /\ Latest \in Nat
  BY DeskAssumption DEF IInv, Tables, DeskAssumption
<1>5. assignment' \in [member : Accounts \cup {None}, at : 0..Latest]
  <2>1. CASE UNCHANGED assignment
    BY <1>4, <2>1 DEF DeskTables
  <2>2. CASE assignment' # assignment
    <3>1. PICK at \in Later(c) : assignment' = IF t.on = None THEN Unassigned ELSE [member |-> t.on, at |-> at]
      BY <1>1, <2>2 DEF CommitAssign
    <3>2. at \in 0..Latest
      BY <1>1, <1>3, <1>4, <3>1 DEF Later
    <3> QED
      BY <1>3, <1>4, <3>1, <3>2 DEF Unassigned, None
  <2> QED
    BY <2>1, <2>2
<1> QED
  BY <1>2, <1>4, <1>5, Refused DEF DeskTables

LEMMA CommitChangeStatusKept ==
    ASSUME IInv, UNCHANGED <<accounts, invitations, requests, groupRequests, links, recipients>>,
           NEW c \in Clerks, CommitChangeStatus(c)
    PROVE  Transactions' /\ DeskTables'
<1>1. PICK t : t = clerk[c]
  OBVIOUS
<1>2. t.op = "changeStatus" /\ t.todo = << >> /\ clerk' = [clerk EXCEPT ![c] = Idle] /\ UNCHANGED assignment
  BY <1>1 DEF CommitChangeStatus, Ready, Ends
<1>3. t.saw \in DOMAIN Follows /\ t.arg \in Follows[t.saw] /\ t.no \in Nat
  BY <1>1, <1>2, Decided DEF Fit, Addressed, Tasks
<1>4. t.arg \in DOMAIN Follows
  BY <1>3 DEF Follows
<1>5. DeskTables /\ Latest \in Nat
  BY DeskAssumption DEF IInv, Tables, DeskAssumption
<1>6. inquiry' \in [status : DOMAIN Follows, at : 0..Latest]
  <2>1. CASE UNCHANGED inquiry
    BY <1>5, <2>1 DEF DeskTables
  <2>2. CASE inquiry' # inquiry
    <3>1. PICK at \in Later(c) : inquiry' = [status |-> t.arg, at |-> at]
      BY <1>1, <2>2 DEF CommitChangeStatus
    <3>2. at \in 0..Latest
      BY <1>1, <1>3, <1>5, <3>1 DEF Later
    <3> QED
      BY <1>4, <3>1, <3>2
  <2> QED
    BY <2>1, <2>2
<1> QED
  BY <1>2, <1>5, <1>6, Refused DEF DeskTables
-----------------------------------------------------------------------------
(* Every step keeps the tables and what the transactions rely on.          *)

LEMMA AccountTablesStay ==
    ASSUME IInv, UNCHANGED <<rows, agenda>>
    PROVE  AccountTables'
  BY PeopleStay, InvitationsStay, SessionsStay DEF AccountTables, rows

LEMMA TelegramTablesStay ==
    ASSUME IInv, agenda' = agenda, NoTelegram
    PROVE  TelegramTables' /\ UNCHANGED <<requests, groupRequests, links, recipients>>
<1>1. UNCHANGED <<requests, groupRequests, links, recipients, dead>>
  BY DEF NoTelegram, Waits, Unrecorded
<1> QED
  BY <1>1, RequestsStay, LinksStay, RecipientsStay DEF TelegramTables

LEMMA DeskTablesStay ==
    ASSUME IInv, UNCHANGED <<inquiry, assignment>>
    PROVE  DeskTables'
<1>1. DeskTables
  BY DEF IInv, Tables
<1> QED
  BY <1>1 DEF DeskTables

LEMMA AccountsBegin ==
    ASSUME IInv, UNCHANGED <<accounts, invitations, requests, groupRequests, links, recipients>>,
           NEW c \in Clerks, BeginAccounts(c) \/ AccountLock(c)
    PROVE  Transactions'
  BY BeginInvitationKept, BeginActivationKept, BeginRevocationKept, BeginChangeRoleKept,
     BeginBootstrapKept, BeginLoginKept, AccountLockKept DEF BeginAccounts

LEMMA AccountsKeep ==
    ASSUME IInv, AccountsNext, NoTelegram, NoDesk
    PROVE  IInv'
<1>1. /\ UNCHANGED <<requests, groupRequests, links, recipients, agenda>>
      /\ TelegramTables' /\ DeskTables'
  BY TelegramTablesStay, DeskTablesStay DEF AccountsNext, NoDesk
<1> SUFFICES Transactions' /\ AccountTables'
  BY <1>1 DEF IInv, Tables
<1>2. CASE \E c \in Clerks : AccountsStep(c)
  <2>1. PICK c \in Clerks : AccountsStep(c)
    BY <1>2
  <2>2. CASE (BeginAccounts(c) \/ AccountLock(c)) /\ UNCHANGED rows
    <3>1. UNCHANGED <<accounts, invitations>>
      BY <2>2 DEF rows
    <3> QED
      BY <1>1, <2>2, <3>1, AccountsBegin, AccountTablesStay
  <2>3. CASE BeginSetActive(c)
    <3>1. UNCHANGED <<accounts, invitations>>
      BY <2>3 DEF BeginSetActive
    <3>2. Transactions' /\ SessionTable'
      BY <1>1, <2>3, <3>1, BeginSetActiveKept, SessionTableInBeginning
    <3> QED
      BY <1>1, <3>1, <3>2, PeopleStay, InvitationsStay DEF AccountTables
  <2>4. CASE CreateSession(c)
    BY <1>1, <2>4, CreateSessionKept
  <2>5. CASE CommitInvitation(c)
    BY <1>1, <2>5, CommitInvitationKept
  <2>6. CASE CommitActivation(c)
    BY <1>1, <2>6, CommitActivationKept
  <2>7. CASE CommitRevocation(c)
    BY <1>1, <2>7, CommitRevocationKept
  <2>8. CASE CommitChangeRole(c)
    BY <1>1, <2>8, CommitChangeRoleKept
  <2>9. CASE CommitSetActive(c)
    BY <1>1, <2>9, CommitSetActiveKept
  <2>10. CASE CommitBootstrap(c)
    BY <1>1, <2>10, CommitBootstrapKept
  <2>11. CASE Rollback(c)
    <3>1. clerk' = [clerk EXCEPT ![c] = Idle] /\ UNCHANGED rows /\ UNCHANGED <<accounts, invitations>>
      BY <2>11 DEF Rollback, Ends, rows
    <3> QED
      BY <1>1, <3>1, Refused, AccountTablesStay
  <2> QED
    BY <2>1, <2>2, <2>3, <2>4, <2>5, <2>6, <2>7, <2>8, <2>9, <2>10, <2>11 DEF AccountsStep
<1>3. CASE \E a \in Accounts : Provision(a) \/ ExpireInvitation(a) \/ Logout(a) \/ ExpireSession(a)
  <2>1. PICK a \in Accounts : Provision(a) \/ ExpireInvitation(a) \/ Logout(a) \/ ExpireSession(a)
    BY <1>3
  <2>2. CASE Provision(a)
    BY <1>1, <2>2, ProvisionKept
  <2>3. CASE ExpireInvitation(a)
    BY <1>1, <2>3, ExpireInvitationKept
  <2>4. CASE Logout(a) \/ ExpireSession(a)
    <3>1. PICK i, status : /\ i \in DOMAIN sessions[a] /\ status \in {"OVER", "REVOKED"}
                           /\ sessions' = [sessions EXCEPT ![a][i].status = status]
      BY <2>4 DEF Logout, ExpireSession
    <3>2. UNCHANGED <<accounts, invitations, clerk>>
      BY <2>4 DEF Logout, ExpireSession
    <3> QED
      BY <1>1, <3>1, <3>2, SessionMarked
  <2> QED
    BY <2>1, <2>2, <2>3, <2>4
<1> QED
  BY <1>2, <1>3 DEF AccountsNext

LEMMA TelegramKeeps ==
    ASSUME IInv, TelegramNext, NoDesk, UNCHANGED <<rows, agenda>>
    PROVE  IInv'
<1>1. AccountTables' /\ DeskTables' /\ UNCHANGED <<accounts, invitations>>
  BY AccountTablesStay, DeskTablesStay DEF NoDesk, rows
<1> SUFFICES Transactions' /\ TelegramTables'
  BY <1>1 DEF IInv, Tables
<1>2. CASE \E c \in Clerks : TelegramStep(c)
  <2>1. PICK c \in Clerks : TelegramStep(c)
    BY <1>2
  <2>2. CASE (BeginTelegram(c) \/ TelegramLock(c)) /\ Waits
    <3>1. TelegramTables' /\ UNCHANGED <<requests, groupRequests, links, recipients>>
      BY <2>2, TelegramTablesStay DEF NoTelegram
    <3>2. Transactions'
      BY <1>1, <2>2, <3>1, BeginRequestKept, BeginConsumeKept, BeginRevokeRequestKept, BeginDisconnectKept,
         BeginSetMemberKept, BeginGroupRequestKept, BeginConsumeGroupKept, BeginSetGroupKept, TelegramLockKept
         DEF BeginTelegram
    <3> QED
      BY <3>1, <3>2
  <2>3. CASE CommitRequest(c)
    BY <2>3, CommitRequestKept
  <2>4. CASE CommitConsume(c)
    BY <2>4, CommitConsumeKept
  <2>5. CASE CommitRevokeRequest(c)
    BY <2>5, CommitRevokeRequestKept
  <2>6. CASE CommitDisconnect(c)
    BY <2>6, CommitDisconnectKept
  <2>7. CASE CommitSetMember(c)
    BY <2>7, CommitSetMemberKept
  <2>8. CASE CommitGroupRequest(c)
    BY <2>8, CommitGroupRequestKept
  <2>9. CASE CommitConsumeGroup(c)
    BY <2>9, CommitConsumeGroupKept
  <2>10. CASE CommitSetGroup(c)
    BY <2>10, CommitSetGroupKept
  <2> QED
    BY <2>1, <2>2, <2>3, <2>4, <2>5, <2>6, <2>7, <2>8, <2>9, <2>10 DEF TelegramStep
<1>3. CASE \E a \in Accounts : ExpireRequest(a)
  BY <1>3, ExpireRequestKept
<1> QED
  BY <1>2, <1>3 DEF TelegramNext

LEMMA DeskKeeps ==
    ASSUME IInv, NEW c \in Clerks, DeskStep(c), NoTelegram, UNCHANGED <<rows, agenda>>
    PROVE  IInv'
<1>1. /\ AccountTables' /\ TelegramTables' /\ UNCHANGED <<accounts, invitations>>
      /\ UNCHANGED <<requests, groupRequests, links, recipients>>
  BY AccountTablesStay, TelegramTablesStay DEF rows
<1> SUFFICES Transactions' /\ DeskTables'
  BY <1>1 DEF IInv, Tables
<1>2. CASE (BeginAssign(c) \/ BeginChangeStatus(c) \/ DeskLock(c)) /\ UNCHANGED <<inquiry, assignment>>
  BY <1>1, <1>2, DeskTablesStay, BeginAssignKept, BeginChangeStatusKept, DeskLockKept
<1>3. CASE CommitAssign(c)
  BY <1>1, <1>3, CommitAssignKept
<1>4. CASE CommitChangeStatus(c)
  BY <1>1, <1>4, CommitChangeStatusKept
<1> QED
  BY <1>2, <1>3, <1>4 DEF DeskStep

LEMMA NextKeeps ==
    ASSUME IInv, [Next]_vars
    PROVE  IInv'
<1>1. CASE AccountsNext /\ NoTelegram /\ NoDesk
  BY <1>1, AccountsKeep
<1>2. CASE TelegramNext /\ NoDesk /\ UNCHANGED <<rows, agenda>>
  BY <1>2, TelegramKeeps
<1>3. CASE (\E c \in Clerks : DeskStep(c)) /\ NoTelegram /\ UNCHANGED <<rows, agenda>>
  BY <1>3, DeskKeeps
<1>4. CASE UNCHANGED vars
  <2>1. /\ UNCHANGED <<rows, agenda, clerk, requests, groupRequests, links, recipients, dead, inquiry, assignment>>
        /\ UNCHANGED <<accounts, invitations>>
    BY <1>4 DEF vars, rows, telegram, desk
  <2>2. \A H : Undisturbed(H)
    BY <2>1, NothingDisturbed DEF IInv, Tables
  <2>3. Transactions'
    BY <2>1, <2>2, IssuedBefore, NobodyMoves DEF IInv
  <2>4. TelegramTables'
    BY <2>1, RequestsStay, LinksStay, RecipientsStay DEF TelegramTables
  <2> QED
    BY <2>1, <2>3, <2>4, AccountTablesStay, DeskTablesStay DEF IInv, Tables
<1> QED
  BY <1>1, <1>2, <1>3, <1>4 DEF Next

LEMMA InitHolds ==
    ASSUME Init
    PROVE  IInv
<1>1. PICK beginning \in Beginnings :
         /\ accounts = beginning.staff
         /\ agenda = [ops |-> beginning.ops, tokens |-> beginning.tokens]
  BY DEF Init, AccountsInit
<1>2. /\ beginning.staff \in [Accounts -> People] /\ beginning.tokens \in [Accounts -> Nat]
  BY StaffAssumption DEF StaffAssumption, People
<1>3. /\ invitations = [a \in Accounts |-> NoInvitation] /\ sessions = [a \in Accounts |-> <<>>]
      /\ clerk = [c \in Clerks |-> Idle]
  BY DEF Init, AccountsInit
<1>4. PeopleTable
  BY <1>1, <1>2 DEF PeopleTable
<1>5. agenda.tokens \in [Accounts -> Nat]
  BY <1>4 DEF PeopleTable
<1>6. InvitationTable
  BY <1>3, <1>5 DEF InvitationTable, InvitationRows, NoInvitation, Outstanding, Progressed
<1>7. SessionTable
  <2>1. \A a \in Accounts : sessions[a] = << >> /\ << >> \in Seq(SessionRows) /\ Len(<< >>) = 0
    BY <1>3
  <2>2. sessions = [a \in Accounts |-> sessions[a]]
    BY <1>3
  <2>3. sessions \in [Accounts -> Seq(SessionRows)]
    BY <2>1, <2>2
  <2>4. \A a \in Accounts : Len(sessions[a]) <= agenda.tokens[a]
    BY <1>5, <2>1
  <2> QED
    BY <2>3, <2>4 DEF SessionTable
<1>8. RequestTable
  BY <1>5 DEF Init, TelegramInit, RequestTable, NoRequest, Ago, Progressed, Outstanding
<1>9. LinkTable
  BY DEF Init, TelegramInit, LinkTable, NoLink
<1>10. RecipientTable
  <2>1. recipients = [r \in Recipients |-> [state |-> "NONE", chat |-> 0]]
    BY DEF Init, TelegramInit
  <2>2. \A a \in Accounts : Member(a) \in Recipients
    BY DEF Recipients
  <2>3. RecipientsAreLinked
    BY <2>1, <2>2 DEF RecipientsAreLinked, IsAuthorized
  <2> QED
    BY <2>1, <2>3 DEF RecipientTable, States
<1>11. DeskTables
  <2>1. Latest \in Nat
    BY DeskAssumption DEF DeskAssumption
  <2> QED
    BY <2>1 DEF Init, DeskInit, DeskTables, Unassigned, None, Follows
<1>12. Transactions
  <2>1. \A c \in Clerks : clerk[c] = Idle
    BY <1>3
  <2>2. Fit(Idle) /\ Sound(Idle)
    BY IdleFits
  <2>3. clerk \in [Clerks -> Tasks]
    BY <1>3, <2>2 DEF Fit
  <2>4. Exclusive
    BY <2>1 DEF Exclusive, Idle
  <2> QED
    BY <2>1, <2>2, <2>3, <2>4 DEF Transactions
<1> QED
  BY <1>4, <1>6, <1>7, <1>8, <1>9, <1>10, <1>11, <1>12 DEF IInv, Tables, AccountTables, TelegramTables

\* The tables keep their shape, a row has one holder, and what a transaction has found
\* under its locks stays so until it ends: the strengthening all safety rests on.
THEOREM Invariance == Spec => []IInv
<1>1. Init => IInv
  BY InitHolds
<1>2. IInv /\ [Next]_vars => IInv'
  BY NextKeeps
<1> QED
  BY <1>1, <1>2, PTL DEF Spec
-----------------------------------------------------------------------------
(* What the invariant says.                                                *)

\* Every row of the tables keeps its type, numbers of invitations and requests stay in
\* their bounds, a member has at most one link, and a lock has one holder.
THEOREM TypesAreKept == Spec => []TypeOK
<1> SUFFICES ASSUME IInv PROVE TypeOK
  BY Invariance, PTL
<1>1. /\ PeopleTable /\ InvitationTable /\ SessionTable /\ RequestTable /\ LinkTable
      /\ RecipientTable /\ DeskTables /\ Exclusive
  BY DEF IInv, Tables, AccountTables, TelegramTables, Transactions
<1>2. accounts \in [Accounts -> [role : Roles \cup {"NONE"}, active : BOOLEAN]]
  BY <1>1 DEF PeopleTable, People
<1>3. \A a \in Accounts : invitations[a].role # "SUPER_ADMIN" /\ invitations[a].no \in 0..agenda.tokens[a]
  <2> SUFFICES ASSUME NEW a \in Accounts
               PROVE  invitations[a].role # "SUPER_ADMIN" /\ invitations[a].no \in 0..agenda.tokens[a]
    OBVIOUS
  <2>1. invitations[a] \in InvitationRows /\ invitations[a].no <= agenda.tokens[a] /\ agenda.tokens[a] \in Nat
    BY <1>1 DEF InvitationTable, PeopleTable
  <2> QED
    BY <2>1 DEF InvitationRows
<1>4. \A a \in Accounts : requests[a].no \in 0..agenda.tokens[a] /\ groupRequests[a].no \in 0..agenda.tokens[a]
  <2> SUFFICES ASSUME NEW a \in Accounts
               PROVE  requests[a].no \in 0..agenda.tokens[a] /\ groupRequests[a].no \in 0..agenda.tokens[a]
    OBVIOUS
  <2>1. PICK m, n, k : m = requests[a].no /\ n = groupRequests[a].no /\ k = agenda.tokens[a]
    OBVIOUS
  <2>2. m \in Nat /\ n \in Nat /\ k \in Nat /\ m <= k /\ n <= k
    BY <2>1, RequestsOf
  <2> QED
    BY <2>1, <2>2
<1>5. \A u \in Users : links[u].on => links[u].of \in Accounts
  BY <1>1 DEF LinkTable
<1>6. ASSUME NEW a \in Accounts
      PROVE  Cardinality(Linked(a)) <= 1
  <2>1. CASE Linked(a) = {}
    BY <2>1, FS_EmptySet
  <2>2. CASE Linked(a) # {}
    <3>1. PICK u : u \in Linked(a)
      BY <2>2
    <3>2. \A v \in Linked(a) : v = u
      BY <1>1, <3>1 DEF LinkTable, Linked
    <3>3. Linked(a) = {u}
      BY <3>1, <3>2
    <3>4. Cardinality(Linked(a)) = 1
      BY <3>3, FS_Singleton
    <3> QED
      BY <3>4
  <2> QED
    BY <2>1, <2>2
<1>7. \A r \in Recipients : recipients[r].state \in States
  BY <1>1 DEF RecipientTable
<1>8. \A a \in Accounts : Len(sessions[a]) <= agenda.tokens[a]
  BY <1>1 DEF SessionTable
<1>9. /\ inquiry \in [status : DOMAIN Follows, at : 0..Latest]
      /\ assignment \in [member : Accounts \cup {None}, at : 0..Latest]
  BY <1>1 DEF DeskTables
<1>10. \A c, d \in Clerks : c # d => clerk[c].has \cap clerk[d].has = {}
  BY <1>1 DEF Exclusive
<1> QED
  BY <1>2, <1>3, <1>4, <1>5, <1>6, <1>7, <1>8, <1>9, <1>10 DEF TypeOK

\* Whoever may be notified has a live link to the chat that is notified: a link is
\* only written, and a member only switched on, under the lock of the member's account.
THEOREM NotifiedAreLinked == Spec => []RecipientsAreLinked
<1>1. IInv => RecipientsAreLinked
  BY DEF IInv, Tables, TelegramTables, RecipientTable
<1> QED
  BY <1>1, Invariance, PTL

\* Those that need no token lock in one order.
OneOrder(r, q) == Before("none", r, q)

LEMMA OneOrderForAll ==
    ASSUME NEW op, op \notin RowsFirst, NEW r, NEW q
    PROVE  Before(op, r, q) <=> OneOrder(r, q)
  BY DEF OneOrder, Before, Class, RowsFirst

LEMMA OneOrderIsStrict ==
    /\ \A r \in AllRows : ~ OneOrder(r, r)
    /\ \A r, q, p \in AllRows : OneOrder(r, q) /\ OneOrder(q, p) => OneOrder(r, p)
<1>1. \A r : Class("none", r) \in 1..4 /\ (r[1] = "account" <=> Class("none", r) = 2)
  BY DEF Class, RowsFirst
<1>2. \A r \in AllRows : r[1] = "account" => r[2] \in Nat
  BY Kinds, Numbers DEF AllRows
<1>3. \A r \in AllRows : ~ OneOrder(r, r)
  BY <1>1, <1>2 DEF OneOrder, Before
<1>4. ASSUME NEW r \in AllRows, NEW q \in AllRows, NEW p \in AllRows, OneOrder(r, q), OneOrder(q, p)
      PROVE  OneOrder(r, p)
  BY <1>1, <1>2, <1>4 DEF OneOrder, Before
<1> QED
  BY <1>3, <1>4

LEMMA WaitingRises ==
    ASSUME IInv, NEW c \in Clerks, NEW d \in Clerks, WaitsFor(c, d), clerk[d].todo # << >>,
           clerk[d].op \notin RowsFirst
    PROVE  Wants(c) \in AllRows /\ Wants(d) \in AllRows /\ OneOrder(Wants(c), Wants(d))
<1>1. PICK t, s, r, q : t = clerk[d] /\ s = t.todo /\ r = Wants(c) /\ q = Wants(d)
  OBVIOUS
<1>2. Fit(t) /\ r \in t.has /\ s # << >> /\ q = Head(s)
  BY <1>1 DEF WaitsFor, Wants, IInv, Transactions
<1>3. s \in Seq(AllRows) /\ t.has \subseteq AllRows /\ Chain(t.op, s)
  BY <1>1, <1>2 DEF Fit, Tasks, InOrder
<1>4. q \in AllRows /\ q \in ToSet(s)
  <2>1. PICK b, op : b = Tail(s) /\ op = t.op
    OBVIOUS
  <2>2. s \in Seq(AllRows) /\ Chain(op, s) /\ s # << >> /\ q = Head(s) /\ b = Tail(s)
    BY <1>2, <1>3, <2>1
  <2>3. q \in AllRows
    BY ONLY <2>2, PlanGoesOn
  <2>4. ToSet(s) = ToSet(b) \cup {q}
    BY ONLY <2>2, PlanGoesOn
  <2> QED
    BY <2>3, <2>4
<1>5. Before(t.op, r, q)
  BY <1>1, <1>2, <1>4 DEF Fit, InOrder, Left
<1> QED
  BY <1>1, <1>2, <1>3, <1>4, <1>5, OneOrderForAll

LEMMA NoOtherCircle ==
    ASSUME IInv, NEW circle \in SUBSET Clerks, circle # {},
           \A c \in circle : \E d \in circle : WaitsFor(c, d),
           \A c \in circle : clerk[c].op \notin RowsFirst
    PROVE  FALSE
<1> DEFINE Behind(c) == {e \in circle : OneOrder(Wants(c), Wants(e))}
           All == {Behind(c) : c \in circle}
<1>1. IsFiniteSet(circle)
  BY StaffAssumption, FS_Subset DEF StaffAssumption
<1>2. \A c \in circle : clerk[c].todo # << >>
  BY DEF WaitsFor
<1>3. \A c \in circle : Wants(c) \in AllRows
  BY <1>2, WaitingRises
<1>4. ASSUME NEW c \in circle
      PROVE  \E d \in circle : Behind(d) \subseteq Behind(c) /\ Behind(d) # Behind(c)
  <2>1. PICK d \in circle : WaitsFor(c, d)
    OBVIOUS
  <2>2. OneOrder(Wants(c), Wants(d))
    BY <1>2, <2>1, WaitingRises
  <2>3. Behind(d) \subseteq Behind(c)
    BY <1>3, <2>2, OneOrderIsStrict
  <2>4. d \in Behind(c) /\ d \notin Behind(d)
    BY <1>3, <2>2, OneOrderIsStrict
  <2> QED
    BY <2>3, <2>4
<1>5. \A c \in circle : Behind(c) \in SUBSET circle
  OBVIOUS
<1> HIDE DEF Behind
<1>6. All \subseteq FiniteSubsetsOf(circle) /\ All # {}
  <2>1. \A c \in circle : Behind(c) \in FiniteSubsetsOf(circle)
    BY <1>1, <1>5, FS_Subset DEF FiniteSubsetsOf
  <2> QED
    BY <2>1
<1>7. PICK x \in All : \A y \in All : ~ (<<y, x>> \in StrictSubsetOrdering(circle))
  <2> HIDE DEF All
  <2>1. IsWellFoundedOn(StrictSubsetOrdering(circle), FiniteSubsetsOf(circle))
    BY FS_StrictSubsetOrderingWellFounded
  <2> QED
    BY <1>6, <2>1, WFMin
<1>8. PICK c \in circle, d \in circle : x = Behind(c) /\ Behind(d) \subseteq Behind(c) /\ Behind(d) # Behind(c)
  BY <1>4, <1>7
<1>9. <<Behind(d), Behind(c)>> \in StrictSubsetOrdering(circle)
  BY <1>5, <1>8 DEF StrictSubsetOrdering
<1>10. Behind(d) \in All
  OBVIOUS
<1> QED
  BY <1>7, <1>8, <1>9, <1>10

\* A circle of waiting transactions contains one that came with a token: the others
\* wait for rows that come ever later in the one order, which a finite circle cannot.
THEOREM CirclesComeFromTokens == Spec => []CirclesNeedARequest
<1>1. IInv => CirclesNeedARequest
  <2> SUFFICES ASSUME IInv, NEW circle \in (SUBSET Clerks) \ {{}},
                      \A c \in circle : \E d \in circle : WaitsFor(c, d)
               PROVE  \E c \in circle : clerk[c].op \in RowsFirst
    BY DEF CirclesNeedARequest
  <2> SUFFICES ASSUME \A c \in circle : clerk[c].op \notin RowsFirst
               PROVE  FALSE
    OBVIOUS
  <2>1. circle \in SUBSET Clerks /\ circle # {}
    OBVIOUS
  <2> QED
    BY <2>1, NoOtherCircle
<1> QED
  BY <1>1, Invariance, PTL
-----------------------------------------------------------------------------
(* Power: who gets it, by whose decision.                                  *)

LEMMA AccountsChange ==
    ASSUME [Next]_vars, accounts' # accounts
    PROVE  \/ \E c \in Clerks : CommitActivation(c) \/ CommitChangeRole(c) \/ CommitSetActive(c) \/ CommitBootstrap(c)
           \/ \E a \in Accounts : Provision(a)
<1>1. AccountsNext
  BY DEF Next, vars, rows
<1>2. CASE \E c \in Clerks : AccountsStep(c)
  BY <1>2 DEF AccountsStep, rows, BeginSetActive, CreateSession, CommitInvitation, CommitRevocation, Rollback
<1>3. CASE \E a \in Accounts : Provision(a) \/ ExpireInvitation(a) \/ Logout(a) \/ ExpireSession(a)
  BY <1>3 DEF ExpireInvitation, Logout, ExpireSession
<1> QED
  BY <1>1, <1>2, <1>3 DEF AccountsNext

LEMMA Finished ==
    ASSUME IInv, NEW c \in Clerks, Ends(c), clerk[c].op # "none"
    PROVE  Finishing(c)
<1>1. clerk'[c] = Idle
  BY DEF Ends, IInv, Transactions
<1> QED
  BY <1>1 DEF Finishing, Idle

\* One account changes: the others keep what they are.
LEMMA OneChanges ==
    ASSUME IInv, NEW b \in Accounts, NEW p, accounts' = [accounts EXCEPT ![b] = p]
    PROVE  /\ accounts'[b] = p /\ \A a \in Accounts : accounts'[a] # accounts[a] => a = b
           /\ (p.role = "SUPER_ADMIN" /\ p.active) \/ (\E x \in ActiveSuperAdmins : x # b)
                => ActiveSuperAdmins' # {}
<1>1. accounts'[b] = p /\ \A a \in Accounts : a # b => accounts'[a] = accounts[a]
  BY DEF IInv, Tables, AccountTables, PeopleTable
<1> QED
  BY <1>1 DEF ActiveSuperAdmins

LEMMA AnotherOne ==
    ASSUME NEW b, ~ LastSuperAdmin(b), ActiveSuperAdmins # {}
    PROVE  \E x \in ActiveSuperAdmins : x # b
<1>1. PICK x : x \in ActiveSuperAdmins
  OBVIOUS
<1> SUFFICES ASSUME \A y \in ActiveSuperAdmins : y = b
             PROVE  FALSE
  OBVIOUS
<1>2. ActiveSuperAdmins = {b}
  BY <1>1
<1>3. Cardinality(ActiveSuperAdmins) = 1
  BY <1>2, FS_Singleton
<1> QED
  BY <1>1, <1>3 DEF LastSuperAdmin

LEMMA ActivationIsGranted ==
    ASSUME IInv, NEW c \in Clerks, CommitActivation(c)
    PROVE  /\ \A a \in Accounts : accounts'[a] # accounts[a] => Granted(a)
           /\ ActiveSuperAdmins # {} => ActiveSuperAdmins' # {}
<1>1. PICK t, b, p : t = clerk[c] /\ b = t.on /\ p = [role |-> invitations[b].role, active |-> TRUE]
  OBVIOUS
<1>2. t.op = "activateInvitation" /\ t.todo = << >> /\ Ends(c)
  BY <1>1 DEF CommitActivation, Ready
<1>3. b \in Accounts /\ Sound(t) /\ Judged(t) /\ Row("invitation", b) \in t.has
  <2>1. Fit(t) /\ Sound(t) /\ Judged(t) /\ t.has = Rows(t)
    BY <1>1, <1>2, Decided
  <2>2. b \in Accounts
    BY <1>1, <1>2, <2>1 DEF Fit, Addressed
  <2>3. Row("invitation", b) \in Rows(t)
    BY <1>1, <1>2 DEF Rows, GroupOps
  <2> QED
    BY <2>1, <2>2, <2>3
<1>4. CASE accounts' = accounts
  BY <1>4 DEF ActiveSuperAdmins
<1>5. CASE accounts' # accounts
  <2>1. ~ Exists(b) /\ accounts' = [accounts EXCEPT ![b] = p]
    BY <1>1, <1>5 DEF CommitActivation
  <2>2. /\ accounts'[b] = p /\ \A a \in Accounts : accounts'[a] # accounts[a] => a = b
        /\ (\E x \in ActiveSuperAdmins : x # b) => ActiveSuperAdmins' # {}
    BY <1>3, <2>1, OneChanges
  <2>3. b \notin ActiveSuperAdmins
    BY <2>1 DEF ActiveSuperAdmins, Exists
  <2>4. /\ t.no = invitations[b].no /\ Outstanding(invitations[b])
        /\ MayInvite(invitations[b].by, accounts'[b].role)
    BY <1>1, <1>2, <1>3, <2>2 DEF Sound
  <2>5. Finishing(c)
    BY <1>1, <1>2, Finished
  <2>6. Granted(b)
    BY <1>1, <1>2, <2>1, <2>4, <2>5 DEF Granted
  <2> QED
    BY <2>2, <2>3, <2>6
<1> QED
  BY <1>4, <1>5

LEMMA RoleIsGranted ==
    ASSUME IInv, NEW c \in Clerks, CommitChangeRole(c)
    PROVE  /\ \A a \in Accounts : accounts'[a] # accounts[a] => Granted(a)
           /\ ActiveSuperAdmins # {} => ActiveSuperAdmins' # {}
<1>1. PICK t, b, p : t = clerk[c] /\ b = t.on /\ p = [accounts[b] EXCEPT !.role = t.arg]
  OBVIOUS
<1>2. t.op = "changeRole" /\ t.todo = << >> /\ Ends(c) /\ accounts' = [accounts EXCEPT ![b] = p]
  BY <1>1 DEF CommitChangeRole, Ready
<1>3. b \in Accounts /\ Sound(t) /\ Judged(t)
  BY <1>1, <1>2, Decided DEF Fit, Addressed
<1>4. p.role = t.arg /\ p.active = accounts[b].active
  <2>1. accounts[b] \in People
    BY <1>3 DEF IInv, Tables, AccountTables, PeopleTable
  <2> QED
    BY <1>1, <2>1 DEF People
<1>5. /\ accounts[t.by].active /\ MayChangeRole(t.by, b, t.arg)
      /\ ~ (LastSuperAdmin(b) /\ t.arg # "SUPER_ADMIN")
  BY <1>1, <1>2, <1>3 DEF Sound
<1>6. /\ accounts'[b] = p /\ \A a \in Accounts : accounts'[a] # accounts[a] => a = b
      /\ (p.role = "SUPER_ADMIN" /\ p.active) \/ (\E x \in ActiveSuperAdmins : x # b)
            => ActiveSuperAdmins' # {}
  BY <1>2, <1>3, OneChanges
<1>7. ActiveSuperAdmins # {} => ActiveSuperAdmins' # {}
  <2>1. CASE t.arg = "SUPER_ADMIN"
    BY <1>4, <1>5, <1>6, <2>1 DEF MayChangeRole
  <2>2. CASE t.arg # "SUPER_ADMIN"
    BY <1>5, <1>6, <2>2, AnotherOne
  <2> QED
    BY <2>1, <2>2
<1>8. Finishing(c)
  BY <1>1, <1>2, Finished
<1>9. Granted(b)
  BY <1>1, <1>2, <1>4, <1>5, <1>6, <1>8 DEF Granted
<1> QED
  BY <1>6, <1>7, <1>9

LEMMA SwitchIsGranted ==
    ASSUME IInv, NEW c \in Clerks, CommitSetActive(c)
    PROVE  /\ \A a \in Accounts : accounts'[a] # accounts[a] => Granted(a)
           /\ ActiveSuperAdmins # {} => ActiveSuperAdmins' # {}
<1>1. PICK t, b : t = clerk[c] /\ b = t.on
  OBVIOUS
<1>2. t.op = "setActive" /\ t.todo = << >> /\ Ends(c)
  BY <1>1 DEF CommitSetActive, Ready
<1>3. b \in Accounts /\ Sound(t) /\ Judged(t) /\ t.arg \in {"ON", "OFF"}
  BY <1>1, <1>2, Decided DEF Fit, Addressed
<1>4. /\ accounts[t.by].active /\ MayManageTarget(t.by, b)
      /\ accounts[b].active # (t.arg = "ON") /\ ~ (t.arg = "OFF" /\ LastSuperAdmin(b))
  BY <1>1, <1>2, <1>3 DEF Sound
<1>5. CASE accounts' = accounts
  BY <1>5 DEF ActiveSuperAdmins
<1>6. CASE accounts' # accounts
  <2>1. PICK p : accounts' = [accounts EXCEPT ![b] = p]
    BY <1>1, <1>6 DEF CommitSetActive
  <2>2. /\ \A a \in Accounts : accounts'[a] # accounts[a] => a = b
        /\ (\E x \in ActiveSuperAdmins : x # b) => ActiveSuperAdmins' # {}
    BY <1>3, <2>1, OneChanges
  <2>3. ActiveSuperAdmins # {} => ActiveSuperAdmins' # {}
    <3>1. CASE t.arg = "OFF"
      BY <1>4, <2>2, <3>1, AnotherOne
    <3>2. CASE t.arg = "ON"
      <4>1. b \notin ActiveSuperAdmins
        BY <1>3, <1>4, <3>2 DEF ActiveSuperAdmins, IInv, Tables, AccountTables, PeopleTable, People
      <4> QED
        BY <2>2, <4>1
    <3> QED
      BY <1>3, <3>1, <3>2
  <2>4. Finishing(c)
    BY <1>1, <1>2, Finished
  <2>5. Granted(b)
    BY <1>1, <1>2, <1>4, <2>4 DEF Granted
  <2> QED
    BY <2>2, <2>3, <2>5
<1> QED
  BY <1>5, <1>6

LEMMA BootstrapIsGranted ==
    ASSUME IInv, NEW c \in Clerks, CommitBootstrap(c)
    PROVE  /\ \A a \in Accounts : accounts'[a] # accounts[a] => Granted(a)
           /\ ActiveSuperAdmins # {} => ActiveSuperAdmins' # {}
<1>1. PICK t, b, p : t = clerk[c] /\ b = t.on /\ p = [accounts[b] EXCEPT !.role = "SUPER_ADMIN"]
  OBVIOUS
<1>2. t.op = "bootstrap" /\ t.todo = << >> /\ Ends(c) /\ accounts' = [accounts EXCEPT ![b] = p]
  BY <1>1 DEF CommitBootstrap, Ready
<1>3. b \in Accounts /\ Sound(t) /\ Judged(t) /\ Admin \in t.has
  <2>1. Fit(t) /\ Sound(t) /\ Judged(t) /\ t.has = Rows(t)
    BY <1>1, <1>2, Decided
  <2>2. b \in Accounts
    BY <1>1, <1>2, <2>1 DEF Fit, Addressed
  <2>3. Admin \in Rows(t)
    BY <1>1, <1>2 DEF Rows, GroupOps
  <2> QED
    BY <2>1, <2>2, <2>3
<1>4. ActiveSuperAdmins = {} /\ accounts[b].active /\ accounts[b].role = "ADMIN"
  BY <1>1, <1>2, <1>3 DEF Sound
<1>5. \A a \in Accounts : accounts'[a] # accounts[a] => a = b
  BY <1>2, <1>3, OneChanges
<1>6. Finishing(c)
  BY <1>1, <1>2, Finished
<1>7. Granted(b)
  BY <1>1, <1>2, <1>4, <1>6 DEF Granted
<1> QED
  BY <1>4, <1>5, <1>7

LEMMA ProvisionIsGranted ==
    ASSUME IInv, NEW b \in Accounts, Provision(b)
    PROVE  /\ \A a \in Accounts : accounts'[a] # accounts[a] => Granted(a)
           /\ ActiveSuperAdmins # {} => ActiveSuperAdmins' # {}
<1>1. PICK role \in {"ADMIN", "SALES"} : accounts' = [accounts EXCEPT ![b] = [role |-> role, active |-> TRUE]]
  BY DEF Provision
<1>2. ~ Exists(b) /\ clerk' = clerk
  BY DEF Provision
<1>3. PICK p : p = [role |-> role, active |-> TRUE]
  OBVIOUS
<1>4. /\ accounts'[b] = p /\ \A a \in Accounts : accounts'[a] # accounts[a] => a = b
      /\ (\E x \in ActiveSuperAdmins : x # b) => ActiveSuperAdmins' # {}
  BY <1>1, <1>3, OneChanges
<1>5. b \notin ActiveSuperAdmins
  BY <1>2 DEF ActiveSuperAdmins, Exists
<1>6. Granted(b)
  BY <1>1, <1>2, <1>3, <1>4 DEF Granted
<1> QED
  BY <1>4, <1>5, <1>6

LEMMA AssigneesAreActive ==
    ASSUME IInv, [Next]_vars, assignment'.member \notin {assignment.member, None}
    PROVE  accounts[assignment'.member].active
<1>1. PICK c \in Clerks : CommitAssign(c) /\ assignment' # assignment
  BY DEF Next, vars, desk, NoDesk, DeskStep, CommitChangeStatus
<1>2. PICK t : t = clerk[c]
  OBVIOUS
<1>3. /\ t.op = "assign" /\ t.todo = << >>
      /\ \E at \in Later(c) : assignment' = IF t.on = None THEN Unassigned ELSE [member |-> t.on, at |-> at]
  BY <1>1, <1>2 DEF CommitAssign, Ready
<1>4. t.on # None /\ assignment'.member = t.on
  BY <1>3 DEF Unassigned, None
<1> QED
  BY <1>2, <1>3, <1>4, Decided DEF Sound

\* An account appears, changes its role or is switched only when it is granted at that
\* moment, the last active super admin never goes, and whoever gets an inquiry is active
\* then: what was decided under the locks is still so when it is written.
THEOREM NobodyHelpsThemselves == Spec => PowerIsGranted
<1>1. ASSUME IInv, [Next]_vars
      PROVE  /\ \A a \in Accounts : accounts'[a] # accounts[a] => Granted(a)
             /\ ActiveSuperAdmins # {} => ActiveSuperAdmins' # {}
  <2>1. CASE accounts' = accounts
    BY <2>1 DEF ActiveSuperAdmins
  <2>2. CASE accounts' # accounts
    BY <1>1, <2>2, AccountsChange, ActivationIsGranted, RoleIsGranted, SwitchIsGranted,
       BootstrapIsGranted, ProvisionIsGranted
  <2> QED
    BY <2>1, <2>2
<1> QED
  BY <1>1, AssigneesAreActive, Invariance, PTL DEF Spec, PowerIsGranted
-----------------------------------------------------------------------------
(* Tokens: none that is dead connects, authorizes or signs in.             *)

LEMMA SessionsChange ==
    ASSUME [Next]_vars, sessions' # sessions
    PROVE  \/ \E c \in Clerks : BeginSetActive(c) \/ CreateSession(c) \/ CommitSetActive(c)
           \/ \E a \in Accounts : Logout(a) \/ ExpireSession(a)
<1>1. AccountsNext
  BY DEF Next, vars, rows
<1>2. CASE \E c \in Clerks : AccountsStep(c)
  BY <1>2 DEF AccountsStep, rows, CommitInvitation, CommitActivation, CommitRevocation, CommitChangeRole,
              CommitBootstrap, Rollback
<1>3. CASE \E a \in Accounts : Provision(a) \/ ExpireInvitation(a) \/ Logout(a) \/ ExpireSession(a)
  BY <1>3 DEF Provision, ExpireInvitation
<1> QED
  BY <1>1, <1>2, <1>3 DEF AccountsNext

\* A session that was not open does not open.
LEMMA SessionsStayOver ==
    ASSUME IInv, [Next]_vars, NEW a \in Accounts, NEW i \in DOMAIN sessions[a], sessions'[a][i].status = "OPEN"
    PROVE  sessions[a][i].status = "OPEN"
<1>1. /\ sessions \in [Accounts -> Seq(SessionRows)] /\ sessions[a] \in Seq(SessionRows)
      /\ i \in 1..Len(sessions[a]) /\ sessions[a][i] \in SessionRows
  BY SessionsOf DEF IInv, Tables, AccountTables, SessionTable
<1>2. CASE sessions' = sessions
  BY <1>2
<1>3. ASSUME NEW c \in Clerks, BeginSetActive(c)
      PROVE  sessions[a][i].status = "OPEN"
  <2>1. sessions'[a][i] = [sessions[a][i] EXCEPT !.after = sessions[a][i].after \ {c}]
    BY <1>3 DEF BeginSetActive
  <2> QED
    BY <1>1, <2>1 DEF SessionRows
<1>4. ASSUME NEW c \in Clerks, CreateSession(c)
      PROVE  sessions[a][i].status = "OPEN"
  <2>1. PICK b, row : b = clerk[c].on /\ sessions' = [sessions EXCEPT ![b] = Append(sessions[b], row)]
    BY <1>4 DEF CreateSession
  <2>2. sessions'[a][i] = sessions[a][i]
    BY <1>1, <2>1
  <2> QED
    BY <2>2
<1>5. ASSUME NEW c \in Clerks, CommitSetActive(c)
      PROVE  sessions[a][i].status = "OPEN"
  <2>1. PICK b : b = clerk[c].on /\ (sessions' = sessions \/ sessions' = [sessions EXCEPT ![b] = SessionsCut(b)])
    BY <1>5 DEF CommitSetActive
  <2>2. CASE sessions' = [sessions EXCEPT ![b] = SessionsCut(b)] /\ a = b
    <3>1. sessions'[a][i] = [sessions[a][i] EXCEPT !.status = "REVOKED"]
      BY <1>1, <2>2 DEF SessionsCut
    <3> QED
      BY <1>1, <3>1 DEF SessionRows
  <2>3. CASE sessions' = [sessions EXCEPT ![b] = SessionsCut(b)] /\ a # b
    BY <1>1, <2>3
  <2> QED
    BY <2>1, <2>2, <2>3
<1>6. ASSUME NEW b \in Accounts, Logout(b) \/ ExpireSession(b)
      PROVE  sessions[a][i].status = "OPEN"
  <2>1. PICK j, status : /\ j \in DOMAIN sessions[b] /\ status \in {"OVER", "REVOKED"}
                         /\ sessions' = [sessions EXCEPT ![b][j].status = status]
    BY <1>6 DEF Logout, ExpireSession
  <2>2. CASE a = b /\ i = j
    <3>1. sessions'[a][i] = [sessions[a][i] EXCEPT !.status = status]
      BY <1>1, <2>1, <2>2
    <3> QED
      BY <1>1, <2>1, <3>1 DEF SessionRows
  <2>3. CASE a # b \/ i # j
    BY <1>1, <2>1, <2>3
  <2> QED
    BY <2>2, <2>3
<1> QED
  BY <1>2, <1>3, <1>4, <1>5, <1>6, SessionsChange

\* Whoever is switched off is signed out.
LEMMA SwitchedOffSignedOut ==
    ASSUME IInv, [Next]_vars, NEW a \in Accounts, accounts[a].active, ~ accounts'[a].active,
           NEW i \in DOMAIN sessions[a]
    PROVE  sessions'[a][i].status # "OPEN"
<1>1. /\ accounts \in [Accounts -> People] /\ sessions \in [Accounts -> Seq(SessionRows)]
      /\ sessions[a][i] \in SessionRows
  BY SessionsOf DEF IInv, Tables, AccountTables, PeopleTable, SessionTable
<1>2. accounts' # accounts
  OBVIOUS
<1>3. ASSUME NEW b, NEW p, accounts' = [accounts EXCEPT ![b] = p]
      PROVE  ~ p.active /\ a = b
  BY <1>1, <1>3
<1>4. ASSUME NEW c \in Clerks, CommitActivation(c)
      PROVE  FALSE
  <2>1. PICK b, p : accounts' = [accounts EXCEPT ![b] = p] /\ p = [role |-> invitations[b].role, active |-> TRUE]
    BY <1>2, <1>4 DEF CommitActivation
  <2> QED
    BY <1>3, <2>1
<1>5. ASSUME NEW b, NEW role, accounts' = [accounts EXCEPT ![b].role = role]
      PROVE  FALSE
  <2>1. PICK p : p = [accounts[b] EXCEPT !.role = role]
    OBVIOUS
  <2>2. ~ p.active /\ a = b
    BY <1>3, <1>5, <2>1
  <2>3. accounts[b] \in People
    BY <1>1, <2>2
  <2> QED
    BY <2>1, <2>2, <2>3 DEF People
<1>6. ASSUME NEW c \in Clerks, CommitChangeRole(c) \/ CommitBootstrap(c)
      PROVE  FALSE
  BY <1>5, <1>6 DEF CommitChangeRole, CommitBootstrap
<1>7. ASSUME NEW b \in Accounts, Provision(b)
      PROVE  FALSE
  <2>1. PICK role, p : accounts' = [accounts EXCEPT ![b] = p] /\ p = [role |-> role, active |-> TRUE]
    BY <1>7 DEF Provision
  <2> QED
    BY <1>3, <2>1
<1>8. ASSUME NEW c \in Clerks, CommitSetActive(c)
      PROVE  sessions'[a][i].status # "OPEN"
  <2>1. PICK b : b = clerk[c].on
    OBVIOUS
  <2>2. CASE accounts' = [accounts EXCEPT ![b].active = TRUE]
    <3>1. accounts'[a].active
      BY <1>1, <2>2 DEF People
    <3> QED
      BY <3>1
  <2>3. CASE accounts' = [accounts EXCEPT ![b].active = FALSE] /\ sessions' = [sessions EXCEPT ![b] = SessionsCut(b)]
    <3>1. a = b
      BY <1>1, <2>3
    <3>2. sessions'[a][i] = [sessions[a][i] EXCEPT !.status = "REVOKED"]
      BY <1>1, <2>3, <3>1 DEF SessionsCut
    <3> QED
      BY <1>1, <3>2 DEF SessionRows
  <2> QED
    BY <1>2, <1>8, <2>1, <2>2, <2>3 DEF CommitSetActive
<1> QED
  BY <1>2, <1>4, <1>6, <1>7, <1>8, AccountsChange

LEMMA TelegramChange ==
    ASSUME [Next]_vars
    PROVE  /\ links' # links => \E c \in Clerks : CommitConsume(c) \/ CommitDisconnect(c)
           /\ recipients' # recipients =>
                \E c \in Clerks : \/ CommitDisconnect(c) \/ CommitSetMember(c)
                                  \/ CommitConsumeGroup(c) \/ CommitSetGroup(c)
<1>1. CASE NoTelegram
  BY <1>1 DEF NoTelegram, Waits, Unrecorded
<1>2. CASE UNCHANGED vars
  BY <1>2 DEF vars, telegram
<1>3. CASE TelegramNext
  <2>1. CASE \E c \in Clerks : TelegramStep(c)
    BY <2>1 DEF TelegramStep, Waits, Unrecorded, CommitRequest, CommitRevokeRequest, CommitGroupRequest,
                CommitConsume, CommitSetMember, CommitConsumeGroup, CommitSetGroup
  <2>2. CASE \E a \in Accounts : ExpireRequest(a)
    BY <2>2 DEF ExpireRequest, Unrecorded
  <2> QED
    BY <1>3, <2>1, <2>2 DEF TelegramNext
<1> QED
  BY <1>1, <1>2, <1>3 DEF Next

\* Whoever connects presents a token that is not dead, for an active member.
LEMMA ConnectedByLivingTokens ==
    ASSUME IInv, [Next]_vars, NEW u \in Users, links'[u].on, ~ links[u].on
    PROVE  \E c \in Clerks :
              /\ Finishing(c) /\ clerk[c].op = "consume" /\ clerk[c].on = links'[u].of
              /\ clerk[c].no > dead[clerk[c].on] /\ accounts[clerk[c].on].active
<1>1. links \in [Users -> [of : Accounts \cup {0}, on : BOOLEAN]]
  BY DEF IInv, Tables, TelegramTables, LinkTable
<1>2. PICK c \in Clerks : CommitConsume(c) \/ CommitDisconnect(c)
  <2>1. links' # links
    OBVIOUS
  <2> QED
    BY <2>1, TelegramChange
<1>3. CASE CommitDisconnect(c)
  <2>1. PICK a : links' = [v \in Users |-> IF v \in Linked(a) THEN [links[v] EXCEPT !.on = FALSE] ELSE links[v]]
    BY <1>3 DEF CommitDisconnect
  <2>2. u \notin Linked(a)
    BY DEF Linked
  <2> QED
    BY <2>1, <2>2
<1>4. CASE CommitConsume(c)
  <2>1. PICK t, a, v : t = clerk[c] /\ a = t.on /\ v = t.by
    OBVIOUS
  <2>2. /\ t.op = "consume" /\ t.todo = << >> /\ Ends(c)
        /\ links' = [links EXCEPT ![v] = [of |-> a, on |-> TRUE]]
    BY <1>4, <2>1 DEF CommitConsume, Ready
  <2>3. u = v /\ links'[u].of = a
    BY <1>1, <2>2
  <2>4. Fit(t) /\ Sound(t) /\ Judged(t) /\ t.has = Rows(t)
    BY <2>1, <2>2, Decided
  <2>5. a \in Accounts /\ Row("request", a) \in t.has
    <3>1. a \in Accounts
      BY <2>1, <2>2, <2>4 DEF Fit, Addressed
    <3>2. Row("request", a) \in Rows(t)
      BY <2>1, <2>2 DEF Rows, GroupOps
    <3> QED
      BY <2>4, <3>1, <3>2
  <2>6. t.no = requests[a].no /\ Outstanding(requests[a]) /\ MayUseOwn(a)
    BY <2>1, <2>2, <2>4, <2>5 DEF Sound
  <2>7. t.no > dead[a] /\ accounts[a].active
    <3>1. PICK m, d : m = requests[a].no /\ d = dead[a]
      OBVIOUS
    <3>2. m \in Nat /\ d \in Nat /\ d < m
      BY <2>5, <2>6, <3>1, RequestsOf
    <3> QED
      BY <2>6, <3>1, <3>2 DEF MayUseOwn
  <2>8. Finishing(c)
    BY <2>1, <2>2, Finished
  <2> QED
    BY <2>1, <2>2, <2>3, <2>7, <2>8
<1> QED
  BY <1>2, <1>3, <1>4

\* A group is authorized by the outstanding request of a manager whose own account it was.
LEMMA AuthorizedByManagers ==
    ASSUME IInv, [Next]_vars, NEW g \in Groups,
           IsAuthorized(recipients'[Group(g)].state), ~ IsAuthorized(recipients[Group(g)].state)
    PROVE  \E c \in Clerks :
              /\ Finishing(c) /\ clerk[c].op = "consumeGroup"
              /\ clerk[c].no = groupRequests[clerk[c].on].no
              /\ Outstanding(groupRequests[clerk[c].on])
              /\ ActorAllowed(clerk[c].on) /\ clerk[c].by \in Linked(clerk[c].on)
<1>1. PICK r : r = Group(g) /\ r \in Recipients /\ \A b : Member(b) # r
  BY GroupsAreNotMembers
<1>2. recipients \in [Recipients -> [state : States, chat : Users \cup {0}]]
  BY DEF IInv, Tables, TelegramTables, RecipientTable
<1>3. PICK c \in Clerks : \/ CommitDisconnect(c) \/ CommitSetMember(c)
                          \/ CommitConsumeGroup(c) \/ CommitSetGroup(c)
  <2>1. recipients' # recipients
    OBVIOUS
  <2> QED
    BY <2>1, TelegramChange
<1>4. PICK t : t = clerk[c]
  OBVIOUS
<1>5. ASSUME CommitDisconnect(c) \/ CommitSetMember(c)
      PROVE  FALSE
  <2>1. PICK b, row : recipients' = recipients \/ recipients' = [recipients EXCEPT ![Member(b)] = row]
    BY <1>5 DEF CommitDisconnect, CommitSetMember, SwitchedOff, Recorded, Unrecorded
  <2>2. recipients'[r] = recipients[r]
    BY <1>1, <1>2, <2>1
  <2> QED
    BY <1>1, <2>2
<1>6. ASSUME CommitSetGroup(c)
      PROVE  FALSE
  <2>1. PICK q, state : q = Group(t.arg) /\ state = GroupAfter(t.op, t.saw)
    OBVIOUS
  <2>2. /\ t.op \in GroupOps /\ t.todo = << >>
        /\ recipients' = recipients \/ recipients' = [recipients EXCEPT ![q] = [state |-> state, chat |-> 0]]
    BY <1>4, <1>6, <2>1 DEF CommitSetGroup, Recorded, Unrecorded
  <2>3. q = r /\ recipients'[r].state = state
    BY <1>1, <1>2, <2>2
  <2>4. Sound(t) /\ t.has = Rows(t)
    BY <1>4, <2>2, Decided
  <2>5. q \in Rows(t)
    BY <2>1, <2>2 DEF Rows, GroupOps
  <2>6. t.saw = recipients[r].state
    BY <1>1, <2>3, <2>4, <2>5 DEF Sound
  <2>7. t.saw \in States /\ ~ IsAuthorized(t.saw) /\ IsAuthorized(state)
    BY <1>1, <1>2, <2>3, <2>6
  <2> QED
    BY <2>1, <2>2, <2>7 DEF GroupAfter, GroupOps, States, IsAuthorized
<1>7. CASE CommitConsumeGroup(c)
  <2>1. t.op = "consumeGroup" /\ t.todo = << >> /\ Ends(c)
    BY <1>4, <1>7 DEF CommitConsumeGroup, Ready
  <2>2. Fit(t) /\ Sound(t) /\ Judged(t) /\ t.has = Rows(t)
    BY <1>4, <2>1, Decided
  <2>3. Row("groupRequest", t.on) \in Rows(t)
    BY <2>1 DEF Rows, GroupOps
  <2>4. /\ t.no = groupRequests[t.on].no /\ Outstanding(groupRequests[t.on])
        /\ ActorAllowed(t.on) /\ t.by \in Linked(t.on)
    BY <2>1, <2>2, <2>3 DEF Sound
  <2>5. Finishing(c)
    BY <1>4, <2>1, Finished
  <2> QED
    BY <1>4, <2>1, <2>4, <2>5
<1> QED
  BY <1>3, <1>5, <1>6, <1>7

\* No token connects, authorizes or signs in after its end: neither a request that was
\* replaced, revoked or cut off, nor a session that was over or cut with its account.
THEOREM DeadTokensStayDead == Spec => NoDeadToken
<1>1. ASSUME IInv, [Next]_vars
      PROVE  \A a \in Accounts : \A i \in DOMAIN sessions[a] :
                /\ i \in SignedIn(a)' => sessions[a][i].status = "OPEN"
                /\ accounts[a].active /\ ~accounts'[a].active => sessions'[a][i].status # "OPEN"
  BY <1>1, SessionsStayOver, SwitchedOffSignedOut DEF SignedIn
<1>2. ASSUME IInv, [Next]_vars
      PROVE  \A u \in Users :
                links'[u].on /\ ~links[u].on =>
                    \E c \in Clerks :
                        /\ Finishing(c) /\ clerk[c].op = "consume" /\ clerk[c].on = links'[u].of
                        /\ clerk[c].no > dead[clerk[c].on] /\ accounts[clerk[c].on].active
  BY <1>2, ConnectedByLivingTokens
<1>3. ASSUME IInv, [Next]_vars
      PROVE  \A g \in Groups :
                IsAuthorized(recipients'[Group(g)].state) /\ ~IsAuthorized(recipients[Group(g)].state) =>
                    \E c \in Clerks :
                        /\ Finishing(c) /\ clerk[c].op = "consumeGroup"
                        /\ clerk[c].no = groupRequests[clerk[c].on].no
                        /\ Outstanding(groupRequests[clerk[c].on])
                        /\ ActorAllowed(clerk[c].on) /\ clerk[c].by \in Linked(clerk[c].on)
  BY <1>3, AuthorizedByManagers
<1> QED
  BY <1>1, <1>2, <1>3, Invariance, PTL DEF Spec, NoDeadToken
-----------------------------------------------------------------------------
(* The audit.                                                              *)

LEMMA RecordedIsTrue ==
    ASSUME IInv, NEW c \in Clerks, NEW t, t = clerk[c], t.todo = << >>, NEW q \in Rows(t), NEW state, NEW chat,
           Recorded(c, q, state, chat), NEW r \in Recipients, recipients'[r].state # recipients[r].state
    PROVE  news' = {[of |-> r, from |-> recipients[r].state, to |-> recipients'[r].state]}
<1>1. recipients \in [Recipients -> [state : States, chat : Users \cup {0}]]
  BY DEF IInv, Tables, TelegramTables, RecipientTable
<1>2. /\ recipients' = [recipients EXCEPT ![q] = [state |-> state, chat |-> chat]]
      /\ news' = {[of |-> q, from |-> t.saw, to |-> state]}
  BY DEF Recorded
<1>3. r = q /\ recipients'[r].state = state
  BY <1>1, <1>2
<1>4. t.saw = recipients[r].state
  BY <1>3, Decided DEF Sound
<1> QED
  BY <1>2, <1>3, <1>4

LEMMA RecipientsAreAudited ==
    ASSUME IInv, [Next]_vars, NEW r \in Recipients, recipients'[r].state # recipients[r].state
    PROVE  news' = {[of |-> r, from |-> recipients[r].state, to |-> recipients'[r].state]}
<1>1. PICK c \in Clerks : \/ CommitDisconnect(c) \/ CommitSetMember(c)
                          \/ CommitConsumeGroup(c) \/ CommitSetGroup(c)
  <2>1. recipients' # recipients
    OBVIOUS
  <2> QED
    BY <2>1, TelegramChange
<1>2. PICK t : t = clerk[c]
  OBVIOUS
<1>3. recipients' # recipients
  OBVIOUS
<1>4. PICK q, state, chat : q \in Rows(t) /\ Recorded(c, q, state, chat)
  <2>1. CASE CommitDisconnect(c)
    <3>1. t.op = "disconnect" /\ Recorded(c, Member(t.on), "OFF", 0)
      BY <1>2, <1>3, <2>1 DEF CommitDisconnect, Ready, SwitchedOff, Unrecorded
    <3>2. Member(t.on) \in Rows(t)
      BY <3>1 DEF Rows, GroupOps
    <3> QED
      BY <3>1, <3>2
  <2>2. CASE CommitSetMember(c)
    <3>1. t.op = "setMember" /\ \E u : Recorded(c, Member(t.on), t.arg, u)
      BY <1>2, <1>3, <2>2 DEF CommitSetMember, Ready, Unrecorded
    <3>2. Member(t.on) \in Rows(t)
      BY <3>1 DEF Rows, GroupOps
    <3> QED
      BY <3>1, <3>2
  <2>3. CASE CommitConsumeGroup(c)
    <3>1. t.op = "consumeGroup" /\ Recorded(c, Group(t.arg), "ON", 0)
      BY <1>2, <2>3 DEF CommitConsumeGroup, Ready
    <3>2. Group(t.arg) \in Rows(t)
      BY <3>1 DEF Rows, GroupOps
    <3> QED
      BY <3>1, <3>2
  <2>4. CASE CommitSetGroup(c)
    <3>1. t.op \in GroupOps /\ Recorded(c, Group(t.arg), GroupAfter(t.op, t.saw), 0)
      BY <1>2, <1>3, <2>4 DEF CommitSetGroup, Unrecorded
    <3>2. Group(t.arg) \in Rows(t)
      BY <3>1 DEF Rows, GroupOps
    <3> QED
      BY <3>1, <3>2
  <2> QED
    BY <1>1, <2>1, <2>2, <2>3, <2>4
<1>5. t.todo = << >>
  BY <1>1, <1>2 DEF CommitDisconnect, CommitSetMember, CommitConsumeGroup, CommitSetGroup, Ready
<1> QED
  BY <1>2, <1>4, <1>5, RecordedIsTrue

LEMMA InquiriesAreAudited ==
    ASSUME IInv, [Next]_vars, inquiry' # inquiry
    PROVE  /\ entry' = {[from |-> inquiry.status, to |-> inquiry'.status]}
           /\ inquiry'.status \in Follows[inquiry.status] /\ inquiry'.at > inquiry.at
<1>1. PICK c \in Clerks : CommitChangeStatus(c)
  BY DEF Next, vars, desk, NoDesk, DeskStep, CommitAssign
<1>2. PICK t : t = clerk[c]
  OBVIOUS
<1>3. /\ t.op = "changeStatus" /\ t.todo = << >> /\ inquiry = [status |-> t.saw, at |-> t.no]
      /\ entry' = {[from |-> t.saw, to |-> t.arg]}
      /\ \E at \in Later(c) : inquiry' = [status |-> t.arg, at |-> at]
  BY <1>1, <1>2 DEF CommitChangeStatus, Ready, StillIn
<1>4. t.arg \in Follows[t.saw] /\ t.no \in Nat
  BY <1>2, <1>3, Decided DEF Fit, Addressed, Tasks
<1>5. PICK at \in Later(c) : inquiry' = [status |-> t.arg, at |-> at]
  BY <1>3
<1>6. at > t.no
  BY <1>2, <1>4, <1>5, DeskAssumption DEF Later, DeskAssumption
<1> QED
  BY <1>3, <1>4, <1>5, <1>6

LEMMA AssignmentsAreAudited ==
    ASSUME IInv, [Next]_vars, assignment' # assignment
    PROVE  /\ entry' = {[from |-> assignment.member, to |-> assignment'.member]}
           /\ assignment'.member # assignment.member
<1>1. PICK c \in Clerks : CommitAssign(c)
  BY DEF Next, vars, desk, NoDesk, DeskStep, CommitChangeStatus
<1>2. PICK t : t = clerk[c]
  OBVIOUS
<1>3. /\ t.op = "assign" /\ t.todo = << >> /\ assignment = [member |-> t.by, at |-> t.no]
      /\ \E at \in Later(c) :
           /\ assignment' = IF t.on = None THEN Unassigned ELSE [member |-> t.on, at |-> at]
           /\ entry' = {[from |-> t.by, to |-> t.on]}
  BY <1>1, <1>2 DEF CommitAssign, Ready, StillAssigned
<1>4. assignment'.member = t.on
  BY <1>3 DEF Unassigned, None
<1>5. t.by # t.on
  BY <1>2, <1>3, Decided DEF Fit, Addressed
<1> QED
  BY <1>3, <1>4, <1>5

\* The history is what happened: whenever a recipient, the status of an inquiry or its
\* assignee changes, the event says from what to what, though it was read before, and a
\* status follows the one before it at a later time.
THEOREM HistoryIsTrue == Spec => AuditIsTheHistory
<1>1. ASSUME IInv, [Next]_vars
      PROVE  /\ \A r \in Recipients :
                  recipients'[r].state # recipients[r].state =>
                      news' = {[of |-> r, from |-> recipients[r].state, to |-> recipients'[r].state]}
             /\ inquiry' # inquiry =>
                  /\ entry' = {[from |-> inquiry.status, to |-> inquiry'.status]}
                  /\ inquiry'.status \in Follows[inquiry.status] /\ inquiry'.at > inquiry.at
             /\ assignment' # assignment =>
                  /\ entry' = {[from |-> assignment.member, to |-> assignment'.member]}
                  /\ assignment'.member # assignment.member
  BY <1>1, RecipientsAreAudited, InquiriesAreAudited, AssignmentsAreAudited
<1> QED
  BY <1>1, Invariance, PTL DEF Spec, AuditIsTheHistory
=============================================================================
