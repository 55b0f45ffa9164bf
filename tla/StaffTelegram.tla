---------------------------- MODULE StaffTelegram ----------------------------
(***************************************************************************)
(* How staff connect their Telegram accounts and who gets notifications:   *)
(* connection requests, links, recipients and groups, next to the          *)
(* administration of accounts (StaffAccounts), whose row locks they share. *)
(*                                                                         *)
(* A token names a request by its number; whoever sends it to the bot      *)
(* consumes the request.  Consuming locks the request and then the         *)
(* account, everything else the account first.  A member's link is written *)
(* under the lock of the member's account, so its own lock is part of the  *)
(* step that writes it.                                                    *)
(***************************************************************************)
EXTENDS StaffAccounts

CONSTANTS Users, Groups    \* Telegram users, group chats

ASSUME TelegramAssumption == Users \subseteq Nat \ {0}

VARIABLES
    requests,        \* the newest connection request of each account
    groupRequests,   \* the newest group request of each account
    links,           \* telegram_staff_links, by Telegram user
    recipients,      \* communication_recipients: team members and groups
    news,            \* the communication_recipient_event the last step appended
    dead             \* history: the tokens of an account up to this one are dead

telegram == <<requests, groupRequests, links, recipients, news, dead>>

Member(a) == Row("member", a)
Group(g)  == Row("group", g)
Recipients == {Member(a) : a \in Accounts} \cup {Group(g) : g \in Groups}

\* A recipient does not exist, is unauthorized, authorized but off, or on.
States == {"NONE", "OFF", "MUTED", "ON"}
IsAuthorized(state) == state \in {"MUTED", "ON"}

NoRequest == [no |-> 0, status |-> "NONE"]
Request(no) == [no |-> no, status |-> "OPEN"]
NoLink == [of |-> 0, on |-> FALSE]

Linked(a) == {u \in Users : links[u].on /\ links[u].of = a}
Stands(request, no) == request.no = no /\ request.status = "OPEN"
Revoked(request) == IF Outstanding(request) THEN [request EXCEPT !.status = "REVOKED"] ELSE request

-----------------------------------------------------------------------------
(* Who may do what.                                                        *)

MayUseOwn(a) == Exists(a) /\ accounts[a].active

MayManageTelegram(a, b) ==
    Exists(a) /\ Exists(b) /\ accounts[a].active /\ MayManageTarget(a, b)

ActorAllowed(a) == Exists(a) /\ accounts[a].active /\ MayManageTeam(a)

TargetAllowed(a, b) ==
    ActorAllowed(a) /\ Exists(b) /\ accounts[b].active /\ (a = b \/ MayManageTarget(a, b))

-----------------------------------------------------------------------------
(* The transactions and their plans.                                       *)

GroupOps == {"enableGroup", "disableGroup", "disconnectGroup"}
TelegramOps == GroupOps \cup
    {"createRequest", "consume", "disconnect", "revokeRequest", "setMember",
     "createGroupRequest", "revokeGroupRequest", "consumeGroup"}

BeginRequest(c) ==
    \E a \in Accounts :
        /\ Exists(a) /\ requests[a].no < agenda.tokens[a]
        /\ Begin(c, "createRequest", a, a, "none", 0, <<Row("account", a), Row("request", a)>>)

\* Any Telegram user may present any token that was ever issued.
BeginConsume(c) ==
    \E a \in Accounts, u \in Users : \E no \in 1..requests[a].no :
        Begin(c, "consume", u, a, "none", no, <<Row("request", a), Row("account", a)>>)

BeginRevokeRequest(c) ==
    \E by, on \in Accounts :
        /\ Exists(by) /\ Exists(on)
        /\ Begin(c, "revokeRequest", by, on, "none", 0, Identities(by, on) \o <<Row("request", on)>>)

BeginDisconnect(c) ==
    \E by, on \in Accounts :
        /\ Exists(by) /\ Exists(on)
        /\ Begin(c, "disconnect", by, on, "none", 0,
                 Identities(by, on) \o <<Row("request", on), Member(on)>>)

BeginSetMember(c) ==
    \E by, on \in Accounts, switch \in {"ON", "MUTED"} :
        /\ Exists(by) /\ Exists(on)
        /\ Begin(c, "setMember", by, on, switch, 0, Identities(by, on) \o <<Member(on)>>)

BeginGroupRequest(c) ==
    \E a \in Accounts, op \in {"createGroupRequest", "revokeGroupRequest"} :
        /\ Exists(a) /\ (op = "createGroupRequest" => groupRequests[a].no < agenda.tokens[a])
        /\ Begin(c, op, a, a, "none", 0, <<Row("account", a), Row("groupRequest", a)>>)

BeginConsumeGroup(c) ==
    \E a \in Accounts, g \in Groups, u \in Users : \E no \in 1..groupRequests[a].no :
        Begin(c, "consumeGroup", u, a, g, no,
              <<Row("groupRequest", a), Row("account", a), Group(g)>>)

BeginSetGroup(c) ==
    \E by \in Accounts, g \in Groups, op \in GroupOps :
        /\ Exists(by)
        /\ Begin(c, op, by, by, g, 0, <<Row("account", by), Group(g)>>)

BeginTelegram(c) ==
    \/ BeginRequest(c) \/ BeginConsume(c) \/ BeginRevokeRequest(c) \/ BeginDisconnect(c)
    \/ BeginSetMember(c) \/ BeginGroupRequest(c) \/ BeginConsumeGroup(c) \/ BeginSetGroup(c)

\* What each operation checks under the lock it has just got.
TelegramCheck(c) ==
    LET t == clerk[c]
        identities == ReadsIdentities(c)
    IN  CASE t.op \in {"createRequest", "consume"} /\ identities -> MayUseOwn(t.on)
          [] t.op = "consume" /\ ~identities -> Stands(requests[t.on], t.no)
          [] t.op \in {"disconnect", "revokeRequest"} /\ identities ->
                (t.by = t.on /\ MayUseOwn(t.on)) \/ MayManageTelegram(t.by, t.on)
          [] t.op = "setMember" /\ identities -> TargetAllowed(t.by, t.on) /\ Linked(t.on) # {}
          [] t.op = "createGroupRequest" /\ identities -> ActorAllowed(t.on) /\ Linked(t.on) # {}
          [] t.op \in {"revokeGroupRequest"} \cup GroupOps /\ identities -> ActorAllowed(t.on)
          [] t.op = "consumeGroup" /\ Wants(c)[1] = "groupRequest" -> Stands(groupRequests[t.on], t.no)
          [] t.op = "consumeGroup" /\ identities -> ActorAllowed(t.on) /\ t.by \in Linked(t.on)
          [] OTHER -> TRUE

SeesEarly(c) ==
    IF clerk[c].op \in GroupOps /\ Wants(c)[1] = "account"
    THEN recipients[Group(clerk[c].arg)].state ELSE clerk[c].saw

\* The row of a recipient is read where it is locked.
Sees(c) == IF Wants(c) \in Recipients THEN recipients[Wants(c)].state ELSE clerk[c].saw

TelegramLock(c) == clerk[c].op \in TelegramOps /\ Lock(c, TelegramCheck(c), Sees(c))

-----------------------------------------------------------------------------
(* The writes.                                                             *)

\* A recipient changes, and the event of its change says from what.
Recorded(c, r, state, chat) ==
    /\ recipients' = [recipients EXCEPT ![r] = [state |-> state, chat |-> chat]]
    /\ news' = {[of |-> r, from |-> clerk[c].saw, to |-> state]}

Unrecorded == news' = {} /\ UNCHANGED recipients

CommitRequest(c) ==
    LET a == clerk[c].on
    IN  /\ Ready(c, "createRequest") /\ requests[a].no < agenda.tokens[a] /\ Ends(c)
        /\ requests' = [requests EXCEPT ![a] = Request(@.no + 1)]
        /\ dead' = [dead EXCEPT ![a] = requests[a].no]
        /\ Unrecorded /\ UNCHANGED <<groupRequests, links>>

TakenByOthers(u, a) == links[u].of \notin {0, a}

\* A Telegram user belongs to one member for ever, a member has one link at a time.
\* The user's link is locked even when it is another member's, not under the lock of that
\* member's account; consuming then only gives up, and that wait is left out.
Taken(u, a) == links[u].of \notin {0, a} \/ Linked(a) \ {u} # {}

CommitConsume(c) ==
    LET a == clerk[c].on
        u == clerk[c].by
    IN  /\ Ready(c, "consume") /\ Ends(c)
        /\ IF Taken(u, a) THEN UNCHANGED <<requests, links>>
           ELSE /\ links' = [links EXCEPT ![u] = [of |-> a, on |-> TRUE]]
                /\ requests' = [requests EXCEPT ![a].status = "CONSUMED"]
        /\ Unrecorded /\ UNCHANGED <<groupRequests, dead>>

CutOffLinked(a) ==
    /\ requests' = IF Linked(a) = {} THEN requests ELSE [requests EXCEPT ![a] = Revoked(@)]
    /\ dead' = [dead EXCEPT ![a] = requests[a].no]

\* Whatever tokens a has been given connect nobody any more, linked or not.
CutOff(a) ==
    /\ requests' = [requests EXCEPT ![a] = Revoked(@)]
    /\ dead' = [dead EXCEPT ![a] = requests[a].no]

CommitRevokeRequest(c) ==
    /\ Ready(c, "revokeRequest") /\ Ends(c)
    /\ CutOff(clerk[c].on)
    /\ Unrecorded /\ UNCHANGED <<groupRequests, links>>

KeptOn(c, a) == Unrecorded

\* Whoever is disconnected is not notified either.
SwitchedOff(c, a) ==
    IF Linked(a) # {} /\ IsAuthorized(recipients[Member(a)].state)
    THEN Recorded(c, Member(a), "OFF", 0) ELSE Unrecorded

CommitDisconnect(c) ==
    LET a == clerk[c].on
    IN  /\ Ready(c, "disconnect") /\ Ends(c)
        /\ CutOff(a) /\ SwitchedOff(c, a)
        /\ links' = [u \in Users |-> IF u \in Linked(a) THEN [links[u] EXCEPT !.on = FALSE] ELSE links[u]]
        /\ UNCHANGED groupRequests

CommitSetMember(c) ==
    LET r == Member(clerk[c].on)
        state == clerk[c].arg
        unchanged == IF state = "ON" THEN clerk[c].saw = "ON" ELSE clerk[c].saw # "ON"
    IN  /\ Ready(c, "setMember") /\ Ends(c)
        /\ IF unchanged THEN Unrecorded
           ELSE \E u \in Linked(clerk[c].on) : Recorded(c, r, state, u)
        /\ UNCHANGED <<requests, groupRequests, links, dead>>

CommitGroupRequest(c) ==
    LET a == clerk[c].on
    IN  /\ \/ /\ Ready(c, "createGroupRequest") /\ groupRequests[a].no < agenda.tokens[a]
              /\ groupRequests' = [groupRequests EXCEPT ![a] = Request(@.no + 1)]
           \/ /\ Ready(c, "revokeGroupRequest")
              /\ groupRequests' = [groupRequests EXCEPT ![a] = Revoked(@)]
        /\ Ends(c)
        /\ Unrecorded /\ UNCHANGED <<requests, links, dead>>

CommitConsumeGroup(c) ==
    /\ Ready(c, "consumeGroup") /\ Ends(c)
    /\ Recorded(c, Group(clerk[c].arg), "ON", 0)
    /\ groupRequests' = [groupRequests EXCEPT ![clerk[c].on].status = "CONSUMED"]
    /\ UNCHANGED <<requests, links, dead>>

\* Enabling needs an authorized group; disconnecting takes the authorization.
GroupAfter(op, saw) ==
    CASE op = "enableGroup"     -> IF IsAuthorized(saw) THEN "ON" ELSE saw
      [] op = "disableGroup"    -> IF saw = "ON" THEN "MUTED" ELSE saw
      [] op = "disconnectGroup" -> IF IsAuthorized(saw) THEN "OFF" ELSE saw

CommitSetGroup(c) ==
    LET t == clerk[c]
        state == GroupAfter(t.op, t.saw)
    IN  /\ t.op \in GroupOps /\ t.todo = <<>> /\ Ends(c)
        /\ IF state = t.saw THEN Unrecorded
           ELSE Recorded(c, Group(t.arg), state, 0)
        /\ UNCHANGED <<requests, groupRequests, links, dead>>

ExpireRequest(a) ==
    /\ \/ /\ requests[a].status = "OPEN"
          /\ requests' = [requests EXCEPT ![a].status = "OVER"] /\ UNCHANGED groupRequests
       \/ /\ groupRequests[a].status = "OPEN"
          /\ groupRequests' = [groupRequests EXCEPT ![a].status = "OVER"] /\ UNCHANGED requests
    /\ Unrecorded /\ UNCHANGED <<clerk, links, dead>>

-----------------------------------------------------------------------------

TelegramInit ==
    /\ requests = [a \in Accounts |-> NoRequest]
    /\ groupRequests = [a \in Accounts |-> NoRequest]
    /\ links = [u \in Users |-> NoLink]
    /\ recipients = [r \in Recipients |-> [state |-> "NONE", chat |-> 0]]
    /\ news = {}
    /\ dead = [a \in Accounts |-> 0]

Waits == Unrecorded /\ UNCHANGED <<requests, groupRequests, links, dead>>

TelegramStep(c) ==
    \/ (BeginTelegram(c) \/ TelegramLock(c)) /\ Waits
    \/ CommitRequest(c) \/ CommitConsume(c) \/ CommitRevokeRequest(c) \/ CommitDisconnect(c)
    \/ CommitSetMember(c) \/ CommitGroupRequest(c) \/ CommitConsumeGroup(c) \/ CommitSetGroup(c)

TelegramNext == (\E c \in Clerks : TelegramStep(c)) \/ (\E a \in Accounts : ExpireRequest(a))
=============================================================================
