---------------------------- MODULE StaffAccounts ----------------------------
(***************************************************************************)
(* The administration of staff accounts: roles, deactivation, invitations, *)
(* the first super admin, the operator's provisioning command, and the     *)
(* sessions of those who have signed in.                                   *)
(*                                                                         *)
(* Every operation of postgres-staff-management-repository.ts is one       *)
(* transaction: it takes row locks one after the other, decides by what it *)
(* reads under them, writes and commits.  A clerk is a database connection *)
(* in such a transaction; the locks it still wants are its `todo', those   *)
(* it has are `has'.  An account and its team member are locked, read and  *)
(* switched together and are one row here.  A transaction may end at any   *)
(* time (lost connection, crash, victim of a deadlock), undoing it.        *)
(***************************************************************************)
EXTENDS Integers, FiniteSets, SequencesExt

CONSTANTS
    Clerks, Accounts,
    Roles,        \* those of the four roles that occur
    Beginnings    \* with which staff a behaviour may begin, to which operations it
                  \* keeps and how many invitations, requests or sessions an account gets

VARIABLES
    accounts, invitations,
    sessions,     \* the sessions of each account, oldest first
    clerk, agenda

rows == <<accounts, invitations, sessions>>

Nobody == [role |-> "NONE", active |-> FALSE]
NoInvitation == [no |-> 0, status |-> "NONE", by |-> 0, role |-> "NONE"]
Idle == [op |-> "none", by |-> 0, on |-> 0, arg |-> "none", no |-> 0,
         todo |-> <<>>, has |-> {}, saw |-> "none"]

StaffAssumption ==
    /\ IsFiniteSet(Clerks) /\ IsFiniteSet(Accounts) /\ Accounts \subseteq Nat \ {0}
    /\ Roles \subseteq {"SUPER_ADMIN", "ADMIN", "SALES", "VIEWER"}
    /\ {"SUPER_ADMIN", "ADMIN", "SALES"} \subseteq Roles   \* the bootstrap and the command write them
    /\ \A beginning \in Beginnings :
        /\ beginning.staff \in [Accounts -> [role : Roles \cup {"NONE"}, active : BOOLEAN]]
        /\ beginning.tokens \in [Accounts -> Nat]
ASSUME StaffAssumption

\* Neither consumed nor revoked, the time to do so being over or not.
Outstanding(token) == token.status \in {"OPEN", "OVER"}

-----------------------------------------------------------------------------
(* The policy: who may do what, judged by the rows just locked.            *)

Exists(a) == accounts[a].role # "NONE"
MayManageTeam(a) == accounts[a].role \in {"SUPER_ADMIN", "ADMIN"}

MayInvite(a, role) ==
    /\ accounts[a].active /\ MayManageTeam(a)
    /\ accounts[a].role = "SUPER_ADMIN" \/ role \in {"SALES", "VIEWER"}

MayManageTarget(a, b) ==
    /\ a # b /\ MayManageTeam(a)
    /\ accounts[a].role = "SUPER_ADMIN" \/ accounts[b].role \in {"SALES", "VIEWER"}

MayChangeRole(a, b, role) ==
    /\ MayManageTarget(a, b) /\ accounts[b].role # role
    /\ role = "SUPER_ADMIN" => accounts[b].active
    /\ accounts[a].role = "SUPER_ADMIN" \/ role \in {"SALES", "VIEWER"}

ActiveSuperAdmins == {a \in Accounts : accounts[a].role = "SUPER_ADMIN" /\ accounts[a].active}

LastSuperAdmin(a) == a \in ActiveSuperAdmins /\ Cardinality(ActiveSuperAdmins) <= 1

-----------------------------------------------------------------------------
(* Transactions and their locks.                                           *)

Row(kind, a) == <<kind, a>>
Admin == Row("admin", 0)

IdentityOfActor(a, b) == <<Row("account", a)>>
IdentitiesAsNamed(a, b) ==
    IF a = b THEN <<Row("account", a)>> ELSE <<Row("account", a), Row("account", b)>>

\* Two accounts are locked in the order of their ids, whoever acts.
Identities(a, b) ==
    IF a = b THEN <<Row("account", a)>>
    ELSE IF a < b THEN <<Row("account", a), Row("account", b)>>
    ELSE <<Row("account", b), Row("account", a)>>

Held(row) == \E c \in Clerks : row \in clerk[c].has

Wants(c) == Head(clerk[c].todo)

\* c is about to lock the last of its account rows and reads them all.
ReadsIdentities(c) ==
    Wants(c)[1] = "account" /\ (Len(clerk[c].todo) > 1 => clerk[c].todo[2][1] # "account")

Keeps(c) == clerk[c].has \cup {Wants(c)}

Begin(c, op, by, on, arg, no, plan) ==
    /\ clerk[c].op = "none" /\ op \in agenda.ops
    /\ clerk' = [clerk EXCEPT ![c] = [op |-> op, by |-> by, on |-> on, arg |-> arg, no |-> no,
                                      todo |-> plan, has |-> {}, saw |-> "none"]]

\* The next lock is granted; what is read under it lets c go on, or ends it.
Lock(c, goesOn, saw) ==
    /\ clerk[c].todo # <<>> /\ ~Held(Wants(c))
    /\ clerk' = [clerk EXCEPT ![c] =
        IF goesOn THEN [@ EXCEPT !.todo = Tail(clerk[c].todo), !.has = Keeps(c), !.saw = saw]
        ELSE Idle]

Ready(c, op) == clerk[c].op = op /\ clerk[c].todo = <<>>

Ends(c) == clerk' = [clerk EXCEPT ![c] = Idle]

-----------------------------------------------------------------------------
(* The operations on accounts.                                             *)

AccountOps == {"createInvitation", "activateInvitation", "revokeInvitation",
               "changeRole", "setActive", "bootstrap"}

BeginInvitation(c) ==
    \E by, on \in Accounts, role \in Roles \ {"SUPER_ADMIN"} :
        /\ Exists(by) /\ invitations[on].no < agenda.tokens[on]
        /\ Begin(c, "createInvitation", by, on, role, 0,
                 <<Row("account", by), Row("invitation", on)>>)

\* Whoever holds the token of an invitation; its creator stands in the row.
BeginActivation(c) ==
    \E on \in Accounts : \E no \in 1..invitations[on].no :
        Begin(c, "activateInvitation", invitations[on].by, on, "none", no,
              <<Row("invitation", on), Row("account", invitations[on].by)>>)

BeginRevocation(c) ==
    \E by, on \in Accounts :
        /\ Exists(by) /\ invitations[on].no > 0
        /\ Begin(c, "revokeInvitation", by, on, "none", invitations[on].no,
                 <<Row("invitation", on), Row("account", by)>>)

BeginChangeRole(c) ==
    \E by, on \in Accounts, role \in Roles :
        /\ Exists(by)
        /\ Begin(c, "changeRole", by, on, role, 0, <<Admin>> \o Identities(by, on))

\* Its time, which is read before the transaction, is after that of every session.
BeginSetActive(c) ==
    /\ \E by, on \in Accounts, switch \in {"ON", "OFF"} :
        /\ Exists(by)
        /\ Begin(c, "setActive", by, on, switch, 0, <<Admin>> \o Identities(by, on))
    /\ sessions' = [a \in Accounts |->
            [i \in DOMAIN sessions[a] |-> [sessions[a][i] EXCEPT !.after = @ \ {c}]]]
    /\ UNCHANGED <<accounts, invitations>>

BeginBootstrap(c) ==
    \E on \in Accounts : Begin(c, "bootstrap", 0, on, "none", 0, <<Admin, Row("account", on)>>)

\* What each operation checks under the lock it has just got.
AccountCheck(c) ==
    LET t == clerk[c]
        inv == invitations[t.on]
        identities == ReadsIdentities(c)
    IN  CASE t.op = "createInvitation" /\ identities ->
                Exists(t.by) /\ MayInvite(t.by, t.arg) /\ ~Exists(t.on)
          [] t.op = "activateInvitation" /\ ~identities ->
                inv.no = t.no /\ inv.status = "OPEN"
          [] t.op = "activateInvitation" /\ identities -> MayInvite(t.by, inv.role)
          [] t.op = "revokeInvitation" /\ identities -> MayInvite(t.by, inv.role)
          [] t.op = "changeRole" /\ identities ->
                /\ Exists(t.on) /\ accounts[t.by].active /\ MayChangeRole(t.by, t.on, t.arg)
                /\ ~(LastSuperAdmin(t.on) /\ t.arg # "SUPER_ADMIN")
          [] t.op = "setActive" /\ identities ->
                /\ Exists(t.on) /\ accounts[t.by].active /\ MayManageTarget(t.by, t.on)
                /\ accounts[t.on].active # (t.arg = "ON")
                /\ ~(t.arg = "OFF" /\ LastSuperAdmin(t.on))
          [] t.op = "bootstrap" /\ ~identities -> ActiveSuperAdmins = {}
          [] t.op = "bootstrap" /\ identities ->
                accounts[t.on].role = "ADMIN" /\ accounts[t.on].active
          [] OTHER -> TRUE

AccountLock(c) == clerk[c].op \in AccountOps /\ Lock(c, AccountCheck(c), "none")

\* The insert is refused while an invitation that is not over is outstanding.
CommitInvitation(c) ==
    LET t == clerk[c]
        old == invitations[t.on]
    IN  /\ Ready(c, "createInvitation") /\ old.no < agenda.tokens[t.on] /\ Ends(c)
        /\ invitations' =
            IF old.status = "OPEN" THEN invitations
            ELSE [invitations EXCEPT ![t.on] =
                    [no |-> old.no + 1, status |-> "OPEN", by |-> t.by, role |-> t.arg]]
        /\ UNCHANGED <<accounts, sessions>>

CommitActivation(c) ==
    LET t == clerk[c]
    IN  /\ Ready(c, "activateInvitation") /\ Ends(c)
        /\ UNCHANGED sessions
        /\ IF Exists(t.on) THEN UNCHANGED <<accounts, invitations>>
           ELSE /\ accounts' = [accounts EXCEPT ![t.on] =
                                  [role |-> invitations[t.on].role, active |-> TRUE]]
                /\ invitations' = [invitations EXCEPT ![t.on].status = "CONSUMED"]

CommitRevocation(c) ==
    LET t == clerk[c]
    IN  /\ Ready(c, "revokeInvitation") /\ Ends(c)
        /\ invitations' = IF invitations[t.on].no = t.no /\ Outstanding(invitations[t.on])
                          THEN [invitations EXCEPT ![t.on].status = "REVOKED"] ELSE invitations
        /\ UNCHANGED <<accounts, sessions>>

CommitChangeRole(c) ==
    /\ Ready(c, "changeRole") /\ Ends(c)
    /\ accounts' = [accounts EXCEPT ![clerk[c].on].role = clerk[c].arg]
    /\ UNCHANGED <<invitations, sessions>>

\* Mutant: deactivation leaves the sessions to the account's own state.
SessionsLeft(a) == sessions[a]

SessionsCut(a) == [i \in DOMAIN sessions[a] |-> [sessions[a][i] EXCEPT !.status = "REVOKED"]]

\* A session may not be revoked at a time before it was created (the table's check):
\* a change dated before a sign-in that overtook it fails.
Overtaken(c) == \E i \in DOMAIN sessions[clerk[c].on] :
    LET session == sessions[clerk[c].on][i] IN session.status # "REVOKED" /\ c \in session.after

CommitSetActive(c) ==
    LET a == clerk[c].on
    IN  /\ Ready(c, "setActive") /\ Ends(c)
        /\ \/ clerk[c].arg = "OFF" /\ Overtaken(c) /\ UNCHANGED <<accounts, sessions>>
           \/ /\ clerk[c].arg = "OFF" /\ ~Overtaken(c)
              /\ accounts' = [accounts EXCEPT ![a].active = FALSE]
              /\ sessions' = [sessions EXCEPT ![a] = SessionsCut(a)]
           \/ /\ clerk[c].arg = "ON"
              /\ accounts' = [accounts EXCEPT ![a].active = TRUE]
              /\ UNCHANGED sessions
        /\ UNCHANGED invitations

CommitBootstrap(c) ==
    /\ Ready(c, "bootstrap") /\ Ends(c)
    /\ accounts' = [accounts EXCEPT ![clerk[c].on].role = "SUPER_ADMIN"]
    /\ UNCHANGED <<invitations, sessions>>

\* The provisioning command inserts an account and locks no row of another.
Provision(a) ==
    /\ "provision" \in agenda.ops /\ ~Exists(a)
    /\ \E role \in {"ADMIN", "SALES"} :
        accounts' = [accounts EXCEPT ![a] = [role |-> role, active |-> TRUE]]
    /\ UNCHANGED <<invitations, sessions, clerk>>

ExpireInvitation(a) ==
    /\ invitations[a].status = "OPEN"
    /\ invitations' = [invitations EXCEPT ![a].status = "OVER"]
    /\ UNCHANGED <<accounts, sessions, clerk>>

Rollback(c) == clerk[c].op # "none" /\ Ends(c) /\ UNCHANGED rows

-----------------------------------------------------------------------------
(* Sessions.                                                               *)

\* The account is read, the password compared and the clock read, without a lock ...
BeginLogin(c) ==
    \E a \in Accounts :
        /\ Exists(a) /\ accounts[a].active /\ Len(sessions[a]) < agenda.tokens[a]
        /\ Begin(c, "login", a, a, "none", 0, <<>>)

Dated(a) == {c \in Clerks : clerk[c].op = "setActive" /\ clerk[c].on = a}

\* ... and the session is inserted, whatever became of the account; its foreign key
\* waits for whoever has the account's row.  after: the changes under way whose time
\* is before the session's.
CreateSession(c) ==
    LET a == clerk[c].on
    IN  /\ Ready(c, "login") /\ ~Held(Row("account", a)) /\ Len(sessions[a]) < agenda.tokens[a]
        /\ \E after \in SUBSET Dated(a) :
            sessions' = [sessions EXCEPT ![a] = Append(@, [status |-> "OPEN", after |-> after])]
        /\ Ends(c) /\ UNCHANGED <<accounts, invitations>>

Logout(a) ==
    /\ "logout" \in agenda.ops
    /\ \E i \in DOMAIN sessions[a] :
        /\ sessions[a][i].status # "REVOKED"
        /\ sessions' = [sessions EXCEPT ![a][i].status = "REVOKED"]
    /\ UNCHANGED <<accounts, invitations, clerk>>

ExpireSession(a) ==
    /\ \E i \in DOMAIN sessions[a] :
        /\ sessions[a][i].status = "OPEN"
        /\ sessions' = [sessions EXCEPT ![a][i].status = "OVER"]
    /\ UNCHANGED <<accounts, invitations, clerk>>

\* What ResolveStaffSession accepts, with every request.
SignedIn(a) == {i \in DOMAIN sessions[a] : sessions[a][i].status = "OPEN" /\ accounts[a].active}

-----------------------------------------------------------------------------

AccountsInit ==
    /\ \E beginning \in Beginnings :
        /\ accounts = beginning.staff
        /\ agenda = [ops |-> beginning.ops, tokens |-> beginning.tokens]
    /\ invitations = [a \in Accounts |-> NoInvitation]
    /\ sessions = [a \in Accounts |-> <<>>]
    /\ clerk = [c \in Clerks |-> Idle]

BeginAccounts(c) ==
    \/ BeginInvitation(c) \/ BeginActivation(c) \/ BeginRevocation(c)
    \/ BeginChangeRole(c) \/ BeginBootstrap(c) \/ BeginLogin(c)

AccountsStep(c) ==
    \/ (BeginAccounts(c) \/ AccountLock(c)) /\ UNCHANGED rows
    \/ BeginSetActive(c) \/ CreateSession(c)
    \/ CommitInvitation(c) \/ CommitActivation(c) \/ CommitRevocation(c)
    \/ CommitChangeRole(c) \/ CommitSetActive(c) \/ CommitBootstrap(c)
    \/ Rollback(c)

AccountsNext ==
    /\ \/ \E c \in Clerks : AccountsStep(c)
       \/ \E a \in Accounts : Provision(a) \/ ExpireInvitation(a) \/ Logout(a) \/ ExpireSession(a)
    /\ UNCHANGED agenda
=============================================================================
