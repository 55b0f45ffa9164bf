-------------------------- MODULE StaffOperations ---------------------------
(***************************************************************************)
(* All that staff do with the rows of accounts: their administration       *)
(* (StaffAccounts), Telegram and notifications (StaffTelegram) and the     *)
(* workflow of inquiries (InquiryDesk).  They meet at the row locks.       *)
(***************************************************************************)
EXTENDS StaffTelegram, InquiryDesk

vars == <<rows, clerk, agenda, telegram, desk>>

Init == AccountsInit /\ TelegramInit /\ DeskInit

NoTelegram == Waits
NoDesk     == entry' = {} /\ UNCHANGED <<inquiry, assignment>>

Next ==
    \/ AccountsNext /\ NoTelegram /\ NoDesk
    \/ TelegramNext /\ NoDesk /\ UNCHANGED <<rows, agenda>>
    \/ /\ \E c \in Clerks : DeskStep(c)
       /\ NoTelegram /\ UNCHANGED <<rows, agenda>>

Spec == Init /\ [][Next]_vars

-----------------------------------------------------------------------------
(* Properties.                                                             *)

\* Rows and transactions keep their types; a lock has one holder; a switched-on
\* recipient is authorized (the table's check) and no invitation is for a super admin.
TypeOK ==
    /\ accounts \in [Accounts -> [role : Roles \cup {"NONE"}, active : BOOLEAN]]
    /\ \A a \in Accounts : invitations[a].role # "SUPER_ADMIN" /\ invitations[a].no \in 0..agenda.tokens[a]
    /\ \A a \in Accounts : requests[a].no \in 0..agenda.tokens[a] /\ groupRequests[a].no \in 0..agenda.tokens[a]
    /\ \A u \in Users : links[u].on => links[u].of \in Accounts
    /\ \A a \in Accounts : Cardinality(Linked(a)) <= 1
    /\ \A r \in Recipients : recipients[r].state \in States
    /\ \A a \in Accounts : Len(sessions[a]) <= agenda.tokens[a]
    /\ inquiry \in [status : DOMAIN Follows, at : 0..Latest]
    /\ assignment \in [member : Accounts \cup {None}, at : 0..Latest]
    /\ \A c, d \in Clerks : c # d => clerk[c].has \cap clerk[d].has = {}

Finishing(c) == clerk[c].op # "none" /\ clerk'[c].op = "none"

Granted(a) ==
    \/ /\ ~Exists(a) /\ clerk' = clerk
       /\ accounts'[a].role \in {"ADMIN", "SALES"}
    \/ \E c \in Clerks :
        LET t == clerk[c]
        IN  /\ Finishing(c) /\ t.on = a
            /\ CASE t.op = "changeRole" -> accounts[t.by].active /\ MayChangeRole(t.by, a, accounts'[a].role)
                 [] t.op = "setActive"  -> accounts[t.by].active /\ MayManageTarget(t.by, a)
                 [] t.op = "bootstrap"  -> ActiveSuperAdmins = {} /\ accounts[a].active /\ accounts[a].role = "ADMIN"
                 [] t.op = "activateInvitation" ->
                        /\ ~Exists(a) /\ t.no = invitations[a].no /\ Outstanding(invitations[a])
                        /\ MayInvite(invitations[a].by, accounts'[a].role)
                 [] OTHER -> FALSE

\* At the moment an account appears, changes its role or is switched, the one who
\* decided it is active and entitled to it, an invitation is still open and its
\* creator entitled, or there is no active super admin to be bootstrapped past;
\* and the last active super admin never goes.  Decisions are taken before the
\* commit, under locks that hold whatever they depend on.  Whoever gets an inquiry is
\* active then, though it was chosen before.
PowerIsGranted ==
    [][/\ \A a \in Accounts : accounts'[a] # accounts[a] => Granted(a)
       /\ ActiveSuperAdmins # {} => ActiveSuperAdmins' # {}
       /\ assignment'.member \notin {assignment.member, None} => accounts[assignment'.member].active]_vars

\* A request that was replaced, revoked or cut off by a disconnect never connects a
\* Telegram account any more, whenever its token is presented; a group is authorized
\* only by an open request of an active manager, sent from the manager's own account.
\* A session that was revoked or is over, or was there when its account was
\* deactivated, is never accepted again, also after the account's reactivation.
NoDeadToken ==
    [][/\ \A a \in Accounts : \A i \in DOMAIN sessions[a] :
            /\ i \in SignedIn(a)' => sessions[a][i].status = "OPEN"
            /\ accounts[a].active /\ ~accounts'[a].active => sessions'[a][i].status # "OPEN"
       /\ \A u \in Users :
            links'[u].on /\ ~links[u].on =>
                \E c \in Clerks :
                    /\ Finishing(c) /\ clerk[c].op = "consume" /\ clerk[c].on = links'[u].of
                    /\ clerk[c].no > dead[clerk[c].on] /\ accounts[clerk[c].on].active
       /\ \A g \in Groups :
            IsAuthorized(recipients'[Group(g)].state) /\ ~IsAuthorized(recipients[Group(g)].state) =>
                \E c \in Clerks :
                    /\ Finishing(c) /\ clerk[c].op = "consumeGroup"
                    /\ clerk[c].no = groupRequests[clerk[c].on].no
                    /\ Outstanding(groupRequests[clerk[c].on])
                    /\ ActorAllowed(clerk[c].on) /\ clerk[c].by \in Linked(clerk[c].on)]_vars

\* A member who may be notified has a live link, to the chat that is notified.
RecipientsAreLinked ==
    \A a \in Accounts :
        IsAuthorized(recipients[Member(a)].state) => recipients[Member(a)].chat \in Linked(a)

\* Whenever a recipient, the status of an inquiry or its assignee changes, the event
\* appended with it says from what to what, however long before it was decided; a
\* status follows the one it replaces, at a later time, so that the history ordered by
\* time is a path of the workflow.
AuditIsTheHistory ==
    [][/\ \A r \in Recipients :
            recipients'[r].state # recipients[r].state =>
                news' = {[of |-> r, from |-> recipients[r].state, to |-> recipients'[r].state]}
       /\ inquiry' # inquiry =>
            /\ entry' = {[from |-> inquiry.status, to |-> inquiry'.status]}
            /\ inquiry'.status \in Follows[inquiry.status] /\ inquiry'.at > inquiry.at
       /\ assignment' # assignment =>
            /\ entry' = {[from |-> assignment.member, to |-> assignment'.member]}
            /\ assignment'.member # assignment.member]_vars

\* Transactions wait for each other in a circle only if one of them took the row of a
\* request or an invitation before an account: all others lock in one order.
RowsFirst == {"activateInvitation", "revokeInvitation", "consume", "consumeGroup"}
WaitsFor(c, d) == c # d /\ clerk[c].todo # <<>> /\ Wants(c) \in clerk[d].has
CirclesNeedARequest ==
    \A circle \in (SUBSET Clerks) \ {{}} :
        (\A c \in circle : \E d \in circle : WaitsFor(c, d)) =>
            \E c \in circle : clerk[c].op \in RowsFirst
=============================================================================
