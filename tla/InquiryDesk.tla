---------------------------- MODULE InquiryDesk -----------------------------
(***************************************************************************)
(* The workflow of an inquiry: its status, who of the staff it is assigned *)
(* to, and the events of both.  An editor reads a snapshot, thinks, and    *)
(* writes in a transaction that compares the snapshot with the row; only   *)
(* the new assignee is locked, together with whoever would deactivate them.*)
(* The clerk of such a transaction keeps the snapshot's time as `no', the  *)
(* snapshot's status as `saw' and its assignee as `by'.                    *)
(***************************************************************************)
EXTENDS StaffAccounts

CONSTANT Latest    \* bound on the times that clocks show

ASSUME DeskAssumption == Latest \in Nat

VARIABLES
    inquiry,       \* the status of the inquiry and the time of its last change
    assignment,    \* inquiry_assignments: at most one row; member 0 is no row
    entry          \* the inquiry_workflow_event the last step appended

desk == <<inquiry, assignment, entry>>

Follows == [NEW                  |-> {"WAITING_FOR_TEAM", "CLOSED"},
            WAITING_FOR_TEAM     |-> {"WAITING_FOR_CUSTOMER", "QUOTED", "CLOSED"},
            WAITING_FOR_CUSTOMER |-> {"WAITING_FOR_TEAM", "QUOTED", "CLOSED"},
            QUOTED               |-> {"WAITING_FOR_TEAM", "WAITING_FOR_CUSTOMER", "CONFIRMED", "CLOSED"},
            CONFIRMED            |-> {"CLOSED"},
            CLOSED               |-> {}]

Unassigned == [member |-> 0, at |-> 0]
None == 0

DeskInit ==
    /\ inquiry = [status |-> "NEW", at |-> 0]
    /\ assignment = Unassigned
    /\ entry = {}

DeskOps == {"assign", "changeStatus"}

\* AssignInquiry reads the assignment, and that the member is active, without a lock.
BeginAssign(c) ==
    \E on \in (Accounts \cup {None}) \ {assignment.member} :
        /\ on # None => accounts[on].active
        /\ Begin(c, "assign", assignment.member, on, "none", assignment.at,
                 IF on = None THEN <<>> ELSE <<Row("account", on)>>)

BeginChangeStatus(c) ==
    \E next \in Follows[inquiry.status] :
        /\ clerk[c].op = "none" /\ "changeStatus" \in agenda.ops
        /\ clerk' = [clerk EXCEPT ![c] = [Idle EXCEPT !.op = "changeStatus", !.arg = next,
                                              !.saw = inquiry.status, !.no = inquiry.at]]

\* Mutant: the member's activity is checked before the transaction only.
LockUnchecked(c) == clerk[c].op = "assign" /\ Lock(c, TRUE, "none")

DeskLock(c) == clerk[c].op = "assign" /\ Lock(c, accounts[clerk[c].on].active, "none")

\* Each server's clock may show any time; it only has to be after the snapshot's.
Later(c) == clerk[c].no + 1 .. Latest

\* Mutant: the comparison leaves out the time.
StillInStatus(c) == inquiry.status = clerk[c].saw

\* The row is still the snapshot.
StillAssigned(c) == assignment = [member |-> clerk[c].by, at |-> clerk[c].no]
StillIn(c)       == inquiry = [status |-> clerk[c].saw, at |-> clerk[c].no]

\* An insert, an update or a delete with its event, or a conflict that changes nothing.
CommitAssign(c) ==
    LET to == clerk[c].on
    IN  /\ Ready(c, "assign") /\ Ends(c)
        /\ \/ ~StillAssigned(c) /\ entry' = {} /\ UNCHANGED assignment
           \/ /\ StillAssigned(c)
              /\ \E at \in Later(c) :
                  /\ assignment' = IF to = None THEN Unassigned ELSE [member |-> to, at |-> at]
                  /\ entry' = {[from |-> clerk[c].by, to |-> to]}
        /\ UNCHANGED inquiry

CommitChangeStatus(c) ==
    /\ Ready(c, "changeStatus") /\ Ends(c)
    /\ \/ ~StillIn(c) /\ entry' = {} /\ UNCHANGED inquiry
       \/ /\ StillIn(c)
          /\ \E at \in Later(c) : inquiry' = [status |-> clerk[c].arg, at |-> at]
          /\ entry' = {[from |-> clerk[c].saw, to |-> clerk[c].arg]}
    /\ UNCHANGED assignment

DeskStep(c) ==
    \/ (BeginAssign(c) \/ BeginChangeStatus(c) \/ DeskLock(c)) /\ entry' = {} /\ UNCHANGED <<inquiry, assignment>>
    \/ CommitAssign(c) \/ CommitChangeStatus(c)
=============================================================================
