-------------------------- MODULE StaffOperationsMC --------------------------
(* Two admins before the first super admin, a super admin and an admin who      *)
(* invite a third person, or a super admin and a sales person.  Each behaviour  *)
(* keeps to operations that touch the same rows.  A viewer is managed like a    *)
(* sales person everywhere, so that role does not occur.                        *)
EXTENDS StaffOperations, TLC

Person(role) == [role |-> role, active |-> TRUE]
Founders == <<Person("ADMIN"), Person("ADMIN"), Nobody>>
Inviting == <<Person("SUPER_ADMIN"), Person("ADMIN"), Nobody>>
Pair     == <<Person("SUPER_ADMIN"), Person("SALES"), Nobody>>

Case(staff, tokens, ops) == [staff |-> staff, tokens |-> tokens, ops |-> ops]

Cases ==
    {Case(Founders, <<0, 0, 0>>, {"changeRole", "setActive", "bootstrap"}),
     Case(Founders, <<0, 0, 0>>, {"provision", "bootstrap"}),
     Case(Inviting, <<0, 0, 2>>, {"createInvitation", "activateInvitation", "revokeInvitation", "setActive"}),
     Case(Pair, <<0, 2, 0>>, {"createRequest", "consume", "disconnect", "setMember"}),
     Case(Pair, <<1, 1, 0>>, {"createRequest", "consume", "disconnect"}),
     Case(Pair, <<0, 2, 0>>, {"createRequest", "consume", "revokeRequest", "setActive"}),
     Case(Pair, <<2, 0, 0>>, {"createRequest", "consume", "createGroupRequest", "consumeGroup", "disconnect"}),
     Case(Inviting, <<1, 0, 0>>, {"createRequest", "consume", "createGroupRequest", "consumeGroup", "revokeGroupRequest"} \cup GroupOps),
     Case(Pair, <<0, 0, 0>>, {"assign", "setActive"}),
     Case(Pair, <<1, 2, 0>>, {"login", "logout", "setActive"}),
     Case(Pair, <<0, 0, 0>>, {"changeStatus", "assign"})}

Twins == Permutations(Clerks)
=============================================================================
