---------------------------- MODULE MCDeployment -----------------------------
(* Two instances, a super admin and another member of the staff.           *)
EXTENDS Deployment

SeededRoles == [r \in Role |-> IF r = "SUPER_ADMIN" THEN Permission ELSE {}]
=============================================================================
