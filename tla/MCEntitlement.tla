--------------------------- MODULE MCEntitlement ---------------------------
(* The entitlement of one viewer over three days.                          *)
EXTENDS Entitlement, TLC

MCWindow == {[from |-> 0, to |-> 1], [from |-> 0, to |-> 2]}

Symmetry == Permutations(Request) \cup Permutations(Episode)
=============================================================================
