-------------------------- MODULE MCRefreshSessions --------------------------
(* The refresh sessions of one account on a small instance.                *)
EXTENDS RefreshSessions, TLC

(* Sessions and requests are interchangeable: no action tells one from     *)
(* another but by equality.                                                *)
Symmetry == Permutations(Session) \cup Permutations(Request)
=============================================================================
