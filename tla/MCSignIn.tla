------------------------------ MODULE MCSignIn ------------------------------
(* Sign-in with limits of two. *)
EXTENDS SignIn, TLC

Symmetry == Permutations(Request)
=============================================================================
