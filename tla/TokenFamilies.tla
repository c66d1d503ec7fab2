---------------------------- MODULE TokenFamilies ----------------------------
(***************************************************************************)
(* What the refresh-token endpoints promise, with no database, no requests *)
(* and no interleaving.  Every login opens a family of tokens.  A family   *)
(* has at most one live token; presenting it exchanges it for a fresh one; *)
(* a revocation ends any number of families; an ended family never comes   *)
(* back, and no token is handed out twice.                                 *)
(***************************************************************************)

CONSTANTS Session,   \* ids of refresh sessions; a family is named by its first
          None       \* not a session

VARIABLES live,      \* live[f]: the usable session of family f, or None
          issued     \* every session id whose token was ever handed out

familyVars == <<live, issued>>

Init ==
  /\ live = [f \in Session |-> None]
  /\ issued = {}

(* A login hands out the first token of a new family. *)
Open(f) ==
  /\ f \notin issued
  /\ live' = [live EXCEPT ![f] = f]
  /\ issued' = issued \cup {f}

(* A refresh trades the live token of a family for a new one. *)
Rotate(f, s) ==
  /\ live[f] # None
  /\ s \notin issued
  /\ live' = [live EXCEPT ![f] = s]
  /\ issued' = issued \cup {s}

(* Logging out, a replayed token, a password change and a suspension all   *)
(* end some set F of families at once.                                     *)
End(F) ==
  /\ live' = [f \in Session |-> IF f \in F THEN None ELSE live[f]]
  /\ UNCHANGED issued

Next ==
  \/ \E f \in Session : Open(f)
  \/ \E f, s \in Session : Rotate(f, s)
  \/ \E F \in SUBSET Session : End(F)

Spec == Init /\ [][Next]_familyVars
=============================================================================
