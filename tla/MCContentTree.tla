---------------------------- MODULE MCContentTree ----------------------------
(* A small catalogue, and what is promised of it only while requests are   *)
(* served one at a time, cut off anywhere.                                 *)
EXTENDS ContentTree, Naturals, FiniteSets, TLC

CONSTANT MaxShared   \* bound on the rows there are while requests overlap

VARIABLE overlap   \* history: a request has been served while another was

(* The rows of a kind, and the requests, are interchangeable. *)
Symmetry ==
  Permutations(Drama) \cup Permutations(Season) \cup Permutations(Episode)
    \cup Permutations(Media) \cup Permutations(Request)

Serving(r) == req[r] # Idle

(* Two requests are under way, or one of a single statement comes between. *)
Overlapping ==
  \/ \E q, r \in Request : q # r /\ Serving(q)' /\ Serving(r)'
  \/ req' = req /\ \E r \in Request : Serving(r)

MCInit == Init /\ overlap = FALSE
MCNext ==
  /\ Next
  /\ overlap' = (overlap \/ Overlapping)
  /\ overlap' => Cardinality({n \in Row : at'[n] # "absent"}) <= MaxShared

MCSpec == MCInit /\ [][MCNext]_<<vars, overlap>>

-----------------------------------------------------------------------------
(* Properties                                                              *)

(* "Parent soft deletion cascades to child content": when nothing is being *)
(* served, a live row has live parents, unless an interrupted bulk         *)
(* deletion or a season restored by itself left it so.  remove() and bulk  *)
(* cascade, creation, moves and the other restores check every parent,     *)
(* in a statement before the write: requests that overlap can miss it.     *)
CascadeComplete ==
  ~overlap /\ (\A r \in Request : ~Serving(r)) =>
    \A n \in Row : at[n] = "live" => Alive(n) \/ n \in stray

(* A bulk deletion that runs to its end leaves nothing live below the rows *)
(* it named, whatever an earlier interrupted one left: repeating the call  *)
(* repairs it.                                                             *)
BulkDeleteCompletes ==
  [][\A r \in Request : ~overlap' /\ req[r].op = "bulk" /\ BulkNext(r) /\ req'[r] = Idle =>
       \A n \in Below(req[r].ids) : at'[n] # "live"]_<<vars, overlap>>

(* Restoring puts nothing back on air: what was deleted with its parent    *)
(* comes back as a draft or unpublished.  Only episodes that an interrupted*)
(* bulk deletion never reached reappear with their season.                 *)
RestoreStaysOffAir ==
  [][~overlap' /\ Restored => \A e \in Episode : OnAir(e)' => OnAir(e) \/ e \in stray]_<<vars, overlap>>
=============================================================================
