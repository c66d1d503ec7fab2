------------------------------ MODULE MCUploads ------------------------------
(* An upload session of two chunks, with contents of two lengths.          *)
EXTENDS Uploads, TLC

CONSTANT Long   \* the contents that are twice as long as the others

MCSize == [b \in Body |-> IF b \in Long THEN 2 ELSE 1]

Symmetry == Permutations(Chunk) \cup Permutations(Request) \cup Permutations(Body \ Long)
=============================================================================
