------------------------- MODULE MCPlaybackSessions -------------------------
(* The playback sessions of one user on a small instance.                  *)
EXTENDS PlaybackSessions, TLC

(* Sessions and capabilities are numbered; devices, episodes and requests  *)
(* are interchangeable.                                                    *)
Symmetry == Permutations(Device) \cup Permutations(Episode) \cup Permutations(Request)
=============================================================================
