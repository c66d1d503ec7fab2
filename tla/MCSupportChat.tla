---------------------------- MODULE MCSupportChat ----------------------------
(* The conversation with a few messages, beside two sockets; requests      *)
(* are interchangeable, and so are sockets.                                *)
EXTENDS SupportDesk, TLC

Symmetry == Permutations(Request) \cup Permutations(Socket)
=============================================================================
