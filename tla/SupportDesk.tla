----------------------------- MODULE SupportDesk -----------------------------
(***************************************************************************)
(* The sockets beside the support conversation: who is online, in the      *)
(* memory of one process of the API                                        *)
(* (src/support-chat/support-chat.gateway.ts).  Each process has sockets   *)
(* and a map of its own.  A socket belongs to the user of the conversation *)
(* or to one member of the staff, here the two sides of SupportChat.       *)
(*                                                                         *)
(* Rooms and events are left out: the gateway emits through the default    *)
(* adapter, to the sockets of its own process, and nothing is promised of  *)
(* who receives an event; clients read the conversation from SupportChat.  *)
(***************************************************************************)
EXTENDS SupportChat, Integers

CONSTANTS Socket, MaxGhost   \* bound on the connections lost while verified

ASSUME GhostAssumption == MaxGhost \in Nat

VARIABLES
  socket,   \* whose, and how far; "gone": disconnected while its token is verified
  online,   \* onlineUsers: sockets counted for each side
  ghosts    \* history: sockets counted after they were gone

deskVars == <<socket, online, ghosts>>

Closed == [pc |-> "closed", side |-> "USER"]

DeskTypeOK ==
  /\ TypeOK
  /\ socket \in [Socket -> [pc : {"closed", "verifying", "gone", "open"}, side : Side]]
  /\ online \in [Side -> Nat] /\ ghosts \in [Side -> 0 .. MaxGhost]

(* A process that starts has no sockets and an empty map. *)
Fresh ==
  [socket |-> [s \in Socket |-> Closed], count |-> [p \in Side |-> 0]]

DeskInit ==
  /\ Init
  /\ socket = Fresh.socket /\ online = Fresh.count /\ ghosts = Fresh.count

-----------------------------------------------------------------------------

TrackOnline(p, delta) ==
  online' = [online EXCEPT ![p] = IF @ + delta < 0 THEN 0 ELSE @ + delta]

(* handleConnection: the token is verified, the account looked up. *)
Connect(s, p) ==
  /\ socket[s] = Closed
  /\ socket' = [socket EXCEPT ![s].pc = "verifying", ![s].side = p]
  /\ UNCHANGED <<online, ghosts>>

Refused(s) ==
  /\ socket[s].pc \in {"verifying", "gone"}
  /\ socket' = [socket EXCEPT ![s] = Closed]
  /\ UNCHANGED <<online, ghosts>>

(* A socket that is gone by now is counted like any other. *)
Accepted(s) ==
  LET p == socket[s].side
  IN  /\ TrackOnline(p, 1)
      /\ \/ /\ socket[s].pc = "verifying"
            /\ socket' = [socket EXCEPT ![s].pc = "open"]
            /\ UNCHANGED ghosts
         \/ /\ socket[s].pc = "gone" /\ ghosts[p] < MaxGhost
            /\ socket' = [socket EXCEPT ![s] = Closed]
            /\ ghosts' = [ghosts EXCEPT ![p] = @ + 1]

(* Mutant: every socket is counted down. *)
DisconnectAny(s) ==
  \/ /\ socket[s].pc = "verifying"
     /\ socket' = [socket EXCEPT ![s].pc = "gone"]
     /\ TrackOnline(socket[s].side, -1)
     /\ UNCHANGED ghosts
  \/ /\ socket[s].pc = "open"
     /\ socket' = [socket EXCEPT ![s] = Closed]
     /\ TrackOnline(socket[s].side, -1)
     /\ UNCHANGED ghosts

(* handleDisconnect: a socket without its principal is not counted down. *)
Disconnect(s) ==
  \/ /\ socket[s].pc = "verifying"
     /\ socket' = [socket EXCEPT ![s].pc = "gone"]
     /\ UNCHANGED <<online, ghosts>>
  \/ /\ socket[s].pc = "open"
     /\ socket' = [socket EXCEPT ![s] = Closed]
     /\ TrackOnline(socket[s].side, -1)
     /\ UNCHANGED ghosts

(* The process restarts; what it served is cut off as by Crash. *)
Restart == socket' = Fresh.socket /\ online' = Fresh.count /\ ghosts' = Fresh.count

DeskStep ==
  \/ \E s \in Socket :
       \/ \E p \in Side : Connect(s, p)
       \/ Refused(s) \/ Accepted(s) \/ Disconnect(s)
  \/ Restart

DeskNext == (Next /\ UNCHANGED deskVars) \/ (DeskStep /\ UNCHANGED vars)

DeskSpec == DeskInit /\ [][DeskNext]_<<vars, deskVars>>

-----------------------------------------------------------------------------
(* Properties                                                              *)

(* A side is counted online once for each of its open sockets, and once    *)
(* more, until the process restarts, for each that went while its token    *)
(* was being verified.                                                     *)
OnlineCounts ==
  \A p \in Side :
    LET open == {s \in Socket : socket[s].pc = "open" /\ socket[s].side = p}
    IN  online[p] = Cardinality(open) + ghosts[p]
=============================================================================
