----------------------------- MODULE SupportChat -----------------------------
(***************************************************************************)
(* The support conversation of one user                                    *)
(* (src/support-chat/support-chat.service.ts): its messages, and the       *)
(* summary kept in its row: status, unread counters of both sides, the     *)
(* last message.  REST and socket requests of the user and of the staff    *)
(* interleave on PostgreSQL at READ COMMITTED.  A transaction is cut where *)
(* another may commit: after the message is inserted, and between the two  *)
(* statements of markSeen.  The update of the conversation row is taken    *)
(* with the commit that follows it at once.                                *)
(***************************************************************************)
EXTENDS Naturals, Sequences, FiniteSets, FiniteSetsExt

CONSTANTS Request,     \* requests being served
          MaxMessage   \* bound on the messages inserted

ASSUME MessageAssumption == MaxMessage \in Nat

Side == {"USER", "ADMIN"}                \* senderType of messages; isStaff
Status == {"OPEN", "WAITING", "RESOLVED", "BLOCKED"}

VARIABLES
  msg,   \* the messages in the order of their insertion: sender and state, "open"
         \* until committed, "sent", "seen", or "undone" by a rollback
  conv,  \* the conversation row; not there before the user's first request
  req,   \* what each request is doing
  overlap \* history: two requests have been served at once

vars == <<msg, conv, req, overlap>>

Message == [from : Side \cup {"SYSTEM"}, state : {"open", "sent", "seen", "undone"}]

Idle == [op |-> "none", side |-> "USER", pc |-> "idle", new |-> 0, snap |-> {}]

RequestState ==
  [op : {"none", "visit", "send", "seen"}, side : Side,
   pc : {"idle", "create", "insert", "inserted", "marking", "marked"},
   new : 0 .. MaxMessage, snap : SUBSET (1 .. MaxMessage)]

TypeOK ==
  /\ msg \in Seq(Message) /\ Len(msg) <= MaxMessage
  /\ conv \in [there : BOOLEAN, status : Status, unread : [Side -> Nat],
               last : 0 .. MaxMessage]
  /\ req \in [Request -> RequestState]
  /\ overlap \in BOOLEAN

(* unread[side] counts the messages that side has not seen.                *)
Init ==
  /\ msg = <<>>
  /\ conv = [there |-> FALSE, status |-> "OPEN", unread |-> [s \in Side |-> 0], last |-> 0]
  /\ req = [r \in Request |-> Idle]
  /\ overlap = FALSE

-----------------------------------------------------------------------------
(* Helpers                                                                 *)

Other(side) == IF side = "USER" THEN "ADMIN" ELSE "USER"

(* Committed messages of the other side not yet seen by this one. *)
Unseen(side) == {i \in DOMAIN msg : msg[i] = [from |-> Other(side), state |-> "sent"]}

Committed == {i \in DOMAIN msg : msg[i].state \in {"sent", "seen"}}

Finish(r) == req' = [req EXCEPT ![r] = Idle]

Begin(r, op, side, pc) ==
  /\ req[r] = Idle
  /\ req' = [req EXCEPT ![r] = [Idle EXCEPT !.op = op, !.side = side, !.pc = pc]]
  /\ overlap' = (overlap \/ \E q \in Request : req[q] # Idle)
  /\ UNCHANGED <<msg, conv>>

-----------------------------------------------------------------------------
(* ensureConversationForUser                                               *)

EnsureFound(r) == conv.there /\ Begin(r, "send", "USER", "insert")

EnsureMissing(r, op) == ~conv.there /\ Begin(r, op, "USER", "create")

(* getMyConversation and listMyMessages: a conversation that is there is   *)
(* only answered.                                                          *)
Visit(r) == EnsureMissing(r, "visit")

SendUser(r) == EnsureFound(r) \/ EnsureMissing(r, "send")

(* Mutant: an upsert of the conversation, so a second creator gets the     *)
(* first one's row and welcomes the user again.                            *)
EnsureUpsert(r) ==
  /\ req[r].pc = "create"
  /\ Len(msg) < MaxMessage
  /\ msg' = Append(msg, [from |-> "SYSTEM", state |-> "sent"])
  /\ conv' = [conv EXCEPT !.there = TRUE, !.last = Len(msg')]
  /\ IF req[r].op = "send" THEN req' = [req EXCEPT ![r].pc = "insert"] ELSE Finish(r)
  /\ UNCHANGED overlap

(* In a transaction: the row, the welcome message, the row's last message. *)
(* user_id is unique: when another request was first, this one fails.      *)
EnsureCreate(r) ==
  /\ req[r].pc = "create"
  /\ IF conv.there
     THEN Finish(r) /\ UNCHANGED <<msg, conv>>
     ELSE /\ Len(msg) < MaxMessage
          /\ msg' = Append(msg, [from |-> "SYSTEM", state |-> "sent"])
          /\ conv' = [conv EXCEPT !.there = TRUE, !.last = Len(msg')]
          /\ IF req[r].op = "send" THEN req' = [req EXCEPT ![r].pc = "insert"]
                                   ELSE Finish(r)
  /\ UNCHANGED overlap

-----------------------------------------------------------------------------
(* createMessage                                                           *)

(* Its user and the staff may use a conversation that is there. *)
RequireConversation == conv.there

SendAdmin(r) == RequireConversation /\ Begin(r, "send", "ADMIN", "insert")

Insert(r) ==
  /\ req[r].pc = "insert"
  /\ Len(msg) < MaxMessage
  /\ msg' = Append(msg, [from |-> req[r].side, state |-> "open"])
  /\ req' = [req EXCEPT ![r].pc = "inserted", ![r].new = Len(msg')]
  /\ UNCHANGED <<conv, overlap>>

(* Mutant: the counter of the sender's side is incremented. *)
SendCommitOwnCounter(r) ==
  LET side == req[r].side
  IN  /\ req[r].pc = "inserted"
      /\ msg' = [msg EXCEPT ![req[r].new].state = "sent"]
      /\ conv' = [conv EXCEPT
           !.status = IF side = "USER" THEN "WAITING" ELSE "OPEN",
           !.last = req[r].new,
           !.unread[side] = @ + 1]
      /\ Finish(r)
      /\ UNCHANGED overlap

(* Mutant: the counter is only ever a mark. *)
SendCommitMark(r) ==
  LET side == req[r].side
  IN  /\ req[r].pc = "inserted"
      /\ msg' = [msg EXCEPT ![req[r].new].state = "sent"]
      /\ conv' = [conv EXCEPT
           !.status = IF side = "USER" THEN "WAITING" ELSE "OPEN",
           !.last = req[r].new,
           !.unread[Other(side)] = 1]
      /\ Finish(r)
      /\ UNCHANGED overlap

(* The row is updated (a blocked conversation is reopened too) and the     *)
(* transaction commits.                                                    *)
SendCommit(r) ==
  LET side == req[r].side
  IN  /\ req[r].pc = "inserted"
      /\ msg' = [msg EXCEPT ![req[r].new].state = "sent"]
      /\ conv' = [conv EXCEPT
           !.status = IF side = "USER" THEN "WAITING" ELSE "OPEN",
           !.last = req[r].new,
           !.unread[Other(side)] = @ + 1]
      /\ Finish(r)
      /\ UNCHANGED overlap

-----------------------------------------------------------------------------
(* markSeen and updateStatus                                               *)

SeenRequest(r, side) == RequireConversation /\ Begin(r, "seen", side, "marking")

(* The first statement marks the messages committed by now; the rows of    *)
(* another markSeen still open are waited for.                             *)
SeenMark(r) ==
  LET hit == Unseen(req[r].side)
  IN  /\ req[r].pc = "marking"
      /\ \A q \in Request : req[q].pc = "marked" => req[q].snap \cap hit = {}
      /\ req' = [req EXCEPT ![r].pc = "marked", ![r].snap = hit]
      /\ UNCHANGED <<msg, conv, overlap>>

(* The second zeroes the counter, whatever was sent in between. *)
SeenCommit(r) ==
  /\ req[r].pc = "marked"
  /\ msg' = [i \in DOMAIN msg |-> IF i \in req[r].snap THEN [msg[i] EXCEPT !.state = "seen"]
                                                       ELSE msg[i]]
  /\ conv' = [conv EXCEPT !.unread[req[r].side] = 0]
  /\ Finish(r)
  /\ UNCHANGED overlap

(* Mutant: a status the schema has not. *)
UpdateStatusClosed(s) ==
  /\ conv.there
  /\ conv' = [conv EXCEPT !.status = "CLOSED"]
  /\ UNCHANGED <<msg, req, overlap>>

UpdateStatus(s) ==
  /\ RequireConversation
  /\ conv' = [conv EXCEPT !.status = s]
  /\ UNCHANGED <<msg, req, overlap>>

-----------------------------------------------------------------------------
(* The process dies or the connection drops: an open transaction rolls     *)
(* back.                                                                   *)
Crash(r) ==
  /\ req[r] # Idle
  /\ msg' = IF req[r].pc = "inserted" THEN [msg EXCEPT ![req[r].new].state = "undone"]
                                      ELSE msg
  /\ Finish(r)
  /\ UNCHANGED <<conv, overlap>>

Next ==
  \/ \E r \in Request :
       \/ Visit(r) \/ SendUser(r) \/ EnsureCreate(r)
       \/ SendAdmin(r) \/ Insert(r) \/ SendCommit(r)
       \/ \E side \in Side : SeenRequest(r, side)
       \/ SeenMark(r) \/ SeenCommit(r)
       \/ Crash(r)
  \/ \E s \in Status : UpdateStatus(s)

Spec == Init /\ [][Next]_vars

-----------------------------------------------------------------------------
(* Properties                                                              *)

(* listConversations of the staff, with the filter UNREAD. *)
ListedUnread == conv.there /\ conv.unread["ADMIN"] > 0

(* An unread counter never shows messages that are not there: a send and   *)
(* its increment, and the marking and its reset, appear together; what the *)
(* inbox lists as unread holds a message to answer.  (A counter may show   *)
(* too few: a message committed between the two statements of markSeen is  *)
(* neither seen nor counted.)                                              *)
UnreadNeverOverstates ==
  /\ \A side \in Side : conv.unread[side] <= Cardinality(Unseen(side))
  /\ ListedUnread => Unseen("ADMIN") # {}

(* The user is welcomed once, before anything else, however many first     *)
(* requests are served at once.                                            *)
OneWelcome ==
  /\ conv.there <=> msg # <<>>
  /\ \A i \in DOMAIN msg : msg[i].from = "SYSTEM" <=> i = 1

(* While no two requests were served at once, with crashes anywhere, the   *)
(* row sums its messages up exactly.                                       *)
SummaryExact ==
  ~overlap =>
  /\ \A side \in Side : conv.unread[side] = Cardinality(Unseen(side))
  /\ conv.there => conv.last = Max(Committed)
=============================================================================
