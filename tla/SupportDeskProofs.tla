--------------------------- MODULE SupportDeskProofs ---------------------------
(***************************************************************************)
(* Proofs about SupportDesk and the SupportChat it extends, for any        *)
(* requests, sockets and number of messages.  What carries them is who may *)
(* touch a message: an open one is its sender's alone, until it is         *)
(* committed or undone; a committed one stays committed; and a markSeen    *)
(* holds only committed messages of the other side.                        *)
(***************************************************************************)
EXTENDS SupportDesk, FiniteSetTheorems, TLAPS

-----------------------------------------------------------------------------
(* The inductive invariant                                                 *)

(* The message a request has inserted is open, of its side and no other    *)
(* request's.                                                              *)
SendOwned ==
  /\ \A r \in Request : req[r].pc = "inserted" =>
       /\ req[r].new \in DOMAIN msg
       /\ msg[req[r].new] = [from |-> req[r].side, state |-> "open"]
  /\ \A q, r \in Request :
       req[q].pc = "inserted" /\ req[r].pc = "inserted" /\ req[q].new = req[r].new => q = r

(* What a markSeen has marked are committed messages of the other side.    *)
MarkOwned ==
  \A r \in Request : req[r].pc = "marked" =>
    \A i \in req[r].snap :
      i \in DOMAIN msg /\ msg[i].from = Other(req[r].side) /\ msg[i].state \in {"sent", "seen"}

(* A request past the look-up of the conversation has one.                 *)
Underway ==
  \A r \in Request :
    req[r].pc \in {"insert", "inserted", "marking", "marked"} => conv.there

(* While no two requests were served at once, at most one is being served, *)
(* its message is the newest, and its marks are all there is to mark.      *)
Alone ==
  ~overlap =>
    /\ \A q, r \in Request : req[q] # Idle /\ req[r] # Idle => q = r
    /\ \A r \in Request : req[r].pc = "inserted" => req[r].new = Len(msg)
    /\ \A r \in Request : req[r].pc = "marked" => req[r].snap = Unseen(req[r].side)

ChatInv ==
  /\ TypeOK /\ SendOwned /\ MarkOwned /\ Underway /\ Alone
  /\ UnreadNeverOverstates /\ OneWelcome /\ SummaryExact

(* The open sockets of a side.                                             *)
OpenOf(p) == {s \in Socket : socket[s].pc = "open" /\ socket[s].side = p}

(* The sockets that are up are finitely many.                              *)
DeskInv ==
  /\ DeskTypeOK
  /\ \A p \in Side : IsFiniteSet(OpenOf(p))
  /\ OnlineCounts

USE MessageAssumption, GhostAssumption DEF MessageAssumption, GhostAssumption

-----------------------------------------------------------------------------
(* Facts about the steps                                                   *)

LEMMA IdleTyped == Idle \in RequestState
<1>1. 0 \in 0 .. MaxMessage
  OBVIOUS
<1> QED
  BY <1>1 DEF Idle, RequestState, Side

(* The actions that take a request up. *)
Starts(r) ==
  Visit(r) \/ SendUser(r) \/ SendAdmin(r) \/ \E side \in Side : SeenRequest(r, side)

(* A request is taken up at one of three places, two of them behind the    *)
(* look-up of the conversation.                                            *)
LEMMA StartsBegins ==
  ASSUME NEW r \in Request, Starts(r)
  PROVE  \E op \in {"visit", "send", "seen"}, side \in Side, pc \in {"create", "insert", "marking"} :
           Begin(r, op, side, pc) /\ (pc # "create" => conv.there)
BY DEF Starts, Visit, SendUser, SendAdmin, SeenRequest, EnsureFound, EnsureMissing,
       RequireConversation, Side

LEMMA NextCases ==
  Next <=> \/ \E r \in Request :
                \/ Starts(r) \/ EnsureCreate(r) \/ Insert(r) \/ SendCommit(r)
                \/ SeenMark(r) \/ SeenCommit(r) \/ Crash(r)
           \/ \E s \in Status : UpdateStatus(s)
BY DEF Next, Starts

LEMMA MessageTyped ==
  ASSUME TypeOK, NEW i \in DOMAIN msg
  PROVE  msg[i] \in Message
BY DEF TypeOK

LEMMA UnseenFinite ==
  ASSUME TypeOK, NEW side \in Side
  PROVE  Unseen(side) \in SUBSET (1 .. Len(msg)) /\ IsFiniteSet(Unseen(side))
         /\ Cardinality(Unseen(side)) \in Nat
<1>1. Len(msg) \in Nat /\ DOMAIN msg = 1 .. Len(msg)
  BY DEF TypeOK
<1>2. IsFiniteSet(1 .. Len(msg))
  BY <1>1, FS_Interval
<1>3. Unseen(side) \subseteq 1 .. Len(msg)
  BY <1>1 DEF Unseen
<1> QED
  BY <1>2, <1>3, FS_Subset, FS_CardinalityType

-----------------------------------------------------------------------------
(* Types                                                                   *)

LEMMA TypeInit == Init => TypeOK
<1> SUFFICES ASSUME Init PROVE TypeOK
  OBVIOUS
<1>1. msg \in Seq(Message) /\ Len(msg) <= MaxMessage
  BY DEF Init
<1>2. [s \in Side |-> 0] \in [Side -> Nat] /\ 0 \in 0 .. MaxMessage /\ "OPEN" \in Status
  BY DEF Status
<1>3. conv \in [there : BOOLEAN, status : Status, unread : [Side -> Nat], last : 0 .. MaxMessage]
  BY <1>2 DEF Init
<1> QED
  BY <1>1, <1>3, IdleTyped DEF Init, TypeOK

LEMMA TypeStep ==
  ASSUME TypeOK, SendOwned, [Next]_vars
  PROVE  TypeOK'
<1> DEFINE Steps(r, q) == q \in RequestState /\ req' = [req EXCEPT ![r] = q]
<1>a. /\ msg \in Seq(Message) /\ Len(msg) \in 0 .. MaxMessage /\ DOMAIN msg = 1 .. Len(msg)
      /\ conv \in [there : BOOLEAN, status : Status, unread : [Side -> Nat], last : 0 .. MaxMessage]
      /\ req \in [Request -> RequestState] /\ overlap \in BOOLEAN
  BY DEF TypeOK
<1>b. ASSUME NEW r \in Request PROVE req[r] \in RequestState
  BY <1>a
<1>c. ASSUME NEW r \in Request, NEW q, Steps(r, q) PROVE req' \in [Request -> RequestState]
  BY <1>a, <1>c
<1>d. ASSUME NEW r \in Request, Finish(r) PROVE req' \in [Request -> RequestState]
  BY <1>a, <1>d, IdleTyped DEF Finish
<1>e. ASSUME NEW i \in DOMAIN msg, NEW t \in {"open", "sent", "seen", "undone"},
             msg' = [msg EXCEPT ![i].state = t]
      PROVE  msg' \in Seq(Message) /\ Len(msg') <= MaxMessage
  <2>1. [msg[i] EXCEPT !.state = t] \in Message
    BY MessageTyped DEF Message
  <2> QED
    BY <1>a, <1>e, <2>1
<1>1. CASE UNCHANGED vars
  BY <1>1 DEF vars, TypeOK
<1>2. ASSUME NEW r \in Request, Starts(r) PROVE TypeOK'
  <2>1. PICK op \in {"visit", "send", "seen"}, side \in Side, pc \in {"create", "insert", "marking"} :
          Begin(r, op, side, pc)
    BY <1>2, StartsBegins
  <2>2. Steps(r, [Idle EXCEPT !.op = op, !.side = side, !.pc = pc])
    BY <2>1, IdleTyped DEF Begin, RequestState
  <2> QED
    BY <1>a, <1>c, <2>1, <2>2 DEF Begin, TypeOK
<1>3. ASSUME NEW r \in Request, EnsureCreate(r) PROVE TypeOK'
  <2>1. CASE conv.there
    BY <1>a, <1>3, <1>d, <2>1 DEF EnsureCreate, TypeOK
  <2>2. CASE ~conv.there
    <3>1. /\ Len(msg) < MaxMessage /\ msg' = Append(msg, [from |-> "SYSTEM", state |-> "sent"])
          /\ conv' = [conv EXCEPT !.there = TRUE, !.last = Len(msg')] /\ overlap' = overlap
          /\ Steps(r, [req[r] EXCEPT !.pc = "insert"]) \/ Finish(r)
      BY <1>3, <1>b, <2>2 DEF EnsureCreate, RequestState
    <3>2. msg' \in Seq(Message) /\ Len(msg') \in 0 .. MaxMessage
      BY <1>a, <3>1 DEF Message
    <3>3. conv' \in [there : BOOLEAN, status : Status, unread : [Side -> Nat], last : 0 .. MaxMessage]
      BY <1>a, <3>1, <3>2
    <3>4. req' \in [Request -> RequestState]
      BY <1>c, <1>d, <3>1
    <3> QED
      BY <1>a, <3>1, <3>2, <3>3, <3>4 DEF TypeOK
  <2> QED
    BY <2>1, <2>2
<1>4. ASSUME NEW r \in Request, Insert(r) PROVE TypeOK'
  <2>1. [from |-> req[r].side, state |-> "open"] \in Message
    BY <1>b DEF RequestState, Message
  <2>2. msg' \in Seq(Message) /\ Len(msg') \in 0 .. MaxMessage
    BY <1>a, <1>4, <2>1 DEF Insert
  <2>3. Steps(r, [req[r] EXCEPT !.pc = "inserted", !.new = Len(msg')])
    BY <1>a, <1>b, <1>4, <2>2 DEF Insert, RequestState
  <2> QED
    BY <1>a, <1>c, <1>4, <2>2, <2>3 DEF Insert, TypeOK
<1>5. ASSUME NEW r \in Request, SendCommit(r) PROVE TypeOK'
  <2>1. req[r].pc = "inserted" /\ req[r].new \in DOMAIN msg /\ req[r].side \in Side
    BY <1>5, <1>b DEF SendCommit, SendOwned, RequestState
  <2>2. msg' \in Seq(Message) /\ Len(msg') <= MaxMessage
    BY <1>5, <1>e, <2>1 DEF SendCommit
  <2>3. [conv.unread EXCEPT ![Other(req[r].side)] = conv.unread[Other(req[r].side)] + 1] \in [Side -> Nat]
    BY <1>a, <2>1 DEF Other, Side
  <2>4. PICK st \in Status : conv' = [conv EXCEPT !.status = st, !.last = req[r].new,
          !.unread = [conv.unread EXCEPT ![Other(req[r].side)] = conv.unread[Other(req[r].side)] + 1]]
    BY <1>a, <1>5 DEF SendCommit, Status
  <2>5. req[r].new \in 0 .. MaxMessage
    BY <1>b DEF RequestState
  <2>6. conv' \in [there : BOOLEAN, status : Status, unread : [Side -> Nat], last : 0 .. MaxMessage]
    BY <1>a, <2>3, <2>4, <2>5
  <2> QED
    BY <1>a, <1>5, <1>d, <2>2, <2>6 DEF SendCommit, TypeOK
<1>6. ASSUME NEW r \in Request, SeenMark(r) PROVE TypeOK'
  <2>1. Unseen(req[r].side) \in SUBSET (1 .. MaxMessage)
    BY <1>a DEF Unseen
  <2>2. Steps(r, [req[r] EXCEPT !.pc = "marked", !.snap = Unseen(req[r].side)])
    BY <1>b, <1>6, <2>1 DEF SeenMark, RequestState
  <2> QED
    BY <1>a, <1>c, <1>6, <2>2 DEF SeenMark, TypeOK
<1>7. ASSUME NEW r \in Request, SeenCommit(r) PROVE TypeOK'
  <2>1. \A i \in DOMAIN msg : msg[i] \in Message /\ [msg[i] EXCEPT !.state = "seen"] \in Message
    BY MessageTyped DEF Message
  <2>2. \A i \in 1 .. Len(msg) :
          (IF i \in req[r].snap THEN [msg[i] EXCEPT !.state = "seen"] ELSE msg[i]) \in Message
    BY <1>a, <2>1
  <2>3. msg' \in Seq(Message) /\ Len(msg') = Len(msg)
    BY <1>a, <1>7, <2>2 DEF SeenCommit
  <2>4. [conv.unread EXCEPT ![req[r].side] = 0] \in [Side -> Nat]
    BY <1>a
  <2>5. conv' \in [there : BOOLEAN, status : Status, unread : [Side -> Nat], last : 0 .. MaxMessage]
    BY <1>a, <1>7, <2>4 DEF SeenCommit
  <2> QED
    BY <1>a, <1>7, <1>d, <2>3, <2>5 DEF SeenCommit, TypeOK
<1>8. ASSUME NEW r \in Request, Crash(r) PROVE TypeOK'
  <2>1. msg' \in Seq(Message) /\ Len(msg') <= MaxMessage
    <3>1. CASE req[r].pc = "inserted"
      BY <1>8, <1>e, <3>1 DEF Crash, SendOwned
    <3>2. CASE req[r].pc # "inserted"
      BY <1>a, <1>8, <3>2 DEF Crash
    <3> QED
      BY <3>1, <3>2
  <2> QED
    BY <1>a, <1>8, <1>d, <2>1 DEF Crash, TypeOK
<1>9. ASSUME NEW s \in Status, UpdateStatus(s) PROVE TypeOK'
  BY <1>a, <1>9 DEF UpdateStatus, TypeOK
<1> QED
  BY <1>1, <1>2, <1>3, <1>4, <1>5, <1>6, <1>7, <1>8, <1>9, NextCases

-----------------------------------------------------------------------------
(* Messages                                                                *)

(* No step drops a message, changes its sender or takes back a commit.     *)
LEMMA MessagesStay ==
  ASSUME TypeOK, SendOwned, MarkOwned, [Next]_vars
  PROVE  \A i \in DOMAIN msg :
           /\ i \in DOMAIN msg' /\ msg'[i].from = msg[i].from
           /\ msg[i].state \in {"sent", "seen"} => msg'[i].state \in {"sent", "seen"}
<1>a. msg \in Seq(Message) /\ DOMAIN msg = 1 .. Len(msg) /\ Len(msg) \in Nat
  BY DEF TypeOK
<1>b. \A i \in DOMAIN msg : msg[i] \in Message
  BY MessageTyped
<1> SUFFICES ASSUME NEW i \in DOMAIN msg
             PROVE  /\ i \in DOMAIN msg' /\ msg'[i].from = msg[i].from
                    /\ msg[i].state \in {"sent", "seen"} => msg'[i].state \in {"sent", "seen"}
  OBVIOUS
<1>1. CASE UNCHANGED msg
  BY <1>1
<1>2. ASSUME NEW m, msg' = Append(msg, m) PROVE i \in DOMAIN msg' /\ msg'[i] = msg[i]
  BY <1>a, <1>2
<1>3. ASSUME NEW r \in Request, EnsureCreate(r) \/ Insert(r)
      PROVE  UNCHANGED msg \/ (i \in DOMAIN msg' /\ msg'[i] = msg[i])
  BY <1>2, <1>3 DEF EnsureCreate, Insert
<1>4. ASSUME NEW n \in DOMAIN msg, NEW t, msg' = [msg EXCEPT ![n].state = t]
      PROVE  /\ i \in DOMAIN msg' /\ msg'[i].from = msg[i].from
             /\ msg'[i].state = IF i = n THEN t ELSE msg[i].state
  BY <1>b, <1>4 DEF Message
<1>5. ASSUME NEW r \in Request, SendCommit(r)
      PROVE  /\ i \in DOMAIN msg' /\ msg'[i].from = msg[i].from
             /\ msg[i].state \in {"sent", "seen"} => msg'[i].state \in {"sent", "seen"}
  BY <1>4, <1>5 DEF SendCommit, SendOwned
<1>6. ASSUME NEW r \in Request, Crash(r), req[r].pc = "inserted"
      PROVE  /\ i \in DOMAIN msg' /\ msg'[i].from = msg[i].from
             /\ msg[i].state \in {"sent", "seen"} => msg'[i].state \in {"sent", "seen"}
  <2>1. req[r].new \in DOMAIN msg /\ msg[req[r].new] = [from |-> req[r].side, state |-> "open"]
    BY <1>6 DEF SendOwned
  <2> QED
    BY <1>4, <1>6, <2>1 DEF Crash
<1>7. ASSUME NEW r \in Request, SeenCommit(r)
      PROVE  /\ i \in DOMAIN msg' /\ msg'[i].from = msg[i].from
             /\ msg[i].state \in {"sent", "seen"} => msg'[i].state \in {"sent", "seen"}
  BY <1>b, <1>7 DEF SeenCommit, Message
<1>8. ASSUME NEW r \in Request,
             Starts(r) \/ SeenMark(r) \/ (Crash(r) /\ req[r].pc # "inserted")
      PROVE  UNCHANGED msg
  BY <1>8, StartsBegins DEF Begin, SeenMark, Crash
<1>9. ASSUME NEW s \in Status, UpdateStatus(s) PROVE UNCHANGED msg
  BY <1>9 DEF UpdateStatus
<1>10. CASE UNCHANGED vars
  BY <1>1, <1>10 DEF vars
<1> QED
  BY <1>1, <1>3, <1>5, <1>6, <1>7, <1>8, <1>9, <1>10, NextCases

(* The steps of a request leave the others where they are, and a request   *)
(* that does not start was not idle.                                       *)
LEMMA OthersStay ==
  ASSUME TypeOK, NEW r \in Request,
         Starts(r) \/ EnsureCreate(r) \/ Insert(r) \/ SendCommit(r)
         \/ SeenMark(r) \/ SeenCommit(r) \/ Crash(r)
  PROVE  /\ \A q \in Request : q # r => req'[q] = req[q]
         /\ Starts(r) \/ (req[r] # Idle /\ overlap' = overlap)
<1>1. req \in [Request -> RequestState]
  BY DEF TypeOK
<1>2. CASE Starts(r)
  BY <1>1, <1>2, StartsBegins DEF Begin
<1> QED
  BY <1>1, <1>2 DEF EnsureCreate, Insert, SendCommit, SeenMark, SeenCommit, Crash, Finish, Idle

(* Where the request that moves gets to. *)
LEMMA MoverAt ==
  ASSUME TypeOK, NEW r \in Request
  PROVE  /\ Starts(r) => req'[r].pc \in {"create", "insert", "marking"}
                         /\ (req'[r].pc # "create" => conv.there)
                         /\ UNCHANGED <<msg, conv>>
         /\ EnsureCreate(r) => req'[r].pc \in {"idle", "insert"}
         /\ Insert(r) => req'[r] = [req[r] EXCEPT !.pc = "inserted", !.new = Len(msg')]
         /\ SeenMark(r) => req'[r] = [req[r] EXCEPT !.pc = "marked", !.snap = Unseen(req[r].side)]
         /\ SendCommit(r) \/ SeenCommit(r) \/ Crash(r) => req'[r] = Idle
<1>1. req \in [Request -> RequestState] /\ req[r] \in RequestState
  BY DEF TypeOK
<1>2. ASSUME Starts(r)
      PROVE  /\ req'[r].pc \in {"create", "insert", "marking"}
             /\ (req'[r].pc # "create" => conv.there) /\ UNCHANGED <<msg, conv>>
  <2>1. PICK op \in {"visit", "send", "seen"}, side \in Side, pc \in {"create", "insert", "marking"} :
          Begin(r, op, side, pc) /\ (pc # "create" => conv.there)
    BY <1>2, StartsBegins
  <2>2. req'[r] = [Idle EXCEPT !.op = op, !.side = side, !.pc = pc] /\ UNCHANGED <<msg, conv>>
    BY <1>1, <2>1 DEF Begin
  <2>3. req'[r].pc = pc
    BY <2>2 DEF Idle
  <2> QED
    BY <2>1, <2>2, <2>3
<1>3. ASSUME EnsureCreate(r) PROVE req'[r].pc \in {"idle", "insert"}
  BY <1>1, <1>3 DEF EnsureCreate, Finish, Idle, RequestState
<1>4. ASSUME Insert(r) PROVE req'[r] = [req[r] EXCEPT !.pc = "inserted", !.new = Len(msg')]
  BY <1>1, <1>4 DEF Insert
<1>5. ASSUME SeenMark(r)
      PROVE  req'[r] = [req[r] EXCEPT !.pc = "marked", !.snap = Unseen(req[r].side)]
  BY <1>1, <1>5 DEF SeenMark
<1>6. ASSUME SendCommit(r) \/ SeenCommit(r) \/ Crash(r) PROVE req'[r] = Idle
  BY <1>1, <1>6 DEF SendCommit, SeenCommit, Crash, Finish
<1> QED
  BY <1>2, <1>3, <1>4, <1>5, <1>6

LEMMA IdleAfter ==
  ASSUME TypeOK, NEW r \in Request, SendCommit(r) \/ SeenCommit(r) \/ Crash(r)
  PROVE  req'[r] = Idle /\ req'[r].pc = "idle"
<1>1. req'[r] = Idle
  BY MoverAt
<1> QED
  BY <1>1 DEF Idle

-----------------------------------------------------------------------------
(* The invariant, conjunct by conjunct                                     *)

LEMMA SendOwnedStep ==
  ASSUME TypeOK, SendOwned, MarkOwned, Next
  PROVE  SendOwned'
<1>a. /\ msg \in Seq(Message) /\ DOMAIN msg = 1 .. Len(msg) /\ Len(msg) \in Nat
      /\ req \in [Request -> RequestState]
  BY DEF TypeOK
(* It is enough that each request that has inserted keeps its message or   *)
(* has just appended it.                                                   *)
<1> DEFINE Keeps(q) == /\ req[q].pc = "inserted" /\ req'[q] = req[q]
                       /\ req[q].new \in DOMAIN msg' /\ msg'[req[q].new] = msg[req[q].new]
           IsNew(q) == /\ req'[q].new = Len(msg) + 1 /\ req'[q].new \in DOMAIN msg'
                       /\ msg'[req'[q].new] = [from |-> req'[q].side, state |-> "open"]
<1>b. ASSUME NEW r \in Request, \A q \in Request : req'[q].pc = "inserted" => Keeps(q) \/ (q = r /\ IsNew(q))
      PROVE  SendOwned'
  <2>1. ASSUME NEW q \in Request, req'[q].pc = "inserted"
        PROVE  /\ req'[q].new \in DOMAIN msg'
               /\ msg'[req'[q].new] = [from |-> req'[q].side, state |-> "open"]
               /\ Keeps(q) => req'[q].new \in 1 .. Len(msg)
    BY <1>a, <1>b, <2>1 DEF SendOwned
  <2>2. ASSUME NEW p \in Request, NEW q \in Request,
               req'[p].pc = "inserted", req'[q].pc = "inserted", req'[p].new = req'[q].new
        PROVE  p = q
    <3>1. CASE Keeps(p) /\ Keeps(q)
      BY <2>2, <3>1 DEF SendOwned
    <3>2. CASE IsNew(p) \/ IsNew(q)
      <4>1. req'[p].new = Len(msg) + 1 /\ req'[q].new = Len(msg) + 1
        BY <2>2, <3>2
      <4>2. req'[p].new \notin 1 .. Len(msg) /\ req'[q].new \notin 1 .. Len(msg)
        BY <1>a, <4>1
      <4>3. ~Keeps(p) /\ ~Keeps(q)
        BY <2>1, <2>2, <4>2
      <4> QED
        BY <1>b, <2>2, <4>3
    <3> QED
      BY <1>b, <2>2, <3>1, <3>2
  <2> QED
    BY <2>1, <2>2 DEF SendOwned
<1>c. ASSUME NEW m, msg' = Append(msg, m)
      PROVE  /\ \A i \in DOMAIN msg : i \in DOMAIN msg' /\ msg'[i] = msg[i]
             /\ Len(msg') = Len(msg) + 1 /\ Len(msg) + 1 \in DOMAIN msg' /\ msg'[Len(msg) + 1] = m
  BY <1>a, <1>c
<1>1. ASSUME NEW r \in Request,
             Starts(r) \/ SeenMark(r) PROVE SendOwned'
  <2>1. UNCHANGED msg /\ req'[r].pc # "inserted"
    BY <1>1, <1>a, MoverAt DEF SeenMark, RequestState
  <2> QED
    BY <1>1, <1>b, <2>1, OthersStay DEF SendOwned
<1>2. ASSUME NEW r \in Request, EnsureCreate(r) PROVE SendOwned'
  <2>1. req'[r].pc # "inserted"
    BY <1>2, MoverAt
  <2>2. UNCHANGED msg \/ \A i \in DOMAIN msg : i \in DOMAIN msg' /\ msg'[i] = msg[i]
    BY <1>2, <1>c DEF EnsureCreate
  <2> QED
    BY <1>2, <1>b, <2>1, <2>2, OthersStay DEF SendOwned
<1>3. ASSUME NEW r \in Request, Insert(r) PROVE SendOwned'
  <2>1. /\ \A i \in DOMAIN msg : i \in DOMAIN msg' /\ msg'[i] = msg[i]
        /\ Len(msg') = Len(msg) + 1 /\ Len(msg) + 1 \in DOMAIN msg'
        /\ msg'[Len(msg) + 1] = [from |-> req[r].side, state |-> "open"]
    BY <1>3, <1>c DEF Insert
  <2>2. IsNew(r)
    <3>1. req'[r] = [req[r] EXCEPT !.pc = "inserted", !.new = Len(msg')] /\ req[r] \in RequestState
      BY <1>3, <1>a, MoverAt
    <3>2. req'[r].new = Len(msg') /\ req'[r].side = req[r].side
      BY <3>1 DEF RequestState
    <3> QED
      BY <2>1, <3>2
  <2> QED
    BY <1>3, <1>b, <2>1, <2>2, OthersStay DEF SendOwned
<1>4. ASSUME NEW r \in Request, SendCommit(r) \/ Crash(r) PROVE SendOwned'
  <2>1. req'[r].pc # "inserted"
    BY <1>4, IdleAfter
  <2>2. ASSUME NEW q \in Request, q # r, req[q].pc = "inserted"
        PROVE  req[q].new \in DOMAIN msg' /\ msg'[req[q].new] = msg[req[q].new]
    BY <1>4, <1>a, <2>2 DEF SendCommit, Crash, SendOwned
  <2> QED
    BY <1>4, <1>b, <2>1, <2>2, OthersStay
<1>5. ASSUME NEW r \in Request, SeenCommit(r) PROVE SendOwned'
  <2>1. req'[r].pc # "inserted"
    BY <1>5, IdleAfter
  <2>2. ASSUME NEW q \in Request, q # r, req[q].pc = "inserted"
        PROVE  req[q].new \in DOMAIN msg' /\ msg'[req[q].new] = msg[req[q].new]
    <3>1. req[q].new \in DOMAIN msg /\ msg[req[q].new] = [from |-> req[q].side, state |-> "open"]
      BY <2>2 DEF SendOwned
    <3>2. req[q].new \notin req[r].snap
      BY <1>5, <3>1 DEF SeenCommit, MarkOwned
    <3> QED
      BY <1>5, <3>1, <3>2 DEF SeenCommit
  <2> QED
    BY <1>5, <1>b, <2>1, <2>2, OthersStay
<1>6. ASSUME NEW s \in Status, UpdateStatus(s) PROVE SendOwned'
  BY <1>6 DEF UpdateStatus, SendOwned
<1> QED
  BY <1>1, <1>2, <1>3, <1>4, <1>5, <1>6, NextCases

LEMMA MarkOwnedStep ==
  ASSUME TypeOK, SendOwned, MarkOwned, Next
  PROVE  MarkOwned'
<1>a. req \in [Request -> RequestState]
  BY DEF TypeOK
<1>b. \A i \in DOMAIN msg :
        /\ i \in DOMAIN msg' /\ msg'[i].from = msg[i].from
        /\ msg[i].state \in {"sent", "seen"} => msg'[i].state \in {"sent", "seen"}
  BY MessagesStay
<1>c. ASSUME NEW q \in Request, req'[q] = req[q], req'[q].pc = "marked", NEW i \in req'[q].snap
      PROVE  i \in DOMAIN msg' /\ msg'[i].from = Other(req'[q].side) /\ msg'[i].state \in {"sent", "seen"}
  BY <1>b, <1>c DEF MarkOwned
<1>1. ASSUME NEW r \in Request, SeenMark(r) PROVE MarkOwned'
  <2>1. ASSUME NEW i \in req'[r].snap
        PROVE  i \in DOMAIN msg' /\ msg'[i].from = Other(req'[r].side) /\ msg'[i].state \in {"sent", "seen"}
    <3>1. req'[r].snap = Unseen(req[r].side) /\ req'[r].side = req[r].side
      <4>1. req'[r] = [req[r] EXCEPT !.pc = "marked", !.snap = Unseen(req[r].side)] /\ req[r] \in RequestState
        BY <1>a, <1>1, MoverAt
      <4> QED
        BY <4>1 DEF RequestState
    <3>2. i \in DOMAIN msg /\ msg[i] = [from |-> Other(req[r].side), state |-> "sent"]
      BY <2>1, <3>1 DEF Unseen
    <3> QED
      BY <1>b, <3>1, <3>2
  <2> QED
    BY <1>1, <1>c, <2>1, OthersStay DEF MarkOwned
<1>2. ASSUME NEW r \in Request,
             Starts(r) \/ EnsureCreate(r) \/ Insert(r) \/ SendCommit(r) \/ SeenCommit(r) \/ Crash(r)
      PROVE  MarkOwned'
  <2>1. CASE Starts(r) \/ EnsureCreate(r)
    <3>1. req'[r].pc \in {"create", "idle", "insert", "marking"}
      BY <2>1, MoverAt
    <3>2. req'[r].pc # "marked"
      BY <3>1
    <3> QED
      BY <1>2, <1>c, <3>2, OthersStay DEF MarkOwned
  <2>2. CASE Insert(r)
    <3>1. req'[r] = [req[r] EXCEPT !.pc = "inserted", !.new = Len(msg')] /\ req[r] \in RequestState
      BY <1>a, <2>2, MoverAt
    <3>2. req'[r].pc # "marked"
      BY <3>1 DEF RequestState
    <3> QED
      BY <1>2, <1>c, <3>2, OthersStay DEF MarkOwned
  <2>3. CASE SendCommit(r) \/ SeenCommit(r) \/ Crash(r)
    <3>1. req'[r].pc = "idle"
      BY <2>3, IdleAfter
    <3> QED
      BY <1>2, <1>c, <3>1, OthersStay DEF MarkOwned
  <2> QED
    BY <1>2, <2>1, <2>2, <2>3
<1>3. ASSUME NEW s \in Status, UpdateStatus(s) PROVE MarkOwned'
  BY <1>3 DEF UpdateStatus, MarkOwned
<1> QED
  BY <1>1, <1>2, <1>3, NextCases

LEMMA UnderwayStep ==
  ASSUME TypeOK, Underway, Next
  PROVE  Underway' /\ (conv.there => conv'.there)
<1>a. req \in [Request -> RequestState] /\ conv \in [there : BOOLEAN, status : Status, unread : [Side -> Nat], last : 0 .. MaxMessage]
  BY DEF TypeOK
<1>1. ASSUME NEW r \in Request,
             Starts(r) \/ EnsureCreate(r) \/ Insert(r) \/ SendCommit(r)
             \/ SeenMark(r) \/ SeenCommit(r) \/ Crash(r)
      PROVE  /\ conv.there => conv'.there
             /\ req'[r].pc \in {"insert", "inserted", "marking", "marked"} => conv'.there
  <2>1. CASE Starts(r)
    BY <2>1, MoverAt
  <2>2. CASE EnsureCreate(r)
    BY <1>a, <2>2 DEF EnsureCreate
  <2>3. CASE Insert(r) \/ SeenMark(r)
    BY <2>3 DEF Insert, SeenMark, Underway
  <2>4. CASE SendCommit(r) \/ SeenCommit(r) \/ Crash(r)
    <3>1. req'[r] = Idle
      BY <2>4, MoverAt
    <3>2. conv.there => conv'.there
      BY <1>a, <2>4 DEF SendCommit, SeenCommit, Crash
    <3> QED
      BY <3>1, <3>2 DEF Idle
  <2> QED
    BY <1>1, <2>1, <2>2, <2>3, <2>4
<1>2. ASSUME NEW s \in Status, UpdateStatus(s) PROVE Underway' /\ (conv.there => conv'.there)
  BY <1>a, <1>2 DEF UpdateStatus, Underway
<1>3. ASSUME NEW r \in Request,
             Starts(r) \/ EnsureCreate(r) \/ Insert(r) \/ SendCommit(r)
             \/ SeenMark(r) \/ SeenCommit(r) \/ Crash(r)
      PROVE  Underway' /\ (conv.there => conv'.there)
  BY <1>1, <1>3, OthersStay DEF Underway
<1> QED
  BY <1>2, <1>3, NextCases

-----------------------------------------------------------------------------
(* What is to be seen, and what is committed                               *)

(* Steps that neither commit nor mark: the unseen messages of both sides   *)
(* are the same after them, and the committed ones but for a welcome.      *)
LEMMA QuietSteps ==
  ASSUME TypeOK, SendOwned, NEW r \in Request,
         Starts(r) \/ EnsureCreate(r) \/ Insert(r) \/ SeenMark(r) \/ Crash(r)
  PROVE  /\ \A side \in Side : Unseen(side)' = Unseen(side)
         /\ conv.there \/ ~EnsureCreate(r) => Committed' = Committed
<1>a. msg \in Seq(Message) /\ DOMAIN msg = 1 .. Len(msg) /\ Len(msg) \in Nat
      /\ req \in [Request -> RequestState]
  BY DEF TypeOK
<1>1. CASE UNCHANGED msg
  BY <1>1 DEF Unseen, Committed
<1>2. ASSUME NEW m, msg' = Append(msg, m)
      PROVE  /\ DOMAIN msg' = DOMAIN msg \cup {Len(msg) + 1} /\ Len(msg) + 1 \notin DOMAIN msg
             /\ \A i \in DOMAIN msg : msg'[i] = msg[i]
             /\ msg'[Len(msg) + 1] = m
  BY <1>a, <1>2
<1>3. CASE EnsureCreate(r) /\ ~UNCHANGED msg
  <2>1. msg' = Append(msg, [from |-> "SYSTEM", state |-> "sent"]) /\ ~conv.there
    BY <1>3 DEF EnsureCreate
  <2>2. \A side \in Side : [from |-> "SYSTEM", state |-> "sent"] # [from |-> Other(side), state |-> "sent"]
    BY DEF Other, Side
  <2> QED
    BY <1>2, <1>3, <2>1, <2>2 DEF Unseen
<1>4. CASE Insert(r)
  <2>1. msg' = Append(msg, [from |-> req[r].side, state |-> "open"])
    BY <1>4 DEF Insert
  <2>2. \A side \in Side : [from |-> req[r].side, state |-> "open"] # [from |-> Other(side), state |-> "sent"]
    OBVIOUS
  <2>3. [from |-> req[r].side, state |-> "open"].state \notin {"sent", "seen"}
    OBVIOUS
  <2>4. \A side \in Side : Unseen(side)' = Unseen(side)
    BY <1>2, <2>1, <2>2 DEF Unseen
  <2>5. Committed' = Committed
    BY <1>2, <2>1, <2>3 DEF Committed
  <2> QED
    BY <2>4, <2>5
<1>5. CASE Crash(r) /\ ~UNCHANGED msg
  <2> DEFINE n == req[r].new
  <2>1. /\ n \in DOMAIN msg /\ msg[n] = [from |-> req[r].side, state |-> "open"]
        /\ msg' = [msg EXCEPT ![n].state = "undone"]
    BY <1>5 DEF Crash, SendOwned
  <2>2. /\ DOMAIN msg' = DOMAIN msg /\ msg'[n].state = "undone"
        /\ \A i \in DOMAIN msg : i # n => msg'[i] = msg[i]
    BY <1>a, <2>1
  <2>3. msg[n].state = "open"
    BY <2>1
  <2>4. Committed' = Committed
    BY <2>1, <2>2, <2>3 DEF Committed
  <2>5. ASSUME NEW side \in Side PROVE Unseen(side)' = Unseen(side)
    <3>1. msg[n] # [from |-> Other(side), state |-> "sent"]
          /\ msg'[n] # [from |-> Other(side), state |-> "sent"]
      BY <2>2, <2>3
    <3> QED
      BY <2>1, <2>2, <3>1 DEF Unseen
  <2> QED
    BY <2>4, <2>5
<1>6. CASE Starts(r) \/ SeenMark(r)
  BY <1>1, <1>6, MoverAt DEF SeenMark
<1> QED
  BY <1>1, <1>3, <1>4, <1>5, <1>6

(* The commit of a message gives the other side one more to see.           *)
LEMMA SendStep ==
  ASSUME TypeOK, SendOwned, NEW r \in Request, SendCommit(r),
         NEW side \in Side, side = req[r].side, NEW n, n = req[r].new
  PROVE  /\ n \in DOMAIN msg
         /\ Unseen(side)' = Unseen(side)
         /\ Unseen(Other(side))' = Unseen(Other(side)) \cup {n}
         /\ n \notin Unseen(Other(side))
         /\ Committed' = Committed \cup {n}
         /\ conv'.unread = [conv.unread EXCEPT ![Other(side)] = conv.unread[Other(side)] + 1]
         /\ conv'.last = n /\ conv'.there = conv.there
<1>a. /\ msg \in Seq(Message) /\ req[r] \in RequestState
      /\ conv \in [there : BOOLEAN, status : Status, unread : [Side -> Nat], last : 0 .. MaxMessage]
  BY DEF TypeOK
<1>1. /\ n \in DOMAIN msg /\ msg[n] = [from |-> side, state |-> "open"]
      /\ msg' = [msg EXCEPT ![n].state = "sent"] /\ side \in Side
  BY <1>a DEF SendCommit, SendOwned, RequestState
<1>2. /\ DOMAIN msg' = DOMAIN msg /\ msg'[n] = [msg[n] EXCEPT !.state = "sent"]
      /\ \A i \in DOMAIN msg : i # n => msg'[i] = msg[i]
  BY <1>a, <1>1
<1>3. msg'[n] = [from |-> side, state |-> "sent"] /\ msg[n].state = "open" /\ msg'[n].state = "sent"
  BY <1>1, <1>2
<1>4. side # Other(side) /\ Other(Other(side)) = side
  BY <1>1 DEF Other, Side
<1>5. ASSUME NEW t \in Side
      PROVE  /\ t = Other(side) => Unseen(t)' = Unseen(t) \cup {n} /\ n \notin Unseen(t)
             /\ t = side => Unseen(t)' = Unseen(t)
  <2>1. msg[n] # [from |-> Other(t), state |-> "sent"]
    BY <1>3
  <2>2. t = side => msg'[n] # [from |-> Other(t), state |-> "sent"]
    <3>1. msg'[n].from = side
      BY <1>3
    <3> QED
      BY <1>4, <3>1
  <2>3. t = Other(side) => msg'[n] = [from |-> Other(t), state |-> "sent"]
    BY <1>3, <1>4
  <2> QED
    BY <1>1, <1>2, <2>1, <2>2, <2>3 DEF Unseen
<1>6. Committed' = Committed \cup {n}
  BY <1>1, <1>2, <1>3 DEF Committed
<1>7. /\ conv'.unread = [conv.unread EXCEPT ![Other(side)] = conv.unread[Other(side)] + 1]
      /\ conv'.last = n /\ conv'.there = conv.there
  BY <1>a DEF SendCommit
<1>8. Other(side) \in Side
  BY DEF Other, Side
<1> QED
  BY <1>1, <1>5, <1>6, <1>7, <1>8

(* The end of markSeen takes what it marked from its side's, and only that. *)
LEMMA SeenStep ==
  ASSUME TypeOK, MarkOwned, NEW r \in Request, SeenCommit(r),
         NEW side \in Side, side = req[r].side, NEW snap, snap = req[r].snap
  PROVE  /\ Unseen(side)' = Unseen(side) \ snap
         /\ Unseen(Other(side))' = Unseen(Other(side))
         /\ Committed' = Committed
         /\ conv'.unread = [conv.unread EXCEPT ![side] = 0]
         /\ conv'.last = conv.last /\ conv'.there = conv.there
<1>a. /\ msg \in Seq(Message) /\ req[r] \in RequestState
      /\ conv \in [there : BOOLEAN, status : Status, unread : [Side -> Nat], last : 0 .. MaxMessage]
  BY DEF TypeOK
<1>1. side \in Side /\ side # Other(side) /\ Other(Other(side)) = side
  BY <1>a DEF RequestState, Other, Side
<1>2. /\ DOMAIN msg' = DOMAIN msg
      /\ \A i \in DOMAIN msg : msg'[i] = IF i \in snap THEN [msg[i] EXCEPT !.state = "seen"] ELSE msg[i]
  BY <1>a DEF SeenCommit
<1>3. \A i \in snap : i \in DOMAIN msg /\ msg[i].from = Other(side) /\ msg[i].state \in {"sent", "seen"}
  BY DEF MarkOwned, SeenCommit
<1>4. ASSUME NEW i \in snap PROVE msg'[i].state = "seen" /\ msg'[i].from = Other(side)
  BY <1>2, <1>3, MessageTyped DEF Message
<1>5. Committed' = Committed
  BY <1>2, <1>3, <1>4 DEF Committed
<1>6. ASSUME NEW i \in DOMAIN msg
      PROVE  /\ (i \in Unseen(side)') <=> (i \in Unseen(side) \ snap)
             /\ (i \in Unseen(Other(side))') <=> (i \in Unseen(Other(side)))
  <2>1. CASE i \in snap
    <3>1. msg'[i] # [from |-> Other(side), state |-> "sent"]
      BY <1>4, <2>1
    <3>2. msg'[i] # [from |-> side, state |-> "sent"] /\ msg[i] # [from |-> side, state |-> "sent"]
      BY <1>1, <1>3, <1>4, <2>1
    <3> QED
      BY <1>1, <2>1, <3>1, <3>2 DEF Unseen
  <2>2. CASE i \notin snap
    BY <1>2, <2>2 DEF Unseen
  <2> QED
    BY <2>1, <2>2
<1>7. Unseen(side)' = Unseen(side) \ snap /\ Unseen(Other(side))' = Unseen(Other(side))
  BY <1>2, <1>6 DEF Unseen
<1>8. /\ conv'.unread = [conv.unread EXCEPT ![side] = 0]
      /\ conv'.last = conv.last /\ conv'.there = conv.there
  BY <1>a DEF SeenCommit
<1> QED
  BY <1>1, <1>5, <1>7, <1>8

(* What a send and the end of a markSeen do to the counters and to what    *)
(* they count.                                                             *)
LEMMA SendCounts ==
  ASSUME TypeOK, SendOwned, NEW r \in Request, SendCommit(r), NEW t \in Side
  PROVE  IF t = req[r].side
         THEN conv'.unread[t] = conv.unread[t] /\ Cardinality(Unseen(t))' = Cardinality(Unseen(t))
         ELSE /\ conv'.unread[t] = conv.unread[t] + 1
              /\ Cardinality(Unseen(t))' = Cardinality(Unseen(t)) + 1
<1>a. conv.unread \in [Side -> Nat] /\ req[r].side \in Side
  BY DEF TypeOK, RequestState
<1> DEFINE u == Unseen(t)
<1>1. PICK side \in Side : side = req[r].side
  BY <1>a
<1>2. PICK n : n = req[r].new
  OBVIOUS
<1>3. /\ Unseen(side)' = Unseen(side)
      /\ Unseen(Other(side))' = Unseen(Other(side)) \cup {n} /\ n \notin Unseen(Other(side))
      /\ conv'.unread = [conv.unread EXCEPT ![Other(side)] = conv.unread[Other(side)] + 1]
  BY <1>1, <1>2, SendStep
<1>4. side # Other(side) /\ (t = side \/ t = Other(side))
  BY DEF Other, Side
<1>5. CASE t = side
  BY <1>a, <1>1, <1>3, <1>4, <1>5
<1>6. CASE t = Other(side)
  <2>1. u' = u \cup {n} /\ n \notin u
    BY <1>3, <1>6
  <2>2. Cardinality(u \cup {n}) = Cardinality(u) + 1
    BY <2>1, UnseenFinite, FS_AddElement
  <2>3. conv'.unread[t] = conv.unread[t] + 1
    BY <1>a, <1>3, <1>6
  <2> QED
    BY <1>1, <1>4, <1>6, <2>1, <2>2, <2>3
<1> QED
  BY <1>4, <1>5, <1>6

LEMMA SeenCounts ==
  ASSUME TypeOK, MarkOwned, NEW r \in Request, SeenCommit(r), NEW t \in Side
  PROVE  IF t = req[r].side
         THEN conv'.unread[t] = 0 /\ Unseen(t)' = Unseen(t) \ req[r].snap
         ELSE conv'.unread[t] = conv.unread[t] /\ Unseen(t)' = Unseen(t)
<1>a. conv.unread \in [Side -> Nat] /\ req[r].side \in Side
  BY DEF TypeOK, RequestState
<1>1. PICK side \in Side : side = req[r].side
  BY <1>a
<1>2. PICK snap : snap = req[r].snap
  OBVIOUS
<1>3. /\ Unseen(side)' = Unseen(side) \ snap /\ Unseen(Other(side))' = Unseen(Other(side))
      /\ conv'.unread = [conv.unread EXCEPT ![side] = 0]
  BY <1>1, <1>2, SeenStep
<1>4. side # Other(side) /\ (t = side \/ t = Other(side))
  BY DEF Other, Side
<1>5. CASE t = side
  BY <1>a, <1>1, <1>2, <1>3, <1>5
<1>6. CASE t = Other(side)
  BY <1>a, <1>1, <1>3, <1>4, <1>6
<1> QED
  BY <1>4, <1>5, <1>6

LEMMA WelcomeCounts ==
  ASSUME TypeOK, NEW r \in Request, Starts(r) \/ EnsureCreate(r) \/ Insert(r) \/ SeenMark(r) \/ Crash(r)
  PROVE  conv'.unread = conv.unread
BY MoverAt DEF EnsureCreate, Insert, SeenMark, Crash, TypeOK

(* A counter within what it counts.                                        *)
LEMMA UnreadStep ==
  ASSUME TypeOK, TypeOK', SendOwned, MarkOwned, UnreadNeverOverstates, Next
  PROVE  UnreadNeverOverstates'
<1>a. ASSUME NEW t \in Side
      PROVE  /\ conv.unread[t] \in Nat /\ conv.unread[t] <= Cardinality(Unseen(t))
             /\ Cardinality(Unseen(t)) \in Nat /\ Cardinality(Unseen(t)') \in Nat
             /\ conv'.unread[t] \in Nat /\ IsFiniteSet(Unseen(t)')
  <2>1. Cardinality(Unseen(t)) \in Nat
    BY UnseenFinite
  <2>2. IsFiniteSet(Unseen(t)') /\ Cardinality(Unseen(t)') \in Nat
    <3>1. DOMAIN msg' = 1 .. Len(msg') /\ Len(msg') \in Nat
      BY DEF TypeOK
    <3>2. Unseen(t)' \subseteq 1 .. Len(msg')
      BY <3>1 DEF Unseen
    <3>3. IsFiniteSet(1 .. Len(msg'))
      BY <3>1, FS_Interval
    <3> QED
      BY <3>2, <3>3, FS_Subset, FS_CardinalityType
  <2> QED
    BY <2>1, <2>2 DEF TypeOK, UnreadNeverOverstates
<1>1. ASSUME NEW t \in Side PROVE conv'.unread[t] <= Cardinality(Unseen(t)')
  <2>1. ASSUME NEW r \in Request,
               Starts(r) \/ EnsureCreate(r) \/ Insert(r) \/ SeenMark(r) \/ Crash(r)
        PROVE  conv'.unread[t] <= Cardinality(Unseen(t)')
    BY <1>a, <2>1, QuietSteps, WelcomeCounts
  <2>2. ASSUME NEW r \in Request, SendCommit(r)
        PROVE  conv'.unread[t] <= Cardinality(Unseen(t)')
    BY <1>a, <2>2, SendCounts
  <2>3. ASSUME NEW r \in Request, SeenCommit(r)
        PROVE  conv'.unread[t] <= Cardinality(Unseen(t)')
    BY <1>a, <2>3, SeenCounts
  <2>4. ASSUME NEW s \in Status, UpdateStatus(s)
        PROVE  conv'.unread[t] <= Cardinality(Unseen(t)')
    <3>1. conv'.unread = conv.unread /\ Unseen(t)' = Unseen(t)
      BY <2>4 DEF UpdateStatus, TypeOK, Unseen
    <3> QED
      BY <1>a, <3>1
  <2> QED
    BY <2>1, <2>2, <2>3, <2>4, NextCases
<1>2. ASSUME ListedUnread' PROVE Unseen("ADMIN")' # {}
  <2>1. "ADMIN" \in Side
    BY DEF Side
  <2>2. conv'.unread["ADMIN"] > 0
    BY <1>2 DEF ListedUnread
  <2>3. Cardinality(Unseen("ADMIN")') # 0
    BY <1>1, <1>a, <2>1, <2>2
  <2> QED
    BY <2>3, FS_EmptySet
<1> QED
  BY <1>1, <1>2 DEF UnreadNeverOverstates

(* One welcome, first of all.                                              *)
LEMMA WelcomeStep ==
  ASSUME TypeOK, SendOwned, MarkOwned, Underway, OneWelcome, Next
  PROVE  OneWelcome'
<1>a. /\ msg \in Seq(Message) /\ DOMAIN msg = 1 .. Len(msg) /\ Len(msg) \in Nat
      /\ msg = <<>> <=> Len(msg) = 0
      /\ req \in [Request -> RequestState]
      /\ conv \in [there : BOOLEAN, status : Status, unread : [Side -> Nat], last : 0 .. MaxMessage]
  BY DEF TypeOK
<1>b. ASSUME NEW m, msg' = Append(msg, m)
      PROVE  /\ DOMAIN msg' = 1 .. Len(msg) + 1 /\ msg' # <<>>
             /\ \A i \in 1 .. Len(msg) : msg'[i] = msg[i]
             /\ msg'[Len(msg) + 1] = m
  BY <1>a, <1>b
(* Nothing is appended and the conversation does not come or go.           *)
<1>c. ASSUME DOMAIN msg' = DOMAIN msg, conv'.there = conv.there, msg' = <<>> <=> msg = <<>>
      PROVE  OneWelcome'
  BY <1>c, MessagesStay DEF OneWelcome
<1>1. ASSUME NEW r \in Request, EnsureCreate(r) PROVE OneWelcome'
  <2>1. CASE conv.there
    BY <1>1, <1>c, <2>1 DEF EnsureCreate
  <2>2. CASE ~conv.there
    <3>1. msg' = Append(msg, [from |-> "SYSTEM", state |-> "sent"]) /\ conv'.there /\ Len(msg) = 0
      BY <1>1, <1>a, <2>2 DEF EnsureCreate, OneWelcome
    <3>2. DOMAIN msg' = {1} /\ msg' # <<>> /\ msg'[1].from = "SYSTEM"
      BY <1>b, <3>1
    <3> QED
      BY <3>1, <3>2 DEF OneWelcome
  <2> QED
    BY <2>1, <2>2
<1>2. ASSUME NEW r \in Request, Insert(r) PROVE OneWelcome'
  <2>1. conv.there /\ Len(msg) > 0
    BY <1>2, <1>a DEF Insert, Underway, OneWelcome
  <2>2. msg' = Append(msg, [from |-> req[r].side, state |-> "open"]) /\ conv' = conv
    BY <1>2 DEF Insert
  <2>3. req[r].side # "SYSTEM"
    <3>1. req[r] \in RequestState
      BY <1>a
    <3> QED
      BY <3>1 DEF RequestState, Side
  <2>4. \A i \in DOMAIN msg' : msg'[i].from = "SYSTEM" <=> i = 1
    <3>1. ASSUME NEW i \in 1 .. Len(msg) PROVE msg'[i].from = "SYSTEM" <=> i = 1
      <4>1. msg'[i] = msg[i]
        BY <1>b, <2>2
      <4> QED
        BY <1>a, <4>1 DEF OneWelcome
    <3>2. msg'[Len(msg) + 1].from # "SYSTEM"
      BY <1>b, <2>2, <2>3
    <3> QED
      BY <1>a, <1>b, <2>1, <2>2, <3>1, <3>2
  <2> QED
    BY <1>b, <2>1, <2>2, <2>4 DEF OneWelcome
<1>3. ASSUME NEW r \in Request, Starts(r) \/ SeenMark(r) PROVE OneWelcome'
  BY <1>3, <1>c, MoverAt DEF SeenMark
<1>4. ASSUME NEW r \in Request, SendCommit(r) \/ SeenCommit(r) \/ Crash(r) PROVE OneWelcome'
  <2>1. conv'.there = conv.there
    BY <1>4, <1>a DEF SendCommit, SeenCommit, Crash
  <2>2. DOMAIN msg' = DOMAIN msg
    BY <1>4, <1>a DEF SendCommit, SeenCommit, Crash
  <2>3. msg' = <<>> <=> msg = <<>>
    <3>1. CASE SendCommit(r) \/ Crash(r)
      BY <1>a, <2>2, <3>1 DEF SendCommit, Crash, SendOwned
    <3>2. CASE SeenCommit(r)
      BY <1>a, <2>2, <3>2 DEF SeenCommit
    <3> QED
      BY <1>4, <3>1, <3>2
  <2> QED
    BY <1>c, <2>1, <2>2, <2>3
<1>5. ASSUME NEW s \in Status, UpdateStatus(s) PROVE OneWelcome'
  BY <1>5, <1>a, <1>c DEF UpdateStatus
<1> QED
  BY <1>1, <1>2, <1>3, <1>4, <1>5, NextCases

(* One request at a time.                                                  *)
LEMMA AloneStep ==
  ASSUME TypeOK, SendOwned, Alone, Next
  PROVE  Alone'
<1>a. /\ msg \in Seq(Message) /\ Len(msg) \in Nat
      /\ req \in [Request -> RequestState] /\ \A r \in Request : req[r] \in RequestState
      /\ overlap \in BOOLEAN
  BY DEF TypeOK
<1> SUFFICES ASSUME ~overlap'
             PROVE  /\ \A q, r \in Request : req'[q] # Idle /\ req'[r] # Idle => q = r
                    /\ \A r \in Request : req'[r].pc = "inserted" => req'[r].new = Len(msg')
                    /\ \A r \in Request : req'[r].pc = "marked" => req'[r].snap = Unseen(req[r].side)'
  BY DEF Alone
<1>b. Idle.pc # "inserted" /\ Idle.pc # "marked"
  BY DEF Idle
(* The others are idle, and stay it.                                       *)
<1>1. ASSUME NEW r \in Request,
             Starts(r) \/ EnsureCreate(r) \/ Insert(r) \/ SendCommit(r)
             \/ SeenMark(r) \/ SeenCommit(r) \/ Crash(r)
      PROVE  \A q \in Request : q # r => req'[q] = Idle
  <2>1. CASE Starts(r)
    <3>1. \A q \in Request : req[q] = Idle
      BY <1>a, <2>1, StartsBegins DEF Begin
    <3> QED
      BY <1>1, <3>1, OthersStay
  <2>2. CASE ~Starts(r)
    <3>1. req[r] # Idle /\ ~overlap
      BY <1>1, <2>2, OthersStay
    <3> QED
      BY <1>1, <3>1, OthersStay DEF Alone
  <2> QED
    BY <2>1, <2>2
<1>2. ASSUME NEW r \in Request,
             Starts(r) \/ EnsureCreate(r) \/ Insert(r) \/ SendCommit(r)
             \/ SeenMark(r) \/ SeenCommit(r) \/ Crash(r),
             req'[r].pc = "inserted" => req'[r].new = Len(msg'),
             req'[r].pc = "marked" => req'[r].snap = Unseen(req[r].side)'
      PROVE  /\ \A p, q \in Request : req'[p] # Idle /\ req'[q] # Idle => p = q
             /\ \A q \in Request : req'[q].pc = "inserted" => req'[q].new = Len(msg')
             /\ \A q \in Request : req'[q].pc = "marked" => req'[q].snap = Unseen(req[q].side)'
  <2>1. \A q \in Request : q # r => req'[q] = Idle
    BY <1>1, <1>2
  <2>2. \A q \in Request : q # r => req'[q].pc # "inserted" /\ req'[q].pc # "marked"
    BY <1>b, <2>1
  <2> QED
    BY <1>2, <2>1, <2>2
<1>3. ASSUME NEW r \in Request, Starts(r) \/ EnsureCreate(r) PROVE req'[r].pc \notin {"inserted", "marked"}
  BY <1>3, MoverAt
<1>4. ASSUME NEW r \in Request, Insert(r)
      PROVE  req'[r].pc = "inserted" /\ req'[r].new = Len(msg')
  <2>1. req'[r] = [req[r] EXCEPT !.pc = "inserted", !.new = Len(msg')]
    BY <1>4, MoverAt
  <2> QED
    BY <1>a, <2>1 DEF RequestState
<1>5. ASSUME NEW r \in Request, SeenMark(r)
      PROVE  req'[r].pc = "marked" /\ req'[r].snap = Unseen(req[r].side)'
  <2>1. req'[r] = [req[r] EXCEPT !.pc = "marked", !.snap = Unseen(req[r].side)]
    BY <1>5, MoverAt
  <2>2. req'[r].pc = "marked" /\ req'[r].snap = Unseen(req[r].side) /\ req'[r].side = req[r].side
    BY <1>a, <2>1 DEF RequestState
  <2>3. Unseen(req[r].side)' = Unseen(req[r].side)
    BY <1>5, <2>2 DEF SeenMark, Unseen
  <2> QED
    BY <2>2, <2>3
<1>6. ASSUME NEW r \in Request, SendCommit(r) \/ SeenCommit(r) \/ Crash(r)
      PROVE  req'[r].pc \notin {"inserted", "marked"}
  BY <1>6, IdleAfter
<1>7. ASSUME NEW s \in Status, UpdateStatus(s)
      PROVE  /\ \A p, q \in Request : req'[p] # Idle /\ req'[q] # Idle => p = q
             /\ \A q \in Request : req'[q].pc = "inserted" => req'[q].new = Len(msg')
             /\ \A q \in Request : req'[q].pc = "marked" => req'[q].snap = Unseen(req[q].side)'
  BY <1>7 DEF UpdateStatus, Alone, Unseen
<1> QED
  BY <1>2, <1>3, <1>4, <1>5, <1>6, <1>7, NextCases

-----------------------------------------------------------------------------
(* The summary                                                             *)

LEMMA MaxIs ==
  ASSUME NEW S \in SUBSET Nat, NEW m \in S, \A i \in S : i <= m
  PROVE  Max(S) = m
<1>1. \A x \in S : (\A y \in S : x >= y) => x = m
  OBVIOUS
<1>2. \A y \in S : m >= y
  OBVIOUS
<1> QED
  BY <1>1, <1>2 DEF Max

(* The row sums up its messages while requests are served one by one.      *)
LEMMA SummaryStep ==
  ASSUME TypeOK, SendOwned, MarkOwned, Underway, Alone, OneWelcome, SummaryExact, Next
  PROVE  SummaryExact'
<1>a. /\ msg \in Seq(Message) /\ DOMAIN msg = 1 .. Len(msg) /\ Len(msg) \in Nat
      /\ msg = <<>> <=> Len(msg) = 0
      /\ \A t \in Side : conv.unread[t] \in Nat
      /\ conv \in [there : BOOLEAN, status : Status, unread : [Side -> Nat], last : 0 .. MaxMessage]
      /\ \A r \in Request : req[r] \in RequestState
  BY DEF TypeOK
<1>b. \A t \in Side : Cardinality(Unseen(t)) \in Nat
  BY UnseenFinite
<1> SUFFICES ASSUME ~overlap'
             PROVE  /\ \A t \in Side : conv'.unread[t] = Cardinality(Unseen(t)')
                    /\ conv'.there => conv'.last = Max(Committed')
  BY DEF SummaryExact
<1>c. ASSUME ~overlap
      PROVE  /\ \A t \in Side : conv.unread[t] = Cardinality(Unseen(t))
             /\ conv.there => conv.last = Max(Committed)
  BY <1>c DEF SummaryExact
<1>d. ~overlap
  <2>1. ASSUME NEW r \in Request, Starts(r) PROVE ~overlap
    <3>1. overlap \in BOOLEAN
      BY DEF TypeOK
    <3> QED
      BY <2>1, <3>1, StartsBegins DEF Begin
  <2>2. ASSUME NEW s \in Status, UpdateStatus(s) PROVE ~overlap
    BY <2>2 DEF UpdateStatus
  <2> QED
    BY <2>1, <2>2, OthersStay, NextCases
<1>1. ASSUME NEW r \in Request, Starts(r) \/ EnsureCreate(r) \/ Insert(r) \/ SeenMark(r) \/ Crash(r),
             NEW t \in Side
      PROVE  conv'.unread[t] = Cardinality(Unseen(t)')
  BY <1>1, <1>c, <1>d, QuietSteps, WelcomeCounts
<1>2. ASSUME NEW r \in Request, Starts(r) \/ EnsureCreate(r) \/ Insert(r) \/ SeenMark(r) \/ Crash(r),
             conv'.there
      PROVE  conv'.last = Max(Committed')
  <2>1. CASE EnsureCreate(r) /\ ~conv.there
    <3>1. msg = <<>> /\ Len(msg) = 0
      BY <1>a, <2>1 DEF OneWelcome
    <3>2. msg' = Append(msg, [from |-> "SYSTEM", state |-> "sent"]) /\ conv'.last = Len(msg')
      BY <1>a, <2>1 DEF EnsureCreate
    <3>3. DOMAIN msg' = {1} /\ msg'[1] = [from |-> "SYSTEM", state |-> "sent"] /\ Len(msg') = 1
      BY <1>a, <3>1, <3>2
    <3>4. msg'[1].state = "sent"
      BY <3>3
    <3>5. Committed' = {1}
      BY <3>3, <3>4 DEF Committed
    <3>6. Max({1}) = 1
      BY MaxIs
    <3> QED
      BY <3>2, <3>3, <3>5, <3>6
  <2>2. CASE conv.there \/ ~EnsureCreate(r)
    <3>1. Committed' = Committed
      BY <1>2, <2>2, QuietSteps
    <3>2. conv' = conv
      BY <1>2, <2>2, MoverAt DEF EnsureCreate, Insert, SeenMark, Crash
    <3> QED
      BY <1>2, <1>c, <1>d, <3>1, <3>2
  <2> QED
    BY <2>1, <2>2
<1>3. ASSUME NEW r \in Request, SendCommit(r), NEW t \in Side
      PROVE  conv'.unread[t] = Cardinality(Unseen(t)')
  BY <1>3, <1>a, <1>b, <1>c, <1>d, SendCounts
<1>4. ASSUME NEW r \in Request, SendCommit(r)
      PROVE  conv'.last = Max(Committed')
  <2> DEFINE n == Len(msg)
  <2>1. n = req[r].new
    BY <1>4, <1>d DEF Alone, SendCommit
  <2>2. PICK side \in Side : side = req[r].side
    BY <1>a DEF RequestState
  <2>3. n \in DOMAIN msg /\ Committed' = Committed \cup {n} /\ conv'.last = n
    BY <1>4, <2>1, <2>2, SendStep
  <2>4. Committed \subseteq 1 .. n
    BY <1>a DEF Committed
  <2> HIDE DEF n
  <2>5. Max(Committed \cup {n}) = n
    <3>1. n \in Nat
      BY <1>a DEF n
    <3> QED
      BY <2>4, <3>1, MaxIs
  <2> QED
    BY <2>3, <2>5
<1>5. ASSUME NEW r \in Request, SeenCommit(r), NEW t \in Side
      PROVE  conv'.unread[t] = Cardinality(Unseen(t)')
  <2>1. CASE t = req[r].side
    <3>1. req[r].snap = Unseen(t)
      BY <1>5, <1>d, <2>1 DEF Alone, SeenCommit
    <3>2. conv'.unread[t] = 0 /\ Unseen(t)' = {}
      BY <1>5, <2>1, <3>1, SeenCounts
    <3> QED
      BY <3>2, FS_EmptySet
  <2>2. CASE t # req[r].side
    BY <1>5, <1>c, <1>d, <2>2, SeenCounts
  <2> QED
    BY <2>1, <2>2
<1>6. ASSUME NEW r \in Request, SeenCommit(r), conv'.there
      PROVE  conv'.last = Max(Committed')
  <2>1. PICK side \in Side : side = req[r].side
    BY <1>a DEF RequestState
  <2>2. PICK snap : snap = req[r].snap
    OBVIOUS
  <2>3. Committed' = Committed /\ conv'.last = conv.last /\ conv'.there = conv.there
    BY <1>6, <2>1, <2>2, SeenStep
  <2> QED
    BY <1>6, <1>c, <1>d, <2>3
<1>7. ASSUME NEW s \in Status, UpdateStatus(s)
      PROVE  /\ \A t \in Side : conv'.unread[t] = Cardinality(Unseen(t)')
             /\ conv'.there => conv'.last = Max(Committed')
  <2>1. conv'.unread = conv.unread /\ conv'.last = conv.last /\ conv'.there = conv.there
    BY <1>7, <1>a DEF UpdateStatus
  <2>2. Committed' = Committed /\ \A t \in Side : Unseen(t)' = Unseen(t)
    BY <1>7 DEF UpdateStatus, Unseen, Committed
  <2> QED
    BY <1>c, <1>d, <2>1, <2>2
<1> QED
  BY <1>1, <1>2, <1>3, <1>4, <1>5, <1>6, <1>7, NextCases

-----------------------------------------------------------------------------
(* The conversation                                                        *)

LEMMA ChatInit == Init => ChatInv
<1> SUFFICES ASSUME Init PROVE ChatInv
  OBVIOUS
<1>1. TypeOK
  BY TypeInit
<1>2. msg = <<>> /\ DOMAIN msg = {} /\ conv.unread = [s \in Side |-> 0] /\ conv.there = FALSE
      /\ \A r \in Request : req[r] = Idle /\ req[r].pc = "idle"
  BY DEF Init, Idle
<1>3. SendOwned /\ MarkOwned /\ Underway /\ Alone /\ OneWelcome
  BY <1>2 DEF SendOwned, MarkOwned, Underway, Alone, OneWelcome
<1>4. \A t \in Side : Unseen(t) = {} /\ conv.unread[t] = 0 /\ Cardinality(Unseen(t)) = 0
  BY <1>2, FS_EmptySet DEF Unseen
<1>5. UnreadNeverOverstates /\ SummaryExact
  BY <1>2, <1>4 DEF UnreadNeverOverstates, SummaryExact, ListedUnread
<1> QED
  BY <1>1, <1>3, <1>5 DEF ChatInv

LEMMA ChatStep == ChatInv /\ [Next]_vars => ChatInv'
<1> SUFFICES ASSUME ChatInv, [Next]_vars PROVE ChatInv'
  OBVIOUS
<1>1. CASE Next
  <2>1. TypeOK'
    BY <1>1, TypeStep DEF ChatInv
  <2> QED
    BY <1>1, <2>1, SendOwnedStep, MarkOwnedStep, UnderwayStep, AloneStep, UnreadStep, WelcomeStep,
       SummaryStep DEF ChatInv
<1>2. CASE UNCHANGED vars
  <2>1. TypeOK' /\ SendOwned' /\ MarkOwned' /\ Underway' /\ OneWelcome'
    BY <1>2 DEF vars, ChatInv, TypeOK, SendOwned, MarkOwned, Underway, OneWelcome
  <2>2. (\A t : Unseen(t)' = Unseen(t)) /\ Committed' = Committed
    BY <1>2 DEF vars, Unseen, Committed
  <2>3. Alone' /\ UnreadNeverOverstates' /\ SummaryExact'
    BY <1>2, <2>2 DEF vars, ChatInv, Alone, UnreadNeverOverstates, SummaryExact, ListedUnread, Unseen
  <2> QED
    BY <2>1, <2>3 DEF ChatInv
<1> QED
  BY <1>1, <1>2

(* Every behaviour of the desk is one of the conversation.                 *)
LEMMA DeskStepsChat == [DeskNext]_<<vars, deskVars>> => [Next]_vars
BY DEF DeskNext, vars, deskVars

LEMMA ChatAlways == DeskSpec => []ChatInv
<1>1. DeskInit => ChatInv
  BY ChatInit DEF DeskInit
<1>2. ChatInv /\ [DeskNext]_<<vars, deskVars>> => ChatInv'
  BY ChatStep, DeskStepsChat
<1> QED
  BY <1>1, <1>2, PTL DEF DeskSpec

(* An unread counter never exceeds the messages its side has to see, and   *)
(* what the inbox lists as unread holds one, whatever requests send and    *)
(* mark at once and wherever they die.                                     *)
THEOREM UnreadAlways == DeskSpec => []UnreadNeverOverstates
<1>1. ChatInv => UnreadNeverOverstates
  BY DEF ChatInv
<1> QED
  BY <1>1, ChatAlways, PTL

(* The user is welcomed once and first, however many first requests are    *)
(* served at once.                                                         *)
THEOREM WelcomeAlways == DeskSpec => []OneWelcome
<1>1. ChatInv => OneWelcome
  BY DEF ChatInv
<1> QED
  BY <1>1, ChatAlways, PTL

(* While requests are served one by one, with crashes anywhere, the        *)
(* counters and the last message of the row are those of its messages.     *)
THEOREM SummaryAlways == DeskSpec => []SummaryExact
<1>1. ChatInv => SummaryExact
  BY DEF ChatInv
<1> QED
  BY <1>1, ChatAlways, PTL

-----------------------------------------------------------------------------
(* The sockets                                                             *)

SocketState ==
  [pc : {"closed", "verifying", "gone", "open"}, side : Side]

LEMMA ClosedTyped == Closed \in SocketState
BY DEF Closed, SocketState, Side

(* The steps of one socket, its counters with it.                          *)
SocketStep(s) ==
  (\E p \in Side : Connect(s, p)) \/ Refused(s) \/ Accepted(s) \/ Disconnect(s)

LEMMA DeskStepCases ==
  ASSUME DeskStep
  PROVE  (\E s \in Socket : SocketStep(s)) \/ Restart
BY DEF DeskStep, SocketStep

LEMMA FreshTyped ==
  ASSUME Restart
  PROVE  /\ socket' \in [Socket -> SocketState] /\ online' \in [Side -> Nat]
         /\ ghosts' \in [Side -> 0 .. MaxGhost]
         /\ \A s \in Socket : socket'[s].pc = "closed"
         /\ \A p \in Side : online'[p] = 0 /\ ghosts'[p] = 0
<1>1. 0 \in 0 .. MaxGhost
  OBVIOUS
<1> QED
  BY <1>1, ClosedTyped DEF Restart, Fresh, Closed

LEMMA OneTracked ==
  ASSUME NEW f \in [Side -> Nat], NEW p \in Side, NEW d \in {-1, 1}
  PROVE  [f EXCEPT ![p] = IF @ + d < 0 THEN 0 ELSE @ + d] \in [Side -> Nat]
<1>1. (IF f[p] + d < 0 THEN 0 ELSE f[p] + d) \in Nat
  OBVIOUS
<1> QED
  BY <1>1

LEMMA DeskTypeStep ==
  ASSUME DeskTypeOK, DeskStep, UNCHANGED vars
  PROVE  DeskTypeOK'
<1>a. /\ socket \in [Socket -> SocketState] /\ online \in [Side -> Nat]
      /\ ghosts \in [Side -> 0 .. MaxGhost]
      /\ TypeOK
  BY DEF DeskTypeOK, SocketState
<1>b. TypeOK'
  BY <1>a DEF vars, TypeOK
<1>1. ASSUME NEW s \in Socket, SocketStep(s) PROVE DeskTypeOK'
  <2> DEFINE Steps(q) == q \in SocketState /\ socket' = [socket EXCEPT ![s] = q]
  <2>a. socket[s] \in SocketState
    BY <1>a
  <2>b. ASSUME NEW q, Steps(q) PROVE socket' \in [Socket -> SocketState]
    BY <1>a, <2>b
  <2>c. ASSUME socket' \in [Socket -> SocketState], online' \in [Side -> Nat],
               ghosts' \in [Side -> 0 .. MaxGhost]
        PROVE  DeskTypeOK'
    BY <1>a, <1>b, <2>c DEF DeskTypeOK, SocketState
  <2>1. ASSUME NEW p \in Side, Connect(s, p) PROVE DeskTypeOK'
    <3>1. Steps([socket[s] EXCEPT !.pc = "verifying", !.side = p])
      BY <2>a, <2>1 DEF Connect, SocketState
    <3> QED
      BY <1>a, <2>b, <2>c, <2>1, <3>1 DEF Connect
  <2>2. CASE Refused(s)
    BY <1>a, <2>b, <2>c, <2>2, ClosedTyped DEF Refused
  <2>3. CASE Accepted(s)
    <3>1. online' \in [Side -> Nat]
      <4>1. socket[s].side \in Side
        BY <2>a DEF SocketState
      <4>2. online' = [online EXCEPT ![socket[s].side] = IF @ + 1 < 0 THEN 0 ELSE @ + 1]
        BY <2>3 DEF Accepted, TrackOnline
      <4> QED
        BY <1>a, <4>1, <4>2, OneTracked
    <3>2. CASE socket[s].pc = "verifying"
      <4>1. Steps([socket[s] EXCEPT !.pc = "open"])
        BY <2>a, <2>3, <3>2 DEF Accepted, SocketState
      <4> QED
        BY <1>a, <2>b, <2>c, <2>3, <3>1, <3>2, <4>1 DEF Accepted
    <3>3. CASE socket[s].pc # "verifying"
      <4>1. /\ ghosts[socket[s].side] < MaxGhost /\ socket[s].side \in Side
            /\ ghosts' = [ghosts EXCEPT ![socket[s].side] = @ + 1]
        BY <2>a, <2>3, <3>3 DEF Accepted, SocketState
      <4>2. ghosts' \in [Side -> 0 .. MaxGhost]
        BY <1>a, <4>1
      <4>3. Steps(Closed)
        BY <2>3, <3>3, ClosedTyped DEF Accepted
      <4> QED
        BY <2>b, <2>c, <3>1, <4>2, <4>3
    <3> QED
      BY <3>2, <3>3
  <2>4. CASE Disconnect(s)
    <3>1. CASE socket[s].pc = "verifying"
      <4>1. Steps([socket[s] EXCEPT !.pc = "gone"])
        BY <2>a, <2>4, <3>1 DEF Disconnect, SocketState
      <4> QED
        BY <1>a, <2>b, <2>c, <2>4, <3>1, <4>1 DEF Disconnect
    <3>2. CASE socket[s].pc # "verifying"
      <4>1. socket[s].side \in Side
        BY <2>a DEF SocketState
      <4>2. online' = [online EXCEPT ![socket[s].side] = IF @ + -1 < 0 THEN 0 ELSE @ + -1]
        BY <2>4, <3>2 DEF Disconnect, TrackOnline
      <4>3. online' \in [Side -> Nat]
        BY <1>a, <4>1, <4>2, OneTracked
      <4>4. Steps(Closed) /\ ghosts' = ghosts
        BY <2>4, <3>2, ClosedTyped DEF Disconnect
      <4> QED
        BY <1>a, <2>b, <2>c, <4>3, <4>4
    <3> QED
      BY <3>1, <3>2
  <2> QED
    BY <1>1, <2>1, <2>2, <2>3, <2>4 DEF SocketStep
<1>2. CASE Restart
  BY <1>a, <1>b, <1>2, FreshTyped DEF DeskTypeOK, SocketState
<1> QED
  BY <1>1, <1>2, DeskStepCases

LEMMA OpenCounted ==
  ASSUME DeskTypeOK, NEW p \in Side, IsFiniteSet(OpenOf(p)), OnlineCounts
  PROVE  /\ online[p] = Cardinality(OpenOf(p)) + ghosts[p]
         /\ Cardinality(OpenOf(p)) \in Nat /\ ghosts[p] \in Nat /\ online[p] \in Nat
BY FS_CardinalityType DEF OnlineCounts, OpenOf, DeskTypeOK

(* Each step of a socket changes the open ones and the count of its side   *)
(* by the same.                                                            *)
LEMMA OnlineStep ==
  ASSUME DeskTypeOK, \A p \in Side : IsFiniteSet(OpenOf(p)), OnlineCounts, DeskStep
  PROVE  (\A p \in Side : IsFiniteSet(OpenOf(p)')) /\ OnlineCounts'
<1>a. socket \in [Socket -> SocketState] /\ online \in [Side -> Nat] /\ ghosts \in [Side -> 0 .. MaxGhost]
  BY DEF DeskTypeOK, SocketState
<1>b. \A p \in Side : /\ online[p] = Cardinality(OpenOf(p)) + ghosts[p]
                      /\ Cardinality(OpenOf(p)) \in Nat /\ ghosts[p] \in Nat /\ online[p] \in Nat
                      /\ IsFiniteSet(OpenOf(p))
  BY OpenCounted
<1> SUFFICES ASSUME NEW p \in Side
             PROVE  IsFiniteSet(OpenOf(p)') /\ online'[p] = Cardinality(OpenOf(p)') + ghosts'[p]
  BY DEF OnlineCounts, OpenOf
<1>c. ASSUME OpenOf(p)' = OpenOf(p), online'[p] = online[p], ghosts'[p] = ghosts[p]
      PROVE  IsFiniteSet(OpenOf(p)') /\ online'[p] = Cardinality(OpenOf(p)') + ghosts'[p]
  BY <1>b, <1>c
<1>d. ASSUME NEW s \in Socket, NEW q, socket' = [socket EXCEPT ![s] = q],
             (q.pc = "open" /\ q.side = p) <=> (socket[s].pc = "open" /\ socket[s].side = p)
      PROVE  OpenOf(p)' = OpenOf(p)
  BY <1>a, <1>d DEF OpenOf
<1>1. ASSUME NEW s \in Socket, SocketStep(s)
      PROVE  IsFiniteSet(OpenOf(p)') /\ online'[p] = Cardinality(OpenOf(p)') + ghosts'[p]
  <2>a. socket[s] \in SocketState
    BY <1>a
  <2>1. ASSUME NEW r \in Side, Connect(s, r)
        PROVE  OpenOf(p)' = OpenOf(p) /\ UNCHANGED <<online, ghosts>>
    <3>1. socket' = [socket EXCEPT ![s] = [socket[s] EXCEPT !.pc = "verifying", !.side = r]]
          /\ UNCHANGED <<online, ghosts>> /\ socket[s] = Closed
      BY <1>a, <2>1 DEF Connect
    <3>2. [socket[s] EXCEPT !.pc = "verifying", !.side = r].pc = "verifying"
      BY <2>a DEF SocketState
    <3>3. socket[s].pc = "closed"
      BY <3>1 DEF Closed
    <3> QED
      BY <1>d, <3>1, <3>2, <3>3
  <2>2. ASSUME Refused(s) PROVE OpenOf(p)' = OpenOf(p) /\ UNCHANGED <<online, ghosts>>
    BY <1>d, <2>2 DEF Refused, Closed
  <2>3. CASE Accepted(s) /\ socket[s].pc = "verifying"
    <3>1. /\ socket' = [socket EXCEPT ![s] = [socket[s] EXCEPT !.pc = "open"]] /\ ghosts' = ghosts
          /\ online' = [online EXCEPT ![socket[s].side] = IF @ + 1 < 0 THEN 0 ELSE @ + 1]
      BY <2>3 DEF Accepted, TrackOnline
    <3>2. [socket[s] EXCEPT !.pc = "open"].pc = "open" /\ [socket[s] EXCEPT !.pc = "open"].side = socket[s].side
      BY <2>a DEF SocketState
    <3>3. CASE p = socket[s].side
      <4>1. OpenOf(p)' = OpenOf(p) \cup {s} /\ s \notin OpenOf(p)
        BY <1>a, <2>3, <3>1, <3>2, <3>3 DEF OpenOf
      <4>2. IsFiniteSet(OpenOf(p)') /\ Cardinality(OpenOf(p)') = Cardinality(OpenOf(p)) + 1
        BY <1>b, <4>1, FS_AddElement
      <4>3. online'[p] = online[p] + 1
        BY <1>a, <1>b, <3>1, <3>3
      <4> QED
        BY <1>b, <3>1, <4>2, <4>3
    <3>4. CASE p # socket[s].side
      BY <1>a, <1>c, <1>d, <3>1, <3>2, <3>4
    <3> QED
      BY <3>3, <3>4
  <2>4. CASE Accepted(s) /\ socket[s].pc # "verifying"
    <3>1. /\ socket' = [socket EXCEPT ![s] = Closed] /\ socket[s].pc = "gone"
          /\ ghosts' = [ghosts EXCEPT ![socket[s].side] = @ + 1]
          /\ online' = [online EXCEPT ![socket[s].side] = IF @ + 1 < 0 THEN 0 ELSE @ + 1]
      BY <2>4 DEF Accepted, TrackOnline
    <3>2. OpenOf(p)' = OpenOf(p)
      BY <1>d, <3>1 DEF Closed
    <3>3. CASE p = socket[s].side
      <4>1. online'[p] = online[p] + 1 /\ ghosts'[p] = ghosts[p] + 1
        BY <1>a, <1>b, <3>1, <3>3
      <4> QED
        BY <1>b, <3>2, <4>1
    <3>4. CASE p # socket[s].side
      BY <1>a, <1>c, <3>1, <3>2, <3>4
    <3> QED
      BY <3>3, <3>4
  <2>5. CASE Disconnect(s) /\ socket[s].pc = "verifying"
    <3>1. /\ socket' = [socket EXCEPT ![s] = [socket[s] EXCEPT !.pc = "gone"]]
          /\ UNCHANGED <<online, ghosts>>
      BY <2>5 DEF Disconnect
    <3>2. [socket[s] EXCEPT !.pc = "gone"].pc = "gone"
      BY <2>a DEF SocketState
    <3> QED
      BY <1>c, <1>d, <2>5, <3>1, <3>2
  <2>6. CASE Disconnect(s) /\ socket[s].pc # "verifying"
    <3>1. /\ socket' = [socket EXCEPT ![s] = Closed] /\ socket[s].pc = "open" /\ ghosts' = ghosts
          /\ online' = [online EXCEPT ![socket[s].side] = IF @ + -1 < 0 THEN 0 ELSE @ + -1]
      BY <2>6 DEF Disconnect, TrackOnline
    <3>2. CASE p = socket[s].side
      <4>1. OpenOf(p)' = OpenOf(p) \ {s} /\ s \in OpenOf(p)
        BY <1>a, <3>1, <3>2 DEF OpenOf, Closed
      <4>2. IsFiniteSet(OpenOf(p)') /\ Cardinality(OpenOf(p)') = Cardinality(OpenOf(p)) - 1
        BY <1>b, <4>1, FS_RemoveElement
      <4>3. Cardinality(OpenOf(p)') \in Nat
        BY <4>2, FS_CardinalityType
      <4>4. online'[p] = IF online[p] + -1 < 0 THEN 0 ELSE online[p] + -1
        BY <1>a, <3>1, <3>2
      <4> QED
        BY <1>b, <3>1, <4>2, <4>3, <4>4
    <3>3. CASE p # socket[s].side
      <4>1. OpenOf(p)' = OpenOf(p)
        BY <1>d, <3>1, <3>3 DEF Closed
      <4> QED
        BY <1>a, <1>c, <3>1, <3>3, <4>1
    <3> QED
      BY <3>2, <3>3
  <2> QED
    BY <1>1, <1>c, <2>1, <2>2, <2>3, <2>4, <2>5, <2>6 DEF SocketStep
<1>2. CASE Restart
  <2>1. OpenOf(p)' = {} /\ online'[p] = 0 /\ ghosts'[p] = 0
    BY <1>2, FreshTyped DEF OpenOf
  <2> QED
    BY <2>1, FS_EmptySet
<1> QED
  BY <1>1, <1>2, DeskStepCases

-----------------------------------------------------------------------------
(* The desk                                                                *)

LEMMA DeskInitInv == DeskInit => DeskInv
<1> SUFFICES ASSUME DeskInit PROVE DeskInv
  OBVIOUS
<1>1. TypeOK
  BY TypeInit DEF DeskInit
<1>2. /\ socket = [s \in Socket |-> Closed]
      /\ online = [p \in Side |-> 0] /\ ghosts = [p \in Side |-> 0]
  BY DEF DeskInit, Fresh
<1>3. 0 \in 0 .. MaxGhost /\ Closed \in SocketState
  BY ClosedTyped
<1>4. DeskTypeOK
  BY <1>1, <1>2, <1>3 DEF DeskTypeOK, SocketState
<1>5. \A p \in Side : OpenOf(p) = {} /\ online[p] = 0 /\ ghosts[p] = 0
  BY <1>2 DEF OpenOf, Closed
<1>6. \A p \in Side : IsFiniteSet(OpenOf(p)) /\ online[p] = Cardinality(OpenOf(p)) + ghosts[p]
  BY <1>5, FS_EmptySet
<1> QED
  BY <1>4, <1>6 DEF DeskInv, OnlineCounts, OpenOf

LEMMA DeskInvStep == ChatInv /\ DeskInv /\ [DeskNext]_<<vars, deskVars>> => DeskInv'
<1> SUFFICES ASSUME ChatInv, DeskInv, [DeskNext]_<<vars, deskVars>> PROVE DeskInv'
  OBVIOUS
<1>1. CASE UNCHANGED deskVars
  <2>1. [Next]_vars
    BY DeskStepsChat
  <2>2. TypeOK'
    BY <2>1, TypeStep DEF ChatInv
  <2>3. DeskTypeOK'
    BY <1>1, <2>2 DEF deskVars, DeskInv, DeskTypeOK
  <2>4. \A p \in Side : OpenOf(p)' = OpenOf(p)
    BY <1>1 DEF deskVars, OpenOf
  <2>5. (\A p \in Side : IsFiniteSet(OpenOf(p)')) /\ OnlineCounts'
    BY <1>1, <2>4 DEF deskVars, DeskInv, OnlineCounts
  <2> QED
    BY <2>3, <2>5 DEF DeskInv
<1>2. CASE DeskStep /\ UNCHANGED vars
  BY <1>2, DeskTypeStep, OnlineStep DEF DeskInv
<1> QED
  BY <1>1, <1>2 DEF DeskNext, deskVars, vars

LEMMA DeskAlways == DeskSpec => []DeskInv
BY DeskInitInv, DeskInvStep, ChatAlways, PTL DEF DeskSpec

(* The rows, requests, sockets and counters keep their types.              *)
THEOREM TypeCorrect == DeskSpec => []DeskTypeOK
<1>1. DeskInv => DeskTypeOK
  BY DEF DeskInv
<1> QED
  BY <1>1, DeskAlways, PTL

(* A side is counted online once for each open socket and each that went   *)
(* while its token was verified; the count is never cut off at zero.       *)
THEOREM OnlineAlways == DeskSpec => []OnlineCounts
<1>1. DeskInv => OnlineCounts
  BY DEF DeskInv
<1> QED
  BY <1>1, DeskAlways, PTL
=============================================================================
