--------------------------- MODULE EntitlementProofs ---------------------------
(***************************************************************************)
(* Proofs about Entitlement, for any groups, episodes, requests, periods   *)
(* and bounds.  Every write that names a group finds it there, in the same *)
(* statement or transaction; an extension writes no less than it read; and *)
(* only a review that found a request pending writes to it.                *)
(***************************************************************************)
EXTENDS Entitlement, FiniteSetTheorems, TLAPS

-----------------------------------------------------------------------------
(* The inductive invariant                                                 *)

(* An extension in hand is of a subscription that is there, and no shorter *)
(* than what was read of it.                                               *)
ExtensionGrows ==
  \A r \in Request : req[r].op = "extend" =>
    req[r].row \in DOMAIN sub /\ req[r].seen <= req[r].period.to

IInv == TypeOK /\ ExtensionGrows /\ DeletedGroupIsGone

USE EntitlementAssumption DEF EntitlementAssumption

-----------------------------------------------------------------------------
(* Types                                                                   *)

SubRow == [period : Period, status : {"ACTIVE", "CANCELLED"}]
MemberRow == [period : Period, revoked : BOOLEAN]
GrantRow == [ep : Episode, to : Group \cup {None}, period : Period,
             status : {"ACTIVE", "REVOKED", "gone"}]
AskRow == [group : Group \cup {None}, paid : Nat, status : {"pending", "approved", "rejected"}]
RequestState == [op : {"none", "subscribe", "extend", "approve", "reject"},
                 row : Nat, seen : Nat, period : Period, group : Group \cup {None}]

LEMMA Types ==
  TypeOK <=> /\ now \in Time /\ sub \in Seq(SubRow)
             /\ group \in [Group -> {"none", "there", "gone"}]
             /\ member \in [Group -> MemberRow \cup {None}]
             /\ grant \in Seq(GrantRow) /\ ask \in Seq(AskRow)
             /\ req \in [Request -> RequestState]
BY DEF TypeOK, SubRow, MemberRow, GrantRow, AskRow, RequestState

LEMMA RowsTyped ==
  ASSUME TypeOK
  PROVE  /\ \A s \in DOMAIN sub : sub[s] \in SubRow
         /\ \A n \in DOMAIN grant : grant[n] \in GrantRow
         /\ \A q \in DOMAIN ask : ask[q] \in AskRow
         /\ DOMAIN sub = 1 .. Len(sub) /\ Len(sub) \in Nat
         /\ DOMAIN grant = 1 .. Len(grant) /\ Len(grant) \in Nat
         /\ DOMAIN ask = 1 .. Len(ask) /\ Len(ask) \in Nat
BY Types

LEMMA IdleTyped == Idle \in RequestState
BY DEF Idle, RequestState, Period

LEMMA TypeInit == Init => TypeOK
<1> SUFFICES ASSUME Init PROVE TypeOK
  OBVIOUS
<1>1. now \in Time /\ sub \in Seq(SubRow) /\ grant \in Seq(GrantRow) /\ ask \in Seq(AskRow)
  BY DEF Init, Time
<1>2. /\ group \in [Group -> {"none", "there", "gone"}] /\ member \in [Group -> MemberRow \cup {None}]
      /\ req \in [Request -> RequestState]
  BY IdleTyped DEF Init
<1> QED
  BY <1>1, <1>2, Types

(* The steps of the API's requests, and of staff and time.                 *)
Reads(r) ==
  \/ \E d \in Days : SubscribeRead(r, d) \/ \E s \in 1 .. MaxSub : ExtendRead(r, s, d)
  \/ \E q \in 1 .. MaxAsk, op \in {"approve", "reject"}, p \in Window : ReviewRead(r, q, op, p)

Writes(r) == SubscribeWrite(r) \/ ExtendWrite(r) \/ Approve(r) \/ Reject(r) \/ Crash(r)

StaffOnGroup(g) ==
  CreateGroup(g) \/ DeleteGroup(g) \/ RemoveMember(g) \/ \E p \in Window : AddMember(g, p)

Others ==
  \/ \E s \in 1 .. MaxSub : Cancel(s)
  \/ \E g \in Group \cup {None} : CreateSubscriptionRequest(g)
  \/ \E es \in SUBSET Episode \ {{}}, g \in Group \cup {None}, p \in Window : GrantEpisodes(es, g, p)
  \/ \E n \in 1 .. MaxGrant : RevokeGrant(n)
  \/ Tick

LEMMA NextCases ==
  Next <=> \/ \E r \in Request : Reads(r) \/ Writes(r)
           \/ \E g \in Group : StaffOnGroup(g)
           \/ Others
BY DEF Next, Reads, Writes, StaffOnGroup, Others

(* A read takes an idle request up and changes nothing else.               *)
LEMMA ReadBegins ==
  ASSUME TypeOK, NEW r \in Request, Reads(r)
  PROVE  /\ UNCHANGED <<now, sub, group, member, grant, ask>>
         /\ req[r] = Idle
         /\ req'[r] \in RequestState /\ req' = [req EXCEPT ![r] = req'[r]]
         /\ req'[r].op = "extend" =>
              /\ req'[r].row \in DOMAIN sub /\ req'[r].seen <= req'[r].period.to
         /\ req'[r].op \in {"approve", "reject"} =>
              /\ req'[r].row \in DOMAIN ask /\ ask[req'[r].row].status = "pending"
<1>a. req \in [Request -> RequestState] /\ now \in Nat /\ Days \subseteq Nat
  BY Types DEF Time
<1>b. ASSUME NEW q \in RequestState, Begin(r, q)
      PROVE  req[r] = Idle /\ req'[r] = q /\ req' = [req EXCEPT ![r] = q]
  BY <1>a, <1>b DEF Begin
<1> DEFINE Good(q) ==
      /\ q \in RequestState
      /\ q.op = "extend" => q.row \in DOMAIN sub /\ q.seen <= q.period.to
      /\ q.op \in {"approve", "reject"} => q.row \in DOMAIN ask /\ ask[q.row].status = "pending"
<1> SUFFICES /\ UNCHANGED <<now, sub, group, member, grant, ask>>
             /\ \E q : Good(q) /\ Begin(r, q)
  BY <1>b
<1>1. ASSUME NEW d \in Days, SubscribeRead(r, d)
      PROVE  UNCHANGED <<now, sub, group, member, grant, ask>> /\ \E q : Good(q) /\ Begin(r, q)
  <2> DEFINE ends == {sub[s].period.to : s \in {t \in DOMAIN sub :
                        sub[t].status = "ACTIVE" /\ sub[t].period.to > now}}
             q(t) == [Idle EXCEPT !.op = "subscribe", !.period = [from |-> t, to |-> t + d]]
  <2>1. PICK start \in ends \cup {now} : Begin(r, q(start))
    BY <1>1 DEF SubscribeRead
  <2>2. ends \subseteq Nat
    BY RowsTyped DEF SubRow, Period
  <2>3. start \in Nat /\ start + d \in Nat
    BY <1>a, <2>1, <2>2
  <2>4. Good(q(start))
    BY <2>3, IdleTyped DEF RequestState, Period
  <2> QED
    BY <1>1, <2>1, <2>4 DEF SubscribeRead, Access
<1>2. ASSUME NEW d \in Days, NEW s \in 1 .. MaxSub, ExtendRead(r, s, d)
      PROVE  UNCHANGED <<now, sub, group, member, grant, ask>> /\ \E q : Good(q) /\ Begin(r, q)
  <2> DEFINE end == sub[s].period.to
             t == Later(end, now) + d
             q == [Idle EXCEPT !.op = "extend", !.row = s, !.seen = end, !.period.to = t]
             p == [Idle.period EXCEPT !.to = t]
             u == [Idle EXCEPT !.op = "extend", !.row = s, !.seen = end, !.period = p]
  <2>1. s \in DOMAIN sub /\ Begin(r, q)
    BY <1>2 DEF ExtendRead
  <2>2. end \in Nat
    BY <2>1, RowsTyped DEF SubRow, Period
  <2>3. t \in Nat /\ end <= t /\ s \in Nat
    BY <1>a, <2>2 DEF Later
  <2> HIDE DEF end, t
  <2>4. Begin(r, u)
    BY <2>1
  <2>5. p \in Period /\ p.to = t
    BY <2>3, IdleTyped DEF RequestState, Period
  <2> HIDE DEF p
  <2>6. u \in RequestState /\ u.op = "extend" /\ u.row = s /\ u.seen = end /\ u.period = p
    BY <2>2, <2>3, <2>5, IdleTyped DEF RequestState
  <2>7. Good(u)
    BY <2>1, <2>3, <2>5, <2>6
  <2> QED
    BY <1>2, <2>4, <2>7 DEF ExtendRead, Access
<1>3. ASSUME NEW n \in 1 .. MaxAsk, NEW op \in {"approve", "reject"}, NEW p \in Window, ReviewRead(r, n, op, p)
      PROVE  UNCHANGED <<now, sub, group, member, grant, ask>> /\ \E q : Good(q) /\ Begin(r, q)
  <2> DEFINE q == [Idle EXCEPT !.op = op, !.row = n, !.period = p, !.group = ask[n].group]
  <2>1. n \in DOMAIN ask /\ ask[n].status = "pending" /\ Begin(r, q)
    BY <1>3 DEF ReviewRead
  <2>2. ask[n].group \in Group \cup {None} /\ n \in Nat /\ p \in Period
    BY <2>1, RowsTyped DEF AskRow, Period
  <2>3. q \in RequestState /\ q.op = op /\ q.row = n
    BY <2>2, IdleTyped DEF RequestState
  <2>4. Good(q)
    BY <2>1, <2>3
  <2> QED
    BY <1>3, <2>1, <2>4 DEF ReviewRead, Access
<1> QED
  BY <1>1, <1>2, <1>3 DEF Reads

LEMMA WriteFinishes ==
  ASSUME TypeOK, NEW r \in Request, Writes(r)
  PROVE  /\ req' = [req EXCEPT ![r] = Idle] /\ req'[r] = Idle
         /\ UNCHANGED <<now, group, grant>>
BY Types DEF Writes, SubscribeWrite, ExtendWrite, Approve, Reject, Crash, Finish, Access

(* The extended row: active, from where it was, to where the request says. *)
LEMMA ExtendedRow ==
  ASSUME TypeOK, ExtensionGrows, NEW r \in Request, ExtendWrite(r)
  PROVE  /\ sub' \in Seq(SubRow) /\ DOMAIN sub' = DOMAIN sub
         /\ \A j \in DOMAIN sub :
              IF j = req[r].row
              THEN /\ sub'[j].status = "ACTIVE" /\ sub'[j].period.from = sub[j].period.from
                   /\ sub'[j].period.to = req[r].period.to /\ req[r].seen <= req[r].period.to
              ELSE sub'[j] = sub[j]
<1> DEFINE i == req[r].row
           t == req[r].period.to
           p == [sub[i].period EXCEPT !.to = t]
           y == [sub[i] EXCEPT !.period = p]
           z == [y EXCEPT !.status = "ACTIVE"]
           x == [sub EXCEPT ![i].period.to = t]
<1>1. /\ i \in DOMAIN sub /\ sub[i] \in SubRow /\ sub \in Seq(SubRow) /\ req[r] \in RequestState
      /\ req[r].seen <= t
  BY RowsTyped, Types DEF ExtensionGrows, ExtendWrite
<1>2. t \in Nat
  BY <1>1 DEF RequestState, Period
<1>3. sub' = [x EXCEPT ![i].status = "ACTIVE"]
  BY DEF ExtendWrite
<1>4. x = [sub EXCEPT ![i] = y]
  OBVIOUS
<1> HIDE DEF i, t, x
<1>5. p \in Period /\ p.from = sub[i].period.from /\ p.to = t
  BY <1>1, <1>2 DEF SubRow, Period
<1> HIDE DEF p
<1>6. y \in SubRow /\ y.period = p
  BY <1>1, <1>5 DEF SubRow
<1> HIDE DEF y
<1>7. z \in SubRow /\ z.period = p /\ z.status = "ACTIVE"
  BY <1>6 DEF SubRow
<1>8. sub' = [x EXCEPT ![i] = z] /\ x[i] = y
  BY <1>1, <1>3, <1>4
<1> HIDE DEF z
<1>9. /\ sub' \in Seq(SubRow) /\ DOMAIN sub' = DOMAIN sub /\ sub'[i] = z
      /\ \A j \in DOMAIN sub : j # i => sub'[j] = sub[j]
  BY <1>1, <1>4, <1>6, <1>7, <1>8
<1> QED
  BY <1>1, <1>5, <1>7, <1>9 DEF i, t

(* A subscription added behind the others.                                 *)
LEMMA AddedSub ==
  ASSUME TypeOK, NEW p \in Period, AddSub(p)
  PROVE  sub' \in Seq(SubRow) /\ \A s \in DOMAIN sub : s \in DOMAIN sub' /\ sub'[s] = sub[s]
<1>1. [period |-> p, status |-> "ACTIVE"] \in SubRow /\ sub \in Seq(SubRow)
  BY Types DEF SubRow
<1> QED
  BY <1>1 DEF AddSub

(* What a write does to the subscriptions: they are only added, but for    *)
(* the row of an extension.                                                *)
LEMMA WriteSubs ==
  ASSUME TypeOK, ExtensionGrows, NEW r \in Request, Writes(r)
  PROVE  /\ sub' \in Seq(SubRow) /\ DOMAIN sub \subseteq DOMAIN sub'
         /\ ~ExtendWrite(r) => \A s \in DOMAIN sub : sub'[s] = sub[s]
<1>a. req[r].period \in Period /\ sub \in Seq(SubRow)
  BY Types DEF RequestState
<1>1. CASE SubscribeWrite(r)
  BY <1>a, <1>1, AddedSub DEF SubscribeWrite
<1>2. CASE ExtendWrite(r)
  BY <1>2, ExtendedRow
<1>3. CASE Approve(r)
  BY <1>a, <1>3, AddedSub DEF Approve
<1>4. CASE Reject(r) \/ Crash(r)
  BY <1>a, <1>4 DEF Reject, Crash
<1> QED
  BY <1>1, <1>2, <1>3, <1>4 DEF Writes

(* What a write does to the request it reviews, and to no other.           *)
LEMMA WriteAsks ==
  ASSUME TypeOK, NEW r \in Request, Writes(r)
  PROVE  /\ ask' \in Seq(AskRow) /\ DOMAIN ask' = DOMAIN ask
         /\ \A q \in DOMAIN ask : ask'[q].group = ask[q].group
         /\ \A q \in DOMAIN ask :
              ~(req[r].op \in {"approve", "reject"} /\ req[r].row = q) => ask'[q] = ask[q]
<1>a. ask \in Seq(AskRow) /\ \A q \in DOMAIN ask : ask[q] \in AskRow
  BY Types, RowsTyped
<1> DEFINE i == req[r].row
<1>1. ASSUME NEW a \in AskRow, i \in DOMAIN ask => a.group = ask[i].group, ask' = [ask EXCEPT ![i] = a]
      PROVE  /\ ask' \in Seq(AskRow) /\ DOMAIN ask' = DOMAIN ask
             /\ \A q \in DOMAIN ask : ask'[q].group = ask[q].group
             /\ \A q \in DOMAIN ask : i # q => ask'[q] = ask[q]
  <2> HIDE DEF i
  <2>1. ask' \in Seq(AskRow)
    <3>1. Len(ask) \in Nat /\ ask \in [1 .. Len(ask) -> AskRow]
      BY <1>a
    <3>2. ask' \in [1 .. Len(ask) -> AskRow]
      BY <1>1, <3>1
    <3> QED
      BY <3>1, <3>2
  <2>3. DOMAIN ask' = DOMAIN ask
    BY <1>1
  <2>2. \A q \in DOMAIN ask : ask'[q] = IF q = i THEN a ELSE ask[q]
    BY <1>a, <1>1
  <2> QED
    BY <1>1, <2>1, <2>2, <2>3
<1>2. ASSUME NEW v \in {"approved", "rejected"}, ask' = [ask EXCEPT ![i].status = v], i \in DOMAIN ask
      PROVE  \E a \in AskRow : a.group = ask[i].group /\ ask' = [ask EXCEPT ![i] = a]
  <2>1. LET a == [ask[i] EXCEPT !.status = v] IN a \in AskRow /\ a.group = ask[i].group
    BY <1>a, <1>2 DEF AskRow
  <2> QED
    BY <1>2, <2>1
<1>3. ASSUME ask' = [ask EXCEPT ![i].status = "approved", ![i].paid = @ + 1], i \in DOMAIN ask
      PROVE  \E a \in AskRow : a.group = ask[i].group /\ ask' = [ask EXCEPT ![i] = a]
  <2> DEFINE a == [ask[i] EXCEPT !.status = "approved"]
             b == [a EXCEPT !.paid = a.paid + 1]
             x == [ask EXCEPT ![i].status = "approved"]
  <2>1. a \in AskRow /\ a.group = ask[i].group
    BY <1>a, <1>3 DEF AskRow
  <2>2. x = [ask EXCEPT ![i] = a] /\ ask' = [x EXCEPT ![i].paid = @ + 1]
    BY <1>3
  <2> HIDE DEF a, x
  <2>3. b \in AskRow /\ b.group = ask[i].group
    BY <2>1 DEF AskRow
  <2>4. x[i] = a
    BY <1>3, <2>2
  <2>5. ask' = [x EXCEPT ![i] = b]
    BY <2>2, <2>4
  <2> HIDE DEF b
  <2>6. ask' = [ask EXCEPT ![i] = b]
    BY <2>2, <2>5
  <2> QED
    BY <2>3, <2>6
<1>4. CASE UNCHANGED ask
  BY <1>a, <1>4
<1>5. CASE Approve(r) \/ Reject(r)
  <2>1. req[r].op \in {"approve", "reject"}
    BY <1>5 DEF Approve, Reject
  <2>2. CASE i \in DOMAIN ask
    <3>1. UNCHANGED ask \/ \E a \in AskRow : a.group = ask[i].group /\ ask' = [ask EXCEPT ![i] = a]
      BY <1>2, <1>3, <1>5, <2>2 DEF Approve, Reject
    <3> QED
      BY <1>1, <1>4, <2>1, <2>2, <3>1
  <2>3. CASE i \notin DOMAIN ask
    <3>1. UNCHANGED ask
      BY <1>a, <1>5, <2>3 DEF Approve, Reject
    <3> QED
      BY <1>4, <3>1
  <2> QED
    BY <2>2, <2>3
<1> QED
  BY <1>4, <1>5 DEF Writes, SubscribeWrite, ExtendWrite, Crash

LEMMA WriteMembers ==
  ASSUME TypeOK, NEW r \in Request, Writes(r)
  PROVE  /\ member' \in [Group -> MemberRow \cup {None}]
         /\ \A g \in Group : group[g] # "there" => member'[g] = member[g]
<1>a. /\ member \in [Group -> MemberRow \cup {None}] /\ req[r].period \in Period
      /\ req[r].group \in Group \cup {None}
  BY Types DEF RequestState
<1>1. CASE UNCHANGED member
  BY <1>a, <1>1
<1>2. CASE req[r].group \in Open /\ req[r].group # None /\ Join(req[r].group, req[r].period)
  <2>1. [period |-> req[r].period, revoked |-> FALSE] \in MemberRow
    BY <1>a DEF MemberRow
  <2> QED
    BY <1>a, <1>2, <2>1 DEF Join, Open
<1> QED
  BY <1>1, <1>2 DEF Writes, SubscribeWrite, ExtendWrite, Approve, Reject, Crash, Access

-----------------------------------------------------------------------------
(* Staff on a group: what each step does to its members, grants, requests. *)
LEMMA StaffTyped ==
  ASSUME TypeOK, NEW g \in Group, StaffOnGroup(g)
  PROVE  /\ group' \in [Group -> {"none", "there", "gone"}]
         /\ member' \in [Group -> MemberRow \cup {None}]
         /\ grant' \in Seq(GrantRow) /\ ask' \in Seq(AskRow)
         /\ DOMAIN ask' = DOMAIN ask
         /\ \A q \in DOMAIN ask : ask'[q].status = ask[q].status /\ ask'[q].paid = ask[q].paid
         /\ UNCHANGED <<now, sub, req>>
<1>a. /\ group \in [Group -> {"none", "there", "gone"}] /\ member \in [Group -> MemberRow \cup {None}]
      /\ grant \in Seq(GrantRow) /\ ask \in Seq(AskRow)
      /\ \A n \in DOMAIN grant : grant[n] \in GrantRow
      /\ \A q \in DOMAIN ask : ask[q] \in AskRow
      /\ DOMAIN grant = 1 .. Len(grant) /\ Len(grant) \in Nat
      /\ DOMAIN ask = 1 .. Len(ask) /\ Len(ask) \in Nat
  BY Types, RowsTyped
<1>1. CASE CreateGroup(g)
  BY <1>a, <1>1 DEF CreateGroup
<1>2. CASE DeleteGroup(g)
  <2>1. group' \in [Group -> {"none", "there", "gone"}] /\ member' \in [Group -> MemberRow \cup {None}]
    BY <1>a, <1>2 DEF DeleteGroup
  <2>2. grant' \in Seq(GrantRow)
    <3>1. \A n \in 1 .. Len(grant) :
            (IF grant[n].to = g THEN [grant[n] EXCEPT !.status = "gone"] ELSE grant[n]) \in GrantRow
      BY <1>a DEF GrantRow
    <3> QED
      BY <1>a, <1>2, <3>1 DEF DeleteGroup
  <2>3. ask' \in Seq(AskRow) /\ DOMAIN ask' = DOMAIN ask
    <3>1. \A q \in 1 .. Len(ask) :
            (IF ask[q].group = g THEN [ask[q] EXCEPT !.group = None] ELSE ask[q]) \in AskRow
      BY <1>a DEF AskRow
    <3> QED
      BY <1>a, <1>2, <3>1 DEF DeleteGroup
  <2>4. \A q \in DOMAIN ask : ask'[q].status = ask[q].status /\ ask'[q].paid = ask[q].paid
    <3>1. \A q \in DOMAIN ask : /\ [ask[q] EXCEPT !.group = None].status = ask[q].status
                                /\ [ask[q] EXCEPT !.group = None].paid = ask[q].paid
      BY <1>a DEF AskRow
    <3> QED
      BY <1>2, <3>1 DEF DeleteGroup
  <2> QED
    BY <1>2, <2>1, <2>2, <2>3, <2>4 DEF DeleteGroup
<1>3. ASSUME NEW p \in Window, AddMember(g, p)
      PROVE  member' \in [Group -> MemberRow \cup {None}] /\ UNCHANGED <<now, sub, group, grant, ask, req>>
  <2>1. [period |-> p, revoked |-> FALSE] \in MemberRow
    BY DEF MemberRow, Period
  <2> QED
    BY <1>a, <1>3, <2>1 DEF AddMember, Join
<1>4. CASE RemoveMember(g)
  <2>1. [member[g] EXCEPT !.revoked = TRUE] \in MemberRow
    BY <1>a, <1>4 DEF RemoveMember, MemberRow
  <2> QED
    BY <1>a, <1>4, <2>1 DEF RemoveMember
<1> QED
  BY <1>a, <1>1, <1>2, <1>3, <1>4 DEF StaffOnGroup

(* The remaining steps: rows are added or change their status.             *)
LEMMA OthersTyped ==
  ASSUME TypeOK, Others
  PROVE  /\ now' \in Time /\ sub' \in Seq(SubRow) /\ grant' \in Seq(GrantRow) /\ ask' \in Seq(AskRow)
         /\ DOMAIN sub' = DOMAIN sub /\ DOMAIN ask \subseteq DOMAIN ask'
         /\ \A q \in DOMAIN ask : ask'[q] = ask[q]
         /\ UNCHANGED <<group, member, req>>
<1>a. /\ now \in Time /\ sub \in Seq(SubRow) /\ grant \in Seq(GrantRow) /\ ask \in Seq(AskRow)
      /\ \A s \in DOMAIN sub : sub[s] \in SubRow
      /\ \A n \in DOMAIN grant : grant[n] \in GrantRow
  BY Types, RowsTyped
<1>1. ASSUME NEW s \in 1 .. MaxSub, Cancel(s)
      PROVE  /\ sub' \in Seq(SubRow) /\ DOMAIN sub' = DOMAIN sub
             /\ UNCHANGED <<now, group, member, grant, ask, req>>
  <2>1. [sub[s] EXCEPT !.status = "CANCELLED"] \in SubRow
    BY <1>a, <1>1 DEF Cancel, SubRow
  <2> QED
    BY <1>a, <1>1, <2>1 DEF Cancel, Access
<1>2. ASSUME NEW g \in Group \cup {None}, CreateSubscriptionRequest(g)
      PROVE  /\ ask' \in Seq(AskRow) /\ DOMAIN ask \subseteq DOMAIN ask'
             /\ \A q \in DOMAIN ask : ask'[q] = ask[q]
             /\ UNCHANGED <<now, sub, group, member, grant, req>>
  <2>1. [group |-> g, paid |-> 0, status |-> "pending"] \in AskRow
    BY DEF AskRow
  <2> QED
    BY <1>a, <1>2, <2>1 DEF CreateSubscriptionRequest, Access
<1>3. ASSUME NEW es \in SUBSET Episode \ {{}}, NEW g \in Group \cup {None}, NEW p \in Window,
             GrantEpisodes(es, g, p)
      PROVE  grant' \in Seq(GrantRow) /\ UNCHANGED <<now, sub, group, member, ask, req>>
  <2> DEFINE rows == {[ep |-> e, to |-> g, period |-> p, status |-> "ACTIVE"] : e \in es}
             k == Cardinality(es)
  <2>1. rows \subseteq GrantRow
    BY DEF GrantRow, Period
  <2>2. k \in Nat
    BY FS_Subset, FS_CardinalityType
  <2>3. PICK s \in [1 .. k -> rows] : grant' = grant \o s
    BY <1>3 DEF GrantEpisodes
  <2> HIDE DEF rows, k
  <2>4. s \in Seq(GrantRow)
    BY <2>1, <2>2, <2>3
  <2> QED
    BY <1>a, <1>3, <2>3, <2>4 DEF GrantEpisodes
<1>4. ASSUME NEW n \in 1 .. MaxGrant, RevokeGrant(n)
      PROVE  grant' \in Seq(GrantRow) /\ UNCHANGED <<now, sub, group, member, ask, req>>
  <2>1. [grant[n] EXCEPT !.status = "REVOKED"] \in GrantRow
    BY <1>a, <1>4 DEF RevokeGrant, GrantRow
  <2> QED
    BY <1>a, <1>4, <2>1 DEF RevokeGrant
<1>5. CASE Tick
  BY <1>a, <1>5 DEF Tick, Time, Access
<1> QED
  BY <1>a, <1>1, <1>2, <1>3, <1>4, <1>5 DEF Others

LEMMA TypeStep ==
  ASSUME TypeOK, ExtensionGrows, [Next]_vars
  PROVE  TypeOK'
<1>b. TypeOK' <=> /\ now' \in Time /\ sub' \in Seq(SubRow)
                  /\ group' \in [Group -> {"none", "there", "gone"}]
                  /\ member' \in [Group -> MemberRow \cup {None}]
                  /\ grant' \in Seq(GrantRow) /\ ask' \in Seq(AskRow)
                  /\ req' \in [Request -> RequestState]
  BY DEF TypeOK, SubRow, MemberRow, GrantRow, AskRow, RequestState
<1>a. /\ now \in Time /\ sub \in Seq(SubRow) /\ group \in [Group -> {"none", "there", "gone"}]
      /\ member \in [Group -> MemberRow \cup {None}] /\ grant \in Seq(GrantRow)
      /\ ask \in Seq(AskRow) /\ req \in [Request -> RequestState]
  BY Types
<1>1. ASSUME NEW r \in Request, Reads(r) PROVE TypeOK'
  <2>1. /\ UNCHANGED <<now, sub, group, member, grant, ask>>
        /\ req'[r] \in RequestState /\ req' = [req EXCEPT ![r] = req'[r]]
    BY <1>1, ReadBegins
  <2>2. req' \in [Request -> RequestState]
    BY <1>a, <2>1
  <2> QED
    BY <1>a, <2>1, <2>2, <1>b
<1>2. ASSUME NEW r \in Request, Writes(r) PROVE TypeOK'
  <2>1. req' \in [Request -> RequestState] /\ UNCHANGED <<now, group, grant>>
    BY <1>a, <1>2, WriteFinishes, IdleTyped
  <2>2. /\ sub' \in Seq(SubRow) /\ ask' \in Seq(AskRow)
        /\ member' \in [Group -> MemberRow \cup {None}]
    BY <1>2, WriteSubs, WriteAsks, WriteMembers
  <2> QED
    BY <1>a, <2>1, <2>2, <1>b
<1>3. ASSUME NEW g \in Group, StaffOnGroup(g) PROVE TypeOK'
  BY <1>a, <1>3, StaffTyped, <1>b
<1>4. CASE Others
  BY <1>a, <1>4, OthersTyped, <1>b
<1>5. CASE UNCHANGED vars
  BY <1>a, <1>5, <1>b DEF vars
<1> QED
  BY <1>1, <1>2, <1>3, <1>4, <1>5, NextCases

-----------------------------------------------------------------------------
(* Extensions in hand                                                      *)

LEMMA ExtensionStep ==
  ASSUME TypeOK, ExtensionGrows, [Next]_vars
  PROVE  ExtensionGrows'
<1>a. req \in [Request -> RequestState]
  BY Types
<1> SUFFICES ASSUME NEW o \in Request, req'[o].op = "extend"
             PROVE  req'[o].row \in DOMAIN sub' /\ req'[o].seen <= req'[o].period.to
  BY DEF ExtensionGrows
<1>b. req[o].op = "extend" => req[o].row \in DOMAIN sub /\ req[o].seen <= req[o].period.to
  BY DEF ExtensionGrows
<1>1. ASSUME NEW r \in Request, Reads(r)
      PROVE  req'[o].row \in DOMAIN sub' /\ req'[o].seen <= req'[o].period.to
  <2>1. CASE o = r
    BY <1>1, <2>1, ReadBegins
  <2>2. CASE o # r
    <3>1. req' = [req EXCEPT ![r] = req'[r]] /\ sub' = sub
      BY <1>1, ReadBegins
    <3>2. req'[o] = req[o]
      BY <1>a, <2>2, <3>1
    <3> QED
      BY <1>b, <3>1, <3>2
  <2> QED
    BY <2>1, <2>2
<1>2. ASSUME NEW r \in Request, Writes(r)
      PROVE  req'[o].row \in DOMAIN sub' /\ req'[o].seen <= req'[o].period.to
  <2>1. req' = [req EXCEPT ![r] = Idle] /\ req'[r] = Idle /\ DOMAIN sub \subseteq DOMAIN sub'
    BY <1>2, WriteFinishes, WriteSubs
  <2>2. o # r
    BY <2>1 DEF Idle
  <2>3. req'[o] = req[o]
    BY <1>a, <2>1, <2>2
  <2> QED
    BY <1>b, <2>1, <2>3
<1>3. ASSUME NEW g \in Group, StaffOnGroup(g)
      PROVE  req'[o].row \in DOMAIN sub' /\ req'[o].seen <= req'[o].period.to
  BY <1>b, <1>3, StaffTyped
<1>4. CASE Others
  BY <1>b, <1>4, OthersTyped
<1>5. CASE UNCHANGED vars
  BY <1>b, <1>5 DEF vars
<1> QED
  BY <1>1, <1>2, <1>3, <1>4, <1>5, NextCases

-----------------------------------------------------------------------------
(* Deleted groups                                                          *)

(* What is left of group h in members, grants and requests: nothing.       *)
Nothing(h) ==
  /\ member[h] = None
  /\ \A n \in DOMAIN grant : grant[n].to = h => grant[n].status = "gone"
  /\ \A q \in DOMAIN ask : ask[q].group # h

LEMMA StaffOnGone ==
  ASSUME TypeOK, NEW h \in Group, group[h] = "gone" => Nothing(h),
         NEW g \in Group, StaffOnGroup(g), group'[h] = "gone"
  PROVE  Nothing(h)'
<1>a. /\ group \in [Group -> {"none", "there", "gone"}] /\ member \in [Group -> MemberRow \cup {None}]
      /\ \A n \in DOMAIN grant : grant[n] \in GrantRow
      /\ \A q \in DOMAIN ask : ask[q] \in AskRow
  BY Types, RowsTyped
<1>1. CASE CreateGroup(g)
  BY <1>a, <1>1 DEF CreateGroup, Nothing
<1>2. CASE DeleteGroup(g)
  <2>1. \A n \in DOMAIN grant : grant'[n] = IF grant[n].to = g THEN [grant[n] EXCEPT !.status = "gone"] ELSE grant[n]
    BY <1>2 DEF DeleteGroup
  <2>2. \A n \in DOMAIN grant : grant'[n].to = grant[n].to
    BY <1>a, <2>1 DEF GrantRow
  <2>3. \A n \in DOMAIN grant : grant[n].to = g \/ grant[n].status = "gone" => grant'[n].status = "gone"
    BY <1>a, <2>1 DEF GrantRow
  <2>4. \A q \in DOMAIN ask : ask'[q] = IF ask[q].group = g THEN [ask[q] EXCEPT !.group = None] ELSE ask[q]
    BY <1>2 DEF DeleteGroup
  <2>5. \A q \in DOMAIN ask : ask'[q].group # g /\ (ask'[q].group = ask[q].group \/ ask'[q].group = None)
    BY <1>a, <2>4 DEF AskRow
  <2>6. /\ DOMAIN grant' = DOMAIN grant /\ DOMAIN ask' = DOMAIN ask
        /\ member' = [member EXCEPT ![g] = None] /\ (h # g => group[h] = "gone")
    BY <1>a, <1>2 DEF DeleteGroup
  <2>7. CASE h = g
    BY <1>a, <2>2, <2>3, <2>5, <2>6, <2>7 DEF Nothing
  <2>8. CASE h # g
    BY <1>a, <2>2, <2>3, <2>5, <2>6, <2>8 DEF Nothing
  <2> QED
    BY <2>7, <2>8
<1>3. ASSUME NEW p \in Window, AddMember(g, p) PROVE Nothing(h)'
  BY <1>a, <1>3 DEF AddMember, Join, Nothing
<1>4. CASE RemoveMember(g)
  BY <1>a, <1>4 DEF RemoveMember, Nothing
<1> QED
  BY <1>1, <1>2, <1>3, <1>4 DEF StaffOnGroup

LEMMA OthersOnGone ==
  ASSUME TypeOK, NEW h \in Group, group[h] = "gone", Nothing(h), Others
  PROVE  Nothing(h)'
<1>a. /\ grant \in Seq(GrantRow) /\ ask \in Seq(AskRow)
      /\ \A n \in DOMAIN grant : grant[n] \in GrantRow
  BY Types, RowsTyped
<1>1. ASSUME NEW s \in 1 .. MaxSub, Cancel(s) PROVE Nothing(h)'
  BY <1>1 DEF Cancel, Access, Nothing
<1>2. ASSUME NEW g \in Group \cup {None}, CreateSubscriptionRequest(g) PROVE Nothing(h)'
  <2>1. g # h
    BY <1>2 DEF CreateSubscriptionRequest, Open
  <2> QED
    BY <1>a, <1>2, <2>1 DEF CreateSubscriptionRequest, Access, Nothing
<1>3. ASSUME NEW es \in SUBSET Episode \ {{}}, NEW g \in Group \cup {None}, NEW p \in Window,
             GrantEpisodes(es, g, p)
      PROVE  Nothing(h)'
  <2> DEFINE rows == {[ep |-> e, to |-> g, period |-> p, status |-> "ACTIVE"] : e \in es}
             k == Cardinality(es)
  <2>1. g # h
    BY <1>3 DEF GrantEpisodes, Open
  <2>2. k \in Nat
    BY FS_Subset, FS_CardinalityType
  <2>3. PICK s \in [1 .. k -> rows] : grant' = grant \o s
    BY <1>3 DEF GrantEpisodes
  <2>4. \A x \in rows : x.to # h
    BY <2>1
  <2>5. rows \subseteq GrantRow
    BY DEF GrantRow, Period
  <2> HIDE DEF rows, k
  <2>6. s \in Seq(GrantRow) /\ \A n \in DOMAIN s : s[n].to # h
    BY <2>2, <2>3, <2>4, <2>5
  <2>7. \A n \in DOMAIN grant' : \/ n \in DOMAIN grant /\ grant'[n] = grant[n]
                                 \/ grant'[n].to # h
    <3>1. /\ Len(grant) \in Nat /\ Len(s) \in Nat /\ DOMAIN grant = 1 .. Len(grant)
          /\ DOMAIN s = 1 .. Len(s) /\ DOMAIN grant' = 1 .. Len(grant) + Len(s)
      BY <1>a, <2>3, <2>6
    <3>2. \A n \in DOMAIN grant' : grant'[n] = IF n <= Len(grant) THEN grant[n] ELSE s[n - Len(grant)]
      BY <1>a, <2>3, <2>6
    <3>3. \A n \in DOMAIN grant' : n <= Len(grant) \/ n - Len(grant) \in DOMAIN s
      BY <3>1
    <3> QED
      BY <2>6, <3>1, <3>2, <3>3
  <2> QED
    BY <1>3, <2>7 DEF GrantEpisodes, Nothing
<1>4. ASSUME NEW n \in 1 .. MaxGrant, RevokeGrant(n) PROVE Nothing(h)'
  <2>1. n \in DOMAIN grant /\ grant[n].to # h /\ grant' = [grant EXCEPT ![n].status = "REVOKED"]
    BY <1>4 DEF RevokeGrant, Nothing
  <2>2. [grant[n] EXCEPT !.status = "REVOKED"].to # h
    BY <1>a, <2>1 DEF GrantRow
  <2> QED
    BY <1>4, <2>1, <2>2 DEF RevokeGrant, Nothing
<1>5. CASE Tick
  BY <1>5 DEF Tick, Access, Nothing
<1> QED
  BY <1>1, <1>2, <1>3, <1>4, <1>5 DEF Others

LEMMA DeletedStep ==
  ASSUME TypeOK, DeletedGroupIsGone, [Next]_vars
  PROVE  DeletedGroupIsGone'
<1> SUFFICES ASSUME NEW h \in Group, group'[h] = "gone" PROVE Nothing(h)'
  BY DEF DeletedGroupIsGone, Nothing
<1>a. group[h] = "gone" => Nothing(h)
  BY DEF DeletedGroupIsGone, Nothing
<1>1. ASSUME NEW r \in Request, Reads(r) PROVE Nothing(h)'
  BY <1>a, <1>1, ReadBegins DEF Nothing
<1>2. ASSUME NEW r \in Request, Writes(r) PROVE Nothing(h)'
  BY <1>a, <1>2, WriteFinishes, WriteAsks, WriteMembers DEF Nothing
<1>3. ASSUME NEW g \in Group, StaffOnGroup(g) PROVE Nothing(h)'
  BY <1>a, <1>3, StaffOnGone
<1>4. CASE Others
  BY <1>a, <1>4, OthersTyped, OthersOnGone
<1>5. CASE UNCHANGED vars
  BY <1>a, <1>5 DEF vars, Nothing
<1> QED
  BY <1>1, <1>2, <1>3, <1>4, <1>5, NextCases

LEMMA Inductive == Spec => []IInv
<1>1. Init => IInv
  BY TypeInit DEF IInv, Init, Idle, ExtensionGrows, DeletedGroupIsGone
<1>2. IInv /\ [Next]_vars => IInv'
  BY TypeStep, ExtensionStep, DeletedStep DEF IInv
<1> QED
  BY <1>1, <1>2, PTL DEF Spec

-----------------------------------------------------------------------------
(* The theorems                                                            *)

(* Every subscription, membership, grant and request keeps its type, and   *)
(* so do the writes in hand.                                               *)
THEOREM TypeCorrect == Spec => []TypeOK
<1>1. IInv => TypeOK
  BY DEF IInv
<1> QED
  BY <1>1, Inductive, PTL

(* Nothing is left of a deleted group: no member, no grant in force, no    *)
(* request for it, although an approval in hand may still name it.         *)
THEOREM DeletedGroupAlways == Spec => []DeletedGroupIsGone
<1>1. IInv => DeletedGroupIsGone
  BY DEF IInv
<1> QED
  BY <1>1, Inductive, PTL

-----------------------------------------------------------------------------
(* Reviews                                                                 *)

(* A request decided, and in no reviewer's hands, stays as it is.          *)
LEMMA ReviewStep ==
  ASSUME TypeOK, [Next]_vars, NEW q \in DOMAIN ask, Settled(q)
  PROVE  q \in DOMAIN ask' /\ Settled(q)' /\ ask'[q].status = ask[q].status /\ ask'[q].paid = ask[q].paid
<1>a. req \in [Request -> RequestState]
  BY Types
<1>b. ask[q].status # "pending" /\ \A o \in Request : ~(req[o].op \in {"approve", "reject"} /\ req[o].row = q)
  BY DEF Settled
<1> DEFINE Same == q \in DOMAIN ask' /\ ask'[q].status = ask[q].status /\ ask'[q].paid = ask[q].paid
<1> SUFFICES /\ Same
             /\ \A o \in Request : ~(req'[o].op \in {"approve", "reject"} /\ req'[o].row = q)
  BY <1>b DEF Settled
<1> DEFINE Free == \A o \in Request : ~(req'[o].op \in {"approve", "reject"} /\ req'[o].row = q)
<1>1. ASSUME NEW r \in Request, Reads(r) PROVE Same /\ Free
  <2>1. /\ ask' = ask /\ req' = [req EXCEPT ![r] = req'[r]]
        /\ ~(req'[r].op \in {"approve", "reject"} /\ req'[r].row = q)
    BY <1>b, <1>1, ReadBegins
  <2>2. \A o \in Request : o # r => req'[o] = req[o]
    BY <1>a, <2>1
  <2> QED
    BY <1>b, <2>1, <2>2
<1>2. ASSUME NEW r \in Request, Writes(r) PROVE Same /\ Free
  <2>1. /\ DOMAIN ask' = DOMAIN ask /\ ask'[q] = ask[q]
        /\ req' = [req EXCEPT ![r] = Idle] /\ req'[r] = Idle
    BY <1>b, <1>2, WriteAsks, WriteFinishes
  <2>2. \A o \in Request : o # r => req'[o] = req[o]
    BY <1>a, <2>1
  <2>3. Idle.op \notin {"approve", "reject"}
    BY DEF Idle
  <2> QED
    BY <1>b, <2>1, <2>2, <2>3
<1>3. ASSUME NEW g \in Group, StaffOnGroup(g) PROVE Same /\ Free
  BY <1>b, <1>3, StaffTyped
<1>4. CASE Others
  BY <1>b, <1>4, OthersTyped
<1>5. CASE UNCHANGED vars
  BY <1>b, <1>5 DEF vars
<1> QED
  BY <1>1, <1>2, <1>3, <1>4, <1>5, NextCases

(* Only reviews that found a request pending at the same time decide it    *)
(* again, or charge for it again.                                          *)
THEOREM ReviewAlways == Spec => ReviewIsFinal
<1>1. IInv /\ [Next]_vars =>
        [\A q \in DOMAIN ask : Settled(q) =>
           /\ Settled(q)' /\ ask'[q].status = ask[q].status /\ ask'[q].paid = ask[q].paid]_vars
  BY ReviewStep DEF IInv
<1> QED
  BY <1>1, Inductive, PTL DEF Spec, ReviewIsFinal

-----------------------------------------------------------------------------
(* Paid time                                                               *)

(* Rows that stay active and do not shrink keep the time they cover.       *)
LEMMA CoverKept ==
  ASSUME TypeOK, DOMAIN sub \subseteq DOMAIN sub', sub' \in Seq(SubRow),
         \A s \in DOMAIN sub : sub[s].status = "ACTIVE" =>
           /\ sub'[s].status = "ACTIVE" /\ sub'[s].period.from = sub[s].period.from
           /\ sub[s].period.to <= sub'[s].period.to
  PROVE  Covered \subseteq Covered'
<1> SUFFICES ASSUME NEW s \in DOMAIN sub, sub[s].status = "ACTIVE",
                    NEW t \in sub[s].period.from .. (sub[s].period.to - 1)
             PROVE  t \in sub'[s].period.from .. (sub'[s].period.to - 1)
  BY DEF Covered
<1>1. sub[s] \in SubRow /\ sub'[s] \in SubRow
  BY RowsTyped
<1>2. /\ sub[s].period.from \in Nat /\ sub[s].period.to \in Nat
      /\ sub'[s].period.from \in Nat /\ sub'[s].period.to \in Nat
  BY <1>1 DEF SubRow, Period
<1> QED
  BY <1>2

LEMMA PaidStep ==
  ASSUME TypeOK, ExtensionGrows, [Next]_vars
  PROVE  \/ Covered \subseteq Covered'
         \/ \E s \in DOMAIN sub : Cancel(s)
         \/ \E r \in Request : OverwritesExtension(r)
<1>a. sub \in Seq(SubRow) /\ \A s \in DOMAIN sub : sub[s].period.to \in Nat
  BY Types, RowsTyped DEF SubRow, Period
<1>b. UNCHANGED sub => Covered \subseteq Covered'
  BY DEF Covered
<1>1. ASSUME NEW r \in Request, Writes(r), ~ExtendWrite(r) PROVE Covered \subseteq Covered'
  <2>1. /\ sub' \in Seq(SubRow) /\ DOMAIN sub \subseteq DOMAIN sub'
        /\ \A s \in DOMAIN sub : sub'[s] = sub[s]
    BY <1>1, WriteSubs
  <2> QED
    BY <1>a, <2>1, CoverKept
<1>2. ASSUME NEW r \in Request, ExtendWrite(r), ~OverwritesExtension(r) PROVE Covered \subseteq Covered'
  <2>1. sub[req[r].row].period.to = req[r].seen
    BY <1>2 DEF OverwritesExtension
  <2>2. /\ sub' \in Seq(SubRow) /\ DOMAIN sub' = DOMAIN sub
        /\ \A s \in DOMAIN sub : sub[s].status = "ACTIVE" =>
             /\ sub'[s].status = "ACTIVE" /\ sub'[s].period.from = sub[s].period.from
             /\ sub[s].period.to <= sub'[s].period.to
    BY <1>a, <1>2, <2>1, ExtendedRow
  <2> QED
    BY <2>2, CoverKept
<1>3. ASSUME Others
      PROVE  UNCHANGED sub \/ \E s \in DOMAIN sub : Cancel(s)
  BY <1>3 DEF Others, Cancel, CreateSubscriptionRequest, GrantEpisodes, RevokeGrant, Tick
<1>4. ASSUME NEW r \in Request, Reads(r) PROVE UNCHANGED sub
  BY <1>4, ReadBegins
<1>5. ASSUME NEW g \in Group, StaffOnGroup(g) PROVE UNCHANGED sub
  BY <1>5, StaffTyped
<1> QED
  BY <1>b, <1>1, <1>2, <1>3, <1>4, <1>5, NextCases DEF vars, Writes

(* Time a viewer has paid for is lost by a cancellation or by an extension *)
(* that overwrites one it did not see, and in no other way.                *)
THEOREM PaidTimeAlways == Spec => PaidTimeKept
<1>1. IInv /\ [Next]_vars =>
        [\/ Covered \subseteq Covered'
         \/ \E s \in DOMAIN sub : Cancel(s)
         \/ \E r \in Request : OverwritesExtension(r)]_vars
  BY PaidStep DEF IInv
<1> QED
  BY <1>1, Inductive, PTL DEF Spec, PaidTimeKept
=============================================================================
