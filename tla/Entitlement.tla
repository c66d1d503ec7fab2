----------------------------- MODULE Entitlement -----------------------------
(***************************************************************************)
(* What one viewer is entitled by: the subscriptions of                    *)
(* src/subscriptions/subscriptions.service.ts, the groups and grants of    *)
(* src/access/access.service.ts, and the subscription requests of          *)
(* src/legacy/legacy.service.ts.  The checks that read these rows before   *)
(* playback and for the list of unlocked episodes write nothing.           *)
(*                                                                         *)
(* Time is counted in days.  A handler that decides on what it read before *)
(* it writes has two steps; the others are one statement or transaction.   *)
(* The history and audit rows they add are never read back and left out.   *)
(***************************************************************************)
EXTENDS Naturals, Sequences, FiniteSets

CONSTANTS Group, Episode, Request,
          None,
          Window,    \* the periods staff enter, as [from, to]
          Days,      \* plan durations and extensions
          MaxTime, MaxEnd, MaxSub, MaxGrant, MaxAsk   \* bounds

ASSUME EntitlementAssumption ==
  /\ None \notin Group /\ IsFiniteSet(Episode)
  /\ Window \subseteq [from : Nat, to : Nat] /\ Days \subseteq Nat
  /\ MaxTime \in Nat

VARIABLES
  now,
  sub,     \* subscriptions of the viewer, in order of creation
  group,   \* access_groups
  member,  \* the viewer's row in each group, or None
  grant,   \* episode_grants, to the viewer (None) or to a group
  ask,     \* subscription_requests; paid counts their payment_records
  req      \* what each request to the API is doing

vars == <<now, sub, group, member, grant, ask, req>>

Time == 0 .. MaxTime
Period == [from : Nat, to : Nat]
Idle == [op |-> "none", row |-> 0, seen |-> 0, period |-> [from |-> 0, to |-> 0], group |-> None]

TypeOK ==
  /\ now \in Time
  /\ sub \in Seq([period : Period, status : {"ACTIVE", "CANCELLED"}])
  /\ group \in [Group -> {"none", "there", "gone"}]
  /\ member \in [Group -> [period : Period, revoked : BOOLEAN] \cup {None}]
  /\ grant \in Seq([ep : Episode, to : Group \cup {None}, period : Period,
                    status : {"ACTIVE", "REVOKED", "gone"}])
  /\ ask \in Seq([group : Group \cup {None}, paid : Nat,
                  status : {"pending", "approved", "rejected"}])
  /\ req \in [Request -> [op : {"none", "subscribe", "extend", "approve", "reject"},
                          row : Nat, seen : Nat, period : Period, group : Group \cup {None}]]

Init ==
  /\ now = 0 /\ sub = <<>> /\ grant = <<>> /\ ask = <<>>
  /\ group = [g \in Group |-> "none"]
  /\ member = [g \in Group |-> None]
  /\ req = [r \in Request |-> Idle]

-----------------------------------------------------------------------------
(* Helpers                                                                 *)

Access == <<group, member, grant>>

Open == {None} \cup {g \in Group : group[g] = "there"}
Later(s, t) == IF s > t THEN s ELSE t
Begin(r, q) == req[r] = Idle /\ req' = [req EXCEPT ![r] = q]
Finish(r) == req' = [req EXCEPT ![r] = Idle]
AddSub(p) == /\ Len(sub) < MaxSub
             /\ sub' = Append(sub, [period |-> p, status |-> "ACTIVE"])

-----------------------------------------------------------------------------
(* Subscriptions                                                           *)

(* A new subscription starts when the last running one ends. *)
SubscribeRead(r, d) ==
  LET ends == {sub[s].period.to : s \in {t \in DOMAIN sub :
                 sub[t].status = "ACTIVE" /\ sub[t].period.to > now}}
  IN  /\ \E start \in ends \cup {now} :
           /\ \A u \in ends : u <= start
           /\ start + d <= MaxEnd
           /\ Begin(r, [Idle EXCEPT !.op = "subscribe", !.period = [from |-> start, to |-> start + d]])
      /\ UNCHANGED <<now, sub, Access, ask>>

SubscribeWrite(r) ==
  /\ req[r].op = "subscribe"
  /\ AddSub(req[r].period)
  /\ Finish(r)
  /\ UNCHANGED <<now, Access, ask>>

(* Mutant: the extension counts from today. *)
ExtendReadToday(r, s, d) ==
  /\ s \in DOMAIN sub
  /\ Begin(r, [Idle EXCEPT !.op = "extend", !.row = s, !.seen = sub[s].period.to,
                           !.period.to = now + d])
  /\ UNCHANGED <<now, sub, Access, ask>>

(* The new end is computed from the end that was read. *)
ExtendRead(r, s, d) ==
  /\ s \in DOMAIN sub
  /\ Later(sub[s].period.to, now) + d <= MaxEnd
  /\ Begin(r, [Idle EXCEPT !.op = "extend", !.row = s, !.seen = sub[s].period.to,
                           !.period.to = Later(sub[s].period.to, now) + d])
  /\ UNCHANGED <<now, sub, Access, ask>>

ExtendWrite(r) ==
  /\ req[r].op = "extend"
  /\ sub' = [sub EXCEPT ![req[r].row].period.to = req[r].period.to,
                        ![req[r].row].status = "ACTIVE"]
  /\ Finish(r)
  /\ UNCHANGED <<now, Access, ask>>

Cancel(s) ==
  /\ s \in DOMAIN sub
  /\ sub' = [sub EXCEPT ![s].status = "CANCELLED"]
  /\ UNCHANGED <<now, Access, ask, req>>

-----------------------------------------------------------------------------
(* Subscription requests                                                   *)

(* For a group of the viewer's choice or the default one, if any. *)
CreateSubscriptionRequest(g) ==
  /\ g \in Open
  /\ Len(ask) < MaxAsk
  /\ ask' = Append(ask, [group |-> g, paid |-> 0, status |-> "pending"])
  /\ UNCHANGED <<now, sub, Access, req>>

(* Mutant: reviewed requests can be reviewed again. *)
ReviewAgain(r, q, op, p) ==
  /\ q \in DOMAIN ask
  /\ Begin(r, [Idle EXCEPT !.op = op, !.row = q, !.period = p, !.group = ask[q].group])
  /\ UNCHANGED <<now, sub, Access, ask>>

ReviewRead(r, q, op, p) ==
  /\ q \in DOMAIN ask /\ ask[q].status = "pending"
  /\ Begin(r, [Idle EXCEPT !.op = op, !.row = q, !.period = p, !.group = ask[q].group])
  /\ UNCHANGED <<now, sub, Access, ask>>

Reject(r) ==
  /\ req[r].op = "reject"
  /\ ask' = [ask EXCEPT ![req[r].row].status = "rejected"]
  /\ Finish(r)
  /\ UNCHANGED <<now, sub, Access>>

Join(g, p) == member' = [member EXCEPT ![g] = [period |-> p, revoked |-> FALSE]]

(* Mutant: the group is joined whether it is still there or not. *)
ApproveAnyway(r) ==
  LET q == req[r].row
      g == req[r].group
  IN  /\ req[r].op = "approve"
      /\ IF g = None THEN UNCHANGED member ELSE Join(g, req[r].period)
      /\ \/ AddSub(req[r].period) /\ ask' = [ask EXCEPT ![q].status = "approved", ![q].paid = @ + 1]
         \/ UNCHANGED sub /\ ask' = [ask EXCEPT ![q].status = "approved"]
      /\ Finish(r)
      /\ UNCHANGED <<now, group, grant>>

(* One transaction: the request, by id alone; the membership; and, when a  *)
(* plan is found, subscription and payment.  A group deleted since the     *)
(* request was read fails the upsert, and with it all of it.               *)
Approve(r) ==
  LET q == req[r].row
      g == req[r].group
  IN  /\ req[r].op = "approve"
      /\ \/ /\ g \in Open
            /\ IF g = None THEN UNCHANGED member ELSE Join(g, req[r].period)
            /\ \/ AddSub(req[r].period) /\ ask' = [ask EXCEPT ![q].status = "approved", ![q].paid = @ + 1]
               \/ UNCHANGED sub /\ ask' = [ask EXCEPT ![q].status = "approved"]
         \/ /\ g \notin Open
            /\ UNCHANGED <<member, sub, ask>>
      /\ Finish(r)
      /\ UNCHANGED <<now, group, grant>>

-----------------------------------------------------------------------------
(* Groups and grants                                                       *)

CreateGroup(g) ==
  /\ group[g] = "none"
  /\ group' = [group EXCEPT ![g] = "there"]
  /\ UNCHANGED <<now, sub, member, grant, ask, req>>

(* Members and grants go with the group; requests lose it. *)
DeleteGroup(g) ==
  /\ group[g] = "there"
  /\ group' = [group EXCEPT ![g] = "gone"]
  /\ member' = [member EXCEPT ![g] = None]
  /\ grant' = [n \in DOMAIN grant |->
       IF grant[n].to = g THEN [grant[n] EXCEPT !.status = "gone"] ELSE grant[n]]
  /\ ask' = [q \in DOMAIN ask |-> IF ask[q].group = g THEN [ask[q] EXCEPT !.group = None] ELSE ask[q]]
  /\ UNCHANGED <<now, sub, req>>

(* An upsert: a member who was removed is one again. *)
AddMember(g, p) ==
  /\ group[g] = "there"
  /\ Join(g, p)
  /\ UNCHANGED <<now, sub, group, grant, ask, req>>

RemoveMember(g) ==
  /\ member[g] # None /\ ~member[g].revoked
  /\ member' = [member EXCEPT ![g].revoked = TRUE]
  /\ UNCHANGED <<now, sub, group, grant, ask, req>>

(* One episode, or several in a transaction; g is None for the viewer. *)
GrantEpisodes(es, g, p) ==
  LET rows == {[ep |-> e, to |-> g, period |-> p, status |-> "ACTIVE"] : e \in es}
  IN  /\ g \in Open
      /\ Len(grant) + Cardinality(es) <= MaxGrant
      /\ \E s \in [1 .. Cardinality(es) -> rows] :
           /\ rows = {s[n] : n \in DOMAIN s}
           /\ grant' = grant \o s
      /\ UNCHANGED <<now, sub, group, member, ask, req>>

RevokeGrant(n) ==
  /\ n \in DOMAIN grant /\ grant[n].status # "gone"
  /\ grant' = [grant EXCEPT ![n].status = "REVOKED"]
  /\ UNCHANGED <<now, sub, group, member, ask, req>>

Tick == now < MaxTime /\ now' = now + 1 /\ UNCHANGED <<sub, Access, ask, req>>

(* A process dies between reading and writing. *)
Crash(r) == req[r] # Idle /\ Finish(r) /\ UNCHANGED <<now, sub, Access, ask>>

Next ==
  \/ \E r \in Request :
       \/ \E d \in Days : SubscribeRead(r, d) \/ \E s \in 1..MaxSub : ExtendRead(r, s, d)
       \/ \E q \in 1..MaxAsk, op \in {"approve", "reject"}, p \in Window : ReviewRead(r, q, op, p)
       \/ SubscribeWrite(r) \/ ExtendWrite(r) \/ Approve(r) \/ Reject(r) \/ Crash(r)
  \/ \E s \in 1..MaxSub : Cancel(s)
  \/ \E g \in Group \cup {None} : CreateSubscriptionRequest(g)
  \/ \E g \in Group : \/ CreateGroup(g) \/ DeleteGroup(g) \/ RemoveMember(g)
                      \/ \E p \in Window : AddMember(g, p)
  \/ \E es \in SUBSET Episode \ {{}}, g \in Group \cup {None}, p \in Window : GrantEpisodes(es, g, p)
  \/ \E n \in 1..MaxGrant : RevokeGrant(n)
  \/ Tick

Spec == Init /\ [][Next]_vars

-----------------------------------------------------------------------------
(* Properties                                                              *)

(* Time a viewer has paid for is lost by a cancellation only, or by an     *)
(* extension that overwrites one it did not see: extend computes the end   *)
(* from a row it read before its transaction.                              *)
Covered ==
  UNION {sub[s].period.from .. (sub[s].period.to - 1) :
           s \in {u \in DOMAIN sub : sub[u].status = "ACTIVE"}}

OverwritesExtension(r) ==
  ExtendWrite(r) /\ sub[req[r].row].period.to # req[r].seen

PaidTimeKept ==
  [][\/ Covered \subseteq Covered'
     \/ \E s \in DOMAIN sub : Cancel(s)
     \/ \E r \in Request : OverwritesExtension(r)]_vars

(* A decided request that no reviewer is still working on stays as it is:  *)
(* only reviews that found it pending at the same time can decide it, and  *)
(* charge for it, again ("Subscription request was already reviewed").     *)
Settled(q) ==
  /\ ask[q].status # "pending"
  /\ \A r \in Request : ~(req[r].op \in {"approve", "reject"} /\ req[r].row = q)

ReviewIsFinal ==
  [][\A q \in DOMAIN ask : Settled(q) =>
       /\ Settled(q)' /\ ask'[q].status = ask[q].status /\ ask'[q].paid = ask[q].paid]_vars

(* A deleted group gives nothing to anybody, although an approval that     *)
(* read its request before writes the membership by the id it read.        *)
DeletedGroupIsGone ==
  \A g \in Group : group[g] = "gone" =>
    /\ member[g] = None
    /\ \A n \in DOMAIN grant : grant[n].to = g => grant[n].status = "gone"
    /\ \A q \in DOMAIN ask : ask[q].group # g
=============================================================================
