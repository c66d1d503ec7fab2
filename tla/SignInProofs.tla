----------------------------- MODULE SignInProofs ------------------------------
(***************************************************************************)
(* Proofs about SignIn, for any requests, limits and bounds.  The lock     *)
(* holds because nobody reads an account that is locked without being      *)
(* turned away.                                                            *)
(***************************************************************************)
EXTENDS SignIn, TLAPS

-----------------------------------------------------------------------------
(* The inductive invariant                                                 *)

(* What a write that is due will write.                                    *)
Due ==
  \A r \in Request :
    /\ At(r, "status", "write") => req[r].to \in {"ACTIVE", "SUSPENDED"}
    /\ At(r, "review", "write") => /\ req[r].to \in {"approved", "rejected"}
                                   /\ req[r].ask \in DOMAIN ask

(* An approval that has not deleted yet has a request that will, or was    *)
(* cut off.                                                                *)
ApprovalFollowed ==
  \A q \in DOMAIN ask : ask[q] = "approved" =>
    \/ user.deleted \/ q \in cut
    \/ \E r \in Request : At(r, "review", "user") /\ req[r].ask = q

(* While the account is locked, whoever has read it did so before.         *)
ReadersEarly ==
  user.locked => \A r \in Request : req[r].pc \in {"right", "wrong"} => req[r].early

IInv ==
  TypeOK /\ Due /\ ApprovalFollowed /\ CounterExpires /\ ReadersEarly

USE LimitsAssumption DEF LimitsAssumption

-----------------------------------------------------------------------------
(* Types                                                                   *)

RequestState ==
  [op : {"none", "login", "status", "ask", "review"},
   pc : {"idle", "counted", "admitted", "right", "wrong", "write", "user"},
   seen : 0 .. Threshold + 1, early : BOOLEAN, ask : 0 .. MaxAsk,
   to : {"none", "ACTIVE", "SUSPENDED", "approved", "rejected"}]

UserRow ==
  [status : {"absent", "ACTIVE", "SUSPENDED", "DISABLED"}, deleted : BOOLEAN,
   failed : 0 .. Threshold + 1, locked : BOOLEAN]

Counter == [n : 0 .. Limit + 1, expires : BOOLEAN]
Verdicts == {"pending", "approved", "rejected"}

LEMMA Types ==
  TypeOK <=> /\ counter \in Counter /\ user \in UserRow
             /\ ask \in Seq(Verdicts) /\ cut \in SUBSET (0 .. MaxAsk)
             /\ req \in [Request -> RequestState]
BY DEF TypeOK, Counter, UserRow, Verdicts, RequestState

LEMMA IdleTyped == Idle \in RequestState
BY DEF Idle, RequestState

LEMMA TypeInit == Init => TypeOK
<1> SUFFICES ASSUME Init PROVE TypeOK
  OBVIOUS
<1>1. counter \in Counter /\ user \in UserRow
  BY DEF Init, Counter, UserRow
<1>2. ask \in Seq(Verdicts) /\ cut \in SUBSET (0 .. MaxAsk)
  BY DEF Init
<1>3. req \in [Request -> RequestState]
  BY IdleTyped DEF Init
<1> QED
  BY <1>1, <1>2, <1>3, Types

(* The steps of a request, by what they write.                             *)
Reads(r) ==   \* no row changes
  \/ Attempt(r) \/ AttemptUncounted(r) \/ Expire(r) \/ ExpireLost(r) \/ LoginRead(r)
  \/ \E to \in {"ACTIVE", "SUSPENDED"} : StatusRead(r, to)
  \/ RequestDeletion(r)
  \/ \E q \in 1 .. MaxAsk, to \in {"approved", "rejected"} : ReviewRead(r, q, to)
  \/ Crash(r)

Signs(r) == LoginFail(r) \/ LoginRecord(r)

Writes(r) == StatusWrite(r) \/ RequestDeletionWrite(r) \/ ReviewMark(r) \/ ReviewUser(r)

Alone == WindowEnds \/ Register \/ Create \/ LockEnds \/ Remove

LEMMA NextCases == Next <=> (\E r \in Request : Reads(r) \/ Signs(r) \/ Writes(r)) \/ Alone
BY DEF Next, Reads, Signs, Writes, Alone

LEMMA Bounded ==
  ASSUME NEW m \in Nat, NEW n \in Nat PROVE AtMost(n, m) \in 0 .. m
BY DEF AtMost

(* What a request is doing keeps its type.                                 *)
LEMMA RequestTyped ==
  ASSUME TypeOK, NEW r \in Request, Reads(r) \/ Signs(r) \/ Writes(r)
  PROVE  req' \in [Request -> RequestState]
<1> DEFINE Steps(q) == q \in RequestState /\ req' = [req EXCEPT ![r] = q]
<1>a. /\ req \in [Request -> RequestState] /\ req[r] \in RequestState /\ user \in UserRow
  BY Types
<1>b. (\E q : Steps(q)) => req' \in [Request -> RequestState]
  BY <1>a
<1>i. ASSUME NEW q \in RequestState, Begin(r, q) PROVE \E p : Steps(p)
  BY <1>i DEF Begin
<1>g. ASSUME NEW pc \in {"admitted", "user"}, Goto(r, pc) PROVE \E p : Steps(p)
  <2>1. Steps([req[r] EXCEPT !.pc = pc])
    BY <1>a, <1>g DEF Goto, RequestState
  <2> QED
    BY <2>1
<1>f. ASSUME Finish(r) PROVE \E p : Steps(p)
  BY <1>f, IdleTyped DEF Finish
<1>1. CASE Attempt(r) \/ AttemptUncounted(r)
  <2>1. \A pc \in {"counted", "admitted"} :
          [Idle EXCEPT !.op = "login", !.pc = pc] \in RequestState
    BY IdleTyped DEF RequestState
  <2>2. (\E pc \in {"counted", "admitted"} : Begin(r, [Idle EXCEPT !.op = "login", !.pc = pc]))
        \/ UNCHANGED req
    BY <1>1 DEF Attempt, AttemptUncounted
  <2> QED
    BY <1>a, <1>b, <1>i, <2>1, <2>2
<1>2. CASE Expire(r) \/ ExpireLost(r)
  BY <1>b, <1>g, <1>2 DEF Expire, ExpireLost
<1>3. CASE LoginRead(r)
  <2>1. ASSUME NEW pc \in {"right", "wrong"}, req' = [req EXCEPT ![r].pc = pc, ![r].seen = user.failed]
        PROVE  \E q : Steps(q)
    <3>1. [req[r] EXCEPT !.pc = pc, !.seen = user.failed] \in RequestState
      BY <1>a DEF RequestState, UserRow
    <3> QED
      BY <1>a, <2>1, <3>1
  <2> QED
    BY <1>b, <1>f, <1>3, <2>1 DEF LoginRead, Verdict
<1>4. CASE LoginFail(r)
  <2>1. \A q \in Request : req[q] \in RequestState /\ [req[q] EXCEPT !.early = TRUE] \in RequestState
    BY <1>a DEF RequestState
  <2> QED
    BY <1>4, <2>1, IdleTyped DEF LoginFail
<1>5. CASE LoginRecord(r) \/ StatusWrite(r) \/ RequestDeletionWrite(r) \/ ReviewUser(r) \/ Crash(r)
  BY <1>b, <1>f, <1>5 DEF LoginRecord, StatusWrite, RequestDeletionWrite, ReviewUser, Crash
<1>6. ASSUME NEW to \in {"ACTIVE", "SUSPENDED"}, StatusRead(r, to)
      PROVE  req' \in [Request -> RequestState]
  <2>1. [Idle EXCEPT !.op = "status", !.pc = "write", !.to = to] \in RequestState
    BY IdleTyped DEF RequestState
  <2> QED
    BY <1>b, <1>i, <1>6, <2>1 DEF StatusRead
<1>7. CASE RequestDeletion(r)
  <2>1. [Idle EXCEPT !.op = "ask", !.pc = "write"] \in RequestState
    BY IdleTyped DEF RequestState
  <2> QED
    BY <1>b, <1>i, <1>7, <2>1 DEF RequestDeletion
<1>8. ASSUME NEW q \in 1 .. MaxAsk, NEW to \in {"approved", "rejected"}, ReviewRead(r, q, to)
      PROVE  req' \in [Request -> RequestState]
  <2>1. [Idle EXCEPT !.op = "review", !.pc = "write", !.ask = q, !.to = to] \in RequestState
    <3>1. q \in 0 .. MaxAsk
      OBVIOUS
    <3> QED
      BY <3>1, IdleTyped DEF RequestState
  <2> QED
    BY <1>b, <1>i, <1>8, <2>1 DEF ReviewRead
<1>9. CASE ReviewMark(r)
  BY <1>b, <1>f, <1>g, <1>9 DEF ReviewMark
<1> QED
  BY <1>1, <1>2, <1>3, <1>4, <1>5, <1>6, <1>7, <1>8, <1>9 DEF Reads, Signs, Writes

LEMMA TypeStep ==
  ASSUME TypeOK, Due, [Next]_vars
  PROVE  TypeOK'
<1>a. /\ counter \in Counter /\ user \in UserRow /\ ask \in Seq(Verdicts) /\ cut \in SUBSET (0 .. MaxAsk)
      /\ req \in [Request -> RequestState]
  BY Types
<1>t. ASSUME counter' \in Counter, user' \in UserRow,
             ask' \in Seq(Verdicts), cut' \in SUBSET (0 .. MaxAsk),
             req' \in [Request -> RequestState]
      PROVE  TypeOK'
  BY <1>t DEF TypeOK, Counter, UserRow, Verdicts, RequestState
<1>1. ASSUME NEW r \in Request, Reads(r) PROVE TypeOK'
  <2>1. req' \in [Request -> RequestState]
    BY <1>1, RequestTyped
  <2>2. UNCHANGED <<user, ask>>
    BY <1>1 DEF Reads, Attempt, AttemptUncounted, Expire, ExpireLost, LoginRead, StatusRead,
                RequestDeletion, ReviewRead, Crash, Account
  <2>3. counter' \in Counter
    <3>1. CASE Attempt(r)
      <4>1. counter.n \in Nat /\ counter.expires \in BOOLEAN
        BY <1>a DEF Counter
      <4>2. AtMost(counter.n + 1, Limit + 1) \in 0 .. Limit + 1
        BY <4>1, Bounded
      <4>3. counter' = [counter EXCEPT !.n = AtMost(counter.n + 1, Limit + 1)]
        BY <3>1 DEF Attempt
      <4> QED
        BY <1>a, <4>1, <4>2, <4>3 DEF Counter
    <3>2. CASE Expire(r)
      BY <1>a, <3>2 DEF Expire, Counter
    <3>3. CASE ~Attempt(r) /\ ~Expire(r)
      BY <1>1, <1>a, <3>3 DEF Reads, AttemptUncounted, ExpireLost, LoginRead, StatusRead,
                              RequestDeletion, ReviewRead, Crash
    <3> QED
      BY <3>1, <3>2, <3>3
  <2>4. cut' \in SUBSET (0 .. MaxAsk)
    <3>1. req[r].ask \in 0 .. MaxAsk
      BY <1>a DEF RequestState
    <3>2. CASE Crash(r) \/ ExpireLost(r)
      <4>1. cut' \subseteq cut \cup {0, req[r].ask} /\ 0 \in 0 .. MaxAsk
        BY <3>2 DEF Crash, ExpireLost
      <4> QED
        BY <1>a, <3>1, <4>1
    <3>3. CASE ~Crash(r) /\ ~ExpireLost(r)
      BY <1>1, <1>a, <3>3 DEF Reads, Attempt, AttemptUncounted, Expire, LoginRead, StatusRead,
                              RequestDeletion, ReviewRead
    <3> QED
      BY <3>2, <3>3
  <2> QED
    BY <1>a, <1>t, <2>1, <2>2, <2>3, <2>4
<1>2. ASSUME NEW r \in Request, Signs(r) PROVE TypeOK'
  <2>1. req' \in [Request -> RequestState]
    BY <1>2, RequestTyped
  <2>2. UNCHANGED <<counter, ask, cut>>
    BY <1>2 DEF Signs, LoginFail, LoginRecord
  <2>3. user' \in UserRow
    <3>1. CASE LoginFail(r)
      <4>1. req[r].seen + 1 \in Nat /\ Threshold + 1 \in Nat
        BY <1>a DEF RequestState
      <4>2. AtMost(req[r].seen + 1, Threshold + 1) \in 0 .. Threshold + 1
        BY <4>1, Bounded
      <4> DEFINE n == AtMost(req[r].seen + 1, Threshold + 1)
      <4>3. user' = [user EXCEPT !.failed = n, !.locked = n >= Threshold]
        BY <3>1 DEF LoginFail
      <4>4. (n >= Threshold) \in BOOLEAN
        OBVIOUS
      <4> HIDE DEF n
      <4> QED
        BY <1>a, <4>2, <4>3, <4>4 DEF UserRow, n
    <3>2. CASE LoginRecord(r)
      <4>1. 0 \in 0 .. Threshold + 1
        OBVIOUS
      <4> QED
        BY <1>a, <3>2, <4>1 DEF LoginRecord, UserRow
    <3> QED
      BY <1>2, <3>1, <3>2 DEF Signs
  <2> QED
    BY <1>a, <1>t, <2>1, <2>2, <2>3
<1>3. ASSUME NEW r \in Request, Writes(r) PROVE TypeOK'
  <2>1. req' \in [Request -> RequestState]
    BY <1>3, RequestTyped
  <2>2. UNCHANGED <<counter, cut>>
    BY <1>3 DEF Writes, StatusWrite, RequestDeletionWrite, ReviewMark, ReviewUser
  <2>3. user' \in UserRow
    BY <1>3, <1>a DEF Writes, StatusWrite, RequestDeletionWrite, ReviewMark, ReviewUser, UserRow, Due
  <2>4. ask' \in Seq(Verdicts)
    <3>1. CASE ReviewMark(r)
      <4>1. /\ req[r].to \in Verdicts /\ req[r].ask \in DOMAIN ask
            /\ ask' = [ask EXCEPT ![req[r].ask] = req[r].to]
        BY <3>1 DEF ReviewMark, Due, Verdicts
      <4> QED
        BY <1>a, <4>1
    <3>2. CASE RequestDeletionWrite(r)
      BY <1>a, <3>2 DEF RequestDeletionWrite, Verdicts
    <3>3. CASE StatusWrite(r) \/ ReviewUser(r)
      BY <1>a, <3>3 DEF StatusWrite, ReviewUser
    <3> QED
      BY <1>3, <3>1, <3>2, <3>3 DEF Writes
  <2> QED
    BY <1>a, <1>t, <2>1, <2>2, <2>3, <2>4
<1>4. CASE Alone
  <2>1. counter' \in Counter
    <3>1. [n |-> 0, expires |-> FALSE] \in Counter
      BY DEF Counter
    <3> QED
      BY <1>4, <1>a, <3>1 DEF Alone, WindowEnds, Register, Create, NewAccount, LockEnds, Remove
  <2>2. user' \in UserRow
    BY <1>4, <1>a DEF Alone, WindowEnds, Register, Create, NewAccount, LockEnds, Remove, UserRow, Account
  <2>3. UNCHANGED <<ask, cut, req>>
    BY <1>4 DEF Alone, WindowEnds, Register, Create, NewAccount, LockEnds, Remove, Account
  <2> QED
    BY <1>a, <1>t, <2>1, <2>2, <2>3
<1>5. CASE UNCHANGED vars
  BY <1>a, <1>t, <1>5 DEF vars
<1> QED
  BY <1>1, <1>2, <1>3, <1>4, <1>5, NextCases

-----------------------------------------------------------------------------
(* What the steps do to the requests                                       *)

Acts(r) == Reads(r) \/ Signs(r) \/ Writes(r)

(* A step of one request leaves the others where they are; only a failed   *)
(* login marks them.                                                       *)
LEMMA OthersStay ==
  ASSUME TypeOK, NEW r \in Request, Acts(r), NEW q \in Request, q # r
  PROVE  /\ ~LoginFail(r) => req'[q] = req[q]
         /\ LoginFail(r) => req'[q] = req[q] \/ req'[q] = [req[q] EXCEPT !.early = TRUE]
         /\ req'[q].op = req[q].op /\ req'[q].pc = req[q].pc
         /\ req'[q].ask = req[q].ask /\ req'[q].to = req[q].to
<1>a. req \in [Request -> RequestState] /\ req[q] \in RequestState
  BY Types
<1>1. ASSUME LoginFail(r) PROVE req'[q] = req[q] \/ req'[q] = [req[q] EXCEPT !.early = TRUE]
  BY <1>1 DEF LoginFail
<1>2. ASSUME ~LoginFail(r) PROVE req'[q] = req[q]
  <2>1. CASE Reads(r)
    BY <1>a, <2>1 DEF Reads, Attempt, AttemptUncounted, Expire, ExpireLost, LoginRead, StatusRead,
         RequestDeletion, ReviewRead, Crash, Begin, Goto, Finish
  <2>2. CASE Signs(r)
    BY <1>a, <1>2, <2>2 DEF Signs, LoginRecord, Begin, Goto, Finish
  <2>3. CASE Writes(r)
    BY <1>a, <2>3 DEF Writes, StatusWrite, RequestDeletionWrite, ReviewMark, ReviewUser, Goto, Finish
  <2> QED
    BY <2>1, <2>2, <2>3 DEF Acts
<1>3. LET p == [req[q] EXCEPT !.early = TRUE]
      IN  p.op = req[q].op /\ p.pc = req[q].pc /\ p.ask = req[q].ask /\ p.to = req[q].to
  BY <1>a DEF RequestState
<1> QED
  BY <1>1, <1>2, <1>3

(* Where a request that moves gets to.                                     *)
LEMMA MoverAt ==
  ASSUME TypeOK, NEW r \in Request, Acts(r)
  PROVE  \/ req'[r] = Idle \/ (Attempt(r) /\ req'[r] = req[r])
         \/ req'[r].pc \in {"counted", "admitted"}
         \/ LoginRead(r) /\ ~user.locked /\ req'[r].pc \in {"right", "wrong"}
         \/ req'[r].op = "status" /\ req'[r].to \in {"ACTIVE", "SUSPENDED"} /\ req'[r].pc = "write"
         \/ req'[r].op = "ask" /\ req'[r].pc = "write"
         \/ /\ req'[r].op = "review" /\ req'[r].pc = "write" /\ UNCHANGED ask
            /\ req'[r].to \in {"approved", "rejected"} /\ req'[r].ask \in DOMAIN ask
         \/ /\ ReviewMark(r) /\ req'[r].op = "review" /\ req'[r].pc = "user"
            /\ req'[r].ask = req[r].ask
<1>a. req \in [Request -> RequestState] /\ req[r] \in RequestState
  BY Types
<1>1. CASE Attempt(r) \/ AttemptUncounted(r)
  <2>1. ASSUME NEW pc \in {"counted", "admitted"},
               Begin(r, [Idle EXCEPT !.op = "login", !.pc = pc])
        PROVE  req'[r].pc = pc
    BY <1>a, <2>1 DEF Begin, Idle
  <2>2. \/ \E pc \in {"counted", "admitted"} : Begin(r, [Idle EXCEPT !.op = "login", !.pc = pc])
        \/ Attempt(r) /\ UNCHANGED req
    BY <1>1 DEF Attempt, AttemptUncounted
  <2> QED
    BY <2>1, <2>2
<1>2. CASE Expire(r) \/ ExpireLost(r)
  BY <1>a, <1>2 DEF Expire, ExpireLost, Goto, RequestState
<1>3. CASE LoginRead(r)
  <2>1. CASE ~Known \/ user.locked
    BY <1>a, <1>3, <2>1 DEF LoginRead, Finish
  <2>2. CASE Known /\ ~user.locked
    <3>1. PICK pc \in {"right", "wrong"} : req' = [req EXCEPT ![r].pc = pc, ![r].seen = user.failed]
      BY <1>3, <2>2 DEF LoginRead, Verdict
    <3>2. req'[r] = [req[r] EXCEPT !.pc = pc, !.seen = user.failed]
      BY <1>a, <3>1
    <3> QED
      BY <1>a, <1>3, <2>2, <3>2 DEF RequestState
  <2> QED
    BY <2>1, <2>2
<1>4. CASE LoginFail(r) \/ LoginRecord(r) \/ StatusWrite(r) \/ RequestDeletionWrite(r)
           \/ ReviewUser(r) \/ Crash(r)
  BY <1>a, <1>4 DEF LoginFail, LoginRecord, StatusWrite, RequestDeletionWrite, ReviewUser, Crash, Finish
<1>5. ASSUME NEW to \in {"ACTIVE", "SUSPENDED"}, StatusRead(r, to)
      PROVE  req'[r].op = "status" /\ req'[r].to \in {"ACTIVE", "SUSPENDED"} /\ req'[r].pc = "write"
  BY <1>a, <1>5 DEF StatusRead, Begin, Idle
<1>6. CASE RequestDeletion(r)
  BY <1>a, <1>6 DEF RequestDeletion, Begin, Idle
<1>7. ASSUME NEW n \in 1 .. MaxAsk, NEW to \in {"approved", "rejected"}, ReviewRead(r, n, to)
      PROVE  /\ req'[r].op = "review" /\ req'[r].pc = "write" /\ UNCHANGED ask
             /\ req'[r].to \in {"approved", "rejected"} /\ req'[r].ask \in DOMAIN ask
  BY <1>a, <1>7 DEF ReviewRead, Begin, Idle, Account
<1>8. CASE ReviewMark(r)
  <2>1. req'[r] = Idle \/ req'[r] = [req[r] EXCEPT !.pc = "user"]
    BY <1>a, <1>8 DEF ReviewMark, Goto, Finish
  <2>2. LET q == [req[r] EXCEPT !.pc = "user"] IN q.op = "review" /\ q.pc = "user" /\ q.ask = req[r].ask
    BY <1>a, <1>8 DEF ReviewMark, At, RequestState
  <2> QED
    BY <1>8, <2>1, <2>2
<1> QED
  BY <1>1, <1>2, <1>3, <1>4, <1>5, <1>6, <1>7, <1>8 DEF Acts, Reads, Signs, Writes

LEMMA IdleFields == Idle.op = "none" /\ Idle.pc = "idle"
BY DEF Idle

(* Deletion requests are only added.                                       *)
LEMMA AsksStay ==
  ASSUME TypeOK, Due, [Next]_vars
  PROVE  DOMAIN ask \subseteq DOMAIN ask'
<1>a. ask \in Seq(Verdicts) /\ DOMAIN ask = 1 .. Len(ask) /\ Len(ask) \in Nat
  BY Types
<1>1. ASSUME NEW r \in Request, Acts(r), ~ReviewMark(r), ~RequestDeletionWrite(r) PROVE UNCHANGED ask
  BY <1>1 DEF Acts, Reads, Signs, Writes, Attempt, AttemptUncounted, Expire, ExpireLost, LoginRead,
     StatusRead, RequestDeletion, ReviewRead, Crash, LoginFail, LoginRecord,
     StatusWrite, ReviewUser, Account
<1>2. ASSUME NEW r \in Request, ReviewMark(r) \/ RequestDeletionWrite(r)
      PROVE  DOMAIN ask \subseteq DOMAIN ask'
  BY <1>a, <1>2 DEF ReviewMark, RequestDeletionWrite
<1>3. CASE Alone \/ UNCHANGED vars
  BY <1>3 DEF Alone, WindowEnds, Register, Create, NewAccount, LockEnds, Remove, Account, vars
<1> QED
  BY <1>1, <1>2, <1>3, NextCases DEF Acts

-----------------------------------------------------------------------------
(* The invariant, conjunct by conjunct                                     *)

LEMMA DueStep ==
  ASSUME TypeOK, Due, [Next]_vars
  PROVE  Due'
<1> DEFINE Fine(q) ==
      /\ At(q, "status", "write")' => req'[q].to \in {"ACTIVE", "SUSPENDED"}
      /\ At(q, "review", "write")' => /\ req'[q].to \in {"approved", "rejected"}
                                      /\ req'[q].ask \in DOMAIN ask'
<1>a. DOMAIN ask \subseteq DOMAIN ask'
  BY AsksStay
<1>1. ASSUME NEW q \in Request, req'[q].op = req[q].op, req'[q].pc = req[q].pc,
             req'[q].ask = req[q].ask, req'[q].to = req[q].to
      PROVE  Fine(q)
  BY <1>a, <1>1 DEF Due, At
<1>2. ASSUME NEW r \in Request, Acts(r) PROVE \A q \in Request : Fine(q)
  <2>1. \A q \in Request : q # r => Fine(q)
    BY <1>1, <1>2, OthersStay
  <2>2. Fine(r)
    BY <1>a, <1>1, <1>2, MoverAt, IdleFields DEF At
  <2> QED
    BY <2>1, <2>2
<1>3. CASE Alone \/ UNCHANGED vars
  <2>1. UNCHANGED req
    BY <1>3 DEF Alone, WindowEnds, Register, Create, NewAccount, LockEnds, Remove, vars
  <2> QED
    BY <1>1, <2>1 DEF Due
<1> QED
  BY <1>2, <1>3, NextCases DEF Acts, Due

LEMMA DeletedStays ==
  ASSUME TypeOK, [Next]_vars
  PROVE  (user.deleted => user'.deleted) /\ cut \subseteq cut'
<1>a. user \in UserRow
  BY Types
<1>1. ASSUME NEW r \in Request, Reads(r) PROVE user' = user /\ cut \subseteq cut'
  BY <1>1 DEF Reads, Attempt, AttemptUncounted, Expire, ExpireLost, LoginRead, StatusRead,
     RequestDeletion, ReviewRead, Crash, Account
<1>2. ASSUME NEW r \in Request, Signs(r) PROVE user'.deleted = user.deleted /\ cut' = cut
  BY <1>a, <1>2 DEF Signs, LoginFail, LoginRecord, UserRow
<1>3. ASSUME NEW r \in Request, Writes(r) PROVE (user.deleted => user'.deleted) /\ cut' = cut
  BY <1>a, <1>3 DEF Writes, StatusWrite, RequestDeletionWrite, ReviewMark, ReviewUser, UserRow
<1>4. CASE Alone \/ UNCHANGED vars
  BY <1>a, <1>4 DEF Alone, WindowEnds, Register, Create, NewAccount, LockEnds, Remove, Account, vars, UserRow
<1> QED
  BY <1>1, <1>2, <1>3, <1>4, NextCases

(* A request at one of the two places where it owes a write leaves it by   *)
(* that write or by being cut off.                                         *)
LEMMA OwingMoves ==
  ASSUME TypeOK, NEW r \in Request, Acts(r)
  PROVE  /\ At(r, "review", "user") => ReviewUser(r) \/ Crash(r)
         /\ At(r, "login", "counted") => Expire(r) \/ ExpireLost(r) \/ Crash(r)
BY IdleFields DEF At, Acts, Reads, Signs, Writes, Attempt, AttemptUncounted, Expire, ExpireLost,
   LoginRead, StatusRead, RequestDeletion, ReviewRead, Crash, LoginFail, LoginRecord,
   StatusWrite, RequestDeletionWrite, ReviewMark, ReviewUser, Begin

LEMMA ApprovalStep ==
  ASSUME TypeOK, Due, ApprovalFollowed, [Next]_vars
  PROVE  ApprovalFollowed'
<1>a. /\ ask \in Seq(Verdicts) /\ DOMAIN ask = 1 .. Len(ask) /\ Len(ask) \in Nat
      /\ user \in UserRow /\ req \in [Request -> RequestState]
  BY Types
<1> DEFINE Followed(q) == \/ user'.deleted \/ q \in cut'
                          \/ \E r \in Request : At(r, "review", "user")' /\ req'[r].ask = q
<1>b. ASSUME NEW q \in DOMAIN ask, ask[q] = "approved" PROVE Followed(q)
  <2>1. CASE user.deleted \/ q \in cut
    BY <2>1, DeletedStays
  <2>2. ASSUME NEW w \in Request, At(w, "review", "user"), req[w].ask = q PROVE Followed(q)
    <3>1. ASSUME NEW r \in Request, Acts(r), r # w PROVE Followed(q)
      <4>1. req'[w].op = req[w].op /\ req'[w].pc = req[w].pc /\ req'[w].ask = req[w].ask
        BY <3>1, OthersStay
      <4> QED
        BY <2>2, <4>1 DEF At
    <3>2. ASSUME Acts(w) PROVE Followed(q)
      <4>1. CASE ReviewUser(w)
        BY <1>a, <4>1 DEF ReviewUser, UserRow
      <4>2. CASE Crash(w)
        BY <2>2, <4>2 DEF Crash, At
      <4> QED
        BY <2>2, <3>2, <4>1, <4>2, OwingMoves
    <3>3. CASE Alone \/ UNCHANGED vars
      BY <2>2, <3>3 DEF Alone, WindowEnds, Register, Create, NewAccount, LockEnds, Remove, vars, At
    <3> QED
      BY <3>1, <3>2, <3>3, NextCases DEF Acts
  <2> QED
    BY <1>b, <2>1, <2>2 DEF ApprovalFollowed
<1>c. ASSUME NEW q \in DOMAIN ask', ask'[q] = "approved", ~(q \in DOMAIN ask /\ ask[q] = "approved")
      PROVE  Followed(q)
  <2>1. ASSUME NEW r \in Request, RequestDeletionWrite(r) PROVE FALSE
    BY <1>a, <1>c, <2>1 DEF RequestDeletionWrite
  <2>2. ASSUME NEW r \in Request, ReviewMark(r) PROVE Followed(q)
    <3>1. q = req[r].ask /\ req[r].to = "approved" /\ req[r].op = "review"
      BY <1>a, <1>c, <2>2 DEF ReviewMark, At
    <3>2. req'[r] = [req[r] EXCEPT !.pc = "user"]
      BY <1>a, <2>2, <3>1 DEF ReviewMark, Goto
    <3>3. req'[r].op = "review" /\ req'[r].pc = "user" /\ req'[r].ask = q
      BY <1>a, <3>1, <3>2 DEF RequestState
    <3> QED
      BY <3>3 DEF At
  <2>3. ASSUME NEW r \in Request, Acts(r), ~ReviewMark(r), ~RequestDeletionWrite(r) PROVE UNCHANGED ask
    BY <2>3 DEF Acts, Reads, Signs, Writes, Attempt, AttemptUncounted, Expire, ExpireLost, LoginRead,
       StatusRead, RequestDeletion, ReviewRead, Crash, LoginFail, LoginRecord,
       StatusWrite, ReviewUser, Account
  <2>4. ASSUME Alone \/ UNCHANGED vars PROVE UNCHANGED ask
    BY <2>4 DEF Alone, WindowEnds, Register, Create, NewAccount, LockEnds, Remove, Account, vars
  <2> QED
    BY <1>c, <2>1, <2>2, <2>3, <2>4, NextCases DEF Acts
<1> QED
  BY <1>b, <1>c DEF ApprovalFollowed

LEMMA CounterStep ==
  ASSUME TypeOK, CounterExpires, [Next]_vars
  PROVE  CounterExpires'
<1>a. counter \in Counter /\ req \in [Request -> RequestState] /\ counter.n \in Nat
  BY Types DEF Counter
<1> SUFFICES ASSUME counter'.n > 0, ~counter'.expires, 0 \notin cut'
             PROVE  \E r \in Request : At(r, "login", "counted")'
  BY DEF CounterExpires
<1>b. 0 \notin cut
  BY DeletedStays
(* It is enough that the counter had started, and its first caller stays.  *)
<1>c. ASSUME counter.n > 0, ~counter.expires,
             \A w \in Request : At(w, "login", "counted") => At(w, "login", "counted")'
      PROVE  \E r \in Request : At(r, "login", "counted")'
  BY <1>b, <1>c DEF CounterExpires
<1>1. ASSUME NEW r \in Request, Attempt(r) PROVE \E w \in Request : At(w, "login", "counted")'
  <2>1. counter' = [counter EXCEPT !.n = AtMost(counter.n + 1, Limit + 1)]
    BY <1>1 DEF Attempt
  <2>2. ~counter.expires
    BY <1>a, <2>1 DEF Counter
  <2>3. CASE counter.n = 0
    <3>1. AtMost(counter.n + 1, Limit + 1) = 1
      BY <2>3 DEF AtMost
    <3>2. Begin(r, [Idle EXCEPT !.op = "login", !.pc = "counted"])
      BY <1>1, <3>1 DEF Attempt
    <3>3. req'[r].op = "login" /\ req'[r].pc = "counted"
      BY <1>a, <3>2 DEF Begin, Idle
    <3> QED
      BY <3>3 DEF At
  <2>4. CASE counter.n # 0
    <3>1. ASSUME NEW w \in Request, At(w, "login", "counted") PROVE At(w, "login", "counted")'
      <4>1. w # r
        BY <1>1, <3>1, OwingMoves DEF Acts, Reads, Attempt, At, Begin, Idle
      <4> QED
        BY <1>1, <3>1, <4>1, OthersStay DEF At, Acts, Reads
    <3> QED
      BY <1>a, <1>c, <2>2, <2>4, <3>1
  <2> QED
    BY <2>3, <2>4
<1>2. ASSUME NEW r \in Request, Acts(r), ~Attempt(r) PROVE \E w \in Request : At(w, "login", "counted")'
  <2>1. ~Expire(r)
    BY <1>a DEF Expire, Counter
  <2>2. counter' = counter
    BY <1>2, <2>1 DEF Acts, Reads, Signs, Writes, AttemptUncounted, ExpireLost, LoginRead,
       StatusRead, RequestDeletion, ReviewRead, Crash, LoginFail, LoginRecord,
       StatusWrite, RequestDeletionWrite, ReviewMark, ReviewUser
  <2>3. ~At(r, "login", "counted")
    BY <1>2, <2>1, OwingMoves DEF ExpireLost, Crash, At
  <2>4. ASSUME NEW w \in Request, At(w, "login", "counted") PROVE At(w, "login", "counted")'
    BY <1>2, <2>3, <2>4, OthersStay DEF At
  <2> QED
    BY <1>c, <2>2, <2>4
<1>3. CASE Alone
  <2>1. counter' = counter /\ req' = req
    BY <1>3 DEF Alone, WindowEnds, Register, Create, NewAccount, LockEnds, Remove
  <2> QED
    BY <1>c, <2>1 DEF At
<1>4. CASE UNCHANGED vars
  BY <1>c, <1>4 DEF vars, At
<1> QED
  BY <1>1, <1>2, <1>3, <1>4, NextCases DEF Acts

LEMMA EarlyStep ==
  ASSUME TypeOK, ReadersEarly, [Next]_vars
  PROVE  ReadersEarly'
<1>a. user \in UserRow /\ req \in [Request -> RequestState]
  BY Types
<1> SUFFICES ASSUME user'.locked, NEW q \in Request, req'[q].pc \in {"right", "wrong"}
             PROVE  req'[q].early
  BY DEF ReadersEarly
<1>1. ASSUME NEW r \in Request, LoginFail(r) PROVE req'[q].early
  <2> DEFINE n == AtMost(req[r].seen + 1, Threshold + 1)
  <2>1. user' = [user EXCEPT !.failed = n, !.locked = n >= Threshold]
    BY <1>1 DEF LoginFail
  <2>2. n >= Threshold
    BY <1>a, <2>1 DEF UserRow
  <2> HIDE DEF n
  <2>3. q # r /\ req[q].pc \in {"right", "wrong"}
    <3>1. q = r => req'[q] = Idle
      BY <1>a, <1>1 DEF LoginFail
    <3> QED
      BY <1>1, <3>1, OthersStay, IdleFields DEF Acts, Signs
  <2>4. req'[q] = [req[q] EXCEPT !.early = TRUE]
    BY <1>1, <2>2, <2>3 DEF LoginFail, n
  <2> QED
    BY <1>a, <2>4 DEF RequestState
<1>2. ASSUME NEW r \in Request, Acts(r), ~LoginFail(r) PROVE req'[q].early
  <2>1. user.locked
    <3>1. CASE Reads(r)
      BY <3>1 DEF Reads, Attempt, AttemptUncounted, Expire, ExpireLost, LoginRead, StatusRead,
         RequestDeletion, ReviewRead, Crash, Account
    <3>2. CASE Signs(r) \/ Writes(r)
      BY <1>a, <1>2, <3>2 DEF Signs, LoginRecord, Writes, StatusWrite,
         RequestDeletionWrite, ReviewMark, ReviewUser, UserRow
    <3> QED
      BY <1>2, <3>1, <3>2 DEF Acts
  <2>2. CASE q # r
    BY <1>2, <2>1, <2>2, OthersStay DEF ReadersEarly
  <2>3. CASE q = r
    BY <1>2, <2>1, <2>3, MoverAt, IdleFields DEF ReadersEarly
  <2> QED
    BY <2>2, <2>3
<1>3. CASE Alone \/ UNCHANGED vars
  <2>1. req' = req /\ (user'.locked => user.locked)
    BY <1>a, <1>3 DEF Alone, WindowEnds, Register, Create, NewAccount, LockEnds, Remove, Account, vars, UserRow
  <2> QED
    BY <2>1 DEF ReadersEarly
<1> QED
  BY <1>1, <1>2, <1>3, NextCases DEF Acts

-----------------------------------------------------------------------------
(* The theorems                                                            *)

LEMMA InvInit == Init => IInv
<1> SUFFICES ASSUME Init PROVE IInv
  OBVIOUS
<1>1. TypeOK
  BY TypeInit
<1>2. /\ counter.n = 0 /\ user.locked = FALSE /\ ask = <<>>
      /\ \A r \in Request : req[r].op = "none"
  BY IdleFields DEF Init
<1>3. Due /\ ApprovalFollowed /\ CounterExpires /\ ReadersEarly
  BY <1>2 DEF Due, ApprovalFollowed, CounterExpires, ReadersEarly, At
<1> QED
  BY <1>1, <1>3 DEF IInv

LEMMA InvStep == IInv /\ [Next]_vars => IInv'
BY TypeStep, DueStep, ApprovalStep, CounterStep, EarlyStep DEF IInv

LEMMA InvAlways == Spec => []IInv
BY InvInit, InvStep, PTL DEF Spec

(* The rows, the counter and the requests keep their types.                *)
THEOREM TypeCorrect == Spec => []TypeOK
<1>1. IInv => TypeOK
  BY DEF IInv
<1> QED
  BY <1>1, InvAlways, PTL

(* An approved deletion has deleted the account, is about to, or was cut   *)
(* off between its two updates.                                            *)
THEOREM ApprovalAlways == Spec => []ApprovalDeletes
<1>1. IInv => ApprovalDeletes
  BY DEF IInv, ApprovalFollowed, ApprovalDeletes
<1> QED
  BY <1>1, InvAlways, PTL

(* A limiter's counter that has started runs out, unless its first caller  *)
(* was cut off between INCR and EXPIRE.                                    *)
THEOREM CounterAlways == Spec => []CounterExpires
<1>1. IInv => CounterExpires
  BY DEF IInv
<1> QED
  BY <1>1, InvAlways, PTL

LEMMA LockHoldsStep ==
  ASSUME IInv, Next, user.locked, ~user'.locked
  PROVE  \/ LockEnds
         \/ \E r \in Request : req[r].early /\ (LoginFail(r) \/ LoginRecord(r))
<1>a. user \in UserRow
  BY Types DEF IInv
<1>1. ASSUME NEW r \in Request, Reads(r) PROVE FALSE
  BY <1>1 DEF Reads, Attempt, AttemptUncounted, Expire, ExpireLost, LoginRead, StatusRead,
     RequestDeletion, ReviewRead, Crash, Account
<1>2. ASSUME NEW r \in Request, Signs(r)
      PROVE  req[r].early /\ (LoginFail(r) \/ LoginRecord(r))
  BY <1>2 DEF IInv, ReadersEarly, Signs, LoginFail, LoginRecord, At
<1>3. ASSUME NEW r \in Request, Writes(r) PROVE FALSE
  BY <1>a, <1>3 DEF Writes, StatusWrite, RequestDeletionWrite, ReviewMark, ReviewUser, UserRow
<1>4. CASE Alone
  BY <1>a, <1>4 DEF Alone, WindowEnds, Register, Create, NewAccount, Remove, Account, UserRow
<1> QED
  BY <1>1, <1>2, <1>3, <1>4, NextCases

(* A lock ends when it runs out, or by an attempt that had read the        *)
(* account before it was locked, and in no other way.                      *)
THEOREM LockHoldsAlways == Spec => LockHolds
<1>1. IInv /\ [Next]_vars =>
        [user.locked /\ ~user'.locked =>
           \/ LockEnds
           \/ \E r \in Request : req[r].early /\ (LoginFail(r) \/ LoginRecord(r))]_vars
  BY LockHoldsStep
<1> QED
  BY <1>1, InvAlways, PTL DEF Spec, LockHolds
=============================================================================
