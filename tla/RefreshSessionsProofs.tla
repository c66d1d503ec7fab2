------------------------ MODULE RefreshSessionsProofs ------------------------
(***************************************************************************)
(* Proofs about RefreshSessions, for every set of sessions and requests.   *)
(*                                                                         *)
(* The invariants OneLivePerLogin and LinksSound are not inductive: that a *)
(* refresh leaves one live session depends on the locks of the other       *)
(* refreshes and on ids that no row has yet.  IInv adds exactly that.      *)
(***************************************************************************)
EXTENDS RefreshSessions, TLAPS

(* Ids a request has drawn for the row it will insert are its own. *)
DrawnIds ==
  \A r \in Request : req[r].new # None =>
    /\ row[req[r].new] = "absent"
    /\ \A q \in Request : req[q].new = req[r].new => q = r

(* What a request knows in each phase, and what an open refresh holds. *)
RequestsSound ==
  \A r \in Request :
    /\ req[r].op = "login" => req[r].new \in Session
    /\ req[r].op = "refresh" => req[r].sess \in Session /\ req[r].new \in Session
    /\ req[r].pc = "locked" =>
         /\ req[r].op = "refresh"
         /\ row[req[r].sess] = "active"
         /\ \A q \in Request :
              req[q].pc = "locked" /\ req[q].sess = req[r].sess => q = r

(* The family of an issued session is named by an issued session. *)
FamiliesNamed ==
  \A s \in Session : row[s] # "absent" =>
    family[s] \in Session /\ row[family[s]] # "absent"

IInv ==
  /\ TypeOK
  /\ DrawnIds
  /\ RequestsSound
  /\ FamiliesNamed
  /\ OneLivePerLogin
  /\ LinksSound

-----------------------------------------------------------------------------

LEMMA InitIInv == Init => IInv
  BY NoneAssumption DEF Init, IInv, TypeOK, RequestState, Sweeps, UserTx, Idle,
     DrawnIds, RequestsSound, FamiliesNamed, OneLivePerLogin, Active, LinksSound

(* Requests that start, move on or finish without touching a session row. *)
LEMMA QuietStep ==
  ASSUME IInv,
         UNCHANGED <<row, replacedBy, family, late>>,
         account' \in {"ACTIVE", "SUSPENDED", "DELETED"},
         expired' \in SUBSET Session,
         req' \in [Request -> RequestState],
         DrawnIds', RequestsSound'
  PROVE  IInv'
  BY DEF IInv, TypeOK, FamiliesNamed, OneLivePerLogin, Active, LinksSound, Stored

LEMMA StutterIInv == ASSUME IInv, UNCHANGED vars PROVE IInv'
  BY QuietStep DEF IInv, vars, TypeOK, DrawnIds, RequestsSound

(* A request that goes idle gives back its drawn id and its lock. *)
LEMMA FinishSound ==
  ASSUME IInv, NEW r \in Request, Finish(r), UNCHANGED row
  PROVE  /\ req' \in [Request -> RequestState]
         /\ DrawnIds'
         /\ RequestsSound'
  BY NoneAssumption DEF IInv, TypeOK, Finish, Idle, RequestState, Sweeps, UserTx,
     DrawnIds, RequestsSound

(* A request that starts, or moves to a phase without a lock. *)
LEMMA StartSound ==
  ASSUME IInv, NEW r \in Request, UNCHANGED row,
         NEW q \in RequestState,
         req' = [req EXCEPT ![r] = q],
         q.pc # "locked",
         q.new \in {None, req[r].new} \cup Fresh,
         q.op = "login" => q.new \in Session,
         q.op = "refresh" => q.sess \in Session /\ q.new \in Session
  PROVE  /\ req' \in [Request -> RequestState]
         /\ DrawnIds'
         /\ RequestsSound'
<1>1. req' \in [Request -> RequestState]
  BY DEF IInv, TypeOK
<1>2. DrawnIds'
  BY DEF IInv, TypeOK, DrawnIds, Fresh
<1>3. RequestsSound'
  BY DEF IInv, TypeOK, RequestsSound
<1>. QED
  BY <1>1, <1>2, <1>3

LEMMA LoginCheckIInv ==
  ASSUME IInv, NEW r \in Request, NEW n \in Session, LoginCheck(r, n) PROVE IInv'
<1> DEFINE q == [Idle EXCEPT !.op = "login", !.pc = "checked", !.new = n]
<1>1. q \in RequestState /\ q.pc # "locked" /\ q.new = n /\ q.op = "login"
  BY DEF RequestState, Idle
<1>2. req' = [req EXCEPT ![r] = q] /\ n \in Fresh /\ UNCHANGED <<account, row, replacedBy, expired, family, late>>
  BY DEF LoginCheck
<1> HIDE DEF q
<1>. QED
  BY <1>1, <1>2, StartSound, QuietStep DEF IInv, TypeOK

LEMMA RefreshReadIInv ==
  ASSUME IInv, NEW r \in Request, NEW s \in Session, NEW n \in Session, RefreshRead(r, s, n)
  PROVE  IInv'
<1> DEFINE q == [Idle EXCEPT !.op = "refresh", !.pc = "checked", !.sess = s, !.new = n]
<1>1. q \in RequestState /\ q.pc # "locked" /\ q.new = n /\ q.op = "refresh" /\ q.sess = s
  BY DEF RequestState, Idle
<1>2. req' = [req EXCEPT ![r] = q] /\ n \in Fresh /\ UNCHANGED <<account, row, replacedBy, expired, family, late>>
  BY DEF RefreshRead
<1> HIDE DEF q
<1>. QED
  BY <1>1, <1>2, StartSound, QuietStep DEF IInv, TypeOK

LEMMA RefreshReplayIInv ==
  ASSUME IInv, NEW r \in Request, NEW s \in Session, RefreshReplay(r, s) PROVE IInv'
<1> DEFINE q == [Idle EXCEPT !.op = "replay", !.pc = "checked", !.sess = s]
<1>1. q \in RequestState /\ q.pc # "locked" /\ q.new = None /\ q.op = "replay"
  BY DEF RequestState, Idle, Sweeps
<1>2. req' = [req EXCEPT ![r] = q] /\ UNCHANGED <<account, row, replacedBy, expired, family, late>>
  BY DEF RefreshReplay
<1> HIDE DEF q
<1>. QED
  BY <1>1, <1>2, StartSound, QuietStep DEF IInv, TypeOK

LEMMA OwnerRequestIInv ==
  ASSUME IInv, NEW r \in Request, NEW s \in Session, NEW op \in Sweeps, OwnerRequest(r, s, op)
  PROVE  IInv'
<1> DEFINE q == [Idle EXCEPT !.op = op, !.pc = "checked", !.sess = s]
<1>1. q \in RequestState /\ q.pc # "locked" /\ q.new = None /\ q.op \notin {"login", "refresh"}
  BY DEF RequestState, Idle, Sweeps, UserTx
<1>2. req' = [req EXCEPT ![r] = q] /\ UNCHANGED <<account, row, replacedBy, expired, family, late>>
  BY DEF OwnerRequest
<1> HIDE DEF q
<1>. QED
  BY <1>1, <1>2, StartSound, QuietStep DEF IInv, TypeOK

LEMMA AdminRequestIInv ==
  ASSUME IInv, NEW r \in Request, NEW op \in Sweeps, AdminRequest(r, op) PROVE IInv'
<1> DEFINE q == [Idle EXCEPT !.op = op, !.pc = "checked"]
<1>1. q \in RequestState /\ q.pc # "locked" /\ q.new = None /\ q.op \notin {"login", "refresh"}
  BY DEF RequestState, Idle, Sweeps, UserTx
<1>2. req' = [req EXCEPT ![r] = q] /\ UNCHANGED <<account, row, replacedBy, expired, family, late>>
  BY DEF AdminRequest
<1> HIDE DEF q
<1>. QED
  BY <1>1, <1>2, StartSound, QuietStep DEF IInv, TypeOK

LEMMA LoginRecordIInv ==
  ASSUME IInv, NEW r \in Request, LoginRecord(r) PROVE IInv'
<1> DEFINE q == [req[r] EXCEPT !.pc = "recorded"]
<1>1. req[r] \in RequestState /\ req[r].op = "login"
  BY DEF IInv, TypeOK, LoginRecord
<1>2. q \in RequestState /\ q.pc # "locked" /\ q.new = req[r].new /\ q.op = "login"
  BY <1>1 DEF RequestState
<1>3. req' = [req EXCEPT ![r] = q] /\ UNCHANGED <<account, row, replacedBy, expired, family, late>>
  BY DEF LoginRecord, Goto
<1>4. q.new \in Session
  BY <1>1, <1>2 DEF IInv, RequestsSound
<1> HIDE DEF q
<1>. QED
  BY <1>2, <1>3, <1>4, StartSound, QuietStep DEF IInv, TypeOK

LEMMA SweepBeginIInv ==
  ASSUME IInv, NEW r \in Request, SweepBegin(r) PROVE IInv'
<1> DEFINE snap == IF req[r].op = "changePassword" THEN Active \ {req[r].sess} ELSE Active
           q == [req[r] EXCEPT !.pc = "sweeping", !.snap = snap]
<1>1. req[r] \in RequestState /\ req[r].op \in Sweeps /\ snap \in SUBSET Session
  BY DEF IInv, TypeOK, SweepBegin, Active
<1>2. q \in RequestState /\ q.pc # "locked" /\ q.new = req[r].new
      /\ q.op \notin {"login", "refresh"}
  BY <1>1 DEF RequestState, Sweeps, UserTx
<1>3. req' = [req EXCEPT ![r] = q] /\ UNCHANGED <<account, row, replacedBy, expired, family, late>>
  BY DEF SweepBegin
<1> HIDE DEF q
<1>. QED
  BY <1>2, <1>3, StartSound, QuietStep DEF IInv, TypeOK

(* The row is taken only if no other open refresh holds it. *)
LEMMA RefreshConsumeIInv ==
  ASSUME IInv, NEW r \in Request, RefreshConsume(r) PROVE IInv'
<1>0. UNCHANGED <<account, row, replacedBy, expired, family, late>>
  BY DEF RefreshConsume
<1>1. CASE row[req[r].sess] = "active"
  <2>1. req' = [req EXCEPT ![r].pc = "locked"]
    BY <1>1 DEF RefreshConsume, Goto
  <2>2. req' \in [Request -> RequestState]
    BY <2>1 DEF IInv, TypeOK, RequestState
  <2>3. DrawnIds'
    BY <2>1, <1>0 DEF IInv, TypeOK, DrawnIds, RequestState
  <2>4. RequestsSound'
    BY <2>1, <1>0, <1>1 DEF IInv, TypeOK, RequestsSound, RequestState, RefreshConsume, RowLocked
  <2>. QED
    BY <1>0, <2>2, <2>3, <2>4, QuietStep DEF IInv, TypeOK
<1>2. CASE row[req[r].sess] # "active"
  BY <1>0, <1>2, FinishSound, QuietStep DEF RefreshConsume, IInv, TypeOK
<1>. QED
  BY <1>1, <1>2

LEMMA CrashIInv ==
  ASSUME IInv, NEW r \in Request, Crash(r) PROVE IInv'
  BY FinishSound, QuietStep DEF Crash, IInv, TypeOK

LEMMA ReactivateIInv == ASSUME IInv, Reactivate \/ ApproveDeletion PROVE IInv'
  BY QuietStep DEF Reactivate, ApproveDeletion, IInv, TypeOK, DrawnIds, RequestsSound

LEMMA ExpireIInv == ASSUME IInv, NEW s \in Session, Expire(s) PROVE IInv'
  BY QuietStep DEF Expire, IInv, TypeOK, DrawnIds, RequestsSound

-----------------------------------------------------------------------------
(* The steps that write session rows *)

LEMMA LoginIssueIInv ==
  ASSUME IInv, NEW r \in Request, LoginIssue(r) PROVE IInv'
<1> DEFINE n == req[r].new
<1>1. n \in Session /\ row[n] = "absent" /\ n # None
      /\ \A q \in Request : req[q].new = n => q = r
  BY NoneAssumption DEF IInv, LoginIssue, RequestsSound, DrawnIds
<1>2. /\ row' = [row EXCEPT ![n] = "active"]
      /\ family' = [family EXCEPT ![n] = n]
      /\ req' = [req EXCEPT ![r] = Idle] /\ late' \in {late, late \cup {n}}
      /\ UNCHANGED <<account, replacedBy, expired>>
  BY DEF LoginIssue, Finish, Commits
<1> HIDE DEF n
<1>3. TypeOK'
  BY <1>1, <1>2 DEF IInv, TypeOK, Idle, RequestState
<1>4. DrawnIds'
  BY <1>1, <1>2 DEF IInv, TypeOK, DrawnIds, Idle
<1>5. RequestsSound'
  BY <1>1, <1>2 DEF IInv, TypeOK, RequestsSound, Idle
<1>6. FamiliesNamed'
  BY <1>1, <1>2 DEF IInv, TypeOK, FamiliesNamed
<1>7. OneLivePerLogin'
  BY <1>1, <1>2 DEF IInv, TypeOK, FamiliesNamed, OneLivePerLogin, Active
<1>8. LinksSound'
  BY <1>1, <1>2 DEF IInv, TypeOK, LinksSound, Stored
<1>. QED
  BY <1>3, <1>4, <1>5, <1>6, <1>7, <1>8 DEF IInv

(* The consumed session was the family's only live one, because it was     *)
(* live and locked; its replacement becomes the only one.                  *)
LEMMA RefreshCommitIInv ==
  ASSUME IInv, NEW r \in Request, RefreshCommit(r) PROVE IInv'
<1> DEFINE n == req[r].new
           s == req[r].sess
<1>1. /\ n \in Session /\ row[n] = "absent" /\ n # None
      /\ \A q \in Request : req[q].new = n => q = r
      /\ s \in Session /\ row[s] = "active" /\ s # n
      /\ \A q \in Request : req[q].pc = "locked" /\ req[q].sess = s => q = r
  BY NoneAssumption DEF IInv, RefreshCommit, RequestsSound, DrawnIds
<1>2. /\ row' = [row EXCEPT ![s] = "revoked", ![n] = "active"]
      /\ replacedBy' = [replacedBy EXCEPT ![s] = n]
      /\ family' = [family EXCEPT ![n] = family[s]]
      /\ req' = [req EXCEPT ![r] = Idle] /\ late' \in {late, late \cup {n}}
      /\ UNCHANGED <<account, expired>>
  BY DEF RefreshCommit, Finish, Commits
<1> HIDE DEF n, s
<1>3. TypeOK'
  BY <1>1, <1>2 DEF IInv, TypeOK, Idle, RequestState
<1>4. DrawnIds'
  <2>1. \A q \in Request : req[q].new \in Session \cup {None}
    BY DEF IInv, TypeOK, RequestState
  <2>2. \A q \in Request : req'[q].new = IF q = r THEN None ELSE req[q].new
    BY <1>2 DEF IInv, TypeOK, Idle
  <2>3. \A q \in Request : q # r /\ req[q].new # None =>
          req[q].new # n /\ req[q].new # s
    BY <1>1 DEF IInv, DrawnIds
  <2>. QED
    BY <1>1, <1>2, <2>1, <2>2, <2>3 DEF IInv, TypeOK, DrawnIds
<1>5. RequestsSound'
  BY <1>1, <1>2 DEF IInv, TypeOK, RequestsSound, Idle
<1>6. FamiliesNamed'
  BY <1>1, <1>2 DEF IInv, TypeOK, FamiliesNamed
<1>7. OneLivePerLogin'
  BY <1>1, <1>2 DEF IInv, TypeOK, OneLivePerLogin, Active
<1>8. LinksSound'
  BY <1>1, <1>2 DEF IInv, TypeOK, LinksSound, Stored
<1>. QED
  BY <1>3, <1>4, <1>5, <1>6, <1>7, <1>8 DEF IInv

(* Revoking sessions no open refresh holds. *)
LEMMA RevokeSome ==
  ASSUME IInv,
         NEW S \in SUBSET Session,
         \A s \in S : ~RowLocked(s),
         row' = [s \in Session |-> IF s \in S /\ row[s] = "active" THEN "revoked" ELSE row[s]],
         account' \in {"ACTIVE", "SUSPENDED", "DELETED"},
         UNCHANGED req \/ \E r \in Request : Finish(r),
         UNCHANGED <<replacedBy, expired, family, late>>
  PROVE  IInv'
<1>1. TypeOK'
  BY DEF IInv, TypeOK, Finish, Idle, RequestState
<1>2. DrawnIds'
  <2>1. \A q \in Request : req[q].new \in Session \cup {None}
    BY DEF IInv, TypeOK, RequestState
  <2>2. \A q \in Request : req'[q].new \in {None, req[q].new}
    BY DEF IInv, TypeOK, Finish, Idle
  <2>. QED
    BY <2>1, <2>2, NoneAssumption DEF IInv, DrawnIds
<1>3. RequestsSound'
  BY DEF IInv, TypeOK, RequestsSound, RowLocked, Finish, Idle
<1>4. FamiliesNamed' /\ OneLivePerLogin' /\ LinksSound'
  BY DEF IInv, TypeOK, FamiliesNamed, OneLivePerLogin, Active, LinksSound, Stored
<1>. QED
  BY <1>1, <1>2, <1>3, <1>4 DEF IInv

LEMMA RevokeOneIInv ==
  ASSUME IInv, NEW s \in Session, RevokeOne(s) PROVE IInv'
<1>1. row' = [t \in Session |-> IF t \in {s} /\ row[t] = "active" THEN "revoked" ELSE row[t]]
  BY DEF RevokeOne, IInv, TypeOK
<1>2. {s} \in SUBSET Session /\ \A t \in {s} : ~RowLocked(t)
  BY DEF RevokeOne
<1>3. account' \in {"ACTIVE", "SUSPENDED", "DELETED"} /\ UNCHANGED <<req, replacedBy, expired, family, late>>
  BY DEF RevokeOne, IInv, TypeOK
<1>. QED
  BY <1>1, <1>2, <1>3, RevokeSome

LEMMA SweepEndIInv ==
  ASSUME IInv, NEW r \in Request, SweepEnd(r) PROVE IInv'
<1>1. req[r].snap \in SUBSET Session
  BY DEF IInv, TypeOK, RequestState
<1>2. account' \in {"ACTIVE", "SUSPENDED", "DELETED"}
  BY DEF SweepEnd, IInv, TypeOK
<1>. QED
  BY <1>1, <1>2, RevokeSome DEF SweepEnd

LEMMA CleanupIInv == ASSUME IInv, Cleanup PROVE IInv'
<1> DEFINE gone == {s \in expired : row[s] = "revoked"}
<1>1. /\ gone \in SUBSET Session
      /\ \A s \in gone : row[s] = "revoked"
      /\ row' = [s \in Session |-> IF s \in gone THEN "purged" ELSE row[s]]
      /\ replacedBy' = [s \in Session |->
           IF s \in gone \/ replacedBy[s] \in gone THEN None ELSE replacedBy[s]]
      /\ UNCHANGED <<account, expired, family, late, req>>
  BY DEF Cleanup, IInv, TypeOK
<1> HIDE DEF gone
<1>2. TypeOK'
  BY <1>1 DEF IInv, TypeOK
<1>3. DrawnIds' /\ RequestsSound'
  BY <1>1 DEF IInv, TypeOK, DrawnIds, RequestsSound, RequestState
<1>4. FamiliesNamed' /\ OneLivePerLogin'
  BY <1>1 DEF IInv, TypeOK, FamiliesNamed, OneLivePerLogin, Active
<1>5. LinksSound'
  BY <1>1, NoneAssumption DEF IInv, TypeOK, LinksSound, Stored
<1>. QED
  BY <1>2, <1>3, <1>4, <1>5 DEF IInv

-----------------------------------------------------------------------------

LEMMA NextIInv == IInv /\ [Next]_vars => IInv'
<1>. SUFFICES ASSUME IInv, [Next]_vars PROVE IInv'
  OBVIOUS
<1>1. CASE UNCHANGED vars
  BY <1>1, StutterIInv
<1>2. ASSUME NEW r \in Request,
             \/ \E n \in Session : LoginCheck(r, n)
             \/ \E s, n \in Session : RefreshRead(r, s, n)
             \/ \E s \in Session : RefreshReplay(r, s)
             \/ \E s \in Session : LogoutAll(r, s) \/ ChangePassword(r, s)
             \/ UpdateStatus(r) \/ Remove(r)
      PROVE  IInv'
  BY <1>2, LoginCheckIInv, RefreshReadIInv, RefreshReplayIInv, OwnerRequestIInv, AdminRequestIInv
     DEF LogoutAll, ChangePassword, UpdateStatus, Remove, Sweeps, UserTx
<1>3. ASSUME NEW r \in Request, Progress(r) \/ Crash(r) PROVE IInv'
  BY <1>3, LoginRecordIInv, LoginIssueIInv, RefreshConsumeIInv, RefreshCommitIInv,
     SweepBeginIInv, SweepEndIInv, CrashIInv DEF Progress
<1>4. ASSUME NEW s \in Session, Logout(s) \/ RevokeSession(s) \/ Expire(s) PROVE IInv'
  BY <1>4, RevokeOneIInv, ExpireIInv DEF Logout, RevokeSession
<1>5. CASE Reactivate \/ ApproveDeletion
  BY <1>5, ReactivateIInv
<1>6. CASE Cleanup
  BY <1>6, CleanupIInv
<1>. QED
  BY <1>1, <1>2, <1>3, <1>4, <1>5, <1>6 DEF Next

LEMMA SpecIInv == Spec => []IInv
<1>1. Init => IInv
  BY InitIInv
<1>2. IInv /\ [Next]_vars => IInv'
  BY NextIInv
<1>. QED
  BY <1>1, <1>2, PTL DEF Spec

(* The variables keep their types. *)
THEOREM TypeCorrect == Spec => []TypeOK
<1>1. IInv => TypeOK
  BY DEF IInv
<1>. QED
  BY <1>1, SpecIInv, PTL

(* Whatever number of refreshes, retries, revocations and crashes overlap, *)
(* a login never has two usable refresh tokens.                            *)
THEOREM SingleLiveToken == Spec => []OneLivePerLogin
<1>1. IInv => OneLivePerLogin
  BY DEF IInv
<1>. QED
  BY <1>1, SpecIInv, PTL

(* replaced_by_id always names the one session that replaced a consumed    *)
(* one, of the same login.                                                 *)
THEOREM LinksAreSound == Spec => []LinksSound
<1>1. IInv => LinksSound
  BY DEF IInv
<1>. QED
  BY <1>1, SpecIInv, PTL

-----------------------------------------------------------------------------
(***************************************************************************)
(* What a replayed token's revocation can miss.  While its UPDATE runs,    *)
(* a live session of the family is in the snapshot, or the family's        *)
(* session in the snapshot has since been consumed.                        *)
(***************************************************************************)
Ended(s) == row[s] \in {"revoked", "purged"}

SeenOrRotated(r, s) ==
  \/ s \in req[r].snap
  \/ \E t \in req[r].snap : family[t] = family[s] /\ Ended(t)

ReplayCovered ==
  \A r \in Request : req[r].op = "replay" =>
    /\ req[r].sess \in Session /\ row[req[r].sess] # "absent"
    /\ req[r].pc = "sweeping" =>
         \A s \in Active : family[s] = family[req[r].sess] => SeenOrRotated(r, s)

(* Of the rows only: an issued session keeps its family, an ended one stays *)
(* ended, and a session that becomes live has a new family or continues    *)
(* that of a live one it ends.                                             *)
RowsMoveOn ==
  /\ \A s \in Session : row[s] # "absent" => row'[s] # "absent" /\ family'[s] = family[s]
  /\ \A s \in Session : Ended(s) => Ended(s)'
  /\ \A s \in Session : row'[s] = "active" /\ row[s] # "active" =>
       \/ family'[s] = s /\ row[s] = "absent"
       \/ \E t \in Active : family'[s] = family[t] /\ Ended(t)'

LEMMA NextRowsMoveOn == IInv /\ [Next]_vars => RowsMoveOn
<1>. SUFFICES ASSUME IInv, [Next]_vars PROVE RowsMoveOn
  OBVIOUS
<1>0. TypeOK
  BY DEF IInv
<1>1. CASE UNCHANGED <<row, family>>
  BY <1>1 DEF RowsMoveOn, Ended
<1>2. ASSUME NEW r \in Request, LoginIssue(r) PROVE RowsMoveOn
  <2>1. req[r].new \in Session /\ row[req[r].new] = "absent"
    BY <1>2, NoneAssumption DEF IInv, LoginIssue, RequestsSound, DrawnIds
  <2>. QED
    BY <1>0, <1>2, <2>1 DEF LoginIssue, RowsMoveOn, TypeOK, Ended
<1>3. ASSUME NEW r \in Request, RefreshCommit(r) PROVE RowsMoveOn
  <2>1. /\ req[r].new \in Session /\ row[req[r].new] = "absent"
        /\ req[r].sess \in Session /\ row[req[r].sess] = "active"
    BY <1>3, NoneAssumption DEF IInv, RefreshCommit, RequestsSound, DrawnIds
  <2>. QED
    BY <1>0, <1>3, <2>1 DEF RefreshCommit, RowsMoveOn, TypeOK, Ended, Active
<1>4. ASSUME NEW s \in Session, RevokeOne(s) PROVE RowsMoveOn
  BY <1>0, <1>4 DEF RevokeOne, RowsMoveOn, TypeOK, Ended
<1>5. ASSUME NEW r \in Request, SweepEnd(r) PROVE RowsMoveOn
  BY <1>0, <1>5 DEF SweepEnd, RowsMoveOn, TypeOK, Ended
<1>6. CASE Cleanup
  BY <1>0, <1>6 DEF Cleanup, RowsMoveOn, TypeOK, Ended
<1>. QED
  BY <1>1, <1>2, <1>3, <1>4, <1>5, <1>6 DEF Next, Progress, vars, LoginCheck, LoginRecord,
     RefreshRead, RefreshReplay, RefreshConsume, LogoutAll, ChangePassword, OwnerRequest,
     UpdateStatus, Remove, AdminRequest, SweepBegin, Logout, RevokeSession, Reactivate, ApproveDeletion,
     Crash, Expire

(* How a request gets to be a replay, and a replay to be sweeping. *)
LEMMA ReplayOrigin ==
  ASSUME IInv, [Next]_vars, NEW r \in Request, req'[r].op = "replay"
  PROVE  \/ UNCHANGED req[r]
         \/ /\ req'[r].pc # "sweeping"
            /\ req'[r].sess \in Session /\ row[req'[r].sess] = "revoked"
         \/ /\ req[r].op = "replay" /\ req'[r].sess = req[r].sess
            /\ req'[r].snap = Active /\ UNCHANGED <<row, family>>
<1>0. req \in [Request -> RequestState] /\ req[r] \in RequestState
  BY DEF IInv, TypeOK
<1>1. ASSUME NEW q \in Request, NEW s \in Session, NEW n \in Session,
             LoginCheck(q, n) \/ RefreshRead(q, s, n)
      PROVE  UNCHANGED req[r]
  BY <1>0, <1>1 DEF LoginCheck, RefreshRead, Idle
<1>2. ASSUME NEW q \in Request, NEW s \in Session, RefreshReplay(q, s)
      PROVE  \/ UNCHANGED req[r]
             \/ /\ req'[r].pc # "sweeping"
                /\ req'[r].sess \in Session /\ row[req'[r].sess] = "revoked"
  BY <1>0, <1>2 DEF RefreshReplay, Idle
<1>3. ASSUME NEW q \in Request, NEW op \in Sweeps \ {"replay"},
             (\E s \in Session : OwnerRequest(q, s, op)) \/ AdminRequest(q, op)
      PROVE  UNCHANGED req[r]
  BY <1>0, <1>3 DEF OwnerRequest, AdminRequest, Idle
<1>4. ASSUME NEW q \in Request, SweepBegin(q)
      PROVE  \/ UNCHANGED req[r]
             \/ /\ req[r].op = "replay" /\ req'[r].sess = req[r].sess
                /\ req'[r].snap = Active /\ UNCHANGED <<row, family>>
  BY <1>0, <1>4 DEF SweepBegin, RequestState
<1>5. ASSUME NEW q \in Request,
             LoginRecord(q) \/ LoginIssue(q) \/ RefreshConsume(q) \/ RefreshCommit(q)
             \/ SweepEnd(q) \/ Crash(q)
      PROVE  UNCHANGED req[r]
  <2>1. CASE Finish(q)
    BY <1>0, <2>1 DEF Finish, Idle
  <2>2. CASE LoginRecord(q) \/ RefreshConsume(q)
    BY <1>0, <2>1, <2>2 DEF LoginRecord, RefreshConsume, Goto, RequestState
  <2>. QED
    BY <1>5, <2>1, <2>2 DEF LoginIssue, RefreshCommit, SweepEnd, Crash
<1>6. CASE UNCHANGED req
  BY <1>6
<1>7. \/ \E q \in Request :
          \/ \E s, n \in Session : LoginCheck(q, n) \/ RefreshRead(q, s, n)
          \/ \E s \in Session : RefreshReplay(q, s)
          \/ \E op \in Sweeps \ {"replay"} :
               (\E s \in Session : OwnerRequest(q, s, op)) \/ AdminRequest(q, op)
          \/ SweepBegin(q)
          \/ LoginRecord(q) \/ LoginIssue(q) \/ RefreshConsume(q) \/ RefreshCommit(q)
             \/ SweepEnd(q) \/ Crash(q)
      \/ UNCHANGED req
  BY DEF Next, Progress, vars, LogoutAll, ChangePassword, UpdateStatus, Remove, Sweeps, UserTx,
     Logout, RevokeSession, RevokeOne, Expire, Reactivate, ApproveDeletion, Cleanup
<1>. QED
  BY <1>1, <1>2, <1>3, <1>4, <1>5, <1>6, <1>7

LEMMA NextReplayCovered == IInv /\ ReplayCovered /\ [Next]_vars => ReplayCovered'
<1>. SUFFICES ASSUME IInv, ReplayCovered, [Next]_vars,
                     NEW r \in Request, req'[r].op = "replay"
              PROVE  /\ req'[r].sess \in Session /\ row'[req'[r].sess] # "absent"
                     /\ req'[r].pc = "sweeping" =>
                          \A s \in Active' : family'[s] = family'[req'[r].sess] => SeenOrRotated(r, s)'
  BY DEF ReplayCovered
<1>1. RowsMoveOn
  BY NextRowsMoveOn
<1>2. CASE UNCHANGED req[r]
  <2>1. req[r].op = "replay" /\ req[r].sess \in Session /\ row[req[r].sess] # "absent"
    BY <1>2 DEF ReplayCovered
  <2>2. req'[r].sess \in Session /\ row'[req'[r].sess] # "absent"
        /\ family'[req'[r].sess] = family[req[r].sess]
    BY <1>1, <1>2, <2>1 DEF RowsMoveOn
  <2>3. ASSUME req'[r].pc = "sweeping", NEW s \in Active', family'[s] = family'[req'[r].sess]
        PROVE  SeenOrRotated(r, s)'
    <3>0. req[r].snap \in SUBSET Session /\ req'[r].snap = req[r].snap /\ s \in Session
      BY <1>2, <2>3 DEF IInv, TypeOK, RequestState, Active
    <3>1. CASE row[s] = "active"
      <4>1. family[s] = family[req[r].sess] /\ s \in Active
        BY <1>1, <2>2, <2>3, <3>0, <3>1 DEF RowsMoveOn, Active
      <4>2. SeenOrRotated(r, s)
        BY <1>2, <2>1, <2>3, <4>1 DEF ReplayCovered
      <4>. QED
        BY <1>1, <3>0, <3>1, <4>2 DEF SeenOrRotated, RowsMoveOn, Ended
    <3>2. CASE row[s] # "active"
      <4>1. PICK t \in Active : family'[s] = family[t] /\ Ended(t)'
        <5>1. ~(family'[s] = s /\ row[s] = "absent")
          BY <2>1, <2>2, <2>3 DEF IInv, FamiliesNamed
        <5>. QED
          BY <1>1, <2>3, <3>0, <3>2, <5>1 DEF RowsMoveOn, Active
      <4>2. SeenOrRotated(r, t)
        BY <1>2, <2>1, <2>2, <2>3, <4>1 DEF ReplayCovered
      <4>3. t \in Session /\ family'[t] = family[t]
        BY <1>1, <4>1 DEF RowsMoveOn, Active
      <4>. QED
        BY <1>1, <3>0, <4>1, <4>2, <4>3 DEF SeenOrRotated, RowsMoveOn, Ended
    <3>. QED
      BY <3>1, <3>2
  <2>. QED
    BY <2>2, <2>3
<1>3. CASE /\ req'[r].pc # "sweeping"
           /\ req'[r].sess \in Session /\ row[req'[r].sess] = "revoked"
  BY <1>1, <1>3 DEF RowsMoveOn
<1>4. CASE /\ req[r].op = "replay" /\ req'[r].sess = req[r].sess
           /\ req'[r].snap = Active /\ UNCHANGED <<row, family>>
  BY <1>4 DEF ReplayCovered, SeenOrRotated, Active
<1>. QED
  BY <1>2, <1>3, <1>4, ReplayOrigin

(* After the revocation a replayed token started, a session of its family  *)
(* is live only if the one the statement saw was consumed meanwhile.       *)
THEOREM ReplayMisses == Spec => ReplayMissesOnlyRotations
<1>1. Init => ReplayCovered
  BY DEF Init, ReplayCovered, Idle
<1>2. IInv /\ ReplayCovered /\ [Next]_vars => ReplayCovered'
  BY NextReplayCovered
<1>3. IInv /\ ReplayCovered /\ [Next]_vars =>
        [\A r \in Request : SweepEnd(r) /\ req[r].op = "replay" =>
           \A s \in Session :
             row'[s] = "active" /\ family[s] = family[req[r].sess] =>
               \E t \in req[r].snap : family[t] = family[s] /\ row[t] # "active"]_vars
  <2>. SUFFICES ASSUME IInv, ReplayCovered, NEW r \in Request, SweepEnd(r),
                       req[r].op = "replay", NEW s \in Session,
                       row'[s] = "active", family[s] = family[req[r].sess]
                PROVE  \E t \in req[r].snap : family[t] = family[s] /\ row[t] # "active"
    OBVIOUS
  <2>1. row[s] = "active" /\ s \notin req[r].snap
    BY DEF SweepEnd, IInv, TypeOK
  <2>2. SeenOrRotated(r, s)
    BY <2>1 DEF ReplayCovered, SweepEnd, Active
  <2>. QED
    BY <2>1, <2>2 DEF SeenOrRotated, Ended
<1>. QED
  BY <1>1, <1>2, <1>3, SpecIInv, PTL DEF Spec, ReplayMissesOnlyRotations

-----------------------------------------------------------------------------
(* What a replay revokes while no refresh of its family is between the     *)
(* consumption of its session and the commit                               *)

Replaying(r) == req[r].op = "replay" /\ req[r].pc = "sweeping"

RefreshApart ==
  \A q, r \in Request :
    req[q].pc = "locked" /\ Replaying(r) => family[req[q].sess] # family[req[r].sess]

(* The statement's snapshot has every live session of the family. *)
ReplaySnapped ==
  \A r \in Request : Replaying(r) =>
    \A s \in Active : family[s] = family[req[r].sess] => s \in req[r].snap

(* Sessions come alive by a login, or by the commit of a refresh. *)
LEMMA NewlyActive ==
  ASSUME IInv, [Next]_vars, NEW s \in Session, row'[s] = "active", row[s] # "active"
  PROVE  \/ family'[s] = s /\ row[s] = "absent"
         \/ \E q \in Request : req[q].pc = "locked" /\ family'[s] = family[req[q].sess]
<1>0. TypeOK
  BY DEF IInv
<1>1. ASSUME NEW r \in Request, LoginIssue(r) PROVE family'[s] = s /\ row[s] = "absent"
  <2>1. req[r].new \in Session /\ row[req[r].new] = "absent"
    BY <1>1, NoneAssumption DEF IInv, LoginIssue, RequestsSound, DrawnIds
  <2>. QED
    BY <1>0, <1>1, <2>1 DEF LoginIssue, TypeOK
<1>2. ASSUME NEW r \in Request, RefreshCommit(r)
      PROVE  req[r].pc = "locked" /\ family'[s] = family[req[r].sess]
  <2>1. s = req[r].new
    BY <1>0, <1>2 DEF RefreshCommit, TypeOK
  <2>. QED
    BY <1>0, <1>2, <2>1 DEF RefreshCommit, TypeOK
<1>3. ASSUME NEW t \in Session, RevokeOne(t) PROVE FALSE
  BY <1>0, <1>3 DEF RevokeOne, TypeOK
<1>4. ASSUME NEW r \in Request, SweepEnd(r) PROVE FALSE
  BY <1>0, <1>4 DEF SweepEnd, TypeOK
<1>5. CASE Cleanup
  BY <1>0, <1>5 DEF Cleanup, TypeOK
<1>6. CASE UNCHANGED row
  BY <1>6
<1>. QED
  BY <1>1, <1>2, <1>3, <1>4, <1>5, <1>6 DEF Next, Progress, vars, LoginCheck, LoginRecord,
     RefreshRead, RefreshReplay, RefreshConsume, LogoutAll, ChangePassword, OwnerRequest,
     UpdateStatus, Remove, AdminRequest, SweepBegin, Logout, RevokeSession, Reactivate, ApproveDeletion,
     Crash, Expire

LEMMA NextReplaySnapped ==
  IInv /\ ReplayCovered /\ ReplaySnapped /\ RefreshApart /\ [Next]_vars => ReplaySnapped'
<1>. SUFFICES ASSUME IInv, ReplayCovered, ReplaySnapped, RefreshApart, [Next]_vars,
                     NEW r \in Request, Replaying(r)',
                     NEW s \in Active', family'[s] = family'[req'[r].sess]
              PROVE  s \in req'[r].snap
  BY DEF ReplaySnapped
<1>1. RowsMoveOn
  BY NextRowsMoveOn
<1>2. s \in Session /\ row'[s] = "active"
  BY DEF Active
<1>3. CASE UNCHANGED req[r]
  <2>1. Replaying(r) /\ req[r].sess \in Session /\ row[req[r].sess] # "absent"
    BY <1>3 DEF ReplayCovered, Replaying
  <2>2. family'[s] = family[req[r].sess]
    BY <1>1, <1>3, <2>1 DEF RowsMoveOn
  <2>3. CASE row[s] = "active"
    BY <1>1, <1>2, <1>3, <2>1, <2>2, <2>3 DEF RowsMoveOn, ReplaySnapped, Active
  <2>4. CASE row[s] # "active"
    <3>1. ~(family'[s] = s /\ row[s] = "absent")
      BY <2>1, <2>2 DEF IInv, FamiliesNamed
    <3>2. ~\E q \in Request : req[q].pc = "locked" /\ family'[s] = family[req[q].sess]
      BY <2>1, <2>2 DEF RefreshApart
    <3>. QED
      BY <1>2, <2>4, <3>1, <3>2, NewlyActive
  <2>. QED
    BY <2>3, <2>4
<1>4. CASE req'[r].pc # "sweeping"
  BY <1>4 DEF Replaying
<1>5. CASE req'[r].snap = Active /\ UNCHANGED <<row, family>>
  BY <1>5 DEF Active
<1>. QED
  BY <1>3, <1>4, <1>5, ReplayOrigin DEF Replaying

(* Reuse detection does revoke the entire token family, as the document    *)
(* says, if no refresh of the family has consumed its session and not yet  *)
(* committed while the statement runs: whatever other logins, refreshes,   *)
(* revocations and crashes happen at the same time.                        *)
THEOREM ReplayRevokesWhenApart == Spec /\ []RefreshApart => ReplayRevokesFamily
<1>1. Init => ReplayCovered /\ ReplaySnapped
  BY DEF Init, ReplayCovered, ReplaySnapped, Replaying, Idle
<1>2. IInv /\ ReplayCovered /\ [Next]_vars => ReplayCovered'
  BY NextReplayCovered
<1>3. IInv /\ ReplayCovered /\ ReplaySnapped /\ RefreshApart /\ [Next]_vars => ReplaySnapped'
  BY NextReplaySnapped
<1>4. IInv /\ ReplaySnapped /\ [Next]_vars =>
        [\A r \in Request : SweepEnd(r) /\ req[r].op = "replay" =>
           \A s \in Session : family[s] = family[req[r].sess] => row'[s] # "active"]_vars
  <2>. SUFFICES ASSUME IInv, ReplaySnapped, NEW r \in Request, SweepEnd(r), req[r].op = "replay",
                       NEW s \in Session, family[s] = family[req[r].sess], row'[s] = "active"
                PROVE  FALSE
    OBVIOUS
  <2>1. row[s] = "active" /\ s \notin req[r].snap
    BY DEF SweepEnd, IInv, TypeOK
  <2>. QED
    BY <2>1 DEF ReplaySnapped, Replaying, SweepEnd, Active
<1>. QED
  BY <1>1, <1>2, <1>3, <1>4, SpecIInv, PTL DEF Spec, ReplayRevokesFamily

-----------------------------------------------------------------------------
(***************************************************************************)
(* The sessions implement TokenFamilies                                    *)
(***************************************************************************)

(* LiveOf is determined: by a live session of the family, or by its absence. *)
LEMMA LiveOfIs ==
  ASSUME OneLivePerLogin, NEW s \in Active
  PROVE  LiveOf(family[s]) = s
<1>. DEFINE P(t) == t \in Active /\ family[t] = family[s]
<1>1. P(CHOOSE t \in Active : family[t] = family[s])
  OBVIOUS
<1>. QED
  BY <1>1 DEF LiveOf, OneLivePerLogin

LEMMA LiveOfNone ==
  ASSUME NEW f, \A s \in Active : family[s] # f
  PROVE  LiveOf(f) = None
  BY DEF LiveOf

(* A step that leaves the live sessions and their families alone leaves    *)
(* the live token of every family alone.                                   *)
LEMMA LiveOfSame ==
  ASSUME OneLivePerLogin, OneLivePerLogin', NEW f,
         \A s \in Session : s \in Active /\ family[s] = f <=> s \in Active' /\ family'[s] = f
  PROVE  LiveOf(f)' = LiveOf(f)
<1>0. Active \subseteq Session /\ Active' \subseteq Session
  BY DEF Active
<1>1. CASE \E s \in Active : family[s] = f
  <2>1. PICK s \in Active : family[s] = f
    BY <1>1
  <2>2. s \in Active' /\ family'[s] = f
    BY <1>0, <2>1
  <2>3. LiveOf(f) = s
    BY <2>1, LiveOfIs
  <2>4. (CHOOSE t \in Active' : family'[t] = f) = s
    BY <2>2 DEF OneLivePerLogin
  <2>. QED
    BY <2>2, <2>3, <2>4 DEF LiveOf
<1>2. CASE ~\E s \in Active : family[s] = f
  BY <1>0, <1>2 DEF LiveOf
<1>. QED
  BY <1>1, <1>2

Issued == {s \in Session : row[s] # "absent"}

(* Steps that issue nothing: the families that lose their live session end. *)
LEMMA EndStep ==
  ASSUME IInv, IInv', Active' \subseteq Active, UNCHANGED family, Issued' = Issued
  PROVE  Families!Next
<1> DEFINE F == {family[s] : s \in Active \ Active'}
<1>1. F \in SUBSET Session
  BY DEF IInv, FamiliesNamed, Active
<1>2. Active \subseteq Session /\ Active' \subseteq Session
  BY DEF Active
<1>3. ASSUME NEW f \in F PROVE LiveOf(f)' = None
  <2>1. PICK s \in Active \ Active' : f = family[s]
    BY <1>3
  <2>2. \A t \in Active' : family'[t] # f
    BY <2>1 DEF IInv, OneLivePerLogin
  <2>. QED
    BY <2>2 DEF LiveOf
<1>4. ASSUME NEW f \in Session, f \notin F PROVE LiveOf(f)' = LiveOf(f)
  <2>1. \A s \in Session : s \in Active /\ family[s] = f <=> s \in Active' /\ family'[s] = f
    BY <1>4
  <2>. QED
    BY <2>1, LiveOfSame DEF IInv
<1>5. Families!End(F)
  BY <1>3, <1>4 DEF Families!End, Issued
<1>. QED
  BY <1>1, <1>5 DEF Families!Next

LEMMA OpenStep ==
  ASSUME IInv, IInv', NEW r \in Request, LoginIssue(r)
  PROVE  Families!Next
<1>1. PICK n \in Session : n = req[r].new /\ row[n] = "absent"
  BY NoneAssumption DEF IInv, LoginIssue, RequestsSound, DrawnIds
<1>2. row' = [row EXCEPT ![n] = "active"] /\ family' = [family EXCEPT ![n] = n]
      /\ row \in [Session -> {"absent", "active", "revoked", "purged"}]
      /\ family \in [Session -> Session \cup {None}]
  BY <1>1 DEF LoginIssue, IInv, TypeOK
<1>3. LiveOf(n)' = n
  <2>1. n \in Active' /\ family'[n] = n
    BY <1>1, <1>2 DEF Active
  <2>2. (CHOOSE t \in Active' : family'[t] = n) = n
    BY <2>1 DEF IInv, OneLivePerLogin
  <2>. QED
    BY <2>1, <2>2 DEF LiveOf
<1>4. ASSUME NEW f \in Session, f # n PROVE LiveOf(f)' = LiveOf(f)
  <2>1. \A s \in Session : s \in Active /\ family[s] = f <=> s \in Active' /\ family'[s] = f
    BY <1>1, <1>2, <1>4 DEF Active
  <2>. QED
    BY <2>1, LiveOfSame DEF IInv
<1>5. Issued' = Issued \cup {n} /\ n \notin Issued
  BY <1>1, <1>2 DEF Issued
<1>6. Families!Open(n)
  BY <1>1, <1>3, <1>4, <1>5 DEF Families!Open, Issued
<1>. QED
  BY <1>1, <1>6 DEF Families!Next

LEMMA RotateStep ==
  ASSUME IInv, IInv', NEW r \in Request, RefreshCommit(r)
  PROVE  Families!Next
<1>1. PICK n \in Session, s \in Session, g \in Session :
        /\ n = req[r].new /\ row[n] = "absent"
        /\ s = req[r].sess /\ row[s] = "active"
        /\ g = family[s]
  BY NoneAssumption DEF IInv, RefreshCommit, RequestsSound, DrawnIds, FamiliesNamed
<1>2. /\ row' = [row EXCEPT ![s] = "revoked", ![n] = "active"]
      /\ family' = [family EXCEPT ![n] = g]
      /\ row \in [Session -> {"absent", "active", "revoked", "purged"}]
      /\ family \in [Session -> Session \cup {None}]
  BY <1>1 DEF RefreshCommit, IInv, TypeOK
<1>3. LiveOf(g) # None
  BY <1>1, LiveOfIs, NoneAssumption DEF IInv, Active
<1>4. LiveOf(g)' = n
  <2>1. n \in Active' /\ family'[n] = g
    BY <1>1, <1>2 DEF Active
  <2>2. (CHOOSE t \in Active' : family'[t] = g) = n
    BY <2>1 DEF IInv, OneLivePerLogin
  <2>. QED
    BY <2>1, <2>2 DEF LiveOf
<1>5. ASSUME NEW f \in Session, f # g PROVE LiveOf(f)' = LiveOf(f)
  <2>1. \A t \in Session : t \in Active /\ family[t] = f <=> t \in Active' /\ family'[t] = f
    BY <1>1, <1>2, <1>5 DEF Active
  <2>. QED
    BY <2>1, LiveOfSame DEF IInv
<1>6. Issued' = Issued \cup {n} /\ n \notin Issued
  BY <1>1, <1>2 DEF Issued
<1>7. Families!Rotate(g, n)
  BY <1>1, <1>3, <1>4, <1>5, <1>6 DEF Families!Rotate, Issued
<1>. QED
  BY <1>1, <1>7 DEF Families!Next

LEMMA NextFamilies == IInv /\ IInv' /\ [Next]_vars => [Families!Next]_(Families!familyVars)
<1>. SUFFICES ASSUME IInv, IInv', [Next]_vars PROVE Families!Next
  OBVIOUS
<1>0. TypeOK
  BY DEF IInv
<1>1. ASSUME NEW r \in Request, LoginIssue(r) PROVE Families!Next
  BY <1>1, OpenStep
<1>2. ASSUME NEW r \in Request, RefreshCommit(r) PROVE Families!Next
  BY <1>2, RotateStep
<1>3. ASSUME NEW s \in Session, RevokeOne(s) PROVE Families!Next
  BY <1>0, <1>3, EndStep DEF RevokeOne, TypeOK, Active, Issued
<1>4. ASSUME NEW r \in Request, SweepEnd(r) PROVE Families!Next
  BY <1>0, <1>4, EndStep DEF SweepEnd, TypeOK, Active, Issued
<1>5. CASE Cleanup
  BY <1>0, <1>5, EndStep DEF Cleanup, TypeOK, Active, Issued
<1>6. CASE UNCHANGED <<row, family>>
  BY <1>6, EndStep DEF Active, Issued
<1>. QED
  BY <1>1, <1>2, <1>3, <1>4, <1>5, <1>6 DEF Next, Progress, vars, LoginCheck, LoginRecord,
     RefreshRead, RefreshReplay, RefreshConsume, LogoutAll, ChangePassword, OwnerRequest,
     UpdateStatus, Remove, AdminRequest, SweepBegin, Logout, RevokeSession, Reactivate, ApproveDeletion,
     Crash, Expire

(* The endpoints keep the promise of TokenFamilies: every database step is *)
(* an exchange of the live token, the opening of a family, the end of some, *)
(* or no visible step at all.                                              *)
THEOREM SessionsImplementFamilies == Spec => ImplementsFamilies
<1>1. Init => Families!Init
  BY DEF Init, Families!Init, LiveOf, Active
<1>2. IInv /\ IInv' /\ [Next]_vars => [Families!Next]_(Families!familyVars)
  BY NextFamilies
<1>. QED
  BY <1>1, <1>2, SpecIInv, PTL DEF Spec, ImplementsFamilies, Families!Spec
-----------------------------------------------------------------------------
(***************************************************************************)
(* A refusal is for good.  The account leaves use, short of a deletion,    *)
(* only in the transaction that revokes its sessions, and that transaction *)
(* has in its snapshot every live session that is not late.                *)
(***************************************************************************)
Closer(r) == req[r].pc = "sweeping" /\ req[r].op \in {"suspend", "remove"}

Accounted ==
  /\ \A s \in Active \ late : account \in {"ACTIVE", "DELETED"}
  /\ \A r \in Request : Closer(r) => Active \ late \subseteq req[r].snap

(* How a request gets to be sweeping.                                      *)
LEMMA SweepOrigin ==
  ASSUME IInv, [Next]_vars, NEW r \in Request, req'[r].pc = "sweeping"
  PROVE  UNCHANGED req[r] \/ SweepBegin(r)
<1>0. req \in [Request -> RequestState] /\ req[r] \in RequestState
  BY DEF IInv, TypeOK
<1>1. ASSUME NEW q \in Request, NEW s \in Session, NEW n \in Session,
             LoginCheck(q, n) \/ RefreshRead(q, s, n) \/ RefreshReplay(q, s)
      PROVE  UNCHANGED req[r]
  BY <1>0, <1>1 DEF LoginCheck, RefreshRead, RefreshReplay, Idle
<1>2. ASSUME NEW q \in Request, NEW op \in Sweeps,
             (\E s \in Session : OwnerRequest(q, s, op)) \/ AdminRequest(q, op)
      PROVE  UNCHANGED req[r]
  BY <1>0, <1>2 DEF OwnerRequest, AdminRequest, Idle
<1>3. ASSUME NEW q \in Request, SweepBegin(q) PROVE UNCHANGED req[r] \/ SweepBegin(r)
  BY <1>0, <1>3 DEF SweepBegin
<1>4. ASSUME NEW q \in Request,
             LoginRecord(q) \/ LoginIssue(q) \/ RefreshConsume(q) \/ RefreshCommit(q)
             \/ SweepEnd(q) \/ Crash(q)
      PROVE  UNCHANGED req[r]
  <2>1. CASE Finish(q)
    BY <1>0, <2>1 DEF Finish, Idle
  <2>2. CASE LoginRecord(q) \/ RefreshConsume(q)
    BY <1>0, <2>1, <2>2 DEF LoginRecord, RefreshConsume, Goto, RequestState
  <2>. QED
    BY <1>4, <2>1, <2>2 DEF LoginIssue, RefreshCommit, SweepEnd, Crash
<1>5. \/ \E q \in Request :
          \/ \E s, n \in Session :
               LoginCheck(q, n) \/ RefreshRead(q, s, n) \/ RefreshReplay(q, s)
          \/ \E op \in Sweeps :
               (\E s \in Session : OwnerRequest(q, s, op)) \/ AdminRequest(q, op)
          \/ SweepBegin(q)
          \/ LoginRecord(q) \/ LoginIssue(q) \/ RefreshConsume(q) \/ RefreshCommit(q)
             \/ SweepEnd(q) \/ Crash(q)
      \/ UNCHANGED req
  BY DEF Next, Progress, vars, LogoutAll, ChangePassword, UpdateStatus, Remove, Sweeps, UserTx,
     Logout, RevokeSession, RevokeOne, Expire, Reactivate, ApproveDeletion, Cleanup
<1>. QED
  BY <1>1, <1>2, <1>3, <1>4, <1>5

(* Of the account and the history only.                                    *)
LEMMA AccountMoves ==
  ASSUME IInv, [Next]_vars
  PROVE  /\ expired \subseteq expired' /\ late \subseteq late'
         /\ account = "DELETED" => account' = "DELETED"
         /\ account' = "SUSPENDED" =>
              account = "SUSPENDED" \/ \E r \in Request : SweepEnd(r) /\ req[r].op = "suspend"
<1>1. expired \subseteq expired'
  BY DEF Next, Progress, vars, LoginCheck, LoginRecord, LoginIssue,
     RefreshRead, RefreshReplay, RefreshConsume, RefreshCommit, LogoutAll, ChangePassword,
     OwnerRequest, UpdateStatus, Remove, AdminRequest, SweepBegin, SweepEnd, Logout,
     RevokeSession, RevokeOne, Reactivate, ApproveDeletion, Crash, Expire, Cleanup
<1>2. late \subseteq late'
  BY DEF Next, Progress, vars, LoginCheck, LoginRecord, LoginIssue,
     RefreshRead, RefreshReplay, RefreshConsume, RefreshCommit, LogoutAll, ChangePassword,
     OwnerRequest, UpdateStatus, Remove, AdminRequest, SweepBegin, SweepEnd, Logout,
     RevokeSession, RevokeOne, Reactivate, ApproveDeletion, Crash, Expire, Cleanup, Commits
<1>3. ASSUME NEW r \in Request, SweepEnd(r)
      PROVE  /\ account = "DELETED" => account' = "DELETED"
             /\ account' = "SUSPENDED" => account = "SUSPENDED" \/ req[r].op = "suspend"
  BY <1>3 DEF SweepEnd
<1>4. CASE Reactivate \/ ApproveDeletion
  BY <1>4 DEF Reactivate, ApproveDeletion
<1>5. \/ account' = account \/ Reactivate \/ ApproveDeletion
      \/ \E r \in Request : SweepEnd(r)
  BY DEF Next, Progress, vars, LoginCheck, LoginRecord, LoginIssue,
     RefreshRead, RefreshReplay, RefreshConsume, RefreshCommit, LogoutAll, ChangePassword,
     OwnerRequest, UpdateStatus, Remove, AdminRequest, SweepBegin, Logout,
     RevokeSession, RevokeOne, Crash, Expire, Cleanup
<1>6. /\ account = "DELETED" => account' = "DELETED"
      /\ account' = "SUSPENDED" =>
           account = "SUSPENDED" \/ \E r \in Request : SweepEnd(r) /\ req[r].op = "suspend"
  BY <1>3, <1>4, <1>5
<1>. QED
  BY <1>1, <1>2, <1>6

(* A session that becomes live and is not late is committed to an account  *)
(* in use that nobody is closing.                                          *)
LEMMA NewlyInUse ==
  ASSUME IInv, [Next]_vars, NEW s \in Session, row'[s] = "active", row[s] # "active", s \notin late'
  PROVE  ~Closing /\ UNCHANGED account
<1>0. TypeOK
  BY DEF IInv
<1>1. ASSUME NEW r \in Request, LoginIssue(r) \/ RefreshCommit(r) PROVE ~Closing /\ UNCHANGED account
  <2>1. s = req[r].new
    BY <1>0, <1>1 DEF LoginIssue, RefreshCommit, TypeOK
  <2>. QED
    BY <1>1, <2>1 DEF LoginIssue, RefreshCommit, Commits
<1>2. ASSUME NEW t \in Session, RevokeOne(t) PROVE FALSE
  BY <1>0, <1>2 DEF RevokeOne, TypeOK
<1>3. ASSUME NEW r \in Request, SweepEnd(r) PROVE FALSE
  BY <1>0, <1>3 DEF SweepEnd, TypeOK
<1>4. CASE Cleanup
  BY <1>0, <1>4 DEF Cleanup, TypeOK
<1>5. row' # row
  OBVIOUS
<1>. QED
  BY <1>1, <1>2, <1>3, <1>4, <1>5 DEF Next, Progress, vars, LoginCheck, LoginRecord,
     RefreshRead, RefreshReplay, RefreshConsume, LogoutAll, ChangePassword, OwnerRequest,
     UpdateStatus, Remove, AdminRequest, SweepBegin, Logout, RevokeSession, Reactivate, ApproveDeletion,
     Crash, Expire

LEMMA NextAccounted == IInv /\ Accounted /\ [Next]_vars => Accounted'
<1>. SUFFICES ASSUME IInv, Accounted, [Next]_vars, NEW s \in Active' \ late'
              PROVE  /\ account' \in {"ACTIVE", "DELETED"}
                     /\ \A r \in Request : Closer(r)' => s \in req'[r].snap
  BY DEF Accounted
<1>0. s \in Session /\ row'[s] = "active" /\ s \notin late' /\ s \notin late
  BY AccountMoves DEF Active
<1>a. account' \in {"ACTIVE", "SUSPENDED", "DELETED"}
  BY NextIInv DEF IInv, TypeOK
<1>1. CASE row[s] = "active"
  <2>1. s \in Active \ late
    BY <1>0, <1>1 DEF Active
  <2>2. account' # "SUSPENDED"
    <3>1. ASSUME NEW r \in Request, SweepEnd(r), req[r].op = "suspend" PROVE FALSE
      <4>1. s \in req[r].snap
        BY <2>1, <3>1 DEF Accounted, Closer, SweepEnd
      <4>. QED
        BY <1>0, <3>1, <4>1 DEF SweepEnd
    <3>. QED
      BY <2>1, <3>1, AccountMoves DEF Accounted
  <2>3. ASSUME NEW r \in Request, Closer(r)' PROVE s \in req'[r].snap
    <3>1. CASE UNCHANGED req[r]
      BY <2>1, <2>3, <3>1 DEF Accounted, Closer
    <3>2. CASE SweepBegin(r)
      <4>1. req[r] \in RequestState /\ req \in [Request -> RequestState]
        BY DEF IInv, TypeOK
      <4>2. req'[r].op = req[r].op
            /\ req'[r].snap = IF req[r].op = "changePassword" THEN Active \ {req[r].sess} ELSE Active
        BY <3>2, <4>1 DEF SweepBegin, RequestState
      <4>. QED
        BY <2>1, <2>3, <4>2 DEF Closer
    <3>. QED
      BY <2>3, <3>1, <3>2, SweepOrigin DEF Closer
  <2>. QED
    BY <1>a, <2>2, <2>3
<1>2. CASE row[s] # "active"
  <2>1. ~Closing /\ UNCHANGED account
    BY <1>0, <1>2, NewlyInUse
  <2>2. ASSUME NEW r \in Request, Closer(r)' PROVE FALSE
    <3>1. ~SweepBegin(r)
      BY <1>0, <1>2 DEF SweepBegin
    <3>2. Closer(r)
      BY <2>2, <3>1, SweepOrigin DEF Closer
    <3>. QED
      BY <2>1, <3>2 DEF Closing, Closer
  <2>. QED
    BY <2>1, <2>2 DEF Closing
<1>. QED
  BY <1>1, <1>2

LEMMA RefusedStep ==
  ASSUME IInv, Accounted, [Next]_vars, NEW s \in Stored, ~Authenticated(s), Authenticated(s)'
  PROVE  s \in late
<1>1. s \in Session /\ row'[s] = "active" /\ s \notin expired' /\ account' = "ACTIVE"
  BY DEF Stored, Authenticated
<1>2. row[s] = "active"
  BY <1>1, NextRowsMoveOn DEF RowsMoveOn, Ended, Stored
<1>3. account = "SUSPENDED"
  BY <1>1, <1>2, AccountMoves DEF Authenticated, IInv, TypeOK
<1>. QED
  BY <1>1, <1>2, <1>3 DEF Accounted, Active

(* A session that was refused stays refused, through every suspension,     *)
(* reactivation and deletion, but for one that a login or a refresh in     *)
(* flight committed after the revocation had picked its rows.              *)
THEOREM RefusedAlways == Spec => RefusedForGood
<1>1. Init => Accounted
  BY DEF Init, Accounted, Closer, Active, Idle
<1>2. IInv /\ Accounted /\ [Next]_vars => Accounted'
  BY NextAccounted
<1>3. IInv /\ Accounted /\ [Next]_vars =>
        [\A s \in Stored : ~Authenticated(s) /\ Authenticated(s)' => s \in late]_vars
  BY RefusedStep
<1>. QED
  BY <1>1, <1>2, <1>3, SpecIInv, PTL DEF Spec, RefusedForGood
=============================================================================
