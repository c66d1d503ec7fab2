--------------------------- MODULE RefreshSessions ---------------------------
(***************************************************************************)
(* The refresh sessions of one account (src/auth/auth.service.ts,          *)
(* src/users/users.service.ts, src/common/auth/jwt.strategy.ts).           *)
(*                                                                         *)
(* Several API processes serve requests of the account at once and share   *)
(* only PostgreSQL, at its default isolation READ COMMITTED.  A request is *)
(* cut at every await at which the database can change:                    *)
(*   - a single conditional UPDATE on one row takes effect at once, after  *)
(*     waiting for a transaction that holds the row;                       *)
(*   - the row a refresh transaction inserts is invisible until it commits,*)
(*     and the row it consumes stays locked until then;                    *)
(*   - an UPDATE over all sessions of the user picks its rows from the     *)
(*     snapshot taken when it starts, waits for the locked ones, and       *)
(*     re-evaluates "revoked_at IS NULL" on each before writing it.        *)
(***************************************************************************)
EXTENDS FiniteSets

CONSTANTS Session,   \* ids of refresh_sessions rows (random UUIDs)
          Request,   \* requests of this account being served
          None       \* no session

ASSUME NoneAssumption == None \notin Session

VARIABLES
  account,     \* "ACTIVE", "SUSPENDED" (or disabled) or "DELETED"
  row,         \* row[s]: "absent", "active", "revoked", or "purged" by cleanup
  replacedBy,  \* replacedBy[s]: the session that replaced s, or None
  expired,     \* sessions whose expires_at has passed
  family,      \* history: family[s] is the login session that s descends from
  late,        \* history: sessions committed too late for a suspension or removal to revoke
  req          \* what each request is doing

vars == <<account, row, replacedBy, expired, family, late, req>>

(* Operations that revoke sessions in bulk; UserTx updates the users row in *)
(* the same transaction, before the sessions.                               *)
UserTx == {"changePassword", "suspend", "remove"}
Sweeps == UserTx \cup {"replay", "logoutAll"}

Idle == [op |-> "none", pc |-> "idle", sess |-> None, new |-> None, snap |-> {}]

RequestState ==
  [op : {"none", "login", "refresh"} \cup Sweeps,
   pc : {"idle", "checked", "recorded", "locked", "sweeping"},
   sess : Session \cup {None}, new : Session \cup {None}, snap : SUBSET Session]

TypeOK ==
  /\ account \in {"ACTIVE", "SUSPENDED", "DELETED"}
  /\ row \in [Session -> {"absent", "active", "revoked", "purged"}]
  /\ replacedBy \in [Session -> Session \cup {None}]
  /\ expired \in SUBSET Session
  /\ family \in [Session -> Session \cup {None}]
  /\ late \in SUBSET Session
  /\ req \in [Request -> RequestState]

Init ==
  /\ account = "ACTIVE"
  /\ row = [s \in Session |-> "absent"]
  /\ replacedBy = [s \in Session |-> None]
  /\ expired = {}
  /\ family = [s \in Session |-> None]
  /\ late = {}
  /\ req = [r \in Request |-> Idle]

-----------------------------------------------------------------------------
(* Helpers                                                                 *)

Active == {s \in Session : row[s] = "active"}
Stored == {s \in Session : row[s] \in {"active", "revoked"}}

(* Ids no row has and no request has drawn: a UUID is never drawn twice.   *)
Fresh == {s \in Session : row[s] = "absent" /\ \A r \in Request : req[r].new # s}

(* Mutant: the consumed row is not locked until the transaction commits. *)
RowNeverLocked(s) == s \notin Session

(* The session row an open refresh transaction has updated. *)
RowLocked(s) == \E r \in Request : req[r].pc = "locked" /\ req[r].sess = s

(* Mutant: the revocation runs outside the transaction that updated the    *)
(* user, and waits for it.                                                 *)
UserLockedTwice == \E r \in Request : req[r].pc # "idle" /\ req[r].op \in UserTx

(* The users row is held by an open transaction that has updated it. *)
UserLocked == \E r \in Request : req[r].pc = "sweeping" /\ req[r].op \in UserTx

(* The account is not in use, or a transaction that ends its use has picked *)
(* the sessions it revokes.                                                 *)
Closing ==
  \/ account # "ACTIVE"
  \/ \E r \in Request : req[r].pc = "sweeping" /\ req[r].op \in {"suspend", "remove"}

Commits(n) == late' = late \cup (IF Closing THEN {n} ELSE {})

Finish(r) == req' = [req EXCEPT ![r] = Idle]
Goto(r, pc) == req' = [req EXCEPT ![r].pc = pc]

(* JwtStrategy.validate: the access token's session is live and the account *)
(* may be used.                                                             *)
Authenticated(s) == row[s] = "active" /\ s \notin expired /\ account = "ACTIVE"

-----------------------------------------------------------------------------
(* Logging in                                                              *)

(* The account is read and the password found right. *)
LoginCheck(r, n) ==
  /\ req[r] = Idle
  /\ account = "ACTIVE"
  /\ n \in Fresh
  /\ req' = [req EXCEPT ![r] = [Idle EXCEPT !.op = "login", !.pc = "checked", !.new = n]]
  /\ UNCHANGED <<account, row, replacedBy, expired, family, late>>

(* The failure counter is reset; the UPDATE waits for the users row. *)
LoginRecord(r) ==
  /\ req[r].op = "login" /\ req[r].pc = "checked"
  /\ ~UserLocked
  /\ Goto(r, "recorded")
  /\ UNCHANGED <<account, row, replacedBy, expired, family, late>>

(* issueTokenPair inserts the session without looking at the account again. *)
LoginIssue(r) ==
  /\ req[r].op = "login" /\ req[r].pc = "recorded"
  /\ row' = [row EXCEPT ![req[r].new] = "active"]
  /\ family' = [family EXCEPT ![req[r].new] = req[r].new]
  /\ Commits(req[r].new)
  /\ Finish(r)
  /\ UNCHANGED <<account, replacedBy, expired>>

-----------------------------------------------------------------------------
(* Refreshing                                                              *)

(* The presented token is looked up; an unknown or expired one, or one of  *)
(* an unusable account, is refused.                                        *)
Presented(s) == s \in Stored \ expired /\ account = "ACTIVE"

RefreshRead(r, s, n) ==
  /\ req[r] = Idle
  /\ Presented(s) /\ row[s] = "active"
  /\ n \in Fresh
  /\ req' = [req EXCEPT ![r] =
       [Idle EXCEPT !.op = "refresh", !.pc = "checked", !.sess = s, !.new = n]]
  /\ UNCHANGED <<account, row, replacedBy, expired, family, late>>

(* A token that was already consumed or revoked starts the revocation of   *)
(* every session of the user.                                              *)
RefreshReplay(r, s) ==
  /\ req[r] = Idle
  /\ Presented(s) /\ row[s] = "revoked"
  /\ req' = [req EXCEPT ![r] = [Idle EXCEPT !.op = "replay", !.pc = "checked", !.sess = s]]
  /\ UNCHANGED <<account, row, replacedBy, expired, family, late>>

(* Mutant: the count of consumed rows is not checked. *)
RefreshConsumeAnyway(r) ==
  /\ req[r].op = "refresh" /\ req[r].pc = "checked"
  /\ ~RowLocked(req[r].sess)
  /\ Goto(r, "locked")
  /\ UNCHANGED <<account, row, replacedBy, expired, family, late>>

(* In a transaction: insert the replacement, then consume the session if   *)
(* it is still unrevoked; a second consumer gets count 0 and rolls back.   *)
RefreshConsume(r) ==
  /\ req[r].op = "refresh" /\ req[r].pc = "checked"
  /\ ~RowLocked(req[r].sess)
  /\ IF row[req[r].sess] = "active" THEN Goto(r, "locked") ELSE Finish(r)
  /\ UNCHANGED <<account, row, replacedBy, expired, family, late>>

(* Mutant: the link is set on the replacement instead of the consumed row. *)
RefreshCommitSwapped(r) ==
  LET s == req[r].sess
      n == req[r].new
  IN  /\ req[r].pc = "locked"
      /\ row' = [row EXCEPT ![s] = "revoked", ![n] = "active"]
      /\ replacedBy' = [replacedBy EXCEPT ![n] = s]
      /\ family' = [family EXCEPT ![n] = family[s]]
      /\ Commits(n)
      /\ Finish(r)
      /\ UNCHANGED <<account, expired>>

(* The transaction commits: replacement and consumption appear together. *)
RefreshCommit(r) ==
  LET s == req[r].sess
      n == req[r].new
  IN  /\ req[r].pc = "locked"
      /\ row' = [row EXCEPT ![s] = "revoked", ![n] = "active"]
      /\ replacedBy' = [replacedBy EXCEPT ![s] = n]
      /\ family' = [family EXCEPT ![n] = family[s]]
      /\ Commits(n)
      /\ Finish(r)
      /\ UNCHANGED <<account, expired>>

-----------------------------------------------------------------------------
(* Revoking                                                                *)

(* One conditional UPDATE of one row. *)
RevokeOne(s) ==
  /\ row[s] = "active"
  /\ ~RowLocked(s)
  /\ row' = [row EXCEPT ![s] = "revoked"]
  /\ UNCHANGED <<account, replacedBy, expired, family, late, req>>

Logout(s) == RevokeOne(s)          \* by refresh token
RevokeSession(s) == RevokeOne(s)   \* by session id

(* A request of the account's owner passes the guard with session s. *)
OwnerRequest(r, s, op) ==
  /\ req[r] = Idle
  /\ Authenticated(s)
  /\ req' = [req EXCEPT ![r] = [Idle EXCEPT !.op = op, !.pc = "checked", !.sess = s]]
  /\ UNCHANGED <<account, row, replacedBy, expired, family, late>>

LogoutAll(r, s) == OwnerRequest(r, s, "logoutAll")
ChangePassword(r, s) == OwnerRequest(r, s, "changePassword")

(* An administrator's request. *)
AdminRequest(r, op) ==
  /\ req[r] = Idle
  /\ req' = [req EXCEPT ![r] = [Idle EXCEPT !.op = op, !.pc = "checked"]]
  /\ UNCHANGED <<account, row, replacedBy, expired, family, late>>

(* updateStatus looks the account up first; only a status other than ACTIVE *)
(* revokes.                                                                 *)
UpdateStatus(r) == account # "DELETED" /\ AdminRequest(r, "suspend")
Remove(r) == AdminRequest(r, "remove")

(* Mutant: a replayed token revokes its own row only. *)
SweepBeginOneRow(r) ==
  /\ req[r].op \in Sweeps /\ req[r].pc = "checked"
  /\ req[r].op \in UserTx => ~UserLocked
  /\ req' = [req EXCEPT ![r].pc = "sweeping",
                        ![r].snap = IF req[r].op = "replay"
                                    THEN Active \cap {req[r].sess} ELSE Active]
  /\ UNCHANGED <<account, row, replacedBy, expired, family, late>>

(* Mutant: a suspension leaves the sessions alone. *)
SweepBeginStatusOnly(r) ==
  /\ req[r].op \in Sweeps /\ req[r].pc = "checked"
  /\ req[r].op \in UserTx => ~UserLocked
  /\ req' = [req EXCEPT ![r].pc = "sweeping",
                        ![r].snap = CASE req[r].op = "changePassword" -> Active \ {req[r].sess}
                                      [] req[r].op = "suspend" -> {}
                                      [] OTHER -> Active]
  /\ UNCHANGED <<account, row, replacedBy, expired, family, late>>

(* The UPDATE over the user's sessions starts: its rows are those committed *)
(* and unrevoked now, except the one the password was changed with.        *)
SweepBegin(r) ==
  /\ req[r].op \in Sweeps /\ req[r].pc = "checked"
  /\ req[r].op \in UserTx => ~UserLocked
  /\ req' = [req EXCEPT ![r].pc = "sweeping",
                        ![r].snap = IF req[r].op = "changePassword"
                                    THEN Active \ {req[r].sess} ELSE Active]
  /\ UNCHANGED <<account, row, replacedBy, expired, family, late>>

(* It has waited for every refresh that held one of its rows; rows revoked *)
(* meanwhile no longer match.  The transaction commits.                    *)
SweepEnd(r) ==
  /\ req[r].pc = "sweeping"
  /\ \A s \in req[r].snap : ~RowLocked(s)
  /\ row' = [s \in Session |->
               IF s \in req[r].snap /\ row[s] = "active" THEN "revoked" ELSE row[s]]
  /\ account' = IF account # "DELETED" /\ req[r].op = "suspend" THEN "SUSPENDED"
                ELSE IF req[r].op = "remove" THEN "DELETED" ELSE account
  /\ Finish(r)
  /\ UNCHANGED <<replacedBy, expired, family, late>>

(* Mutant: the status written is none the schema has. *)
ReactivateOutsideEnum ==
  /\ account = "SUSPENDED"
  /\ ~UserLocked
  /\ account' = "ENABLED"
  /\ UNCHANGED <<row, replacedBy, expired, family, late, req>>

(* updateStatus to ACTIVE revokes nothing. *)
Reactivate ==
  /\ account = "SUSPENDED"
  /\ ~UserLocked
  /\ account' = "ACTIVE"
  /\ UNCHANGED <<row, replacedBy, expired, family, late, req>>

(* An approved deletion request ends the use of the account and leaves its  *)
(* sessions as they are.                                                    *)
ApproveDeletion ==
  /\ ~UserLocked
  /\ account' = "DELETED"
  /\ UNCHANGED <<row, replacedBy, expired, family, late, req>>

-----------------------------------------------------------------------------
(* The environment                                                         *)

(* A process dies, a connection drops or a transaction times out: an open  *)
(* transaction rolls back and its locks are released.                      *)
Crash(r) ==
  /\ req[r] # Idle
  /\ Finish(r)
  /\ UNCHANGED <<account, row, replacedBy, expired, family, late>>

(* expires_at passes; the lifetime is configuration, so in any order. *)
Expire(s) ==
  /\ s \in Stored \ expired
  /\ expired' = expired \cup {s}
  /\ UNCHANGED <<account, row, replacedBy, family, late, req>>

(* maintenance-cleanup deletes expired revoked rows; links to a deleted row *)
(* are set to NULL by the foreign key.                                      *)
Cleanup ==
  LET gone == {s \in expired : row[s] = "revoked"}
  IN  /\ gone # {}
      /\ row' = [s \in Session |-> IF s \in gone THEN "purged" ELSE row[s]]
      /\ replacedBy' = [s \in Session |->
           IF s \in gone \/ replacedBy[s] \in gone THEN None ELSE replacedBy[s]]
      /\ UNCHANGED <<account, expired, family, late, req>>

Progress(r) ==
  \/ LoginRecord(r) \/ LoginIssue(r)
  \/ RefreshConsume(r) \/ RefreshCommit(r)
  \/ SweepBegin(r) \/ SweepEnd(r)

Next ==
  \/ \E r \in Request :
       \/ \E n \in Session : LoginCheck(r, n)
       \/ \E s, n \in Session : RefreshRead(r, s, n)
       \/ \E s \in Session : RefreshReplay(r, s)
       \/ \E s \in Session : LogoutAll(r, s) \/ ChangePassword(r, s)
       \/ UpdateStatus(r) \/ Remove(r)
       \/ Progress(r)
       \/ Crash(r)
  \/ \E s \in Session : Logout(s) \/ RevokeSession(s) \/ Expire(s)
  \/ Reactivate \/ ApproveDeletion
  \/ Cleanup

Spec == Init /\ [][Next]_vars

(* The server keeps serving a request it took, and PostgreSQL queues those *)
(* who wait for a row, so a lock that keeps being released is granted.     *)
(* Clients, administrators, the clock and the cleanup job owe nothing.     *)
FairSpec == Spec /\ \A r \in Request : SF_vars(Progress(r))

-----------------------------------------------------------------------------
(* Properties                                                              *)

(* A login has at most one usable refresh token, however its refreshes,    *)
(* retries and revocations interleave: auth.service.ts consumes a session  *)
(* and creates its replacement in one transaction, and only one consumer   *)
(* gets count 1.                                                           *)
OneLivePerLogin ==
  \A s, t \in Active : family[s] = family[t] => s = t

(* replaced_by_id tells the truth: the session it is set on is consumed,   *)
(* its replacement was really issued, for the same login, and no session   *)
(* replaces two others.                                                    *)
LinksSound ==
  \A s \in Session : replacedBy[s] # None =>
    /\ row[s] = "revoked"
    /\ replacedBy[s] \in Stored
    /\ family[replacedBy[s]] = family[s]
    /\ \A t \in Session : replacedBy[t] = replacedBy[s] => t = s

(* When the revocation a replayed token started is done, a session of its  *)
(* family can only have escaped if the family's live session was in the    *)
(* statement's snapshot and was consumed by a refresh before the statement *)
(* reached it: nothing that stood still survives.                          *)
ReplayMissesOnlyRotations ==
  [][\A r \in Request : SweepEnd(r) /\ req[r].op = "replay" =>
       \A s \in Session :
         row'[s] = "active" /\ family[s] = family[req[r].sess] =>
           \E t \in req[r].snap : family[t] = family[s] /\ row[t] # "active"]_vars

(* SECURITY_ARCHITECTURE.md: "reuse detection revokes the entire token     *)
(* family".  The snapshot of the revoking UPDATE does not contain the      *)
(* replacement that a refresh still in its transaction has inserted.       *)
ReplayRevokesFamily ==
  [][\A r \in Request : SweepEnd(r) /\ req[r].op = "replay" =>
       \A s \in Session : family[s] = family[req[r].sess] => row'[s] # "active"]_vars

(* A session that was refused is refused for good, whatever suspensions,   *)
(* reactivations and deletions follow: updateStatus and remove end an      *)
(* account's use and revoke its sessions in one transaction.  What escapes *)
(* is a session that a login or a refresh in flight committed after the    *)
(* revoking UPDATE had picked its rows, and nothing else.                  *)
RefusedForGood ==
  [][\A s \in Stored : ~Authenticated(s) /\ Authenticated(s)' => s \in late]_vars

(* No request waits for ever: the locks of refreshes, sweeps and logins    *)
(* are always released to the next in the queue.                           *)
RequestsEnd == \A r \in Request : req[r].pc # "idle" ~> req[r].pc = "idle"

(* The sessions implement the promise of TokenFamilies: the live token of  *)
(* a family is its one active session.                                     *)
LiveOf(f) ==
  IF \E s \in Active : family[s] = f
  THEN CHOOSE s \in Active : family[s] = f ELSE None

Families == INSTANCE TokenFamilies WITH
  live <- [f \in Session |-> LiveOf(f)],
  issued <- {s \in Session : row[s] # "absent"}

ImplementsFamilies == Families!Spec
=============================================================================
