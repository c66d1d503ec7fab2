------------------------------- MODULE SignIn --------------------------------
(***************************************************************************)
(* The life of one account and the way into it: the rate limiter           *)
(* (redis-rate-limit.guard.ts over redis.service.ts) before the login of   *)
(* src/auth/auth.service.ts with its lock, registration, the status        *)
(* changes of src/users/users.service.ts and the deletion requests of      *)
(* src/legacy/legacy.service.ts.                                           *)
(*                                                                         *)
(* All attempts come from one address, so they share one counter.  Login   *)
(* reads the account once, verifies the password for a while, and writes   *)
(* what follows from the read.  The sessions a login is issued, and those  *)
(* a status change revokes in its transaction, are RefreshSessions'; here  *)
(* a transaction is what it has done to the users row when it commits.     *)
(***************************************************************************)
EXTENDS Naturals, Sequences, FiniteSets

CONSTANTS Request,
          Limit,      \* login attempts admitted in a window (5)
          Threshold,  \* LOCK_THRESHOLD (5)
          MaxAsk      \* bound

ASSUME LimitsAssumption ==
  /\ Limit \in Nat \ {0} /\ Threshold \in Nat \ {0}
  /\ MaxAsk \in Nat

VARIABLES
  counter,   \* the Redis key: its value, and whether it expires
  user,      \* the users row; failed is failed_login_count
  ask,       \* account_deletion_requests: their status
  cut,       \* history: what was cut off half way: a request by its number, an expiry as 0
  req        \* what each request is doing

vars == <<counter, user, ask, cut, req>>

(* early: history, the attempt read the account before the latest lock. *)
Idle == [op |-> "none", pc |-> "idle", seen |-> 0, early |-> FALSE, ask |-> 0, to |-> "none"]

TypeOK ==
  /\ counter \in [n : 0 .. Limit + 1, expires : BOOLEAN]
  /\ user \in [status : {"absent", "ACTIVE", "SUSPENDED", "DISABLED"}, deleted : BOOLEAN,
               failed : 0 .. Threshold + 1, locked : BOOLEAN]
  /\ ask \in Seq({"pending", "approved", "rejected"})
  /\ cut \in SUBSET (0 .. MaxAsk)
  /\ req \in [Request -> [op : {"none", "login", "status", "ask", "review"},
                          pc : {"idle", "counted", "admitted", "right", "wrong", "write",
                                "user"},
                          seen : 0 .. Threshold + 1, early : BOOLEAN, ask : 0 .. MaxAsk,
                          to : {"none", "ACTIVE", "SUSPENDED", "approved", "rejected"}]]

Init ==
  /\ counter = [n |-> 0, expires |-> FALSE]
  /\ user = [status |-> "absent", deleted |-> FALSE, failed |-> 0, locked |-> FALSE]
  /\ ask = <<>> /\ cut = {}
  /\ req = [r \in Request |-> Idle]

-----------------------------------------------------------------------------
(* Helpers                                                                 *)

InUse == user.status = "ACTIVE" /\ ~user.deleted
Known == user.status # "absent" /\ ~user.deleted
At(r, op, pc) == req[r].op = op /\ req[r].pc = pc
Begin(r, q) == req[r] = Idle /\ req' = [req EXCEPT ![r] = q]
Goto(r, pc) == req' = [req EXCEPT ![r].pc = pc]
Finish(r) == req' = [req EXCEPT ![r] = Idle]
AtMost(n, m) == IF n < m THEN n ELSE m

Account == <<user, ask>>

-----------------------------------------------------------------------------
(* The rate limiter                                                        *)

(* INCR; the first caller of a window goes on to set the expiry, a caller  *)
(* past the limit is refused.                                              *)
Attempt(r) ==
  LET n == AtMost(counter.n + 1, Limit + 1)
  IN  /\ counter' = [counter EXCEPT !.n = n]
      /\ \/ n = 1 /\ Begin(r, [Idle EXCEPT !.op = "login", !.pc = "counted"])
         \/ n \in 2 .. Limit /\ Begin(r, [Idle EXCEPT !.op = "login", !.pc = "admitted"])
         \/ n > Limit /\ req[r] = Idle /\ UNCHANGED req
      /\ UNCHANGED <<Account, cut>>

(* With Redis away the limiter admits everybody. *)
AttemptUncounted(r) ==
  /\ Begin(r, [Idle EXCEPT !.op = "login", !.pc = "admitted"])
  /\ UNCHANGED <<counter, Account, cut>>

(* Mutant: the window starts with the second attempt. *)
ExpireSecond(r) ==
  /\ At(r, "login", "counted")
  /\ counter' = [counter EXCEPT !.expires = counter.n > 1]
  /\ Goto(r, "admitted")
  /\ UNCHANGED <<Account, cut>>

Expire(r) ==
  /\ At(r, "login", "counted")
  /\ counter' = [counter EXCEPT !.expires = TRUE]
  /\ Goto(r, "admitted")
  /\ UNCHANGED <<Account, cut>>

(* Redis is lost between the two commands: the attempt is admitted. *)
ExpireLost(r) ==
  /\ At(r, "login", "counted")
  /\ cut' = cut \cup {0}
  /\ Goto(r, "admitted")
  /\ UNCHANGED <<counter, Account>>

WindowEnds ==
  /\ counter.expires
  /\ counter' = [n |-> 0, expires |-> FALSE]
  /\ UNCHANGED <<Account, cut, req>>

-----------------------------------------------------------------------------
(* Registering and logging in                                              *)

(* The email is unique, deleted accounts included. *)
NewAccount ==
  /\ user.status = "absent"
  /\ user' = [user EXCEPT !.status = "ACTIVE"]
  /\ UNCHANGED <<counter, ask, cut, req>>

Register == NewAccount   \* by its owner
Create == NewAccount     \* by staff

Verdict(ok) == IF ok /\ user.status = "ACTIVE" THEN "right" ELSE "wrong"

(* Mutant: a lock does not matter when the password is right. *)
LoginReadUnlocked(r) ==
  /\ At(r, "login", "admitted")
  /\ \E ok \in BOOLEAN :
       IF ~Known \/ (user.locked /\ ~ok) THEN Finish(r)
       ELSE req' = [req EXCEPT ![r].pc = Verdict(ok), ![r].seen = user.failed]
  /\ UNCHANGED <<counter, Account, cut>>

(* The account is read and the password verified.  Nothing more happens to *)
(* an account that is unknown, or locked.                                  *)
LoginRead(r) ==
  /\ At(r, "login", "admitted")
  /\ \E ok \in BOOLEAN :
       IF ~Known \/ user.locked THEN Finish(r)
       ELSE req' = [req EXCEPT ![r].pc = Verdict(ok), ![r].seen = user.failed]
  /\ UNCHANGED <<counter, Account, cut>>

LoginFail(r) ==
  LET n == AtMost(req[r].seen + 1, Threshold + 1)
      Reading(q) == req[q].pc \in {"right", "wrong"}
  IN  /\ At(r, "login", "wrong")
      /\ user' = [user EXCEPT !.failed = n, !.locked = n >= Threshold]
      /\ req' = [q \in Request |->
           IF q = r THEN Idle
           ELSE IF Reading(q) /\ n >= Threshold THEN [req[q] EXCEPT !.early = TRUE] ELSE req[q]]
      /\ UNCHANGED <<counter, ask, cut>>

(* A session is issued after this. *)
LoginRecord(r) ==
  /\ At(r, "login", "right")
  /\ user' = [user EXCEPT !.failed = 0, !.locked = FALSE]
  /\ Finish(r)
  /\ UNCHANGED <<counter, ask, cut>>

LockEnds ==
  /\ user.locked
  /\ user' = [user EXCEPT !.locked = FALSE]
  /\ UNCHANGED <<counter, ask, cut, req>>

-----------------------------------------------------------------------------
(* Staff                                                                   *)

StatusRead(r, to) ==
  /\ Known
  /\ Begin(r, [Idle EXCEPT !.op = "status", !.pc = "write", !.to = to])
  /\ UNCHANGED <<counter, Account, cut>>

(* By id alone. *)
StatusWrite(r) ==
  /\ At(r, "status", "write")
  /\ user' = [user EXCEPT !.status = req[r].to]
  /\ Finish(r)
  /\ UNCHANGED <<counter, ask, cut>>

(* Twice does no harm. *)
Remove ==
  /\ user.status # "absent" /\ ~user.deleted
  /\ user' = [user EXCEPT !.deleted = TRUE, !.status = "DISABLED"]
  /\ UNCHANGED <<counter, ask, cut, req>>

-----------------------------------------------------------------------------
(* Deletion requests                                                       *)

(* One that is pending is returned, none added. *)
RequestDeletion(r) ==
  /\ InUse   \* and one of its sessions is live
  /\ \A q \in DOMAIN ask : ask[q] # "pending"
  /\ Begin(r, [Idle EXCEPT !.op = "ask", !.pc = "write"])
  /\ UNCHANGED <<counter, Account, cut>>

RequestDeletionWrite(r) ==
  /\ At(r, "ask", "write")
  /\ Len(ask) < MaxAsk
  /\ ask' = Append(ask, "pending")
  /\ Finish(r)
  /\ UNCHANGED <<counter, user, cut>>

ReviewRead(r, q, to) ==
  /\ q \in DOMAIN ask /\ ask[q] = "pending"
  /\ Begin(r, [Idle EXCEPT !.op = "review", !.pc = "write", !.ask = q, !.to = to])
  /\ UNCHANGED <<counter, Account, cut>>

(* Mutant: the account of an approved request is left to somebody else. *)
ReviewMarkOnly(r) ==
  /\ At(r, "review", "write")
  /\ ask' = [ask EXCEPT ![req[r].ask] = req[r].to]
  /\ Finish(r)
  /\ UNCHANGED <<counter, user, cut>>

ReviewMark(r) ==
  /\ At(r, "review", "write")
  /\ ask' = [ask EXCEPT ![req[r].ask] = req[r].to]
  /\ IF req[r].to = "approved" THEN Goto(r, "user") ELSE Finish(r)
  /\ UNCHANGED <<counter, user, cut>>

ReviewUser(r) ==
  /\ At(r, "review", "user")
  /\ user' = [user EXCEPT !.deleted = TRUE, !.status = "SUSPENDED"]
  /\ Finish(r)
  /\ UNCHANGED <<counter, ask, cut>>

-----------------------------------------------------------------------------

(* A process dies between two steps. *)
Crash(r) ==
  /\ req[r] # Idle
  /\ cut' = cut \cup (IF req[r].pc = "counted" THEN {0} ELSE {})
                \cup (IF req[r].pc = "user" THEN {req[r].ask} ELSE {})
  /\ Finish(r)
  /\ UNCHANGED <<counter, Account>>

Next ==
  \/ \E r \in Request :
       \/ Attempt(r) \/ AttemptUncounted(r) \/ Expire(r) \/ ExpireLost(r)
       \/ LoginRead(r) \/ LoginFail(r) \/ LoginRecord(r)
       \/ \E to \in {"ACTIVE", "SUSPENDED"} : StatusRead(r, to)
       \/ StatusWrite(r) \/ RequestDeletion(r) \/ RequestDeletionWrite(r)
       \/ \E q \in 1..MaxAsk, to \in {"approved", "rejected"} : ReviewRead(r, q, to)
       \/ ReviewMark(r) \/ ReviewUser(r) \/ Crash(r)
  \/ WindowEnds \/ Register \/ Create \/ LockEnds \/ Remove

Spec == Init /\ [][Next]_vars

-----------------------------------------------------------------------------
(* Properties                                                              *)

(* A lock lasts until it runs out: only an attempt that read the account   *)
(* before it was locked can end it sooner, by writing back the count it    *)
(* read or by succeeding (auth.service.ts, LOCK_MINUTES).                  *)
LockHolds ==
  [][user.locked /\ ~user'.locked =>
       \/ LockEnds
       \/ \E r \in Request : req[r].early /\ (LoginFail(r) \/ LoginRecord(r))]_vars

(* An approved deletion deletes: the account is gone, or about to be, or   *)
(* the process died between the two updates.                               *)
ApprovalDeletes ==
  \A q \in DOMAIN ask : ask[q] = "approved" =>
    \/ user.deleted \/ q \in cut
    \/ \E r \in Request : At(r, "review", "user")

(* The limiter's counter runs out, or is about to be told to, unless its   *)
(* first caller was cut off between INCR and EXPIRE.                       *)
CounterExpires ==
  counter.n > 0 =>
    \/ counter.expires \/ 0 \in cut
    \/ \E r \in Request : At(r, "login", "counted")
=============================================================================
