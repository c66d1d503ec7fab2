-------------------------- MODULE PlaybackSessions --------------------------
(***************************************************************************)
(* The playback sessions of one user: src/playback/playback.service.ts,    *)
(* playback-policy.service.ts, playback-token.service.ts, the capability   *)
(* check of src/media-gateway, and the device operations of src/auth.      *)
(*                                                                         *)
(* A session row in PostgreSQL names the id (jti) of the one capability it *)
(* accepts; Redis holds an entry for every capability that has not been    *)
(* revoked.  Each is written separately, so requests of several API        *)
(* processes interleave between the two.  The reads one check makes of     *)
(* episode, entitlement and device are taken together; the cache and the   *)
(* session row are separate steps everywhere.                              *)
(*                                                                         *)
(* Capabilities are numbered in the order they are written; all live for   *)
(* the same configured time, so they expire in that order.  An expired one *)
(* is refused before its entry is looked at, so neither its entry, which   *)
(* Redis drops about then, nor who holds it is kept.                       *)
(***************************************************************************)
EXTENDS Naturals, Sequences, FiniteSets

CONSTANTS Device, Episode, Request,
          None,
          MaxConcurrent,   \* MAX_CONCURRENT_PLAYBACK_SESSIONS
          MaxSession,      \* bound: sessions ever created
          MaxCap           \* bound: capabilities ever issued

ASSUME LimitAssumption == MaxConcurrent \in Nat \ {0}

VARIABLES
  device,    \* trusted_devices.status
  entitled,  \* episodes published, with active media, that the user may play
  sess,      \* playback_sessions rows in order of creation
  caps,      \* caps[j]: the session (sid) capability j was issued for
  expiry,    \* capabilities 1..expiry have expired
  redis,     \* unexpired capabilities with an entry in Redis
  held,      \* unexpired capabilities a client was given
  req        \* what each request is doing

vars == <<device, entitled, sess, caps, expiry, redis, held, req>>

Idle == [op |-> "none", pc |-> "idle", ep |-> None, dev |-> None,
         sess |-> 0, cap |-> 0, old |-> 0]

Ended == {"CLOSED", "EXPIRED", "REVOKED"}

SessionRow == [status : {"ACTIVE"} \cup Ended, ep : Episode, dev : Device, jti : Nat]

RequestState ==
  [op : {"none", "start", "resume", "serve", "stop", "mismatch", "expire"},
   pc : {"idle", "authorized", "create", "rotate", "write", "drop", "cache",
         "cached", "valid", "close", "mark", "read", "revoke", "delete"},
   ep : Episode \cup {None}, dev : Device \cup {None},
   sess : Nat, cap : Nat, old : Nat]

TypeOK ==
  /\ device \in [Device -> {"ACTIVE", "REVOKED"}]
  /\ entitled \in SUBSET Episode
  /\ sess \in Seq(SessionRow)
  /\ caps \in Seq(Nat)
  /\ expiry \in Nat
  /\ redis \in SUBSET Nat
  /\ held \in SUBSET Nat
  /\ req \in [Request -> RequestState]

Init ==
  /\ device = [d \in Device |-> "ACTIVE"]
  /\ entitled = Episode
  /\ sess = <<>> /\ caps = <<>> /\ expiry = 0
  /\ redis = {} /\ held = {}
  /\ req = [r \in Request |-> Idle]

-----------------------------------------------------------------------------
(* Helpers                                                                 *)

Unexpired(j) == j > expiry
With(set, j) == IF Unexpired(j) THEN set \cup {j} ELSE set
Playing(s) == sess[s].status = "ACTIVE" /\ Unexpired(sess[s].jti)
SameStream(s, e, d) == sess[s].ep = e /\ sess[s].dev = d

Begin(r, q) == req[r] = Idle /\ req' = [req EXCEPT ![r] = q]
At(r, pc) == req[r].pc = pc
Finish(r) == req' = [req EXCEPT ![r] = Idle]
Goto(r, pc) == req' = [req EXCEPT ![r].pc = pc]

Database == <<device, entitled, sess, caps>>
Clients == <<expiry, held>>

-----------------------------------------------------------------------------
(* Authorization                                                           *)

(* Episode, entitlement and device, as policy.authorize reads them. *)
Authorized(e, d) == e \in entitled /\ device[d] = "ACTIVE"

(* The other sessions of the user that count against the limit. *)
Others(e, d) == {s \in DOMAIN sess : Playing(s) /\ ~SameStream(s, e, d)}

-----------------------------------------------------------------------------
(* Starting                                                                *)

StartAuthorize(r, e, d) ==
  /\ Authorized(e, d)
  /\ Cardinality(Others(e, d)) < MaxConcurrent
  /\ Begin(r, [Idle EXCEPT !.op = "start", !.pc = "authorized", !.ep = e, !.dev = d])
  /\ UNCHANGED <<Database, Clients, redis>>

(* A running session of the same episode and device is rotated instead;   *)
(* of several, the one started last.                                      *)
StartFind(r) ==
  LET same == {s \in DOMAIN sess : Playing(s) /\ SameStream(s, req[r].ep, req[r].dev)}
  IN  /\ At(r, "authorized")
      /\ \/ /\ same = {}
            /\ Goto(r, "create")
         \/ \E s \in same :
              /\ \A t \in same : t <= s
              /\ req' = [req EXCEPT ![r].pc = "rotate", ![r].sess = s]
      /\ UNCHANGED <<Database, Clients, redis>>

StartCreate(r) ==
  LET s == Len(sess) + 1
      j == Len(caps) + 1
  IN  /\ At(r, "create")
      /\ s <= MaxSession /\ j <= MaxCap
      /\ sess' = Append(sess, [status |-> "ACTIVE", ep |-> req[r].ep, dev |-> req[r].dev, jti |-> j])
      /\ caps' = Append(caps, s)
      /\ req' = [req EXCEPT ![r].pc = "cache", ![r].sess = s, ![r].cap = j]
      /\ UNCHANGED <<device, entitled, Clients, redis>>

(* The capability's entry is written and the capability handed out. *)
CacheAndAnswer(r) ==
  /\ At(r, "cache")
  /\ redis' = With(redis, req[r].cap)
  /\ held' = With(held, req[r].cap)
  /\ Finish(r)
  /\ UNCHANGED <<Database, expiry>>

-----------------------------------------------------------------------------
(* Resuming, and rotating the capability                                   *)

ResumeCheck(r, s) ==
  /\ s \in DOMAIN sess
  /\ Playing(s) /\ Authorized(sess[s].ep, sess[s].dev)
  /\ Begin(r, [Idle EXCEPT !.op = "resume", !.pc = "rotate", !.sess = s])
  /\ UNCHANGED <<Database, Clients, redis>>

RotateRead(r) ==
  /\ At(r, "rotate")
  /\ req' = [req EXCEPT ![r].pc = "write", ![r].old = sess[req[r].sess].jti]
  /\ UNCHANGED <<Database, Clients, redis>>

(* Mutant: rotation also makes the session active. *)
RotateWriteActive(r) ==
  LET j == Len(caps) + 1
  IN  /\ At(r, "write")
      /\ j <= MaxCap
      /\ sess' = [sess EXCEPT ![req[r].sess].jti = j, ![req[r].sess].status = "ACTIVE"]
      /\ caps' = Append(caps, req[r].sess)
      /\ req' = [req EXCEPT ![r].pc = "drop", ![r].cap = j]
      /\ UNCHANGED <<device, entitled, Clients, redis>>

(* The update is by id alone: it does not look at the status. *)
RotateWrite(r) ==
  LET j == Len(caps) + 1
  IN  /\ At(r, "write")
      /\ j <= MaxCap
      /\ sess' = [sess EXCEPT ![req[r].sess].jti = j]
      /\ caps' = Append(caps, req[r].sess)
      /\ req' = [req EXCEPT ![r].pc = "drop", ![r].cap = j]
      /\ UNCHANGED <<device, entitled, Clients, redis>>

(* Mutant: the entry deleted is that of the row's capability by then. *)
RotateDropCurrent(r) ==
  /\ At(r, "drop")
  /\ redis' = redis \ {sess[req[r].sess].jti}
  /\ Goto(r, "cache")
  /\ UNCHANGED <<Database, Clients>>

RotateDrop(r) ==
  /\ At(r, "drop")
  /\ redis' = redis \ {req[r].old}
  /\ Goto(r, "cache")
  /\ UNCHANGED <<Database, Clients>>

-----------------------------------------------------------------------------
(* Using a capability                                                      *)

(* The token verifies and its entry is in Redis. *)
Presents(j) == j \in held /\ j \in redis

UseCapability(r, j, op) ==
  /\ Presents(j)
  /\ Begin(r, [Idle EXCEPT !.op = op, !.pc = "cached", !.sess = caps[j], !.cap = j])
  /\ UNCHANGED <<Database, Clients, redis>>

Serve(r, j) == UseCapability(r, j, "serve")       \* a request of the gateway
Heartbeat(r, j) == UseCapability(r, j, "serve")   \* adds positions, no status
Stop(r, j) == UseCapability(r, j, "stop")

(* The right capability with another fingerprint revokes the session. *)
Mismatch(r, j) ==
  /\ Presents(j)
  /\ Begin(r, [Idle EXCEPT !.op = "mismatch", !.pc = "read", !.sess = caps[j]])
  /\ UNCHANGED <<Database, Clients, redis>>

(* Policy again, then the row: this capability, active, unexpired. *)
ValidateSession(r) ==
  LET row == sess[req[r].sess]
  IN  /\ At(r, "cached")
      /\ IF /\ row.jti = req[r].cap /\ row.status = "ACTIVE" /\ Unexpired(row.jti)
            /\ Authorized(row.ep, row.dev)
         THEN Goto(r, "valid") ELSE Finish(r)
      /\ UNCHANGED <<Database, Clients, redis>>

(* The entry is written back with its counter raised; the media is served  *)
(* or the stop goes on.                                                    *)
Recache(r) ==
  /\ At(r, "valid")
  /\ redis' = With(redis, req[r].cap)
  /\ IF req[r].op = "stop" THEN Goto(r, "close") ELSE Finish(r)
  /\ UNCHANGED <<Database, Clients>>

StopClose(r) ==
  LET s == req[r].sess
  IN  /\ At(r, "close")
      /\ sess' = IF sess[s].status = "ACTIVE" THEN [sess EXCEPT ![s].status = "CLOSED"] ELSE sess
      /\ Goto(r, "read")
      /\ UNCHANGED <<device, entitled, caps, Clients, redis>>

-----------------------------------------------------------------------------
(* Expiring and revoking                                                   *)

(* The status endpoint finds an active session past its expiry. *)
StatusCheck(r, s) ==
  /\ s \in DOMAIN sess
  /\ sess[s].status = "ACTIVE" /\ ~Unexpired(sess[s].jti)
  /\ Begin(r, [Idle EXCEPT !.op = "expire", !.pc = "mark", !.sess = s])
  /\ UNCHANGED <<Database, Clients, redis>>

ExpireMark(r) ==
  LET s == req[r].sess
  IN  /\ At(r, "mark")
      /\ sess' = IF sess[s].status = "ACTIVE" /\ ~Unexpired(sess[s].jti)
                 THEN [sess EXCEPT ![s].status = "EXPIRED"] ELSE sess
      /\ Goto(r, "read")
      /\ UNCHANGED <<device, entitled, caps, Clients, redis>>

(* The capability to delete is the one the row names now. *)
RevokeRead(r) ==
  /\ At(r, "read")
  /\ req' = [req EXCEPT ![r].old = sess[req[r].sess].jti,
                        ![r].pc = IF req[r].op = "stop" THEN "delete" ELSE "revoke"]
  /\ UNCHANGED <<Database, Clients, redis>>

(* Mutant: the reason is written as the status. *)
RevokeMarkReason(r) ==
  /\ At(r, "revoke")
  /\ sess' = [sess EXCEPT ![req[r].sess].status = req[r].op]
  /\ Goto(r, "delete")
  /\ UNCHANGED <<device, entitled, caps, Clients, redis>>

(* revokeBySession writes the status whatever it is by now. *)
RevokeMark(r) ==
  /\ At(r, "revoke")
  /\ sess' = [sess EXCEPT ![req[r].sess].status =
                IF req[r].op = "expire" THEN "EXPIRED" ELSE "REVOKED"]
  /\ Goto(r, "delete")
  /\ UNCHANGED <<device, entitled, caps, Clients, redis>>

RevokeDelete(r) ==
  /\ At(r, "delete")
  /\ redis' = redis \ {req[r].old}
  /\ Finish(r)
  /\ UNCHANGED <<Database, Clients>>

-----------------------------------------------------------------------------
(* Devices, maintenance and the environment                                *)

(* One transaction: the device and its active sessions. *)
RevokeDevice(d) ==
  /\ device[d] = "ACTIVE"
  /\ device' = [device EXCEPT ![d] = "REVOKED"]
  /\ sess' = [s \in DOMAIN sess |->
       IF sess[s].dev = d /\ sess[s].status = "ACTIVE"
       THEN [sess[s] EXCEPT !.status = "REVOKED"] ELSE sess[s]]
  /\ UNCHANGED <<entitled, caps, Clients, redis, req>>

(* Registering a revoked device again makes it active. *)
RegisterDevice(d) ==
  /\ device[d] = "REVOKED"
  /\ device' = [device EXCEPT ![d] = "ACTIVE"]
  /\ UNCHANGED <<entitled, sess, caps, Clients, redis, req>>

(* The maintenance job expires what nobody asked about. *)
Cleanup ==
  /\ \E s \in DOMAIN sess : sess[s].status = "ACTIVE" /\ ~Unexpired(sess[s].jti)
  /\ sess' = [s \in DOMAIN sess |->
       IF sess[s].status = "ACTIVE" /\ ~Unexpired(sess[s].jti)
       THEN [sess[s] EXCEPT !.status = "EXPIRED"] ELSE sess[s]]
  /\ UNCHANGED <<device, entitled, caps, Clients, redis, req>>

(* Publication, media, subscription or grant of an episode changes. *)
Entitle(e) ==
  /\ entitled' = IF e \in entitled THEN entitled \ {e} ELSE entitled \cup {e}
  /\ UNCHANGED <<device, sess, caps, Clients, redis, req>>

Tick ==
  /\ expiry < Len(caps)
  /\ expiry' = expiry + 1
  /\ redis' = redis \ {expiry + 1}
  /\ held' = held \ {expiry + 1}
  /\ UNCHANGED <<Database, req>>

(* A process dies between two steps. *)
Crash(r) ==
  /\ req[r] # Idle
  /\ Finish(r)
  /\ UNCHANGED <<Database, Clients, redis>>

Next ==
  \/ \E r \in Request :
       \/ \E e \in Episode, d \in Device : StartAuthorize(r, e, d)
       \/ StartFind(r) \/ StartCreate(r) \/ CacheAndAnswer(r)
       \/ \E s \in 1..MaxSession : ResumeCheck(r, s) \/ StatusCheck(r, s)
       \/ RotateRead(r) \/ RotateWrite(r) \/ RotateDrop(r)
       \/ \E j \in 1..MaxCap :
            Serve(r, j) \/ Heartbeat(r, j) \/ Stop(r, j) \/ Mismatch(r, j)
       \/ ValidateSession(r) \/ Recache(r) \/ StopClose(r)
       \/ ExpireMark(r) \/ RevokeRead(r) \/ RevokeMark(r) \/ RevokeDelete(r)
       \/ Crash(r)
  \/ \E d \in Device : RevokeDevice(d) \/ RegisterDevice(d)
  \/ \E e \in Episode : Entitle(e)
  \/ Cleanup
  \/ Tick

Spec == Init /\ [][Next]_vars

-----------------------------------------------------------------------------
(* Properties                                                              *)

(* A client that holds the current capability of an active session is not  *)
(* turned away at the cache: every path writes the session row before it   *)
(* deletes an entry, so no interleaving of rotations, stops, expiries and  *)
(* crashes deletes the entry the row still names.                          *)
CurrentCapabilityCached ==
  \A s \in DOMAIN sess :
    Playing(s) /\ sess[s].jti \in held => sess[s].jti \in redis

(* A session that ended never plays again, although rotation, expiry and   *)
(* revocation write its row without looking at the status.                 *)
EndIsFinal ==
  [][\A s \in DOMAIN sess : sess[s].status \in Ended => sess'[s].status \in Ended]_vars

(* playback-policy.service.spec.ts: "rejects a second concurrent session   *)
(* at the configured limit".                                               *)
ConcurrentLimit ==
  Cardinality({s \in DOMAIN sess : Playing(s)}) <= MaxConcurrent
=============================================================================
