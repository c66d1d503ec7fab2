----------------------- MODULE PlaybackSessionsProofs -----------------------
(***************************************************************************)
(* Proofs about PlaybackSessions, for all devices, episodes and requests   *)
(* and any limits.                                                         *)
(*                                                                         *)
(* CurrentCapabilityCached is not inductive: that a deletion spares the    *)
(* entry a row still names depends on what the deleting request read, and  *)
(* on rows only ever moving forward.  IInv says both.                      *)
(*                                                                         *)
(* ConcurrentLimit does not hold of all behaviours.  What breaks it is two *)
(* starts or resumes between their checks and their writes: Limited is     *)
(* kept by all others.                                                     *)
(***************************************************************************)
EXTENDS PlaybackSessions, FiniteSetTheorems, SequenceTheorems, TLAPS

(* The capability a row names was issued for that row. *)
RowsNamed == \A s \in DOMAIN sess : sess[s].jti \in DOMAIN caps /\ caps[sess[s].jti] = s

CapsNamed == \A j \in DOMAIN caps : caps[j] \in DOMAIN sess

HeldIssued == held \subseteq DOMAIN caps

(* What a request knows in each phase.  The capability it is about to      *)
(* delete is of its own session, and either that session has moved on to a *)
(* later one or it has ended.                                              *)
RequestSound(q) ==
  /\ q.pc \notin {"idle", "authorized", "create"} => q.sess \in DOMAIN sess
  /\ q.pc \in {"authorized", "create"} => q.ep \in Episode /\ q.dev \in Device
  /\ q.pc \in {"drop", "cache", "cached", "valid"} => q.cap \in DOMAIN caps
  /\ q.pc \in {"write", "drop", "revoke", "delete"} =>
       q.old \in DOMAIN caps /\ caps[q.old] = q.sess
  /\ q.pc = "drop" => q.old < sess[q.sess].jti
  /\ q.pc = "mark" => q.op = "expire"
  /\ q.pc = "delete" \/ (q.pc = "read" /\ q.op = "stop") => sess[q.sess].status \in Ended

RequestsSound == \A r \in Request : RequestSound(req[r])

IInv ==
  /\ TypeOK
  /\ RowsNamed
  /\ CapsNamed
  /\ HeldIssued
  /\ RequestsSound
  /\ CurrentCapabilityCached

(* Rows and capabilities are only added, rows only name later capabilities, *)
(* and an ended session stays ended.                                        *)
Grows ==
  /\ DOMAIN sess \subseteq DOMAIN sess'
  /\ DOMAIN caps \subseteq DOMAIN caps'
  /\ \A j \in DOMAIN caps : caps'[j] = caps[j]
  /\ \A s \in DOMAIN sess :
       /\ sess[s].jti <= sess'[s].jti
       /\ sess[s].status \in Ended => sess'[s].status \in Ended

-----------------------------------------------------------------------------
(* The invariant holds initially                                           *)

LEMMA IdleSound == Idle \in RequestState /\ RequestSound(Idle)
  BY DEF Idle, RequestState, RequestSound

LEMMA InitIInv == Init => IInv
<1> SUFFICES ASSUME Init PROVE IInv
  OBVIOUS
<1>1. TypeOK
  BY IdleSound DEF Init, TypeOK
<1>2. RequestsSound
  BY IdleSound DEF Init, RequestsSound
<1> QED
  BY <1>1, <1>2 DEF Init, IInv, RowsNamed, CapsNamed, HeldIssued, CurrentCapabilityCached

-----------------------------------------------------------------------------
(* What steps have in common                                               *)

LEMMA RowTyped ==
  ASSUME TypeOK, NEW s \in DOMAIN sess
  PROVE  /\ sess[s] \in SessionRow
         /\ sess[s].status \in {"ACTIVE"} \cup Ended
         /\ sess[s].ep \in Episode /\ sess[s].dev \in Device
         /\ sess[s].jti \in Nat
<1>1. sess[s] \in SessionRow
  BY DEF TypeOK
<1> QED
  BY <1>1 DEF SessionRow

LEMMA RowTypedNext ==
  ASSUME TypeOK', NEW s \in DOMAIN sess'
  PROVE  sess'[s].jti \in Nat
<1>1. sess'[s] \in SessionRow
  BY DEF TypeOK
<1> QED
  BY <1>1 DEF SessionRow

(* What a request knows stays true while rows and capabilities grow. *)
LEMMA KnowledgeKept ==
  ASSUME TypeOK, TypeOK', Grows, NEW q \in RequestState, RequestSound(q)
  PROVE  RequestSound(q)'
<1>1. q.pc = "drop" => q.old < sess'[q.sess].jti
  <2> SUFFICES ASSUME q.pc = "drop" PROVE q.old < sess'[q.sess].jti
    OBVIOUS
  <2>1. q.sess \in DOMAIN sess /\ q.old < sess[q.sess].jti
    BY DEF RequestSound
  <2>2. sess[q.sess].jti \in Nat /\ sess'[q.sess].jti \in Nat /\ q.old \in Nat
    BY <2>1, RowTyped, RowTypedNext DEF Grows, RequestState
  <2> QED
    BY <2>1, <2>2 DEF Grows
<1> QED
  BY <1>1 DEF RequestSound, Grows, RequestState

(* One request moves to q. *)
LEMMA RequestMoves ==
  ASSUME IInv, TypeOK', Grows,
         NEW r \in Request, NEW q \in RequestState,
         req' = [req EXCEPT ![r] = q], RequestSound(q)'
  PROVE  RequestsSound'
<1> SUFFICES ASSUME NEW p \in Request PROVE RequestSound(req[p])'
  BY DEF RequestsSound
<1>1. CASE p = r
  <2>1. req'[p] = q
    BY <1>1 DEF IInv, TypeOK
  <2> QED
    BY <2>1 DEF RequestSound
<1>2. CASE p # r
  <2> PICK k \in RequestState : k = req[p] /\ k = req'[p]
    BY <1>2 DEF IInv, TypeOK
  <2>1. RequestSound(k)
    BY DEF IInv, RequestsSound
  <2>2. RequestSound(k)'
    BY <2>1, KnowledgeKept DEF IInv
  <2> QED
    BY <2>2 DEF RequestSound
<1> QED
  BY <1>1, <1>2

(* Nothing stored changes but devices, entitlement and added cache entries. *)
LEMMA QuietStep ==
  ASSUME IInv,
         UNCHANGED <<sess, caps, expiry, held>>,
         device' \in [Device -> {"ACTIVE", "REVOKED"}],
         entitled' \in SUBSET Episode,
         redis \subseteq redis', redis' \in SUBSET Nat,
         req' \in [Request -> RequestState]
  PROVE  /\ Grows /\ TypeOK'
         /\ RequestsSound' => IInv'
<1>1. Grows
  BY RowTyped DEF Grows, IInv
<1>2. TypeOK'
  BY DEF IInv, TypeOK
<1>3. RowsNamed' /\ CapsNamed' /\ HeldIssued' /\ CurrentCapabilityCached'
  BY DEF IInv, RowsNamed, CapsNamed, HeldIssued, CurrentCapabilityCached, Playing, Unexpired
<1> QED
  BY <1>1, <1>2, <1>3 DEF IInv

(* A request moves, everything else is as above. *)
LEMMA QuietMove ==
  ASSUME IInv,
         UNCHANGED <<sess, caps, expiry, held, device, entitled>>,
         redis \subseteq redis', redis' \in SUBSET Nat,
         NEW r \in Request, NEW q \in RequestState,
         req' = [req EXCEPT ![r] = q], RequestSound(q)
  PROVE  IInv' /\ Grows
<1>1. device' \in [Device -> {"ACTIVE", "REVOKED"}] /\ entitled' \in SUBSET Episode
  BY DEF IInv, TypeOK
<1>2. req' \in [Request -> RequestState]
  BY DEF IInv, TypeOK
<1>3. RequestSound(q)'
  BY DEF RequestSound
<1> QED
  BY <1>1, <1>2, <1>3, QuietStep, RequestMoves

(* Sessions change their status only, and only to an end. *)
LEMMA StatusStep ==
  ASSUME IInv,
         UNCHANGED <<caps, expiry, redis, held, entitled>>,
         device' \in [Device -> {"ACTIVE", "REVOKED"}],
         req' \in [Request -> RequestState],
         sess' \in Seq(SessionRow), DOMAIN sess' = DOMAIN sess,
         \A s \in DOMAIN sess :
           /\ sess'[s].jti = sess[s].jti
           /\ sess'[s].status = sess[s].status \/ sess'[s].status \in Ended
  PROVE  /\ Grows /\ TypeOK'
         /\ RequestsSound' => IInv'
<1>1. Grows
  BY RowTyped DEF Grows, IInv
<1>2. TypeOK'
  BY DEF IInv, TypeOK
<1>3. RowsNamed' /\ CapsNamed' /\ HeldIssued'
  BY DEF IInv, RowsNamed, CapsNamed, HeldIssued
<1>4. CurrentCapabilityCached'
  BY DEF IInv, CurrentCapabilityCached, Playing, Unexpired, Ended
<1> QED
  BY <1>1, <1>2, <1>3, <1>4 DEF IInv

(* A request deletes the entry of a capability of its session, which has   *)
(* moved on or ended.                                                      *)
LEMMA DeleteStep ==
  ASSUME IInv,
         UNCHANGED <<device, entitled, sess, caps, expiry, held>>,
         NEW r \in Request,
         redis' = redis \ {req[r].old},
         req[r].pc \in {"drop", "delete"},
         req' \in [Request -> RequestState]
  PROVE  /\ Grows /\ TypeOK'
         /\ RequestsSound' => IInv'
<1>1. Grows
  BY RowTyped DEF Grows, IInv
<1>2. TypeOK'
  BY DEF IInv, TypeOK
<1>3. RowsNamed' /\ CapsNamed' /\ HeldIssued'
  BY DEF IInv, RowsNamed, CapsNamed, HeldIssued
<1>4. CurrentCapabilityCached'
  <2> SUFFICES ASSUME NEW s \in DOMAIN sess, Playing(s), sess[s].jti \in held
               PROVE  sess[s].jti \in redis'
    BY DEF CurrentCapabilityCached, Playing, Unexpired
  <2>1. sess[s].jti \in redis /\ caps[sess[s].jti] = s
    BY DEF IInv, CurrentCapabilityCached, RowsNamed
  <2>2. caps[req[r].old] = req[r].sess
    BY DEF IInv, RequestsSound, RequestSound
  <2>3. CASE s # req[r].sess
    BY <2>1, <2>2, <2>3
  <2>4. CASE s = req[r].sess
    <3>1. sess[s].status \notin Ended
      BY DEF Playing, Ended
    <3>2. req[r].pc = "drop" /\ req[r].old < sess[s].jti
      BY <2>4, <3>1 DEF IInv, RequestsSound, RequestSound
    <3>3. req[r].old \in Nat /\ sess[s].jti \in Nat
      BY RowTyped DEF IInv, TypeOK, RequestState
    <3> QED
      BY <2>1, <3>2, <3>3
  <2> QED
    BY <2>3, <2>4
<1> QED
  BY <1>1, <1>2, <1>3, <1>4 DEF IInv

(* Session s, new or not, is given a capability that is just issued. *)
LEMMA IssueStep ==
  ASSUME IInv,
         UNCHANGED <<device, entitled, redis, held, expiry>>,
         req' \in [Request -> RequestState],
         sess' \in Seq(SessionRow), DOMAIN sess \subseteq DOMAIN sess',
         NEW s \in DOMAIN sess',
         caps' = Append(caps, s),
         sess'[s].jti = Len(caps) + 1,
         s \in DOMAIN sess => sess'[s].status = sess[s].status,
         \A t \in DOMAIN sess' \ {s} : t \in DOMAIN sess /\ sess'[t] = sess[t]
  PROVE  /\ Grows /\ TypeOK'
         /\ RequestsSound' => IInv'
<1>1. caps \in Seq(Nat) /\ s \in Nat /\ Len(caps) \in Nat
  BY DEF IInv, TypeOK
<1>2. /\ DOMAIN caps = 1..Len(caps) /\ DOMAIN caps' = 1..(Len(caps) + 1)
      /\ caps' \in Seq(Nat)
      /\ \A j \in DOMAIN caps : caps'[j] = caps[j]
      /\ caps'[Len(caps) + 1] = s
  BY <1>1
<1>3. TypeOK'
  BY <1>2 DEF IInv, TypeOK
<1>4. Grows
  <2> SUFFICES ASSUME NEW t \in DOMAIN sess
               PROVE  /\ sess[t].jti <= sess'[t].jti
                      /\ sess[t].status \in Ended => sess'[t].status \in Ended
    BY <1>2 DEF Grows
  <2>1. sess[t].jti \in 1..Len(caps)
    BY <1>2 DEF IInv, RowsNamed
  <2>2. CASE t = s
    BY <1>1, <2>1, <2>2
  <2>3. CASE t # s
    <3>1. sess'[t] = sess[t]
      BY <2>3
    <3> QED
      BY <2>1, <3>1
  <2> QED
    BY <2>2, <2>3
<1>5. RowsNamed' /\ CapsNamed' /\ HeldIssued'
  <2>1. RowsNamed'
    BY <1>1, <1>2 DEF IInv, RowsNamed
  <2>2. CapsNamed'
    BY <1>1, <1>2 DEF IInv, CapsNamed
  <2>3. HeldIssued'
    BY <1>2 DEF IInv, HeldIssued
  <2> QED
    BY <2>1, <2>2, <2>3
<1>6. CurrentCapabilityCached'
  <2>1. sess'[s].jti \notin held
    BY <1>1, <1>2 DEF IInv, HeldIssued
  <2> QED
    BY <2>1 DEF IInv, CurrentCapabilityCached, Playing, Unexpired
<1> QED
  BY <1>3, <1>4, <1>5, <1>6 DEF IInv

(* Sessions and requests keep their shape; entries come with their holders, *)
(* or go when the clock passes them.                                        *)
LEMMA CacheStep ==
  ASSUME IInv,
         UNCHANGED <<device, entitled, sess, caps>>,
         NEW new \in SUBSET DOMAIN caps,
         redis' \in SUBSET Nat,
         req' \in [Request -> RequestState],
         expiry' \in Nat,
         held' \subseteq held \cup new, new \subseteq redis',
         \A j \in DOMAIN caps : j > expiry' => j > expiry /\ (j \in redis => j \in redis')
  PROVE  /\ Grows /\ TypeOK'
         /\ RequestsSound' => IInv'
<1>1. Grows
  BY RowTyped DEF Grows, IInv
<1>2. held' \subseteq DOMAIN caps /\ DOMAIN caps \subseteq Nat
  BY DEF IInv, HeldIssued, TypeOK
<1>3. TypeOK'
  BY <1>2 DEF IInv, TypeOK
<1>4. RowsNamed' /\ CapsNamed' /\ HeldIssued'
  BY <1>2 DEF IInv, RowsNamed, CapsNamed, HeldIssued
<1>5. CurrentCapabilityCached'
  BY DEF IInv, RowsNamed, CurrentCapabilityCached, Playing, Unexpired
<1> QED
  BY <1>1, <1>3, <1>4, <1>5 DEF IInv

-----------------------------------------------------------------------------
(* Every action preserves the invariant                                    *)

LEMMA GotoMoves ==
  ASSUME IInv, NEW r \in Request, NEW pc, [req[r] EXCEPT !.pc = pc] \in RequestState,
         Goto(r, pc)
  PROVE  \E q \in RequestState :
           /\ q.pc = pc /\ q.op = req[r].op /\ q.ep = req[r].ep /\ q.dev = req[r].dev
           /\ q.sess = req[r].sess /\ q.cap = req[r].cap /\ q.old = req[r].old
           /\ req' = [req EXCEPT ![r] = q]
  BY DEF Goto, IInv, TypeOK, RequestState

LEMMA RequestTyped ==
  ASSUME IInv, NEW r \in Request
  PROVE  req[r] \in RequestState /\ RequestSound(req[r])
  BY DEF IInv, TypeOK, RequestsSound

(* A request that only moves on, in which its knowledge suffices. *)
LEMMA QuietGoto ==
  ASSUME IInv, NEW r \in Request, NEW pc,
         [req[r] EXCEPT !.pc = pc] \in RequestState,
         RequestSound([req[r] EXCEPT !.pc = pc]),
         Goto(r, pc), UNCHANGED <<Database, Clients, redis>>
  PROVE  IInv' /\ Grows
<1> PICK q \in RequestState : q = [req[r] EXCEPT !.pc = pc]
  OBVIOUS
<1>1. req' = [req EXCEPT ![r] = q] /\ RequestSound(q)
  BY DEF Goto, IInv, TypeOK
<1>2. redis \in SUBSET Nat
  BY DEF IInv, TypeOK
<1> QED
  BY <1>1, <1>2, QuietMove DEF Database, Clients

LEMMA QuietFinish ==
  ASSUME IInv, NEW r \in Request, Finish(r), UNCHANGED <<Database, Clients, redis>>
  PROVE  IInv' /\ Grows
<1> redis \in SUBSET Nat
  BY DEF IInv, TypeOK
<1> QED
  BY IdleSound, QuietMove DEF Finish, Database, Clients

(* A request that begins. *)
LEMMA QuietBegin ==
  ASSUME IInv, NEW r \in Request, NEW q \in RequestState, RequestSound(q),
         Begin(r, q), UNCHANGED <<Database, Clients, redis>>
  PROVE  IInv' /\ Grows
<1> redis \in SUBSET Nat
  BY DEF IInv, TypeOK
<1> QED
  BY QuietMove DEF Begin, Database, Clients

LEMMA StartAuthorizeStep ==
  ASSUME IInv, NEW r \in Request, NEW e \in Episode, NEW d \in Device, StartAuthorize(r, e, d)
  PROVE  IInv' /\ Grows
<1> PICK q \in RequestState :
      q = [Idle EXCEPT !.op = "start", !.pc = "authorized", !.ep = e, !.dev = d]
  BY DEF Idle, RequestState
<1>1. RequestSound(q)
  BY DEF RequestSound, Idle
<1> QED
  BY <1>1, QuietBegin DEF StartAuthorize

LEMMA StartFindStep ==
  ASSUME IInv, NEW r \in Request, StartFind(r)
  PROVE  IInv' /\ Grows
<1>1. CASE Goto(r, "create")
  <2>1. [req[r] EXCEPT !.pc = "create"] \in RequestState
    BY RequestTyped DEF RequestState
  <2>2. RequestSound([req[r] EXCEPT !.pc = "create"])
    BY RequestTyped DEF RequestSound, RequestState, StartFind, At
  <2> QED
    BY <1>1, <2>1, <2>2, QuietGoto DEF StartFind
<1>2. ASSUME NEW s \in DOMAIN sess,
             req' = [req EXCEPT ![r].pc = "rotate", ![r].sess = s]
      PROVE  IInv' /\ Grows
  <2>1. s \in Nat
    BY DEF IInv, TypeOK
  <2> PICK q \in RequestState : q = [req[r] EXCEPT !.pc = "rotate", !.sess = s]
    BY <2>1, RequestTyped DEF RequestState
  <2>2. RequestSound(q)
    BY RequestTyped DEF RequestSound, RequestState
  <2>3. req' = [req EXCEPT ![r] = q] /\ redis \in SUBSET Nat
    BY <1>2 DEF IInv, TypeOK
  <2> QED
    BY <2>2, <2>3, QuietMove DEF StartFind, Database, Clients
<1> QED
  BY <1>1, <1>2 DEF StartFind

LEMMA StartCreateStep ==
  ASSUME IInv, NEW r \in Request, StartCreate(r)
  PROVE  IInv' /\ Grows
<1>1. /\ sess \in Seq(SessionRow) /\ caps \in Seq(Nat)
      /\ Len(sess) \in Nat /\ Len(caps) \in Nat
  BY DEF IInv, TypeOK
<1> PICK s \in Nat, j \in Nat : s = Len(sess) + 1 /\ j = Len(caps) + 1
  BY <1>1
<1> PICK row \in SessionRow :
      row = [status |-> "ACTIVE", ep |-> req[r].ep, dev |-> req[r].dev, jti |-> j]
  BY RequestTyped DEF SessionRow, RequestSound, StartCreate, At
<1>2. sess' = Append(sess, row) /\ caps' = Append(caps, s)
  BY DEF StartCreate
<1>3. /\ sess' \in Seq(SessionRow)
      /\ DOMAIN sess = 1..Len(sess) /\ DOMAIN sess' = 1..s
      /\ sess'[s] = row
      /\ \A t \in DOMAIN sess : sess'[t] = sess[t]
      /\ DOMAIN caps' = 1..j
  BY <1>1, <1>2
<1> PICK q \in RequestState : q = [req[r] EXCEPT !.pc = "cache", !.sess = s, !.cap = j]
  BY RequestTyped DEF RequestState
<1>4. req' = [req EXCEPT ![r] = q] /\ req' \in [Request -> RequestState]
  BY DEF StartCreate, IInv, TypeOK
<1>5. Grows /\ TypeOK' /\ (RequestsSound' => IInv')
  <2>1. s \in DOMAIN sess' /\ s \notin DOMAIN sess /\ DOMAIN sess \subseteq DOMAIN sess'
    BY <1>1, <1>3
  <2>2. \A t \in DOMAIN sess' \ {s} : t \in DOMAIN sess /\ sess'[t] = sess[t]
    BY <1>1, <1>3
  <2> QED
    BY <1>2, <1>3, <1>4, <2>1, <2>2, IssueStep DEF StartCreate, Clients
<1>6. RequestSound(q)'
  <2>1. q.pc = "cache" /\ q.sess = s /\ q.cap = j
    BY RequestTyped DEF RequestState
  <2>2. s \in DOMAIN sess' /\ j \in DOMAIN caps'
    BY <1>1, <1>3
  <2> QED
    BY <2>1, <2>2 DEF RequestSound
<1> QED
  BY <1>4, <1>5, <1>6, RequestMoves

LEMMA CacheAndAnswerStep ==
  ASSUME IInv, NEW r \in Request, CacheAndAnswer(r)
  PROVE  IInv' /\ Grows
<1>1. req[r].cap \in DOMAIN caps /\ DOMAIN caps \subseteq Nat
  BY RequestTyped DEF CacheAndAnswer, At, RequestSound, IInv, TypeOK
<1> PICK new \in SUBSET DOMAIN caps : new = With({}, req[r].cap)
  BY <1>1 DEF With
<1>2. redis' = redis \cup new /\ held' = held \cup new
  BY DEF CacheAndAnswer, With
<1>3. /\ req' = [req EXCEPT ![r] = Idle] /\ req' \in [Request -> RequestState]
      /\ redis \in SUBSET Nat /\ expiry \in Nat
  BY IdleSound DEF CacheAndAnswer, Finish, IInv, TypeOK
<1>4. Grows /\ TypeOK' /\ (RequestsSound' => IInv')
  <2>1. redis' \in SUBSET Nat /\ expiry' \in Nat /\ expiry' = expiry
    BY <1>1, <1>2, <1>3 DEF CacheAndAnswer
  <2> QED
    BY <1>2, <1>3, <2>1, CacheStep DEF CacheAndAnswer, Database
<1>5. RequestSound(Idle)'
  BY DEF RequestSound, Idle
<1> QED
  BY <1>3, <1>4, <1>5, IdleSound, RequestMoves

LEMMA ResumeCheckStep ==
  ASSUME IInv, NEW r \in Request, NEW s, ResumeCheck(r, s)
  PROVE  IInv' /\ Grows
<1>1. s \in DOMAIN sess /\ s \in Nat
  BY DEF ResumeCheck, IInv, TypeOK
<1> PICK q \in RequestState : q = [Idle EXCEPT !.op = "resume", !.pc = "rotate", !.sess = s]
  BY <1>1 DEF Idle, RequestState
<1>2. RequestSound(q)
  BY <1>1 DEF RequestSound, Idle
<1> QED
  BY <1>2, QuietBegin DEF ResumeCheck

LEMMA StatusCheckStep ==
  ASSUME IInv, NEW r \in Request, NEW s, StatusCheck(r, s)
  PROVE  IInv' /\ Grows
<1>1. s \in DOMAIN sess /\ s \in Nat
  BY DEF StatusCheck, IInv, TypeOK
<1> PICK q \in RequestState : q = [Idle EXCEPT !.op = "expire", !.pc = "mark", !.sess = s]
  BY <1>1 DEF Idle, RequestState
<1>2. RequestSound(q)
  BY <1>1 DEF RequestSound, Idle
<1> QED
  BY <1>2, QuietBegin DEF StatusCheck

LEMMA RotateReadStep ==
  ASSUME IInv, NEW r \in Request, RotateRead(r)
  PROVE  IInv' /\ Grows
<1>1. req[r].pc = "rotate" /\ req[r].sess \in DOMAIN sess
  BY RequestTyped DEF RotateRead, At, RequestSound
<1>2. /\ sess[req[r].sess].jti \in Nat /\ sess[req[r].sess].jti \in DOMAIN caps
      /\ caps[sess[req[r].sess].jti] = req[r].sess
  BY <1>1, RowTyped DEF IInv, RowsNamed
<1> PICK q \in RequestState :
      q = [req[r] EXCEPT !.pc = "write", !.old = sess[req[r].sess].jti]
  BY <1>2, RequestTyped DEF RequestState
<1>3. RequestSound(q)
  <2>1. q.pc = "write" /\ q.sess = req[r].sess /\ q.old = sess[req[r].sess].jti
    BY RequestTyped DEF RequestState
  <2> QED
    BY <1>1, <1>2, <2>1 DEF RequestSound
<1>4. req' = [req EXCEPT ![r] = q] /\ redis \in SUBSET Nat
  BY DEF RotateRead, IInv, TypeOK
<1> QED
  BY <1>3, <1>4, QuietMove DEF RotateRead, Database, Clients

LEMMA RotateWriteStep ==
  ASSUME IInv, NEW r \in Request, RotateWrite(r)
  PROVE  IInv' /\ Grows
<1> PICK s \in DOMAIN sess : s = req[r].sess
  BY RequestTyped DEF RotateWrite, At, RequestSound
<1>1. /\ sess \in Seq(SessionRow) /\ caps \in Seq(Nat)
      /\ Len(caps) \in Nat /\ DOMAIN caps = 1..Len(caps)
  BY DEF IInv, TypeOK
<1> PICK j \in Nat : j = Len(caps) + 1
  BY <1>1
<1> PICK row \in SessionRow : row = [sess[s] EXCEPT !.jti = j]
  BY RowTyped DEF IInv, SessionRow
<1>2. sess' = [sess EXCEPT ![s] = row] /\ caps' = Append(caps, s)
  BY DEF RotateWrite
<1>3. row.jti = j /\ row.status = sess[s].status
  BY RowTyped DEF IInv, SessionRow
<1>4. /\ sess' \in Seq(SessionRow) /\ DOMAIN sess' = DOMAIN sess
      /\ sess'[s] = row
      /\ \A t \in DOMAIN sess \ {s} : sess'[t] = sess[t]
      /\ DOMAIN caps' = 1..j
      /\ \A i \in DOMAIN caps : caps'[i] = caps[i]
  BY <1>1, <1>2
<1> PICK q \in RequestState : q = [req[r] EXCEPT !.pc = "drop", !.cap = j]
  BY RequestTyped DEF RequestState
<1>5. req' = [req EXCEPT ![r] = q] /\ req' \in [Request -> RequestState]
  BY DEF RotateWrite, IInv, TypeOK
<1>6. Grows /\ TypeOK' /\ (RequestsSound' => IInv')
  BY <1>2, <1>3, <1>4, <1>5, IssueStep DEF RotateWrite, Clients
<1>7. RequestSound(q)'
  <2>1. /\ q.pc = "drop" /\ q.sess = s /\ q.cap = j /\ q.old = req[r].old
    BY RequestTyped DEF RequestState
  <2>2. q.old \in DOMAIN caps /\ caps[q.old] = s
    BY <2>1, RequestTyped DEF RotateWrite, At, RequestSound
  <2>3. q.old < j /\ j \in DOMAIN caps' /\ q.old \in DOMAIN caps' /\ caps'[q.old] = s
    BY <1>1, <1>4, <2>2
  <2> QED
    BY <1>3, <1>4, <2>1, <2>3 DEF RequestSound
<1> QED
  BY <1>5, <1>6, <1>7, RequestMoves

LEMMA RotateDropStep ==
  ASSUME IInv, NEW r \in Request, RotateDrop(r)
  PROVE  IInv' /\ Grows
<1> PICK q \in RequestState : q = [req[r] EXCEPT !.pc = "cache"]
  BY RequestTyped DEF RequestState
<1>1. req' = [req EXCEPT ![r] = q] /\ req' \in [Request -> RequestState]
  BY DEF RotateDrop, Goto, IInv, TypeOK
<1>2. RequestSound(q)'
  BY RequestTyped DEF RotateDrop, At, Database, RequestSound, RequestState
<1> QED
  BY <1>1, <1>2, DeleteStep, RequestMoves DEF RotateDrop, At, Database, Clients

LEMMA UseCapabilityStep ==
  ASSUME IInv, NEW r \in Request, NEW j, NEW op \in {"serve", "stop"}, UseCapability(r, j, op)
  PROVE  IInv' /\ Grows
<1>1. j \in DOMAIN caps /\ j \in Nat /\ caps[j] \in DOMAIN sess /\ caps[j] \in Nat
  BY DEF UseCapability, Presents, IInv, HeldIssued, CapsNamed, TypeOK
<1> PICK q \in RequestState :
      q = [Idle EXCEPT !.op = op, !.pc = "cached", !.sess = caps[j], !.cap = j]
  BY <1>1 DEF Idle, RequestState
<1>2. RequestSound(q)
  BY <1>1 DEF RequestSound, Idle
<1> QED
  BY <1>2, QuietBegin DEF UseCapability

LEMMA MismatchStep ==
  ASSUME IInv, NEW r \in Request, NEW j, Mismatch(r, j)
  PROVE  IInv' /\ Grows
<1>1. caps[j] \in DOMAIN sess /\ caps[j] \in Nat
  BY DEF Mismatch, Presents, IInv, HeldIssued, CapsNamed, TypeOK
<1> PICK q \in RequestState : q = [Idle EXCEPT !.op = "mismatch", !.pc = "read", !.sess = caps[j]]
  BY <1>1 DEF Idle, RequestState
<1>2. RequestSound(q)
  BY <1>1 DEF RequestSound, Idle
<1> QED
  BY <1>2, QuietBegin DEF Mismatch

LEMMA ValidateSessionStep ==
  ASSUME IInv, NEW r \in Request, ValidateSession(r)
  PROVE  IInv' /\ Grows
<1>1. CASE Goto(r, "valid")
  <2>1. [req[r] EXCEPT !.pc = "valid"] \in RequestState
    BY RequestTyped DEF RequestState
  <2>2. RequestSound([req[r] EXCEPT !.pc = "valid"])
    BY RequestTyped DEF RequestSound, RequestState, ValidateSession, At
  <2> QED
    BY <1>1, <2>1, <2>2, QuietGoto DEF ValidateSession
<1> QED
  BY <1>1, QuietFinish DEF ValidateSession

LEMMA RecacheStep ==
  ASSUME IInv, NEW r \in Request, Recache(r)
  PROVE  IInv' /\ Grows
<1>1. /\ redis \subseteq redis' /\ redis' \in SUBSET Nat
      /\ UNCHANGED <<sess, caps, expiry, held, device, entitled>>
  BY RequestTyped DEF Recache, With, Database, Clients, RequestState, IInv, TypeOK
<1>2. CASE Goto(r, "close")
  <2> PICK q \in RequestState : q = [req[r] EXCEPT !.pc = "close"]
    BY RequestTyped DEF RequestState
  <2>1. req' = [req EXCEPT ![r] = q]
    BY <1>2 DEF Goto, IInv, TypeOK
  <2>2. RequestSound(q)
    BY RequestTyped DEF RequestSound, RequestState, Recache, At
  <2> QED
    BY <1>1, <2>1, <2>2, QuietMove
<1>3. CASE Finish(r)
  BY <1>1, <1>3, IdleSound, QuietMove DEF Finish
<1> QED
  BY <1>2, <1>3 DEF Recache

(* One session, named by its request, may end. *)
LEMMA EndStep ==
  ASSUME IInv, NEW r \in Request,
         UNCHANGED <<device, entitled, caps, expiry, redis, held>>,
         NEW s \in DOMAIN sess, NEW status \in Ended,
         sess' = [sess EXCEPT ![s].status = status] \/ sess' = sess,
         NEW q \in RequestState, req' = [req EXCEPT ![r] = q],
         RequestSound(q)'
  PROVE  IInv' /\ Grows
<1>1. sess[s] \in SessionRow /\ sess \in Seq(SessionRow) /\ s \in 1..Len(sess)
  BY RowTyped DEF IInv, TypeOK
<1> PICK row \in SessionRow : row = [sess[s] EXCEPT !.status = status]
  BY <1>1 DEF SessionRow
<1>2. row.jti = sess[s].jti /\ row.status = status
  BY <1>1 DEF SessionRow
<1>3. sess' = [sess EXCEPT ![s] = row] \/ sess' = sess
  BY <1>1
<1>4. /\ sess' \in Seq(SessionRow) /\ DOMAIN sess' = DOMAIN sess
      /\ \A t \in DOMAIN sess : sess'[t] = sess[t] \/ (t = s /\ sess'[t] = row)
  <2>1. sess' \in Seq(SessionRow) /\ DOMAIN sess' = DOMAIN sess
    BY <1>1, <1>3
  <2>2. \A t \in DOMAIN sess : sess'[t] = sess[t] \/ (t = s /\ sess'[t] = row)
    BY <1>1, <1>3
  <2> QED
    BY <2>1, <2>2
<1>5. \A t \in DOMAIN sess :
        /\ sess'[t].jti = sess[t].jti
        /\ sess'[t].status = sess[t].status \/ sess'[t].status \in Ended
  BY <1>2, <1>4
<1>6. device' \in [Device -> {"ACTIVE", "REVOKED"}] /\ req' \in [Request -> RequestState]
  BY DEF IInv, TypeOK
<1> QED
  BY <1>4, <1>5, <1>6, StatusStep, RequestMoves

LEMMA StopCloseStep ==
  ASSUME IInv, NEW r \in Request, StopClose(r)
  PROVE  IInv' /\ Grows
<1> PICK s \in DOMAIN sess : s = req[r].sess
  BY RequestTyped DEF StopClose, At, RequestSound
<1> PICK q \in RequestState : q = [req[r] EXCEPT !.pc = "read"]
  BY RequestTyped DEF RequestState
<1>1. req' = [req EXCEPT ![r] = q]
  BY DEF StopClose, Goto, IInv, TypeOK
<1>2. /\ sess' = [sess EXCEPT ![s].status = "CLOSED"] \/ sess' = sess
      /\ sess'[s].status \in Ended /\ DOMAIN sess' = DOMAIN sess
  BY RowTyped DEF StopClose, Ended, IInv, SessionRow
<1>3. RequestSound(q)'
  BY <1>2, RequestTyped DEF RequestSound, RequestState
<1> QED
  BY <1>1, <1>2, <1>3, EndStep DEF StopClose, Clients, Ended

LEMMA ExpireMarkStep ==
  ASSUME IInv, NEW r \in Request, ExpireMark(r)
  PROVE  IInv' /\ Grows
<1> PICK s \in DOMAIN sess : s = req[r].sess
  BY RequestTyped DEF ExpireMark, At, RequestSound
<1> PICK q \in RequestState : q = [req[r] EXCEPT !.pc = "read"]
  BY RequestTyped DEF RequestState
<1>1. req' = [req EXCEPT ![r] = q]
  BY DEF ExpireMark, Goto, IInv, TypeOK
<1>2. /\ sess' = [sess EXCEPT ![s].status = "EXPIRED"] \/ sess' = sess
      /\ DOMAIN sess' = DOMAIN sess
  BY DEF ExpireMark
<1>3. RequestSound(q)'
  BY <1>2, RequestTyped DEF RequestSound, RequestState, ExpireMark, At
<1> QED
  BY <1>1, <1>2, <1>3, EndStep DEF ExpireMark, Clients, Ended

LEMMA RevokeReadStep ==
  ASSUME IInv, NEW r \in Request, RevokeRead(r)
  PROVE  IInv' /\ Grows
<1>1. req[r].pc = "read" /\ req[r].sess \in DOMAIN sess
  BY RequestTyped DEF RevokeRead, At, RequestSound
<1>2. /\ sess[req[r].sess].jti \in Nat /\ sess[req[r].sess].jti \in DOMAIN caps
      /\ caps[sess[req[r].sess].jti] = req[r].sess
  BY <1>1, RowTyped DEF IInv, RowsNamed
<1> PICK q \in RequestState :
      q = [req[r] EXCEPT !.old = sess[req[r].sess].jti,
                         !.pc = IF req[r].op = "stop" THEN "delete" ELSE "revoke"]
  BY <1>2, RequestTyped DEF RequestState
<1>3. RequestSound(q)
  <2>1. /\ q.pc = IF req[r].op = "stop" THEN "delete" ELSE "revoke"
        /\ q.sess = req[r].sess /\ q.op = req[r].op /\ q.old = sess[req[r].sess].jti
    BY RequestTyped DEF RequestState
  <2>2. req[r].op = "stop" => sess[req[r].sess].status \in Ended
    BY <1>1, RequestTyped DEF RequestSound
  <2> QED
    BY <1>1, <1>2, <2>1, <2>2 DEF RequestSound
<1>4. req' = [req EXCEPT ![r] = q] /\ redis \in SUBSET Nat
  BY DEF RevokeRead, IInv, TypeOK
<1> QED
  BY <1>3, <1>4, QuietMove DEF RevokeRead, Database, Clients

LEMMA RevokeMarkStep ==
  ASSUME IInv, NEW r \in Request, RevokeMark(r)
  PROVE  IInv' /\ Grows
<1> PICK s \in DOMAIN sess : s = req[r].sess
  BY RequestTyped DEF RevokeMark, At, RequestSound
<1> PICK status \in Ended : status = IF req[r].op = "expire" THEN "EXPIRED" ELSE "REVOKED"
  BY DEF Ended
<1> PICK q \in RequestState : q = [req[r] EXCEPT !.pc = "delete"]
  BY RequestTyped DEF RequestState
<1>1. req' = [req EXCEPT ![r] = q]
  BY DEF RevokeMark, Goto, IInv, TypeOK
<1>2. /\ sess' = [sess EXCEPT ![s].status = status]
      /\ sess'[s].status = status /\ DOMAIN sess' = DOMAIN sess
  BY RowTyped DEF RevokeMark, IInv, SessionRow
<1>3. RequestSound(q)'
  BY <1>2, RequestTyped DEF RequestSound, RequestState, RevokeMark, At
<1>4. UNCHANGED <<device, entitled, caps, expiry, redis, held>>
  BY DEF RevokeMark, Clients
<1> QED
  BY <1>1, <1>2, <1>3, <1>4, EndStep

LEMMA RevokeDeleteStep ==
  ASSUME IInv, NEW r \in Request, RevokeDelete(r)
  PROVE  IInv' /\ Grows
<1>1. req' = [req EXCEPT ![r] = Idle] /\ req' \in [Request -> RequestState]
  BY IdleSound DEF RevokeDelete, Finish, IInv, TypeOK
<1>2. RequestSound(Idle)'
  BY DEF RequestSound, Idle
<1> QED
  BY <1>1, <1>2, IdleSound, DeleteStep, RequestMoves DEF RevokeDelete, At, Database, Clients

(* No request moves. *)
LEMMA SweepRequests ==
  ASSUME IInv, TypeOK', Grows, UNCHANGED req
  PROVE  RequestsSound'
<1> SUFFICES ASSUME NEW r \in Request PROVE RequestSound(req[r])'
  BY DEF RequestsSound
<1> PICK k \in RequestState : k = req[r] /\ k = req'[r] /\ RequestSound(k)
  BY RequestTyped
<1>1. RequestSound(k)'
  BY KnowledgeKept DEF IInv
<1> QED
  BY <1>1 DEF RequestSound

(* Sessions that end together, no request moving. *)
LEMMA EndManyStep ==
  ASSUME IInv, UNCHANGED <<entitled, caps, expiry, redis, held, req>>,
         device' \in [Device -> {"ACTIVE", "REVOKED"}],
         NEW gone \in SUBSET DOMAIN sess, NEW status \in Ended,
         sess' = [s \in DOMAIN sess |->
                    IF s \in gone THEN [sess[s] EXCEPT !.status = status] ELSE sess[s]]
  PROVE  IInv' /\ Grows
<1>1. sess \in Seq(SessionRow) /\ Len(sess) \in Nat /\ DOMAIN sess = 1..Len(sess)
  BY DEF IInv, TypeOK
<1>2. sess' \in Seq(SessionRow) /\ DOMAIN sess' = DOMAIN sess
  <2>1. sess' \in [1..Len(sess) -> SessionRow]
    BY <1>1, RowTyped DEF IInv, SessionRow
  <2> QED
    BY <1>1, <2>1, SeqDef
<1>3. \A s \in DOMAIN sess :
        /\ sess'[s].jti = sess[s].jti
        /\ sess'[s].status = sess[s].status \/ sess'[s].status \in Ended
  BY RowTyped DEF IInv, SessionRow
<1>4. req' \in [Request -> RequestState]
  BY DEF IInv, TypeOK
<1>5. Grows /\ TypeOK' /\ (RequestsSound' => IInv')
  BY <1>2, <1>3, <1>4, StatusStep
<1> QED
  BY <1>5, SweepRequests

LEMMA RevokeDeviceStep ==
  ASSUME IInv, NEW d \in Device, RevokeDevice(d)
  PROVE  IInv' /\ Grows
<1> PICK gone \in SUBSET DOMAIN sess :
      gone = {s \in DOMAIN sess : sess[s].dev = d /\ sess[s].status = "ACTIVE"}
  OBVIOUS
<1>1. device' \in [Device -> {"ACTIVE", "REVOKED"}]
  BY DEF RevokeDevice, IInv, TypeOK
<1>2. sess' = [s \in DOMAIN sess |->
                 IF s \in gone THEN [sess[s] EXCEPT !.status = "REVOKED"] ELSE sess[s]]
  BY DEF RevokeDevice
<1> QED
  BY <1>1, <1>2, EndManyStep DEF RevokeDevice, Clients, Ended

LEMMA CleanupStep ==
  ASSUME IInv, Cleanup
  PROVE  IInv' /\ Grows
<1> PICK gone \in SUBSET DOMAIN sess :
      gone = {s \in DOMAIN sess : sess[s].status = "ACTIVE" /\ ~Unexpired(sess[s].jti)}
  OBVIOUS
<1>1. device' \in [Device -> {"ACTIVE", "REVOKED"}]
  BY DEF Cleanup, IInv, TypeOK
<1>2. sess' = [s \in DOMAIN sess |->
                 IF s \in gone THEN [sess[s] EXCEPT !.status = "EXPIRED"] ELSE sess[s]]
  BY DEF Cleanup
<1> QED
  BY <1>1, <1>2, EndManyStep DEF Cleanup, Clients, Ended

LEMMA EnvironmentStep ==
  ASSUME IInv,
         (\E d \in Device : RegisterDevice(d)) \/ (\E e \in Episode : Entitle(e)) \/ UNCHANGED vars
  PROVE  IInv' /\ Grows
<1>1. /\ UNCHANGED <<sess, caps, expiry, held, redis, req>>
      /\ device' \in [Device -> {"ACTIVE", "REVOKED"}]
      /\ entitled' \in SUBSET Episode
  BY DEF RegisterDevice, Entitle, Clients, Database, vars, IInv, TypeOK
<1>2. redis' \in SUBSET Nat /\ req' \in [Request -> RequestState]
  BY <1>1 DEF IInv, TypeOK
<1> QED
  BY <1>1, <1>2, QuietStep, SweepRequests

LEMMA TickStep ==
  ASSUME IInv, Tick
  PROVE  IInv' /\ Grows
<1>1. /\ expiry \in Nat /\ expiry' = expiry + 1 /\ DOMAIN caps \subseteq Nat
      /\ redis' = redis \ {expiry + 1} /\ held' = held \ {expiry + 1}
      /\ redis' \in SUBSET Nat /\ req' \in [Request -> RequestState]
  BY DEF Tick, IInv, TypeOK
<1>2. \A j \in DOMAIN caps : j > expiry' => j > expiry /\ (j \in redis => j \in redis')
  BY <1>1
<1> PICK new \in SUBSET DOMAIN caps : new = {}
  OBVIOUS
<1>3. held' \subseteq held \cup new /\ new \subseteq redis' /\ expiry' \in Nat
  BY <1>1
<1> QED
  BY <1>1, <1>2, <1>3, CacheStep, SweepRequests DEF Tick, Database

-----------------------------------------------------------------------------
(* Theorems                                                                *)

LEMMA NextStep == ASSUME IInv, [Next]_vars PROVE IInv' /\ Grows
<1>1. ASSUME NEW r \in Request, NEW e \in Episode, NEW d \in Device, StartAuthorize(r, e, d)
      PROVE  IInv' /\ Grows
  BY <1>1, StartAuthorizeStep
<1>2. ASSUME NEW r \in Request,
             \/ StartFind(r) \/ StartCreate(r) \/ CacheAndAnswer(r)
             \/ RotateRead(r) \/ RotateWrite(r) \/ RotateDrop(r)
      PROVE  IInv' /\ Grows
  BY <1>2, StartFindStep, StartCreateStep, CacheAndAnswerStep, RotateReadStep,
     RotateWriteStep, RotateDropStep
<1>3. ASSUME NEW r \in Request, NEW s, ResumeCheck(r, s) \/ StatusCheck(r, s)
      PROVE  IInv' /\ Grows
  BY <1>3, ResumeCheckStep, StatusCheckStep
<1>4. ASSUME NEW r \in Request, NEW j,
             Serve(r, j) \/ Heartbeat(r, j) \/ Stop(r, j) \/ Mismatch(r, j)
      PROVE  IInv' /\ Grows
  BY <1>4, UseCapabilityStep, MismatchStep DEF Serve, Heartbeat, Stop
<1>5. ASSUME NEW r \in Request,
             \/ ValidateSession(r) \/ Recache(r) \/ StopClose(r) \/ ExpireMark(r)
             \/ RevokeRead(r) \/ RevokeMark(r) \/ RevokeDelete(r)
      PROVE  IInv' /\ Grows
  BY <1>5, ValidateSessionStep, RecacheStep, StopCloseStep, ExpireMarkStep,
     RevokeReadStep, RevokeMarkStep, RevokeDeleteStep
<1>6. ASSUME NEW r \in Request, Crash(r) PROVE IInv' /\ Grows
  BY <1>6, QuietFinish DEF Crash
<1>7. CASE Cleanup \/ Tick \/ UNCHANGED vars
  BY <1>7, CleanupStep, TickStep, EnvironmentStep
<1>8. ASSUME NEW d \in Device, RevokeDevice(d) \/ RegisterDevice(d) PROVE IInv' /\ Grows
  BY <1>8, RevokeDeviceStep, EnvironmentStep
<1>9. ASSUME NEW e \in Episode, Entitle(e) PROVE IInv' /\ Grows
  BY <1>9, EnvironmentStep
<1> QED
  BY <1>1, <1>2, <1>3, <1>4, <1>5, <1>6, <1>7, <1>8, <1>9 DEF Next

THEOREM Invariant == Spec => []IInv
<1>1. IInv /\ [Next]_vars => IInv'
  BY NextStep
<1> QED
  BY InitIInv, <1>1, PTL DEF Spec

(* The variables keep their types: the rows of playback_sessions, the      *)
(* capabilities and what each request carries, for any bounds.             *)
THEOREM TypeCorrect == Spec => []TypeOK
<1>1. IInv => TypeOK
  BY DEF IInv
<1> QED
  BY <1>1, Invariant, PTL

(* Whatever rotations, stops, expiries and revocations of however many     *)
(* processes interleave, the entry of the capability that an active        *)
(* session's row names and a client holds is in Redis.                     *)
THEOREM CurrentStaysCached == Spec => []CurrentCapabilityCached
<1>1. IInv => CurrentCapabilityCached
  BY DEF IInv
<1> QED
  BY <1>1, Invariant, PTL

(* An ended session never becomes active again, although its row is also   *)
(* written by updates that do not look at the status.                      *)
THEOREM EndedForGood == Spec => EndIsFinal
<1>1. IInv /\ [Next]_vars =>
        [\A s \in DOMAIN sess : sess[s].status \in Ended => sess'[s].status \in Ended]_vars
  BY NextStep DEF Grows
<1> QED
  BY <1>1, Invariant, PTL DEF Spec, EndIsFinal

-----------------------------------------------------------------------------
(* The limit, while one start or resume at a time is between its checks    *)
(* and its write                                                           *)

Opening(r) == req[r].pc \in {"authorized", "create", "rotate", "write"}
OpenApart == \A q, r \in Request : Opening(q) /\ Opening(r) => q = r

InPlay == {s \in DOMAIN sess : Playing(s)}

(* What a request that is opening has checked still holds; a session it is *)
(* to rotate counts although it may have expired meanwhile.                *)
OpeningSound(q) ==
  /\ q.pc \in {"authorized", "create"} => Cardinality(Others(q.ep, q.dev)) < MaxConcurrent
  /\ q.pc = "create" => \A s \in InPlay : ~SameStream(s, q.ep, q.dev)
  /\ q.pc \in {"rotate", "write"} =>
       /\ Cardinality(InPlay \cup {q.sess}) <= MaxConcurrent
       /\ \A s \in InPlay : SameStream(s, sess[q.sess].ep, sess[q.sess].dev) => s = q.sess

(* One session of a stream is enough for StartFind not to pass another by. *)
Limited ==
  /\ ConcurrentLimit
  /\ \A s, t \in InPlay : SameStream(s, sess[t].ep, sess[t].dev) => s = t
  /\ \A r \in Request : OpeningSound(req[r])

(* Streams stay what they are, and no session comes into play. *)
Settles ==
  /\ DOMAIN sess' = DOMAIN sess
  /\ \A s \in DOMAIN sess :
       /\ sess'[s].ep = sess[s].ep /\ sess'[s].dev = sess[s].dev
       /\ Playing(s)' => Playing(s)

(* Nor does a request get on with opening. *)
Bystands(r) == req'[r] = req[r] \/ ~Opening(r)'

LEMMA InPlayFinite ==
  ASSUME TypeOK
  PROVE  IsFiniteSet(InPlay) /\ \A T \in SUBSET InPlay : IsFiniteSet(T)
<1>1. Len(sess) \in Nat /\ DOMAIN sess = 1 .. Len(sess)
  BY DEF TypeOK
<1>2. IsFiniteSet(1 .. Len(sess))
  BY <1>1, FS_Interval
<1>3. InPlay \in SUBSET (1 .. Len(sess))
  BY <1>1 DEF InPlay
<1>4. IsFiniteSet(InPlay)
  BY <1>2, <1>3, FS_Subset
<1> QED
  BY <1>4, FS_Subset

(* A subset of counted sessions is within the same limit. *)
LEMMA FewerCount ==
  ASSUME NEW S, IsFiniteSet(S), NEW T \in SUBSET S
  PROVE  /\ Cardinality(S) \in Nat /\ Cardinality(T) \in Nat
         /\ Cardinality(T) <= Cardinality(S)
         /\ Cardinality(S) <= MaxConcurrent => Cardinality(T) <= MaxConcurrent
         /\ Cardinality(S) < MaxConcurrent => Cardinality(T) < MaxConcurrent
<1>1. IsFiniteSet(T) /\ Cardinality(T) <= Cardinality(S)
  BY FS_Subset
<1>2. Cardinality(S) \in Nat /\ Cardinality(T) \in Nat
  BY <1>1, FS_CardinalityType
<1> QED
  BY <1>1, <1>2, LimitAssumption DEF LimitAssumption

(* While nothing comes into play, what was checked goes on to hold. *)
LEMMA CheckedKept ==
  ASSUME TypeOK, Settles, NEW q, RequestSound(q), OpeningSound(q)
  PROVE  OpeningSound(q)'
<1>1. InPlay' \subseteq InPlay
  BY DEF Settles, InPlay
<1>2. \A s \in DOMAIN sess : \A e, d : SameStream(s, e, d)' <=> SameStream(s, e, d)
  BY DEF Settles, SameStream
<1>3. InPlay \subseteq DOMAIN sess
  BY DEF InPlay
<1>4. ASSUME q.pc \in {"authorized", "create"}
      PROVE  Cardinality(Others(q.ep, q.dev)') < MaxConcurrent
  <2>1. Others(q.ep, q.dev) \in SUBSET InPlay /\ Others(q.ep, q.dev)' \in SUBSET Others(q.ep, q.dev)
    BY <1>2 DEF Settles, Others, InPlay
  <2>2. Cardinality(Others(q.ep, q.dev)) < MaxConcurrent
    BY <1>4 DEF OpeningSound
  <2> QED
    BY <2>1, <2>2, InPlayFinite, FewerCount
<1>5. ASSUME q.pc = "create" PROVE \A s \in InPlay' : ~SameStream(s, q.ep, q.dev)'
  BY <1>1, <1>2, <1>3, <1>5 DEF OpeningSound
<1>6. ASSUME q.pc \in {"rotate", "write"}
      PROVE  /\ Cardinality(InPlay' \cup {q.sess}) <= MaxConcurrent
             /\ \A s \in InPlay' :
                  SameStream(s, sess[q.sess].ep, sess[q.sess].dev)' => s = q.sess
  <2>1. IsFiniteSet(InPlay \cup {q.sess})
    BY InPlayFinite, FS_AddElement
  <2>2. InPlay' \cup {q.sess} \in SUBSET (InPlay \cup {q.sess})
    BY <1>1
  <2>3. Cardinality(InPlay \cup {q.sess}) <= MaxConcurrent
    BY <1>6 DEF OpeningSound
  <2>4. Cardinality(InPlay' \cup {q.sess}) <= MaxConcurrent
    BY <2>1, <2>2, <2>3, FewerCount
  <2>5. q.sess \in DOMAIN sess
    BY <1>6 DEF RequestSound
  <2>6. sess'[q.sess].ep = sess[q.sess].ep /\ sess'[q.sess].dev = sess[q.sess].dev
    BY <2>5 DEF Settles
  <2>7. \A s \in InPlay' : SameStream(s, sess[q.sess].ep, sess[q.sess].dev)' => s = q.sess
    BY <1>1, <1>2, <1>3, <1>6, <2>6 DEF OpeningSound, SameStream
  <2> QED
    BY <2>4, <2>7
<1> QED
  BY <1>4, <1>5, <1>6 DEF OpeningSound

(* Nobody opens: the limit is kept because sessions only end. *)
LEMMA SettlingStep ==
  ASSUME IInv, Limited, Settles,
         \A p \in Request : Bystands(p) \/ OpeningSound(req[p])'
  PROVE  Limited'
<1>1. InPlay' \subseteq InPlay /\ InPlay \subseteq DOMAIN sess
  BY DEF Settles, InPlay
<1>2. ConcurrentLimit'
  <2>1. Cardinality(InPlay) <= MaxConcurrent
    BY DEF Limited, ConcurrentLimit, InPlay
  <2>2. IsFiniteSet(InPlay)
    BY InPlayFinite DEF IInv
  <2>3. Cardinality(InPlay') <= MaxConcurrent
    BY <1>1, <2>1, <2>2, FewerCount
  <2> QED
    BY <2>3 DEF ConcurrentLimit, InPlay
<1>3. (\A s, t \in InPlay : SameStream(s, sess[t].ep, sess[t].dev) => s = t)'
  BY <1>1 DEF Limited, Settles, SameStream
<1>4. ASSUME NEW p \in Request PROVE OpeningSound(req[p])'
  <2>1. CASE req'[p] = req[p]
    <3> PICK q : q = req[p]
      OBVIOUS
    <3>1. RequestSound(q) /\ OpeningSound(q) /\ q = req'[p]
      BY <2>1 DEF IInv, RequestsSound, Limited
    <3>2. OpeningSound(q)'
      BY <3>1, CheckedKept DEF IInv
    <3> QED
      BY <3>1, <3>2 DEF OpeningSound
  <2>2. CASE ~Opening(p)'
    BY <2>2 DEF Opening, OpeningSound
  <2>3. CASE OpeningSound(req[p])'
    BY <2>3
  <2> QED
    BY <2>1, <2>2, <2>3 DEF Bystands
<1> QED
  BY <1>2, <1>3, <1>4 DEF Limited

-----------------------------------------------------------------------------
(* The steps of an opening                                                 *)

LEMMA SessUnchanged ==
  ASSUME UNCHANGED <<sess, expiry>>
  PROVE  /\ Settles /\ InPlay' = InPlay
         /\ \A e, d : Others(e, d)' = Others(e, d)
         /\ \A s, e, d : SameStream(s, e, d)' <=> SameStream(s, e, d)
BY DEF Settles, Playing, Unexpired, InPlay, Others, SameStream

(* The others stand by while r moves. *)
LEMMA OneMoves ==
  ASSUME NEW r \in Request, NEW q, TypeOK, req' = [req EXCEPT ![r] = q]
  PROVE  /\ \A p \in Request : p # r => Bystands(p)
         /\ req'[r] = q
BY DEF TypeOK, Bystands

LEMMA OpenStart ==
  ASSUME IInv, Limited, NEW r \in Request, NEW e \in Episode, NEW d \in Device,
         StartAuthorize(r, e, d)
  PROVE  Limited'
<1>1. PICK q : q = [Idle EXCEPT !.op = "start", !.pc = "authorized", !.ep = e, !.dev = d]
  OBVIOUS
<1>2. q.pc = "authorized" /\ q.ep = e /\ q.dev = d
  BY <1>1 DEF Idle
<1>3. UNCHANGED <<sess, expiry>> /\ req' = [req EXCEPT ![r] = q]
  BY <1>1 DEF StartAuthorize, Database, Clients, Begin
<1>4. (\A p \in Request : p # r => Bystands(p)) /\ req'[r] = q
  BY <1>3, OneMoves DEF IInv
<1>5. OpeningSound(req[r])'
  BY <1>2, <1>3, <1>4, SessUnchanged DEF OpeningSound, StartAuthorize
<1> QED
  BY <1>3, <1>4, <1>5, SessUnchanged, SettlingStep

LEMMA OpenFind ==
  ASSUME IInv, Limited, NEW r \in Request, StartFind(r)
  PROVE  Limited'
<1> DEFINE same == {s \in DOMAIN sess : Playing(s) /\ SameStream(s, req[r].ep, req[r].dev)}
<1>1. UNCHANGED <<sess, expiry>> /\ req[r].pc = "authorized" /\ req[r] \in RequestState
  BY RequestTyped DEF StartFind, Database, Clients, At
<1>2. OpeningSound(req[r])
  BY DEF Limited
<1>3. CASE same = {} /\ Goto(r, "create")
  <2>1. PICK q : q = [req[r] EXCEPT !.pc = "create"]
    OBVIOUS
  <2>2. q.pc = "create" /\ q.ep = req[r].ep /\ q.dev = req[r].dev
    BY <1>1, <2>1 DEF RequestState
  <2>3. (\A p \in Request : p # r => Bystands(p)) /\ req'[r] = q
    BY <1>3, <2>1, OneMoves DEF IInv, Goto, TypeOK
  <2>4. Cardinality(Others(q.ep, q.dev)) < MaxConcurrent
    BY <1>1, <1>2, <2>2 DEF OpeningSound
  <2>5. \A s \in InPlay : ~SameStream(s, q.ep, q.dev)
    BY <1>3, <2>2 DEF InPlay
  <2>6. OpeningSound(req[r])'
    BY <1>1, <2>2, <2>3, <2>4, <2>5, SessUnchanged DEF OpeningSound
  <2> QED
    BY <1>1, <2>3, <2>6, SessUnchanged, SettlingStep
<1>4. ASSUME NEW s \in same, req' = [req EXCEPT ![r].pc = "rotate", ![r].sess = s]
      PROVE  Limited'
  <2>1. PICK q : q = [req[r] EXCEPT !.pc = "rotate", !.sess = s]
    OBVIOUS
  <2>2. q.pc = "rotate" /\ q.sess = s
    BY <1>1, <2>1 DEF RequestState
  <2>3. (\A p \in Request : p # r => Bystands(p)) /\ req'[r] = q
    BY <1>4, <2>1, OneMoves DEF IInv, TypeOK
  <2>4. s \in InPlay
    BY DEF InPlay
  <2>5. Cardinality(InPlay \cup {s}) <= MaxConcurrent
    <3>1. InPlay \cup {s} = InPlay
      BY <2>4
    <3> QED
      BY <3>1 DEF Limited, ConcurrentLimit, InPlay
  <2>6. \A t \in InPlay : SameStream(t, sess[s].ep, sess[s].dev) => t = s
    BY <2>4 DEF Limited
  <2>7. OpeningSound(req[r])'
    BY <1>1, <2>2, <2>3, <2>5, <2>6, SessUnchanged DEF OpeningSound
  <2> QED
    BY <1>1, <2>3, <2>7, SessUnchanged, SettlingStep
<1> QED
  BY <1>3, <1>4 DEF StartFind

LEMMA OpenResume ==
  ASSUME IInv, Limited, NEW r \in Request, NEW s, ResumeCheck(r, s)
  PROVE  Limited'
<1>1. PICK q : q = [Idle EXCEPT !.op = "resume", !.pc = "rotate", !.sess = s]
  OBVIOUS
<1>2. q.pc = "rotate" /\ q.sess = s
  BY <1>1 DEF Idle
<1>3. UNCHANGED <<sess, expiry>> /\ req' = [req EXCEPT ![r] = q]
  BY <1>1 DEF ResumeCheck, Database, Clients, Begin
<1>4. (\A p \in Request : p # r => Bystands(p)) /\ req'[r] = q
  BY <1>3, OneMoves DEF IInv
<1>5. s \in InPlay
  BY DEF ResumeCheck, InPlay
<1>6. Cardinality(InPlay \cup {s}) <= MaxConcurrent
  <2>1. InPlay \cup {s} = InPlay
    BY <1>5
  <2> QED
    BY <2>1 DEF Limited, ConcurrentLimit, InPlay
<1>7. \A t \in InPlay : SameStream(t, sess[s].ep, sess[s].dev) => t = s
  BY <1>5 DEF Limited
<1>8. OpeningSound(req[r])'
  BY <1>2, <1>3, <1>4, <1>6, <1>7, SessUnchanged DEF OpeningSound
<1> QED
  BY <1>3, <1>4, <1>8, SessUnchanged, SettlingStep

LEMMA OpenRead ==
  ASSUME IInv, Limited, NEW r \in Request, RotateRead(r)
  PROVE  Limited'
<1>1. PICK q : q = [req[r] EXCEPT !.pc = "write", !.old = sess[req[r].sess].jti]
  OBVIOUS
<1>2. req[r].pc = "rotate" /\ q.pc = "write" /\ q.sess = req[r].sess
  BY <1>1, RequestTyped DEF RequestState, RotateRead, At
<1>3. UNCHANGED <<sess, expiry>> /\ req' = [req EXCEPT ![r] = q]
  BY <1>1 DEF RotateRead, Database, Clients, IInv, TypeOK
<1>4. (\A p \in Request : p # r => Bystands(p)) /\ req'[r] = q
  BY <1>3, OneMoves DEF IInv
<1>5. OpeningSound(req[r])
  BY DEF Limited
<1>6. OpeningSound(req[r])'
  BY <1>2, <1>3, <1>4, <1>5, SessUnchanged DEF OpeningSound
<1> QED
  BY <1>3, <1>4, <1>6, SessUnchanged, SettlingStep

(* A session comes into play: no other request is opening. *)
LEMMA PlayStep ==
  ASSUME IInv, Limited, OpenApart,
         NEW r \in Request, Opening(r), NEW q, req' = [req EXCEPT ![r] = q],
         q.pc \notin {"authorized", "create", "rotate", "write"},
         NEW s, Cardinality(InPlay \cup {s}) <= MaxConcurrent,
         InPlay' \subseteq InPlay \cup {s}, s \in DOMAIN sess',
         \A t \in InPlay : /\ ~SameStream(t, sess'[s].ep, sess'[s].dev) \/ t = s
                           /\ sess'[t].ep = sess[t].ep /\ sess'[t].dev = sess[t].dev
  PROVE  Limited'
<1>1. ConcurrentLimit'
  <2>1. IsFiniteSet(InPlay \cup {s})
    BY InPlayFinite, FS_AddElement DEF IInv
  <2>2. Cardinality(InPlay') <= MaxConcurrent
    BY <2>1, FewerCount
  <2> QED
    BY <2>2 DEF ConcurrentLimit, InPlay
<1>2. ASSUME NEW t \in InPlay', NEW u \in InPlay',
             sess'[t].ep = sess'[u].ep, sess'[t].dev = sess'[u].dev
      PROVE  t = u
  <2>1. CASE t \in InPlay /\ u \in InPlay
    <3>1. SameStream(t, sess[u].ep, sess[u].dev)
      BY <1>2, <2>1 DEF SameStream
    <3> QED
      BY <2>1, <3>1 DEF Limited
  <2>2. CASE t \in InPlay /\ u = s
    BY <1>2, <2>2 DEF SameStream
  <2>3. CASE t = s /\ u \in InPlay
    BY <1>2, <2>3 DEF SameStream
  <2> QED
    BY <1>2, <2>1, <2>2, <2>3
<1>3. ASSUME NEW p \in Request PROVE OpeningSound(req[p])'
  <2>1. req'[p].pc \notin {"authorized", "create", "rotate", "write"}
    <3>1. CASE p = r
      BY <3>1, OneMoves DEF IInv
    <3>2. CASE p # r
      BY <3>2, OneMoves DEF IInv, OpenApart, Bystands, Opening
    <3> QED
      BY <3>1, <3>2
  <2> QED
    BY <2>1 DEF OpeningSound
<1> QED
  BY <1>1, <1>2, <1>3 DEF Limited, SameStream

LEMMA OpenCreate ==
  ASSUME IInv, Limited, OpenApart, NEW r \in Request, StartCreate(r)
  PROVE  Limited'
<1> DEFINE s == Len(sess) + 1
           e == req[r].ep
           d == req[r].dev
           q == [req[r] EXCEPT !.pc = "cache", !.sess = s, !.cap = Len(caps) + 1]
<1>1. sess \in Seq(SessionRow) /\ Len(sess) \in Nat /\ DOMAIN sess = 1 .. Len(sess)
  BY DEF IInv, TypeOK
<1>2. /\ DOMAIN sess' = 1 .. s /\ \A t \in DOMAIN sess : sess'[t] = sess[t]
      /\ sess'[s].ep = e /\ sess'[s].dev = d /\ expiry' = expiry
  BY <1>1 DEF StartCreate, Clients
<1>3. req[r].pc = "create" /\ Opening(r) /\ OpeningSound(req[r])
  BY DEF StartCreate, At, Opening, Limited
<1>4. Cardinality(InPlay) < MaxConcurrent /\ \A t \in InPlay : ~SameStream(t, e, d)
  <2>1. \A t \in InPlay : ~SameStream(t, e, d)
    BY <1>3 DEF OpeningSound
  <2>2. Others(e, d) = InPlay
    BY <2>1 DEF Others, InPlay
  <2> QED
    BY <1>3, <2>1, <2>2 DEF OpeningSound
<1>5. Cardinality(InPlay \cup {s}) <= MaxConcurrent
  <2>1. Cardinality(InPlay) \in Nat /\ Cardinality(InPlay \cup {s}) <= Cardinality(InPlay) + 1
        /\ Cardinality(InPlay \cup {s}) \in Nat
    <3>1. IsFiniteSet(InPlay) /\ IsFiniteSet(InPlay \cup {s})
      BY InPlayFinite, FS_AddElement DEF IInv
    <3>2. Cardinality(InPlay) \in Nat /\ Cardinality(InPlay \cup {s}) \in Nat
      BY <3>1, FS_CardinalityType
    <3>3. Cardinality(InPlay \cup {s}) = IF s \in InPlay THEN Cardinality(InPlay) ELSE Cardinality(InPlay) + 1
      BY <3>1, FS_AddElement
    <3> QED
      BY <3>2, <3>3
  <2> HIDE DEF s
  <2> QED
    BY <1>4, <2>1, LimitAssumption DEF LimitAssumption
<1>6. InPlay' \subseteq InPlay \cup {s} /\ s \in DOMAIN sess' /\ InPlay \subseteq DOMAIN sess
  BY <1>1, <1>2 DEF InPlay, Playing, Unexpired
<1>7. req' = [req EXCEPT ![r] = q] /\ q.pc = "cache"
  BY RequestTyped DEF StartCreate, IInv, TypeOK, RequestState
<1>8. \A t \in InPlay : /\ ~SameStream(t, sess'[s].ep, sess'[s].dev) \/ t = s
                        /\ sess'[t].ep = sess[t].ep /\ sess'[t].dev = sess[t].dev
  BY <1>2, <1>4, <1>6
<1> HIDE DEF s, q, e, d
<1> QED
  BY <1>3, <1>5, <1>6, <1>7, <1>8, PlayStep

LEMMA OpenWrite ==
  ASSUME IInv, Limited, OpenApart, NEW r \in Request, RotateWrite(r)
  PROVE  Limited'
<1> DEFINE s == req[r].sess
           q == [req[r] EXCEPT !.pc = "drop", !.cap = Len(caps) + 1]
<1>1. sess \in Seq(SessionRow) /\ Len(sess) \in Nat /\ DOMAIN sess = 1 .. Len(sess)
  BY DEF IInv, TypeOK
<1>2. req[r].pc = "write" /\ Opening(r) /\ OpeningSound(req[r]) /\ s \in DOMAIN sess
  BY RequestTyped DEF RotateWrite, At, Opening, Limited, RequestSound
<1>3. /\ DOMAIN sess' = DOMAIN sess /\ \A t \in DOMAIN sess : t # s => sess'[t] = sess[t]
      /\ \A t \in DOMAIN sess : sess'[t].ep = sess[t].ep /\ sess'[t].dev = sess[t].dev
      /\ expiry' = expiry
  BY <1>1, <1>2, RowTyped DEF RotateWrite, Clients, SessionRow, IInv
<1>4. /\ Cardinality(InPlay \cup {s}) <= MaxConcurrent
      /\ \A t \in InPlay : SameStream(t, sess[s].ep, sess[s].dev) => t = s
  BY <1>2 DEF OpeningSound
<1>5. InPlay' \subseteq InPlay \cup {s} /\ s \in DOMAIN sess' /\ InPlay \subseteq DOMAIN sess
  BY <1>2, <1>3 DEF InPlay, Playing, Unexpired
<1>6. req' = [req EXCEPT ![r] = q] /\ q.pc = "drop"
  BY RequestTyped DEF RotateWrite, IInv, TypeOK, RequestState
<1>7. \A t \in InPlay : /\ ~SameStream(t, sess'[s].ep, sess'[s].dev) \/ t = s
                        /\ sess'[t].ep = sess[t].ep /\ sess'[t].dev = sess[t].dev
  BY <1>2, <1>3, <1>4, <1>5
<1> HIDE DEF s, q
<1> QED
  BY <1>2, <1>4, <1>5, <1>6, <1>7, PlayStep

-----------------------------------------------------------------------------
(* The other steps let sessions only end                                   *)

LEMMA QuietSettles ==
  ASSUME IInv, NEW r \in Request,
         \/ \E s : StatusCheck(r, s)
         \/ \E j : Serve(r, j) \/ Heartbeat(r, j) \/ Stop(r, j) \/ Mismatch(r, j)
         \/ CacheAndAnswer(r) \/ RotateDrop(r) \/ ValidateSession(r) \/ Recache(r)
         \/ RevokeRead(r) \/ RevokeDelete(r) \/ Crash(r)
  PROVE  Settles /\ \A p \in Request : Bystands(p)
<1>1. UNCHANGED <<sess, expiry>>
  BY DEF StatusCheck, Serve, Heartbeat, Stop, Mismatch, UseCapability, CacheAndAnswer, RotateDrop,
     ValidateSession, Recache, RevokeRead, RevokeDelete, Crash, Database, Clients
<1>2. PICK q : req' = [req EXCEPT ![r] = q] /\ q.pc \notin {"authorized", "create", "rotate", "write"}
  <2>1. req[r] \in RequestState /\ req \in [Request -> RequestState]
    BY RequestTyped DEF IInv, TypeOK
  <2>2. Idle.pc = "idle" /\ \A pc : [req[r] EXCEPT !.pc = pc].pc = pc
    BY <2>1 DEF Idle, RequestState
  <2>3. CASE \E s : StatusCheck(r, s)
    <3>1. \A s : [Idle EXCEPT !.op = "expire", !.pc = "mark", !.sess = s].pc = "mark"
      BY DEF Idle
    <3> QED
      BY <2>3, <3>1 DEF StatusCheck, Begin
  <2>4. CASE \E j : Serve(r, j) \/ Heartbeat(r, j) \/ Stop(r, j)
    <3>1. PICK j, op : UseCapability(r, j, op)
      BY <2>4 DEF Serve, Heartbeat, Stop
    <3> DEFINE q == [Idle EXCEPT !.op = op, !.pc = "cached", !.sess = caps[j], !.cap = j]
    <3>2. req' = [req EXCEPT ![r] = q]
      BY <3>1 DEF UseCapability, Begin
    <3>3. q.pc = "cached"
      BY DEF Idle
    <3> QED
      BY <3>2, <3>3
  <2>5. CASE \E j : Mismatch(r, j)
    <3>1. \A s : [Idle EXCEPT !.op = "mismatch", !.pc = "read", !.sess = s].pc = "read"
      BY DEF Idle
    <3> QED
      BY <2>5, <3>1 DEF Mismatch, Begin
  <2>6. ASSUME NEW pc \in {"cache", "valid", "close", "delete"}, Goto(r, pc) \/ Finish(r)
        PROVE  \E q : req' = [req EXCEPT ![r] = q] /\ q.pc \notin {"authorized", "create", "rotate", "write"}
    BY <2>1, <2>2, <2>6 DEF Goto, Finish
  <2>7. CASE \/ CacheAndAnswer(r) \/ RotateDrop(r) \/ ValidateSession(r)
             \/ Recache(r) \/ RevokeDelete(r) \/ Crash(r)
    BY <2>6, <2>7 DEF CacheAndAnswer, RotateDrop, ValidateSession, Recache, RevokeDelete, Crash
  <2>8. CASE RevokeRead(r)
    <3> DEFINE q == [req[r] EXCEPT !.old = sess[req[r].sess].jti,
                                   !.pc = IF req[r].op = "stop" THEN "delete" ELSE "revoke"]
    <3>1. req' = [req EXCEPT ![r] = q]
      BY <2>1, <2>8 DEF RevokeRead
    <3>2. q.pc \notin {"authorized", "create", "rotate", "write"}
      BY <2>1 DEF RequestState
    <3> QED
      BY <3>1, <3>2
  <2> QED
    BY <2>3, <2>4, <2>5, <2>7, <2>8
<1>3. \A p \in Request : Bystands(p)
  <2>1. (\A p \in Request : p # r => Bystands(p)) /\ req'[r] = q
    BY <1>2, OneMoves DEF IInv
  <2> QED
    BY <1>2, <2>1 DEF Bystands, Opening
<1> QED
  BY <1>1, <1>3, SessUnchanged

LEMMA EndSettles ==
  ASSUME IInv, NEW r \in Request, StopClose(r) \/ ExpireMark(r) \/ RevokeMark(r)
  PROVE  Settles /\ \A p \in Request : Bystands(p)
<1>1. PICK pc \in {"read", "delete"} : Goto(r, pc)
  BY DEF StopClose, ExpireMark, RevokeMark
<1>2. \A p \in Request : Bystands(p)
  <2>1. req[r] \in RequestState /\ req \in [Request -> RequestState]
    BY RequestTyped DEF IInv, TypeOK
  <2>2. \A p \in Request : p # r => req'[p] = req[p]
    BY <1>1, <2>1 DEF Goto
  <2>3. req'[r].pc = pc
    BY <1>1, <2>1 DEF Goto, RequestState
  <2> QED
    BY <2>2, <2>3 DEF Bystands, Opening
<1>3. req[r].sess \in DOMAIN sess /\ expiry' = expiry
  BY RequestTyped DEF RequestSound, StopClose, ExpireMark, RevokeMark, At, Clients
<1>4. \/ sess' = sess
      \/ \E status \in Ended : sess' = [sess EXCEPT ![req[r].sess].status = status]
  BY DEF StopClose, ExpireMark, RevokeMark, Ended
<1>5. CASE sess' = sess
  BY <1>2, <1>3, <1>5, SessUnchanged
<1>6. ASSUME NEW status \in Ended, sess' = [sess EXCEPT ![req[r].sess].status = status]
      PROVE  Settles
  <2>1. DOMAIN sess' = DOMAIN sess
    BY <1>6
  <2>2. ASSUME NEW s \in DOMAIN sess
        PROVE  /\ sess'[s].ep = sess[s].ep /\ sess'[s].dev = sess[s].dev /\ sess'[s].jti = sess[s].jti
               /\ sess'[s].status = "ACTIVE" => sess[s].status = "ACTIVE"
    <3>1. sess[s] \in SessionRow
      BY RowTyped DEF IInv
    <3> QED
      BY <1>3, <1>6, <3>1 DEF SessionRow, Ended
  <2> QED
    BY <1>3, <2>1, <2>2 DEF Settles, Playing, Unexpired
<1> QED
  BY <1>2, <1>4, <1>5, <1>6

LEMMA ManySettle ==
  ASSUME IInv,
         \/ \E d \in Device : RevokeDevice(d) \/ RegisterDevice(d)
         \/ (\E e \in Episode : Entitle(e)) \/ Cleanup \/ Tick \/ UNCHANGED vars
  PROVE  Settles /\ \A p \in Request : Bystands(p)
<1>1. req' = req
  BY DEF RevokeDevice, RegisterDevice, Entitle, Cleanup, Tick, vars
<1>2. CASE (\E d \in Device : RegisterDevice(d)) \/ (\E e \in Episode : Entitle(e)) \/ UNCHANGED vars
  <2>1. UNCHANGED <<sess, expiry>>
    BY <1>2 DEF RegisterDevice, Entitle, vars, Clients
  <2> QED
    BY <1>1, <2>1, SessUnchanged DEF Bystands
<1>3. CASE (\E d \in Device : RevokeDevice(d)) \/ Cleanup
  <2>1. PICK gone \in SUBSET DOMAIN sess, status \in Ended :
          sess' = [s \in DOMAIN sess |->
                     IF s \in gone THEN [sess[s] EXCEPT !.status = status] ELSE sess[s]]
    <3>1. ASSUME NEW d \in Device, RevokeDevice(d)
          PROVE  sess' = [s \in DOMAIN sess |->
                            IF s \in {t \in DOMAIN sess : sess[t].dev = d /\ sess[t].status = "ACTIVE"}
                            THEN [sess[s] EXCEPT !.status = "REVOKED"] ELSE sess[s]]
      BY <3>1 DEF RevokeDevice
    <3>2. CASE \E d \in Device : RevokeDevice(d)
      BY <3>1, <3>2 DEF Ended
    <3>3. ASSUME Cleanup
          PROVE  sess' = [s \in DOMAIN sess |->
                            IF s \in {t \in DOMAIN sess : sess[t].status = "ACTIVE" /\ ~Unexpired(sess[t].jti)}
                            THEN [sess[s] EXCEPT !.status = "EXPIRED"] ELSE sess[s]]
      BY <3>3 DEF Cleanup
    <3>4. CASE Cleanup
      BY <3>3, <3>4 DEF Ended
    <3> QED
      BY <1>3, <3>2, <3>4
  <2>2. expiry' = expiry
    BY <1>3 DEF RevokeDevice, Cleanup, Clients
  <2>3. ASSUME NEW s \in DOMAIN sess
        PROVE  /\ sess'[s].ep = sess[s].ep /\ sess'[s].dev = sess[s].dev /\ sess'[s].jti = sess[s].jti
               /\ sess'[s].status = "ACTIVE" => sess[s].status = "ACTIVE"
    <3>1. sess[s] \in SessionRow
      BY RowTyped DEF IInv
    <3> QED
      BY <2>1, <3>1 DEF SessionRow, Ended
  <2>4. Settles
    BY <2>1, <2>2, <2>3 DEF Settles, Playing, Unexpired
  <2> QED
    BY <1>1, <2>4 DEF Bystands
<1>4. CASE Tick
  <2>1. sess' = sess /\ expiry' = expiry + 1 /\ expiry \in Nat
    BY <1>4 DEF Tick, Database, IInv, TypeOK
  <2>2. ASSUME NEW s \in DOMAIN sess PROVE Playing(s)' => Playing(s)
    <3>1. sess[s].jti \in Nat
      BY RowTyped DEF IInv
    <3> QED
      BY <2>1, <3>1 DEF Playing, Unexpired
  <2> QED
    BY <1>1, <2>1, <2>2 DEF Settles, Bystands
<1> QED
  BY <1>2, <1>3, <1>4

LEMMA LimitedStep == ASSUME IInv, Limited, OpenApart, [Next]_vars PROVE Limited'
<1>1. ASSUME NEW r \in Request, NEW e \in Episode, NEW d \in Device, StartAuthorize(r, e, d)
      PROVE  Limited'
  BY <1>1, OpenStart
<1>2. ASSUME NEW r \in Request, StartFind(r) \/ StartCreate(r) \/ RotateRead(r) \/ RotateWrite(r)
      PROVE  Limited'
  BY <1>2, OpenFind, OpenCreate, OpenRead, OpenWrite
<1>3. ASSUME NEW r \in Request, NEW s, ResumeCheck(r, s) PROVE Limited'
  BY <1>3, OpenResume
<1>4. ASSUME NEW r \in Request,
             \/ \E s : StatusCheck(r, s)
             \/ \E j : Serve(r, j) \/ Heartbeat(r, j) \/ Stop(r, j) \/ Mismatch(r, j)
             \/ CacheAndAnswer(r) \/ RotateDrop(r) \/ ValidateSession(r) \/ Recache(r)
             \/ RevokeRead(r) \/ RevokeDelete(r) \/ Crash(r)
      PROVE  Limited'
  BY <1>4, QuietSettles, SettlingStep
<1>5. ASSUME NEW r \in Request, StopClose(r) \/ ExpireMark(r) \/ RevokeMark(r) PROVE Limited'
  BY <1>5, EndSettles, SettlingStep
<1>6. CASE \/ \E d \in Device : RevokeDevice(d) \/ RegisterDevice(d)
           \/ (\E e \in Episode : Entitle(e)) \/ Cleanup \/ Tick \/ UNCHANGED vars
  BY <1>6, ManySettle, SettlingStep
<1> QED
  BY <1>1, <1>2, <1>3, <1>4, <1>5, <1>6 DEF Next

LEMMA LimitedInitially == Init => Limited
<1> SUFFICES ASSUME Init PROVE Limited
  OBVIOUS
<1>1. InPlay = {} /\ DOMAIN sess = {}
  BY DEF Init, InPlay
<1>2. ConcurrentLimit
  BY <1>1, FS_EmptySet, LimitAssumption DEF ConcurrentLimit, InPlay, LimitAssumption
<1>3. \A r \in Request : OpeningSound(req[r])
  BY DEF Init, Idle, OpeningSound
<1> QED
  BY <1>1, <1>2, <1>3 DEF Limited

(* The limit of playback-policy.service.ts is kept as long as no two       *)
(* starts or resumes are between their checks and their write at once,     *)
(* whatever gateway requests, stops, expiries, revocations and crashes     *)
(* happen at the same time, and although resume does not look at it.       *)
THEOREM LimitWhenApart == Spec /\ []OpenApart => []ConcurrentLimit
<1>1. IInv /\ Limited /\ OpenApart /\ [Next]_vars => Limited'
  BY LimitedStep
<1>2. Limited => ConcurrentLimit
  BY DEF Limited
<1> QED
  BY LimitedInitially, Invariant, <1>1, <1>2, PTL DEF Spec
=============================================================================
