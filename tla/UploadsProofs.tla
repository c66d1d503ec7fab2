----------------------------- MODULE UploadsProofs -----------------------------
(***************************************************************************)
(* Proofs about Uploads, for any chunks, contents, sizes and requests.     *)
(*                                                                         *)
(* Bytes is a fold over the chunks.  It is proved equal to the cardinality *)
(* of a set, by a least counterexample among the sets of chunks, so that   *)
(* facts about finite sets say how it changes.                             *)
(***************************************************************************)
EXTENDS Uploads, FiniteSetTheorems, TLAPS

USE NoneAssumption, ChunkAssumption, SizeAssumption
    DEF NoneAssumption, ChunkAssumption, SizeAssumption

-----------------------------------------------------------------------------
(* Bytes                                                                   *)

(* Every byte of the chunks S of f. *)
ByteSet(f, S) == {p \in S \X Nat : 1 <= p[2] /\ p[2] <= SizeOf(f[p[1]])}

LEMMA SizeTyped == ASSUME NEW b \in Body \cup {None} PROVE SizeOf(b) \in Nat
BY DEF SizeOf

LEMMA BytesFinite ==
  ASSUME NEW f \in Contents, NEW S \in SUBSET Chunk
  PROVE  IsFiniteSet(ByteSet(f, S)) /\ Cardinality(ByteSet(f, S)) \in Nat
<1> DEFINE of == [c \in S |-> {c} \X (1 .. SizeOf(f[c]))]
           T == {of[c] : c \in S}
<1>1. IsFiniteSet(S)
  BY FS_Subset
<1>2. \A c \in S : SizeOf(f[c]) \in Nat
  BY SizeTyped DEF Contents
<1>3. ASSUME NEW c \in S PROVE IsFiniteSet(of[c])
  <2> DEFINE n == SizeOf(f[c])
  <2>1. n \in Int
    BY <1>2
  <2> HIDE DEF n
  <2>2. IsFiniteSet(1 .. n)
    BY <2>1, FS_Interval
  <2>3. IsFiniteSet({c})
    BY FS_Singleton
  <2>4. IsFiniteSet({c} \X (1 .. n))
    BY <2>2, <2>3, FS_Product
  <2> QED
    BY <2>4 DEF n
<1>4. of \in Surjection(S, T)
  BY DEF Surjection
<1>5. IsFiniteSet(T)
  BY <1>1, <1>4, FS_Surjection
<1>6. IsFiniteSet(UNION T)
  BY <1>3, <1>5, FS_UNION
<1>7. ByteSet(f, S) \subseteq UNION T
  BY <1>2 DEF ByteSet
<1> QED
  BY <1>6, <1>7, FS_Subset, FS_CardinalityType

(* One more chunk adds its bytes. *)
LEMMA BytesAdd ==
  ASSUME NEW f \in Contents, NEW S \in SUBSET Chunk, NEW x \in Chunk, x \notin S
  PROVE  Cardinality(ByteSet(f, S \cup {x})) = Cardinality(ByteSet(f, S)) + SizeOf(f[x])
<1> DEFINE n == SizeOf(f[x])
           X == {x} \X (1 .. n)
<1>1. n \in Nat
  BY SizeTyped DEF Contents
<1>2. IsFiniteSet({x}) /\ Cardinality({x}) = 1
  BY FS_Singleton
<1>3. IsFiniteSet(1 .. n) /\ Cardinality(1 .. n) = n
  <2> HIDE DEF n
  <2> QED
    BY <1>1, FS_Interval
<1>4. IsFiniteSet(X) /\ Cardinality(X) = n
  <2> HIDE DEF n
  <2> DEFINE A == {x}
             B == 1 .. n
  <2>1. IsFiniteSet(A) /\ Cardinality(A) = 1 /\ IsFiniteSet(B) /\ Cardinality(B) = n
    BY <1>2, <1>3
  <2>2. IsFiniteSet(A \X B) /\ Cardinality(A \X B) = 1 * n
    <3> HIDE DEF A, B
    <3>1. IsFiniteSet(A \X B) /\ Cardinality(A \X B) = Cardinality(A) * Cardinality(B)
      BY <2>1, FS_Product
    <3> QED
      BY <2>1, <3>1
  <2> QED
    BY <1>1, <2>2
<1>5. ByteSet(f, S \cup {x}) = ByteSet(f, S) \cup X
  BY <1>1 DEF ByteSet
<1>6. ByteSet(f, S) \cap X = {}
  BY DEF ByteSet
<1>7. IsFiniteSet(ByteSet(f, S)) /\ Cardinality(ByteSet(f, S)) \in Nat
  BY BytesFinite
<1> HIDE DEF n, X
<1>8. Cardinality(ByteSet(f, S) \cup X) = Cardinality(ByteSet(f, S)) + Cardinality(X) - Cardinality({})
  BY <1>4, <1>6, <1>7, FS_Union
<1>9. Cardinality({}) = 0
  BY FS_EmptySet
<1>10. Cardinality(ByteSet(f, S) \cup X) = Cardinality(ByteSet(f, S)) + n
  BY <1>1, <1>4, <1>7, <1>8, <1>9
<1> QED
  BY <1>5, <1>10 DEF n

Pick(s) == CHOOSE x \in s : TRUE

(* The equation of the fold. *)
Sums(f, g) ==
  g = [s \in SUBSET Chunk |-> IF s = {} THEN 0 ELSE SizeOf(f[Pick(s)]) + g[s \ {Pick(s)}]]

LEMMA BytesFold == ASSUME NEW f PROVE Bytes(f) = (CHOOSE g : Sums(f, g))[Chunk]
BY DEF Bytes, MapThenSumSet, MapThenFoldSet, Pick, Sums

LEMMA BytesOfSet ==
  ASSUME NEW f \in Contents, NEW s \in SUBSET Chunk, s # {}
  PROVE  /\ Pick(s) \in s
         /\ Cardinality(ByteSet(f, s)) = SizeOf(f[Pick(s)]) + Cardinality(ByteSet(f, s \ {Pick(s)}))
<1> DEFINE x == Pick(s)
           B == s \ {x}
<1>1. x \in s
  BY DEF Pick
<1>2. B \cup {x} = s /\ x \in Chunk /\ x \notin B /\ B \in SUBSET Chunk
  BY <1>1
<1>3. SizeOf(f[x]) \in Nat
  BY <1>2, SizeTyped DEF Contents
<1> HIDE DEF x, B
<1>4. Cardinality(ByteSet(f, B \cup {x})) = Cardinality(ByteSet(f, B)) + SizeOf(f[x])
  BY <1>2, BytesAdd
<1>5. Cardinality(ByteSet(f, B)) \in Nat
  BY <1>2, BytesFinite
<1>6. Cardinality(ByteSet(f, s)) = SizeOf(f[x]) + Cardinality(ByteSet(f, B))
  BY <1>2, <1>3, <1>4, <1>5
<1> QED
  BY <1>1, <1>6 DEF x, B

LEMMA SumsExist ==
  ASSUME NEW f \in Contents
  PROVE  \E g : Sums(f, g)
<1> DEFINE g == [s \in SUBSET Chunk |-> Cardinality(ByteSet(f, s))]
<1>1. Cardinality(ByteSet(f, {})) = 0
  <2>1. ByteSet(f, {}) = {}
    BY DEF ByteSet
  <2> QED
    BY <2>1, FS_EmptySet
<1>2. ASSUME NEW s \in SUBSET Chunk, s # {}
      PROVE  g[s] = SizeOf(f[Pick(s)]) + g[s \ {Pick(s)}]
  BY <1>2, BytesOfSet
<1>3. \A s \in SUBSET Chunk : g[s] = IF s = {} THEN 0 ELSE SizeOf(f[Pick(s)]) + g[s \ {Pick(s)}]
  BY <1>1, <1>2
<1>4. g = [s \in SUBSET Chunk |-> g[s]]
  OBVIOUS
<1> HIDE DEF g
<1>5. Sums(f, g)
  BY <1>3, <1>4 DEF Sums
<1> QED
  BY <1>5

(* The fold counts the bytes.  A least set of chunks where it did not      *)
(* would have one chunk less and count right.                              *)
LEMMA BytesCount ==
  ASSUME NEW f \in Contents
  PROVE  Bytes(f) = Cardinality(ByteSet(f, Chunk))
<1> DEFINE h == CHOOSE g : Sums(f, g)
<1>1. Sums(f, h)
  BY SumsExist
<1> HIDE DEF h
<1>2. \A s \in SUBSET Chunk : h[s] = IF s = {} THEN 0 ELSE SizeOf(f[Pick(s)]) + h[s \ {Pick(s)}]
  BY <1>1 DEF Sums
<1> DEFINE T == {s \in SUBSET Chunk : h[s] # Cardinality(ByteSet(f, s))}
           R == StrictSubsetOrdering(Chunk)
<1>3. IsWellFoundedOn(R, SUBSET Chunk)
  BY FS_FiniteSubsetsOfFinite, FS_StrictSubsetOrderingWellFounded
<1>4. T = {}
  <2> SUFFICES ASSUME T # {} PROVE FALSE
    OBVIOUS
  <2>1. PICK s \in T : \A t \in T : ~(<<t, s>> \in R)
    <3>1. T \subseteq SUBSET Chunk
      OBVIOUS
    <3> HIDE DEF T, R
    <3> QED
      BY <1>3, <3>1, WFMin
  <2>2. s \in SUBSET Chunk /\ h[s] # Cardinality(ByteSet(f, s))
    OBVIOUS
  <2>3. s # {}
    <3>1. ByteSet(f, {}) = {}
      BY DEF ByteSet
    <3> QED
      BY <1>2, <2>2, <3>1, FS_EmptySet
  <2>4. /\ Pick(s) \in s
        /\ Cardinality(ByteSet(f, s)) = SizeOf(f[Pick(s)]) + Cardinality(ByteSet(f, s \ {Pick(s)}))
    BY <2>2, <2>3, BytesOfSet
  <2>5. s \ {Pick(s)} \in T
    BY <1>2, <2>2, <2>3, <2>4
  <2>6. <<s \ {Pick(s)}, s>> \in R
    BY <2>2, <2>4 DEF StrictSubsetOrdering
  <2> QED
    BY <2>1, <2>5, <2>6
<1> QED
  BY <1>4, BytesFold DEF h

LEMMA EmptyBytes == Empty \in Contents /\ Bytes(Empty) = 0
<1>1. Empty \in Contents
  BY DEF Empty, Contents
<1>2. ByteSet(Empty, Chunk) = {}
  BY DEF ByteSet, Empty, SizeOf
<1> QED
  BY <1>1, <1>2, BytesCount, FS_EmptySet

LEMMA BytesTyped == ASSUME NEW f \in Contents PROVE Bytes(f) \in Nat
BY BytesCount, BytesFinite

(* One chunk sent again: its old size goes, its new one comes. *)
LEMMA BytesReplace ==
  ASSUME NEW f \in Contents, NEW c \in Chunk, NEW b \in Body
  PROVE  LET g == [f EXCEPT ![c] = b]
         IN  /\ g \in Contents /\ SizeOf(f[c]) <= Bytes(f)
             /\ Bytes(g) = Bytes(f) - SizeOf(f[c]) + Size[b]
<1> DEFINE g == [f EXCEPT ![c] = b]
           S == Chunk \ {c}
<1>1. g \in Contents /\ g[c] = b /\ \A d \in S : g[d] = f[d]
  BY DEF Contents
<1>2. S \in SUBSET Chunk /\ c \notin S /\ S \cup {c} = Chunk
  OBVIOUS
<1>3. SizeOf(f[c]) \in Nat /\ SizeOf(b) = Size[b] /\ Size[b] \in Nat
  BY SizeTyped DEF Contents, SizeOf
<1> HIDE DEF g
<1>4. ByteSet(g, S) = ByteSet(f, S)
  BY <1>1 DEF ByteSet
<1> HIDE DEF S
<1>5. Cardinality(ByteSet(f, S)) \in Nat
  BY <1>2, BytesFinite
<1>6. Bytes(f) = Cardinality(ByteSet(f, S)) + SizeOf(f[c])
  BY <1>2, BytesAdd, BytesCount
<1>7. Bytes(g) = Cardinality(ByteSet(f, S)) + SizeOf(b)
  BY <1>1, <1>2, <1>4, BytesAdd, BytesCount
<1>8. SizeOf(f[c]) <= Bytes(f) /\ Bytes(g) = Bytes(f) - SizeOf(f[c]) + Size[b]
  BY <1>3, <1>5, <1>6, <1>7
<1> QED
  BY <1>1, <1>8 DEF g

-----------------------------------------------------------------------------
(* The inductive invariant                                                 *)

(* What a request works on. *)
Sending ==
  \A r \in Request :
    /\ req[r].op = "none" => req[r] = Idle
    /\ req[r].op = "chunk" => req[r].chunk \in Chunk /\ req[r].body \in Body

(* Every copy of the manifest adds up; complete has checked its own. *)
CopiesAddUp == remote => \A r \in Request : req[r].man.bytes = Bytes(req[r].man.parts)

CompleteChecked ==
  \A r \in Request : req[r].op = "complete" /\ req[r].pc = "read" => Accepted(req[r].man)

(* Before init has saved the manifest nothing else is served. *)
Blank == ~manifest.saved /\ acked = Empty

InitFirst ==
  /\ store = "none" => Blank /\ \A r \in Request : req[r] = Idle
  /\ \A r \in Request : req[r].op = "init" => Blank /\ \A q \in Request : q # r => req[q] = Idle

(* While a request is served alone, it is the only one; what was served    *)
(* beside another acknowledges nothing.                                    *)
Alone ==
  IF overlap THEN acked = Empty
  ELSE \A q, r \in Request : req[q] # Idle /\ req[r] # Idle => q = r

(* What was acknowledged is in the manifest, in every copy of it that may  *)
(* be written back, and stored.                                            *)
Lists(m) == \A c \in Chunk : acked[c] # None => m.parts[c] = acked[c]

AckedListed ==
  /\ manifest.saved => Lists(manifest)
  /\ \A r \in Request : req[r].op \in {"chunk", "complete", "cancel"} => Lists(req[r].man)

AckedStored ==
  store = "open" =>
    /\ \A c \in Chunk : acked[c] # None => part[c] = acked[c]
    /\ ~overlap => \A r \in Request : req[r].op = "chunk" /\ req[r].pc = "stored" =>
                     part[req[r].chunk] = req[r].body

IInv ==
  /\ TypeOK /\ Sending /\ BytesAddUp /\ CopiesAddUp /\ CompleteChecked /\ ObjectSound
  /\ InitFirst /\ Alone /\ AckedListed /\ AckedStored

-----------------------------------------------------------------------------
(* The shapes of a step                                                    *)

LEMMA IdleTyped ==
  /\ Idle \in RequestState /\ Absent \in Manifest
  /\ Idle.op = "none" /\ Idle.pc = "idle" /\ Idle.man = Absent
  /\ Absent.parts = Empty /\ Absent.bytes = 0 /\ Absent.saved = FALSE
BY EmptyBytes DEF Idle, RequestState, Absent, Manifest

Others(r) == req' \in [Request -> RequestState] /\ \A q \in Request : q # r => req'[q] = req[q]

Ended(r) == Others(r) /\ req'[r] = Idle

(* r goes on, with what it has. *)
GoesOn(r, pc) ==
  /\ Others(r) /\ req'[r].pc = pc /\ req'[r].op = req[r].op /\ req[r] # Idle /\ req'[r] # Idle
  /\ req'[r].chunk = req[r].chunk /\ req'[r].body = req[r].body /\ req'[r].man = req[r].man

Ends(r) == Ended(r) /\ UNCHANGED <<remote, manifest, store, part, object, overlap, acked>>

Begins(r) ==
  /\ Others(r) /\ req[r] = Idle /\ manifest.saved
  /\ req'[r].op \in {"chunk", "complete", "cancel"} /\ req'[r].pc = "read" /\ req'[r].man = manifest
  /\ req'[r].op = "chunk" => req'[r].chunk \in Chunk /\ req'[r].body \in Body
  /\ req'[r].op = "complete" => Accepted(manifest)
  /\ overlap' = (\E q \in Request : req[q] # Idle)
  /\ acked' = IF overlap' THEN Empty ELSE acked
  /\ UNCHANGED <<remote, manifest, store, part, object>>

Opens(r) ==
  /\ Others(r) /\ req[r] = Idle /\ req'[r].op = "init" /\ req'[r].pc = "stored" /\ req'[r].man = Absent
  /\ store = "none" /\ store' = "open"
  /\ UNCHANGED <<remote, manifest, part, object, overlap, acked>>

Opened(r) ==
  /\ Ended(r) /\ req[r].op = "init" /\ manifest' = [Absent EXCEPT !.saved = TRUE]
  /\ UNCHANGED <<remote, store, part, object, overlap, acked>>

Stores(r) ==
  /\ GoesOn(r, "stored") /\ req[r].op = "chunk" /\ store = "open"
  /\ part' = [part EXCEPT ![req[r].chunk] = req[r].body]
  /\ acked' = [acked EXCEPT ![req[r].chunk] = None]
  /\ UNCHANGED <<remote, manifest, store, object, overlap>>

Completes(r) ==
  /\ GoesOn(r, "forget") /\ remote /\ req[r].op = "complete" /\ req[r].pc = "read"
  /\ req[r].man.parts = part /\ object' = part /\ store' = "completed"
  /\ UNCHANGED <<remote, manifest, part, overlap, acked>>

Fills(r) ==
  /\ GoesOn(r, req[r].pc)
  /\ UNCHANGED <<remote, manifest, store, part, object, overlap, acked>>

Forwards(r) ==
  /\ GoesOn(r, "stored") /\ req[r].op = "complete"
  /\ Full(req[r].buf) /\ Bytes(req[r].buf) = Total /\ object' = req[r].buf
  /\ UNCHANGED <<remote, manifest, store, part, overlap, acked>>

Clears(r) ==
  /\ GoesOn(r, "forget") /\ req[r].op \in {"complete", "cancel"}
  /\ store' \in {"completed", "gone"} /\ part' = Empty
  /\ UNCHANGED <<remote, manifest, object, overlap, acked>>

Forgets(r) ==
  /\ Ended(r) /\ manifest' = Absent
  /\ UNCHANGED <<remote, store, part, object, overlap, acked>>

Step(r) ==
  \/ Ends(r) \/ Begins(r) \/ Opens(r) \/ Opened(r) \/ Stores(r) \/ (ChunkSave(r) /\ Ended(r))
  \/ Completes(r) \/ Fills(r) \/ Forwards(r) \/ Clears(r) \/ Forgets(r)

LEMMA FinishEnds ==
  ASSUME TypeOK, NEW r \in Request, Finish(r)
  PROVE  Ended(r)
BY IdleTyped DEF Finish, Ended, Others, TypeOK

LEMMA PcGoesOn ==
  ASSUME TypeOK, NEW r \in Request, NEW pc \in {"idle", "read", "stored", "forget"},
         req[r] # Idle, req[r].op # "none", req' = [req EXCEPT ![r].pc = pc]
  PROVE  GoesOn(r, pc)
<1> DEFINE y == [req[r] EXCEPT !.pc = pc]
<1>1. req \in [Request -> RequestState] /\ req' = [req EXCEPT ![r] = y]
  BY DEF TypeOK
<1>2. /\ y \in RequestState /\ y.pc = pc /\ y.op = req[r].op /\ y.chunk = req[r].chunk
      /\ y.body = req[r].body /\ y.man = req[r].man
  BY <1>1 DEF RequestState
<1> HIDE DEF y
<1>3. req'[r] = y /\ Others(r)
  BY <1>1, <1>2 DEF Others
<1> QED
  BY <1>2, <1>3, IdleTyped DEF GoesOn

LEMMA ReadBegins ==
  ASSUME TypeOK, NEW r \in Request, NEW op \in {"chunk", "complete", "cancel"},
         NEW c \in Chunk \cup {None}, NEW b \in Body \cup {None}, ReadManifest(r, op, c, b),
         op = "chunk" => c \in Chunk /\ b \in Body, op = "complete" => Accepted(manifest)
  PROVE  Begins(r)
<1> DEFINE y == [Idle EXCEPT !.op = op, !.pc = "read", !.chunk = c, !.body = b, !.man = manifest]
<1>1. req \in [Request -> RequestState] /\ manifest \in Manifest /\ req' = [req EXCEPT ![r] = y]
  BY DEF TypeOK, ReadManifest
<1>2. y \in RequestState /\ y.op = op /\ y.pc = "read" /\ y.chunk = c /\ y.body = b /\ y.man = manifest
  BY <1>1, IdleTyped DEF RequestState
<1> HIDE DEF y
<1>3. req'[r] = y /\ Others(r)
  BY <1>1, <1>2 DEF Others
<1>4. /\ req[r] = Idle /\ manifest.saved /\ overlap' = (\E q \in Request : req[q] # Idle)
      /\ acked' = IF overlap' THEN Empty ELSE acked
      /\ UNCHANGED <<remote, manifest, store, part, object>>
  BY DEF ReadManifest
<1> QED
  BY <1>2, <1>3, <1>4 DEF Begins

LEMMA Shapes ==
  ASSUME TypeOK, Sending, [Next]_vars
  PROVE  (\E r \in Request : Step(r)) \/ Expire \/ UNCHANGED vars
<1>a. req \in [Request -> RequestState] /\ part \in Contents
  BY DEF TypeOK
<1>b. \A r \in Request : req[r].op # "none" => req[r] # Idle
  BY IdleTyped
<1>1. ASSUME NEW r \in Request, InitOpen(r) PROVE Opens(r)
  <2> DEFINE y == [Idle EXCEPT !.op = "init", !.pc = "stored"]
  <2>1. y \in RequestState /\ y.op = "init" /\ y.pc = "stored" /\ y.man = Absent
    BY IdleTyped DEF RequestState
  <2> HIDE DEF y
  <2>2. req' = [req EXCEPT ![r] = y]
    BY <1>1 DEF InitOpen, y
  <2> QED
    BY <1>1, <1>a, <2>1, <2>2 DEF InitOpen, Opens, Others
<1>2. ASSUME NEW r \in Request, InitSave(r) \/ Forget(r) \/ ChunkSave(r) \/ Crash(r) PROVE Step(r)
  BY <1>2, FinishEnds DEF InitSave, Forget, ChunkSave, Crash, Opened, Forgets, Ends, Step
<1>3. ASSUME NEW r \in Request, NEW c \in Chunk, NEW b \in Body, ChunkRead(r, c, b) PROVE Begins(r)
  BY <1>3, ReadBegins DEF ChunkRead
<1>4. ASSUME NEW r \in Request, CompleteRead(r) \/ CancelRead(r) PROVE Begins(r)
  BY <1>4, ReadBegins DEF CompleteRead, CancelRead
<1>5. ASSUME NEW r \in Request, ChunkStore(r) PROVE Step(r)
  <2>1. CASE store = "open"
    <3>1. GoesOn(r, "stored")
      BY <1>5, <1>b, <2>1, PcGoesOn DEF ChunkStore
    <3>2. /\ req[r].op = "chunk"
          /\ part' = [part EXCEPT ![req[r].chunk] = req[r].body]
          /\ acked' = [acked EXCEPT ![req[r].chunk] = None]
          /\ UNCHANGED <<remote, manifest, store, object, overlap>>
      BY <1>5, <2>1 DEF ChunkStore
    <3>3. Stores(r)
      BY <2>1, <3>1, <3>2 DEF Stores
    <3> QED
      BY <3>3 DEF Step
  <2>2. CASE store # "open"
    BY <1>5, <2>2, FinishEnds DEF ChunkStore, Ends, Step
  <2> QED
    BY <2>1, <2>2
<1>6. ASSUME NEW r \in Request, CompleteRemote(r) PROVE Step(r)
  <2>1. CASE store = "open" /\ Matches(req[r].man.parts)
    <3>1. GoesOn(r, "forget")
      BY <1>6, <1>b, <2>1, PcGoesOn DEF CompleteRemote
    <3> QED
      BY <1>6, <2>1, <3>1 DEF CompleteRemote, Matches, Completes, Step
  <2>2. CASE ~(store = "open" /\ Matches(req[r].man.parts))
    BY <1>6, <2>2, FinishEnds DEF CompleteRemote, Ends, Step
  <2> QED
    BY <2>1, <2>2
<1>7. ASSUME NEW r \in Request, NEW c \in Chunk, CompleteReadChunk(r, c) PROVE Step(r)
  <2>1. CASE part[c] # None
    <3> DEFINE f == [req[r].buf EXCEPT ![c] = part[c]]
               y == [req[r] EXCEPT !.buf = f]
    <3>1. f \in Contents /\ req' = [req EXCEPT ![r] = y]
      BY <1>7, <1>a, <2>1 DEF CompleteReadChunk, RequestState, Contents
    <3> HIDE DEF f
    <3>2. /\ y \in RequestState /\ y.pc = req[r].pc /\ y.op = req[r].op /\ y.chunk = req[r].chunk
          /\ y.body = req[r].body /\ y.man = req[r].man
      BY <1>a, <3>1 DEF RequestState
    <3> HIDE DEF y
    <3>3. req'[r] = y /\ Others(r) /\ req[r].op = "complete"
      BY <1>7, <1>a, <3>1, <3>2 DEF Others, CompleteReadChunk
    <3>4. GoesOn(r, req[r].pc)
      BY <1>b, <3>2, <3>3, IdleTyped DEF GoesOn
    <3> QED
      BY <1>7, <3>4 DEF CompleteReadChunk, Fills, Step
  <2>2. CASE part[c] = None
    BY <1>7, <2>2, FinishEnds DEF CompleteReadChunk, Ends, Step
  <2> QED
    BY <2>1, <2>2
<1>8. ASSUME NEW r \in Request, CompleteForward(r) PROVE Step(r)
  <2>1. CASE Bytes(req[r].buf) = Total
    <3>1. GoesOn(r, "stored")
      BY <1>8, <1>b, <2>1, PcGoesOn DEF CompleteForward
    <3> QED
      BY <1>8, <2>1, <3>1 DEF CompleteForward, Forward, Forwards, Step
  <2>2. CASE Bytes(req[r].buf) # Total
    BY <1>8, <2>2, FinishEnds DEF CompleteForward, Ends, Step
  <2> QED
    BY <2>1, <2>2
<1>9. ASSUME NEW r \in Request, CompleteCleanup(r) \/ CancelAbort(r) PROVE Clears(r)
  <2>1. GoesOn(r, "forget")
    BY <1>9, <1>b, PcGoesOn DEF CompleteCleanup, CancelAbort
  <2> QED
    BY <1>9, <2>1 DEF CompleteCleanup, CancelAbort, Clears
<1> SUFFICES ASSUME ~Expire, ~UNCHANGED vars PROVE \E r \in Request : Step(r)
  OBVIOUS
<1>10. PICK r \in Request :
         \/ InitOpen(r) \/ InitSave(r) \/ (\E c \in Chunk, b \in Body : ChunkRead(r, c, b))
         \/ ChunkStore(r) \/ ChunkSave(r) \/ CompleteRead(r) \/ CompleteRemote(r)
         \/ (\E c \in Chunk : CompleteReadChunk(r, c)) \/ CompleteForward(r)
         \/ CompleteCleanup(r) \/ CancelRead(r) \/ CancelAbort(r) \/ Forget(r) \/ Crash(r)
  BY DEF Next
<1>11. CASE InitOpen(r)
  BY <1>1, <1>11 DEF Step
<1>12. CASE (\E c \in Chunk, b \in Body : ChunkRead(r, c, b)) \/ CompleteRead(r) \/ CancelRead(r)
  BY <1>3, <1>4, <1>12 DEF Step
<1>13. CASE CompleteCleanup(r) \/ CancelAbort(r)
  BY <1>9, <1>13 DEF Step
<1> QED
  BY <1>2, <1>5, <1>6, <1>7, <1>8, <1>10, <1>11, <1>12, <1>13

-----------------------------------------------------------------------------
(* Each part of the invariant is kept                                      *)

(* The manifest a chunk writes back. *)
LEMMA RecordTyped ==
  ASSUME remote \in BOOLEAN, NEW m \in Manifest, NEW c \in Chunk, NEW b \in Body,
         remote => m.bytes = Bytes(m.parts)
  PROVE  /\ Record(m, c, b) \in Manifest /\ Record(m, c, b).saved
         /\ Record(m, c, b).parts = [m.parts EXCEPT ![c] = b]
         /\ remote => Record(m, c, b).bytes = Bytes([m.parts EXCEPT ![c] = b])
<1> DEFINE f == m.parts
           g == [f EXCEPT ![c] = b]
<1>1. f \in Contents /\ SizeOf(f[c]) \in Nat /\ Size[b] \in Nat \ {0}
  BY SizeTyped DEF Manifest, Contents
<1>2. /\ g \in Contents /\ SizeOf(f[c]) <= Bytes(f)
      /\ Bytes(g) = Bytes(f) - SizeOf(f[c]) + Size[b]
  BY <1>1, BytesReplace
<1>3. Bytes(f) \in Nat /\ Bytes(g) \in Nat
  BY <1>1, <1>2, BytesTyped
<1> DEFINE n == IF remote THEN m.bytes - SizeOf(m.parts[c]) + Size[b] ELSE 0
<1>4. n \in Nat /\ (remote => n = Bytes(g))
  BY <1>1, <1>2, <1>3
<1>5. Record(m, c, b) = [parts |-> g, bytes |-> n, saved |-> TRUE]
  BY DEF Record
<1> HIDE DEF n, g
<1>6. /\ Record(m, c, b) \in Manifest /\ Record(m, c, b).saved
      /\ Record(m, c, b).parts = g /\ Record(m, c, b).bytes = n
  BY <1>2, <1>4, <1>5 DEF Manifest
<1> QED
  BY <1>4, <1>6 DEF g

(* What ChunkSave writes. *)
LEMMA Saves ==
  ASSUME TypeOK, Sending, CopiesAddUp, NEW r \in Request, ChunkSave(r), Ended(r)
  PROVE  /\ req[r].op = "chunk" /\ req[r].pc = "stored" /\ req[r] # Idle
         /\ req[r].chunk \in Chunk /\ req[r].body \in Body
         /\ manifest' \in Manifest /\ manifest'.saved
         /\ manifest'.parts = [req[r].man.parts EXCEPT ![req[r].chunk] = req[r].body]
         /\ remote => manifest'.bytes = Bytes(manifest'.parts)
         /\ acked' = IF overlap THEN acked ELSE [acked EXCEPT ![req[r].chunk] = req[r].body]
         /\ UNCHANGED <<remote, store, part, object, overlap>>
<1>1. /\ req[r].op = "chunk" /\ req[r].pc = "stored"
      /\ manifest' = Record(req[r].man, req[r].chunk, req[r].body)
      /\ acked' = IF overlap THEN acked ELSE [acked EXCEPT ![req[r].chunk] = req[r].body]
      /\ UNCHANGED <<remote, store, part, object, overlap>>
  BY DEF ChunkSave
<1>2. req[r].chunk \in Chunk /\ req[r].body \in Body /\ req[r].man \in Manifest /\ req[r] # Idle
  BY <1>1, IdleTyped DEF TypeOK, Sending, RequestState
<1>3. remote => req[r].man.bytes = Bytes(req[r].man.parts)
  BY DEF CopiesAddUp
<1>4. remote \in BOOLEAN
  BY DEF TypeOK
<1>5. /\ manifest' \in Manifest /\ manifest'.saved
      /\ manifest'.parts = [req[r].man.parts EXCEPT ![req[r].chunk] = req[r].body]
      /\ remote => manifest'.bytes = Bytes([req[r].man.parts EXCEPT ![req[r].chunk] = req[r].body])
  BY <1>1, <1>2, <1>3, <1>4, RecordTyped
<1> QED
  BY <1>1, <1>2, <1>5

LEMMA TypeStep ==
  ASSUME TypeOK, Sending, CopiesAddUp, NEW r \in Request, Step(r)
  PROVE  TypeOK'
<1>1. req' \in [Request -> RequestState]
  BY DEF Step, Ends, Begins, Opens, Opened, Stores, Completes, Fills, Forwards, Clears, Forgets,
         GoesOn, Ended, Others
<1>2. CASE Ends(r) \/ Fills(r)
  BY <1>1, <1>2 DEF TypeOK, Ends, Fills
<1>3. CASE Begins(r)
  BY <1>1, <1>3, EmptyBytes DEF TypeOK, Begins
<1>4. CASE Opens(r)
  BY <1>1, <1>4 DEF TypeOK, Opens
<1>5. CASE Opened(r) \/ Forgets(r)
  <2>1. [Absent EXCEPT !.saved = TRUE] \in Manifest
    BY IdleTyped DEF Manifest
  <2> QED
    BY <1>1, <1>5, <2>1, IdleTyped DEF TypeOK, Opened, Forgets
<1>6. CASE Stores(r)
  <2>1. part' \in Contents /\ acked' \in Contents
    BY <1>6 DEF TypeOK, Sending, Stores, Contents
  <2> QED
    BY <1>1, <1>6, <2>1 DEF TypeOK, Stores
<1>7. CASE ChunkSave(r) /\ Ended(r)
  <2>1. acked' \in Contents
    BY <1>7, Saves DEF TypeOK, Contents
  <2> QED
    BY <1>1, <1>7, <2>1, Saves DEF TypeOK
<1>8. CASE Completes(r)
  BY <1>1, <1>8 DEF TypeOK, Completes
<1>9. CASE Forwards(r)
  BY <1>1, <1>9 DEF TypeOK, Forwards, RequestState
<1>10. CASE Clears(r)
  BY <1>1, <1>10, EmptyBytes DEF TypeOK, Clears
<1> QED
  BY <1>2, <1>3, <1>4, <1>5, <1>6, <1>7, <1>8, <1>9, <1>10 DEF Step

(* What r does, as far as the request states are concerned. *)
LEMMA OneMoves ==
  ASSUME TypeOK, Sending, CopiesAddUp, NEW r \in Request, Step(r)
  PROVE  /\ \A q \in Request : q # r => req'[q] = req[q]
         /\ \/ req'[r] = Idle
            \/ Begins(r)
            \/ Opens(r)
            \/ /\ req[r] # Idle /\ req'[r] # Idle /\ req'[r].op = req[r].op
               /\ req'[r].chunk = req[r].chunk /\ req'[r].body = req[r].body
               /\ req'[r].man = req[r].man
               /\ req'[r].pc \in {req[r].pc, "stored", "forget"}
BY DEF Step, Ends, Begins, Opens, Opened, Stores, Completes, Fills, Forwards, Clears, Forgets,
       GoesOn, Ended, Others

LEMMA SendingStep ==
  ASSUME TypeOK, Sending, CopiesAddUp, NEW r \in Request, Step(r)
  PROVE  Sending'
BY OneMoves, IdleTyped DEF Sending, Begins, Opens

LEMMA RemoteKept ==
  ASSUME TypeOK, Sending, CopiesAddUp, NEW r \in Request, Step(r)
  PROVE  remote' = remote
BY Saves DEF Step, Ends, Begins, Opens, Opened, Stores, Completes, Fills, Forwards, Clears, Forgets

(* The manifest a step leaves: as it was, absent, new, or with one chunk more. *)
LEMMA ManifestStep ==
  ASSUME TypeOK, Sending, CopiesAddUp, NEW r \in Request, Step(r)
  PROVE  \/ manifest' = manifest
         \/ Forgets(r) /\ manifest' = Absent
         \/ Opened(r) /\ manifest' = [Absent EXCEPT !.saved = TRUE]
         \/ ChunkSave(r) /\ Ended(r)
BY DEF Step, Ends, Begins, Opens, Opened, Stores, Completes, Fills, Forwards, Clears, Forgets

LEMMA BytesStep ==
  ASSUME TypeOK, Sending, CopiesAddUp, BytesAddUp, NEW r \in Request, Step(r)
  PROVE  BytesAddUp' /\ CopiesAddUp'
<1>1. remote' = remote
  BY RemoteKept
<1>2. [Absent EXCEPT !.saved = TRUE].bytes = 0 /\ [Absent EXCEPT !.saved = TRUE].parts = Empty
  BY DEF Absent
<1>3. remote => manifest'.bytes = Bytes(manifest'.parts)
  <2>1. CASE ChunkSave(r) /\ Ended(r)
    BY <2>1, Saves
  <2>2. CASE ~(ChunkSave(r) /\ Ended(r))
    BY <2>2, <1>2, ManifestStep, IdleTyped, EmptyBytes DEF BytesAddUp
  <2> QED
    BY <2>1, <2>2
<1>4. ASSUME remote, NEW q \in Request PROVE req'[q].man.bytes = Bytes(req'[q].man.parts)
  <2>1. req[q].man.bytes = Bytes(req[q].man.parts) /\ manifest.bytes = Bytes(manifest.parts)
    BY <1>4 DEF CopiesAddUp, BytesAddUp
  <2>2. req'[q].man \in {req[q].man, manifest, Absent}
    BY OneMoves, IdleTyped DEF Begins, Opens
  <2> QED
    BY <2>1, <2>2, IdleTyped, EmptyBytes
<1> QED
  BY <1>1, <1>3, <1>4 DEF BytesAddUp, CopiesAddUp

LEMMA CompleteStep ==
  ASSUME TypeOK, Sending, CopiesAddUp, CompleteChecked, NEW r \in Request, Step(r)
  PROVE  CompleteChecked'
<1>1. remote' = remote
  BY RemoteKept
<1> SUFFICES ASSUME NEW q \in Request, req'[q].op = "complete", req'[q].pc = "read"
             PROVE  Full(req'[q].man.parts) /\ (remote => req'[q].man.bytes = Total)
  BY <1>1 DEF CompleteChecked, Accepted
<1>2. \/ req[q].op = "complete" /\ req[q].pc = "read" /\ req'[q].man = req[q].man
      \/ Accepted(manifest) /\ req'[q].man = manifest
  BY OneMoves, IdleTyped DEF Begins, Opens
<1> QED
  BY <1>2 DEF CompleteChecked, Accepted

LEMMA ObjectStep ==
  ASSUME TypeOK, Sending, CopiesAddUp, CompleteChecked, ObjectSound, NEW r \in Request, Step(r)
  PROVE  ObjectSound'
<1>1. CASE Completes(r)
  <2>1. /\ remote /\ req[r].op = "complete" /\ req[r].pc = "read"
        /\ req[r].man.parts = part /\ object' = part
    BY <1>1 DEF Completes
  <2>2. Full(part) /\ req[r].man.bytes = Total /\ req[r].man.bytes = Bytes(part)
    BY <2>1 DEF CompleteChecked, Accepted, CopiesAddUp
  <2> QED
    BY <2>1, <2>2 DEF ObjectSound, Full
<1>2. CASE Forwards(r)
  BY <1>2 DEF Forwards, ObjectSound, Full
<1>3. CASE ~Completes(r) /\ ~Forwards(r)
  <2>1. object' = object
    BY <1>3, Saves DEF Step, Ends, Begins, Opens, Opened, Stores, Fills, Clears, Forgets
  <2> QED
    BY <2>1 DEF ObjectSound, Full
<1> QED
  BY <1>1, <1>2, <1>3

(* A step that is not one of init's finds a session that init has opened.  *)
LEMMA Served ==
  ASSUME TypeOK, Sending, CopiesAddUp, InitFirst, NEW r \in Request, Step(r)
  PROVE  /\ \/ Opens(r) \/ Opened(r) \/ Forgets(r) \/ Ends(r)
            \/ store # "none" /\ store' # "none" /\ (Begins(r) \/ req[r] # Idle)
         /\ store' = "none" => store = "none"
<1>1. CASE Begins(r)
  BY <1>1 DEF Begins, InitFirst, Blank
<1>2. CASE Stores(r) \/ Completes(r) \/ Fills(r) \/ Forwards(r) \/ Clears(r)
  BY <1>2 DEF Stores, Completes, Fills, Forwards, Clears, GoesOn, InitFirst
<1>3. CASE ChunkSave(r) /\ Ended(r)
  BY <1>3, Saves DEF InitFirst
<1>4. CASE Opens(r) \/ Opened(r) \/ Forgets(r) \/ Ends(r)
  BY <1>4 DEF Opens, Opened, Forgets, Ends
<1> QED
  BY <1>1, <1>2, <1>3, <1>4 DEF Step

LEMMA InitFirstStep ==
  ASSUME TypeOK, Sending, CopiesAddUp, InitFirst, NEW r \in Request, Step(r)
  PROVE  InitFirst'
<1>1. CASE Opens(r)
  <2>1. Blank /\ (\A q \in Request : req[q] = Idle) /\ Blank'
    BY <1>1 DEF Opens, InitFirst, Blank
  <2>2. store' # "none" /\ \A q \in Request : q # r => req'[q] = Idle
    BY <1>1, <2>1 DEF Opens, Others
  <2>3. \A q \in Request : req'[q].op = "init" => q = r
    BY <2>2, IdleTyped
  <2> QED
    BY <2>1, <2>2, <2>3 DEF InitFirst
<1>2. CASE Opened(r)
  <2>1. store # "none" /\ \A q \in Request : q # r => req[q] = Idle
    BY <1>2, IdleTyped DEF Opened, InitFirst
  <2>2. store' # "none" /\ \A q \in Request : req'[q] = Idle
    BY <1>2, <2>1 DEF Opened, Ended, Others
  <2> QED
    BY <2>2, IdleTyped DEF InitFirst
<1>3. CASE Forgets(r) \/ Ends(r)
  <2>1. (Blank => Blank') /\ (store' = store)
    BY <1>3, IdleTyped DEF Forgets, Ends, Blank
  <2>2. \A q \in Request : req'[q] = Idle \/ req'[q] = req[q]
    BY <1>3 DEF Forgets, Ends, Ended, Others
  <2> QED
    BY <2>1, <2>2, IdleTyped DEF InitFirst
<1>4. CASE ~Opens(r) /\ ~Opened(r) /\ ~Forgets(r) /\ ~Ends(r)
  <2>1. store' # "none" /\ (Begins(r) \/ req[r] # Idle)
    BY <1>4, Served
  <2>2. \A q \in Request : req[q].op = "init" => q = r /\ req[r] # Idle
    BY <2>1, IdleTyped DEF InitFirst, Begins, Blank
  <2>3. ASSUME NEW q \in Request, req'[q].op = "init"
        PROVE  Blank' /\ \A p \in Request : p # q => req'[p] = Idle
    <3>1. q = r /\ req[r].op = "init"
      BY <2>2, <2>3, <1>4, OneMoves, IdleTyped DEF Begins
    <3>2. Fills(r)
      BY <1>4, <3>1, <2>2, Saves DEF Step, Begins, Stores, Completes, Forwards, Clears, InitFirst
    <3>3. Blank' /\ \A p \in Request : p # r => req'[p] = req[p]
      BY <3>1, <3>2 DEF Fills, GoesOn, Others, InitFirst, Blank
    <3> QED
      BY <3>1, <3>3 DEF InitFirst
  <2> QED
    BY <2>1, <2>3 DEF InitFirst
<1> QED
  BY <1>1, <1>2, <1>3, <1>4

(* What is acknowledged to a lone client, or no more after a step. *)
LEMMA AckedStep ==
  ASSUME TypeOK, Sending, CopiesAddUp, NEW r \in Request, Step(r)
  PROVE  \/ acked' = acked /\ overlap' = overlap
         \/ Begins(r)
         \/ Stores(r) /\ overlap' = overlap
         \/ ChunkSave(r) /\ Ended(r) /\ ~overlap /\ overlap' = overlap
BY Saves DEF Step, Ends, Opens, Opened, Stores, Completes, Fills, Forwards, Clears, Forgets

LEMMA AloneStep ==
  ASSUME TypeOK, Sending, CopiesAddUp, InitFirst, Alone, NEW r \in Request, Step(r)
  PROVE  Alone'
<1>1. CASE Begins(r) \/ Opens(r)
  <2>1. CASE Begins(r) /\ overlap'
    BY <2>1 DEF Begins, Alone
  <2>2. CASE Begins(r) /\ ~overlap'
    <3>1. \A q \in Request : req[q] = Idle
      BY <2>2 DEF Begins
    <3>2. \A q \in Request : q # r => req'[q] = Idle
      BY <2>2, <3>1 DEF Begins, Others
    <3> QED
      BY <2>2, <3>2 DEF Alone
  <2>3. CASE Opens(r)
    <3>1. acked' = Empty /\ \A q \in Request : req[q] = Idle
      BY <2>3 DEF Opens, InitFirst, Blank
    <3>2. \A q \in Request : q # r => req'[q] = Idle
      BY <2>3, <3>1 DEF Opens, Others
    <3> QED
      BY <3>1, <3>2 DEF Alone
  <2> QED
    BY <1>1, <2>1, <2>2, <2>3
<1>2. CASE ~Begins(r) /\ ~Opens(r)
  <2>1. \A q \in Request : req'[q] # Idle => req[q] # Idle
    BY <1>2, OneMoves
  <2>2. overlap' = overlap /\ (overlap => acked' = Empty)
    <3>1. [Empty EXCEPT ![req[r].chunk] = None] = Empty
      BY DEF Empty
    <3> QED
      BY <1>2, <3>1, AckedStep DEF Stores, Alone
  <2> QED
    BY <2>1, <2>2 DEF Alone
<1> QED
  BY <1>1, <1>2

LEMMA ListedStep ==
  ASSUME TypeOK, Sending, CopiesAddUp, InitFirst, Alone, AckedListed, NEW r \in Request, Step(r)
  PROVE  AckedListed'
<1> DEFINE Listed(m) == \A c \in Chunk : acked'[c] # None => m.parts[c] = acked'[c]
<1>a. acked \in Contents /\ \A c \in Chunk : Empty[c] = None
  BY DEF TypeOK, Empty
<1>1. CASE acked' = Empty
  BY <1>a, <1>1 DEF AckedListed, Lists
<1>2. CASE ChunkSave(r) /\ Ended(r) /\ acked' # Empty
  <2>1. ~overlap
    BY <1>2, Saves DEF Alone
  <2>2. \A q \in Request : req'[q] = Idle
    <3>1. req[r] # Idle
      BY <1>2, Saves
    <3>2. \A q \in Request : q # r => req[q] = Idle
      BY <2>1, <3>1 DEF Alone
    <3> QED
      BY <1>2, <3>2 DEF Ended, Others
  <2>3. Lists(req[r].man) /\ req[r].man.parts \in Contents
    BY <1>2, Saves DEF AckedListed, TypeOK, RequestState, Manifest
  <2>4. /\ req[r].chunk \in Chunk
        /\ manifest'.parts = [req[r].man.parts EXCEPT ![req[r].chunk] = req[r].body]
        /\ acked' = [acked EXCEPT ![req[r].chunk] = req[r].body]
    BY <1>2, <2>1, Saves
  <2>5. Listed(manifest')
    BY <1>a, <2>3, <2>4 DEF Lists, Contents
  <2> QED
    BY <2>2, <2>5, IdleTyped DEF AckedListed, Lists
<1>3. CASE ~(ChunkSave(r) /\ Ended(r)) /\ acked' # Empty
  <2>1. \A c \in Chunk : acked'[c] # None => acked[c] = acked'[c]
    BY <1>3, <1>a, AckedStep DEF Begins, Stores, Sending, Contents
  <2>2. \A m : Lists(m) => Listed(m)
    BY <2>1 DEF Lists
  <2>3. manifest'.saved => Listed(manifest')
    <3>1. ASSUME Opened(r) PROVE acked' = Empty
      BY <3>1 DEF Opened, InitFirst, Blank
    <3>2. manifest' = manifest \/ manifest' = Absent
      BY <1>3, <3>1, ManifestStep
    <3> QED
      BY <2>2, <3>2, IdleTyped DEF AckedListed
  <2>4. ASSUME NEW q \in Request, req'[q].op \in {"chunk", "complete", "cancel"}
        PROVE  Listed(req'[q].man)
    <3>1. CASE q = r /\ Begins(r)
      BY <2>2, <3>1 DEF Begins, AckedListed
    <3>2. CASE ~(q = r /\ Begins(r))
      <4>1. req'[q].op = req[q].op /\ req'[q].man = req[q].man
        BY <2>4, <3>2, OneMoves, IdleTyped DEF Opens
      <4> QED
        BY <2>2, <2>4, <4>1 DEF AckedListed
    <3> QED
      BY <3>1, <3>2
  <2> QED
    BY <2>3, <2>4 DEF AckedListed, Lists
<1> QED
  BY <1>1, <1>2, <1>3

LEMMA StoredStep ==
  ASSUME TypeOK, Sending, CopiesAddUp, InitFirst, Alone, AckedStored, NEW r \in Request, Step(r)
  PROVE  AckedStored'
<1>a. /\ acked \in Contents /\ part \in Contents
      /\ \A c \in Chunk : Empty[c] = None
  BY DEF TypeOK, Empty
<1> SUFFICES ASSUME store' = "open"
             PROVE  /\ \A c \in Chunk : acked'[c] # None => part'[c] = acked'[c]
                    /\ ~overlap' => \A q \in Request :
                         req'[q].op = "chunk" /\ req'[q].pc = "stored" => part'[req'[q].chunk] = req'[q].body
  BY DEF AckedStored
<1>1. CASE Begins(r)
  <2>1. store = "open" /\ part' = part /\ (acked' = acked \/ acked' = Empty)
    BY <1>1 DEF Begins
  <2>2. ~overlap' => \A q \in Request : q # r => req'[q] = Idle
    BY <1>1 DEF Begins, Others
  <2>3. req'[r].pc # "stored"
    BY <1>1 DEF Begins
  <2> QED
    BY <1>a, <2>1, <2>2, <2>3, IdleTyped DEF AckedStored
<1>2. CASE Opens(r)
  <2>1. acked' = Empty /\ \A q \in Request : req[q] = Idle
    BY <1>2 DEF Opens, InitFirst, Blank
  <2>2. req'[r].op = "init" /\ \A q \in Request : q # r => req'[q] = Idle
    BY <1>2, <2>1 DEF Opens, Others
  <2> QED
    BY <1>a, <2>1, <2>2, IdleTyped
<1>3. CASE Stores(r)
  <2>1. /\ store = "open" /\ overlap' = overlap
        /\ part' = [part EXCEPT ![req[r].chunk] = req[r].body]
        /\ acked' = [acked EXCEPT ![req[r].chunk] = None]
        /\ req[r].chunk \in Chunk /\ req[r].body \in Body
    BY <1>3 DEF Stores, Sending
  <2>2. \A c \in Chunk : acked'[c] # None => part'[c] = acked'[c]
    BY <1>a, <2>1 DEF AckedStored, Contents
  <2>3. /\ req[r] # Idle /\ req'[r].chunk = req[r].chunk /\ req'[r].body = req[r].body
        /\ \A q \in Request : q # r => req'[q] = req[q]
    BY <1>3 DEF Stores, GoesOn, Others
  <2>4. ~overlap => \A q \in Request : q # r => req'[q] = Idle
    BY <2>3 DEF Alone
  <2>5. part'[req'[r].chunk] = req'[r].body
    BY <1>a, <2>1, <2>3 DEF Contents
  <2> QED
    BY <2>1, <2>2, <2>4, <2>5, IdleTyped
<1>4. CASE ChunkSave(r) /\ Ended(r)
  <2>1. /\ store = "open" /\ part' = part /\ overlap' = overlap
        /\ req[r].op = "chunk" /\ req[r].pc = "stored"
        /\ acked' = IF overlap THEN acked ELSE [acked EXCEPT ![req[r].chunk] = req[r].body]
    BY <1>4, Saves
  <2>2. \A c \in Chunk : acked'[c] # None => part'[c] = acked'[c]
    BY <1>a, <2>1 DEF AckedStored, Contents
  <2>3. \A q \in Request : req'[q] = Idle \/ req'[q] = req[q]
    BY <1>4 DEF Ended, Others
  <2> QED
    BY <2>1, <2>2, <2>3, IdleTyped DEF AckedStored
<1>5. CASE Ends(r) \/ Opened(r) \/ Fills(r) \/ Forwards(r) \/ Forgets(r)
  <2>1. store = "open" /\ part' = part /\ acked' = acked /\ overlap' = overlap
    BY <1>5 DEF Ends, Opened, Fills, Forwards, Forgets
  <2>2. ASSUME NEW q \in Request, req'[q].op = "chunk", req'[q].pc = "stored"
        PROVE  /\ req[q].op = "chunk" /\ req[q].pc = "stored"
               /\ req'[q].chunk = req[q].chunk /\ req'[q].body = req[q].body
    BY <1>5, <2>2, IdleTyped DEF Ends, Opened, Fills, Forwards, Forgets, GoesOn, Ended, Others
  <2> QED
    BY <2>1, <2>2 DEF AckedStored
<1>6. CASE Completes(r) \/ Clears(r)
  BY <1>6 DEF Completes, Clears
<1> QED
  BY <1>1, <1>2, <1>3, <1>4, <1>5, <1>6 DEF Step

(* The manifest expires. *)
LEMMA ExpireStep ==
  ASSUME IInv, Expire
  PROVE  IInv'
<1> USE DEF IInv
<1>1. /\ manifest' = Absent
      /\ UNCHANGED <<remote, store, part, object, overlap, acked, req>>
  BY DEF Expire
<1>2. TypeOK' /\ Sending' /\ CopiesAddUp' /\ AckedStored' /\ Alone'
  BY <1>1, IdleTyped DEF TypeOK, Sending, CopiesAddUp, AckedStored, Alone
<1>3. CompleteChecked' /\ ObjectSound'
  BY <1>1 DEF CompleteChecked, ObjectSound, Accepted, Full
<1>4. BytesAddUp'
  BY <1>1, IdleTyped, EmptyBytes DEF BytesAddUp
<1>5. InitFirst' /\ AckedListed'
  BY <1>1, IdleTyped DEF InitFirst, Blank, AckedListed, Lists
<1> QED
  BY <1>2, <1>3, <1>4, <1>5

-----------------------------------------------------------------------------
(* The invariant is inductive                                              *)

LEMMA Starts == Init => IInv
<1> SUFFICES ASSUME Init PROVE IInv
  OBVIOUS
<1>1. \A r \in Request : req[r] = Idle
  BY DEF Init
<1>2. TypeOK
  BY IdleTyped, EmptyBytes DEF Init, TypeOK
<1>3. Sending /\ CompleteChecked /\ Alone
  BY <1>1, IdleTyped DEF Sending, CompleteChecked, Alone, Init
<1>4. BytesAddUp /\ CopiesAddUp /\ ObjectSound
  BY <1>1, IdleTyped, EmptyBytes DEF BytesAddUp, CopiesAddUp, ObjectSound, Init
<1>5. InitFirst /\ AckedListed /\ AckedStored
  BY <1>1, IdleTyped DEF InitFirst, Blank, AckedListed, AckedStored, Init
<1> QED
  BY <1>2, <1>3, <1>4, <1>5 DEF IInv

LEMMA Inductive == IInv /\ [Next]_vars => IInv'
<1> SUFFICES ASSUME IInv, [Next]_vars PROVE IInv'
  OBVIOUS
<1>1. ASSUME NEW r \in Request, Step(r) PROVE IInv'
  <2>1. /\ TypeOK /\ Sending /\ BytesAddUp /\ CopiesAddUp /\ CompleteChecked /\ ObjectSound
        /\ InitFirst /\ Alone /\ AckedListed /\ AckedStored
    BY DEF IInv
  <2>2. TypeOK' /\ Sending' /\ BytesAddUp' /\ CopiesAddUp'
    BY <1>1, <2>1, TypeStep, SendingStep, BytesStep
  <2>3. CompleteChecked' /\ ObjectSound'
    BY <1>1, <2>1, CompleteStep, ObjectStep
  <2>4. InitFirst' /\ Alone' /\ AckedListed' /\ AckedStored'
    BY <1>1, <2>1, InitFirstStep, AloneStep, ListedStep, StoredStep
  <2> QED
    BY <2>2, <2>3, <2>4 DEF IInv
<1>2. CASE UNCHANGED vars
  <2>1. TypeOK' <=> TypeOK
    BY <1>2 DEF vars, TypeOK
  <2>2. (Sending' <=> Sending) /\ (BytesAddUp' <=> BytesAddUp) /\ (CopiesAddUp' <=> CopiesAddUp)
    BY <1>2 DEF vars, Sending, BytesAddUp, CopiesAddUp
  <2>3. (CompleteChecked' <=> CompleteChecked) /\ (ObjectSound' <=> ObjectSound)
    BY <1>2 DEF vars, CompleteChecked, Accepted, Full, ObjectSound
  <2>4. (InitFirst' <=> InitFirst) /\ (Alone' <=> Alone)
    BY <1>2 DEF vars, InitFirst, Blank, Alone
  <2>5. (AckedListed' <=> AckedListed) /\ (AckedStored' <=> AckedStored)
    BY <1>2 DEF vars, AckedListed, Lists, AckedStored
  <2> QED
    BY <2>1, <2>2, <2>3, <2>4, <2>5 DEF IInv
<1> QED
  BY <1>1, <1>2, Shapes, ExpireStep DEF IInv

LEMMA Always == Spec => []IInv
BY Starts, Inductive, PTL DEF Spec

-----------------------------------------------------------------------------
(* Theorems                                                                *)

(* Every variable keeps its type: in particular the bytes of a manifest    *)
(* never go below zero when a chunk replaces a larger one (uploadChunk).   *)
THEOREM TypeCorrect == Spec => []TypeOK
BY Always, PTL DEF IInv

(* uploadedBytes is the sum of the listed parts, whichever copy of the     *)
(* manifest uploadChunk writes back.                                       *)
THEOREM BytesAlways == Spec => []BytesAddUp
BY Always, PTL DEF IInv

(* What complete stores has every chunk and the declared size, though      *)
(* chunks are replaced while it runs.                                      *)
THEOREM ObjectAlways == Spec => []ObjectSound
BY Always, PTL DEF IInv

(* Once every chunk has been acknowledged to a client that uploads one at  *)
(* a time, complete finds all it checks in order.                          *)
THEOREM AcknowledgedAlways == Spec => []AcknowledgedCompletes
<1>1. IInv => AcknowledgedCompletes
  <2> SUFFICES ASSUME IInv, manifest.saved, store = "open", Full(acked), Bytes(acked) = Total
               PROVE  Accepted(manifest) /\ manifest.parts = part
    BY DEF AcknowledgedCompletes, Matches
  <2>1. acked \in Contents /\ part \in Contents /\ manifest.parts \in Contents
    BY DEF IInv, TypeOK, Manifest
  <2>2. \A c \in Chunk : manifest.parts[c] = acked[c] /\ part[c] = acked[c]
    BY DEF IInv, AckedListed, AckedStored, Lists, Full
  <2>3. manifest.parts = acked /\ part = acked
    BY <2>1, <2>2 DEF Contents
  <2>4. remote => manifest.bytes = Total
    BY <2>3 DEF IInv, BytesAddUp
  <2> QED
    BY <2>3, <2>4 DEF Accepted
<1> QED
  BY <1>1, Always, PTL
=============================================================================
