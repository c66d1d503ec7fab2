------------------------------- MODULE Uploads -------------------------------
(***************************************************************************)
(* One upload session (src/uploads/uploads.service.ts): a manifest in      *)
(* Redis, read and written whole, and the chunks in the storage behind it: *)
(* a multipart upload of the R2 bucket when one is configured (remote), a  *)
(* staging directory otherwise.  Nothing makes a read of the manifest, a   *)
(* call to the storage and the write of the manifest one step; requests of *)
(* the session, on several API processes, interleave at each of them.      *)
(*                                                                         *)
(* The R2 multipart API is external.  It is modelled as uploads.service.ts *)
(* uses it: a part replaces the part of its number, an upload completes    *)
(* only while it is open and only when every listed ETag is that of the    *)
(* part stored last, and an ETag tells contents apart.                     *)
(***************************************************************************)
EXTENDS Naturals, FiniteSetsExt

CONSTANTS Chunk,    \* indices of the session's chunks, 0 .. totalChunks - 1
          Body,     \* contents a chunk may be sent with; retries may differ
          Size,     \* their sizes
          Total,    \* sizeBytes, declared at init
          Request,  \* requests being served
          None      \* no content

ASSUME NoneAssumption == None \notin Body
ASSUME ChunkAssumption == IsFiniteSet(Chunk)
ASSUME SizeAssumption == Size \in [Body -> Nat \ {0}]

VARIABLES
  remote,    \* R2 is configured
  manifest,  \* the manifest in Redis: the content recorded per chunk, uploadedBytes
  store,     \* the multipart upload or directory: "none", "open", "completed", "gone"
  part,      \* part[c]: the content stored last for chunk c
  object,    \* the stored object: the content it has per chunk
  overlap,   \* history: the requests being served were served beside another
  acked,     \* history: acked[c] is the content whose upload was answered, beside no
             \* other request, and not sent anew since; an overlap clears it
  req        \* what each request is doing

vars == <<remote, manifest, store, part, object, overlap, acked, req>>

Contents == [Chunk -> Body \cup {None}]
Empty == [c \in Chunk |-> None]

Absent == [parts |-> Empty, bytes |-> 0, saved |-> FALSE]
Manifest == [parts : Contents, bytes : Nat, saved : BOOLEAN]

(* man is the request's copy of the manifest, buf the chunks it has read. *)
Idle == [op |-> "none", pc |-> "idle", chunk |-> None, body |-> None,
         man |-> Absent, buf |-> Empty]

RequestState ==
  [op : {"none", "init", "chunk", "complete", "cancel"},
   pc : {"idle", "read", "stored", "forget"},
   chunk : Chunk \cup {None}, body : Body \cup {None}, man : Manifest, buf : Contents]

TypeOK ==
  /\ remote \in BOOLEAN
  /\ manifest \in Manifest
  /\ store \in {"none", "open", "completed", "gone"}
  /\ part \in Contents
  /\ object \in Contents
  /\ overlap \in BOOLEAN
  /\ acked \in Contents
  /\ req \in [Request -> RequestState]

Init ==
  /\ remote \in BOOLEAN
  /\ manifest = Absent
  /\ store = "none"
  /\ part = Empty
  /\ object = Empty
  /\ overlap = FALSE
  /\ acked = Empty
  /\ req = [r \in Request |-> Idle]

-----------------------------------------------------------------------------
(* Helpers                                                                 *)

SizeOf(b) == IF b = None THEN 0 ELSE Size[b]
Bytes(f) == MapThenSumSet(LAMBDA c : SizeOf(f[c]), Chunk)

Full(f) == \A c \in Chunk : f[c] # None

Finish(r) == req' = [req EXCEPT ![r] = Idle]

(* A request reads the manifest of the session; 404 if there is none. *)
ReadManifest(r, op, c, b) ==
  /\ req[r] = Idle
  /\ manifest.saved
  /\ req' = [req EXCEPT ![r] = [Idle EXCEPT !.op = op, !.pc = "read", !.chunk = c,
                                            !.body = b, !.man = manifest]]
  /\ overlap' = (\E q \in Request : req[q] # Idle)
  /\ acked' = IF overlap' THEN Empty ELSE acked
  /\ UNCHANGED <<remote, manifest, store, part, object>>

-----------------------------------------------------------------------------
(* init                                                                    *)

(* The multipart upload is created, or the directory made. *)
InitOpen(r) ==
  /\ req[r] = Idle /\ store = "none"
  /\ store' = "open"
  /\ req' = [req EXCEPT ![r] = [Idle EXCEPT !.op = "init", !.pc = "stored"]]
  /\ UNCHANGED <<remote, manifest, part, object, overlap, acked>>

InitSave(r) ==
  /\ req[r].op = "init"
  /\ manifest' = [Absent EXCEPT !.saved = TRUE]
  /\ Finish(r)
  /\ UNCHANGED <<remote, store, part, object, overlap, acked>>

-----------------------------------------------------------------------------
(* chunk                                                                   *)

ChunkRead(r, c, b) == ReadManifest(r, "chunk", c, b)

(* The chunk is stored; an upload or directory that is gone is an error.   *)
ChunkStore(r) ==
  LET c == req[r].chunk
  IN  /\ req[r].op = "chunk" /\ req[r].pc = "read"
      /\ IF store = "open"
         THEN /\ part' = [part EXCEPT ![c] = req[r].body]
              /\ acked' = [acked EXCEPT ![c] = None]
              /\ req' = [req EXCEPT ![r].pc = "stored"]
         ELSE Finish(r) /\ UNCHANGED <<part, acked>>
      /\ UNCHANGED <<remote, manifest, store, object, overlap>>

(* Mutant: the size of the part that is replaced stays counted. *)
RecordTwice(m, c, b) ==
  [parts |-> [m.parts EXCEPT ![c] = b],
   bytes |-> IF remote THEN m.bytes + Size[b] ELSE 0,
   saved |-> TRUE]

(* Mutant: a chunk sent again keeps the ETag of its first part. *)
RecordFirst(m, c, b) ==
  [parts |-> [m.parts EXCEPT ![c] = IF @ = None THEN b ELSE @],
   bytes |-> IF remote /\ m.parts[c] = None THEN m.bytes + Size[b] ELSE m.bytes,
   saved |-> TRUE]

(* The part of the chunk is added to the manifest, or replaces its part.   *)
(* Only the R2 branch counts bytes.                                        *)
Record(m, c, b) ==
  [parts |-> [m.parts EXCEPT ![c] = b],
   bytes |-> IF remote THEN m.bytes - SizeOf(m.parts[c]) + Size[b] ELSE 0,
   saved |-> TRUE]

(* The copy read at the start, with this chunk recorded, is written back   *)
(* whole, and the request answered.                                        *)
ChunkSave(r) ==
  LET c == req[r].chunk
  IN  /\ req[r].op = "chunk" /\ req[r].pc = "stored"
      /\ manifest' = Record(req[r].man, c, req[r].body)
      /\ acked' = IF overlap THEN acked ELSE [acked EXCEPT ![c] = req[r].body]
      /\ Finish(r)
      /\ UNCHANGED <<remote, store, part, object, overlap>>

-----------------------------------------------------------------------------
(* complete                                                                *)

Accepted(m) == Full(m.parts) /\ (remote => m.bytes = Total)

(* All chunks must have been received, and in R2 their bytes add up. *)
CompleteRead(r) == Accepted(manifest) /\ ReadManifest(r, "complete", None, None)

(* Mutant: the upload is completed from the stored parts, not from the     *)
(* ETags of the manifest.                                                  *)
AnyETag(f) == Full(part) \/ f = part

(* The ETags listed are those of the parts stored. *)
Matches(f) == f = part

(* CompleteMultipartUpload, with the ETags of the copy. *)
CompleteRemote(r) ==
  LET f == req[r].man.parts
  IN  /\ remote
      /\ req[r].op = "complete" /\ req[r].pc = "read"
      /\ IF store = "open" /\ Matches(f)
         THEN /\ object' = part
              /\ store' = "completed"
              /\ req' = [req EXCEPT ![r].pc = "forget"]
         ELSE Finish(r) /\ UNCHANGED <<object, store>>
      /\ UNCHANGED <<remote, manifest, part, overlap, acked>>

(* The staged files are read one by one; a missing one is an error. *)
CompleteReadChunk(r, c) ==
  /\ ~remote
  /\ req[r].op = "complete" /\ req[r].pc = "read" /\ req[r].buf[c] = None
  /\ IF part[c] # None THEN req' = [req EXCEPT ![r].buf[c] = part[c]] ELSE Finish(r)
  /\ UNCHANGED <<remote, manifest, store, part, object, overlap, acked>>

(* The whole goes to R2, or to the storage service at STORAGE_UPLOAD_URL,  *)
(* which takes it or fails (Crash).  Without either the answer names       *)
(* staged:<id>, and the cleanup below removes the only copy.               *)
Forward(file) == object' = file

(* The length of the chunks put together is checked first. *)
CompleteForward(r) ==
  /\ ~remote
  /\ req[r].op = "complete" /\ req[r].pc = "read" /\ Full(req[r].buf)
  /\ IF Bytes(req[r].buf) = Total
     THEN Forward(req[r].buf) /\ req' = [req EXCEPT ![r].pc = "stored"]
     ELSE Finish(r) /\ UNCHANGED object
  /\ UNCHANGED <<remote, manifest, store, part, overlap, acked>>

(* cleanup: the directory is removed with the chunks staged in it. *)
CompleteCleanup(r) ==
  /\ req[r].op = "complete" /\ req[r].pc = "stored"
  /\ store' = "gone"
  /\ part' = Empty
  /\ req' = [req EXCEPT ![r].pc = "forget"]
  /\ UNCHANGED <<remote, manifest, object, overlap, acked>>

-----------------------------------------------------------------------------
(* cancel                                                                  *)

CancelRead(r) == ReadManifest(r, "cancel", None, None)

(* AbortMultipartUpload, its error ignored, or the directory removed. *)
CancelAbort(r) ==
  /\ req[r].op = "cancel" /\ req[r].pc = "read"
  /\ store' = IF remote /\ store = "completed" THEN store ELSE "gone"
  /\ part' = Empty
  /\ req' = [req EXCEPT ![r].pc = "forget"]
  /\ UNCHANGED <<remote, manifest, object, overlap, acked>>

(* complete and cancel delete the manifest last. *)
Forget(r) ==
  /\ req[r].pc = "forget"
  /\ manifest' = Absent
  /\ Finish(r)
  /\ UNCHANGED <<remote, store, part, object, overlap, acked>>

-----------------------------------------------------------------------------
(* The environment                                                         *)

(* The process dies or a call fails: what was stored stays stored. *)
Crash(r) ==
  /\ req[r] # Idle
  /\ Finish(r)
  /\ UNCHANGED <<remote, manifest, store, part, object, overlap, acked>>

(* Redis drops the manifest a day after it was last written. *)
Expire ==
  /\ manifest.saved
  /\ manifest' = Absent
  /\ UNCHANGED <<remote, store, part, object, overlap, acked, req>>

Next ==
  \/ \E r \in Request :
       \/ InitOpen(r) \/ InitSave(r)
       \/ \E c \in Chunk, b \in Body : ChunkRead(r, c, b)
       \/ ChunkStore(r) \/ ChunkSave(r)
       \/ CompleteRead(r) \/ CompleteRemote(r)
       \/ \E c \in Chunk : CompleteReadChunk(r, c)
       \/ CompleteForward(r) \/ CompleteCleanup(r)
       \/ CancelRead(r) \/ CancelAbort(r)
       \/ Forget(r)
       \/ Crash(r)
  \/ Expire

Spec == Init /\ [][Next]_vars

-----------------------------------------------------------------------------
(* Properties                                                              *)

(* uploadedBytes is the sum of the parts the manifest lists, whichever     *)
(* copy of it a slow request writes back and however often a chunk is sent *)
(* again with another size.                                                *)
BytesAddUp == remote => manifest.bytes = Bytes(manifest.parts)

(* An object that was stored has every chunk and the declared size, though *)
(* chunks are replaced between the check of the manifest and the storing:  *)
(* in R2 the ETags see to it, on disk the length of what was read.         *)
ObjectSound == object # Empty => Full(object) /\ Bytes(object) = Total

(* When every chunk has been acknowledged to a client that uploads one at  *)
(* a time, with the declared size in all, complete succeeds: no chunk is   *)
(* missing from the manifest, its bytes add up, and no ETag is out of      *)
(* date, whatever was cut off, sent again or served at once before.        *)
AcknowledgedCompletes ==
  /\ \A r \in Request : req[r] = Idle
  /\ manifest.saved /\ store = "open"
  /\ Full(acked) /\ Bytes(acked) = Total
  => Accepted(manifest) /\ Matches(manifest.parts)
=============================================================================
