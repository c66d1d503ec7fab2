----------------------------- MODULE ContentTree -----------------------------
(***************************************************************************)
(* The catalogue: dramas, their seasons, the seasons' episodes and the     *)
(* media asset of an episode (src/dramas, src/seasons, src/episodes,       *)
(* src/media-assets).  Rows are deleted softly, parents with everything    *)
(* below them.                                                             *)
(*                                                                         *)
(* Requests share PostgreSQL at READ COMMITTED.  A request that first      *)
(* checks rows and then writes is cut in between; remove() runs in a       *)
(* transaction that holds the removed row and works from the ids it read;  *)
(* bulk deletion is a sequence of statements that commit one by one.       *)
(* A read of ids is taken together with the statement before it.           *)
(***************************************************************************)
EXTENDS FiniteSets

CONSTANTS Drama, Season, Episode, Media,   \* ids of the rows
          Request,                         \* requests being served
          None                             \* no row

Row == Drama \cup Season \cup Episode \cup Media

ASSUME RowsDistinct ==
  /\ Drama \cap (Season \cup Episode \cup Media) = {}
  /\ Season \cap (Episode \cup Media) = {} /\ Episode \cap Media = {}
  /\ None \notin Row

VARIABLES
  at,      \* at[n]: "absent", "live" (deleted_at is null) or "deleted"
  parent,  \* parent[n]: drama of a season, season of an episode, episode of a media
  pub,     \* pub[n]: is_published of a drama or episode
  status,  \* status[n]: status of an episode or media asset, "none" otherwise
  req,     \* what each request is doing
  stray,   \* history: rows an operation that does not look at their parents, or
           \* an interrupted bulk deletion, left live below a deleted one
  late     \* history: rows whose publication or status was last written by an
           \* update that had found them live and came after their deletion

vars == <<at, parent, pub, status, req, stray, late>>

EpisodeStatus == {"DRAFT", "PUBLISHED", "ARCHIVED"}
MediaStatus == {"PROCESSING", "ACTIVE", "INACTIVE"}   \* "ERROR" behaves as "ACTIVE"

(* What a request is doing: ids are the rows its caller named, to the new  *)
(* parent of a created or moved row, snap the rows its statements go by.   *)
Idle == [op |-> "none", pc |-> "idle", item |-> None, to |-> None, ids |-> {}, snap |-> {}]

RequestState ==
  [op : {"none", "create", "update", "restoreMedia", "remove", "bulk"},
   pc : {"idle", "checked", "reading", "locked", "sweeping"},
   item : Row \cup {None}, to : Row \cup {None}, ids : SUBSET Row, snap : SUBSET Row]

StatusOf(n) == CASE n \in Episode -> EpisodeStatus
                 [] n \in Media   -> MediaStatus
                 [] OTHER         -> {"none"}

TypeOK ==
  /\ at \in [Row -> {"absent", "live", "deleted"}]
  /\ parent \in [Row -> Row \cup {None}]
  /\ \A n \in Row : parent[n] \in CASE n \in Season  -> Drama \cup {None}
                                    [] n \in Episode -> Season \cup {None}
                                    [] n \in Media   -> Episode \cup {None}
                                    [] OTHER         -> {None}
  /\ pub \in [Row -> BOOLEAN]
  /\ status \in [Row -> EpisodeStatus \cup MediaStatus \cup {"none"}]
  /\ \A n \in Row : status[n] \in StatusOf(n)
  /\ req \in [Request -> RequestState]
  /\ stray \in SUBSET Row /\ late \in SUBSET Row

Init ==
  /\ at = [n \in Row |-> "absent"]
  /\ parent = [n \in Row |-> None]
  /\ pub = [n \in Row |-> FALSE]
  /\ status = [n \in Row |-> CASE n \in Episode -> "DRAFT"
                               [] n \in Media   -> "PROCESSING"
                               [] OTHER         -> "none"]
  /\ req = [r \in Request |-> Idle]
  /\ stray = {} /\ late = {}

-----------------------------------------------------------------------------
(* Helpers                                                                 *)

Children(S) == {n \in Row : parent[n] \in S}

Ancestors(n) ==
  LET Up(S) == {parent[m] : m \in S} \ {None}
  IN  Up({n}) \cup Up(Up({n})) \cup Up(Up(Up({n})))

Below(S) == {n \in Row : Ancestors(n) \cap S # {}}

(* Neither the row nor anything above it is deleted: ensureDrama,          *)
(* ensureSeason, ensureEpisode and the ensureActive checks.                *)
Alive(n) == \A m \in {n} \cup Ancestors(n) : at[m] = "live"

(* The row an open remove() transaction has updated. *)
Locked(n) == \E r \in Request : req[r].op = "remove" /\ req[r].item = n

Finish(r) == req' = [req EXCEPT ![r] = Idle]

(* A request of one statement is served in a step, if one can be served.   *)
CanServe == \E r \in Request : req[r] = Idle

(* The live rows among S are deleted, unpublished, archived, inactivated.  *)
Delete(S) ==
  LET hit == {n \in S : at[n] = "live"}
  IN  /\ at' = [n \in Row |-> IF n \in hit THEN "deleted" ELSE at[n]]
      /\ pub' = [n \in Row |-> pub[n] /\ n \notin hit]
      /\ status' = [n \in Row |-> CASE n \in hit \cap Episode -> "ARCHIVED"
                                    [] n \in hit \cap Media   -> "INACTIVE"
                                    [] OTHER                  -> status[n]]
      /\ stray' = stray \ hit /\ late' = late \ hit

-----------------------------------------------------------------------------
(* Creating: the parent is checked, then the row inserted                  *)

CreateDrama(d, p) ==
  /\ CanServe
  /\ at[d] = "absent"
  /\ at' = [at EXCEPT ![d] = "live"]
  /\ pub' = [pub EXCEPT ![d] = p]
  /\ UNCHANGED <<parent, status, req, stray, late>>

CreateCheck(r, n, p) ==
  /\ req[r] = Idle
  /\ at[n] = "absent" /\ \A q \in Request : req[q].item # n
  /\ Alive(p)
  /\ req' = [req EXCEPT ![r] = [Idle EXCEPT !.op = "create", !.pc = "checked",
                                            !.item = n, !.to = p]]
  /\ UNCHANGED <<at, parent, pub, status, stray, late>>

Insert(r, st) ==
  LET n == req[r].item
  IN  /\ req[r].op = "create"
      /\ at' = [at EXCEPT ![n] = "live"]
      /\ parent' = [parent EXCEPT ![n] = req[r].to]
      /\ status' = [status EXCEPT ![n] = st]
      /\ pub' = [pub EXCEPT ![n] = st = "PUBLISHED"]
      /\ Finish(r)
      /\ UNCHANGED <<stray, late>>

CreateSeason(r) == req[r].item \in Season /\ Insert(r, "none")

CreateEpisode(r, st) == req[r].item \in Episode /\ st \in EpisodeStatus /\ Insert(r, st)

(* An episode has one media asset, deleted ones counted. *)
CreateMedia(r, st) ==
  /\ req[r].item \in Media /\ st \in MediaStatus
  /\ Children({req[r].to}) = {}
  /\ Insert(r, st)

-----------------------------------------------------------------------------
(* Updating: the row (and a new parent) is checked, then written by id     *)

UpdateCheck(r, n) ==
  /\ req[r] = Idle
  /\ IF n \in Media THEN at[n] = "live" ELSE Alive(n)
  /\ req' = [req EXCEPT ![r] = [Idle EXCEPT !.op = "update", !.pc = "checked", !.item = n]]
  /\ UNCHANGED <<at, parent, pub, status, stray, late>>

MoveCheck(r, p) ==
  /\ req[r].op = "update" /\ req[r].to = None
  /\ \/ req[r].item \in Season /\ p \in Drama
     \/ req[r].item \in Episode /\ p \in Season
  /\ Alive(p)
  /\ req' = [req EXCEPT ![r].to = p]
  /\ UNCHANGED <<at, parent, pub, status, stray, late>>

(* What every update writes: the new parent, if one was given. *)
Write(r) ==
  LET n == req[r].item
  IN  /\ req[r].op = "update"
      /\ ~Locked(n)
      /\ parent' = [parent EXCEPT ![n] = IF req[r].to = None THEN @ ELSE req[r].to]
      /\ Finish(r)
      /\ UNCHANGED <<at, stray>>

(* The row is written whether or not it has been deleted since the check.  *)
Rewritten(n) == late' = IF at[n] = "deleted" THEN late \cup {n} ELSE late \ {n}

UpdateDrama(r, p) ==
  /\ req[r].item \in Drama
  /\ Write(r) /\ Rewritten(req[r].item)
  /\ pub' = [pub EXCEPT ![req[r].item] = p]
  /\ UNCHANGED status

UpdateSeason(r) == req[r].item \in Season /\ Write(r) /\ UNCHANGED <<pub, status, late>>

(* Mutant: a status is written without is_published. *)
UpdateEpisodeStatusOnly(r, st) ==
  LET e == req[r].item
  IN  /\ e \in Episode /\ st \in EpisodeStatus \cup {"none"}
      /\ Write(r)
      /\ UNCHANGED pub
      /\ IF st = "none" THEN UNCHANGED <<status, late>>
         ELSE status' = [status EXCEPT ![e] = st] /\ Rewritten(e)

(* status and is_published are written together or not at all. *)
UpdateEpisode(r, st) ==
  LET e == req[r].item
  IN  /\ e \in Episode /\ st \in EpisodeStatus \cup {"none"}
      /\ Write(r)
      /\ IF st = "none" THEN UNCHANGED <<pub, status, late>>
         ELSE /\ status' = [status EXCEPT ![e] = st]
              /\ pub' = [pub EXCEPT ![e] = st = "PUBLISHED"]
              /\ Rewritten(e)

UpdateMedia(r, st) ==
  /\ req[r].item \in Media /\ st \in MediaStatus
  /\ Write(r) /\ Rewritten(req[r].item)
  /\ status' = [status EXCEPT ![req[r].item] = st]
  /\ UNCHANGED pub

(* Publishing is one conditional statement. *)
Publish(S, p) ==
  /\ CanServe
  /\ S # {} /\ \A n \in S : ~Locked(n)
  /\ pub' = [n \in Row |-> IF n \in S THEN p ELSE pub[n]]
  /\ status' = [n \in Row |-> IF n \notin S \cap Episode THEN status[n]
                              ELSE IF p THEN "PUBLISHED" ELSE "DRAFT"]
  /\ late' = late \ S
  /\ UNCHANGED <<at, parent, req, stray>>

PublishDramas(ids, p) == Publish({d \in ids : at[d] = "live"}, p)

(* Mutant: the parents are asked for, the deletion of the episode is not. *)
PublishEpisodesOfLiveParents(ids, p) ==
  Publish({e \in ids : at[e] # "absent" /\ Alive(parent[e])}, p)

PublishEpisodes(ids, p) == Publish({e \in ids : Alive(e)}, p)

-----------------------------------------------------------------------------
(* Removing one row with everything below it, in a transaction             *)

(* The row is deleted if it is live, and stays locked; the ids of its      *)
(* children are read.                                                      *)
RemoveBegin(r, n) ==
  /\ req[r] = Idle
  /\ at[n] = "live" /\ ~Locked(n)
  /\ req' = [req EXCEPT ![r] =
       [Idle EXCEPT !.op = "remove", !.pc = IF n \in Drama THEN "reading" ELSE "locked",
                    !.item = n, !.ids = {n}, !.snap = Children({n})]]
  /\ UNCHANGED <<at, parent, pub, status, stray, late>>

RemoveDrama(r, d) == d \in Drama /\ RemoveBegin(r, d)
RemoveSeason(r, s) == s \in Season /\ RemoveBegin(r, s)

(* A drama's removal reads the ids of the seasons' episodes next. *)
RemoveRead(r) ==
  /\ req[r].pc = "reading"
  /\ req' = [req EXCEPT ![r].pc = "locked", ![r].snap = @ \cup Children(@)]
  /\ UNCHANGED <<at, parent, pub, status, stray, late>>

(* Mutant: the media assets of the removed episodes are forgotten. *)
RemoveCommitKeepsMedia(r) ==
  LET gone == {req[r].item} \cup req[r].snap
  IN  /\ req[r].op = "remove" /\ req[r].pc = "locked"
      /\ \A n \in gone \ {req[r].item} : ~Locked(n)
      /\ Delete(gone)
      /\ Finish(r)
      /\ UNCHANGED parent

(* The rows read are deleted by id, the media assets by their episode.     *)
RemoveCommit(r) ==
  LET gone == {req[r].item} \cup req[r].snap \cup (Children(req[r].snap) \cap Media)
  IN  /\ req[r].op = "remove" /\ req[r].pc = "locked"
      /\ \A n \in gone \ {req[r].item} : ~Locked(n)
      /\ Delete(gone)
      /\ Finish(r)
      /\ UNCHANGED parent

RemoveEpisode(e) ==
  /\ CanServe
  /\ at[e] = "live"
  /\ Delete({e} \cup Children({e}))
  /\ UNCHANGED <<parent, req>>

RemoveMedia(m) ==
  /\ CanServe
  /\ at[m] = "live"
  /\ Delete({m})
  /\ UNCHANGED <<parent, req>>

-----------------------------------------------------------------------------
(* Deleting in bulk: one committed statement per level                     *)

BulkDelete(r, ids) ==
  /\ req[r] = Idle
  /\ ids # {} /\ \A n \in ids : ~Locked(n)
  /\ req' = [req EXCEPT ![r] = [Idle EXCEPT !.op = "bulk", !.pc = "sweeping",
                                            !.ids = ids, !.snap = ids]]
  /\ Delete(ids)
  /\ UNCHANGED parent

BulkDeleteDramas(r, ids) == ids \subseteq Drama /\ BulkDelete(r, ids)
BulkDeleteSeasons(r, ids) == ids \subseteq Season /\ BulkDelete(r, ids)
BulkDeleteEpisodes(r, ids) == ids \subseteq Episode /\ BulkDelete(r, ids)

(* Mutant: the next level is looked for below the live rows only, so a     *)
(* repeated call finds nothing below what the first one deleted.           *)
BulkNextOfLive(r) ==
  LET hit == {n \in Children(req[r].snap) : at[n] = "live"}
  IN  /\ req[r].op = "bulk"
      /\ \A n \in hit : ~Locked(n)
      /\ Delete(hit)
      /\ req' = [req EXCEPT ![r] = IF hit \subseteq Media THEN Idle ELSE [@ EXCEPT !.snap = hit]]
      /\ UNCHANGED parent

(* The children of the rows handled last are deleted, live or not they     *)
(* are the parents of the next level.                                      *)
BulkNext(r) ==
  LET hit == Children(req[r].snap)
  IN  /\ req[r].op = "bulk"
      /\ \A n \in hit : ~Locked(n)
      /\ Delete(hit)
      /\ req' = [req EXCEPT ![r] = IF hit \subseteq Media THEN Idle ELSE [@ EXCEPT !.snap = hit]]
      /\ UNCHANGED parent

-----------------------------------------------------------------------------
(* Restoring                                                               *)

Revive(S) ==
  /\ CanServe
  /\ S # {} /\ \A n \in S : ~Locked(n)
  /\ at' = [n \in Row |-> IF n \in S THEN "live" ELSE at[n]]
  /\ UNCHANGED <<parent, pub, req, late>>

RestoreDramas(ids) ==
  /\ Revive({d \in ids : at[d] = "deleted"})
  /\ UNCHANGED <<status, stray>>

(* The season's drama is not looked at. *)
RestoreSeasons(ids) ==
  LET S == {s \in ids : at[s] = "deleted"}
  IN  /\ Revive(S)
      /\ stray' = stray \cup {s \in S : ~Alive(parent[s])}
      /\ UNCHANGED status

(* Mutant: the episode comes back published. *)
RestoreEpisodesPublished(ids) ==
  LET S == {e \in ids : at[e] = "deleted" /\ Alive(parent[e])}
  IN  /\ S # {} /\ CanServe
      /\ at' = [n \in Row |-> IF n \in S THEN "live" ELSE at[n]]
      /\ status' = [n \in Row |-> IF n \in S THEN "PUBLISHED" ELSE status[n]]
      /\ pub' = [n \in Row |-> pub[n] \/ n \in S]
      /\ UNCHANGED <<parent, req, stray, late>>

(* Only below live parents, and as a draft. *)
RestoreEpisodes(ids) ==
  LET S == {e \in ids : at[e] = "deleted" /\ Alive(parent[e])}
  IN  /\ Revive(S)
      /\ status' = [n \in Row |-> IF n \in S THEN "DRAFT" ELSE status[n]]
      /\ UNCHANGED stray

(* A media asset's parents are checked first, then it is written by id.    *)
RestoreMediaCheck(r, m) ==
  /\ req[r] = Idle
  /\ at[m] = "deleted" /\ Alive(parent[m])
  /\ req' = [req EXCEPT ![r] = [Idle EXCEPT !.op = "restoreMedia", !.pc = "checked",
                                            !.item = m]]
  /\ UNCHANGED <<at, parent, pub, status, stray, late>>

(* Mutant: the status is copied from the restore of episodes. *)
RestoreMediaDraft(r) ==
  /\ req[r].op = "restoreMedia"
  /\ at' = [at EXCEPT ![req[r].item] = "live"]
  /\ status' = [status EXCEPT ![req[r].item] = "DRAFT"]
  /\ late' = late \ {req[r].item}
  /\ Finish(r)
  /\ UNCHANGED <<parent, pub, stray>>

RestoreMedia(r) ==
  /\ req[r].op = "restoreMedia"
  /\ at' = [at EXCEPT ![req[r].item] = "live"]
  /\ status' = [status EXCEPT ![req[r].item] = "PROCESSING"]
  /\ late' = late \ {req[r].item}
  /\ Finish(r)
  /\ UNCHANGED <<parent, pub, stray>>

-----------------------------------------------------------------------------
(* The process dies, the connection drops, or the write fails on a unique  *)
(* number: an open transaction rolls back, committed statements stay.      *)
Crash(r) ==
  /\ req[r] # Idle
  /\ stray' = stray \cup {n \in Below(req[r].ids) : req[r].op = "bulk" /\ at[n] = "live"}
  /\ Finish(r)
  /\ UNCHANGED <<at, parent, pub, status, late>>

Requested(r) ==
  \/ \E s \in Season, d \in Drama : CreateCheck(r, s, d)
  \/ \E e \in Episode, s \in Season : CreateCheck(r, e, s)
  \/ \E m \in Media, e \in Episode : CreateCheck(r, m, e)
  \/ \E n \in Row : UpdateCheck(r, n) \/ MoveCheck(r, n)
  \/ \E n \in Row : RemoveDrama(r, n) \/ RemoveSeason(r, n)
  \/ \E ids \in SUBSET Drama : BulkDeleteDramas(r, ids)
  \/ \E ids \in SUBSET Season : BulkDeleteSeasons(r, ids)
  \/ \E ids \in SUBSET Episode : BulkDeleteEpisodes(r, ids)
  \/ \E m \in Media : RestoreMediaCheck(r, m)

Served(r) ==
  \/ CreateSeason(r) \/ UpdateSeason(r)
  \/ \E st \in EpisodeStatus \cup {"none"} : CreateEpisode(r, st) \/ UpdateEpisode(r, st)
  \/ \E st \in MediaStatus : CreateMedia(r, st) \/ UpdateMedia(r, st)
  \/ \E p \in BOOLEAN : UpdateDrama(r, p)
  \/ RemoveRead(r) \/ RemoveCommit(r)
  \/ BulkNext(r)
  \/ RestoreMedia(r)

Restored ==
  \/ \E ids \in SUBSET Drama : RestoreDramas(ids)
  \/ \E ids \in SUBSET Season : RestoreSeasons(ids)
  \/ \E ids \in SUBSET Episode : RestoreEpisodes(ids)

Next ==
  \/ \E r \in Request : Requested(r) \/ Served(r) \/ Crash(r)
  \/ \E d \in Drama, p \in BOOLEAN : CreateDrama(d, p)
  \/ \E ids \in SUBSET Drama, p \in BOOLEAN : PublishDramas(ids, p)
  \/ \E ids \in SUBSET Episode, p \in BOOLEAN : PublishEpisodes(ids, p)
  \/ \E e \in Episode : RemoveEpisode(e)
  \/ \E m \in Media : RemoveMedia(m)
  \/ Restored

Spec == Init /\ [][Next]_vars

-----------------------------------------------------------------------------
(* What visitors see.  The routes of the lists and pages are public, so no *)
(* caller is known there to be staff; all episodes are of public           *)
(* visibility.                                                             *)

Shown(d) == at[d] = "live" /\ pub[d]   \* a drama, as every query below asks for it

ListedDramas == {d \in Drama : Shown(d)}

(* The page of a drama and the list of its seasons. *)
DramaSeasons(d) == {s \in Children({d}) : Shown(d) /\ at[s] = "live"}

ListedSeasons == {s \in Season : at[s] = "live" /\ Shown(parent[s])}

(* The page of a season: its episodes are asked for is_published, their    *)
(* status is not looked at.                                                *)
SeasonEpisodes(s) ==
  {e \in Children({s}) : at[s] = "live" /\ Shown(parent[s]) /\ at[e] = "live" /\ pub[e]}

(* The list of episodes asks for is_published and for the status. *)
ListedEpisodes ==
  {e \in Episode : /\ at[e] = "live" /\ pub[e] /\ status[e] = "PUBLISHED"
                   /\ at[parent[e]] = "live" /\ Shown(parent[parent[e]])}

(* The page of an episode. *)
OnAir(e) ==
  /\ Alive(e) /\ pub[e] /\ status[e] = "PUBLISHED"
  /\ Shown(parent[parent[e]])

-----------------------------------------------------------------------------
(* Properties                                                              *)

(* is_published and the status of an episode are two columns written by    *)
(* six statements, also of requests that overlap; they agree, and a        *)
(* deleted row is withdrawn: unpublished, its episode archived, its media  *)
(* asset inactive.  An update that checked a row before it was deleted and *)
(* writes after is all that can break this, for its own row: a restore     *)
(* then leaves a draft with is_published, until the columns are written    *)
(* together again.                                                         *)
PublicationAgrees ==
  /\ \A e \in Episode \ late : pub[e] <=> status[e] = "PUBLISHED"
  /\ \A n \in Row \ late : at[n] = "deleted" => ~pub[n] /\ status[n] \notin {"DRAFT", "ACTIVE"}

(* "Ordinary authenticated users receive only non-deleted, published,      *)
(* public content": six queries repeat the conditions, each in its own     *)
(* words, and one asks less.  They agree after any history of deleting,    *)
(* moving, publishing, restoring and interruptions, of one request or of   *)
(* several that overlap: what a list shows the pages above it show, and    *)
(* nothing else.  Only an episode written by an update that came after its *)
(* deletion may be on the page of its season and not in the list.          *)
ViewsAgree ==
  /\ ListedSeasons = UNION {DramaSeasons(d) : d \in ListedDramas}
  /\ ListedEpisodes \ late = (UNION {SeasonEpisodes(s) : s \in ListedSeasons}) \ late
  /\ ListedEpisodes = {e \in Episode : OnAir(e)}
=============================================================================
