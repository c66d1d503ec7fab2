-------------------------- MODULE ContentTreeProofs --------------------------
(***************************************************************************)
(* Proofs about ContentTree, for any rows and any number of requests that  *)
(* overlap and are cut off anywhere.                                       *)
(***************************************************************************)
EXTENDS ContentTree, TLAPS

USE RowsDistinct DEF RowsDistinct

-----------------------------------------------------------------------------
(* The inductive invariant                                                 *)

(* A row and its parent. *)
Given == (Season \X Drama) \cup (Episode \X Season) \cup (Media \X Episode)

(* A request works on rows of the kinds its operation is for. *)
Kinds ==
  \A r \in Request :
    /\ req[r].op = "none" => req[r] = Idle
    /\ req[r].op = "create" => <<req[r].item, req[r].to>> \in Given
    /\ req[r].op = "update" =>
         /\ req[r].item \in Row
         /\ req[r].to # None => <<req[r].item, req[r].to>> \in Given
    /\ req[r].op = "restoreMedia" => req[r].item \in Media
    /\ req[r].op = "remove" => req[r].item \in Row
    /\ req[r].pc = "reading" => req[r].op = "remove" /\ req[r].item \in Drama

(* Every row but a drama was inserted below another. *)
Placed ==
  /\ \A n \in Row \ Drama : at[n] # "absent" => parent[n] # None
  /\ \A r \in Request : req[r].op = "restoreMedia" => parent[req[r].item] # None

Shape == TypeOK /\ Kinds /\ Placed

IInv == Shape /\ PublicationAgrees

-----------------------------------------------------------------------------
(* The forest                                                              *)

(* What TypeOK says of a parent. *)
LEMMA ParentKinds ==
  TypeOK => \A n \in Row : \/ parent[n] = None
                           \/ n \in Season /\ parent[n] \in Drama
                           \/ n \in Episode /\ parent[n] \in Season
                           \/ n \in Media /\ parent[n] \in Episode
<1> SUFFICES ASSUME TypeOK, NEW n \in Row
             PROVE  \/ parent[n] = None
                    \/ n \in Season /\ parent[n] \in Drama
                    \/ n \in Episode /\ parent[n] \in Season
                    \/ n \in Media /\ parent[n] \in Episode
  OBVIOUS
<1>1. parent[n] \in CASE n \in Season  -> Drama \cup {None}
                      [] n \in Episode -> Season \cup {None}
                      [] n \in Media   -> Episode \cup {None}
                      [] OTHER         -> {None}
  BY DEF TypeOK
<1> QED
  BY <1>1 DEF Row

(* One step up. *)
LEMMA AncestorsUp ==
  ASSUME TypeOK, NEW n \in Row
  PROVE  Ancestors(n) = IF parent[n] = None THEN {} ELSE {parent[n]} \cup Ancestors(parent[n])
<1> DEFINE Up(S) == {parent[m] : m \in S} \ {None}
           p == parent[n]
           A == Up({p})
<1>1. \A m : Ancestors(m) = Up({m}) \cup Up(Up({m})) \cup Up(Up(Up({m})))
  BY DEF Ancestors
<1>2. CASE p = None
  <2>1. Up({n}) = {} /\ Up({}) = {}
    BY <1>2
  <2> HIDE DEF Up
  <2> QED
    BY <1>1, <1>2, <2>1
<1>3. CASE p # None
  <2>1. Up({n}) = {p}
    BY <1>3
  <2>2. Up(Up(Up({p}))) = {}
    <3>1. p \in Row /\ p \notin Media
      BY <1>3, ParentKinds DEF Row
    <3>2. \A a \in A : a \in Row /\ a \notin Media /\ a \notin Episode
      BY <3>1, ParentKinds DEF Row
    <3>3. \A a \in Up(A) : a \in Drama
      BY <3>2, ParentKinds DEF Row
    <3>4. \A a \in Drama : parent[a] = None
      BY ParentKinds DEF Row
    <3> QED
      BY <3>3, <3>4
  <2>3. Ancestors(n) = {p} \cup Up({p}) \cup Up(Up({p}))
    <3> HIDE DEF Up
    <3> QED
      BY <1>1, <2>1
  <2>4. Ancestors(p) = Up({p}) \cup Up(Up({p}))
    <3> HIDE DEF Up
    <3> QED
      BY <1>1, <2>2
  <2> QED
    BY <1>3, <2>3, <2>4
<1> QED
  BY <1>2, <1>3

LEMMA AliveUp ==
  TypeOK => \A n \in Row : Alive(n) <=> at[n] = "live" /\ (parent[n] = None \/ Alive(parent[n]))
<1> SUFFICES ASSUME TypeOK, NEW n \in Row
             PROVE  Alive(n) <=> at[n] = "live" /\ (parent[n] = None \/ Alive(parent[n]))
  OBVIOUS
<1> QED
  BY AncestorsUp DEF Alive

-----------------------------------------------------------------------------
(* The shapes of a step                                                    *)

Statuses == EpisodeStatus \cup MediaStatus \cup {"none"}

Data == <<at, parent, pub, status, stray, late>>

Others(r) == req' \in [Request -> RequestState] /\ \A q \in Request : q # r => req'[q] = req[q]

Ended(r) == Others(r) /\ req'[r] = Idle

(* A request is accepted, with what it has checked. *)
Begins(r) ==
  /\ Others(r) /\ req[r] = Idle /\ UNCHANGED Data
  /\ \/ /\ req'[r].op = "create" /\ <<req'[r].item, req'[r].to>> \in Given
        /\ at[req'[r].item] = "absent" /\ Alive(req'[r].to)
     \/ /\ req'[r].op = "update" /\ req'[r].item \in Row /\ req'[r].to = None
        /\ at[req'[r].item] = "live" /\ (req'[r].item \notin Media => Alive(req'[r].item))
     \/ /\ req'[r].op = "restoreMedia" /\ req'[r].item \in Media
        /\ at[req'[r].item] = "deleted" /\ Alive(parent[req'[r].item])
     \/ /\ req'[r].op = "remove" /\ req'[r].item \in Row /\ req'[r].snap = Children({req'[r].item})
        /\ \/ req'[r].pc = "reading" /\ req'[r].item \in Drama
           \/ req'[r].pc = "locked" /\ req'[r].item \in Season
  /\ req'[r].pc = "reading" => req'[r].op = "remove"

Moves(r) ==
  /\ Others(r) /\ UNCHANGED Data
  /\ req[r].op = "update" /\ req'[r].op = "update" /\ req'[r].item = req[r].item
  /\ req'[r].pc = req[r].pc
  /\ <<req[r].item, req'[r].to>> \in Given /\ Alive(req'[r].to)

Reads(r) ==
  /\ Others(r) /\ UNCHANGED Data
  /\ req[r].pc = "reading" /\ req'[r].op = req[r].op /\ req'[r].pc = "locked"
  /\ req'[r].item = req[r].item /\ req'[r].to = req[r].to /\ req'[r].ids = req[r].ids
  /\ req'[r].snap = req[r].snap \cup Children(req[r].snap)

(* The row a create request inserts. *)
Inserts(r, st) == Insert(r, st) /\ Ended(r) /\ st \in StatusOf(req[r].item)

(* What an update writes, to its row alone. *)
Writes(r, p, st) ==
  LET n == req[r].item
  IN  /\ Ended(r) /\ req[r].op = "update" /\ UNCHANGED <<at, stray>>
      /\ parent' = [parent EXCEPT ![n] = IF req[r].to = None THEN @ ELSE req[r].to]
      /\ pub' = [pub EXCEPT ![n] = p] /\ status' = [status EXCEPT ![n] = st]
      /\ p \in BOOLEAN /\ st \in StatusOf(n)
      /\ \/ (n \in Episode => (p <=> st = "PUBLISHED")) /\ Rewritten(n)
         \/ p = pub[n] /\ st = status[n] /\ UNCHANGED late

(* Rows are deleted: by a removal, in one statement, by a bulk deletion.   *)
Removes(r, S) ==
  /\ Delete(S) /\ UNCHANGED parent /\ Ended(r)
  /\ req[r].op = "remove" /\ req[r].pc = "locked"
  /\ S = {req[r].item} \cup req[r].snap \cup (Children(req[r].snap) \cap Media)

Drops(S) ==
  /\ Delete(S) /\ UNCHANGED <<parent, req>> /\ CanServe
  /\ \A n \in Row : parent[n] \in S => n \in S

BulkBegins(r, S) ==
  /\ Delete(S) /\ UNCHANGED parent /\ Others(r) /\ req[r] = Idle
  /\ req'[r].op = "bulk" /\ req'[r].pc = "sweeping" /\ req'[r].ids = S /\ req'[r].snap = S

BulkGoesOn(r, S) ==
  /\ Delete(S) /\ UNCHANGED parent /\ Others(r)
  /\ req[r].op = "bulk" /\ S = Children(req[r].snap)
  /\ \/ S \subseteq Media /\ req'[r] = Idle
     \/ /\ req'[r].op = "bulk" /\ req'[r].pc = req[r].pc
        /\ req'[r].ids = req[r].ids /\ req'[r].snap = S

(* Deleted rows are restored, in one statement or by a request. *)
Revives(S) ==
  /\ UNCHANGED <<parent, pub, req, late>> /\ CanServe
  /\ \A n \in S : at[n] = "deleted"
  /\ at' = [n \in Row |-> IF n \in S THEN "live" ELSE at[n]]
  /\ \/ S \subseteq Drama /\ UNCHANGED <<status, stray>>
     \/ S \subseteq Season /\ stray' = stray \cup {s \in S : ~Alive(parent[s])} /\ UNCHANGED status
     \/ /\ S \subseteq Episode /\ \A e \in S : Alive(parent[e])
        /\ status' = [n \in Row |-> IF n \in S THEN "DRAFT" ELSE status[n]]
        /\ UNCHANGED stray

RevivesMedia(r) == RestoreMedia(r) /\ Ended(r)

Publishes(S, p) ==
  /\ S \subseteq Drama \/ S \subseteq Episode
  /\ \A n \in S : at[n] = "live"
  /\ pub' = [n \in Row |-> IF n \in S THEN p ELSE pub[n]]
  /\ status' = [n \in Row |-> IF n \notin S \cap Episode THEN status[n]
                              ELSE IF p THEN "PUBLISHED" ELSE "DRAFT"]
  /\ late' = late \ S
  /\ UNCHANGED <<at, parent, req, stray>>

Dies(r) == Crash(r) /\ Ended(r)

Step ==
  \/ \E r \in Request :
       \/ Begins(r) \/ Moves(r) \/ Reads(r) \/ RevivesMedia(r) \/ Dies(r)
       \/ \E st \in Statuses : Inserts(r, st)
       \/ \E st \in Statuses, p \in BOOLEAN : Writes(r, p, st)
       \/ \E S \in SUBSET Row : Removes(r, S) \/ BulkBegins(r, S) \/ BulkGoesOn(r, S)
  \/ \E S \in SUBSET Row : Drops(S) \/ Revives(S) \/ \E p \in BOOLEAN : Publishes(S, p)
  \/ \E d \in Drama, p \in BOOLEAN : CreateDrama(d, p)
  \/ UNCHANGED vars

-----------------------------------------------------------------------------
(* Every step has one of the shapes                                        *)

LEMMA IdleTyped ==
  /\ Idle \in RequestState /\ Idle.op = "none" /\ Idle.pc = "idle" /\ Idle.to = None
  /\ Idle.ids = {} /\ Idle.snap = {}
BY DEF Idle, RequestState

LEMMA FinishEnds == ASSUME TypeOK, NEW r \in Request, Finish(r) PROVE Ended(r)
BY IdleTyped DEF Finish, Ended, Others, TypeOK

(* A request is given the state y. *)
LEMMA Becomes ==
  ASSUME TypeOK, NEW r \in Request, NEW y \in RequestState, req' = [req EXCEPT ![r] = y]
  PROVE  Others(r) /\ req'[r] = y
BY DEF Others, TypeOK

LEMMA BeginShapes ==
  ASSUME TypeOK, NEW r \in Request,
         \/ \E n, p \in Row : <<n, p>> \in Given /\ CreateCheck(r, n, p)
         \/ \E n \in Row : UpdateCheck(r, n) \/ RemoveDrama(r, n) \/ RemoveSeason(r, n)
         \/ \E m \in Media : RestoreMediaCheck(r, m)
  PROVE  Begins(r)
<1>1. ASSUME NEW n \in Row, NEW p \in Row, <<n, p>> \in Given, CreateCheck(r, n, p) PROVE Begins(r)
  <2> DEFINE y == [Idle EXCEPT !.op = "create", !.pc = "checked", !.item = n, !.to = p]
  <2>1. y \in RequestState /\ y.op = "create" /\ y.pc = "checked" /\ y.item = n /\ y.to = p
    BY <1>1 DEF Idle, RequestState
  <2>2. /\ req' = [req EXCEPT ![r] = y] /\ req[r] = Idle /\ at[n] = "absent" /\ Alive(p)
        /\ UNCHANGED Data
    BY <1>1 DEF CreateCheck, Data
  <2> HIDE DEF y
  <2> QED
    BY <1>1, <2>1, <2>2, Becomes DEF Begins
<1>2. ASSUME NEW n \in Row, UpdateCheck(r, n) PROVE Begins(r)
  <2> DEFINE y == [Idle EXCEPT !.op = "update", !.pc = "checked", !.item = n]
  <2>1. y \in RequestState /\ y.op = "update" /\ y.pc = "checked" /\ y.item = n /\ y.to = None
    BY DEF Idle, RequestState
  <2>2. /\ req' = [req EXCEPT ![r] = y] /\ req[r] = Idle /\ UNCHANGED Data
        /\ at[n] = "live" /\ (n \notin Media => Alive(n))
    BY <1>2 DEF UpdateCheck, Data, Alive
  <2> HIDE DEF y
  <2> QED
    BY <2>1, <2>2, Becomes DEF Begins
<1>3. ASSUME NEW n \in Row, RemoveDrama(r, n) \/ RemoveSeason(r, n) PROVE Begins(r)
  <2> DEFINE y == [Idle EXCEPT !.op = "remove", !.pc = IF n \in Drama THEN "reading" ELSE "locked",
                               !.item = n, !.ids = {n}, !.snap = Children({n})]
  <2>1. /\ y \in RequestState /\ y.op = "remove" /\ y.item = n /\ y.snap = Children({n})
        /\ y.pc = IF n \in Drama THEN "reading" ELSE "locked"
    BY DEF Idle, RequestState, Children
  <2>2. /\ req' = [req EXCEPT ![r] = y] /\ req[r] = Idle /\ UNCHANGED Data
        /\ n \in Drama \/ n \in Season
    BY <1>3 DEF RemoveDrama, RemoveSeason, RemoveBegin, Data
  <2> HIDE DEF y
  <2> QED
    BY <2>1, <2>2, Becomes DEF Begins
<1>4. ASSUME NEW m \in Media, RestoreMediaCheck(r, m) PROVE Begins(r)
  <2> DEFINE y == [Idle EXCEPT !.op = "restoreMedia", !.pc = "checked", !.item = m]
  <2>1. y \in RequestState /\ y.op = "restoreMedia" /\ y.pc = "checked" /\ y.item = m
    BY DEF Idle, RequestState, Row
  <2>2. /\ req' = [req EXCEPT ![r] = y] /\ req[r] = Idle /\ UNCHANGED Data
        /\ at[m] = "deleted" /\ Alive(parent[m])
    BY <1>4 DEF RestoreMediaCheck, Data
  <2> HIDE DEF y
  <2> QED
    BY <2>1, <2>2, Becomes DEF Begins
<1> QED
  BY <1>1, <1>2, <1>3, <1>4

LEMMA MoveShape ==
  ASSUME TypeOK, NEW r \in Request, NEW p \in Row, MoveCheck(r, p)
  PROVE  Moves(r)
<1> DEFINE y == [req[r] EXCEPT !.to = p]
<1>1. req \in [Request -> RequestState] /\ req' = [req EXCEPT ![r] = y]
  BY DEF TypeOK, MoveCheck
<1>2. y \in RequestState /\ y.op = req[r].op /\ y.pc = req[r].pc /\ y.item = req[r].item /\ y.to = p
  BY <1>1 DEF RequestState
<1>3. req[r].op = "update" /\ <<req[r].item, p>> \in Given /\ Alive(p) /\ UNCHANGED Data
  BY DEF MoveCheck, Given, Data
<1> HIDE DEF y
<1> QED
  BY <1>1, <1>2, <1>3, Becomes DEF Moves

LEMMA ReadShape ==
  ASSUME TypeOK, NEW r \in Request, RemoveRead(r)
  PROVE  Reads(r)
<1> DEFINE s == req[r].snap \cup Children(req[r].snap)
           y == [[req[r] EXCEPT !.pc = "locked"] EXCEPT !.snap = s]
<1>1. req \in [Request -> RequestState] /\ req' = [req EXCEPT ![r] = y]
  BY DEF TypeOK, RemoveRead
<1>2. s \in SUBSET Row
  BY <1>1 DEF Children, RequestState
<1> HIDE DEF s
<1>3. /\ y \in RequestState /\ y.op = req[r].op /\ y.pc = "locked" /\ y.item = req[r].item
      /\ y.to = req[r].to /\ y.ids = req[r].ids /\ y.snap = s
  BY <1>1, <1>2 DEF RequestState
<1> HIDE DEF y
<1>4. req[r].pc = "reading" /\ UNCHANGED Data
  BY DEF RemoveRead, Data
<1> QED
  BY <1>1, <1>3, <1>4, Becomes DEF Reads, s

(* The kinds of rows, as the types of their statuses see them. *)
LEMMA StatusKinds ==
  /\ \A n \in Episode : StatusOf(n) = EpisodeStatus
  /\ \A n \in Media : StatusOf(n) = MediaStatus
  /\ \A n \in Drama \cup Season : StatusOf(n) = {"none"}
  /\ \A n \in Row : StatusOf(n) \subseteq Statuses
BY DEF StatusOf, Row, Statuses

LEMMA InsertShape ==
  ASSUME TypeOK, NEW r \in Request,
         \/ CreateSeason(r)
         \/ \E st \in EpisodeStatus \cup {"none"} : CreateEpisode(r, st)
         \/ \E st \in MediaStatus : CreateMedia(r, st)
  PROVE  \E st \in Statuses : Inserts(r, st)
<1>1. ASSUME NEW st, Insert(r, st), st \in StatusOf(req[r].item), req[r].item \in Row
      PROVE  \E s \in Statuses : Inserts(r, s)
  <2>1. Finish(r)
    BY <1>1 DEF Insert
  <2> QED
    BY <1>1, <2>1, FinishEnds, StatusKinds DEF Inserts
<1>2. CASE CreateSeason(r)
  BY <1>1, <1>2, StatusKinds DEF CreateSeason, Row
<1>3. ASSUME NEW st \in EpisodeStatus \cup {"none"}, CreateEpisode(r, st)
      PROVE  \E s \in Statuses : Inserts(r, s)
  BY <1>1, <1>3, StatusKinds DEF CreateEpisode, Row
<1>4. ASSUME NEW st \in MediaStatus, CreateMedia(r, st)
      PROVE  \E s \in Statuses : Inserts(r, s)
  BY <1>1, <1>4, StatusKinds DEF CreateMedia, Row
<1> QED
  BY <1>2, <1>3, <1>4

LEMMA WriteShape ==
  ASSUME TypeOK, Kinds, NEW r \in Request,
         \/ UpdateSeason(r)
         \/ \E p \in BOOLEAN : UpdateDrama(r, p)
         \/ \E st \in EpisodeStatus \cup {"none"} : UpdateEpisode(r, st)
         \/ \E st \in MediaStatus : UpdateMedia(r, st)
  PROVE  \E st \in Statuses, p \in BOOLEAN : Writes(r, p, st)
<1> DEFINE n == req[r].item
<1>1. Write(r)
  BY DEF UpdateSeason, UpdateDrama, UpdateEpisode, UpdateMedia
<1>2. /\ Ended(r) /\ req[r].op = "update" /\ UNCHANGED <<at, stray>>
      /\ parent' = [parent EXCEPT ![n] = IF req[r].to = None THEN @ ELSE req[r].to]
  BY <1>1, FinishEnds DEF Write
<1>3. n \in Row
  BY <1>2 DEF Kinds
<1> HIDE DEF n
<1>4. pub = [pub EXCEPT ![n] = pub[n]] /\ status = [status EXCEPT ![n] = status[n]]
  BY <1>3 DEF TypeOK
<1>5. pub[n] \in BOOLEAN /\ status[n] \in StatusOf(n) /\ StatusOf(n) \subseteq Statuses
  BY <1>3, StatusKinds DEF TypeOK
<1>6. ASSUME NEW p \in BOOLEAN, NEW st \in StatusOf(n),
             pub' = [pub EXCEPT ![n] = p], status' = [status EXCEPT ![n] = st],
             \/ (n \in Episode => (p <=> st = "PUBLISHED")) /\ Rewritten(n)
             \/ p = pub[n] /\ st = status[n] /\ UNCHANGED late
      PROVE  \E s \in Statuses, q \in BOOLEAN : Writes(r, q, s)
  BY <1>2, <1>5, <1>6 DEF Writes, n
<1>7. CASE UpdateSeason(r)
  <2>1. pub' = pub /\ status' = status /\ late' = late
    BY <1>7 DEF UpdateSeason
  <2> QED
    BY <1>4, <1>5, <1>6, <2>1
<1>8. ASSUME NEW p \in BOOLEAN, UpdateDrama(r, p) PROVE \E s \in Statuses, q \in BOOLEAN : Writes(r, q, s)
  <2>1. /\ n \in Drama /\ n \notin Episode /\ pub' = [pub EXCEPT ![n] = p] /\ status' = status
        /\ Rewritten(n)
    BY <1>8 DEF UpdateDrama, n
  <2> QED
    BY <1>4, <1>5, <1>6, <2>1
<1>9. ASSUME NEW st \in EpisodeStatus \cup {"none"}, UpdateEpisode(r, st)
      PROVE  \E s \in Statuses, q \in BOOLEAN : Writes(r, q, s)
  <2>1. n \in Episode
    BY <1>9 DEF UpdateEpisode, n
  <2>2. CASE st = "none"
    BY <1>4, <1>5, <1>6, <1>9, <2>2 DEF UpdateEpisode
  <2>3. CASE st # "none"
    <3>1. /\ status' = [status EXCEPT ![n] = st] /\ pub' = [pub EXCEPT ![n] = (st = "PUBLISHED")]
          /\ Rewritten(n)
      BY <1>9, <2>3 DEF UpdateEpisode, n
    <3>2. st \in StatusOf(n) /\ (st = "PUBLISHED") \in BOOLEAN
      BY <2>1, <2>3, StatusKinds
    <3> QED
      BY <1>6, <3>1, <3>2
  <2> QED
    BY <2>2, <2>3
<1>10. ASSUME NEW st \in MediaStatus, UpdateMedia(r, st)
       PROVE  \E s \in Statuses, q \in BOOLEAN : Writes(r, q, s)
  <2>1. /\ n \in Media /\ n \notin Episode /\ status' = [status EXCEPT ![n] = st] /\ pub' = pub
        /\ Rewritten(n)
    BY <1>10 DEF UpdateMedia, n
  <2> QED
    BY <1>4, <1>5, <1>6, <2>1, StatusKinds
<1> QED
  BY <1>7, <1>8, <1>9, <1>10

LEMMA RemoveShape ==
  ASSUME TypeOK, Kinds, NEW r \in Request, RemoveCommit(r)
  PROVE  \E S \in SUBSET Row : Removes(r, S)
<1> DEFINE S == {req[r].item} \cup req[r].snap \cup (Children(req[r].snap) \cap Media)
<1>1. /\ req[r].op = "remove" /\ req[r].pc = "locked" /\ Delete(S) /\ Finish(r) /\ UNCHANGED parent
  BY DEF RemoveCommit
<1>2. S \in SUBSET Row
  <2>1. req[r].item \in Row /\ req[r].snap \in SUBSET Row
    BY <1>1 DEF Kinds, TypeOK, RequestState
  <2> QED
    BY <2>1 DEF Children
<1>3. S = {req[r].item} \cup req[r].snap \cup (Children(req[r].snap) \cap Media)
  OBVIOUS
<1> HIDE DEF S
<1>4. Removes(r, S)
  BY <1>1, <1>3, FinishEnds DEF Removes
<1> QED
  BY <1>2, <1>4

LEMMA DropShape ==
  ASSUME TypeOK, (\E e \in Episode : RemoveEpisode(e)) \/ (\E m \in Media : RemoveMedia(m))
  PROVE  \E S \in SUBSET Row : Drops(S)
<1>1. ASSUME NEW S \in SUBSET Row, Delete(S), UNCHANGED <<parent, req>>, CanServe,
             \A n \in Row : parent[n] \in S => n \in S
      PROVE  \E T \in SUBSET Row : Drops(T)
  BY <1>1 DEF Drops
<1>2. ASSUME NEW e \in Episode, RemoveEpisode(e) PROVE \E T \in SUBSET Row : Drops(T)
  <2> DEFINE S == {e} \cup Children({e})
  <2>1. S \in SUBSET Row /\ \A n \in Row : parent[n] \in S => n \in S
    BY ParentKinds DEF Children, Row
  <2>2. Delete(S) /\ CanServe /\ UNCHANGED <<parent, req>>
    BY <1>2 DEF RemoveEpisode
  <2> HIDE DEF S
  <2> QED
    BY <1>1, <2>1, <2>2
<1>3. ASSUME NEW m \in Media, RemoveMedia(m) PROVE \E T \in SUBSET Row : Drops(T)
  <2>1. {m} \in SUBSET Row /\ \A n \in Row : parent[n] \in {m} => n \in {m}
    BY ParentKinds DEF Row
  <2>2. Delete({m}) /\ CanServe /\ UNCHANGED <<parent, req>>
    BY <1>3 DEF RemoveMedia
  <2> QED
    BY <1>1, <2>1, <2>2
<1> QED
  BY <1>2, <1>3

LEMMA BulkShape ==
  ASSUME TypeOK, NEW r \in Request,
         \/ \E ids \in SUBSET Row : BulkDelete(r, ids)
         \/ BulkNext(r)
  PROVE  \E S \in SUBSET Row : BulkBegins(r, S) \/ BulkGoesOn(r, S)
<1>1. ASSUME NEW ids \in SUBSET Row, BulkDelete(r, ids) PROVE BulkBegins(r, ids)
  <2> DEFINE y == [Idle EXCEPT !.op = "bulk", !.pc = "sweeping", !.ids = ids, !.snap = ids]
  <2>1. y \in RequestState /\ y.op = "bulk" /\ y.pc = "sweeping" /\ y.ids = ids /\ y.snap = ids
    BY DEF Idle, RequestState
  <2>2. req' = [req EXCEPT ![r] = y] /\ req[r] = Idle /\ Delete(ids) /\ UNCHANGED parent
    BY <1>1 DEF BulkDelete
  <2> HIDE DEF y
  <2> QED
    BY <2>1, <2>2, Becomes DEF BulkBegins
<1>2. CASE BulkNext(r)
  <2> DEFINE S == Children(req[r].snap)
             y == [req[r] EXCEPT !.snap = S]
  <2>1. S \in SUBSET Row /\ req \in [Request -> RequestState]
    BY DEF Children, TypeOK
  <2>2. /\ req[r].op = "bulk" /\ Delete(S) /\ UNCHANGED parent
        /\ req' = [req EXCEPT ![r] = IF S \subseteq Media THEN Idle ELSE y]
    BY <1>2, <2>1 DEF BulkNext
  <2>3. S = Children(req[r].snap)
    OBVIOUS
  <2> HIDE DEF S
  <2>4. y \in RequestState /\ y.op = req[r].op /\ y.pc = req[r].pc /\ y.ids = req[r].ids /\ y.snap = S
    BY <2>1 DEF RequestState
  <2> HIDE DEF y
  <2>5. CASE S \subseteq Media
    <3>1. Others(r) /\ req'[r] = Idle
      BY <2>2, <2>5, IdleTyped, Becomes
    <3> QED
      BY <2>1, <2>2, <2>3, <2>5, <3>1 DEF BulkGoesOn
  <2>6. CASE ~(S \subseteq Media)
    <3>1. Others(r) /\ req'[r] = y
      BY <2>2, <2>4, <2>6, Becomes
    <3> QED
      BY <2>1, <2>2, <2>3, <2>4, <3>1 DEF BulkGoesOn
  <2> QED
    BY <2>5, <2>6
<1> QED
  BY <1>1, <1>2

LEMMA ReviveShape ==
  ASSUME TypeOK, Restored
  PROVE  \E S \in SUBSET Row : Revives(S)
<1>1. ASSUME NEW ids \in SUBSET Drama, RestoreDramas(ids) PROVE \E S \in SUBSET Row : Revives(S)
  <2> DEFINE S == {d \in ids : at[d] = "deleted"}
  <2>1. S \in SUBSET Row /\ S \subseteq Drama /\ \A n \in S : at[n] = "deleted"
    BY DEF Row
  <2>2. Revive(S) /\ UNCHANGED <<status, stray>>
    BY <1>1 DEF RestoreDramas
  <2> HIDE DEF S
  <2> QED
    BY <2>1, <2>2 DEF Revive, Revives
<1>2. ASSUME NEW ids \in SUBSET Season, RestoreSeasons(ids) PROVE \E S \in SUBSET Row : Revives(S)
  <2> DEFINE S == {s \in ids : at[s] = "deleted"}
  <2>1. S \in SUBSET Row /\ S \subseteq Season /\ \A n \in S : at[n] = "deleted"
    BY DEF Row
  <2>2. Revive(S) /\ UNCHANGED status /\ stray' = stray \cup {s \in S : ~Alive(parent[s])}
    BY <1>2 DEF RestoreSeasons
  <2> HIDE DEF S
  <2> QED
    BY <2>1, <2>2 DEF Revive, Revives
<1>3. ASSUME NEW ids \in SUBSET Episode, RestoreEpisodes(ids) PROVE \E S \in SUBSET Row : Revives(S)
  <2> DEFINE S == {e \in ids : at[e] = "deleted" /\ Alive(parent[e])}
  <2>1. /\ S \in SUBSET Row /\ S \subseteq Episode
        /\ \A n \in S : at[n] = "deleted" /\ Alive(parent[n])
    BY DEF Row
  <2>2. /\ Revive(S) /\ UNCHANGED stray
        /\ status' = [n \in Row |-> IF n \in S THEN "DRAFT" ELSE status[n]]
    BY <1>3 DEF RestoreEpisodes
  <2> HIDE DEF S
  <2> QED
    BY <2>1, <2>2 DEF Revive, Revives
<1> QED
  BY <1>1, <1>2, <1>3 DEF Restored

LEMMA PublishShape ==
  ASSUME NEW p \in BOOLEAN,
         \/ \E ids \in SUBSET Drama : PublishDramas(ids, p)
         \/ \E ids \in SUBSET Episode : PublishEpisodes(ids, p)
  PROVE  \E S \in SUBSET Row : Publishes(S, p)
<1>1. ASSUME NEW S \in SUBSET Row, S \subseteq Drama \/ S \subseteq Episode,
             \A n \in S : at[n] = "live", Publish(S, p)
      PROVE  Publishes(S, p)
  BY <1>1 DEF Publish, Publishes
<1>2. ASSUME NEW ids \in SUBSET Drama, PublishDramas(ids, p) PROVE \E S \in SUBSET Row : Publishes(S, p)
  <2> DEFINE S == {d \in ids : at[d] = "live"}
  <2>1. S \in SUBSET Row /\ S \subseteq Drama /\ \A n \in S : at[n] = "live"
    BY DEF Row
  <2>2. Publish(S, p)
    BY <1>2 DEF PublishDramas
  <2> HIDE DEF S
  <2> QED
    BY <1>1, <2>1, <2>2
<1>3. ASSUME NEW ids \in SUBSET Episode, PublishEpisodes(ids, p) PROVE \E S \in SUBSET Row : Publishes(S, p)
  <2> DEFINE S == {e \in ids : Alive(e)}
  <2>1. S \in SUBSET Row /\ S \subseteq Episode /\ \A n \in S : at[n] = "live"
    BY DEF Row, Alive
  <2>2. Publish(S, p)
    BY <1>3 DEF PublishEpisodes
  <2> HIDE DEF S
  <2> QED
    BY <1>1, <2>1, <2>2
<1> QED
  BY <1>2, <1>3

LEMMA Shapes ==
  ASSUME TypeOK, Kinds, [Next]_vars
  PROVE  Step
<1> USE DEF Step
<1>1. ASSUME NEW r \in Request, Requested(r) PROVE Step
  <2>1. CASE \/ \E n, p \in Row : <<n, p>> \in Given /\ CreateCheck(r, n, p)
             \/ \E n \in Row : UpdateCheck(r, n) \/ RemoveDrama(r, n) \/ RemoveSeason(r, n)
             \/ \E m \in Media : RestoreMediaCheck(r, m)
    BY <2>1, BeginShapes
  <2>2. CASE \E n \in Row : MoveCheck(r, n)
    BY <2>2, MoveShape
  <2>3. CASE \E ids \in SUBSET Row : BulkDelete(r, ids)
    BY <2>3, BulkShape
  <2>4. \/ \E n, p \in Row : <<n, p>> \in Given /\ CreateCheck(r, n, p)
        \/ \E n \in Row : UpdateCheck(r, n) \/ RemoveDrama(r, n) \/ RemoveSeason(r, n)
        \/ \E m \in Media : RestoreMediaCheck(r, m)
        \/ \E n \in Row : MoveCheck(r, n)
        \/ \E ids \in SUBSET Row : BulkDelete(r, ids)
    BY <1>1 DEF Requested, Given, Row, BulkDeleteDramas, BulkDeleteSeasons, BulkDeleteEpisodes
  <2> QED
    BY <2>1, <2>2, <2>3, <2>4
<1>2. ASSUME NEW r \in Request, Served(r) PROVE Step
  <2>1. CASE \/ CreateSeason(r)
             \/ \E st \in EpisodeStatus \cup {"none"} : CreateEpisode(r, st)
             \/ \E st \in MediaStatus : CreateMedia(r, st)
    BY <2>1, InsertShape
  <2>2. CASE \/ UpdateSeason(r)
             \/ \E p \in BOOLEAN : UpdateDrama(r, p)
             \/ \E st \in EpisodeStatus \cup {"none"} : UpdateEpisode(r, st)
             \/ \E st \in MediaStatus : UpdateMedia(r, st)
    BY <2>2, WriteShape
  <2>3. CASE RemoveRead(r)
    BY <2>3, ReadShape
  <2>4. CASE RemoveCommit(r)
    BY <2>4, RemoveShape
  <2>5. CASE BulkNext(r)
    BY <2>5, BulkShape
  <2>6. CASE RestoreMedia(r)
    BY <2>6, FinishEnds DEF RestoreMedia, RevivesMedia
  <2> QED
    BY <1>2, <2>1, <2>2, <2>3, <2>4, <2>5, <2>6 DEF Served
<1>3. ASSUME NEW r \in Request, Crash(r) PROVE Step
  BY <1>3, FinishEnds DEF Crash, Dies
<1>4. CASE (\E e \in Episode : RemoveEpisode(e)) \/ (\E m \in Media : RemoveMedia(m))
  BY <1>4, DropShape
<1>5. CASE Restored
  BY <1>5, ReviveShape
<1>6. CASE \/ \E ids \in SUBSET Drama, p \in BOOLEAN : PublishDramas(ids, p)
           \/ \E ids \in SUBSET Episode, p \in BOOLEAN : PublishEpisodes(ids, p)
  BY <1>6, PublishShape
<1>7. CASE \E d \in Drama, p \in BOOLEAN : CreateDrama(d, p)
  BY <1>7
<1> HIDE DEF Step
<1>8. CASE UNCHANGED vars
  BY <1>8 DEF Step
<1> QED
  BY <1>1, <1>2, <1>3, <1>4, <1>5, <1>6, <1>7, <1>8 DEF Next

-----------------------------------------------------------------------------
(* Types, for any requests                                                 *)

(* What Delete does. *)
LEMMA DeleteSays ==
  ASSUME TypeOK, NEW S \in SUBSET Row, Delete(S)
  PROVE  /\ at' \in [Row -> {"absent", "live", "deleted"}]
         /\ pub' \in [Row -> BOOLEAN] /\ status' \in [Row -> Statuses]
         /\ stray' = stray \ {n \in S : at[n] = "live"}
         /\ late' = late \ {n \in S : at[n] = "live"}
         /\ \A n \in Row :
              IF n \in S /\ at[n] = "live"
              THEN /\ at'[n] = "deleted" /\ ~pub'[n]
                   /\ status'[n] = IF n \in Episode THEN "ARCHIVED"
                                   ELSE IF n \in Media THEN "INACTIVE" ELSE status[n]
              ELSE at'[n] = at[n] /\ pub'[n] = pub[n] /\ status'[n] = status[n]
<1> DEFINE hit == {n \in S : at[n] = "live"}
<1>1. /\ at' = [n \in Row |-> IF n \in hit THEN "deleted" ELSE at[n]]
      /\ pub' = [n \in Row |-> pub[n] /\ n \notin hit]
      /\ status' = [n \in Row |-> CASE n \in hit \cap Episode -> "ARCHIVED"
                                    [] n \in hit \cap Media   -> "INACTIVE"
                                    [] OTHER                  -> status[n]]
      /\ stray' = stray \ hit /\ late' = late \ hit
  BY DEF Delete
<1>2. \A n \in Row : n \in hit <=> n \in S /\ at[n] = "live"
  OBVIOUS
<1> HIDE DEF hit
<1>3. \A n \in Row : status'[n] = IF n \in hit /\ n \in Episode THEN "ARCHIVED"
                                  ELSE IF n \in hit /\ n \in Media THEN "INACTIVE" ELSE status[n]
  BY <1>1
<1>4. status' \in [Row -> Statuses]
  <2>1. \A n \in Row : status'[n] \in Statuses
    BY <1>3 DEF TypeOK, Statuses, EpisodeStatus, MediaStatus
  <2>2. status' = [n \in Row |-> status'[n]]
    BY <1>1
  <2> QED
    BY <2>1, <2>2
<1>5. \A n \in Row : pub'[n] = (pub[n] /\ n \notin hit)
  BY <1>1
<1>6. pub' \in [Row -> BOOLEAN] /\ at' \in [Row -> {"absent", "live", "deleted"}]
  BY <1>1 DEF TypeOK
<1>7. \A n \in Row : at'[n] = IF n \in hit THEN "deleted" ELSE at[n]
  BY <1>1
<1>8. \A n \in Row : n \notin hit => pub'[n] = pub[n]
  BY <1>5 DEF TypeOK
<1> QED
  BY <1>1, <1>2, <1>3, <1>4, <1>5, <1>6, <1>7, <1>8 DEF hit

LEMMA DeleteTyped ==
  ASSUME Shape, NEW S \in SUBSET Row, Delete(S), UNCHANGED parent, req' \in [Request -> RequestState]
  PROVE  TypeOK' /\ \A n \in Row \ Drama : at'[n] # "absent" => parent'[n] # None
<1>1. TypeOK
  BY DEF Shape
<1>2. \A n \in Row : status'[n] \in StatusOf(n)
  BY <1>1, DeleteSays, StatusKinds DEF TypeOK, EpisodeStatus, MediaStatus
<1>3. TypeOK'
  BY <1>1, <1>2, DeleteSays DEF TypeOK, Statuses
<1>4. \A n \in Row \ Drama : at'[n] # "absent" => parent'[n] # None
  BY <1>1, DeleteSays DEF Shape, Placed, Row
<1> QED
  BY <1>3, <1>4

(* A request that does not begin keeps to its kind, or ends. *)
LEMMA KindsStep ==
  ASSUME Shape, Step
  PROVE  Kinds'
<1> USE DEF Shape
<1>1. ASSUME NEW r \in Request, Ended(r) PROVE Kinds'
  BY <1>1, IdleTyped DEF Kinds, Ended, Others
<1>2. ASSUME NEW r \in Request, Begins(r) PROVE Kinds'
  BY <1>2, IdleTyped DEF Kinds, Begins, Others
<1>3. ASSUME NEW r \in Request, Moves(r) \/ Reads(r) PROVE Kinds'
  <2>1. CASE Moves(r)
    BY <2>1 DEF Kinds, Moves, Others
  <2>2. CASE Reads(r)
    BY <2>2, IdleTyped DEF Kinds, Reads, Others
  <2> QED
    BY <1>3, <2>1, <2>2
<1>4. ASSUME NEW r \in Request, NEW S, BulkBegins(r, S) \/ BulkGoesOn(r, S) PROVE Kinds'
  BY <1>4, IdleTyped DEF Kinds, BulkBegins, BulkGoesOn, Others
<1>5. CASE req' = req
  BY <1>5 DEF Kinds
<1> QED
  BY <1>1, <1>2, <1>3, <1>4, <1>5 DEF Step, Inserts, Writes, Removes, Drops, Revives, RevivesMedia,
     Publishes, Dies, CreateDrama, vars

(* Whose restore of a media asset is to be written. *)
Restorers ==
  \A r \in Request : req'[r].op = "restoreMedia" =>
    \/ req[r].op = "restoreMedia" /\ req'[r].item = req[r].item
    \/ req'[r].item \in Media /\ at[req'[r].item] = "deleted"

LEMMA RequestsTyped ==
  ASSUME Shape, Step
  PROVE  req' \in [Request -> RequestState] /\ Restorers
<1> USE DEF Shape, Restorers
<1>1. ASSUME NEW r \in Request, Ended(r) PROVE req' \in [Request -> RequestState] /\ Restorers
  BY <1>1, IdleTyped DEF Ended, Others
<1>2. ASSUME NEW r \in Request, Begins(r) PROVE req' \in [Request -> RequestState] /\ Restorers
  BY <1>2 DEF Begins, Others
<1>3. ASSUME NEW r \in Request, Moves(r) \/ Reads(r)
      PROVE  req' \in [Request -> RequestState] /\ Restorers
  BY <1>3 DEF Moves, Reads, Others
<1>4. ASSUME NEW r \in Request, NEW S, BulkBegins(r, S) \/ BulkGoesOn(r, S)
      PROVE  req' \in [Request -> RequestState] /\ Restorers
  BY <1>4, IdleTyped DEF BulkBegins, BulkGoesOn, Others
<1>5. CASE req' = req
  BY <1>5 DEF TypeOK
<1> QED
  BY <1>1, <1>2, <1>3, <1>4, <1>5 DEF Step, Inserts, Writes, Removes, Drops, Revives, RevivesMedia,
     Publishes, Dies, CreateDrama, vars

(* Rows below None are dramas, or were never inserted. *)
PlacedRows == \A n \in Row \ Drama : at[n] # "absent" => parent[n] # None

(* A row is given a parent of the right kind. *)
LEMMA ParentTyped ==
  ASSUME TypeOK, NEW n, NEW p, <<n, p>> \in Given, parent' = [parent EXCEPT ![n] = p]
  PROVE  /\ \A m \in Row : parent'[m] = IF m = n THEN p ELSE parent[m]
         /\ n \in Row /\ p \in Row /\ p # None
         /\ parent' \in [Row -> Row \cup {None}]
         /\ \A m \in Row : parent'[m] \in CASE m \in Season  -> Drama \cup {None}
                                            [] m \in Episode -> Season \cup {None}
                                            [] m \in Media   -> Episode \cup {None}
                                            [] OTHER         -> {None}
<1>1. \/ n \in Season /\ p \in Drama
      \/ n \in Episode /\ p \in Season
      \/ n \in Media /\ p \in Episode
  BY DEF Given
<1>2. n \in Row /\ p \in Row /\ p # None
  BY <1>1 DEF Row
<1>3. \A m \in Row : parent'[m] = IF m = n THEN p ELSE parent[m]
  BY <1>2 DEF TypeOK
<1>4. \A m \in Row : parent[m] \in CASE m \in Season  -> Drama \cup {None}
                                     [] m \in Episode -> Season \cup {None}
                                     [] m \in Media   -> Episode \cup {None}
                                     [] OTHER         -> {None}
  BY DEF TypeOK
<1>5. parent' \in [Row -> Row \cup {None}]
  BY <1>2 DEF TypeOK
<1> QED
  BY <1>1, <1>2, <1>3, <1>4, <1>5

(* What the steps do to the rows. *)
LEMMA RowsTyped ==
  ASSUME Shape, Step
  PROVE  /\ TypeOK' /\ PlacedRows'
         /\ \A n \in Row : parent'[n] = parent[n] \/ parent'[n] # None
<1> USE DEF Shape
<1> DEFINE Goal == /\ TypeOK' /\ PlacedRows'
                   /\ \A n \in Row : parent'[n] = parent[n] \/ parent'[n] # None
<1>r. req' \in [Request -> RequestState]
  BY RequestsTyped
<1>p. PlacedRows
  BY DEF Placed, PlacedRows
<1>1. ASSUME UNCHANGED <<at, parent, pub, status, late>>, stray' \in SUBSET Row PROVE Goal
  BY <1>1, <1>r, <1>p DEF TypeOK, PlacedRows
<1>2. ASSUME NEW S \in SUBSET Row, Delete(S), UNCHANGED parent PROVE Goal
  BY <1>2, <1>r, DeleteTyped DEF PlacedRows
<1>3. ASSUME NEW r \in Request, NEW st \in Statuses, Inserts(r, st) PROVE Goal
  <2> DEFINE n == req[r].item
             p == req[r].to
  <2>1. /\ <<n, p>> \in Given /\ st \in StatusOf(n)
        /\ at' = [at EXCEPT ![n] = "live"] /\ parent' = [parent EXCEPT ![n] = p]
        /\ status' = [status EXCEPT ![n] = st] /\ pub' = [pub EXCEPT ![n] = (st = "PUBLISHED")]
        /\ UNCHANGED <<stray, late>>
    BY <1>3 DEF Inserts, Insert, Kinds
  <2> HIDE DEF n, p
  <2>2. n \in Row /\ p \in Row /\ p # None
    BY <2>1 DEF Given, Row
  <2>3. \A m \in Row : status'[m] \in StatusOf(m)
    BY <2>1, <2>2 DEF TypeOK
  <2>4. /\ at' \in [Row -> {"absent", "live", "deleted"}] /\ parent' \in [Row -> Row \cup {None}]
        /\ pub' \in [Row -> BOOLEAN] /\ status' \in [Row -> Statuses]
        /\ stray' \in SUBSET Row /\ late' \in SUBSET Row
    BY <2>1, <2>2 DEF TypeOK, Statuses
  <2>7. TypeOK'
    BY <1>r, <2>1, <2>3, <2>4, ParentTyped DEF TypeOK, Statuses
  <2>8. PlacedRows'
    BY <1>p, <2>1, <2>2, ParentTyped DEF PlacedRows, TypeOK
  <2> QED
    BY <2>1, <2>2, <2>7, <2>8, ParentTyped
<1>4. ASSUME NEW r \in Request, NEW st \in Statuses, NEW p \in BOOLEAN, Writes(r, p, st) PROVE Goal
  <2> DEFINE n == req[r].item
             t == req[r].to
  <2>1. /\ n \in Row /\ (t # None => <<n, t>> \in Given) /\ st \in StatusOf(n)
        /\ UNCHANGED <<at, stray>> /\ parent' = [parent EXCEPT ![n] = IF t = None THEN @ ELSE t]
        /\ status' = [status EXCEPT ![n] = st] /\ pub' = [pub EXCEPT ![n] = p]
        /\ late' \in SUBSET Row
    BY <1>4 DEF Writes, Kinds, Rewritten, TypeOK
  <2> HIDE DEF n, t
  <2>2. parent' = parent \/ (t # None /\ <<n, t>> \in Given /\ parent' = [parent EXCEPT ![n] = t])
    BY <2>1 DEF TypeOK
  <2>3. /\ pub' \in [Row -> BOOLEAN] /\ status' \in [Row -> Statuses]
        /\ \A m \in Row : status'[m] \in StatusOf(m)
    BY <2>1 DEF TypeOK, Statuses
  <2>4. CASE parent' = parent
    BY <1>r, <1>p, <2>1, <2>3, <2>4 DEF TypeOK, PlacedRows, Statuses
  <2>5. CASE t # None /\ <<n, t>> \in Given /\ parent' = [parent EXCEPT ![n] = t]
    <3>1. TypeOK'
      BY <1>r, <2>1, <2>3, <2>5, ParentTyped DEF TypeOK, Statuses
    <3>2. PlacedRows' /\ \A m \in Row : parent'[m] = parent[m] \/ parent'[m] # None
      BY <1>p, <2>1, <2>5, ParentTyped DEF PlacedRows
    <3> QED
      BY <3>1, <3>2
  <2> QED
    BY <2>2, <2>4, <2>5
<1>5. ASSUME NEW S \in SUBSET Row, Revives(S) PROVE Goal
  <2>1. at' \in [Row -> {"absent", "live", "deleted"}] /\ UNCHANGED <<parent, pub>>
    BY <1>5 DEF Revives, TypeOK
  <2>2. stray' \in SUBSET Row /\ late' \in SUBSET Row
    BY <1>5 DEF Revives, TypeOK
  <2>3. status' \in [Row -> Statuses] /\ \A m \in Row : status'[m] \in StatusOf(m)
    <3>1. CASE status' = status
      BY <3>1 DEF TypeOK, Statuses
    <3>2. CASE S \subseteq Episode /\ status' = [n \in Row |-> IF n \in S THEN "DRAFT" ELSE status[n]]
      BY <3>2, StatusKinds DEF TypeOK, Statuses, EpisodeStatus
    <3> QED
      BY <1>5, <3>1, <3>2 DEF Revives
  <2>4. PlacedRows'
    BY <1>5, <1>p, <2>1 DEF Revives, PlacedRows, TypeOK
  <2> QED
    BY <1>r, <2>1, <2>2, <2>3, <2>4 DEF TypeOK, Statuses
<1>6. ASSUME NEW r \in Request, RevivesMedia(r) PROVE Goal
  <2> DEFINE n == req[r].item
  <2>1. /\ n \in Media /\ parent[n] # None /\ at' = [at EXCEPT ![n] = "live"]
        /\ status' = [status EXCEPT ![n] = "PROCESSING"] /\ UNCHANGED <<parent, pub, stray>>
        /\ late' \in SUBSET Row
    BY <1>6 DEF RevivesMedia, RestoreMedia, Kinds, Placed, TypeOK
  <2> HIDE DEF n
  <2>2. /\ at' \in [Row -> {"absent", "live", "deleted"}] /\ status' \in [Row -> Statuses]
        /\ \A m \in Row : status'[m] \in StatusOf(m)
    BY <2>1, StatusKinds DEF TypeOK, Statuses, MediaStatus, Row
  <2> QED
    BY <1>r, <1>p, <2>1, <2>2 DEF TypeOK, PlacedRows, Statuses, Row
<1>7. ASSUME NEW S \in SUBSET Row, NEW p \in BOOLEAN, Publishes(S, p) PROVE Goal
  <2>1. pub' \in [Row -> BOOLEAN] /\ late' \in SUBSET Row /\ UNCHANGED <<at, parent, stray>>
    BY <1>7 DEF Publishes, TypeOK
  <2>2. status' \in [Row -> Statuses] /\ \A m \in Row : status'[m] \in StatusOf(m)
    BY <1>7, StatusKinds DEF Publishes, TypeOK, Statuses, EpisodeStatus
  <2> QED
    BY <1>r, <1>p, <2>1, <2>2 DEF TypeOK, PlacedRows, Statuses
<1>8. ASSUME NEW d \in Drama, NEW p \in BOOLEAN, CreateDrama(d, p) PROVE Goal
  <2>1. /\ at' \in [Row -> {"absent", "live", "deleted"}] /\ pub' \in [Row -> BOOLEAN]
        /\ UNCHANGED <<parent, status, stray, late>> /\ at' = [at EXCEPT ![d] = "live"]
    BY <1>8 DEF CreateDrama, TypeOK
  <2>2. PlacedRows'
    BY <1>p, <2>1 DEF PlacedRows, TypeOK, Row
  <2> QED
    BY <1>r, <2>1, <2>2 DEF TypeOK
<1>9. ASSUME NEW r \in Request, Begins(r) \/ Moves(r) \/ Reads(r) \/ Dies(r) PROVE Goal
  <2>1. UNCHANGED <<at, parent, pub, status, late>> /\ stray' \in SUBSET Row
    BY <1>9 DEF Begins, Moves, Reads, Dies, Crash, Data, Below, TypeOK
  <2> QED
    BY <1>1, <2>1
<1>10. ASSUME UNCHANGED vars PROVE Goal
  BY <1>1, <1>10 DEF vars, TypeOK
<1>11. ASSUME NEW r \in Request, NEW S \in SUBSET Row,
              Removes(r, S) \/ BulkBegins(r, S) \/ BulkGoesOn(r, S)
       PROVE  Goal
  BY <1>2, <1>11 DEF Removes, BulkBegins, BulkGoesOn
<1>12. ASSUME NEW S \in SUBSET Row, Drops(S) PROVE Goal
  BY <1>2, <1>12 DEF Drops
<1> HIDE DEF Goal
<1>13. Goal
  <2>1. CASE \E r \in Request : Begins(r) \/ Moves(r) \/ Reads(r) \/ RevivesMedia(r) \/ Dies(r)
    BY <1>6, <1>9, <2>1
  <2>2. CASE \E r \in Request : \E st \in Statuses : Inserts(r, st)
    BY <1>3, <2>2
  <2>3. CASE \E r \in Request : \E st \in Statuses, p \in BOOLEAN : Writes(r, p, st)
    BY <1>4, <2>3
  <2>4. CASE \E r \in Request : \E S \in SUBSET Row : Removes(r, S) \/ BulkBegins(r, S) \/ BulkGoesOn(r, S)
    BY <1>11, <2>4
  <2>5. CASE \E S \in SUBSET Row : Drops(S) \/ Revives(S) \/ \E p \in BOOLEAN : Publishes(S, p)
    BY <1>5, <1>7, <1>12, <2>5
  <2>6. CASE \E d \in Drama, p \in BOOLEAN : CreateDrama(d, p)
    BY <1>8, <2>6
  <2> QED
    BY <1>10, <2>1, <2>2, <2>3, <2>4, <2>5, <2>6 DEF Step
<1> QED
  BY <1>13 DEF Goal

LEMMA ShapeStep ==
  ASSUME Shape, Step
  PROVE  Shape'
<1>1. Kinds' /\ TypeOK' /\ PlacedRows'
  BY KindsStep, RowsTyped
<1>2. ASSUME NEW r \in Request, req'[r].op = "restoreMedia" PROVE parent'[req'[r].item] # None
  <2>1. req'[r].item \in Media /\ req'[r].item \in Row /\ req'[r].item \notin Drama
    BY <1>1, <1>2 DEF Kinds, Row
  <2>2. parent[req'[r].item] # None
    BY <1>2, <2>1, RequestsTyped DEF Restorers, Shape, Placed
  <2> QED
    BY <2>1, <2>2, RowsTyped
<1> QED
  BY <1>1, <1>2 DEF Shape, Placed, PlacedRows

LEMMA ShapeInit == Init => Shape
<1> SUFFICES ASSUME Init PROVE Shape
  OBVIOUS
<1>1. req = [r \in Request |-> Idle] /\ \A r \in Request : req[r] = Idle
  BY DEF Init
<1>2. \A n \in Row : at[n] = "absent" /\ parent[n] = None
  BY DEF Init
<1>3. status \in [Row -> Statuses] /\ \A n \in Row : status[n] \in StatusOf(n)
  BY DEF Init, Statuses, StatusOf, EpisodeStatus, MediaStatus
<1>4. TypeOK
  BY <1>1, <1>2, <1>3, IdleTyped DEF Init, TypeOK, Statuses
<1> QED
  BY <1>1, <1>2, <1>4, IdleTyped DEF Shape, Kinds, Placed

LEMMA ShapeAlways == Spec => []Shape
<1>1. Shape /\ [Next]_vars => Shape'
  BY Shapes, ShapeStep DEF Shape
<1> QED
  BY <1>1, ShapeInit, PTL DEF Spec

-----------------------------------------------------------------------------
(* Publication                                                             *)

(* PublicationAgrees, of one row that no late update wrote.  A live row    *)
(* has only to have columns that agree.                                    *)
Agrees(n) ==
  n \notin late =>
    /\ n \in Episode => (pub[n] <=> status[n] = "PUBLISHED")
    /\ at[n] = "deleted" => ~pub[n] /\ status[n] \notin {"DRAFT", "ACTIVE"}

LEMMA AgreesRows == PublicationAgrees <=> \A n \in Row : Agrees(n)
BY DEF PublicationAgrees, Agrees, Row

(* It is enough to look at each row a step leaves. *)
LEMMA PublishedBy ==
  ASSUME \A n \in Row : n \notin late' =>
           /\ n \in Episode => (pub'[n] <=> status'[n] = "PUBLISHED")
           /\ at'[n] = "deleted" => ~pub'[n] /\ status'[n] \notin {"DRAFT", "ACTIVE"}
  PROVE  PublicationAgrees'
BY DEF PublicationAgrees, Row

(* A step writes a row, which agrees or is late; the others stay. *)
LEMMA PublishedRow ==
  ASSUME PublicationAgrees, NEW n \in Row,
         \/ n \in late'
         \/ (n \in Episode => (pub'[n] <=> status'[n] = "PUBLISHED")) /\ at'[n] # "deleted",
         \A m \in Row \ {n} : /\ at'[m] = at[m] /\ pub'[m] = pub[m] /\ status'[m] = status[m]
                              /\ m \in late => m \in late'
  PROVE  PublicationAgrees'
<1>1. \A m \in Row : Agrees(m)
  BY AgreesRows
<1>2. \A m \in Row : m \notin late' =>
        /\ m \in Episode => (pub'[m] <=> status'[m] = "PUBLISHED")
        /\ at'[m] = "deleted" => ~pub'[m] /\ status'[m] \notin {"DRAFT", "ACTIVE"}
  BY <1>1 DEF Agrees
<1> QED
  BY <1>2, PublishedBy

(* Deleting withdraws what it hits, in whatever state it was. *)
LEMMA PublishedDelete ==
  ASSUME TypeOK, PublicationAgrees, NEW S \in SUBSET Row, Delete(S)
  PROVE  PublicationAgrees'
<1>1. \A n \in Row : Agrees(n)
  BY AgreesRows
<1>2. \A n \in Row : \/ status[n] \in EpisodeStatus /\ n \in Episode
                     \/ status[n] \in MediaStatus /\ n \in Media
                     \/ status[n] = "none"
  <2>1. \A n \in Row : status[n] \in StatusOf(n)
    BY DEF TypeOK
  <2> SUFFICES ASSUME NEW n \in Row
               PROVE  \/ status[n] \in EpisodeStatus /\ n \in Episode
                      \/ status[n] \in MediaStatus /\ n \in Media
                      \/ status[n] = "none"
    OBVIOUS
  <2>2. CASE n \in Episode
    BY <2>1, <2>2, StatusKinds
  <2>3. CASE n \in Media
    BY <2>1, <2>3, StatusKinds
  <2>4. CASE n \in Drama \cup Season
    BY <2>1, <2>4, StatusKinds
  <2> QED
    BY <2>2, <2>3, <2>4 DEF Row
<1>3. \A n \in Row : n \notin late' =>
        /\ n \in Episode => (pub'[n] <=> status'[n] = "PUBLISHED")
        /\ at'[n] = "deleted" => ~pub'[n] /\ status'[n] \notin {"DRAFT", "ACTIVE"}
  <2> SUFFICES ASSUME NEW n \in Row, n \notin late'
               PROVE  /\ n \in Episode => (pub'[n] <=> status'[n] = "PUBLISHED")
                      /\ at'[n] = "deleted" => ~pub'[n] /\ status'[n] \notin {"DRAFT", "ACTIVE"}
    OBVIOUS
  <2>1. CASE n \in S /\ at[n] = "live"
    BY <1>2, <2>1, DeleteSays
  <2>2. CASE ~(n \in S /\ at[n] = "live")
    <3>1. n \notin late /\ at'[n] = at[n] /\ pub'[n] = pub[n] /\ status'[n] = status[n]
      BY <2>2, DeleteSays
    <3> QED
      BY <1>1, <3>1 DEF Agrees
  <2> QED
    BY <2>1, <2>2
<1> QED
  BY <1>3, PublishedBy

LEMMA PublishedStep ==
  ASSUME Shape, PublicationAgrees, Step
  PROVE  PublicationAgrees'
<1>t. TypeOK
  BY DEF Shape
<1>0. \A n \in Row : Agrees(n)
  BY AgreesRows
<1>1. CASE UNCHANGED <<at, pub, status, late>>
  BY <1>1 DEF PublicationAgrees
<1>2. ASSUME NEW r \in Request, NEW st \in Statuses, Inserts(r, st) PROVE PublicationAgrees'
  <2> DEFINE n == req[r].item
  <2>1. /\ n \in Row /\ at' = [at EXCEPT ![n] = "live"] /\ late' = late
        /\ status' = [status EXCEPT ![n] = st] /\ pub' = [pub EXCEPT ![n] = (st = "PUBLISHED")]
    BY <1>2 DEF Inserts, Insert, Shape, Kinds, Given, Row
  <2> HIDE DEF n
  <2>2. /\ at'[n] = "live" /\ (pub'[n] <=> status'[n] = "PUBLISHED")
        /\ \A m \in Row \ {n} : /\ at'[m] = at[m] /\ pub'[m] = pub[m] /\ status'[m] = status[m]
                                /\ m \in late => m \in late'
    BY <1>t, <2>1 DEF TypeOK
  <2> QED
    BY <2>1, <2>2, PublishedRow
<1>3. ASSUME NEW r \in Request, NEW st \in Statuses, NEW p \in BOOLEAN, Writes(r, p, st) PROVE PublicationAgrees'
  <2> DEFINE n == req[r].item
  <2>1. /\ n \in Row /\ at' = at
        /\ status' = [status EXCEPT ![n] = st] /\ pub' = [pub EXCEPT ![n] = p]
        /\ \/ (n \in Episode => (p <=> st = "PUBLISHED")) /\ Rewritten(n)
           \/ p = pub[n] /\ st = status[n] /\ UNCHANGED late
    BY <1>3 DEF Writes, Shape, Kinds
  <2> HIDE DEF n
  <2>2. /\ pub'[n] = p /\ status'[n] = st
        /\ \A m \in Row \ {n} : at'[m] = at[m] /\ pub'[m] = pub[m] /\ status'[m] = status[m]
    BY <1>t, <2>1 DEF TypeOK
  <2>3. CASE (n \in Episode => (p <=> st = "PUBLISHED")) /\ Rewritten(n)
    <3>1. \/ n \in late'
          \/ (n \in Episode => (pub'[n] <=> status'[n] = "PUBLISHED")) /\ at'[n] # "deleted"
      BY <2>1, <2>2, <2>3 DEF Rewritten
    <3>2. \A m \in Row \ {n} : m \in late => m \in late'
      BY <2>3 DEF Rewritten
    <3> QED
      BY <2>1, <2>2, <3>1, <3>2, PublishedRow
  <2>4. CASE p = pub[n] /\ st = status[n] /\ UNCHANGED late
    <3>1. \A m \in Row : pub'[m] = pub[m] /\ status'[m] = status[m] /\ at'[m] = at[m]
      BY <2>1, <2>2, <2>4
    <3>2. \A m \in Row : m \notin late' =>
            /\ m \in Episode => (pub'[m] <=> status'[m] = "PUBLISHED")
            /\ at'[m] = "deleted" => ~pub'[m] /\ status'[m] \notin {"DRAFT", "ACTIVE"}
      BY <1>0, <2>4, <3>1 DEF Agrees
    <3> QED
      BY <3>2, PublishedBy
  <2> QED
    BY <2>1, <2>3, <2>4
<1>4. ASSUME NEW S \in SUBSET Row, Revives(S) PROVE PublicationAgrees'
  <2>0. /\ pub' = pub /\ late' = late /\ \A n \in S : at[n] = "deleted"
        /\ \A n \in Row : at'[n] = IF n \in S THEN "live" ELSE at[n]
    BY <1>4 DEF Revives
  <2>1. \A n \in Row : \/ status'[n] = status[n]
                       \/ n \in S /\ n \in Episode /\ status'[n] = "DRAFT"
    <3>1. CASE status' = status
      BY <3>1
    <3>2. CASE S \subseteq Episode /\ status' = [n \in Row |-> IF n \in S THEN "DRAFT" ELSE status[n]]
      BY <3>2
    <3> QED
      BY <1>4, <3>1, <3>2 DEF Revives
  <2>2. \A n \in Row : n \notin late' =>
          /\ n \in Episode => (pub'[n] <=> status'[n] = "PUBLISHED")
          /\ at'[n] = "deleted" => ~pub'[n] /\ status'[n] \notin {"DRAFT", "ACTIVE"}
    BY <1>0, <2>0, <2>1 DEF Agrees
  <2> QED
    BY <2>2, PublishedBy
<1>5. ASSUME NEW r \in Request, RevivesMedia(r) PROVE PublicationAgrees'
  <2> DEFINE n == req[r].item
  <2>1. /\ n \in Media /\ at' = [at EXCEPT ![n] = "live"] /\ late' = late \ {n}
        /\ status' = [status EXCEPT ![n] = "PROCESSING"] /\ pub' = pub
    BY <1>5 DEF RevivesMedia, RestoreMedia, Shape, Kinds
  <2> HIDE DEF n
  <2>2. /\ n \in Row /\ n \notin Episode /\ at'[n] = "live"
        /\ \A m \in Row \ {n} : /\ at'[m] = at[m] /\ pub'[m] = pub[m] /\ status'[m] = status[m]
                                /\ m \in late => m \in late'
    BY <1>t, <2>1 DEF TypeOK, Row
  <2> QED
    BY <2>2, PublishedRow
<1>6. ASSUME NEW S \in SUBSET Row, NEW p \in BOOLEAN, Publishes(S, p) PROVE PublicationAgrees'
  <2>1. /\ at' = at /\ late' = late \ S /\ \A n \in S : at[n] = "live"
        /\ S \subseteq Drama \/ S \subseteq Episode
        /\ \A n \in Row : pub'[n] = IF n \in S THEN p ELSE pub[n]
        /\ \A n \in Row : status'[n] = IF n \notin S \cap Episode THEN status[n]
                                        ELSE IF p THEN "PUBLISHED" ELSE "DRAFT"
    BY <1>6 DEF Publishes
  <2>2. \A n \in Row : n \notin late' =>
          /\ n \in Episode => (pub'[n] <=> status'[n] = "PUBLISHED")
          /\ at'[n] = "deleted" => ~pub'[n] /\ status'[n] \notin {"DRAFT", "ACTIVE"}
    BY <1>0, <2>1 DEF Agrees
  <2> QED
    BY <2>2, PublishedBy
<1>7. ASSUME NEW d \in Drama, NEW p \in BOOLEAN, CreateDrama(d, p) PROVE PublicationAgrees'
  <2>1. /\ d \in Row /\ d \notin Episode /\ at'[d] = "live"
        /\ \A m \in Row \ {d} : /\ at'[m] = at[m] /\ pub'[m] = pub[m] /\ status'[m] = status[m]
                                /\ m \in late => m \in late'
    BY <1>t, <1>7 DEF CreateDrama, TypeOK, Row
  <2> QED
    BY <2>1, PublishedRow
<1>8. ASSUME NEW S \in SUBSET Row, Delete(S) PROVE PublicationAgrees'
  BY <1>t, <1>8, PublishedDelete
<1> QED
  <2>1. CASE \E r \in Request : Begins(r) \/ Moves(r) \/ Reads(r) \/ RevivesMedia(r) \/ Dies(r)
    BY <1>1, <1>5, <2>1 DEF Begins, Moves, Reads, Data, Dies, Crash
  <2>2. CASE \E r \in Request : \E st \in Statuses : Inserts(r, st)
    BY <1>2, <2>2
  <2>3. CASE \E r \in Request : \E st \in Statuses, p \in BOOLEAN : Writes(r, p, st)
    BY <1>3, <2>3
  <2>4. CASE \E r \in Request : \E S \in SUBSET Row : Removes(r, S) \/ BulkBegins(r, S) \/ BulkGoesOn(r, S)
    BY <1>8, <2>4 DEF Removes, BulkBegins, BulkGoesOn
  <2>5. CASE \E S \in SUBSET Row : Drops(S) \/ Revives(S) \/ \E p \in BOOLEAN : Publishes(S, p)
    BY <1>4, <1>6, <1>8, <2>5 DEF Drops
  <2>6. CASE \E d \in Drama, p \in BOOLEAN : CreateDrama(d, p)
    BY <1>7, <2>6
  <2>7. CASE UNCHANGED vars
    BY <1>1, <2>7 DEF vars
  <2> QED
    BY <2>1, <2>2, <2>3, <2>4, <2>5, <2>6, <2>7 DEF Step

-----------------------------------------------------------------------------
(* The invariant is inductive                                              *)

LEMMA Starts == Init => IInv
<1> SUFFICES ASSUME Init PROVE IInv
  OBVIOUS
<1>1. \A n \in Row : at[n] = "absent" /\ ~pub[n]
  BY DEF Init
<1>2. \A e \in Episode : ~pub[e] /\ status[e] = "DRAFT"
  BY DEF Init, Row
<1> QED
  BY <1>1, <1>2, ShapeInit DEF IInv, PublicationAgrees

LEMMA Inductive == IInv /\ [Next]_vars => IInv'
<1> SUFFICES ASSUME IInv, [Next]_vars PROVE IInv'
  OBVIOUS
<1>1. Step /\ Shape /\ PublicationAgrees
  BY Shapes DEF IInv, Shape
<1> QED
  BY <1>1, ShapeStep, PublishedStep DEF IInv

LEMMA IInvAlways == Spec => []IInv
BY Starts, Inductive, PTL DEF Spec

-----------------------------------------------------------------------------
(* The theorems                                                            *)

(* The rows, the columns and the requests keep their types, however many   *)
(* requests are served at once: a season hangs from a drama, an episode    *)
(* from a season and a media asset from an episode, or from nothing.       *)
THEOREM TypeCorrect == Spec => []TypeOK
<1>1. Shape => TypeOK
  BY DEF Shape
<1> QED
  BY <1>1, ShapeAlways, PTL

(* is_published and the status of an episode agree, and a deleted row is   *)
(* withdrawn, whatever was published, deleted, restored or cut off before, *)
(* by any number of requests that overlap: only an update by id that comes *)
(* after the deletion of its row can break this, and for that row alone.   *)
THEOREM PublicationAlways == Spec => []PublicationAgrees
<1>1. IInv => PublicationAgrees
  BY DEF IInv
<1> QED
  BY <1>1, IInvAlways, PTL

(* An episode, the season and the drama it is below. *)
LEMMA EpisodePlaced ==
  ASSUME Shape
  PROVE  /\ \A s \in Season : at[s] # "absent" => parent[s] \in Drama
         /\ \A e \in Episode : at[e] # "absent" => parent[e] \in Season
         /\ \A n \in Row : /\ parent[n] \in Drama => n \in Season
                           /\ parent[n] \in Season => n \in Episode
BY ParentKinds DEF Shape, Placed, Row

LEMMA OnAirSays ==
  ASSUME Shape, NEW e \in Episode, at[e] = "live"
  PROVE  /\ parent[e] \in Season
         /\ at[parent[e]] = "live" => parent[parent[e]] \in Drama
         /\ Alive(e) <=> at[parent[e]] = "live" /\ at[parent[parent[e]]] = "live"
<1> DEFINE s == parent[e]
           d == parent[s]
<1>1. e \in Row /\ s \in Season /\ s \in Row /\ s # None
  BY EpisodePlaced DEF Row
<1>2. at[s] = "live" => d \in Drama /\ d \in Row /\ d # None
  BY <1>1, EpisodePlaced DEF Row
<1>3. \A m \in Row : Alive(m) <=> at[m] = "live" /\ (parent[m] = None \/ Alive(parent[m]))
  BY AliveUp DEF Shape
<1>4. \A m \in Drama : parent[m] = None
  BY ParentKinds DEF Shape, Row
<1> HIDE DEF s, d
<1>5. parent[e] = s /\ parent[s] = d
  BY DEF s, d
<1>6. Alive(e) <=> at[s] = "live" /\ at[d] = "live"
  BY <1>1, <1>2, <1>3, <1>4, <1>5
<1> QED
  BY <1>1, <1>2, <1>5, <1>6

LEMMA ViewsFollow == ASSUME Shape, PublicationAgrees PROVE ViewsAgree
<1>1. ListedSeasons = UNION {DramaSeasons(d) : d \in ListedDramas}
  <2>1. \A s : s \in ListedSeasons <=> s \in Season /\ at[s] = "live" /\ parent[s] \in Drama /\ Shown(parent[s])
    BY EpisodePlaced DEF ListedSeasons
  <2>2. \A s, d : s \in DramaSeasons(d) /\ d \in ListedDramas <=>
          /\ s \in Row /\ parent[s] = d /\ d \in Drama /\ Shown(d) /\ at[s] = "live"
    BY DEF DramaSeasons, ListedDramas, Children
  <2>3. \A s : s \in UNION {DramaSeasons(d) : d \in ListedDramas} <=>
          \E d : s \in DramaSeasons(d) /\ d \in ListedDramas
    OBVIOUS
  <2>4. \A s : s \in UNION {DramaSeasons(d) : d \in ListedDramas} <=> s \in ListedSeasons
    BY <2>1, <2>2, <2>3, EpisodePlaced DEF Row
  <2> QED
    BY <2>4
<1>2. ListedEpisodes \ late = (UNION {SeasonEpisodes(s) : s \in ListedSeasons}) \ late
  <2>1. \A e : e \notin late => (e \in ListedEpisodes <=>
          /\ e \in Episode /\ at[e] = "live" /\ pub[e]
          /\ parent[e] \in Season /\ at[parent[e]] = "live" /\ Shown(parent[parent[e]]))
    BY EpisodePlaced DEF ListedEpisodes, PublicationAgrees
  <2>2. \A e, s : e \in SeasonEpisodes(s) /\ s \in ListedSeasons <=>
          /\ e \in Row /\ parent[e] = s /\ s \in Season /\ at[s] = "live" /\ Shown(parent[s])
          /\ at[e] = "live" /\ pub[e]
    BY DEF SeasonEpisodes, ListedSeasons, Children
  <2>3. \A e : e \in UNION {SeasonEpisodes(s) : s \in ListedSeasons} <=>
          \E s : e \in SeasonEpisodes(s) /\ s \in ListedSeasons
    OBVIOUS
  <2>4. \A e : e \notin late =>
          (e \in UNION {SeasonEpisodes(s) : s \in ListedSeasons} <=> e \in ListedEpisodes)
    BY <2>1, <2>2, <2>3, EpisodePlaced DEF Row
  <2> QED
    BY <2>4
<1>3. ListedEpisodes = {e \in Episode : OnAir(e)}
  <2> SUFFICES ASSUME NEW e \in Episode
               PROVE  OnAir(e) <=> /\ at[e] = "live" /\ pub[e] /\ status[e] = "PUBLISHED"
                                   /\ at[parent[e]] = "live" /\ Shown(parent[parent[e]])
    BY DEF ListedEpisodes
  <2>1. Alive(e) => at[e] = "live"
    BY DEF Alive
  <2> QED
    BY <2>1, OnAirSays DEF OnAir, Shown
<1> QED
  BY <1>1, <1>2, <1>3 DEF ViewsAgree

(* The lists, the pages and the page of an episode show the same content:  *)
(* the six queries of src/dramas, src/seasons and src/episodes agree,      *)
(* however requests overlap, on every episode but those an update wrote    *)
(* after their deletion.                                                   *)
THEOREM ViewsAlways == Spec => []ViewsAgree
<1>1. IInv => ViewsAgree
  BY ViewsFollow DEF IInv
<1> QED
  BY <1>1, IInvAlways, PTL

=============================================================================
