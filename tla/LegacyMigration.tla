--------------------------- MODULE LegacyMigration ---------------------------
(***************************************************************************)
(* The scripts of scripts/legacy-migration.  migrate.ts (from MySQL) and   *)
(* import-sql.ts (from a dump) copy legacy rows into PostgreSQL under a    *)
(* run id and record what they create; rollback.ts deletes what a run      *)
(* recorded; verify.ts counts it.  The operator runs one script at a time, *)
(* with --apply, and any of them may die between two statements; the       *)
(* application writes beside them.                                         *)
(*                                                                         *)
(* A legacy row stands for the target row it becomes.  The tables of MySQL *)
(* are named as in the dump, so both importers key their records alike.    *)
(* SqlDump has how the dump is read.                                       *)
(***************************************************************************)
EXTENDS SqlDump

CONSTANTS Run,             \* run ids
          None,            \* not a run: the application
          Source,          \* the legacy rows, in the order they are imported
          Char,            \* the characters of a dump
          Dumps,           \* dumps to read
          MaxScript,       \* bound on the scripts started
          MaxRow, MaxApp   \* bounds on the rows ever created, and the steps of the application

Legacy == DOMAIN Source
Entity == {"User", "SubscriptionPlan", "Drama", "Season", "Episode", "MediaAsset",
           "UserMessage", "VideoView"}

(* Of a legacy row: its table and key, the entity it becomes, the legacy   *)
(* rows it refers to, and how the import tells that it has been imported:  *)
(* by the records of all runs, and by a natural key, its email, slug or    *)
(* number below its parent (0: it has none).                               *)
LegacyRow == [table : STRING, key : Nat, entity : Entity, up : SUBSET Nat,
              remembered : BOOLEAN, name : Nat]

ASSUME RunAssumption == None \notin Run /\ MaxScript \in Nat /\ MaxApp \in Nat

ASSUME DumpAssumption == Signs \subseteq Char /\ Dumps \subseteq Written(Char)

(* What migrate.ts reads has natural keys.  Of the entities it knows only  *)
(* a season has a foreign key, to its drama.                               *)
ASSUME SourceAssumption ==
  /\ Source \in Seq(LegacyRow)
  /\ \A s \in Legacy :
       /\ Source[s].up \subseteq 1 .. s - 1
       /\ Source[s].table \in {"users", "plans", "drama", "season"} => Source[s].name # 0
       /\ Source[s].entity \in {"User", "SubscriptionPlan", "Drama"} => Source[s].up = {}
       /\ Source[s].entity = "Season" => \A u \in Source[s].up : Source[u].entity = "Drama"

VARIABLES
  dump,    \* the dump before it is read, then <<>>
  row,     \* target rows in order of creation
  record,  \* legacy_migration_records
  job,     \* the script that is running
  app,     \* the steps the application has taken
  cut      \* history: records whose row a rollback deleted, but not them

vars == <<dump, row, record, job, app, cut>>

(* Of a target row: the legacy row it comes from (0: other data); its      *)
(* natural key, which is its name (0: not that of a legacy row), the rows  *)
(* it refers to and, for a drama, the kind of its slug; the run and the    *)
(* importer that made it; whether the application has changed its key.     *)
TargetRow == [src : Legacy \cup {0}, name : Nat, up : SUBSET Nat,
              slug : {"none", "migrate", "import"}, by : Run \cup {None},
              with : {"none", "migrate", "import"}, renamed : BOOLEAN,
              onDelete : {"Restrict", "Cascade"}, there : BOOLEAN]

Record == [run : Run, src : Legacy, id : Nat]

(* n counts the scripts started, ids[s] is the target row of s, made those *)
(* this import has created; todo are the records left to a rollback.       *)
Idle == [n |-> 0, op |-> "none", run |-> None, pc |-> "row", pos |-> 1,
         ids |-> [s \in Legacy |-> 0], made |-> {}, todo |-> {}, failures |-> {}]

TypeOK ==
  /\ dump \in Dumps \cup {<<>>}
  /\ row \in Seq(TargetRow)
  /\ record \in SUBSET Record /\ cut \in SUBSET Record /\ app \in 0 .. MaxApp
  /\ job \in [n : 0 .. MaxScript, op : {"none", "migrate", "import", "rollback"}, run : Run \cup {None},
              pc : {"row", "record", "unrecord"}, pos : 1 .. Len(Source) + 1,
              ids : [Legacy -> Nat], made : SUBSET Legacy,
              todo : SUBSET Record, failures : SUBSET Record]

Init == dump \in Dumps /\ row = <<>> /\ record = {} /\ job = Idle /\ app = 0 /\ cut = {}

-----------------------------------------------------------------------------
(* Helpers                                                                 *)

There(i) == i \in DOMAIN row /\ row[i].there
Kind(i) == IF row[i].src = 0 THEN "Other" ELSE Source[row[i].src].entity
Kinds(s) == {Source[u].entity : u \in Source[s].up}

OnDelete(s) ==
  IF Source[s].entity \in {"UserMessage", "VideoView"} THEN "Cascade" ELSE "Restrict"

(* The row find() returns for s below p, by the key it has now: the two    *)
(* importers make different slugs for a drama.                             *)
Existing(s, p, form) ==
  {i \in DOMAIN row : /\ There(i) /\ Kind(i) = Source[s].entity
                      /\ Source[s].name # 0 /\ row[i].name = Source[s].name
                      /\ row[i].up = p /\ row[i].slug \in {"none", form}}

(* What s hangs from: import-sql remembers the row it resolved, migrate    *)
(* looks the drama up again by its slug.                                   *)
Parent(u) == IF job.op = "migrate" THEN Existing(u, {}, "migrate") ELSE {job.ids[u]} \ {0}
Above(s) == UNION {Parent(u) : u \in Source[s].up}

NewRow(s, p, form, by) ==
  [src |-> s, name |-> Source[s].name, up |-> p,
   slug |-> IF Source[s].entity = "Drama" THEN form ELSE "none", by |-> by,
   with |-> IF by = None THEN "none" ELSE form, renamed |-> FALSE,
   onDelete |-> OnDelete(s), there |-> TRUE]

Begin(op, k, todo) ==
  /\ dump = <<>> /\ job.op = "none" /\ job.n < MaxScript
  /\ job' = [Idle EXCEPT !.n = job.n + 1, !.op = op, !.run = k, !.todo = todo]

Abort == job' = [Idle EXCEPT !.n = job.n]

ReadDump == dump # <<>> /\ dump' = <<>> /\ UNCHANGED <<row, record, job, app, cut>>

-----------------------------------------------------------------------------
(* Importing                                                               *)

(* migrate.ts knows users, plans, dramas and seasons. *)
Reads(op, s) ==
  IF op = "migrate" THEN Source[s].table \in {"users", "plans", "drama", "season"}
  ELSE Source[s].table # "plans"

StartImport(k, op) ==
  /\ Begin(op, k, {})
  /\ UNCHANGED <<dump, row, record, app, cut>>

(* A row whose parents were not found is skipped, and the media of an      *)
(* episode this import did not create.                                     *)
Skipped(s) ==
  \/ ~Reads(job.op, s)
  \/ \E u \in Source[s].up : Parent(u) = {}
  \/ Source[s].entity = "MediaAsset" /\ ~(Source[s].up \subseteq job.made)

Turn(s) == job.op \in {"migrate", "import"} /\ job.pc = "row" /\ job.pos = s /\ s \in Legacy

Skip(s) ==
  /\ Turn(s) /\ Skipped(s)
  /\ job' = [job EXCEPT !.pos = s + 1]
  /\ UNCHANGED <<dump, row, record, app, cut>>

(* Mutant: the records of the run only. *)
PriorOwn(s) ==
  IF job.op = "import" /\ Source[s].remembered
  THEN {p \in record : p.src = s /\ p.run = job.run} ELSE {}

(* What import-sql finds recorded, by any run, when it starts. *)
Prior(s) ==
  IF job.op = "import" /\ Source[s].remembered THEN {p \in record : p.src = s} ELSE {}

Resolved(s, i) == job' = [job EXCEPT !.ids[s] = i, !.pos = s + 1]

(* Recorded before: taken over, whether the row is there or not.  A user   *)
(* who is not there cannot be given the role: that ends the import.        *)
TakeOver(s) ==
  /\ Turn(s) /\ ~Skipped(s)
  /\ \E p \in Prior(s) :
       IF Source[s].entity = "User" /\ ~There(p.id) THEN Abort ELSE Resolved(s, p.id)
  /\ UNCHANGED <<dump, row, record, app, cut>>

(* Mutant: a row that exists already is recorded as created by the run. *)
DuplicateRecorded(s) ==
  /\ Turn(s) /\ ~Skipped(s) /\ Prior(s) = {}
  /\ \E i \in Existing(s, Above(s), job.op) :
       /\ Resolved(s, i)
       /\ record' = record \cup {[run |-> job.run, src |-> s, id |-> i]}
  /\ UNCHANGED <<dump, row, app, cut>>

(* It exists: reported as a duplicate and left as it is. *)
Duplicate(s) ==
  /\ Turn(s) /\ ~Skipped(s) /\ Prior(s) = {}
  /\ \E i \in Existing(s, Above(s), job.op) : Resolved(s, i)
  /\ UNCHANGED <<dump, row, record, app, cut>>

(* The row is inserted, unless a row above it is gone: the foreign key     *)
(* ends the import.                                                        *)
Create(s) ==
  /\ Turn(s) /\ ~Skipped(s) /\ Prior(s) = {} /\ Existing(s, Above(s), job.op) = {}
  /\ IF \A p \in Above(s) : There(p)
     THEN /\ Len(row) < MaxRow
          /\ row' = Append(row, NewRow(s, Above(s), job.op, job.run))
          /\ job' = [job EXCEPT !.pc = "record", !.ids[s] = Len(row')]
     ELSE Abort /\ UNCHANGED row
  /\ UNCHANGED <<dump, record, app, cut>>

(* Records of one run, entity and key are unique, whatever table they come *)
(* from; a second one ends the import.                                     *)
Taken(s) ==
  \E t \in record : /\ t.run = job.run
                    /\ Source[t.src].entity = Source[s].entity
                    /\ Source[t.src].key = Source[s].key

WriteRecord ==
  LET s == job.pos
  IN  /\ job.pc = "record"
      /\ IF Taken(s)
         THEN Abort /\ UNCHANGED record
         ELSE /\ record' = record \cup {[run |-> job.run, src |-> s, id |-> job.ids[s]]}
              /\ job' = [job EXCEPT !.made = @ \cup {s}, !.pc = "row", !.pos = s + 1]
      /\ UNCHANGED <<dump, row, app, cut>>

ImportEnd ==
  /\ job.op \in {"migrate", "import"} /\ job.pos = Len(Source) + 1
  /\ Abort
  /\ UNCHANGED <<dump, row, record, app, cut>>

-----------------------------------------------------------------------------
(* Rolling back                                                            *)

(* Mutant: dramas before their seasons. *)
OrderDown == <<"Drama", "Season", "SubscriptionPlan", "User">>

(* The entities rollback.ts knows, in the order it deletes them. *)
Order == <<"Season", "Drama", "SubscriptionPlan", "User">>

Listed(r) == \E n \in DOMAIN Order : Order[n] = Source[r.src].entity
Rank(r) == CHOOSE n \in DOMAIN Order : Order[n] = Source[r.src].entity

Rollback(k) ==
  /\ Begin("rollback", k, {r \in record : r.run = k /\ Listed(r)})
  /\ UNCHANGED <<dump, row, record, app, cut>>

Below(i, onDelete) ==
  {j \in DOMAIN row : There(j) /\ i \in row[j].up /\ row[j].onDelete = onDelete}

(* The next of a rollback: which of one entity comes first is not said. *)
Next1 == {r \in job.todo : \A t \in job.todo : Rank(r) <= Rank(t)}
Turning == job.op = "rollback" /\ job.pc = "row"

Removable(i) == There(i) /\ Below(i, "Restrict") = {}

(* The table without a row, and what hangs from it by cascade. *)
Without(i) ==
  [j \in DOMAIN row |-> IF j \in {i} \cup Below(i, "Cascade")
                        THEN [row[j] EXCEPT !.there = FALSE] ELSE row[j]]

(* An error of either statement is reported, and the rollback goes on. *)
Reported(q) ==
  job' = [job EXCEPT !.pc = "row", !.pos = 1, !.todo = @ \ q, !.failures = @ \cup q]

Delete(r) ==
  /\ Turning /\ Removable(r.id)
  /\ row' = Without(r.id)
  /\ job' = [job EXCEPT !.pc = "unrecord", !.pos = r.src]
  /\ UNCHANGED <<dump, record, app, cut>>

(* The database refuses: the row is gone, or something needs it. *)
Refused(r) ==
  /\ Turning /\ ~Removable(r.id)
  /\ Reported({r})
  /\ UNCHANGED <<dump, row, record, app, cut>>

(* The statement fails otherwise: it may have been carried out, its answer *)
(* lost with the connection.                                               *)
DeleteFails(r) ==
  /\ Turning /\ Reported({r})
  /\ \/ UNCHANGED <<row, cut>>
     \/ Removable(r.id) /\ row' = Without(r.id) /\ cut' = cut \cup {r}
  /\ UNCHANGED <<dump, record, app>>

Current == {r \in job.todo : job.pc = "unrecord" /\ r.src = job.pos}

(* Mutant: the record of a row that is deleted is kept. *)
UnrecordNot ==
  /\ job.pc = "unrecord"
  /\ job' = [job EXCEPT !.pc = "row", !.pos = 1, !.todo = @ \ Current]
  /\ UNCHANGED <<dump, row, record, app, cut>>

(* Its record is deleted in a statement of its own. *)
Unrecord ==
  /\ job.pc = "unrecord"
  /\ record' = record \ Current
  /\ job' = [job EXCEPT !.pc = "row", !.pos = 1, !.todo = @ \ Current]
  /\ UNCHANGED <<dump, row, app, cut>>

(* That fails, carried out or not: it is reported like any other error. *)
UnrecordFails ==
  /\ job.pc = "unrecord" /\ Reported(Current)
  /\ \/ record' = record \ Current /\ UNCHANGED cut
     \/ cut' = cut \cup Current /\ UNCHANGED record
  /\ UNCHANGED <<dump, row, app>>

RollbackEnd ==
  /\ job.op = "rollback" /\ job.todo = {}
  /\ Abort
  /\ UNCHANGED <<dump, row, record, app, cut>>

-----------------------------------------------------------------------------
(* Verifying, the application, and failure                                 *)

Checked == {"User", "Drama", "Season"}

(* What verify.ts reports of a run: its records by entity, and how many    *)
(* rows they name that are there.                                          *)
Records(k, e) == {r \in record : r.run = k /\ Source[r.src].entity = e}
Found(k, e) == Cardinality({r.id : r \in {t \in Records(k, e) : There(t.id)}})

AppRoom == dump = <<>> /\ app < MaxApp /\ app' = app + 1

(* Somebody registers with the email, or makes the drama or season. *)
AppCreate(s, form) ==
  /\ AppRoom /\ Len(row) < MaxRow
  /\ Source[s].entity \in Checked \cup {"SubscriptionPlan"}
  /\ \E p \in {{}} \cup {{i} : i \in DOMAIN row} :
       /\ {Kind(i) : i \in p} = Kinds(s) /\ \A i \in p : There(i)
       /\ Existing(s, p, form) = {}
       /\ row' = Append(row, NewRow(s, p, form, None))
  /\ UNCHANGED <<dump, record, job, cut>>

(* Other data comes to refer to a row: sessions, subscriptions, members,   *)
(* favourites, grants.  Only episodes refer to a season.                   *)
AppUse(i, onDelete) ==
  /\ AppRoom /\ Len(row) < MaxRow /\ There(i)
  /\ Kind(i) \in Checked \cup {"SubscriptionPlan", "Episode"}
  /\ Kind(i) = "Season" => onDelete = "Restrict"
  /\ row' = Append(row, [src |-> 0, name |-> 0, up |-> {i}, slug |-> "none", by |-> None,
                         with |-> "none", renamed |-> FALSE, onDelete |-> onDelete,
                         there |-> TRUE])
  /\ UNCHANGED <<dump, record, job, cut>>

Names(entity) == {0} \cup {Source[s].name : s \in {u \in Legacy : Source[u].entity = entity}}

(* The email of a user, the code of a plan, the slug of a drama, the       *)
(* number and the place of a season or an episode are changed; the unique  *)
(* key refuses what another row has.                                       *)
AppRename(i, n, form, p) ==
  /\ AppRoom /\ There(i)
  /\ Kind(i) \in Checked \cup {"SubscriptionPlan", "Episode"}
  /\ n \in Names(Kind(i)) /\ <<n, form, p>> # <<row[i].name, row[i].slug, row[i].up>>
  /\ form # row[i].slug => Kind(i) = "Drama"
  /\ p # row[i].up => /\ Kind(i) \in {"Season", "Episode"}
                      /\ \A k \in p : There(k) /\ Kind(k) \in Kinds(row[i].src)
  /\ n # 0 => ~\E j \in DOMAIN row \ {i} :
                 /\ There(j) /\ Kind(j) = Kind(i)
                 /\ row[j].name = n /\ row[j].up = p /\ row[j].slug = form
  /\ row' = [row EXCEPT ![i].name = n, ![i].slug = form, ![i].up = p, ![i].renamed = TRUE]
  /\ UNCHANGED <<dump, record, job, cut>>

(* Whether there is room is asked first: the rest takes time to try.       *)
Application ==
  /\ app < MaxApp
  /\ \/ \E s \in Legacy, form \in {"migrate", "import"} : AppCreate(s, form)
     \/ \E i \in DOMAIN row, onDelete \in {"Restrict", "Cascade"} : AppUse(i, onDelete)
     \/ \E i \in DOMAIN row, form \in {"none", "migrate", "import"} :
          \E n \in Names(Kind(i)), p \in {row[i].up} \cup {{k} : k \in DOMAIN row} :
            AppRename(i, n, form, p)

Crash ==
  /\ job.op # "none"
  /\ Abort
  /\ cut' = cut \cup Current
  /\ UNCHANGED <<dump, row, record, app>>

Next ==
  \/ ReadDump
  \/ \E k \in Run : Rollback(k) \/ \E op \in {"migrate", "import"} : StartImport(k, op)
  \/ \E s \in Legacy : Skip(s) \/ TakeOver(s) \/ Duplicate(s) \/ Create(s)
  \/ WriteRecord \/ ImportEnd
  \/ \E r \in Next1 : Delete(r) \/ Refused(r) \/ DeleteFails(r)
  \/ Unrecord \/ UnrecordFails \/ RollbackEnd
  \/ Application
  \/ Crash

Spec == Init /\ [][Next]_vars

-----------------------------------------------------------------------------
(* Properties                                                              *)

(* A dump is read as it was written, whatever quotes, separators and heads *)
(* of statements stand in its strings.                                     *)
DumpRoundTrip == dump # <<>> => ParseDump(Dump(dump)) = dump.rows

(* A record names a row that its own run created, and a row has one record *)
(* at most: a rollback deletes, by its own deletions, nothing that the     *)
(* application or another run has made.                                    *)
RecordsOwn ==
  \A r \in record :
    /\ row[r.id].by = r.run /\ row[r.id].src = r.src
    /\ \A t \in record : t.id = r.id => t = r

(* How a legacy row comes to be imported twice, into rows i and then j:    *)
(* there is nothing to look up, or what there is has another key or        *)
(* parent by now; and the importer of j remembers no records, or there is  *)
(* none of i, because the import of i died before it was written.          *)
Missed(i, j) ==
  \/ Source[row[i].src].name = 0
  \/ row[i].renamed \/ row[j].renamed
  \/ row[i].up # row[j].up \/ row[i].slug # row[j].slug

Forgotten(i, j) ==
  \/ row[j].with = "migrate" \/ ~Source[row[i].src].remembered
  \/ ~\E r \in record : r.id = i

(* In no other way is a legacy row imported twice, by however many runs    *)
(* and importers that died wherever, whatever the application has renamed: *)
(* of its rows that are there the second was made past both of the checks. *)
ImportedOnce ==
  \A i, j \in DOMAIN row :
    /\ i < j /\ There(i) /\ There(j)
    /\ row[i].src = row[j].src /\ row[i].by # None /\ row[j].by # None
    => Missed(i, j) /\ Forgotten(i, j)

(* verify.ts finds every user, drama and season a run has recorded, unless *)
(* a rollback has deleted a row and not its record: it died between the    *)
(* two or is there now, or one of the statements failed.                   *)
VerifyAgrees ==
  \A k \in Run, e \in Checked :
    Records(k, e) \cap (cut \cup Current) = {} => Found(k, e) = Cardinality(Records(k, e))

(* A rollback that runs to its end leaves no record of its run unreported, *)
(* of the entities it knows; and the database refuses only what was gone   *)
(* with its record left, or what is needed by a row that this rollback is  *)
(* not to remove later: its order never stands in its own way.             *)
Explained(r) ==
  IF There(r.id)
  THEN ~\E t \in job.todo : t.id \in Below(r.id, "Restrict")
  ELSE r \in cut

RollbackAccounts ==
  [][/\ RollbackEnd => \A r \in record : r.run = job.run /\ Listed(r) => r \in job.failures
     /\ \A r \in Next1 : Refused(r) => Explained(r)]_vars
=============================================================================
