# TLA+ models and proofs of the Urdu Bolo backend

The program is a NestJS API (`src/src`) over PostgreSQL (through Prisma) and Redis. Users sign in on
devices, play episodes under short-lived capabilities, upload media in chunks and talk to a support
desk; staff manage the catalogue, subscriptions and grants. Several API processes may run at once.
They share nothing but the database and Redis, so every `await` on one of them is a point where any
other request may get in between. That is what the modules here are about.

Paths below are relative to the repository (`src/auth/...` is `src/src/auth/...` in `PROJECT.json`,
whose first `src/` is the checkout).

## 1. Inventory

| Component | State | Operations | What is hard about it | Module |
|---|---|---|---|---|
| Refresh sessions (`auth.service.ts`, `users.service.ts`, `jwt.strategy.ts`) | `refresh_sessions` (expiry, revocation, `replaced_by_id`), status of the user | login, refresh, replay of a used token, logout, logout-all, revoke one, change password, suspend, reactivate, remove, cleanup | two refreshes of one token; a revocation whose snapshot misses a row being inserted; a crash in mid-rotation; lock waits | `RefreshSessions`, abstractly `TokenFamilies` |
| Login lockout, users, rate limiting (`auth.service.ts` 44-74, `users.service.ts`, `redis-rate-limit.guard.ts`, `redis.service.ts`) | `failed_login_count`, `locked_until`, account status, a counter per caller in Redis, deletion requests | failed and successful login, register, create, suspend, remove, request and review a deletion | read, verify for a while, write what was read plus one; INCR and EXPIRE are two calls; an approval in two statements | `SignIn` |
| Playback sessions (`playback/*`), and the capability check of the media gateway | `playback_sessions` rows naming one capability, entries in Redis, `trusted_devices` | start, resume, serve, stop, status, mismatch, revoke or register a device, cleanup | row and cache are written separately and in different orders; the count of sessions is read before the insert | `PlaybackSessions` |
| Subscriptions, access groups and grants (`subscriptions`, `access`, `playback-policy.service.ts`, subscription requests of `legacy.service.ts`) | periods with a status, memberships, grants, requests | subscribe, extend, cancel, groups, members, grants, request, review | periods computed from a row read earlier; two reviews at once; a group deleted between a read and an approval | `Entitlement` |
| Content catalogue (`dramas`, `seasons`, `episodes`, `media-assets`) | four tables with `deleted_at`, publication columns | create, update, move, publish, remove, bulk delete, restore, six visitor queries | cascades of several statements; check-then-write; repeated bulk calls after a failure | `ContentTree` |
| Uploads (`uploads.service.ts`) | a manifest in Redis, an R2 multipart upload or a staging directory | init, chunk, complete, cancel, expiry | the manifest is read, changed and written back whole; retries with another size; crash between storage and manifest | `Uploads` |
| Support chat (`support-chat.service.ts`) | conversation row with counters and last message, messages | ensure, send (both sides), mark seen, update status, delete, list | a summary kept beside the messages it sums up; two first requests | `SupportChat` |
| Support presence (`support-chat.gateway.ts`) | an online counter per user and socket rooms, in the memory of each process | connect, disconnect, join, emits | a disconnect during the verification of the token; a process that restarts | `SupportDesk`, beside `SupportChat`; rooms and events are left out |
| Legacy migration (`scripts/legacy-migration`) | imported rows and `legacy_migration_records` | import from MySQL or a dump, re-run, rollback, verify | a row and its record are written, and deleted, one after the other; any statement of a rollback may fail; natural keys the application changes meanwhile; foreign keys against the order of deletion; scanning SQL text | `LegacyMigration`, `SqlDump` |
| Start-up and seed (`scripts/render-start.mjs`, `prisma/seed.ts`) | the migration lock; what the seed has reached | migrate with retries, seed, serve, exit | instances seed at once while staff change what they seed; a lock left behind | `Deployment` |
| Roles and permissions (`rbac.service.ts`, `jwt.strategy.ts`, `permission.guard.ts`, admins of `legacy.service.ts`) | roles, permissions and their links | assign, remove, delete, check | deletions under a seed that works from ids it read | `Deployment` |
| Trusted devices (`auth.service.ts` 135-164) | `trusted_devices` | register, revoke | limit checked before the insert, and only for unknown devices | status in `PlaybackSessions`; the limit is left |
| Playback progress (`playback.service.ts` 46-56) | position and watched seconds of session and history | heartbeat | increments of a distance from a stale position | not modelled |
| Other legacy mobile services (`legacy.service.ts`) | banners, trending lists, releases, views, comments, reports | single statements | little | not modelled |
| Maintenance (`scripts/maintenance-cleanup.ts`) | none of its own | expire playback sessions, delete revoked refresh sessions and old heartbeats | runs beside the requests | an action of `RefreshSessions` and of `PlaybackSessions` |
| Audit, health, metrics, logging, push notifications, admin tools, locator cipher, controllers and DTOs, configuration | append-only or none | - | nothing reads them back, or they are I/O, text and validation | not modelled |

How the parts meet: every authenticated request passes `JwtStrategy.validate`, which reads the
refresh session its access token names; suspension, removal, password change and replay therefore
act on all the others through `refresh_sessions` (`RefreshSessions`; `SignIn` has the users row
those transactions write and the deletion requests). Revoking a device ends playback sessions in the
database but not in Redis. The playback policy reads the catalogue, the subscriptions and grants,
and the devices: what `Entitlement` and `ContentTree` decide is `entitled` in `PlaybackSessions`. An
upload yields a storage key that a media asset or a chat message names. The permission guard in
front of the staff routes reads what seed and staff write (`Deployment`).

Correctness, per part: a login keeps at most one usable refresh token and replays end what they can
see, and a refusal lasts but for what was in flight; a lock lasts (sign-in); ended is final, and
what a client may play is in the cache (playback); paid time is kept, a review decides once
(entitlement); nothing is live below a deleted row after a completed cascade, restoring puts nothing
on air, and all pages show the same catalogue, but for what overlapping requests of staff can do;
what was stored is whole, and what was acknowledged can be completed (uploads); the summary never
announces what is not there (chat); a run owns exactly the rows it created and accounts for them
(migration); nothing serves behind half a seed (deployment). The `hazards` of `PROJECT.json` list,
line by line, what endangers these, with the properties that watch it.

## 2. How the models are cut

PostgreSQL runs at its default READ COMMITTED. A single conditional UPDATE is one step; an open
transaction shows nothing until it commits and holds the rows it updated; a statement over many rows
takes its rows from the snapshot at its start and looks again at each before writing it. Redis
commands are steps of their own. A process can die between any two steps (`Crash`): an open
transaction rolls back, everything committed or stored stays. Clients may send anything they hold at
any time, so a lost answer is a crash followed by another request, a retry or a duplicate is a
second request.

`req` is the same idea in every module of the API: what each request being served knows and where in
its handler it is (`pc`). An action is one stretch of a handler between two awaits that matter.
Variables called history in their comment are read by properties only.

### RefreshSessions and TokenFamilies

One account. `row` is the state of each `refresh_sessions` row, `replacedBy` its `replaced_by_id`,
`expired` the rows past `expires_at`, `account` the user's status. `family` and `late` are history:
the login a session descends from, and the sessions that a login or a refresh committed after the
revoking UPDATE of a suspension or removal had taken its snapshot. `LoginCheck`, `LoginRecord`,
`LoginIssue` are the three database steps of `login`; `RefreshRead`, `RefreshConsume`,
`RefreshCommit` the lookup, the conditional consumption and the commit of `refresh`, `RefreshReplay`
its branch for a used token. Every bulk revocation is `SweepBegin` (snapshot; the user row is locked
by those that update it) and `SweepEnd` (the waits are over, rows still unrevoked are written).
`Cleanup` is the maintenance job with the foreign key's SET NULL. `TokenFamilies` is the promise
without database or requests: open a family, trade its live token, end families; `Families` maps the
sessions to it.

### SignIn

One account from before its registration to after its deletion, and one caller's rate-limit counter.
`Attempt` is INCR with its verdict, `Expire` the EXPIRE that only the first caller of a window
sends, `ExpireLost` and `AttemptUncounted` the guard's answer to a Redis that is away. `LoginRead`
takes the read of the account and `argon2.verify` together (nothing is written between them),
`LoginFail` and `LoginRecord` write what follows from that read. Status changes, removal and the
review of deletion requests are the statements of their handlers on the users row and the requests;
the sessions that a login is issued or a status change revokes in its transaction are in
`RefreshSessions`, where that transaction is cut at its statements. `early` and `cut` are history:
an attempt that read the account before the latest lock; a review, or the setting of an expiry, cut
off half way.

### PlaybackSessions

One user. `sess` are the rows in order of creation, `caps` says for which row each capability was
issued, `redis` which entries exist, `held` which capabilities a client received, `expiry` how many
have expired: all live equally long, so they expire in the order of their issue. `entitled` stands
for publication, media, subscription and grants, and changes at any time. `start` is
`StartAuthorize`, `StartFind`, `StartCreate`, `CacheAndAnswer`; a running session of the same
episode and device is rotated, which is also `resume`: `RotateRead`, `RotateWrite`, `RotateDrop`,
`CacheAndAnswer`. Serving and stopping are `Presents` (cache), `ValidateSession` (policy and row),
`Recache`, then for a stop `StopClose`, `RevokeRead`, `RevokeDelete`. The reads of the policy are
one step. Positions and history are left out: a `Heartbeat` uses a capability as a request to the
gateway does and adds nothing the model tells apart.

### Entitlement

One viewer on a clock of days. `subscribe` and `extend` are a read and a write (`SubscribeRead`,
`ExtendRead` and the steps after them), so is the review of a subscription request, whose approval
writes subscription, payment and membership in one transaction. Groups, members and grants are
single statements. The queries that read these rows, for playback and for the list of unlocked
episodes, write nothing and are left out; so are history and audit rows, which are never read back.

### ContentTree

The four tables as one forest: `at` (absent, live, deleted), `parent`, `pub` (`is_published`),
`status`. Check-then-write operations are two actions (`CreateCheck`/`Create...`,
`UpdateCheck`/`MoveCheck`/`Update...`, `RestoreMediaCheck`/`RestoreMedia`); conditional single
statements are one; `remove` is a transaction that holds the removed row and works from the ids it
read; bulk deletion is one committed statement per level (`BulkDelete`, `BulkNext`). A read of ids
is taken together with the statement before it. `ListedDramas`, `DramaSeasons`, `ListedSeasons`,
`SeasonEpisodes`, `ListedEpisodes` and `OnAir` are the six queries of a visitor, each with the
conditions its own service writes. `stray` and `late` are history: the rows that a season restored
below a deleted drama, or an interrupted bulk deletion, left live below a deleted one; and the rows
whose publication or status an update wrote, by id, after their deletion, until those columns are
written anew. `MCContentTree` adds `overlap`: a request has been served while another was.

### Uploads

One upload session. `manifest` is what Redis holds, `req[r].man` a request's copy of it, `part` what
the storage holds per chunk, `object` the finished object. `remote` chooses, at the start, the R2
branch or the staging directory. R2 is external and modelled as the code uses it: a part replaces
the part of its number, completion needs an open upload and the ETag of every part stored last.
`acked` is history: chunks answered to a client that sends one request at a time.

### SupportChat and SupportDesk

One user's conversation: `msg` in order of insertion, invisible until committed, and the row `conv`
with its counters. Creating the conversation fails for the second of two creators (unique
`user_id`); a send is `Insert` and `SendCommit`; `markSeen` is `SeenMark` and `SeenCommit`.
`overlap` is history: two requests have been served at once. `SupportDesk` extends it with the
sockets of both sides and the map of one process: `Connect` and `Accepted` (or `Refused`) are the
two halves of `handleConnection` around the verification of the token, `Disconnect` may come between
them, `Restart` is a process that starts anew. A step of the desk leaves the conversation alone and
the other way round. Rooms and events are left out: the gateway emits through the default in-memory
adapter, to the sockets of its own process, and neither code nor documents promise who hears what.

### LegacyMigration and SqlDump

One script at a time (`job`), as the operator's guide has it, over the legacy rows `Source` in the
order they are imported. Per row: `TakeOver` (a record of any run), `Duplicate` (a row with its
natural key as it is now), or `Create` and `WriteRecord`. `Rollback` takes the records of one run,
`Delete` and `Unrecord` are its two statements per row, with Restrict and Cascade as in the schema;
each may fail otherwise too, carried out or not (`DeleteFails`, `UnrecordFails`), which the script
reports before it goes on. `AppCreate`, `AppUse` and `AppRename` are the application beside it: rows
with the same key, rows that refer to imported ones, and changes of the email, slug, number or place
by which an importer would look a row up. `cut` is history: records whose row a rollback deleted,
but not them. `SqlDump` is the text side: `Scan`, `SplitFields`, `Tuples` and the rest follow
`import-sql.ts` character by character class, against a dump written the way mysqldump writes it
(external): `Char` are its characters, among them the `Signs` the scanners tell apart, and `Dumps`
any dumps `Written` with them.

### Deployment

Instances of `render-start.mjs` against one database. `Migrate`, `MigrateBusy`, `MigrateDone` and
`MigrateFail` are a migration and its retries, `SeedPermission` to `SeedOwnerRole` the statements of
the seed, each its own commit, with the permission ids read at first (`ids`) used later, and
`StaffChange` the staff's changes, each guarded as `JwtStrategy` and `PermissionGuard` guard it. A
killed migration may leave its advisory lock for any time. `calm` is history: the instances since
whose seed began nothing was taken away.

## 3. The runs

States are distinct states, with symmetry between interchangeable values where noted in the MC
module; every run finishes in under five minutes on two workers.

| Run | Question and answer | Bounds |
|---|---|---|
| `refresh_sessions` | Safety of all session operations, what a suspension can miss, and refinement of `TokenFamilies`. Holds. | 3 sessions, 2 requests |
| `refresh_live` | Does every request end? Yes: the waits for user and session rows form no cycle. | 2 sessions, 2 requests, no symmetry |
| `refresh_replay` (violation) | Does a replay revoke its whole family? No: see the findings. | 3 sessions, 2 requests |
| `sign_in` | Locks, deletion requests and the rate limiter with two requests at once. Hold, with the exceptions the properties name. 0.5 million states. | limits of 2, 2 deletion requests, 2 requests |
| `playback_sessions` | Two requests of any kind on two sessions of one stream: the entry of a current capability is never lost, an ended session stays ended. | 2 sessions, 3 capabilities, 2 requests |
| `playback_limit` (violation) | Do overlapping starts keep the limit? No: see the findings. | 2 episodes, limit 1 |
| `entitlement` | Two requests of staff and viewer between their reads and writes, while time passes. Holds. 3.2 million states. | 2 subscriptions, 1 group, 1 grant, 1 request to review, days 0-3 |
| `content_tree` | Any sequence of catalogue requests, cut off anywhere. One at a time: cascades, repeated bulk deletion, restore. Overlapping in any way as well: publication columns and the six queries. Holds, with the exceptions the properties name. 1.4 million states. | 2 dramas, 2 seasons, 1 episode, 1 media asset; 2 requests, which overlap while there are at most 4 rows |
| `uploads` | Two requests at every interleaving, in both storage branches. 1.6 million states. | 2 chunks, 3 contents of 2 sizes, 2 requests |
| `support_chat` | Two requests of both sides at every interleaving, with sockets that come and go and a process that restarts. Holds. 1.7 million states. | 3 messages, 2 requests, 2 sockets, 1 lost connection |
| `legacy_migration` | Imports, re-runs and rollbacks of two runs, dying anywhere, any statement of a rollback failing, beside the application; before them, the reading of each of the small dumps. Holds, with the exceptions the properties name. 0.6 million states. | 6 legacy rows, one without a natural key, 3 scripts, 7 rows, 1 step of the application; strings of at most 2 characters that matter |
| `deployment` | Two instances start over and over while staff change things. Holds, and every start ends. 0.9 million states. | 2 instances, 2 users, 2 roles, 1 permission, 2 retries |

Why these bounds are enough to meet the interesting cases:
- Two requests are what every race named in the hazards needs; none needs a third to be set up,
  because the earlier operations can be completed first.
- Three sessions give a login with two rotations (a chain of links, and a replay of its first token
  while the second rotates), or a login and a rotation beside another login.
- A limit and a threshold of two have a first attempt (which sets the expiry), one at the limit, one
  past it, and a failure that locks after one that does not; two attempts at once read the same
  count.
- Two playback sessions and three capabilities give a stream that is rotated or started anew while
  the old capability is still being dropped, written back or revoked.
- Two subscriptions and three days give one that starts where the other ends, an extension that
  overwrites another, and windows that are over, current or still to come.
- Two dramas and two seasons show moves between parents, and bulk calls naming one row or both; four
  rows have a row of each level, or a move, while two requests overlap (`MaxShared`).
- Two chunks and a content twice as long as the others give retries that change the total, and
  totals that are right with the wrong parts.
- Three messages: the welcome and two, so that one is sent while another is being marked.
- The legacy rows have one table of each kind: two tables with one key, a chain of parents, an
  entity the rollback does not know, one that goes by cascade and has no natural key. Three scripts
  allow an import, its rollback and another import, or two imports and a rollback. Quote, backslash,
  separators, a head of a statement and a line end, in every pair, meet every transition of the
  scanner.
- Two instances seed one database at once; with one permission a staff member can delete it, create
  it anew and grant it between any two statements of either seed.

`MaxSession`, `MaxCap`, `MaxMessage`, `MaxGhost`, `MaxTime`, `MaxEnd`, `MaxSub`, `MaxGrant`,
`MaxAsk`, `MaxScript`, `MaxRow`, `MaxApp` (steps of the application beside the scripts) and
`MaxShared` are bounds in guards (creations stop at them, and overlaps at the last); they cut off
longer histories only. Deadlock is checked except in `uploads`, where a session ends when its
manifest is gone, and in `legacy_migration`, where the scripts are used up.

Each property of a passing run has a mutant in `PROJECT.json`: a plausible bug put into one mapped
definition (kept beside it, marked "Mutant") with which TLC finds the property violated. `TypeOK` of
`SignIn`, `Entitlement`, `Uploads` and `LegacyMigration` is not among the properties of their runs;
it is proved (section 5).

### Properties worth a comment

- `ReplayMissesOnlyRotations` says what the revocation of a replay does achieve. The promise of the
  documents (`ReplayRevokesFamily`) fails, and a weaker one would be empty; what holds is that a
  session can escape only if its family's live session was in the statement's snapshot and was
  consumed by a refresh while the statement waited for it.
- `CurrentCapabilityCached` is about orders: each handler writes the row before it deletes an entry,
  and deletes only what it read. One that deleted what the row names by then would lock a client out
  (its mutant).
- `BulkDeleteCompletes` is the reason the levels are looked for among deleted rows too.
- `PublicationAgrees` and `ViewsAgree` hold of requests that overlap: the page of a season asks for
  `is_published` only and the list of episodes for the status too, and that they agree is a property
  of the six statements that write the two columns. One exception is the code's: an update that
  checked its row before a deletion and wrote after it (`late`). Restored, such an episode is a
  draft with `is_published` set, which the page of its season shows and the list does not.
- `CascadeComplete`, `BulkDeleteCompletes` and `RestoreStaysOffAir` are promised of requests served
  one at a time and cut off anywhere (`overlap`): each parent is checked in one statement and relied
  on in another, so requests that overlap break them.
- `ImportedOnce` speaks of all rows, recorded or not, and says exactly how a legacy row comes to be
  imported twice: past the look-up by natural key (it has none, or the application has changed it or
  its parent, or the two importers make different slugs) and past the records (`migrate.ts` reads
  none, and one is missing if the import died before it was written).
- `AcknowledgedCompletes` and `SummaryExact` speak of clients that do not overlap their requests
  (`overlap`, `acked`). In parallel they are false, and nothing in the repository promises them;
  `BytesAddUp`, `ObjectSound` and `UnreadNeverOverstates` hold with any overlap.
- `RefusedForGood` is checked where the transactions of a suspension or removal are cut at their
  statements: a session refused once comes back only if a login or a refresh in flight committed it
  after the revoking UPDATE had taken its snapshot.
- `LockHolds`, `PaidTimeKept` and `ReviewIsFinal` name the races the code has as their only
  exceptions (an attempt or login that read before, an extension that overwrites one it did not see,
  reviewers who found the request pending together) and exclude every other way to the same outcome.
- `RecordsOwn` is what makes a rollback safe; `RollbackAccounts` says that its report is complete,
  whichever statement fails, and that the order of its deletions is never why the database refuses.
- `VerifyAgrees` leaves out the rows a rollback has deleted without their record: it died between
  the two statements, is between them, or one of the two failed.
- `OnlineCounts` allows for the sockets that went while their token was verified, and nothing else.

### Fairness

`refresh_live`: strong fairness of `Progress(r)`, the steps a server takes on its own for a request
it has accepted. A step may be disabled for a time because another transaction holds the row, again
and again; PostgreSQL queues the waiters of a row in order of arrival, so a request that finds the
lock released infinitely often gets it.

`deployment`: weak fairness of `Proceed(i)`, the next step of a start that is under way; the
operating system runs the script and Prisma answers or fails. Nothing is assumed of the lock of a
killed migration, so `StartEnds` rests on the bounded retries.

Clients, administrators, the clock, crashes and the cleanup job owe nothing anywhere.

## 4. Findings

| Run | Code | Document |
|---|---|---|
| `refresh_replay` | `auth.service.ts:84`: the revoking UPDATE sees committed sessions; the replacement of a refresh still in its transaction stays usable. | `SECURITY_ARCHITECTURE.md:31` "reuse detection revokes the entire token family" |
| `playback_limit` | `playback-policy.service.ts:48`: counted before the insert, without lock or constraint; two overlapping starts exceed the limit. | `playback-policy.service.spec.ts:33` "rejects a second concurrent session at the configured limit" |

Seen while modelling, in the models where a module is named, and claimed by no run:

- `PlaybackSessions`: a start that passed the policy inserts an active session on a device revoked
  meanwhile (`playback.service.ts:29`; `MILESTONE_3_COMPLETION.md:50` "Trusted-device revocation
  closes active playback sessions"). It does not play while the device stays revoked. Revoking a
  device touches no Redis entry (`auth.service.ts:158`; `README.md:27` "revocation removes the cache
  entry"); the row is still checked, so the entry alone does not play. Overlapping starts of one
  stream make two sessions of it. A status poll that found a session expired ends it although a
  resume renewed it.
- `RefreshSessions`: the replacement of a refresh, and the session of a login, that commit after a
  suspension has taken its snapshot are not revoked; refused while the account is suspended, they
  count again once it is reactivated (`users.service.ts:65`).
- `ContentTree`, with two requests: parent check and insert are two statements
  (`seasons.service.ts:33` and its siblings), so a child can appear below a deleted parent
  (`MILESTONE_2_COMPLETION.md:43` "Deleted parent content is excluded from child creation"); an
  update that overlaps a deletion can publish a deleted episode, and a restore leaves its
  `is_published` set: a draft that the page of its season shows and the list does not. Not modelled:
  the visitor routes are public and carry no principal, so the branch for administrators
  (`MILESTONE_2_COMPLETION.md:42`) is never taken there.
- `LegacyMigration`: the deletions of a rollback cascade to rows nobody recorded (`rollback.ts:18`),
  and it neither removes nor reports episodes, media assets and the other entities its list leaves
  out (`MIGRATION_GUIDE.md:19` "removes only rows recorded as created by that run and reports rows
  that cannot be removed"). If only the deletion of a record fails, the rollback goes on and the
  record of a deleted row stays. A re-import after a rollback takes over records that remained,
  whether or not their rows are there. A row without a natural key whose import died before its
  record was written, and a row whose email, slug or number the application has changed and
  `migrate.ts` looks up, are imported again (`scripts/legacy-migration/README.md:28` "Existing
  records are reported as duplicates").
- `SupportChat` and `SupportDesk`: a message reopens a blocked conversation; a message committed
  between the two statements of `markSeen` is neither seen nor counted. Staff in a room get an event
  twice, and only from their own process (`support-chat.gateway.ts:91`); a socket keeps the
  principal it connected with.
- `SignIn`: simultaneous failures count once; a slow failure can end a lock; after a crash between
  INCR and EXPIRE the counter never runs out; an approval cut off between its two statements cannot
  be repeated.
- `Entitlement`: two extensions at once count once; two subscriptions at once overlap; two reviewers
  at once both decide, and both approvals charge. Not modelled: the list of unlocked episodes
  (`access.service.ts:27`) asks neither for publication nor for deletion, as the playback policy
  does.
- `Deployment`: every start seeds again, so a restart undoes what staff removed from the roles of
  the seed and reactivates the super admin.

## 5. Proofs

TLAPS checks the eight modules whose names end in `Proofs`, for all values of the constants that
meet these assumptions, each of which TLC evaluates in the runs of its module:

| Module | Of | Assumptions |
|---|---|---|
| `RefreshSessionsProofs` | `RefreshSessions`, `TokenFamilies` | `NoneAssumption`: `None` is no session; for `ReplayRevokesWhenApart` alone, `RefreshApart` |
| `PlaybackSessionsProofs` | `PlaybackSessions` | `LimitAssumption`: the limit is positive; for `LimitWhenApart` alone, with `OpenApart` |
| `SignInProofs` | `SignIn` | `LimitsAssumption`: limit and threshold are positive, the bounds natural |
| `EntitlementProofs` | `Entitlement` | `EntitlementAssumption`: `None` is no group, finitely many episodes, windows and days are natural numbers |
| `ContentTreeProofs` | `ContentTree` | `RowsDistinct`: the ids of the four tables differ; nothing of how requests overlap |
| `UploadsProofs` | `Uploads` | finitely many chunks, positive sizes, `None` is no content |
| `SupportDeskProofs` | `SupportChat`, `SupportDesk` | the bounds are natural numbers |
| `ScriptsProofs` | `LegacyMigration`, `Deployment` | `RunAssumption`; `SourceAssumption`: legacy rows name earlier ones, what `migrate.ts` reads has natural keys; `DumpAssumption`: the signs are characters of a dump, and a dump has rows with fields, its numbers and NULLs have no sign in them; `SeedAssumption`: the owner is a user, the seed links its roles to its permissions, at least one attempt |

All proofs have one shape. The property is strengthened to an invariant `IInv` (in `ScriptsProofs`
also `SeedInv`, in `SupportDeskProofs` `ChatInv` and `DeskInv`), each part of which is named for
what it says of the code; `IInv` holds initially and is kept by every action; the property follows.
`TypeCorrect` states the type invariant, also where the run leaves it out.

**Refresh sessions.** `OneLivePerLogin` and `LinksSound` are not inductive alone. The invariant
`IInv` adds: an id drawn for a replacement has no row yet and belongs to one request (`DrawnIds`);
an open refresh holds an active session that no other open refresh holds (`RequestsSound`); the
family of an issued session is an issued session (`FamiliesNamed`). The only steps that make a
session active are `LoginIssue`, with a family of its own, and `RefreshCommit`, which revokes the
family's one active session in the same step. Everything that only revokes is covered by one lemma
(`RevokeSome`), everything that touches no row by another (`QuietStep`).
- `TypeCorrect`, `SingleLiveToken`, `LinksAreSound`: the three invariants.
- `ReplayMisses`: the action property. It rests on a second invariant, `ReplayCovered`, proved
  relative to the first: while a replay is sweeping, an active session of its family either is in
  the snapshot or was made by rotations of one that is. `NextRowsMoveOn` (rows only go from absent
  to active to revoked to purged) carries it through the steps.
- `ReplayRevokesWhenApart`: what the documents promise, `ReplayRevokesFamily`, holds of every
  behaviour in which no refresh of the family is between consuming its session and its commit while
  the replay's statement runs (`RefreshApart`). The snapshot then has every live session of the
  family (`ReplaySnapped`): a session comes alive by a login, in a family of its own, or by such a
  commit (`NewlyActive`). Refreshes of other logins, logins, other revocations and crashes may
  overlap it, and TLC finds such overlaps. `refresh_replay` shows that the hypothesis is needed.
- `RefusedAlways`: rests on `Accounted`: an active session that is not late has an account in use or
  deleted, and the snapshot of a suspension or removal that is sweeping has all of them. The account
  leaves use only in the transaction that takes the snapshot (`SweepOrigin`, `AccountMoves`), and a
  session comes into use only by a login or a refresh, which are late if a sweep is under way
  (`NewlyInUse`).
- `SessionsImplementFamilies`: every step is a step of `TokenFamilies` or a stutter. `LoginIssue` is
  `Open`, `RefreshCommit` is `Rotate`, every revocation is `End`; the mapping chooses a family's
  active session, which `OneLivePerLogin` makes unique.

**Playback sessions.** `CurrentCapabilityCached` needs to know what a request that is about to
delete an entry has read (`RequestSound`: the capability belongs to its session, and either the row
has moved on to a later one or the session has ended), that rows name capabilities issued for them
(`RowsNamed`, `CapsNamed`, `HeldIssued`), and that rows only move forward (`Grows`: capabilities are
never reissued, a row only names later ones, ended stays ended). The proof of a step is one of six
generic lemmas (quiet, status, delete, issue, cache, end) applied to each action.
- `TypeCorrect`, `CurrentStaysCached`, and `EndedForGood` for the action property `EndIsFinal`.
- `LimitWhenApart`: the limit that `playback_limit` shows broken holds of every behaviour in which
  at most one start or resume at a time is between its checks and its write (`OpenApart`), whatever
  stops, expiries, revocations, gateway requests and crashes come between. That is worth a proof
  because a resume does not look at the limit: it is safe as its session counts already, or as its
  stream has no other session that could. `Limited` says so: there is one session in play per
  stream, and what an opening request has checked still holds, its own session counted even if it
  has expired since. Every step either brings no session into play (`Settles`) or is the opening
  request's own write.

**Sign-in.** What makes a lock last is `ReadersEarly`: while an account is locked, every attempt
that has read it did so before, for the lookup turns the others away. `ApprovalFollowed` keeps, for
each approved deletion, the request that will carry it out or its end in between.
- `TypeCorrect`, `ApprovalAlways`, `CounterAlways`; `LockHoldsAlways` for the action property.

**Entitlement.** `DeletedGroupIsGone` is inductive with the types. `ExtensionGrows` says that an
extension about to be written ends no earlier than the period it read, so that only a period it did
not see can be shortened (`PaidTimeKept`).
- `TypeCorrect`, `DeletedGroupAlways`; `ReviewAlways` and `PaidTimeAlways` for the
  action properties.

**Catalogue.** The theorems hold for any rows and any number of requests that overlap in any way and
are cut off anywhere. `Shape` is the types, what a request works on (`Kinds`: rows of its
operation's kind) and that every row but a drama was inserted below another (`Placed`); with
`PublicationAgrees` it is inductive. The actions are sorted into shapes first (`Step`: rows deleted,
inserted, written, revived, published, or none of them touched), and the parts of the invariant are
proved of each shape. A deletion withdraws a row in the statement that deletes it, and a restore
leaves it withdrawn. Publication does, and finds out in the same statement that the row is not
deleted; an update does not, which is what `late` records. The views then follow in every state from
the agreement of the columns and the place of an episode below a season below a drama
(`ViewsFollow`).
- `TypeCorrect`, `PublicationAlways`, `ViewsAlways`.

**Uploads.** `Bytes` is a fold over the chunks, and no backend can instantiate the induction theorem
for finite sets. It is proved instead to be the cardinality of a set, the bytes of the chunks
(`ByteSet`): a least set of chunks for which they differed would have a smaller one. How the sum
changes when a chunk is replaced then follows from facts about cardinalities. `IInv` says that every
copy of the manifest in a request's hands adds up like the one in Redis (`CopiesAddUp`), and what
`complete` has checked of the chunks it is about to join (`CompleteChecked`); for a client that
uploads one chunk at a time, that nothing else is in flight and that what was acknowledged is listed
and stored (`Alone`, `AckedListed`, `AckedStored`).
- `TypeCorrect`, `BytesAlways`, `ObjectAlways`, `AcknowledgedAlways`.

**Support chat and desk.** An open message is its sender's alone until it is committed or undone
(`SendOwned`); a `markSeen` has marked committed messages of the other side (`MarkOwned`); while
requests have not overlapped, the message in hand is the newest and the marks are all there is to
mark (`Alone`). The counters are compared with cardinalities of sets of messages. A step of the desk
leaves the conversation alone, so `ChatInv` carries over to `DeskSpec`; `DeskInv` adds that the open
sockets of a side are finitely many, so that they can be counted.
- `TypeCorrect`, `UnreadAlways`, `WelcomeAlways`, `SummaryAlways`, `OnlineAlways`.

**Legacy migration.** The invariant says where a script stands. `Inserted`: a row without its record
is the import's last one, there, and newer than all that any run has made. `RowsHang`: imported rows
hang from rows of the right kinds and keep their names unless renamed. `RollsBack`: the records of
the run are before the rollback or among its failures. `RecordsStand`: recorded rows of the entities
a rollback knows are there, but for an unfinished deletion (`cut`, `Current`). `ImportedOnce` is in
the invariant itself: an import that creates a row has found neither a row by its key below the
parents it has resolved nor, if it consults them, a record, so each earlier row of the same legacy
row differs in key or parent or has none, and is not remembered; later steps only rename and delete.
`Found` counts by cardinality, and a bijection from records to rows makes it right.
- `TypeCorrect`, `RecordsOwnAlways`, `ImportedOnceAlways`, `VerifyAlways`, and `RollbackAlways` for
  the action property.

**The dump.** `DumpRoundTrip` says that what `import-sql.ts` reads from a dump is what mysqldump
wrote, for any number of rows and fields and strings of any characters. The scanner, `Join` and
`ParseDump` are recursive functions over positions, and the library's induction theorems cannot be
instantiated; `Counting` has induction over a set of numbers from its least counterexample
(`WFMin`), and `Forward` and `Backward` show that functions given by such equations exist, so that
`CHOOSE` picks one. Then:
- The scanner sees in a part of a text what it sees in the part alone (`Local`), if it enters the
  part outside a string and the part ends outside one (`Neat`) without a quote that the next part
  doubles (`Apart`). So what stands outside the strings of joined neat parts is what stands so in
  the parts, and the commas between (`JoinOutside`).
- A string between its quotes is neat, shows no sign, and is read back character by character
  (`TextSpelled`, `TextClean`, `TextRead`), whichever way its quotes are marked.
- `SplitFields` and `Tuples` number positions by how many come before them. `NthIs` says that in a
  rising list this is the place in the list; `SplitJoined`, `TuplesAre`, `BodySays` and
  `StatementRead` take it from fields to rows, tuples and statements. `WholeRead` and `SplitRead`
  read the dumps with one statement for all rows and with one for each.
- `DumpRead` is the statement about all `Written` dumps, `DumpAlways` the invariant.

**Deployment.** `ServesSeeded` looks at instances that serve; its invariant follows a seed through
its loops. `Sound(i)`: the ids and links an instance has in hand name rows that are there, and
beyond the migration the migrations are applied, whatever staff did. `Reached(i)`: as long as the
instance is in `calm`, what a loop has put behind it is in the database. A step either lets the
database grow (`Grows`), which keeps what others have reached (`GrowthKeeps`), or empties `calm`
(`StaffStep`); the instance that steps has reached what its place in the script says
(`SeedOwnStep`).
- `DeployTypeCorrect`: links, roles of users and grants name rows that are there, under any seeds
  and deletions at once. `ServesSeededAlways`.

Only model-checked: the two liveness properties, `RequestsEnd` and `StartEnds`, which are outside
the prover's fragment; and, of the catalogue, `CascadeComplete`, `BulkDeleteCompletes` and
`RestoreStaysOffAir`, which are stated of requests served one at a time. The two violated properties
of the findings are false; what is proved of them is proved under the hypotheses that exclude the
overlaps of the findings, `RefreshApart` and `OpenApart`, which are no assumptions of the models.

## 6. What is left, in order

1. The catalogue with two requests at once: which rows escape a cascade, as exceptions of
   `CascadeComplete` in place of `overlap`, and then a proof.
2. `PlaybackProgress`: the position and the watched seconds of heartbeats that overlap; and the
   limit of `registerDevice`, which counts active devices before the insert and does not look at it
   for a device that has a row.

Not modelled: what has no state of its own or none that is read back (audit, metrics, health,
logging, notifications, admin tools), what is text or cryptography (media locators, manifests,
DTOs), and PostgreSQL, Redis, R2, Prisma's migrations and the socket library themselves, which are
modelled only by what the code relies on. Not modelled inside the modelled parts: names, numbers,
slugs but for what tells two imports apart, fingerprints, IP addresses, audit rows; `deleteMessage`
and attachments of the chat, typing events; the request counter of a capability; uploads without
`STORAGE_UPLOAD_URL`; the conversion of legacy fields and the importers' dry run; permissions whose
codes no route asks for.
