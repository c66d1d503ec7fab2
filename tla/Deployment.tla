----------------------------- MODULE Deployment ------------------------------
(***************************************************************************)
(* Instances of the service coming up (scripts/render-start.mjs: migrate,  *)
(* seed, serve), the seed they all run against one database                *)
(* (prisma/seed.ts), and the staff who change roles and permissions while  *)
(* others restart (src/rbac, the admins of src/legacy, src/users), as far  *)
(* as the principal and the permission guard let them.                     *)
(*                                                                         *)
(* Every statement of the seed commits by itself.  Its loops run over      *)
(* fixed lists; the order within a loop is left open.  Prisma's migration  *)
(* takes an advisory lock; the session of a killed migration may hold on   *)
(* to it for any time.  A staff request is a step: nothing in it depends   *)
(* on what it read before.                                                 *)
(*                                                                         *)
(* Permission is the set of the codes of the seed.  Staff may add rows of  *)
(* other codes; no route asks for them, so they are left out.              *)
(***************************************************************************)
EXTENDS Naturals

CONSTANTS Instance, User, Role, Permission,
          Owner,            \* the user of SEED_SUPER_ADMIN_EMAIL
          RolePermissions,  \* rolePermissions of the seed
          Retries           \* migrationRetries

ASSUME SeedAssumption ==
  /\ Owner \in User /\ "SUPER_ADMIN" \in Role
  /\ RolePermissions \in [Role -> SUBSET Permission]
  /\ Retries \in Nat \ {0}

VARIABLES
  inst,      \* what each instance is doing
  lock,      \* the migration lock is held
  migrated,  \* the migrations are applied
  code,      \* codes with a permission row
  role,      \* codes with a role row
  link,      \* role_permissions
  account,   \* users: "absent", "ACTIVE", "SUSPENDED" or "DELETED"
  has,       \* has[u]: roles of the user
  granted,   \* granted[u]: permissions given to the user as such
  calm       \* history: instances since whose seed began staff took nothing away

database == <<code, role, link, account, has, granted>>
deployVars == <<inst, lock, migrated, database, calm>>

(* perms, roles, links: what the seed's loops have still to do, links for  *)
(* the role in hand; ids: permission rows the seed has read and that are   *)
(* still there.                                                            *)
Down == [pc |-> "down", attempt |-> 1, perms |-> {}, roles |-> {}, links |-> {}, ids |-> {}]

InstanceState ==
  [pc : {"down", "migrate", "migrating", "seed", "owner", "api"},
   attempt : 1 .. Retries, perms : SUBSET Permission, roles : SUBSET Role,
   links : SUBSET (Role \X Permission), ids : SUBSET Permission]

DeployTypeOK ==
  /\ inst \in [Instance -> InstanceState]
  /\ lock \in BOOLEAN /\ migrated \in BOOLEAN
  /\ code \in SUBSET Permission /\ role \in SUBSET Role
  /\ link \in SUBSET (role \X code)
  /\ account \in [User -> {"absent", "ACTIVE", "SUSPENDED", "DELETED"}]
  /\ has \in [User -> SUBSET role]
  /\ granted \in [User -> SUBSET code]
  /\ calm \in SUBSET Instance

DeployInit ==
  /\ inst = [i \in Instance |-> Down]
  /\ lock = FALSE /\ migrated = FALSE
  /\ code = {} /\ role = {} /\ link = {}
  /\ account = [u \in User |-> "absent"]
  /\ has = [u \in User |-> {}] /\ granted = [u \in User |-> {}]
  /\ calm = {}

-----------------------------------------------------------------------------
(* Helpers                                                                 *)

At(i, pc) == inst[i].pc = pc
Seeding(i) == inst[i].pc \in {"seed", "owner"}
Exit(i) ==
  /\ inst' = [inst EXCEPT ![i] = Down]
  /\ calm' = calm \ {i}

(* The principal of a request and the permission guard. *)
Permitted(u) ==
  granted[u] \cup {p \in code : \E r \in has[u] : <<r, p>> \in link}

Allowed(u, p) ==
  /\ account[u] = "ACTIVE"
  /\ "SUPER_ADMIN" \in has[u] \/ p \in Permitted(u)

(* An instance serves a member of the staff who may do what needs p. *)
Staff(u, p) == (\E i \in Instance : At(i, "api")) /\ Allowed(u, p)

-----------------------------------------------------------------------------
(* Starting: the migrations, then the seed, then the service               *)

Start(i) ==
  /\ At(i, "down")
  /\ inst' = [inst EXCEPT ![i].pc = "migrate"]
  /\ UNCHANGED <<lock, migrated, database, calm>>

Migrate(i) ==
  /\ At(i, "migrate") /\ ~lock
  /\ lock' = TRUE
  /\ inst' = [inst EXCEPT ![i].pc = "migrating"]
  /\ UNCHANGED <<migrated, database, calm>>

(* Mutant: the attempt is not counted. *)
MigrateBusyAgain(i) ==
  /\ At(i, "migrate") /\ lock
  /\ inst' = [inst EXCEPT ![i].pc = "migrate"]
  /\ UNCHANGED <<lock, migrated, database, calm>>

(* The lock is not to be had in time: another attempt, or the end. *)
MigrateBusy(i) ==
  /\ At(i, "migrate") /\ lock
  /\ inst' = [inst EXCEPT ![i] = IF inst[i].attempt = Retries THEN Down
                                 ELSE [inst[i] EXCEPT !.attempt = @ + 1]]
  /\ UNCHANGED <<lock, migrated, database, calm>>

MigrateDone(i) ==
  /\ At(i, "migrating")
  /\ lock' = FALSE /\ migrated' = TRUE
  /\ inst' = [inst EXCEPT ![i] = [Down EXCEPT !.pc = "seed", !.perms = Permission,
                                              !.roles = Role]]
  /\ calm' = calm \cup {i}
  /\ UNCHANGED database

(* Any other failure of the migration ends the start. *)
MigrateFail(i) ==
  /\ At(i, "migrating")
  /\ lock' = FALSE
  /\ Exit(i)
  /\ UNCHANGED <<migrated, database>>

SeedPermission(i, p) ==
  /\ At(i, "seed") /\ p \in inst[i].perms
  /\ code' = code \cup {p}
  /\ inst' = [inst EXCEPT ![i].perms = @ \ {p}, ![i].ids = @ \cup {p}]
  /\ UNCHANGED <<lock, migrated, role, link, account, has, granted, calm>>

(* The roles come after all permissions, each with its links. *)
SeedRole(i, r) ==
  /\ At(i, "seed") /\ r \in inst[i].roles
  /\ inst[i].perms = {} /\ inst[i].links = {}
  /\ role' = role \cup {r}
  /\ inst' = [inst EXCEPT ![i].roles = @ \ {r}, ![i].links = {r} \X RolePermissions[r]]
  /\ UNCHANGED <<lock, migrated, code, link, account, has, granted, calm>>

(* By the ids read before: a permission deleted since is a foreign key     *)
(* error, also when another instance has created it anew.                  *)
SeedLink(i, r, p) ==
  /\ <<r, p>> \in inst[i].links /\ p \in inst[i].ids
  /\ link' = link \cup {<<r, p>>}
  /\ inst' = [inst EXCEPT ![i].links = @ \ {<<r, p>>}]
  /\ UNCHANGED <<lock, migrated, code, role, account, has, granted, calm>>

(* Mutant: an account that is there is left as it is. *)
SeedOwnerOnce(i) ==
  /\ At(i, "seed") /\ inst[i].perms = {} /\ inst[i].roles = {} /\ inst[i].links = {}
  /\ account' = [account EXCEPT ![Owner] = IF @ = "absent" THEN "ACTIVE" ELSE @]
  /\ inst' = [inst EXCEPT ![i] = [Down EXCEPT !.pc = "owner"]]
  /\ UNCHANGED <<lock, migrated, code, role, link, has, granted, calm>>

(* The account is created, or made active and undeleted. *)
SeedOwner(i) ==
  /\ At(i, "seed") /\ inst[i].perms = {} /\ inst[i].roles = {} /\ inst[i].links = {}
  /\ account' = [account EXCEPT ![Owner] = "ACTIVE"]
  /\ inst' = [inst EXCEPT ![i] = [Down EXCEPT !.pc = "owner"]]
  /\ UNCHANGED <<lock, migrated, code, role, link, has, granted, calm>>

(* The last statement of the seed; the service is started. *)
SeedOwnerRole(i) ==
  /\ At(i, "owner")
  /\ has' = [has EXCEPT ![Owner] = @ \cup {"SUPER_ADMIN"}]
  /\ inst' = [inst EXCEPT ![i] = [Down EXCEPT !.pc = "api"]]
  /\ UNCHANGED <<lock, migrated, code, role, link, account, granted, calm>>

(* A statement fails: the seed and with it the start end. *)
SeedFail(i) ==
  /\ Seeding(i)
  /\ Exit(i)
  /\ UNCHANGED <<lock, migrated, database>>

(* The instance is killed, or its service ends; the lock may linger. *)
Kill(i) ==
  /\ ~At(i, "down")
  /\ Exit(i)
  /\ lock' \in IF At(i, "migrating") THEN BOOLEAN ELSE {lock}
  /\ UNCHANGED <<migrated, database>>

(* PostgreSQL ends the session of a migration that was killed. *)
LockDropped ==
  /\ lock /\ \A i \in Instance : ~At(i, "migrating")
  /\ lock' = FALSE
  /\ UNCHANGED <<inst, migrated, database, calm>>

-----------------------------------------------------------------------------
(* Staff                                                                   *)

CreatePermission(u, p) ==
  /\ Staff(u, "permissions.write") /\ p \notin code
  /\ code' = code \cup {p}
  /\ UNCHANGED <<inst, lock, migrated, role, link, account, has, granted, calm>>

(* Mutant: what users were given stays. *)
DeletePermissionKeepsGrants(u, p) ==
  /\ Staff(u, "permissions.write") /\ p \in code
  /\ code' = code \ {p}
  /\ link' = {l \in link : l[2] # p}
  /\ inst' = [i \in Instance |-> [inst[i] EXCEPT !.ids = @ \ {p}]]
  /\ calm' = {}
  /\ UNCHANGED <<lock, migrated, role, account, has, granted>>

(* Its links and grants go with it. *)
DeletePermission(u, p) ==
  /\ Staff(u, "permissions.write") /\ p \in code
  /\ code' = code \ {p}
  /\ link' = {l \in link : l[2] # p}
  /\ granted' = [v \in User |-> granted[v] \ {p}]
  /\ inst' = [i \in Instance |-> [inst[i] EXCEPT !.ids = @ \ {p}]]
  /\ calm' = {}
  /\ UNCHANGED <<lock, migrated, role, account, has>>

AssignRole(u, v, r) ==
  /\ Staff(u, "roles.write") /\ r \in role /\ account[v] # "absent"
  /\ has' = [has EXCEPT ![v] = @ \cup {r}]
  /\ UNCHANGED <<inst, lock, migrated, code, role, link, account, granted, calm>>

RemoveRole(u, v, r) ==
  /\ Staff(u, "roles.write") /\ r \in role
  /\ has' = [has EXCEPT ![v] = @ \ {r}]
  /\ calm' = {}
  /\ UNCHANGED <<inst, lock, migrated, code, role, link, account, granted>>

AssignRolePermission(u, r, p) ==
  /\ Staff(u, "roles.write") /\ r \in role /\ p \in code
  /\ link' = link \cup {<<r, p>>}
  /\ UNCHANGED <<inst, lock, migrated, code, role, account, has, granted, calm>>

RemoveRolePermission(u, r, p) ==
  /\ Staff(u, "roles.write") /\ r \in role
  /\ link' = link \ {<<r, p>>}
  /\ calm' = {}
  /\ UNCHANGED <<inst, lock, migrated, code, role, account, has, granted>>

(* A row that says granted = false gives nothing and takes nothing away.   *)
AssignUserPermission(u, v, p, g) ==
  /\ Staff(u, "permissions.write") /\ p \in code /\ account[v] # "absent"
  /\ granted' = [granted EXCEPT ![v] = IF g THEN @ \cup {p} ELSE @ \ {p}]
  /\ UNCHANGED <<inst, lock, migrated, code, role, link, account, has, calm>>

RemoveUserPermission(u, v, p) ==
  /\ Staff(u, "permissions.write")
  /\ granted' = [granted EXCEPT ![v] = @ \ {p}]
  /\ UNCHANGED <<inst, lock, migrated, code, role, link, account, has, calm>>

(* Account and role in one transaction, never a super admin. *)
CreateAdmin(u, v, r) ==
  /\ Staff(u, "users.write") /\ account[v] = "absent"
  /\ r \in role \ {"SUPER_ADMIN", "USER"}
  /\ account' = [account EXCEPT ![v] = "ACTIVE"]
  /\ has' = [has EXCEPT ![v] = {r}]
  /\ UNCHANGED <<inst, lock, migrated, code, role, link, granted, calm>>

(* Nobody disables or deletes himself. *)
UpdateStatus(u, v, st) ==
  /\ Staff(u, "users.status") /\ account[v] \notin {"absent", "DELETED"}
  /\ u = v => st = "ACTIVE"
  /\ account' = [account EXCEPT ![v] = st]
  /\ calm' = IF st = "ACTIVE" THEN calm ELSE {}
  /\ UNCHANGED <<inst, lock, migrated, code, role, link, has, granted>>

Remove(u, v) ==
  /\ Staff(u, "users.delete") /\ account[v] \notin {"absent", "DELETED"} /\ u # v
  /\ account' = [account EXCEPT ![v] = "DELETED"]
  /\ calm' = {}
  /\ UNCHANGED <<inst, lock, migrated, code, role, link, has, granted>>

-----------------------------------------------------------------------------

(* What a start does by itself. *)
Proceed(i) ==
  \/ Migrate(i) \/ MigrateBusy(i) \/ MigrateDone(i) \/ MigrateFail(i)
  \/ \E p \in Permission : SeedPermission(i, p) \/ \E r \in Role : SeedLink(i, r, p)
  \/ \E r \in Role : SeedRole(i, r)
  \/ SeedOwner(i) \/ SeedOwnerRole(i) \/ SeedFail(i)

StaffChange ==
  \E u \in User :
    \/ \E p \in Permission : CreatePermission(u, p) \/ DeletePermission(u, p)
    \/ \E r \in Role, p \in Permission : AssignRolePermission(u, r, p) \/ RemoveRolePermission(u, r, p)
    \/ \E v \in User :
         \/ \E r \in Role : AssignRole(u, v, r) \/ RemoveRole(u, v, r) \/ CreateAdmin(u, v, r)
         \/ \E p \in Permission, g \in BOOLEAN : AssignUserPermission(u, v, p, g)
         \/ \E p \in Permission : RemoveUserPermission(u, v, p)
         \/ \E st \in {"ACTIVE", "SUSPENDED"} : UpdateStatus(u, v, st)
         \/ Remove(u, v)

DeployNext ==
  \/ \E i \in Instance : Start(i) \/ Proceed(i) \/ Kill(i)
  \/ LockDropped
  \/ StaffChange

DeploySpec == DeployInit /\ [][DeployNext]_deployVars

(* The operating system runs the script and Prisma answers: a start does   *)
(* not rest while it has a step to take.  Nothing is assumed of the lock.  *)
FairSpec == DeploySpec /\ \A i \in Instance : WF_deployVars(Proceed(i))

-----------------------------------------------------------------------------
(* Properties                                                              *)

Catalogued ==
  /\ code = Permission /\ role = Role
  /\ \A r \in Role : {r} \X RolePermissions[r] \subseteq link

Seeded ==
  /\ Catalogued
  /\ account[Owner] = "ACTIVE" /\ "SUPER_ADMIN" \in has[Owner]

(* The service is started only behind applied migrations and a complete    *)
(* seed (render-start.mjs exits otherwise), although several instances     *)
(* seed one database at once, fail and are killed at any statement, and    *)
(* staff has changed things before: unless something was taken away since  *)
(* the instance began to seed, everything of the seed is there and the     *)
(* super admin can work.                                                   *)
ServesSeeded ==
  \A i \in Instance : At(i, "api") => migrated /\ (i \in calm => Seeded)

(* Every start comes to an end: the service runs or the script has exited, *)
(* even when the lock of a killed migration is never given back.           *)
StartEnds == \A i \in Instance : At(i, "migrate") ~> At(i, "api") \/ At(i, "down")
=============================================================================
