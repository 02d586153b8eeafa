------------------------------ MODULE Permissions ------------------------------
(***************************************************************************)
(* Roles, their permissions, the permission keys of a user that the        *)
(* middleware caches in Redis, and the menus that follow from permissions. *)
(*                                                                         *)
(* AssignPermissions replaces the permissions of a role in one transaction *)
(* at PostgreSQL's READ COMMITTED: its DELETE sees the rows committed when *)
(* it starts and waits for the transactions that hold them; an INSERT      *)
(* waits for one that holds the same pair and fails where the pair exists. *)
(* What changes a user's permissions invalidates the cache after it has    *)
(* committed; a request that missed the cache fills it when it has read    *)
(* the tables.  What a handler holds between two steps is in request[h].   *)
(***************************************************************************)
EXTENDS Naturals, FiniteSets

CONSTANTS
  Users, Roles, Perms, Menus, Handlers,
  Keys,         \* resource:action of a permission
  MenuOf,       \* the menu with the name of a key's resource, or Nil
  Superadmin,   \* the role that has every permission
  SystemRoles,  \* roles with is_system
  Lists,        \* permission_ids an administrator sends
  Assignable,   \* roles an administrator sends lists for
  Trees,        \* what the menu_items table starts with
  MenuUpdates,  \* updates of menus an administrator sends
  Nil

MenuRow == [parent: Menus \cup {Nil}, active: BOOLEAN]

ASSUME PermissionsAssumption ==
  /\ Nil \notin Users \cup Roles \cup Perms \cup Keys \cup Menus
  /\ IsFiniteSet(Menus) /\ MenuOf \in [Keys -> Menus \cup {Nil}]
  /\ Trees \subseteq [Menus -> MenuRow]
  /\ MenuUpdates \subseteq [menu: Menus, parent: Menus \cup {Nil}, active: BOOLEAN \cup {Nil}]
  /\ SystemRoles \subseteq Roles /\ Assignable \subseteq Roles
  /\ Lists \subseteq SUBSET Perms /\ {} \notin Lists

VARIABLES
  roles,    \* the roles table: "absent", "live" or "deleted"
  perms,    \* the permissions table
  granted,  \* role_permissions, as committed
  roleOf,   \* role_id of a user
  menus,    \* the menu_items table
  cache,    \* permission:user:<id>; Nil when the key is absent
  request,  \* what each handler holds between two steps
  last,     \* history: the list last committed for a role
  around,   \* history: last, and the lists committed while its transaction ran
  excused   \* history: users whose cached keys may outlive a change

access == <<roles, perms, granted, roleOf>>
tables == <<access, menus>>
history == <<last, around, excused>>
vars == <<tables, cache, request, history>>

PermRow == [key: Keys, live: BOOLEAN]
NoPerm == [key |-> Nil, live |-> FALSE]

Idle == [op |-> "idle"]

\* "read" and "fill" come from the middleware; late tells that the cached keys
\* of the user were invalidated since it began to read.
Requests ==
  {Idle}
  \cup [op: {"read"}, user: Users, role: Roles, late: BOOLEAN]
  \cup [op: {"fill"}, user: Users, keys: SUBSET Keys, late: BOOLEAN]
  \cup [op: {"assign"}, role: Roles, list: SUBSET Perms, rows: SUBSET Perms, others: SUBSET Perms]
  \cup [op: {"insert"}, role: Roles, list: SUBSET Perms, rows: SUBSET Perms, others: SUBSET Perms,
        todo: SUBSET Perms]
  \cup [op: {"permission"}, perm: Perms, key: Keys]
  \cup [op: {"role"}, role: Roles]
  \cup [op: {"user"}, user: Users, role: Roles, assign: BOOLEAN]
  \cup [op: {"menu"}, menu: Menus, row: MenuRow]
  \cup [op: {"forget"}, todo: SUBSET Users]

Start(h, r) == request[h] = Idle /\ request' = [request EXCEPT ![h] = r]
Continue(h, r) == request' = [request EXCEPT ![h] = r]
Finish(h) == request' = [request EXCEPT ![h] = Idle]

\* GetUserPermissions: neither the role nor the user is asked whether it was
\* deleted; permissionKeysFromPermissions.
KeysOf(role) ==
  {perms[p].key : p \in {q \in Perms : /\ perms[q].live
                                       /\ role = Superadmin \/ q \in granted[role]}}

Filling(r, u) == r.op \in {"read", "fill"} /\ r.user = u

\* The requests once the keys of the users in S count as invalidated.
Late(S) ==
  [g \in Handlers |-> IF \E u \in S : Filling(request[g], u)
                      THEN [request[g] EXCEPT !.late = TRUE] ELSE request[g]]

Forgetting(S) == [op |-> "forget", todo |-> S]

-----------------------------------------------------------------------------
(* PermissionMiddleware and the cache.                                     *)

\* A miss, or a GET that fails: the user's role is read first.
GetUserPermissions(h, u) ==
  /\ Start(h, [op |-> "read", user |-> u, role |-> roleOf[u], late |-> FALSE])
  /\ UNCHANGED <<tables, cache, history>>

ReadPermissions(h) ==
  LET r == request[h]
  IN  /\ r.op = "read"
      /\ Continue(h, [op |-> "fill", user |-> r.user, keys |-> KeysOf(r.role), late |-> r.late])
      /\ UNCHANGED <<tables, cache, history>>

\* SetUserPermissionKeys; its error is ignored.
SetUserPermissionKeys(h) ==
  LET r == request[h]
  IN  /\ r.op = "fill"
      /\ \/ /\ cache' = [cache EXCEPT ![r.user] = r.keys]
            /\ excused' = IF r.late THEN excused \cup {r.user} ELSE excused \ {r.user}
         \/ UNCHANGED <<cache, excused>>
      /\ Finish(h)
      /\ UNCHANGED <<tables, last, around>>

ExpireKeys(u) ==
  /\ cache[u] # Nil
  /\ cache' = [cache EXCEPT ![u] = Nil] /\ excused' = excused \ {u}
  /\ UNCHANGED <<tables, request, last, around>>

\* DeleteUser and DeleteAll, one key after the other.
DeleteKeys(h, u) ==
  LET r == request[h]
  IN  /\ r.op = "forget" /\ u \in r.todo
      /\ cache' = [cache EXCEPT ![u] = Nil] /\ excused' = excused \ {u}
      /\ request' = [Late({u}) EXCEPT ![h] = [r EXCEPT !.todo = @ \ {u}]]
      /\ UNCHANGED <<tables, last, around>>

\* SCAN or DEL failed, or the handler died: the keys that are left stay.
DeleteKeysFails(h) ==
  LET r == request[h]
  IN  /\ r.op = "forget" /\ r.todo # {}
      /\ excused' = excused \cup {u \in r.todo : cache[u] # Nil}
      /\ request' = [Late(r.todo) EXCEPT ![h] = Idle]
      /\ UNCHANGED <<tables, cache, last, around>>

Deleted(h) ==
  /\ request[h] = Forgetting({}) /\ Finish(h)
  /\ UNCHANGED <<tables, cache, history>>

-----------------------------------------------------------------------------
(* AssignPermissions.                                                      *)

\* The role and the permissions are looked up, and the transaction's DELETE
\* takes its snapshot.
AssignPermissions(h, role, list) ==
  /\ roles[role] = "live" /\ \A p \in list : perms[p].live
  /\ Start(h, [op |-> "assign", role |-> role, list |-> list, rows |-> granted[role],
               others |-> {}])
  /\ UNCHANGED <<tables, cache, history>>

\* Transactions on the role that have executed their DELETE.
Holding(h) ==
  {request[g] : g \in {f \in Handlers \ {h} : /\ request[f].op = "insert"
                                              /\ request[f].role = request[h].role}}

\* The DELETE gets the rows that are still there.
DeleteGranted(h) ==
  LET r == request[h]
  IN  /\ r.op = "assign"
      /\ \A t \in Holding(h) : t.rows \cap r.rows = {}
      /\ Continue(h, [op |-> "insert", role |-> r.role, list |-> r.list, rows |-> r.rows,
                      others |-> r.others, todo |-> r.list])
      /\ UNCHANGED <<tables, cache, history>>

\* Mutant: what was inserted before the duplicate stays.
InsertGrantedKeeping(h, p) ==
  LET r == request[h]
  IN  /\ r.op = "insert" /\ p \in r.todo
      /\ \A t \in Holding(h) : p \notin t.rows \cup (t.list \ t.todo)
      /\ IF p \in granted[r.role] \ r.rows
         THEN /\ granted' = [granted EXCEPT ![r.role] = (@ \ r.rows) \cup (r.list \ r.todo)]
              /\ Continue(h, Forgetting(Users))
         ELSE /\ Continue(h, [r EXCEPT !.todo = @ \ {p}])
              /\ UNCHANGED granted
      /\ UNCHANGED <<roles, perms, roleOf, menus, cache, history>>

\* A pair of another transaction that was inserted first is a duplicate.
InsertGranted(h, p) ==
  LET r == request[h]
  IN  /\ r.op = "insert" /\ p \in r.todo
      /\ \A t \in Holding(h) : p \notin t.rows \cup (t.list \ t.todo)
      /\ IF p \in granted[r.role] \ r.rows THEN Finish(h)
         ELSE Continue(h, [r EXCEPT !.todo = @ \ {p}])
      /\ UNCHANGED <<tables, cache, history>>

\* The other open transactions of the role learn, for the history, what was
\* committed; of the rows they wait for, those deleted here are gone.
Committed(h, next) ==
  LET r == request[h]
  IN  request' =
        [g \in Handlers |->
           LET t == request[g]
           IN  IF g = h THEN next
               ELSE IF t.op = "assign" /\ t.role = r.role
                 THEN [t EXCEPT !.others = @ \cup r.list, !.rows = @ \ r.rows]
               ELSE IF t.op = "insert" /\ t.role = r.role
                 THEN [t EXCEPT !.others = @ \cup r.list]
               ELSE t]

Commit(h) ==
  LET r == request[h]
  IN  /\ r.op = "insert" /\ r.todo = {}
      /\ granted' = [granted EXCEPT ![r.role] = (@ \ r.rows) \cup r.list]
      /\ last' = [last EXCEPT ![r.role] = r.list]
      /\ around' = [around EXCEPT ![r.role] = r.list \cup r.others]
      /\ Committed(h, Forgetting(Users))
      /\ UNCHANGED <<roles, perms, roleOf, menus, cache, excused>>

-----------------------------------------------------------------------------
(* The other writers.                                                      *)

\* Names are unique, deleted rows included.
CreatePermission(h, p, k) ==
  /\ perms[p] = NoPerm
  /\ perms' = [perms EXCEPT ![p] = [key |-> k, live |-> TRUE]]
  /\ Start(h, Forgetting(Users))
  /\ UNCHANGED <<roles, granted, roleOf, menus, cache, history>>

\* Update of a permission reads the row and saves all of it: one deleted
\* meanwhile comes back.
UpdatePermission(h, p, k) ==
  /\ perms[p].live
  /\ Start(h, [op |-> "permission", perm |-> p, key |-> k])
  /\ UNCHANGED <<tables, cache, history>>

SavePermission(h) ==
  LET r == request[h]
  IN  /\ r.op = "permission"
      /\ perms' = [perms EXCEPT ![r.perm] = [key |-> r.key, live |-> TRUE]]
      /\ Continue(h, Forgetting(Users))
      /\ UNCHANGED <<roles, granted, roleOf, menus, cache, history>>

\* Mutant: a deletion leaves the cache alone.
DeletePermissionOnly(h, p) ==
  /\ perms[p].live /\ request[h] = Idle
  /\ perms' = [perms EXCEPT ![p].live = FALSE]
  /\ UNCHANGED <<roles, granted, roleOf, menus, cache, request, history>>

\* A soft delete; role_permissions keeps its rows.
DeletePermission(h, p) ==
  /\ perms[p].live
  /\ perms' = [perms EXCEPT ![p].live = FALSE]
  /\ Start(h, Forgetting(Users))
  /\ UNCHANGED <<roles, granted, roleOf, menus, cache, history>>

CreateRole(role) ==
  /\ roles[role] = "absent"
  /\ roles' = [roles EXCEPT ![role] = "live"]
  /\ UNCHANGED <<perms, granted, roleOf, menus, cache, request, history>>

\* Update of a role: names only, the cache is left alone.
UpdateRole(h, role) ==
  /\ roles[role] = "live" /\ role \notin SystemRoles
  /\ Start(h, [op |-> "role", role |-> role])
  /\ UNCHANGED <<tables, cache, history>>

SaveRole(h) ==
  /\ request[h].op = "role"
  /\ roles' = [roles EXCEPT ![request[h].role] = "live"]
  /\ Finish(h)
  /\ UNCHANGED <<perms, granted, roleOf, menus, cache, history>>

DeleteRole(h, role) ==
  /\ roles[role] = "live" /\ role \notin SystemRoles
  /\ roles' = [roles EXCEPT ![role] = "deleted"]
  /\ Start(h, Forgetting(Users))
  /\ UNCHANGED <<perms, granted, roleOf, menus, cache, history>>

\* Update of a user to another role.
AssignRole(h, u, role) ==
  /\ roles[role] = "live"
  /\ Start(h, [op |-> "user", user |-> u, role |-> role, assign |-> TRUE])
  /\ UNCHANGED <<tables, cache, history>>

\* A login, a change of password, an update without a role: the role is saved
\* as it was read.
CopyUser(h, u) ==
  /\ Start(h, [op |-> "user", user |-> u, role |-> roleOf[u], assign |-> FALSE])
  /\ UNCHANGED <<tables, cache, history>>

\* Only a request for a role invalidates, whatever role the save brings back.
SaveUser(h) ==
  LET r == request[h]
      reverts == ~r.assign /\ roleOf[r.user] # r.role
  IN  /\ r.op = "user"
      /\ roleOf' = [roleOf EXCEPT ![r.user] = r.role]
      /\ excused' = IF reverts /\ cache[r.user] # Nil THEN excused \cup {r.user} ELSE excused
      /\ request' = [(IF reverts THEN Late({r.user}) ELSE request)
                       EXCEPT ![h] = IF r.assign THEN Forgetting({r.user}) ELSE Idle]
      /\ UNCHANGED <<roles, perms, granted, menus, cache, last, around>>

\* A soft delete; GetUserPermissions does not look at it.
DeleteUser(h, u) ==
  /\ Start(h, Forgetting({u}))
  /\ UNCHANGED <<tables, cache, history>>

-----------------------------------------------------------------------------
(* Menus.                                                                  *)

\* Mutant: a parent that is not active is shown, and climbed over.
ClimbInactive(m) ==
  LET at[n \in 0..Cardinality(Menus)] ==
        IF n = 0 THEN m ELSE IF at[n - 1] = Nil THEN Nil ELSE menus[at[n - 1]].parent
  IN  at

\* The menus met on the way up from m, to the first parent that is not among
\* the active menus.
Climb(m) ==
  LET at[n \in 0..Cardinality(Menus)] ==
        IF n = 0 THEN m
        ELSE LET below == at[n - 1]
             IN  IF below # Nil /\ menus[below].parent \in {p \in Menus : menus[p].active}
                   THEN menus[below].parent
                 ELSE Nil
  IN  at

\* A walk with more steps than there are menus goes round a circle of parents:
\* the code's loop does not end.
Endless == {Nil}

\* The menus named by the keys of a user and what is met above each of them.
ResolveAccessibleMenus(K) ==
  LET named == {m \in {MenuOf[k] : k \in K} \ {Nil} : menus[m].active}
      steps == 0..Cardinality(Menus)
  IN  IF \E m \in named : Climb(m)[Cardinality(Menus)] # Nil THEN Endless
      ELSE (UNION {{Climb(m)[n] : n \in steps} : m \in named}) \ {Nil}

\* Mutant: fields the request leaves out are saved as empty.
UpdateMenuRaw(h, update) ==
  /\ Start(h, [op |-> "menu", menu |-> update.menu,
               row |-> [parent |-> update.parent, active |-> update.active]])
  /\ UNCHANGED <<tables, cache, history>>

\* Update of a menu reads the row and saves all of it; what the request leaves
\* out, Nil here, stays as it was read.
UpdateMenu(h, update) ==
  LET row == menus[update.menu]
  IN  /\ Start(h, [op |-> "menu", menu |-> update.menu,
                   row |-> [parent |-> IF update.parent = Nil THEN row.parent ELSE update.parent,
                            active |-> IF update.active = Nil THEN row.active ELSE update.active]])
      /\ UNCHANGED <<tables, cache, history>>

SaveMenu(h) ==
  /\ request[h].op = "menu"
  /\ menus' = [menus EXCEPT ![request[h].menu] = request[h].row]
  /\ Finish(h)
  /\ UNCHANGED <<access, cache, history>>

-----------------------------------------------------------------------------

\* A failing call, a canceled request, a deadlock or a crash; an open
\* transaction is rolled back.
Abort(h) ==
  /\ request[h].op \notin {"idle", "forget"}
  /\ Finish(h)
  /\ UNCHANGED <<tables, cache, history>>

Init ==
  /\ roles \in [Roles -> {"absent", "live"}]
  /\ \A role \in SystemRoles : roles[role] = "live"
  /\ perms \in [Perms -> [key: Keys, live: {TRUE}] \cup {NoPerm}]
  /\ granted = [role \in Roles |-> {}]
  /\ roleOf \in [Users -> {role \in Roles : roles[role] = "live"}]
  /\ menus \in Trees
  /\ cache = [u \in Users |-> Nil]
  /\ request = [h \in Handlers |-> Idle]
  /\ last = [role \in Roles |-> {}] /\ around = [role \in Roles |-> {}]
  /\ excused = {}

CacheSteps(h) ==
  \/ \E u \in Users : GetUserPermissions(h, u) \/ DeleteKeys(h, u)
  \/ ReadPermissions(h) \/ SetUserPermissionKeys(h)
  \/ DeleteKeysFails(h) \/ Deleted(h)

AssignSteps(h) ==
  \/ \E role \in Assignable, list \in Lists : AssignPermissions(h, role, list)
  \/ DeleteGranted(h) \/ \E p \in Perms : InsertGranted(h, p)
  \/ Commit(h)

PermissionSteps(h) ==
  \/ \E p \in Perms : \/ \E k \in Keys : CreatePermission(h, p, k) \/ UpdatePermission(h, p, k)
                      \/ DeletePermission(h, p)
  \/ SavePermission(h)

RoleSteps(h) ==
  \/ \E role \in Roles : UpdateRole(h, role) \/ DeleteRole(h, role)
  \/ SaveRole(h)

UserSteps(h) ==
  \/ \E u \in Users : \/ \E role \in Roles : AssignRole(h, u, role)
                      \/ CopyUser(h, u) \/ DeleteUser(h, u)
  \/ SaveUser(h)

MenuSteps(h) == (\E update \in MenuUpdates : UpdateMenu(h, update)) \/ SaveMenu(h)

Next ==
  \/ \E h \in Handlers : \/ CacheSteps(h) \/ AssignSteps(h) \/ PermissionSteps(h)
                         \/ RoleSteps(h) \/ UserSteps(h) \/ MenuSteps(h) \/ Abort(h)
  \/ \E role \in Roles : CreateRole(role)
  \/ \E u \in Users : ExpireKeys(u)

Spec == Init /\ [][Next]_vars

-----------------------------------------------------------------------------
(* Properties.                                                             *)

\* Every table, key and handler has the shape the code gives it.
TypeOK ==
  /\ roles \in [Roles -> {"absent", "live", "deleted"}]
  /\ perms \in [Perms -> PermRow \cup {NoPerm}]
  /\ granted \in [Roles -> SUBSET Perms]
  /\ roleOf \in [Users -> Roles] /\ menus \in [Menus -> MenuRow]
  /\ cache \in [Users -> {Nil} \cup SUBSET Keys]
  /\ request \in [Handlers -> Requests]
  /\ last \in [Roles -> SUBSET Perms] /\ around \in [Roles -> SUBSET Perms]
  /\ excused \subseteq Users

\* A role has every permission of the list last committed for it, and none
\* that neither this list nor one committed while it was being written names:
\* a list that fails half-way leaves nothing behind, and lists mix only when
\* their transactions overlapped (repositories/role/role.go:45).
AssignedExactly ==
  \A role \in Roles : last[role] \subseteq granted[role] /\ granted[role] \subseteq around[role]

\* The keys the middleware decides on are those of the tables, unless a writer
\* is still to delete them, or could not; unless they were read before a
\* deletion and cached after it (auth.go:217); or unless a save of a stale copy
\* of the user brought an old role back (user_service.go:195).
Invalidating(u) == \E h \in Handlers : request[h].op = "forget" /\ u \in request[h].todo

CacheFollows ==
  \A u \in Users :
    cache[u] # Nil /\ cache[u] # KeysOf(roleOf[u]) => u \in excused \/ Invalidating(u)

\* The menus shown for a set of permissions are the active ones they name and
\* the active parent of each that is shown, and none besides; the walk up
\* does not end exactly where it leads into a circle of parents
\* (services/shared/menu_access.go:12).
Wanted(K, S) ==
  {m \in Menus : menus[m].active /\ (\/ \E k \in K : MenuOf[k] = m
                                    \/ \E c \in S : menus[c].parent = m)}

Circle(K) ==
  \E C \in (SUBSET Menus) \ {{}} :
    /\ \A m \in C : menus[m].parent \in C
    /\ \A S \in SUBSET Menus : Wanted(K, S) \subseteq S => C \subseteq S

MenusMatch ==
  \A K \in SUBSET Keys :
    LET shown == ResolveAccessibleMenus(K)
    IN  IF Circle(K) THEN shown = Endless
        ELSE /\ shown = Wanted(K, shown)
             /\ \A S \in SUBSET shown : Wanted(K, S) \subseteq S => S = shown

=============================================================================
