--------------------------- MODULE PermissionsProofs ---------------------------
(***************************************************************************)
(* TLAPS proofs about Permissions, for any sets of users, roles,           *)
(* permissions, keys, menus and handlers.                                  *)
(***************************************************************************)
EXTENDS Permissions, FiniteSetTheorems, WellFoundedInduction, TLAPS

-----------------------------------------------------------------------------
(* Types.                                                                  *)

Reads == [op: {"read"}, user: Users, role: Roles, late: BOOLEAN]
Fills == [op: {"fill"}, user: Users, keys: SUBSET Keys, late: BOOLEAN]
Assigns ==
  [op: {"assign"}, role: Roles, list: SUBSET Perms, rows: SUBSET Perms, others: SUBSET Perms]
Inserts ==
  [op: {"insert"}, role: Roles, list: SUBSET Perms, rows: SUBSET Perms, others: SUBSET Perms,
   todo: SUBSET Perms]

\* What a handler holds, by operation.
LEMMA RequestTypes ==
  ASSUME NEW r \in Requests
  PROVE  /\ r.op = "read" => r \in Reads
         /\ r.op = "fill" => r \in Fills
         /\ r.op = "assign" => r \in Assigns
         /\ r.op = "insert" => r \in Inserts
         /\ r.op = "permission" => r.perm \in Perms /\ r.key \in Keys
         /\ r.op = "role" => r.role \in Roles
         /\ r.op = "user" => r.user \in Users /\ r.role \in Roles /\ r.assign \in BOOLEAN
         /\ r.op = "menu" => r.menu \in Menus /\ r.row \in MenuRow
         /\ r.op = "forget" => r \in [op: {"forget"}, todo: SUBSET Users]
  BY DEF Requests, Idle, Reads, Fills, Assigns, Inserts

LEMMA RequestStep ==
  ASSUME NEW f \in [Handlers -> Requests], NEW h \in Handlers, NEW r \in Requests
  PROVE  /\ [f EXCEPT ![h] = r] \in [Handlers -> Requests]
         /\ [f EXCEPT ![h] = r][h] = r
         /\ \A g \in Handlers \ {h} : [f EXCEPT ![h] = r][g] = f[g]
  OBVIOUS

LEMMA Made ==
  /\ Idle \in Requests
  /\ \A S \in SUBSET Users : Forgetting(S) \in Requests
  BY DEF Requests, Idle, Forgetting

\* A request that turns late keeps everything else.
LEMMA TurnedLate ==
  ASSUME NEW r \in Reads \cup Fills
  PROVE  /\ [r EXCEPT !.late = TRUE] \in Reads \cup Fills
         /\ [r EXCEPT !.late = TRUE].op = r.op
         /\ [r EXCEPT !.late = TRUE].user = r.user
         /\ [r EXCEPT !.late = TRUE].late = TRUE
  BY DEF Reads, Fills

LEMMA LateTypes ==
  ASSUME TypeOK, NEW S
  PROVE  /\ Late(S) \in [Handlers -> Requests]
         /\ \A g \in Handlers :
              \/ Late(S)[g] = request[g]
                 /\ (request[g].op \in {"read", "fill"} => request[g].user \notin S)
              \/ /\ request[g].op \in {"read", "fill"} /\ Late(S)[g].op = request[g].op
                 /\ Late(S)[g].late = TRUE
<1>1. ASSUME NEW g \in Handlers
      PROVE  /\ Late(S)[g] \in Requests
             /\ \/ Late(S)[g] = request[g]
                   /\ (request[g].op \in {"read", "fill"} => request[g].user \notin S)
                \/ /\ request[g].op \in {"read", "fill"} /\ Late(S)[g].op = request[g].op
                   /\ Late(S)[g].late = TRUE
  <2>1. request[g] \in Requests
    BY DEF TypeOK
  <2>2. CASE \E u \in S : Filling(request[g], u)
    <3>1. request[g] \in Reads \cup Fills /\ request[g].op \in {"read", "fill"}
      BY <2>1, <2>2, RequestTypes DEF Filling
    <3>2. Late(S)[g] = [request[g] EXCEPT !.late = TRUE]
      BY <2>2 DEF Late
    <3> QED
      BY <3>1, <3>2, TurnedLate DEF Requests, Reads, Fills
  <2>3. CASE ~\E u \in S : Filling(request[g], u)
    <3>1. Late(S)[g] = request[g]
      BY <2>3 DEF Late
    <3> QED
      BY <2>1, <2>3, <3>1 DEF Filling
  <2> QED
    BY <2>2, <2>3
<1> QED
  BY <1>1 DEF Late

LEMMA KeysOfTypes ==
  ASSUME TypeOK, NEW role
  PROVE  KeysOf(role) \subseteq Keys
  BY DEF TypeOK, KeysOf, PermRow, NoPerm

LEMMA CacheTypes ==
  ASSUME TypeOK, NEW h \in Handlers, CacheSteps(h)
  PROVE  TypeOK'
<1> DEFINE r == request[h]
<1>1. r \in Requests /\ request \in [Handlers -> Requests]
  BY DEF TypeOK
<1>2. ASSUME NEW u \in Users, GetUserPermissions(h, u)
      PROVE  TypeOK'
  <2>1. [op |-> "read", user |-> u, role |-> roleOf[u], late |-> FALSE] \in Requests
    BY DEF Requests, TypeOK
  <2>2. request' \in [Handlers -> Requests]
    BY <1>1, <1>2, <2>1, RequestStep DEF GetUserPermissions, Start
  <2> QED
    BY <1>2, <2>2 DEF GetUserPermissions, tables, access, history, TypeOK
<1>3. CASE ReadPermissions(h)
  <2>1. r \in Reads
    BY <1>1, <1>3, RequestTypes DEF ReadPermissions
  <2>2. [op |-> "fill", user |-> r.user, keys |-> KeysOf(r.role), late |-> r.late] \in Requests
    BY <2>1, KeysOfTypes DEF Requests, Reads
  <2>3. request' \in [Handlers -> Requests]
    BY <1>1, <1>3, <2>2, RequestStep DEF ReadPermissions, Continue
  <2> QED
    BY <1>3, <2>3 DEF ReadPermissions, tables, access, history, TypeOK
<1>4. CASE SetUserPermissionKeys(h)
  <2>1. r \in Fills
    BY <1>1, <1>4, RequestTypes DEF SetUserPermissionKeys
  <2>2. cache' \in [Users -> {Nil} \cup SUBSET Keys] /\ excused' \subseteq Users
    BY <1>4, <2>1 DEF SetUserPermissionKeys, Fills, TypeOK
  <2>3. request' \in [Handlers -> Requests]
    BY <1>1, <1>4, Made, RequestStep DEF SetUserPermissionKeys, Finish
  <2> QED
    BY <1>4, <2>2, <2>3 DEF SetUserPermissionKeys, tables, access, TypeOK
<1>5. ASSUME NEW u \in Users, DeleteKeys(h, u)
      PROVE  TypeOK'
  <2>1. r \in [op: {"forget"}, todo: SUBSET Users]
    BY <1>1, <1>5, RequestTypes DEF DeleteKeys
  <2>2. [r EXCEPT !.todo = @ \ {u}] \in Requests
    BY <2>1 DEF Requests
  <2>3. request' \in [Handlers -> Requests]
    BY <1>5, <2>2, LateTypes, RequestStep DEF DeleteKeys
  <2> QED
    BY <1>5, <2>3 DEF DeleteKeys, tables, access, TypeOK
<1>6. CASE DeleteKeysFails(h)
  <2>1. r.todo \in SUBSET Users
    BY <1>1, <1>6, RequestTypes DEF DeleteKeysFails
  <2>2. request' \in [Handlers -> Requests]
    BY <1>6, Made, LateTypes, RequestStep DEF DeleteKeysFails
  <2> QED
    BY <1>6, <2>1, <2>2 DEF DeleteKeysFails, tables, access, TypeOK
<1>7. CASE Deleted(h)
  <2>1. request' \in [Handlers -> Requests]
    BY <1>1, <1>7, Made, RequestStep DEF Deleted, Finish
  <2> QED
    BY <1>7, <2>1 DEF Deleted, tables, access, history, TypeOK
<1> QED
  BY <1>2, <1>3, <1>4, <1>5, <1>6, <1>7 DEF CacheSteps

\* What the open transactions of a role learn from one that commits.
LEMMA Inserting ==
  ASSUME NEW t \in Inserts, NEW L \in SUBSET Perms
  PROVE  /\ [t EXCEPT !.others = @ \cup L] \in Inserts
         /\ [t EXCEPT !.others = @ \cup L].role = t.role
         /\ [t EXCEPT !.others = @ \cup L].rows = t.rows
         /\ [t EXCEPT !.others = @ \cup L].others = t.others \cup L
  BY DEF Inserts

LEMMA Committing ==
  ASSUME TypeOK, NEW h \in Handlers, Commit(h)
  PROVE  /\ request[h] \in Inserts
         /\ request' \in [Handlers -> Requests]
         /\ request'[h] = Forgetting(Users)
         /\ \A g \in Handlers \ {h} :
              /\ request'[g].op = request[g].op
              /\ request[g].op \in {"assign", "insert"} /\ request[g].role = request[h].role =>
                   /\ request'[g].role = request[g].role
                   /\ request'[g].others = request[g].others \cup request[h].list
                   /\ request[g].rows \ request[h].rows \subseteq request'[g].rows
              /\ request[g].op \in {"assign", "insert"} /\ request[g].role # request[h].role =>
                   request'[g] = request[g]
              /\ request[g].op \notin {"assign", "insert"} => request'[g] = request[g]
<1> DEFINE r == request[h]
<1>1. r \in Inserts
  BY RequestTypes DEF Commit, TypeOK
<1>2. request'[h] = Forgetting(Users) /\ DOMAIN request' = Handlers
      /\ request' = [g \in Handlers |-> request'[g]]
  BY DEF Commit, Committed
<1>3. ASSUME NEW g \in Handlers \ {h}
      PROVE  /\ request'[g] \in Requests
             /\ request'[g].op = request[g].op
             /\ request[g].op \in {"assign", "insert"} /\ request[g].role = r.role =>
                  /\ request'[g].role = request[g].role
                  /\ request'[g].others = request[g].others \cup r.list
                  /\ request[g].rows \ r.rows \subseteq request'[g].rows
             /\ request[g].op \in {"assign", "insert"} /\ request[g].role # r.role =>
                  request'[g] = request[g]
             /\ request[g].op \notin {"assign", "insert"} => request'[g] = request[g]
  <2> DEFINE t == request[g]
  <2>1. t \in Requests
    BY DEF TypeOK
  <2>2. CASE t.op = "assign" /\ t.role = r.role
    <3>1. request'[g] = [t EXCEPT !.others = @ \cup r.list, !.rows = @ \ r.rows]
      BY <2>2 DEF Commit, Committed
    <3>2. t \in Assigns /\ r.list \in SUBSET Perms /\ r.rows \in SUBSET Perms
      BY <1>1, <2>1, <2>2, RequestTypes DEF Inserts
    <3> HIDE DEF r, t
    <3>3. /\ request'[g] \in Assigns /\ request'[g].role = t.role
          /\ request'[g].rows = t.rows \ r.rows /\ request'[g].others = t.others \cup r.list
      BY <3>1, <3>2 DEF Assigns
    <3>4. request'[g].op = "assign" /\ request'[g] \in Requests
      BY <3>3 DEF Assigns, Requests
    <3> QED
      BY <2>2, <3>3, <3>4 DEF t, r
  <2>3. CASE t.op = "insert" /\ t.role = r.role
    <3>1. request'[g] = [t EXCEPT !.others = @ \cup r.list]
      BY <2>3 DEF Commit, Committed
    <3>2. t \in Inserts /\ r.list \in SUBSET Perms
      BY <1>1, <2>1, <2>3, RequestTypes DEF Inserts
    <3> HIDE DEF r, t
    <3>3. /\ request'[g] \in Inserts /\ request'[g].role = t.role
          /\ request'[g].rows = t.rows /\ request'[g].others = t.others \cup r.list
      BY <3>1, <3>2, Inserting
    <3>4. request'[g].op = "insert" /\ request'[g] \in Requests
      BY <3>3 DEF Inserts, Requests
    <3> QED
      BY <2>3, <3>3, <3>4 DEF t, r
  <2>4. CASE ~(t.op \in {"assign", "insert"} /\ t.role = r.role)
    <3>1. request'[g] = t
      BY <2>4 DEF Commit, Committed
    <3> QED
      BY <2>1, <2>4, <3>1
  <2> QED
    BY <2>2, <2>3, <2>4
<1>4. request'[h] \in Requests
  BY <1>2, Made
<1> QED
  BY <1>1, <1>2, <1>3, <1>4

LEMMA AssignTypes ==
  ASSUME TypeOK, NEW h \in Handlers, AssignSteps(h)
  PROVE  TypeOK'
<1> DEFINE r == request[h]
<1>1. r \in Requests /\ request \in [Handlers -> Requests]
  BY DEF TypeOK
<1>2. ASSUME NEW role \in Assignable, NEW list \in Lists, AssignPermissions(h, role, list)
      PROVE  TypeOK'
  <2>1. role \in Roles /\ list \in SUBSET Perms
    BY PermissionsAssumption
  <2>2. [op |-> "assign", role |-> role, list |-> list, rows |-> granted[role], others |-> {}]
          \in Requests
    BY <2>1 DEF Requests, TypeOK
  <2>3. request' \in [Handlers -> Requests]
    BY <1>1, <1>2, <2>2, RequestStep DEF AssignPermissions, Start
  <2> QED
    BY <1>2, <2>3 DEF AssignPermissions, tables, access, history, TypeOK
<1>3. CASE DeleteGranted(h)
  <2>1. r \in Assigns
    BY <1>1, <1>3, RequestTypes DEF DeleteGranted
  <2>2. [op |-> "insert", role |-> r.role, list |-> r.list, rows |-> r.rows,
         others |-> r.others, todo |-> r.list] \in Requests
    BY <2>1 DEF Requests, Assigns
  <2>3. request' \in [Handlers -> Requests]
    BY <1>1, <1>3, <2>2, RequestStep DEF DeleteGranted, Continue
  <2> QED
    BY <1>3, <2>3 DEF DeleteGranted, tables, access, history, TypeOK
<1>4. ASSUME NEW p \in Perms, InsertGranted(h, p)
      PROVE  TypeOK'
  <2>1. r \in Inserts
    BY <1>1, <1>4, RequestTypes DEF InsertGranted
  <2>2. [r EXCEPT !.todo = @ \ {p}] \in Requests
    BY <2>1 DEF Requests, Inserts
  <2>3. CASE p \in granted[r.role] \ r.rows
    BY <1>1, <1>4, <2>3, Made, RequestStep DEF InsertGranted, Finish, tables, access, history, TypeOK
  <2>4. CASE p \notin granted[r.role] \ r.rows
    <3>1. request' = [request EXCEPT ![h] = [r EXCEPT !.todo = @ \ {p}]]
      BY <1>4, <2>4 DEF InsertGranted, Continue
    <3>2. request' \in [Handlers -> Requests]
      BY <1>1, <2>2, <3>1, RequestStep
    <3> QED
      BY <1>4, <3>2 DEF InsertGranted, tables, access, history, TypeOK
  <2> QED
    BY <2>3, <2>4
<1>5. CASE Commit(h)
  <2>1. r \in Inserts /\ request' \in [Handlers -> Requests]
    BY <1>5, Committing
  <2>2. /\ granted' \in [Roles -> SUBSET Perms]
        /\ last' \in [Roles -> SUBSET Perms] /\ around' \in [Roles -> SUBSET Perms]
    BY <1>5, <2>1 DEF Commit, Inserts, TypeOK
  <2> QED
    BY <1>5, <2>1, <2>2 DEF Commit, TypeOK
<1> QED
  BY <1>2, <1>3, <1>4, <1>5 DEF AssignSteps

LEMMA PermissionTypesKept ==
  ASSUME TypeOK, NEW h \in Handlers, PermissionSteps(h) \/ RoleSteps(h)
  PROVE  TypeOK'
<1> DEFINE r == request[h]
<1>1. /\ r \in Requests /\ request \in [Handlers -> Requests]
      /\ Forgetting(Users) \in Requests /\ Idle \in Requests
  BY Made DEF TypeOK
<1>2. ASSUME NEW p \in Perms, NEW k \in Keys, CreatePermission(h, p, k)
      PROVE  TypeOK'
  <2>1. request' \in [Handlers -> Requests] /\ perms' \in [Perms -> PermRow \cup {NoPerm}]
    BY <1>1, <1>2, RequestStep DEF CreatePermission, Start, PermRow, TypeOK
  <2> QED
    BY <1>2, <2>1 DEF CreatePermission, history, TypeOK
<1>3. ASSUME NEW p \in Perms, NEW k \in Keys, UpdatePermission(h, p, k)
      PROVE  TypeOK'
  <2>1. [op |-> "permission", perm |-> p, key |-> k] \in Requests
    BY DEF Requests
  <2>2. request' \in [Handlers -> Requests]
    BY <1>1, <1>3, <2>1, RequestStep DEF UpdatePermission, Start
  <2> QED
    BY <1>3, <2>2 DEF UpdatePermission, tables, access, history, TypeOK
<1>4. CASE SavePermission(h)
  <2>1. r.perm \in Perms /\ r.key \in Keys
    BY <1>1, <1>4, RequestTypes DEF SavePermission
  <2>2. request' \in [Handlers -> Requests]
    BY <1>1, <1>4, RequestStep DEF SavePermission, Continue
  <2>3. perms' \in [Perms -> PermRow \cup {NoPerm}]
    BY <1>4, <2>1 DEF SavePermission, PermRow, TypeOK
  <2> QED
    BY <1>4, <2>2, <2>3 DEF SavePermission, history, TypeOK
<1>5. ASSUME NEW p \in Perms, DeletePermission(h, p)
      PROVE  TypeOK'
  <2>1. perms[p] \in PermRow
    BY <1>5 DEF DeletePermission, NoPerm, TypeOK
  <2>2. [perms[p] EXCEPT !.live = FALSE] \in PermRow
    BY <2>1 DEF PermRow
  <2>3. request' \in [Handlers -> Requests] /\ perms' \in [Perms -> PermRow \cup {NoPerm}]
    BY <1>1, <1>5, <2>2, RequestStep DEF DeletePermission, Start, TypeOK
  <2> QED
    BY <1>5, <2>3 DEF DeletePermission, history, TypeOK
<1>6. ASSUME NEW role \in Roles, UpdateRole(h, role) \/ DeleteRole(h, role)
      PROVE  TypeOK'
  <2>1. [op |-> "role", role |-> role] \in Requests
    BY DEF Requests
  <2>2. request' \in [Handlers -> Requests]
    BY <1>1, <1>6, <2>1, RequestStep DEF UpdateRole, DeleteRole, Start
  <2> QED
    BY <1>6, <2>2 DEF UpdateRole, DeleteRole, tables, access, history, TypeOK
<1>7. CASE SaveRole(h)
  <2>1. request' \in [Handlers -> Requests]
    BY <1>1, <1>7, RequestStep DEF SaveRole, Finish
  <2> QED
    BY <1>7, <2>1 DEF SaveRole, history, TypeOK
<1> QED
  BY <1>2, <1>3, <1>4, <1>5, <1>6, <1>7 DEF PermissionSteps, RoleSteps

LEMMA UserTypesKept ==
  ASSUME TypeOK, NEW h \in Handlers, UserSteps(h)
  PROVE  TypeOK'
<1> DEFINE r == request[h]
<1>1. r \in Requests /\ request \in [Handlers -> Requests]
  BY DEF TypeOK
<1>2. ASSUME NEW u \in Users, NEW role \in Roles, AssignRole(h, u, role)
      PROVE  TypeOK'
  <2>1. [op |-> "user", user |-> u, role |-> role, assign |-> TRUE] \in Requests
    BY DEF Requests
  <2>2. request' \in [Handlers -> Requests]
    BY <1>1, <1>2, <2>1, RequestStep DEF AssignRole, Start
  <2> QED
    BY <1>2, <2>2 DEF AssignRole, tables, access, history, TypeOK
<1>3. ASSUME NEW u \in Users, CopyUser(h, u)
      PROVE  TypeOK'
  <2>1. [op |-> "user", user |-> u, role |-> roleOf[u], assign |-> FALSE] \in Requests
    BY DEF Requests, TypeOK
  <2>2. request' \in [Handlers -> Requests]
    BY <1>1, <1>3, <2>1, RequestStep DEF CopyUser, Start
  <2> QED
    BY <1>3, <2>2 DEF CopyUser, tables, access, history, TypeOK
<1>4. ASSUME NEW u \in Users, DeleteUser(h, u)
      PROVE  TypeOK'
  <2>1. Forgetting({u}) \in Requests
    BY Made
  <2>2. request' \in [Handlers -> Requests]
    BY <1>1, <1>4, <2>1, RequestStep DEF DeleteUser, Start
  <2> QED
    BY <1>4, <2>2 DEF DeleteUser, tables, access, history, TypeOK
<1>5. CASE SaveUser(h)
  <2>1. r.user \in Users /\ r.role \in Roles
    BY <1>1, <1>5, RequestTypes DEF SaveUser
  <2>2. Forgetting({r.user}) \in Requests /\ Idle \in Requests
    BY <2>1, Made
  <2> DEFINE reverts == ~r.assign /\ roleOf[r.user] # r.role
             base == IF reverts THEN Late({r.user}) ELSE request
             next == IF r.assign THEN Forgetting({r.user}) ELSE Idle
  <2>5. request' = [base EXCEPT ![h] = next]
    BY <1>5 DEF SaveUser
  <2>6. base \in [Handlers -> Requests] /\ next \in Requests
    BY <1>1, <2>2, LateTypes
  <2> HIDE DEF base, next
  <2>3. request' \in [Handlers -> Requests]
    BY <2>5, <2>6, RequestStep
  <2>4. roleOf' \in [Users -> Roles] /\ excused' \subseteq Users
    BY <1>5, <2>1 DEF SaveUser, TypeOK
  <2> QED
    BY <1>5, <2>3, <2>4 DEF SaveUser, TypeOK
<1> QED
  BY <1>2, <1>3, <1>4, <1>5 DEF UserSteps

LEMMA MenuTypesKept ==
  ASSUME TypeOK, NEW h \in Handlers, MenuSteps(h)
  PROVE  TypeOK'
<1> DEFINE r == request[h]
<1>1. r \in Requests /\ request \in [Handlers -> Requests]
  BY DEF TypeOK
<1>2. ASSUME NEW update \in MenuUpdates, UpdateMenu(h, update)
      PROVE  TypeOK'
  <2> DEFINE old == menus[update.menu]
             row == [parent |-> IF update.parent = Nil THEN old.parent ELSE update.parent,
                     active |-> IF update.active = Nil THEN old.active ELSE update.active]
  <2>1. update \in [menu: Menus, parent: Menus \cup {Nil}, active: BOOLEAN \cup {Nil}]
    BY PermissionsAssumption
  <2>2. update.menu \in Menus /\ old \in MenuRow
    BY <2>1 DEF TypeOK
  <2>3. row \in MenuRow
    BY <2>1, <2>2 DEF MenuRow
  <2>4. request' = [request EXCEPT ![h] = [op |-> "menu", menu |-> update.menu, row |-> row]]
    BY <1>2 DEF UpdateMenu, Start
  <2> HIDE DEF row
  <2>5. [op |-> "menu", menu |-> update.menu, row |-> row] \in Requests
    BY <2>2, <2>3 DEF Requests
  <2>6. request' \in [Handlers -> Requests]
    BY <1>1, <2>4, <2>5, RequestStep
  <2> QED
    BY <1>2, <2>6 DEF UpdateMenu, tables, access, history, TypeOK
<1>3. CASE SaveMenu(h)
  <2>1. r.menu \in Menus /\ r.row \in MenuRow
    BY <1>1, <1>3, RequestTypes DEF SaveMenu
  <2>2. request' \in [Handlers -> Requests]
    BY <1>1, <1>3, Made, RequestStep DEF SaveMenu, Finish
  <2> QED
    BY <1>3, <2>1, <2>2 DEF SaveMenu, access, history, TypeOK
<1> QED
  BY <1>2, <1>3 DEF MenuSteps

LEMMA InitTypes == Init => TypeOK
<1> SUFFICES ASSUME Init
             PROVE  TypeOK
  OBVIOUS
<1>1. [key: Keys, live: {TRUE}] \subseteq PermRow
  BY DEF PermRow
<1>2. request \in [Handlers -> Requests]
  BY Made DEF Init
<1>3. perms \in [Perms -> PermRow \cup {NoPerm}]
  BY <1>1 DEF Init
<1>4. menus \in [Menus -> MenuRow]
  BY PermissionsAssumption DEF Init
<1> QED
  BY <1>2, <1>3, <1>4 DEF Init, TypeOK

LEMMA StepTypes ==
  ASSUME TypeOK, [Next]_vars
  PROVE  TypeOK'
<1>1. ASSUME NEW h \in Handlers, Abort(h)
      PROVE  TypeOK'
  <2>1. request' \in [Handlers -> Requests]
    BY <1>1, Made, RequestStep DEF Abort, Finish, TypeOK
  <2> QED
    BY <1>1, <2>1 DEF Abort, tables, access, history, TypeOK
<1>2. ASSUME NEW role \in Roles, CreateRole(role)
      PROVE  TypeOK'
  BY <1>2 DEF CreateRole, history, TypeOK
<1>3. ASSUME NEW u \in Users, ExpireKeys(u)
      PROVE  TypeOK'
  BY <1>3 DEF ExpireKeys, tables, access, TypeOK
<1>4. CASE UNCHANGED vars
  BY <1>4 DEF vars, tables, access, history, TypeOK
<1> QED
  BY <1>1, <1>2, <1>3, <1>4, CacheTypes, AssignTypes, PermissionTypesKept, UserTypesKept,
     MenuTypesKept DEF Next

\* Types: every table, key and handler keeps the shape the code gives it.
THEOREM PermissionTypes == Spec => []TypeOK
  BY InitTypes, StepTypes, PTL DEF Spec

-----------------------------------------------------------------------------
(* The permissions of a role.                                              *)

\* Steps of a handler on something other than the permissions of a role.
Elsewhere(h) == CacheSteps(h) \/ PermissionSteps(h) \/ RoleSteps(h) \/ UserSteps(h) \/ MenuSteps(h)
                \/ Abort(h)

LEMMA Written ==
  ASSUME NEW f \in [Handlers -> Requests], NEW h \in Handlers, NEW x, request' = [f EXCEPT ![h] = x]
  PROVE  request'[h] = x /\ \A g \in Handlers \ {h} : request'[g] = f[g]
  OBVIOUS

\* The other handlers hold what they held, but may turn late.
LEMMA OthersKeep ==
  ASSUME TypeOK, NEW h \in Handlers, Elsewhere(h)
  PROVE  /\ UNCHANGED <<granted, last, around>>
         /\ request'[h].op \notin {"assign", "insert"}
         /\ \A g \in Handlers \ {h} :
              request'[g].op \in {"assign", "insert"} => request'[g] = request[g]
<1> DEFINE r == request[h]
<1>1. r \in Requests /\ request \in [Handlers -> Requests]
  BY DEF TypeOK
<1>2. ASSUME NEW S
      PROVE  /\ Late(S) \in [Handlers -> Requests]
             /\ \A g \in Handlers : Late(S)[g].op \in {"assign", "insert"} => Late(S)[g] = request[g]
  <2>1. Late(S) \in [Handlers -> Requests]
    BY LateTypes
  <2>2. ASSUME NEW g \in Handlers, Late(S)[g].op \in {"assign", "insert"}
        PROVE  Late(S)[g] = request[g]
    <3>1. \/ Late(S)[g] = request[g]
          \/ request[g].op \in {"read", "fill"} /\ Late(S)[g].op = request[g].op
      BY LateTypes
    <3> QED
      BY <2>2, <3>1
  <2> QED
    BY <2>1, <2>2
<1>3. ASSUME NEW u \in Users, DeleteKeys(h, u)
      PROVE  /\ UNCHANGED <<granted, last, around>>
             /\ request'[h].op \notin {"assign", "insert"}
             /\ \A g \in Handlers \ {h} :
                  request'[g].op \in {"assign", "insert"} => request'[g] = request[g]
  <2>1. r \in [op: {"forget"}, todo: SUBSET Users]
    BY <1>1, <1>3, RequestTypes DEF DeleteKeys
  <2>2. request' = [Late({u}) EXCEPT ![h] = [r EXCEPT !.todo = @ \ {u}]]
    BY <1>3 DEF DeleteKeys
  <2>3. request'[h] = [r EXCEPT !.todo = @ \ {u}]
        /\ \A g \in Handlers \ {h} : request'[g] = Late({u})[g]
    BY <1>2, <2>2, Written
  <2>4. request'[h].op = "forget"
    BY <2>1, <2>3
  <2> QED
    BY <1>2, <1>3, <2>3, <2>4 DEF DeleteKeys, tables, access
<1>4. CASE DeleteKeysFails(h)
  <2>1. request'[h] = Idle /\ \A g \in Handlers \ {h} : request'[g] = Late(r.todo)[g]
    BY <1>2, <1>4, Written DEF DeleteKeysFails
  <2> QED
    BY <1>2, <1>4, <2>1 DEF DeleteKeysFails, tables, access, Idle
<1>5. CASE SaveUser(h)
  <2> DEFINE base == IF ~r.assign /\ roleOf[r.user] # r.role THEN Late({r.user}) ELSE request
             next == IF r.assign THEN Forgetting({r.user}) ELSE Idle
  <2>1. request' = [base EXCEPT ![h] = next]
    BY <1>5 DEF SaveUser
  <2>2. /\ base \in [Handlers -> Requests] /\ next.op \notin {"assign", "insert"}
        /\ \A g \in Handlers : base[g].op \in {"assign", "insert"} => base[g] = request[g]
    BY <1>1, <1>2 DEF Forgetting, Idle
  <2> HIDE DEF base, next
  <2>3. request'[h] = next /\ \A g \in Handlers \ {h} : request'[g] = base[g]
    BY <2>1, <2>2, Written
  <2> QED
    BY <1>5, <2>2, <2>3 DEF SaveUser
<1>6. CASE Elsewhere(h) /\ (\A u \in Users : ~DeleteKeys(h, u)) /\ ~DeleteKeysFails(h) /\ ~SaveUser(h)
  <2>1. \E x : request' = [request EXCEPT ![h] = x]
    BY <1>6 DEF Elsewhere, CacheSteps, PermissionSteps, RoleSteps, UserSteps, MenuSteps, Abort,
       GetUserPermissions, ReadPermissions, SetUserPermissionKeys, Deleted, CreatePermission,
       UpdatePermission, SavePermission, DeletePermission, UpdateRole, DeleteRole, SaveRole, AssignRole,
       CopyUser, DeleteUser, UpdateMenu, SaveMenu, Start, Continue, Finish
  <2>3. /\ \A g \in Handlers \ {h} : request'[g] = request[g]
        /\ \A x : request' = [request EXCEPT ![h] = x] => request'[h] = x
    BY <1>1, <2>1
  <2>4. ASSUME CacheSteps(h) \/ MenuSteps(h) \/ Abort(h)
        PROVE  request'[h].op \notin {"assign", "insert"}
    BY <1>6, <2>3, <2>4 DEF CacheSteps, MenuSteps, Abort, GetUserPermissions, ReadPermissions,
       SetUserPermissionKeys, Deleted, UpdateMenu, SaveMenu, Start, Continue, Finish, Idle
  <2>5. ASSUME PermissionSteps(h) \/ RoleSteps(h) \/ UserSteps(h)
        PROVE  request'[h].op \notin {"assign", "insert"}
    BY <1>6, <2>3, <2>5 DEF PermissionSteps, RoleSteps, UserSteps, CreatePermission, UpdatePermission,
       SavePermission, DeletePermission, UpdateRole, DeleteRole, SaveRole, AssignRole, CopyUser,
       DeleteUser, Start, Continue, Finish, Idle, Forgetting
  <2>2. UNCHANGED <<granted, last, around>>
    BY <1>6 DEF Elsewhere, CacheSteps, PermissionSteps, RoleSteps, UserSteps, MenuSteps, Abort,
       GetUserPermissions, ReadPermissions, SetUserPermissionKeys, Deleted, CreatePermission,
       UpdatePermission, SavePermission, DeletePermission, UpdateRole, DeleteRole, SaveRole, AssignRole,
       CopyUser, DeleteUser, UpdateMenu, SaveMenu, tables, access, history
  <2> QED
    BY <1>6, <2>2, <2>3, <2>4, <2>5 DEF Elsewhere
<1> QED
  BY <1>3, <1>4, <1>5, <1>6

\* What a role has beyond the rows a transaction is to delete was committed
\* while it ran.
RowsSeen ==
  \A h \in Handlers : request[h].op \in {"assign", "insert"} =>
    granted[request[h].role] \subseteq request[h].rows \cup request[h].others

AssignInv == TypeOK /\ AssignedExactly /\ RowsSeen

LEMMA StepAssign ==
  ASSUME AssignInv, [Next]_vars
  PROVE  AssignInv'
<1>1. TypeOK /\ TypeOK'
  BY StepTypes DEF AssignInv
<1>2. ASSUME UNCHANGED <<granted, last, around, request>>
      PROVE  AssignedExactly' /\ RowsSeen'
  BY <1>2 DEF AssignInv, AssignedExactly, RowsSeen
<1>3. ASSUME NEW h \in Handlers, Elsewhere(h)
      PROVE  AssignedExactly' /\ RowsSeen'
  BY <1>1, <1>3, OthersKeep DEF AssignInv, AssignedExactly, RowsSeen
<1>4. ASSUME NEW h \in Handlers, AssignSteps(h)
      PROVE  AssignedExactly' /\ RowsSeen'
  <2> DEFINE r == request[h]
  <2>1. /\ r \in Requests
        /\ \A x : request' = [request EXCEPT ![h] = x] =>
             request'[h] = x /\ \A g \in Handlers \ {h} : request'[g] = request[g]
    BY <1>1 DEF TypeOK
  <2>2. ASSUME NEW role \in Assignable, NEW list \in Lists, AssignPermissions(h, role, list)
        PROVE  AssignedExactly' /\ RowsSeen'
    <3>1. request'[h] = [op |-> "assign", role |-> role, list |-> list, rows |-> granted[role],
                         others |-> {}]
      BY <2>1, <2>2 DEF AssignPermissions, Start
    <3>2. /\ UNCHANGED <<granted, last, around>>
          /\ \A g \in Handlers \ {h} : request'[g] = request[g]
          /\ request'[h].role = role /\ request'[h].rows = granted[role]
      BY <2>1, <2>2, <3>1 DEF AssignPermissions, Start, tables, access, history
    <3> QED
      BY <3>2 DEF AssignInv, AssignedExactly, RowsSeen
  <2>3. CASE DeleteGranted(h)
    <3>1. request'[h] = [op |-> "insert", role |-> r.role, list |-> r.list, rows |-> r.rows,
                         others |-> r.others, todo |-> r.list]
      BY <2>1, <2>3 DEF DeleteGranted, Continue
    <3>2. /\ UNCHANGED <<granted, last, around>> /\ r.op = "assign"
          /\ \A g \in Handlers \ {h} : request'[g] = request[g]
          /\ request'[h].role = r.role /\ request'[h].rows = r.rows /\ request'[h].others = r.others
      BY <2>1, <2>3, <3>1 DEF DeleteGranted, Continue, tables, access, history
    <3> QED
      BY <3>2 DEF AssignInv, AssignedExactly, RowsSeen
  <2>4. ASSUME NEW p \in Perms, InsertGranted(h, p)
        PROVE  AssignedExactly' /\ RowsSeen'
    <3>1. r \in Inserts
      BY <2>1, <2>4, RequestTypes DEF InsertGranted
    <3>2. request'[h] = Idle \/ request'[h] = [r EXCEPT !.todo = @ \ {p}]
      BY <2>1, <2>4 DEF InsertGranted, Continue, Finish
    <3>3. /\ UNCHANGED <<granted, last, around>>
          /\ \A g \in Handlers \ {h} : request'[g] = request[g]
      BY <2>1, <2>4 DEF InsertGranted, Continue, Finish, tables, access, history
    <3>4. \/ request'[h].op = "idle"
          \/ /\ r.op = "insert" /\ request'[h].role = r.role /\ request'[h].rows = r.rows
             /\ request'[h].others = r.others
      BY <3>1, <3>2 DEF Inserts, Idle
    <3> QED
      BY <3>3, <3>4 DEF AssignInv, AssignedExactly, RowsSeen
  <2>5. CASE Commit(h)
    <3>1. /\ r \in Inserts /\ r.op = "insert" /\ r.role \in Roles
          /\ r.list \subseteq Perms
      BY <1>1, <2>5, Committing DEF Inserts, Commit
    <3>2. /\ granted' = [granted EXCEPT ![r.role] = (@ \ r.rows) \cup r.list]
          /\ last' = [last EXCEPT ![r.role] = r.list]
          /\ around' = [around EXCEPT ![r.role] = r.list \cup r.others]
      BY <2>5 DEF Commit
    <3>3. granted[r.role] \subseteq r.rows \cup r.others
      BY <3>1 DEF AssignInv, RowsSeen
    <3> HIDE DEF r
    <3>4. AssignedExactly'
      BY <1>1, <3>1, <3>2, <3>3 DEF AssignInv, AssignedExactly, TypeOK
    <3>5. ASSUME NEW g \in Handlers, request'[g].op \in {"assign", "insert"}
          PROVE  granted'[request'[g].role] \subseteq request'[g].rows \cup request'[g].others
      <4>1. g # h
        BY <1>1, <2>5, <3>5, Committing DEF Forgetting
      <4>2. /\ request[g].op \in {"assign", "insert"}
            /\ granted[request[g].role] \subseteq request[g].rows \cup request[g].others
        BY <1>1, <2>5, <3>5, <4>1, Committing DEF AssignInv, RowsSeen
      <4>3. CASE request[g].role = r.role
        <5>1. /\ request'[g].role = r.role /\ request'[g].others = request[g].others \cup r.list
              /\ request[g].rows \ r.rows \subseteq request'[g].rows
          BY <1>1, <2>5, <4>1, <4>2, <4>3, Committing DEF r
        <5>2. granted'[r.role] = (granted[r.role] \ r.rows) \cup r.list
          BY <1>1, <3>1, <3>2 DEF TypeOK
        <5> QED
          BY <4>2, <4>3, <5>1, <5>2
      <4>4. CASE request[g].role # r.role
        <5>1. request'[g] = request[g]
          BY <1>1, <2>5, <4>1, <4>2, <4>4, Committing DEF r
        <5>2. request[g].role \in Roles
          BY <1>1, <4>2, RequestTypes DEF TypeOK, Assigns, Inserts
        <5>3. granted'[request[g].role] = granted[request[g].role]
          BY <1>1, <3>2, <4>4, <5>2 DEF TypeOK
        <5> QED
          BY <4>2, <5>1, <5>3
      <4> QED
        BY <4>3, <4>4
    <3> QED
      BY <3>4, <3>5 DEF RowsSeen
  <2> QED
    BY <1>4, <2>2, <2>3, <2>4, <2>5 DEF AssignSteps
<1>5. ASSUME NEW role \in Roles, CreateRole(role)
      PROVE  UNCHANGED <<granted, last, around, request>>
  BY <1>5 DEF CreateRole, history
<1>6. ASSUME NEW u \in Users, ExpireKeys(u)
      PROVE  UNCHANGED <<granted, last, around, request>>
  BY <1>6 DEF ExpireKeys, tables, access
<1>7. ASSUME UNCHANGED vars
      PROVE  UNCHANGED <<granted, last, around, request>>
  BY <1>7 DEF vars, tables, access, history
<1> QED
  BY <1>1, <1>2, <1>3, <1>4, <1>5, <1>6, <1>7 DEF Next, Elsewhere, AssignInv

\* A role has the list last committed for it and nothing that neither this list
\* nor one of an overlapping transaction names (repositories/role/role.go:45).
THEOREM RolesHoldTheirLists == Spec => []AssignedExactly
<1>1. Init => AssignInv
  <2> SUFFICES ASSUME Init
               PROVE  AssignInv
    OBVIOUS
  <2>1. AssignedExactly
    BY DEF Init, AssignedExactly
  <2>2. RowsSeen
    BY DEF Init, RowsSeen, Idle
  <2> QED
    BY <2>1, <2>2, InitTypes DEF AssignInv
<1>2. AssignInv => AssignedExactly
  BY DEF AssignInv
<1> QED
  BY <1>1, <1>2, StepAssign, PTL DEF Spec

-----------------------------------------------------------------------------
(* Cached keys.                                                            *)

\* What the middleware read and may still cache is up to date, unless a writer
\* is still to invalidate it or has done so meanwhile.
ReadersFollow ==
  \A h \in Handlers :
    /\ request[h].op = "read" /\ request[h].late = FALSE =>
         request[h].role = roleOf[request[h].user] \/ Invalidating(request[h].user)
    /\ request[h].op = "fill" /\ request[h].late = FALSE =>
         request[h].keys = KeysOf(roleOf[request[h].user]) \/ Invalidating(request[h].user)

Follow == CacheFollows /\ ReadersFollow

CacheInv == TypeOK /\ Follow

LEMMA ReaderTypes ==
  ASSUME TypeOK, NEW g \in Handlers
  PROVE  /\ request[g].op \in {"read", "fill"} =>
              request[g].user \in Users /\ request[g].late \in BOOLEAN
         /\ request[g].op = "read" => request[g].role \in Roles
         /\ request[g].op = "fill" => request[g].keys \subseteq Keys
<1>1. request[g] \in Requests
  BY DEF TypeOK
<1> QED
  BY <1>1, RequestTypes DEF Reads, Fills

LEMMA KeysKept ==
  ASSUME UNCHANGED <<perms, granted>>, NEW role
  PROVE  KeysOf(role)' = KeysOf(role)
  BY DEF KeysOf

\* A writer that is to delete every key excuses them all.
LEMMA AllForgotten ==
  ASSUME TypeOK', NEW h \in Handlers, request'[h] = Forgetting(Users)
  PROVE  Follow'
<1>1. \A u \in Users : Invalidating(u)'
  BY DEF Invalidating, Forgetting
<1>2. ASSUME NEW g \in Handlers, request'[g].op \in {"read", "fill"}
      PROVE  request'[g].user \in Users
  <2>1. request'[g] \in Requests'
    BY DEF TypeOK
  <2> QED
    BY <1>2, <2>1, RequestTypes DEF Requests, Reads, Fills
<1> QED
  BY <1>1, <1>2 DEF Follow, CacheFollows, ReadersFollow

\* Steps that neither read for the cache nor change what is cached.
LEMMA QuietCache ==
  ASSUME CacheInv, NEW h \in Handlers, UNCHANGED <<perms, granted, roleOf, cache, excused>>,
         \A g \in Handlers \ {h} : request'[g] = request[g],
         request'[h].op \notin {"read", "fill"},
         request[h].op = "forget" => request[h].todo = {}
  PROVE  Follow'
<1>1. \A u \in Users : Invalidating(u) => Invalidating(u)'
  BY DEF Invalidating
<1>2. \A role : KeysOf(role)' = KeysOf(role)
  BY DEF KeysOf
<1>3. CacheFollows'
  BY <1>1, <1>2 DEF CacheInv, Follow, CacheFollows
<1>4. ReadersFollow'
  BY <1>1, <1>2, ReaderTypes DEF CacheInv, Follow, ReadersFollow
<1> QED
  BY <1>3, <1>4 DEF Follow

\* The keys of the users in S are deleted, or are left and excused.
LEMMA Forgetful ==
  ASSUME CacheInv, NEW h \in Handlers, NEW S \in SUBSET Users,
         UNCHANGED <<perms, granted, roleOf>>,
         \A u \in Users \ S : cache'[u] = cache[u] /\ (u \in excused => u \in excused'),
         \A u \in S : cache'[u] = Nil \/ u \in excused',
         \A g \in Handlers \ {h} : request'[g] = Late(S)[g],
         request[h].op \notin {"read", "fill"}, request'[h].op \notin {"read", "fill"},
         request[h].op = "forget" => /\ request[h].todo \in SUBSET Users
                                     /\ \/ request[h].todo \subseteq S
                                        \/ /\ request'[h].op = "forget"
                                           /\ request[h].todo \ S \subseteq request'[h].todo
  PROVE  Follow'
<1>1. ASSUME NEW g \in Handlers \ {h}
      PROVE  /\ request[g].op = "forget" => request'[g] = request[g]
             /\ request'[g].op \in {"read", "fill"} /\ request'[g].late = FALSE =>
                  request'[g] = request[g] /\ request[g].user \notin S
  <2>1. \/ Late(S)[g] = request[g]
           /\ (request[g].op \in {"read", "fill"} => request[g].user \notin S)
        \/ /\ request[g].op \in {"read", "fill"} /\ Late(S)[g].op = request[g].op
           /\ Late(S)[g].late = TRUE
    BY LateTypes DEF CacheInv
  <2> QED
    BY <2>1
<1>2. ASSUME NEW u \in Users \ S, Invalidating(u)
      PROVE  Invalidating(u)'
  BY <1>1, <1>2 DEF Invalidating
<1>3. \A role : KeysOf(role)' = KeysOf(role)
  BY DEF KeysOf
<1>4. CacheFollows'
  BY <1>2, <1>3 DEF CacheInv, Follow, CacheFollows
<1>5. ReadersFollow'
  <2>1. ASSUME NEW g \in Handlers, request'[g].op \in {"read", "fill"}, request'[g].late = FALSE
        PROVE  request'[g] = request[g] /\ request[g].user \in Users \ S
    BY <1>1, <2>1, ReaderTypes DEF CacheInv
  <2> QED
    BY <1>2, <1>3, <2>1 DEF CacheInv, Follow, ReadersFollow
<1> QED
  BY <1>4, <1>5 DEF Follow

LEMMA MiddlewareFollows ==
  ASSUME CacheInv, TypeOK', NEW h \in Handlers, CacheSteps(h)
  PROVE  Follow'
<1> DEFINE r == request[h]
<1>1. r \in Requests /\ request \in [Handlers -> Requests]
  BY DEF CacheInv, TypeOK
<1>2. ASSUME NEW g \in Handlers, request[g].op \in {"read", "fill"}
      PROVE  request[g].user \in Users
  BY <1>2, ReaderTypes DEF CacheInv
<1>3. ASSUME NEW u \in Users, GetUserPermissions(h, u)
      PROVE  Follow'
  <2>1. request'[h] = [op |-> "read", user |-> u, role |-> roleOf[u], late |-> FALSE]
        /\ \A g \in Handlers \ {h} : request'[g] = request[g]
    BY <1>1, <1>3, Written DEF GetUserPermissions, Start
  <2>2. UNCHANGED <<perms, granted, roleOf, cache, excused>> /\ r = Idle
    BY <1>3 DEF GetUserPermissions, Start, tables, access, history
  <2>3. /\ request'[h].op = "read" /\ request'[h].user = u /\ request'[h].role = roleOf[u]
    BY <2>1
  <2>4. \A v \in Users : Invalidating(v) => Invalidating(v)'
    BY <2>1, <2>2 DEF Invalidating, Idle
  <2>5. \A role : KeysOf(role)' = KeysOf(role)
    BY <2>2 DEF KeysOf
  <2>6. CacheFollows'
    BY <2>2, <2>4, <2>5 DEF CacheInv, Follow, CacheFollows
  <2>7. ReadersFollow'
    BY <1>2, <2>1, <2>2, <2>3, <2>4, <2>5 DEF CacheInv, Follow, ReadersFollow
  <2> QED
    BY <2>6, <2>7 DEF Follow
<1>4. CASE ReadPermissions(h)
  <2>1. request'[h] = [op |-> "fill", user |-> r.user, keys |-> KeysOf(r.role), late |-> r.late]
        /\ \A g \in Handlers \ {h} : request'[g] = request[g]
    BY <1>1, <1>4, Written DEF ReadPermissions, Continue
  <2>2. UNCHANGED <<perms, granted, roleOf, cache, excused>> /\ r.op = "read" /\ r.user \in Users
    BY <1>2, <1>4 DEF ReadPermissions, tables, access, history
  <2>3. /\ request'[h].op = "fill" /\ request'[h].user = r.user /\ request'[h].late = r.late
        /\ request'[h].keys = KeysOf(r.role)
    BY <2>1
  <2>4. \A v \in Users : Invalidating(v) => Invalidating(v)'
    BY <2>1, <2>2 DEF Invalidating
  <2>5. \A role : KeysOf(role)' = KeysOf(role)
    BY <2>2 DEF KeysOf
  <2>6. CacheFollows'
    BY <2>2, <2>4, <2>5 DEF CacheInv, Follow, CacheFollows
  <2>7. r.late = FALSE => r.role = roleOf[r.user] \/ Invalidating(r.user)
    BY <2>2 DEF CacheInv, Follow, ReadersFollow
  <2>8. ReadersFollow'
    BY <1>2, <2>1, <2>2, <2>3, <2>4, <2>5, <2>7 DEF CacheInv, Follow, ReadersFollow
  <2> QED
    BY <2>6, <2>8 DEF Follow
<1>5. CASE SetUserPermissionKeys(h)
  <2>1. request'[h] = Idle /\ \A g \in Handlers \ {h} : request'[g] = request[g]
    BY <1>1, <1>5, Written DEF SetUserPermissionKeys, Finish
  <2>2. /\ UNCHANGED <<perms, granted, roleOf>> /\ r.op = "fill"
        /\ r.user \in Users /\ r.late \in BOOLEAN
        /\ request'[h].op \notin {"read", "fill"}
    BY <1>5, <2>1, ReaderTypes DEF SetUserPermissionKeys, tables, access, Idle, CacheInv
  <2>3. CASE UNCHANGED <<cache, excused>>
    BY <2>1, <2>2, <2>3, QuietCache
  <2>4. CASE /\ cache' = [cache EXCEPT ![r.user] = r.keys]
             /\ excused' = IF r.late THEN excused \cup {r.user} ELSE excused \ {r.user}
    <3>1. \A v \in Users : Invalidating(v) => Invalidating(v)'
      BY <2>1, <2>2 DEF Invalidating
    <3>2. \A role : KeysOf(role)' = KeysOf(role)
      BY <2>2 DEF KeysOf
    <3>3. r.late = FALSE => r.keys = KeysOf(roleOf[r.user]) \/ Invalidating(r.user)
      BY <2>2 DEF CacheInv, Follow, ReadersFollow
    <3>4. \A v \in Users : cache'[v] = IF v = r.user THEN r.keys ELSE cache[v]
      BY <2>4 DEF CacheInv, TypeOK
    <3>5. CacheFollows'
      BY <2>2, <2>4, <3>1, <3>2, <3>3, <3>4 DEF CacheInv, Follow, CacheFollows
    <3>6. ReadersFollow'
      BY <1>2, <2>1, <2>2, <3>1, <3>2 DEF CacheInv, Follow, ReadersFollow
    <3> QED
      BY <3>5, <3>6 DEF Follow
  <2> QED
    BY <1>5, <2>3, <2>4 DEF SetUserPermissionKeys
<1>6. ASSUME NEW u \in Users, DeleteKeys(h, u)
      PROVE  Follow'
  <2>1. r \in [op: {"forget"}, todo: SUBSET Users]
    BY <1>1, <1>6, RequestTypes DEF DeleteKeys
  <2>2. Late({u}) \in [Handlers -> Requests]
    BY LateTypes DEF CacheInv
  <2>3. request'[h] = [r EXCEPT !.todo = r.todo \ {u}]
        /\ \A g \in Handlers \ {h} : request'[g] = Late({u})[g]
    BY <1>6, <2>2, Written DEF DeleteKeys
  <2>4. request'[h].op = "forget" /\ request'[h].todo = r.todo \ {u}
    BY <2>1, <2>3
  <2>5. /\ UNCHANGED <<perms, granted, roleOf>> /\ cache'[u] = Nil
        /\ \A v \in Users \ {u} : cache'[v] = cache[v] /\ (v \in excused => v \in excused')
    BY <1>6 DEF DeleteKeys, tables, access, CacheInv, TypeOK
  <2>6. {u} \in SUBSET Users /\ r.op = "forget" /\ r.todo \in SUBSET Users
    BY <2>1
  <2> QED
    BY <2>3, <2>4, <2>5, <2>6, Forgetful
<1>7. CASE DeleteKeysFails(h)
  <2>1. r.op = "forget" /\ r.todo \in SUBSET Users
    BY <1>1, <1>7, RequestTypes DEF DeleteKeysFails
  <2>2. Late(r.todo) \in [Handlers -> Requests]
    BY LateTypes DEF CacheInv
  <2>3. request'[h] = Idle /\ \A g \in Handlers \ {h} : request'[g] = Late(r.todo)[g]
    BY <1>7, <2>2, Written DEF DeleteKeysFails
  <2>4. /\ UNCHANGED <<perms, granted, roleOf>>
        /\ \A u \in Users \ r.todo : cache'[u] = cache[u] /\ (u \in excused => u \in excused')
        /\ \A u \in r.todo : cache'[u] = Nil \/ u \in excused'
    BY <1>7 DEF DeleteKeysFails, tables, access
  <2>5. request'[h].op \notin {"read", "fill"}
    BY <2>3 DEF Idle
  <2> HIDE DEF r
  <2> QED
    BY <2>1, <2>3, <2>4, <2>5, Forgetful DEF r
<1>8. CASE Deleted(h)
  <2>1. request'[h] = Idle /\ \A g \in Handlers \ {h} : request'[g] = request[g]
    BY <1>1, <1>8, Written DEF Deleted, Finish
  <2>2. UNCHANGED <<perms, granted, roleOf, cache, excused>> /\ r.todo = {}
        /\ request'[h].op \notin {"read", "fill"}
    BY <1>8, <2>1 DEF Deleted, tables, access, history, Forgetting, Idle
  <2> QED
    BY <2>1, <2>2, QuietCache
<1> QED
  BY <1>3, <1>4, <1>5, <1>6, <1>7, <1>8 DEF CacheSteps

\* A save of a user: invalidating, or without effect on the role, or excused.
LEMMA UsersFollow ==
  ASSUME CacheInv, TypeOK', NEW h \in Handlers, SaveUser(h)
  PROVE  Follow'
<1> DEFINE r == request[h]
<1>1. r.op = "user" /\ r.user \in Users /\ r.role \in Roles /\ r.assign \in BOOLEAN
      /\ request \in [Handlers -> Requests]
  BY RequestTypes DEF SaveUser, CacheInv, TypeOK
<1>2. /\ UNCHANGED <<perms, granted, cache>>
      /\ roleOf' = [roleOf EXCEPT ![r.user] = r.role]
  BY DEF SaveUser
<1>3. \A v \in Users \ {r.user} : roleOf'[v] = roleOf[v]
  BY <1>1, <1>2 DEF CacheInv, TypeOK
<1>4. \A role : KeysOf(role)' = KeysOf(role)
  BY <1>2 DEF KeysOf
<1>5. ASSUME NEW g \in Handlers, request[g].op \in {"read", "fill"}
      PROVE  request[g].user \in Users
  BY <1>5, ReaderTypes DEF CacheInv
<1>6. CASE r.assign
  <2>1. request'[h] = Forgetting({r.user}) /\ \A g \in Handlers \ {h} : request'[g] = request[g]
    BY <1>1, <1>6, Written DEF SaveUser
  <2>2. UNCHANGED excused
    BY <1>6 DEF SaveUser
  <2>6. PICK w \in Users : w = r.user
    BY <1>1
  <2>3. /\ Invalidating(w)' /\ request'[h].op = "forget"
        /\ \A v \in Users : Invalidating(v) => Invalidating(v)'
    BY <1>1, <2>1, <2>6 DEF Invalidating, Forgetting
  <2>4. CacheFollows'
    BY <1>2, <1>3, <1>4, <2>2, <2>3, <2>6 DEF CacheInv, Follow, CacheFollows
  <2>5. ReadersFollow'
    BY <1>3, <1>4, <1>5, <2>1, <2>3, <2>6 DEF CacheInv, Follow, ReadersFollow
  <2> QED
    BY <2>4, <2>5 DEF Follow
<1>7. CASE ~r.assign /\ roleOf[r.user] = r.role
  <2>1. request'[h] = Idle /\ \A g \in Handlers \ {h} : request'[g] = request[g]
    BY <1>1, <1>7, Written DEF SaveUser
  <2>2. UNCHANGED <<roleOf, excused>> /\ request'[h].op \notin {"read", "fill"}
    BY <1>2, <1>7, <2>1 DEF SaveUser, Idle, CacheInv, TypeOK
  <2> QED
    BY <1>1, <1>2, <2>1, <2>2, QuietCache
<1>8. CASE ~r.assign /\ roleOf[r.user] # r.role
  <2>1. Late({r.user}) \in [Handlers -> Requests]
    BY LateTypes DEF CacheInv
  <2>2. request'[h] = Idle /\ \A g \in Handlers \ {h} : request'[g] = Late({r.user})[g]
    BY <1>8, <2>1, Written DEF SaveUser
  <2>3. excused' = IF cache[r.user] # Nil THEN excused \cup {r.user} ELSE excused
    BY <1>8 DEF SaveUser
  <2>4. ASSUME NEW g \in Handlers \ {h}
        PROVE  /\ request[g].op = "forget" => request'[g] = request[g]
               /\ request'[g].op \in {"read", "fill"} /\ request'[g].late = FALSE =>
                    request'[g] = request[g] /\ request[g].user # r.user
    <3>1. \/ Late({r.user})[g] = request[g]
             /\ (request[g].op \in {"read", "fill"} => request[g].user \notin {r.user})
          \/ /\ request[g].op \in {"read", "fill"} /\ Late({r.user})[g].op = request[g].op
             /\ Late({r.user})[g].late = TRUE
      BY LateTypes DEF CacheInv
    <3> QED
      BY <2>2, <3>1
  <2>5. \A v \in Users : Invalidating(v) => Invalidating(v)'
    BY <1>1, <2>2, <2>4 DEF Invalidating
  <2>6. CacheFollows'
    BY <1>2, <1>3, <1>4, <2>3, <2>5 DEF CacheInv, Follow, CacheFollows
  <2>7. request'[h].op \notin {"read", "fill"}
    BY <2>2 DEF Idle
  <2>8. ReadersFollow'
    BY <1>3, <1>4, <1>5, <2>4, <2>5, <2>7 DEF CacheInv, Follow, ReadersFollow
  <2> QED
    BY <2>6, <2>8 DEF Follow
<1> QED
  BY <1>6, <1>7, <1>8

LEMMA StepCache ==
  ASSUME CacheInv, [Next]_vars
  PROVE  CacheInv'
<1>1. TypeOK /\ TypeOK' /\ request \in [Handlers -> Requests]
  BY StepTypes DEF CacheInv, TypeOK
<1>2. ASSUME NEW h \in Handlers,
             Commit(h) \/ SavePermission(h)
             \/ (\E p \in Perms : (\E k \in Keys : CreatePermission(h, p, k)) \/ DeletePermission(h, p))
             \/ (\E role \in Roles : DeleteRole(h, role))
      PROVE  Follow'
  <2>1. request'[h] = Forgetting(Users)
    <3>1. CASE Commit(h)
      BY <1>1, <3>1, Committing
    <3>2. CASE ~Commit(h)
      BY <1>1, <1>2, <3>2, Written DEF SavePermission, CreatePermission, DeletePermission, DeleteRole,
         Start, Continue
    <3> QED
      BY <3>1, <3>2
  <2> QED
    BY <1>1, <2>1, AllForgotten
<1>4. ASSUME NEW h \in Handlers, AssignSteps(h), ~Commit(h)
      PROVE  Follow'
  <2>1. request[h].op # "forget"
    <3>1. ASSUME NEW role \in Assignable, NEW list \in Lists, AssignPermissions(h, role, list)
          PROVE  request[h] = Idle
      BY <3>1, ZenonT(60) DEF AssignPermissions, Start
    <3>2. DeleteGranted(h) => request[h].op = "assign"
      BY DEF DeleteGranted
    <3>3. \A p \in Perms : InsertGranted(h, p) => request[h].op = "insert"
      BY DEF InsertGranted
    <3> QED
      BY <1>4, <3>1, <3>2, <3>3 DEF AssignSteps, Idle
  <2>4. UNCHANGED <<perms, granted, roleOf, cache, excused>>
    BY <1>4 DEF AssignSteps, AssignPermissions, DeleteGranted, InsertGranted, tables, access, history
  <2>2. \E x : request' = [request EXCEPT ![h] = x]
    BY <1>4 DEF AssignSteps, AssignPermissions, DeleteGranted, InsertGranted, Start, Continue, Finish
  <2>3. request'[h].op \notin {"read", "fill"} /\ \A g \in Handlers \ {h} : request'[g] = request[g]
    <3>1. ASSUME NEW p \in Perms, InsertGranted(h, p)
          PROVE  request'[h].op \notin {"read", "fill"}
      <4>1. request[h] \in Inserts
        BY <1>1, <3>1, RequestTypes DEF InsertGranted
      <4>2. request'[h] = Idle \/ request'[h] = [request[h] EXCEPT !.todo = @ \ {p}]
        BY <1>1, <3>1 DEF InsertGranted, Continue, Finish
      <4> QED
        BY <4>1, <4>2 DEF Inserts, Idle
    <3>2. /\ \A g \in Handlers \ {h} : request'[g] = request[g]
          /\ \A x : request' = [request EXCEPT ![h] = x] => request'[h] = x
      BY <1>1, <2>2
    <3> QED
      BY <1>4, <3>1, <3>2 DEF AssignSteps, AssignPermissions, DeleteGranted, Start, Continue
  <2> QED
    BY <2>1, <2>3, <2>4, QuietCache
<1>5. ASSUME NEW h \in Handlers,
             \/ \E p \in Perms, k \in Keys : UpdatePermission(h, p, k)
             \/ (\E role \in Roles : UpdateRole(h, role)) \/ SaveRole(h)
             \/ \E u \in Users : \/ \E role \in Roles : AssignRole(h, u, role)
                                 \/ CopyUser(h, u) \/ DeleteUser(h, u)
             \/ MenuSteps(h) \/ Abort(h)
      PROVE  Follow'
  <2>1. request[h].op # "forget"
    <3>1. ASSUME NEW u \in Users
          PROVE  /\ \A role \in Roles : AssignRole(h, u, role) => request[h] = Idle
                 /\ CopyUser(h, u) \/ DeleteUser(h, u) => request[h] = Idle
      BY ZenonT(60) DEF AssignRole, CopyUser, DeleteUser, Start
    <3>2. /\ \A p \in Perms, k \in Keys : UpdatePermission(h, p, k) => request[h] = Idle
          /\ \A role \in Roles : UpdateRole(h, role) => request[h] = Idle
          /\ \A update \in MenuUpdates : UpdateMenu(h, update) => request[h] = Idle
      BY ZenonT(60) DEF UpdatePermission, UpdateRole, UpdateMenu, Start
    <3>3. SaveRole(h) \/ SaveMenu(h) \/ Abort(h) => request[h].op # "forget"
      BY DEF SaveRole, SaveMenu, Abort
    <3> QED
      BY <1>5, <3>1, <3>2, <3>3 DEF MenuSteps, Idle
  <2>5. UNCHANGED <<perms, granted, roleOf, cache, excused>>
    BY <1>5 DEF UpdatePermission, UpdateRole, SaveRole, AssignRole, CopyUser, DeleteUser, MenuSteps,
       UpdateMenu, SaveMenu, Abort, tables, access, history
  <2>2. \E x : request' = [request EXCEPT ![h] = x]
    BY <1>5 DEF UpdatePermission, UpdateRole, SaveRole, AssignRole, CopyUser, DeleteUser, MenuSteps,
       UpdateMenu, SaveMenu, Abort, Start, Finish
  <2>3. /\ \A g \in Handlers \ {h} : request'[g] = request[g]
        /\ \A x : request' = [request EXCEPT ![h] = x] => request'[h] = x
    BY <1>1, <2>2
  <2>4. request'[h].op \notin {"read", "fill"}
    BY <1>5, <2>3 DEF UpdatePermission, UpdateRole, SaveRole, AssignRole, CopyUser, DeleteUser, MenuSteps,
       UpdateMenu, SaveMenu, Abort, Start, Finish, Idle, Forgetting
  <2> QED
    BY <2>1, <2>3, <2>4, <2>5, QuietCache
<1>6. ASSUME UNCHANGED <<perms, granted, roleOf, request>>,
             \A u \in Users : \/ cache'[u] = cache[u] /\ (u \in excused => u \in excused')
                             \/ cache'[u] = Nil
      PROVE  Follow'
  <2>1. \A u \in Users : Invalidating(u)' <=> Invalidating(u)
    BY <1>6 DEF Invalidating
  <2>2. \A role : KeysOf(role)' = KeysOf(role)
    BY <1>6 DEF KeysOf
  <2>3. CacheFollows'
    BY <1>6, <2>1, <2>2 DEF CacheInv, Follow, CacheFollows
  <2>4. ReadersFollow'
    BY <1>1, <1>6, <2>1, <2>2, ReaderTypes DEF CacheInv, Follow, ReadersFollow
  <2> QED
    BY <2>3, <2>4 DEF Follow
<1>7. ASSUME (\E role \in Roles : CreateRole(role)) \/ (\E u \in Users : ExpireKeys(u)) \/ UNCHANGED vars
      PROVE  Follow'
  <2>1. UNCHANGED <<perms, granted, roleOf, request>>
    BY <1>7 DEF CreateRole, ExpireKeys, vars, tables, access, history
  <2>2. \A u \in Users : \/ cache'[u] = cache[u] /\ (u \in excused => u \in excused')
                        \/ cache'[u] = Nil
    BY <1>1, <1>7 DEF CreateRole, ExpireKeys, vars, tables, access, history, TypeOK
  <2> QED
    BY <1>6, <2>1, <2>2
<1>8. ASSUME NEW h \in Handlers, CacheSteps(h) \/ SaveUser(h)
      PROVE  Follow'
  BY <1>1, <1>8, MiddlewareFollows, UsersFollow
<1>9. Follow'
  BY <1>2, <1>4, <1>5, <1>7, <1>8 DEF Next, AssignSteps, PermissionSteps, RoleSteps, UserSteps
<1> QED
  BY <1>1, <1>9 DEF CacheInv

\* Whatever the interleaving, cached keys are those of the tables, but for what
\* a writer is still to delete, could not delete, or was outrun by
\* (auth.go:217, user_service.go:195).
THEOREM CacheShowsTables == Spec => []CacheFollows
<1>1. Init => CacheInv
  <2> SUFFICES ASSUME Init
               PROVE  CacheInv
    OBVIOUS
  <2>1. CacheFollows
    BY DEF Init, CacheFollows
  <2>2. ReadersFollow
    BY DEF Init, ReadersFollow, Idle
  <2> QED
    BY <2>1, <2>2, InitTypes DEF CacheInv, Follow
<1>2. CacheInv => CacheFollows
  BY DEF CacheInv, Follow
<1> QED
  BY <1>1, <1>2, StepCache, PTL DEF Spec
-----------------------------------------------------------------------------
(* Menus.  The walk up is a function defined by recursion; what it computes *)
(* follows from the least index at which it would go wrong.                 *)

Below == {p \in Nat \X Nat : p[1] < p[2]}

LEMMA BelowIsWellFounded == IsWellFoundedOn(Below, Nat)
<1>1. Below = OpToRel(<, Nat)
  BY Zenon DEF Below, OpToRel
<1> QED
  BY <1>1, NatLessThanWellFounded, Zenon

LEMMA LeastIndex ==
  ASSUME NEW T \in SUBSET Nat, T # {}
  PROVE  \E n \in T : \A k \in T : n <= k
<1>1. PICK n \in T : \A k \in T : <<k, n>> \notin Below
  BY BelowIsWellFounded, WFMin
<1>2. \A k, l \in Nat : k < l => <<k, l>> \in Below
  BY DEF Below
<1>3. \A k \in T : ~(k < n)
  BY <1>1, <1>2
<1> QED
  BY <1>3

\* A set that holds the first index of a range, and with each index the next,
\* holds the whole range.
LEMMA Onward ==
  ASSUME NEW i \in Nat, NEW n \in Nat, NEW T, i \in T,
         \A k \in i..n : k \in T /\ k < n => k + 1 \in T
  PROVE  i..n \subseteq T
<1> DEFINE Bad == (i..n) \ T
<1> SUFFICES ASSUME Bad # {}
             PROVE  FALSE
  OBVIOUS
<1>1. PICK b \in Bad : \A k \in Bad : b <= k
  <2>1. Bad \in SUBSET Nat
    OBVIOUS
  <2> HIDE DEF Bad
  <2> QED
    BY <2>1, LeastIndex
<1>2. b # i /\ b \in i..n /\ b \notin T
  OBVIOUS
<1>3. b - 1 \in i..n /\ b - 1 < n /\ (b - 1) + 1 = b
  BY <1>2
<1>4. b - 1 \notin Bad
  BY <1>1, <1>3
<1> QED
  BY <1>2, <1>3, <1>4

Steps == Cardinality(Menus)

Shown(m) == m \in Menus /\ menus[m].active

\* The menu shown above m, or Nil.
Above(m) == IF m # Nil /\ Shown(menus[m].parent) THEN menus[m].parent ELSE Nil

LEMMA StepsAreFinite == Steps \in Nat /\ IsFiniteSet(Menus) /\ Nil \notin Menus
  BY PermissionsAssumption, FS_CardinalityType DEF Steps

\* The recursion defines a function: prefixes of the walk exist at every length.
LEMMA WalkExists ==
  ASSUME NEW m, NEW n \in Nat
  PROVE  \E f : f = [k \in 0..n |-> IF k = 0 THEN m ELSE Above(f[k - 1])]
<1> DEFINE Walk(f, j) == f = [k \in 0..j |-> IF k = 0 THEN m ELSE Above(f[k - 1])]
           Good == {j \in Nat : \E f : Walk(f, j)}
<1>1. 0 \in Good
  <2>1. Walk([k \in 0..0 |-> m], 0)
    OBVIOUS
  <2> QED
    BY <2>1
<1>2. ASSUME NEW j \in Nat, j \in Good
      PROVE  j + 1 \in Good
  <2>1. PICK f : Walk(f, j)
    BY <1>2
  <2> DEFINE g == [k \in 0..(j + 1) |-> IF k = 0 THEN m ELSE Above(f[k - 1])]
  <2>2. \A k \in 0..j : g[k] = f[k]
    <3> SUFFICES ASSUME NEW k \in 0..j
                 PROVE  g[k] = f[k]
      OBVIOUS
    <3>1. f[k] = IF k = 0 THEN m ELSE Above(f[k - 1])
      BY <2>1
    <3> QED
      BY <3>1
  <2>3. \A k \in 0..(j + 1) : k # 0 => k - 1 \in 0..j
    OBVIOUS
  <2>4. \A k \in 0..(j + 1) : k # 0 => g[k - 1] = f[k - 1]
    BY <2>2, <2>3
  <2>5. Walk(g, j + 1)
    <3> HIDE DEF g
    <3>1. g = [k \in 0..(j + 1) |-> IF k = 0 THEN m ELSE Above(f[k - 1])]
      BY DEF g
    <3> QED
      BY <2>4, <3>1
  <2> HIDE DEF g, Walk
  <2> QED
    BY <2>5
<1>3. 0..n \subseteq Good
  <2>1. \A k \in 0..n : k \in Good /\ k < n => k + 1 \in Good
    BY <1>2
  <2>2. 0 \in Nat /\ n \in Nat
    OBVIOUS
  <2> HIDE DEF Good
  <2> QED
    BY <1>1, <2>1, <2>2, Onward, Zenon
<1> QED
  BY <1>3

\* Climb satisfies its recursion.
LEMMA ClimbIsWalk ==
  ASSUME NEW m
  PROVE  Climb(m) = [k \in 0..Steps |-> IF k = 0 THEN m ELSE Above(Climb(m)[k - 1])]
<1>1. Climb(m) =
        CHOOSE f : f = [k \in 0..Steps |-> IF k = 0 THEN m ELSE Above(f[k - 1])]
  BY Zenon DEF Climb, Above, Shown, Steps
<1>2. \E f : f = [k \in 0..Steps |-> IF k = 0 THEN m ELSE Above(f[k - 1])]
  BY WalkExists, StepsAreFinite
<1> QED
  BY <1>1, <1>2, Zenon

\* The walk stays among the menus that are shown, until it ends.
LEMMA WalkSteps ==
  ASSUME NEW m \in Menus
  PROVE  /\ Climb(m)[0] = m
         /\ \A k \in 0..Steps : k # 0 => Climb(m)[k] = Above(Climb(m)[k - 1])
         /\ \A k \in 0..Steps : Climb(m)[k] \in Menus \cup {Nil}
         /\ \A k \in 0..Steps : k # 0 /\ Climb(m)[k] # Nil =>
               Climb(m)[k - 1] # Nil /\ Shown(Climb(m)[k]) /\ menus[Climb(m)[k - 1]].parent = Climb(m)[k]
<1> DEFINE w == Climb(m)
<1>1. w = [k \in 0..Steps |-> IF k = 0 THEN m ELSE Above(w[k - 1])]
  BY ClimbIsWalk, Zenon
<1> HIDE DEF w
<1>2. w[0] = m
  BY <1>1, StepsAreFinite
<1>3. \A k \in 0..Steps : k # 0 => w[k] = Above(w[k - 1])
  BY <1>1
<1>4. \A k \in 0..Steps : k # 0 /\ w[k] # Nil =>
        w[k - 1] # Nil /\ Shown(w[k]) /\ menus[w[k - 1]].parent = w[k]
  BY <1>3, Zenon DEF Above
<1>5. \A k \in 0..Steps : w[k] \in Menus \cup {Nil}
  BY <1>2, <1>4 DEF Shown
<1> QED
  BY <1>2, <1>3, <1>4, <1>5, Zenon DEF w

\* A walk that has ended does not go on.
LEMMA WalkEnds ==
  ASSUME NEW m \in Menus, NEW k \in 0..Steps, Climb(m)[k] = Nil
  PROVE  Climb(m)[Steps] = Nil
<1> DEFINE T == {j \in 0..Steps : Climb(m)[j] = Nil}
<1>1. \A j \in k..Steps : j \in T /\ j < Steps => j + 1 \in T
  <2> SUFFICES ASSUME NEW j \in k..Steps, j \in T, j < Steps
               PROVE  Climb(m)[j + 1] = Nil
    BY StepsAreFinite
  <2>1. j + 1 \in 0..Steps /\ j + 1 # 0 /\ (j + 1) - 1 = j
    BY StepsAreFinite
  <2> QED
    BY <2>1, WalkSteps DEF Above
<1>2. k \in Nat /\ k \in T /\ Steps \in k..Steps
  BY StepsAreFinite
<1>3. k..Steps \subseteq T
  <2> HIDE DEF T
  <2> QED
    BY <1>1, <1>2, Onward, StepsAreFinite, Zenon
<1> QED
  BY <1>2, <1>3

Named(K) == {m \in {MenuOf[k] : k \in K} \ {Nil} : menus[m].active}

LEMMA NamedMenus ==
  ASSUME NEW K \in SUBSET Keys
  PROVE  \A m : m \in Named(K) <=> Shown(m) /\ \E k \in K : MenuOf[k] = m
  BY PermissionsAssumption DEF Named, Shown

LEMMA Resolved ==
  ASSUME NEW K \in SUBSET Keys
  PROVE  ResolveAccessibleMenus(K) =
           IF \E m \in Named(K) : Climb(m)[Steps] # Nil THEN Endless
           ELSE (UNION {{Climb(m)[n] : n \in 0..Steps} : m \in Named(K)}) \ {Nil}
  BY Zenon DEF ResolveAccessibleMenus, Named, Steps

\* A walk visits only menus that every set closed under what is wanted holds.
LEMMA WalkIsWanted ==
  ASSUME NEW K \in SUBSET Keys, NEW S \in SUBSET Menus, Wanted(K, S) \subseteq S,
         NEW m \in Named(K), NEW n \in 0..Steps, Climb(m)[n] # Nil
  PROVE  Climb(m)[n] \in S
<1>1. m \in Menus /\ m \in S
  BY NamedMenus DEF Wanted, Shown
<1> DEFINE T == {j \in 0..Steps : Climb(m)[j] \in S \cup {Nil}}
<1>2. 0 \in Nat /\ Steps \in Nat /\ 0 \in T
  BY <1>1, StepsAreFinite, WalkSteps
<1>3. \A j \in 0..Steps : j \in T /\ j < Steps => j + 1 \in T
  <2> SUFFICES ASSUME NEW j \in 0..Steps, j \in T, j < Steps, Climb(m)[j + 1] # Nil
               PROVE  Climb(m)[j + 1] \in S
    BY StepsAreFinite
  <2>1. j + 1 \in 0..Steps /\ j + 1 # 0 /\ (j + 1) - 1 = j
    BY StepsAreFinite
  <2>2. /\ Climb(m)[j] # Nil /\ Shown(Climb(m)[j + 1])
        /\ menus[Climb(m)[j]].parent = Climb(m)[j + 1]
    BY <1>1, <2>1, WalkSteps
  <2> QED
    BY <2>2 DEF Wanted, Shown
<1>4. 0..Steps \subseteq T
  <2> HIDE DEF T
  <2> QED
    BY <1>2, <1>3, Onward, Zenon
<1> QED
  BY <1>4

\* A walk that has not ended after as many steps as there are menus meets a menu
\* twice; from there on it goes round.
LEMMA LongWalkIsCircle ==
  ASSUME TypeOK, NEW K \in SUBSET Keys, NEW m \in Named(K), Climb(m)[Steps] # Nil
  PROVE  Circle(K)
<1> DEFINE w == Climb(m)
<1>1. m \in Menus
  BY NamedMenus DEF Shown
<1>2. \A k \in 0..Steps : w[k] \in Menus /\ w[k] # Nil
  BY <1>1, WalkSteps, WalkEnds
<1>3. \A k \in 0..Steps : k < Steps => menus[w[k]].parent = w[k + 1]
  <2> SUFFICES ASSUME NEW k \in 0..Steps, k < Steps
               PROVE  menus[w[k]].parent = w[k + 1]
    OBVIOUS
  <2>1. k + 1 \in 0..Steps /\ k + 1 # 0 /\ (k + 1) - 1 = k
    BY StepsAreFinite
  <2> QED
    BY <1>1, <1>2, <2>1, WalkSteps
<1>4. PICK i \in 0..Steps, j \in 0..Steps : i < j /\ w[i] = w[j]
  <2> DEFINE f == [k \in 0..Steps |-> w[k]]
  <2>1. f \in [0..Steps -> Menus]
    BY <1>2
  <2>2. IsFiniteSet(0..Steps) /\ Cardinality(0..Steps) = Steps + 1 /\ Steps < Steps + 1
    BY StepsAreFinite, FS_Interval
  <2>3. IsFiniteSet(Menus) /\ Cardinality(Menus) < Cardinality(0..Steps)
    BY <2>2, StepsAreFinite DEF Steps
  <2>4. \E x, y \in 0..Steps : x # y /\ f[x] = f[y]
    <3> HIDE DEF f
    <3> QED
      BY <2>1, <2>2, <2>3, FS_PigeonHole, Zenon
  <2> QED
    BY <2>4, StepsAreFinite
<1> DEFINE C == {w[k] : k \in i..(j - 1)}
<1>5. \A k \in i..(j - 1) : k \in 0..Steps /\ k < Steps
  BY <1>4, StepsAreFinite
<1>6. C \in SUBSET Menus /\ C # {}
  <2>1. i \in i..(j - 1)
    BY <1>4, StepsAreFinite
  <2> QED
    BY <1>2, <1>5, <2>1
<1>7. \A c \in C : menus[c].parent \in C
  <2> SUFFICES ASSUME NEW k \in i..(j - 1)
               PROVE  w[k + 1] \in C
    BY <1>3, <1>5
  <2>1. CASE k + 1 = j
    <3>1. i \in i..(j - 1)
      BY <1>4, StepsAreFinite
    <3> QED
      BY <1>4, <2>1, <3>1
  <2>2. CASE k + 1 # j
    <3>1. k + 1 \in i..(j - 1)
      BY <1>4, <2>2, StepsAreFinite
    <3> QED
      BY <3>1
  <2> QED
    BY <2>1, <2>2
<1>8. \A S \in SUBSET Menus : Wanted(K, S) \subseteq S => C \subseteq S
  BY <1>2, <1>5, WalkIsWanted
<1> HIDE DEF C
<1> QED
  BY <1>6, <1>7, <1>8 DEF Circle

\* Where every walk ends, what they visit is what is wanted, and no circle is.
LEMMA ShortWalks ==
  ASSUME TypeOK, NEW K \in SUBSET Keys, \A m \in Named(K) : Climb(m)[Steps] = Nil,
         NEW R, R = (UNION {{Climb(m)[n] : n \in 0..Steps} : m \in Named(K)}) \ {Nil}
  PROVE  /\ R \in SUBSET Menus
         /\ R = Wanted(K, R)
         /\ ~Circle(K)
<1>1. \A c : c \in R <=>
        \E m \in Named(K), n \in 0..Steps : c = Climb(m)[n] /\ Climb(m)[n] # Nil
  OBVIOUS
<1>2. Named(K) \subseteq Menus
  BY NamedMenus DEF Shown
<1>3. R \subseteq Menus
  BY <1>1, <1>2, WalkSteps
<1>4. ASSUME NEW m \in Named(K), NEW n \in 0..Steps, Climb(m)[n] # Nil
      PROVE  n < Steps /\ n + 1 \in 0..Steps /\ n + 1 # 0 /\ (n + 1) - 1 = n
  BY <1>4, StepsAreFinite
<1>5. ASSUME NEW c \in Wanted(K, R)
      PROVE  c \in R
  <2>1. c \in Menus /\ Shown(c)
    BY DEF Wanted, Shown
  <2>2. CASE \E k \in K : MenuOf[k] = c
    <3>1. c \in Named(K) /\ c # Nil
      BY <2>1, <2>2, NamedMenus, StepsAreFinite
    <3>2. 0 \in 0..Steps /\ Climb(c)[0] = c
      BY <2>1, WalkSteps, StepsAreFinite
    <3> QED
      BY <1>1, <3>1, <3>2
  <2>3. CASE \E d \in R : menus[d].parent = c
    <3>1. PICK m \in Named(K), n \in 0..Steps : /\ Climb(m)[n] # Nil
                                              /\ menus[Climb(m)[n]].parent = c
      BY <1>1, <2>3
    <3>2. n + 1 \in 0..Steps /\ n + 1 # 0 /\ (n + 1) - 1 = n
      BY <1>4, <3>1
    <3>3. Climb(m)[n + 1] = Above(Climb(m)[n])
      BY <1>2, <3>2, WalkSteps
    <3>4. Climb(m)[n + 1] = c /\ c # Nil
      BY <2>1, <3>1, <3>3, StepsAreFinite DEF Above
    <3> QED
      BY <1>1, <3>2, <3>4
  <2> QED
    BY <2>2, <2>3 DEF Wanted
<1>6. ASSUME NEW c \in R
      PROVE  c \in Wanted(K, R)
  <2>1. PICK m \in Named(K), n \in 0..Steps : c = Climb(m)[n] /\ c # Nil
    BY <1>1, <1>6
  <2>2. CASE n = 0
    BY <1>2, <2>1, <2>2, NamedMenus, WalkSteps DEF Wanted, Shown
  <2>3. CASE n # 0
    <3>1. n - 1 \in 0..Steps
      BY <2>3, StepsAreFinite
    <3>2. /\ Climb(m)[n - 1] # Nil /\ Shown(c)
          /\ menus[Climb(m)[n - 1]].parent = c
      BY <1>2, <2>1, <2>3, WalkSteps
    <3>3. Climb(m)[n - 1] \in R
      BY <1>1, <3>1, <3>2
    <3> QED
      BY <3>2, <3>3 DEF Wanted, Shown
  <2> QED
    BY <2>2, <2>3
<1>7. R = Wanted(K, R)
  BY <1>5, <1>6
<1>8. ASSUME Circle(K)
      PROVE  FALSE
  <2>1. PICK C \in (SUBSET Menus) \ {{}} :
          /\ \A c \in C : menus[c].parent \in C
          /\ \A S \in SUBSET Menus : Wanted(K, S) \subseteq S => C \subseteq S
    BY <1>8 DEF Circle
  <2>2. C \subseteq R /\ C # {}
    BY <1>3, <1>7, <2>1
  <2>3. PICK m \in Named(K), n \in 0..Steps : Climb(m)[n] \in C
    BY <1>1, <2>2
  <2> DEFINE T == {k \in 0..Steps : Climb(m)[k] \in C}
  <2>4. \A k \in n..Steps : k \in T /\ k < Steps => k + 1 \in T
    <3> SUFFICES ASSUME NEW k \in n..Steps, Climb(m)[k] \in C, k < Steps
                 PROVE  Climb(m)[k + 1] \in C
      BY <2>3, StepsAreFinite
    <3>1. k \in 0..Steps /\ k + 1 \in 0..Steps /\ k + 1 # 0 /\ (k + 1) - 1 = k
      BY StepsAreFinite
    <3>2. menus[Climb(m)[k]].parent \in C /\ Climb(m)[k] # Nil
      BY <2>1, StepsAreFinite
    <3>3. Shown(menus[Climb(m)[k]].parent)
      BY <1>6, <2>2, <3>2 DEF Wanted, Shown
    <3>4. Climb(m)[k + 1] = Above(Climb(m)[k])
      BY <1>2, <3>1, WalkSteps
    <3> QED
      BY <3>2, <3>3, <3>4 DEF Above
  <2>5. n \in Nat /\ Steps \in Nat /\ n \in T /\ Steps \in n..Steps
    BY <2>3, StepsAreFinite
  <2>6. n..Steps \subseteq T
    <3> HIDE DEF T
    <3> QED
      BY <2>4, <2>5, Onward, Zenon
  <2>7. Climb(m)[Steps] \in C
    BY <2>5, <2>6
  <2> QED
    BY <2>1, <2>7, StepsAreFinite
<1> QED
  BY <1>3, <1>7, <1>8

\* The walk over the menus ends and finds the least set of active menus that holds
\* the named ones and the active parents of its members, or else goes round a
\* circle of parents (services/shared/menu_access.go:12).
THEOREM MenusFollow == Spec => []MenusMatch
<1>1. ASSUME TypeOK
      PROVE  MenusMatch
  <2> SUFFICES ASSUME NEW K \in SUBSET Keys
               PROVE  LET shown == ResolveAccessibleMenus(K)
                      IN  IF Circle(K) THEN shown = Endless
                          ELSE /\ shown = Wanted(K, shown)
                               /\ \A S \in SUBSET shown : Wanted(K, S) \subseteq S => S = shown
    BY Zenon DEF MenusMatch
  <2> DEFINE R == (UNION {{Climb(m)[n] : n \in 0..Steps} : m \in Named(K)}) \ {Nil}
  <2>1. CASE \E m \in Named(K) : Climb(m)[Steps] # Nil
    <3>1. Circle(K)
      BY <1>1, <2>1, LongWalkIsCircle
    <3>2. ResolveAccessibleMenus(K) = Endless
      BY <2>1, Resolved, Zenon
    <3> QED
      BY <3>1, <3>2, Zenon
  <2>2. CASE \A m \in Named(K) : Climb(m)[Steps] = Nil
    <3>1. ResolveAccessibleMenus(K) = R
      BY <2>2, Resolved, Zenon
    <3>2. R \in SUBSET Menus /\ R = Wanted(K, R) /\ ~Circle(K)
      <4>1. \A S : S = R => S \in SUBSET Menus /\ S = Wanted(K, S) /\ ~Circle(K)
        BY <1>1, <2>2, ShortWalks, Zenon
      <4> QED
        BY <4>1, Zenon
    <3>3. \A S \in SUBSET Menus : Wanted(K, S) \subseteq S => R \subseteq S
      BY WalkIsWanted
    <3> HIDE DEF R
    <3>4. \A S \in SUBSET R : Wanted(K, S) \subseteq S => S = R
      BY <3>2, <3>3
    <3> QED
      BY <3>1, <3>2, <3>4, Zenon
  <2> QED
    BY <2>1, <2>2, Zenon
<1> QED
  BY <1>1, PermissionTypes, PTL

=============================================================================
