# yourz-gift: TLA+ models, checks and proofs

yourz-gift is a gift-list service: owners publish lists of items, guests reserve
units of them without an account, owners thank or cancel.  Around that core are
accounts, sessions, permissions, e-mail codes and a location catalogue.  The
server is one Go process (gin) over PostgreSQL (GORM) and, optionally, Redis.
It has almost no in-memory state: what can go wrong is what requests do to each
other *through the stores*.  The models therefore have one step per database
call, and keep what a handler holds in local variables between two calls.

## 1. Inventory

| Component | State it keeps | Operations that change it | Hard behaviour | What makes it correct |
|---|---|---|---|---|
| Gift lists, items, reservations (`internal/services/gift`, `internal/repositories/gift`) | tables `gift_lists`, `gift_items`, `gift_reservations` (soft deletes) | CreateList, UpdateList, DeleteList, CreateItem, UpdateItem, DeleteItem, ReorderItems, CreatePublicReservation, MarkReservationThanked, CancelReservation | guests racing for the last units; a transaction with a row lock against writers without one; stale whole-row Saves; rows deleted between check and write; reorderings that lock in opposite orders; expiry | no item is overbooked; reservations only on bookable items; cancellations hold; requests end; `never_expires` and `expires_at` agree |
| Friend connections (same service, table `gift_friends`) | one row per unordered pair (partial unique index) | RequestFriend, AcceptFriend, RejectFriend, DeleteFriend | requests crossing each other; stale Saves that revive deleted or turned-round rows | one live row per pair; nobody is a friend without having asked or accepted |
| Sessions (`internal/{repositories,services,handlers/http}/session`) | Redis: `session:`, `user_sessions:`, `access_token_session:`, `refresh_token_session:` | Create, RotateTokens, Delete, DeleteByUserID, revoke one / all others, listing (drops stale ids) | rotation against revocation; pipelines that break half-way | a live session can be listed and revoked; a revoked one stays revoked |
| Authentication and accounts (`handlers/http/user`, `services/user`, `middlewares/auth.go`, `repositories/auth`) | tables `users`, `blacklist` | register, login, refresh, logout, impersonate, password change and reset, delete | two refreshes with one token; whole-row Save of the user at login | a refresh token is exchanged once; a revoked token stays revoked until it expires |
| Registration and its one-time codes (`services/otp`, `repositories/otp`, `services/user`) | Redis: code, attempts, cooldown, send counters; table `users` | SendRegisterOTP, VerifyRegisterOTP, RegisterUser, AdminCreateUser, first Google login | check-then-set of the cooldown, attempts counter with its own expiry | a spent code can be read by nobody any more; a code is guessed at most MaxAttempts times; two accounts never share an address or a phone |
| Password reset (`services/reset`) | Redis: token, cooldown | RequestReset, VerifyReset | look-up then delete of the token | a JWT changes a password once, a link no more often than requests run at once; sessions of the old password end |
| Limiters (`pkg/security`, `middlewares/rate_limiter.go`) | Redis counters | IsBlocked, RegisterFailure, Reset | counter and expiry in two commands | blocked after the limit, and not for ever |
| Location catalogue (`services/location`) | tables of places, `location_sync_jobs`; Redis cache | StartSync, the job goroutine, start-up recovery, cached reads | jobs die with the process; check-then-create of a job; cache filled from a stale read | one active job; every job ends or is failed at restart |
| Roles and permissions (`services/role`, `services/permission`, `cache/permission`) | tables; Redis cache per user | CRUD, AssignPermissions, PermissionMiddleware | cache filled after it was invalidated | a revoked permission stops working |
| Menus (`services/menu`, `services/shared`) | table of menus | CRUD, ResolveAccessibleMenus | parent chain with cycles | the closure ends and holds all ancestors |
| App configuration, audit | single rows, appends | CRUD | none to speak of | - |
| Media, mailer, logging, filters, front end | none on the server | I/O, formatting | none to speak of | - |

How they interact: a request passes `AuthMiddleware` (JWT and `blacklist`) and
`PermissionMiddleware` (permission cache), then a handler calls its service,
which calls repositories.  The gift service also reads users (e-mail to id).
Login, refresh, logout and password reset of the account handlers call the
session service.  Role and permission changes invalidate the permission cache.
The public reservation page needs no login; it only passes a rate limiter.

All hazards found, with their lines and the properties that cover them, are in
`PROJECT.json`; those without a property say why.

## 2. Plan

What is done, in the order in which it was built: what guests and owners rely on
first, then what guards it.

1. **GiftReservations**, the core, with **GiftLedger**, the abstract promise about
   units that it implements.  Proofs in GiftReservationsProofs and GiftLedgerProofs.
2. **GiftFriends**: connections.  Proofs in GiftFriendsProofs.
3. **Sessions**: login, refresh with rotation and blacklist, logout, revocation,
   pipelines that break; with **PairLineage**, the abstract promise about pairs of
   tokens that it implements.  Proofs in SessionsProofs.
4. **Registration**: one-time codes and the opening of accounts.  Proofs in
   RegistrationProofs.
5. **Accounts**: profile and password changes, both kinds of password reset,
   deletion.  Proofs in AccountsProofs.
6. **LocationSync**: readers, cache, sync jobs, crashes and restarts; liveness of
   jobs.  Proofs in LocationSyncProofs.
7. **Permissions**: assignments, the permission cache, menus.  Proofs in
   PermissionsProofs.

What would come next: the login and request limiters; a composition of Sessions and
Accounts over one users table.

Each model is parameterised by its sets of ids and handlers, has one action per
database or Redis step, and uses no RECURSIVE operator, so that it can be proved
about.  The `MC` modules only give constants their values.

## 3. What is modelled

### GiftReservations

State: `lists`, `items`, `reservations` are the tables (rows are `absent`,
`live` or `deleted`, since DELETE only sets `deleted_at`); `request[h]` is what
the goroutine `h` holds between two calls; `now` is the clock.  Two history
variables exist for properties only: `offered[i]` is what the owner stands by (the
quantity saved last, or what guests had then if that was more), `reinstated`
the reservations that a stale Save turned from canceled back to confirmed.

| Code | Actions |
|---|---|
| CreateList | `CreateList` (one INSERT) |
| UpdateList | `ReadListForUpdate`, `SaveList` |
| DeleteList | `ReadListForDelete`, `DeleteList` |
| CreateItem | `ReadListForNewItem`, `StoreItem` |
| UpdateItem | `ReadItemForUpdate`, `SaveItem` |
| DeleteItem | `ReadItemForDelete`, `DeleteItem` |
| ReorderItems | `ReadListForReorder`, `ReorderRow` (once per row), `CommitReorder` |
| MarkReservationThanked | `ReadForThank`, `SaveReservation` |
| CancelReservation | `ReadForCancel`, `SaveReservation` |
| CreatePublicReservation, CreateReservationWithAvailability | `CheckForReserve`, `LockItem` (SELECT FOR UPDATE), `CountReserved` (SUM and comparison), `StoreReservation` (INSERT, COMMIT) |
| a failing call, a canceled request, a crash | `Abort` |
| PostgreSQL's deadlock detector | `BreakDeadlock` |

Points where the model follows the code closely:

* `GenericRepository.Update` is GORM's `Save`: it writes every column as read, and
  when the row was soft-deleted meanwhile, its UPDATE matches nothing and GORM
  inserts the row again with ON CONFLICT DO UPDATE, so that it is live again.
* Only the reservation transaction and ReorderItems hold row locks; `SaveItem` and
  `DeleteItem` wait for them; `SaveReservation` and list writes never do.
* The list is looked at before the transaction only: a reservation may be inserted
  after its list was closed.  No property claims otherwise.
* The reads of one handler that precede its first write and only decide whether it
  goes on (reservation, item, list) are one action.  Splitting them would allow
  more refusals, no more writes: reservations never change their item, nor
  items their list.
* Names, prices, notes, e-mails and share codes are left out; `canceled_at` and
  `canceled_by` are written with the status and are one field with it.

### GiftFriends

`friends` is the table, `request` as above, `asked` and `agreed` record who asked
whom and who accepted which request.  `ReadForRequest`/`StoreFriend` and
`ReadForRequestAgain`/`SaveFriend` are the two writing paths of RequestFriend;
`ReadForAccept` and `ReadForReject` with `SaveFriend` are updateFriendStatus;
`ReadForDelete`/`DeleteFriend` is DeleteFriend.  The partial unique index
`idx_gift_friends_unique_pair` is `PairFree`: an INSERT, or a Save that inserts
again, fails when the pair has another live row.

### Sessions

State: `session`, `listed`, `access` and `refresh` are the Redis keys `session:`,
`user_sessions:`, `access_token_session:` and `refresh_token_session:`;
`blacklist` is the table of that name.  A member of `Pairs` is an access and a
refresh token signed together; `claims` says for whom, `given` which of them a
client holds, `expired` which tokens are past their `exp`.  Of the history
variables, `heirs[p]` holds the pairs given in exchange for the refresh token of
p, `opened` the session ids in use, and `strays` the live sessions that lost
their place in `listed` by one of the two ways named below.

| Code | Actions |
|---|---|
| Login, GoogleLogin (credentials accepted), Create | `Login` (k commands of the pipeline) |
| RefreshToken: JwtClaim and ExistsByToken | `CheckRefresh` |
| GetSessionByRefreshToken | `FindSession` |
| RotateTokens | `ReadForRotate`, then `RotateTokens` or `RotateTokensFails` |
| LogoutUser (after a refresh, and in Logout) | `CheckExpiry`, `StoreBlacklist` |
| Logout | `Logout`, `ReadForDelete`, `DeleteSession` or `DeleteSessionFails`, `EndRevoke` |
| RevokeSession, RevokeAllOtherSessions, revokePasswordResetSessions | `RevokeSession`, `RevokeOthers`, `RevokeAll`, then as above |
| GetActiveSessions | `GetActiveSessions` (listing writes) |
| `exp`, Redis TTLs | `Expire` |
| a failing call, a crash | `Abort` |

Points where the model follows the code closely:

* Pipelines are not transactions.  `After(k, n, new, old)` is the value of a key
  after the first k commands of a pipeline whose n-th command sets it; k ranges
  over `Breaks` where the call fails, and over all of the commands: a reply that is
  lost after the last one is a failure too.
* `Login` gives tokens and session to one user.  The handler of a login reads the user again
  before it creates the session, by the same address; Accounts has that second read
  (`OpenSession`).
* GetByUserID is one action, its SMEMBERS, GETs and SREM together: an id it takes out is one whose
  GET failed or found nothing, and ids are used once.
* A login whose session could not be created answers with its tokens all the
  same; they are good for requests, until they expire, and cannot be refreshed.
* RotateTokens reads the session a second time and writes it later without
  looking again: a session deleted in between comes back, and nothing adds it to
  its user's set.  That is the first way to become a member of `strays`.
* GetByUserID takes an id out of the set whenever it could not read the session,
  a failing GET included: the second way.  `Unreadable` holds the sets of
  sessions whose GET may fail.
* A token key is followed without comparing the token in the session, so two
  rotations that overlap leave a key of the one that lost; it works like the other.
* Store first purges the expired rows and then inserts into a UNIQUE column: the
  insert is what decides between two refreshes.  JwtExpiresAt refuses tokens that
  have expired by then.  Within the two calls of a token's expiry two exchanges
  are possible, so RedeemedOnce speaks of valid tokens.
* The TTL of the user's set is left out.  It is renewed in every pipeline that
  completes, so it covers each session whose pair a client holds; RefreshableIsListed
  is stated of those.
* DeleteByUserID skips a session it cannot delete, DestroyOtherSessions stops at
  it (`Skip`).
* ValidateSession (with UpdateActivity), SetExpiration and DeleteExpired of the
  session repository have no caller.  Impersonation signs tokens without a
  session and is left out, as is the check that the account still exists.

### PairLineage

An abstract specification with three variables: `owner[p]`, the account a pair was
given out for, `heirs[p]`, what it was exchanged for, and `dead`, the pairs whose refresh
token has expired.  Its steps are `SignIn`, `Exchange` and `Expire`.  Sessions
implements it (`KeepsLineage`) under `owner <- Owner, dead <- Dead`, where `Owner`
is the signed account of the pairs a response carried: six calls to Redis
and the database become one step that gives a new pair to the account of the old one,
and takes an old one twice only past its expiry.  A refresh that fails on its way signs a pair,
too; nobody ever holds it.  That two signatures differ rests on the id of the
request in the claims (`utils/jwt.go`), which is the guard `claims[q] = Nil`.

### GiftLedger

An abstract specification with two variables: `promised[i]`, the units an owner
stands by, and `booking[r]`, what a reservation took.  Its steps are `Book`,
`GiveBack` and `Promise`.  GiftReservations implements it (`KeepsLedger`) under
`promised <- offered, booking <- Bookings`: three database calls, a row lock and
a COMMIT become one step that never overbooks; a stale Save that confirms a canceled
reservation again does not make it firm (`reinstated`).

### Registration

State: `code`, `attempts`, `cooling` and `sent` are the four Redis keys of an
address; `users` and `config` are tables.  A code is the draw and not its six
digits.  History variables say what happened to the code that is stored now:
whether it was mailed, how many wrong guesses it met, whether it has proved a
finished request (`spent`), whether somebody failed to delete it (`orphans`).

| Code | Actions |
|---|---|
| SendRegisterOTP (handler and service) | `SendRegisterOTP`, `CheckCooldown`, `CountSend`, `SetOTP` or `SetOTPFails`, `ResetAttempts`, `SetCooldown` or `SetCooldownFails`, `SendOTP` or `SendOTPFails` |
| VerifyRegisterOTP | `Register`, `GetOTP`, `Attempt` |
| the clean-ups, DEL by DEL | `ClearCode`, `ClearAttempts`, `ClearCooldown`, `ClearSendCount`, `ClearKeyFails`, `Cleared` |
| RegisterUser | `CheckTaken`, `StoreUser` |
| AdminCreateUser, LoginWithGoogle for a new address | `AdminCreateUser`, `GoogleRegistration` |
| Update of the switches | `ReadConfig`, `SaveConfig` |
| Redis TTLs | `ExpireCode`, `ExpireAttempts`, `ExpireCooldown`, `ExpireSent` |
| Delete of a user; a failing call, a crash | `DeleteUser`; `Abort` |

* The counter of attempts has a TTL of its own, as long as the code's and started
  later: it can run out before the code only if it was there before the code
  (`older`), and then guesses are forgotten (`dropped`).
* The queries of RegisterUser do not see deleted rows, the unique indexes do.
* A SET of a code whose reply is lost leaves the code in Redis: this is `SetOTP` and then
  `Abort`, while `SetOTPFails` is the SET that did not take place.
* `CheckTaken` may go on although the address is taken: the code treats a query that
  fails as one that found nothing.

### Accounts

State: `row` is `users` (password hash, deleted or not), `session` the sessions
in Redis with the hash the login had read, `jwt`, `expired` and `blacklist` the
reset JWTs, `link` the keys `reset:token:`.  `Login`, `Update`, `ChangePassword`
and both resets go through `Save`, which writes the whole copy a handler holds, the
old password included, and brings a row back that was deleted meanwhile.

| Code | Actions |
|---|---|
| Login and GoogleLogin past the credentials | `Login`, `Save`, `OpenSession` |
| Update, UpdateUserById, ChangePassword | `Update` or `ChangePassword`, `Save` |
| RefreshToken; a listing that cannot read a session | `ReadForRotate`, `RotateTokens`; `LoseSession` |
| ForgotPassword, ResetPassword with a JWT | `ForgotPassword`; `ResetPassword`, `Load` or `LoadFails`, `CheckExpiry`, `StoreBlacklist`, `Save`, `Claim` |
| RequestReset | `RequestReset`, `SendPasswordReset` or `SendPasswordResetFails`, `Unset` |
| VerifyReset and the reset by link | `VerifyReset`, `DeleteToken`, `Load`, `Save` |
| revokePasswordResetSessions | `ListSessions`, `DestroySession` (once per session), `Destroyed` |
| Delete, DeleteUserById; TTLs; logout elsewhere | `Delete`; `Expire`, `ExpireLink`; `EndSession` |

* JwtClaim and ExistsByToken are one action, as are two reads of one account in a row:
  both only decide whether the request goes on.
* The purge of expired rows and the insertion into the blacklist are one
  action; the UNIQUE column decides between two resets with one JWT.
* A reset link is read and then deleted, and the deletion's error is ignored: it
  is not used once.  LinkBounded says how often it can be.
* `barred` collects the hashes that were neither in the row nor in any request's
  hands when a reset listed the sessions: those are the ones it can promise
  to have ended.
* A refresh reads a session and writes it later without looking again, so that it brings
  back one that a reset has deleted meanwhile, out of its user's set; and a listing takes a
  session it could not read out of that set (`LoseSession`).  `strays` holds the
  sessions either happened to.  ResetRevokes excepts them and the sessions that
  could not be deleted (`unrevoked`).  The tokens that lead to a session are in Sessions.

### LocationSync

State: `table` and `cache` hold the list of rows under one parent; `status` is
`location_sync_jobs.status`; `work[j]` is the goroutine of a job, which lives on
an instance and dies with it; `syncing` is the flag of an instance.

| Code | Actions |
|---|---|
| GetProvince, GetCity, GetDistrict, GetVillage | `GetLocations`, `FetchMissing`, `FillCache` |
| StartSync | `StartSync` (look for an active job), `CreateSyncJob`, or `CreateSyncJobFails` where the row is inserted although the call reports an error |
| runSyncJob | `TakeFlag`, `MarkRunning`, `Report`, `UpsertList` or `SkipEmpty` or `SyncFails`, `DropCached`, `DropAll`, `Complete` or `MarkFailed`, `Leave` |
| NewLocationService | `StartInstance` (fails every active job, also those another instance runs) |
| end of a process | `Crash`, between any two steps of its goroutines |
| a failing call; Redis TTL | `Abort`; `ExpireCache` |

* A fetch and its upsert are one action, as are SCAN and DEL.  Rows that are gone
  upstream stay in the table.  The location service may answer differently each time.
* Progress reports per city are reported with the list they belong to; counts and
  messages of a job are left out.
* `stuck`, `late` and `tainted` name the ways in which the code gives up: a last update
  or an insertion that reported an error, a reader overtaken by a writer, a list that could
  not be dropped.
* `RunsOn`, `Wanted` and `Plans` say which instances, lists and syncs each handler has
  to do with; they bound a run and are no part of the code.

### Permissions

State: `roles`, `perms`, `granted` (role_permissions as committed), `roleOf`
(users.role_id), `menus`, and `cache` (`permission:user:<id>`).

| Code | Actions |
|---|---|
| PermissionMiddleware on a miss, or where the GET fails | `GetUserPermissions`, `ReadPermissions`, `SetUserPermissionKeys` |
| DeleteUser and DeleteAll of the cache | `DeleteKeys` (once per user), `DeleteKeysFails`, `Deleted` |
| AssignPermissions (one transaction) | `AssignPermissions`, `DeleteGranted`, `InsertGranted` (once per pair), `Commit` |
| permissions | `CreatePermission`, `UpdatePermission`/`SavePermission`, `DeletePermission` |
| roles | `CreateRole`, `UpdateRole`/`SaveRole`, `DeleteRole` |
| role of a user; other Saves of a user | `AssignRole`/`SaveUser`; `CopyUser`/`SaveUser`; `DeleteUser` |
| Update of a menu; ResolveAccessibleMenus | `UpdateMenu`/`SaveMenu`; the operator of that name |

* The transaction runs at READ COMMITTED: its DELETE works on the rows committed when
  it starts, waits for those another transaction holds, and an INSERT of a pair
  that exists fails.  Two administrators may therefore end with a mixture of
  their lists (`around`), never with more.
* A Save of a stale copy of a user (a login, a change of password) may bring back
  the old role without an invalidation.  The cached keys are then wrong until they
  expire: CacheFollows excuses exactly this, a failed invalidation, and a reader that
  read before and wrote after one.
* A menu's parents may form a circle, which nothing prevents.  The code's loop does
  not end then; ResolveAccessibleMenus is `Endless`, and MenusMatch says that this
  happens for circles and for nothing else, and that otherwise the least set of active menus
  that holds those asked for and the parents of its members is shown.

## 4. Runs

| Run | Instance | Question and answer |
|---|---|---|
| `booking` | one item of at most 2 units, 2 reservations, 3 handlers | Can guests overbook, or book what is hidden or deleted; are cancellations undone?  No, except through the stale Save that `reinstated` records.  Is each step one of GiftLedger's?  Yes. |
| `reorder` | 2 items, 2 handlers, opposite orders, fairness | Does a reordering take effect as a whole, and does every request end?  Yes, given the deadlock detector. |
| `list_dates` | one list, 2 handlers, clock of 2 | Do `never_expires` and `expires_at` agree however updates overlap?  Yes. |
| `friends` | 2 users, 2 rows, 3 handlers | One live row per pair, no friendship without consent, deletion and friendship are stable once no stale request is left.  Yes. |
| `sessions` | 2 users, 2 sessions, 2 pairs, 2 handlers, breaks after 0 to 6 commands, any listing read may fail, refresh tokens expire | Is a session that a client can refresh always where its account finds and revokes it, and does a destroyed one stay away?  Yes, but for the rotation and the failed listing that `strays` records. |
| `refresh` | 2 users, 2 sessions, 3 pairs, 2 handlers, pipelines that do not break | Can one refresh token be exchanged twice?  Not while it is valid.  Is each step one of PairLineage's?  Yes. |
| `register` | an applicant and an address an administrator uses with the same phone, 2 accounts, 2 codes, 2 handlers, 2 attempts, 1 send, DEL of a code may fail | Can two accounts share an address; how often can a code be guessed, used, or sent; is a code left that nobody knows?  All as the properties say. |
| `accounts` | 1 user, 3 hashes, 2 sessions that are refreshed, 1 JWT, 1 link, 2 handlers | Is a reset token spent once; does a reset end old sessions for good; does a deleted account stay deleted?  Yes, with the exceptions the properties name. |
| `location` | provinces and the cities of one, 2 jobs, 2 instances that crash and restart, 2 handlers (one reads the cities and starts full syncs, the other starts scoped ones on either instance), fairness | Do syncs exclude each other, does every job end, and do cached lists show the tables?  Yes, but for failed updates, late readers and jobs of an instance that is down. |
| `permissions` | 1 user, 2 roles, 2 permissions, 2 keys, 4 menus in a chain whose top is inactive, 2 handlers | Do roles hold the lists that were sent, does the cache follow, and which menus are shown?  As the properties say; a move that closes a circle is among the updates. |
| `thank_revives` | one item of 2 units, 2 reservations, 2 handlers | *Violation*: README.md:241 says reservations cannot exceed availability.  Thanking a guest while the reservation is canceled and its units are taken by another guest brings the first one back. |
| `quantity_lowered` | one item, 1 reservation, 2 handlers | *Violation* of the same sentence: the owner lowers the quantity below what is reserved, which UpdateItem accepts. |

Bounds.  Two reservations and two units are the smallest instance in which guests
compete; a third handler lets a third party act between the two calls of the
second while the first is in its transaction.  Ids are used once, so every run
comes to an end of fresh ids and then may stop: the cfgs say
`CHECK_DEADLOCK FALSE` for that reason.  `Permutations` of reservations, friends,
users and handlers are symmetries (no property names one); the liveness run has
no symmetry.  MaxQuantity stands for the DTO's 999, MaxPriority and Horizon
bound priorities and the clock.

For sessions, two of them let one be revoked while the other lives on, or belong
to two accounts; three pairs are needed in `refresh` for one token to have two heirs, and there the
pipelines are whole since nobody is given the pair of a broken one.
`Expiring = {"refresh"}`: an access token that expires only stops requests, which
may stop anyway.

For `register`, the send limit of 1 is passed by a second send once the counter's TTL
has run out, so that a code can be overwritten, and two codes let a draw be stored while
an older one is being verified.  `MaxAttempts = 2` is the smallest limit with a
guess below it and one at it.  For `accounts`, three hashes are an old one, one held by a stale
Save and a new one.  For `location`, two instances let one start while the
other's job runs, and two handlers that both found no active job start two, which overlap
in one instance or in two.  For
`permissions`, two handlers are two transactions, or a reader and a writer.  The largest run
(`register`, 2.4 million distinct states), `accounts` and `refresh` take between two and four minutes
with two workers.

The thanked interleaving, step by step: h1 ReadForThank(r1, confirmed); h2
ReadForCancel(r1), SaveReservation: r1 canceled; h2 CheckForReserve(r2),
LockItem, CountReserved, StoreReservation: r2 takes the units; h1
SaveReservation: r1 is confirmed again, and the item has more units booked than
it has.

Fairness (`FairSpec`, run `reorder`): strong fairness of `Progress(h)` for each
handler, because the Go scheduler runs every goroutine and PostgreSQL queues the
waiters of a row lock, so that one that can be granted it again and again gets
it; weak fairness of the deadlock detector, which runs whenever a wait lasts longer than
`deadlock_timeout`.  No request has to arrive and `Abort` is never forced.

`FairSpec` of LocationSync (run `location`): weak fairness of `Syncing(j)` for each
job, because a goroutine that can go on is scheduled, the HTTP client has a timeout,
and queries return.  Nothing makes an instance start again or a request arrive, and a
failing update is never ruled out; JobsEnd excepts jobs whose instance is down and
those whose update failed, and no others.

## 5. Proofs

All theorems are checked by TLAPS for every value of the constants, under
`GiftAssumption` (finite set of reservation ids, natural bounds, request
bodies of the DTO's shapes; OwnerOf and ListOf are functions).

`GiftReservationsProofs`: GuestsNeverOverbook is not inductive.  To see that an
INSERT keeps it one must know that the transaction's count is still good
(`CountedUnitsStayFree`); that needs that nobody raised the sum since, so that
transactions exclude each other (`LockIsExclusive`) and stale Saves can change neither
item nor quantity (`SavesKeepUnits`), and that nobody lowered the quantity
(`LockedRowsStayMatched`, writers wait; `OwnerStandsByQuantity`).  Their conjunction
with TypeOK is `BookingInv`, which each action preserves.  Sums are cardinalities of
sets of units, so the arithmetic is a few lemmas on finite sets.  From the
invariant follow the theorems NeverOverbooked, CountStaysGood, LocksProtect and the action
property BookedWhileBookable.  CancellationsHold and ExpiryAgrees have
invariants of their own (`SavedListsAgree` for the latter).  ReorderedAsOne needs
`MovesFollowOrder`, that an open reordering has moved the rows of its order so far to the place of
their last entry, and the locks, which keep these rows live until it commits.

NeverStuck is what RequestsEnd says of safety, proved for any number of requests.  `Ready(h)`
are the guards of `Progress(h)`.  A request that is not ready waits for a lock
(BlockedWaits), because the ids of inserts are fresh (`IdsAreFresh`) and no early return leaves an
order behind its end.  Among finitely many requests that all wait for one another the smallest set
in which each waits for a member is a cycle (WaitsCycle), which BreakDeadlock ends.  So
whatever waits, waits for one that can go on or that the detector ends; that those
steps are then taken is the fairness of `FairSpec`, and is model-checked.

`GiftLedgerProofs`: `Implements` is Spec => Ledger!Spec.  BookingHolds supplies what a
booking needs, that the units counted under the lock are still free when the row is
inserted; every other step maps to GiveBack, Promise or a stutter.

`GiftFriendsProofs`: `ConsentInv` says that every row, stored or about to be,
carries its consent: the whole row is written, so that a Save cannot mix the
requester of one request with the acceptance of another.  It is inductive and gives
FriendshipNeedsConsent; OneConnection follows from the unique index.
FriendshipsEndByDeletion and DeletionsHold rest on two lemmas about steps: a request
comes to hold a row only by reading it live and not yet accepted (SavesStarted), and a
row changes only by insertion, by a request that holds it, or by deletion (RowWritten).

`SessionsProofs`, under `SessionsAssumption` (Nil is none of the ids; pipelines
have at most six commands).  RedeemedOnce needs that whatever was exchanged and
is still valid is blacklisted, and that only refresh tokens are exchanged:
`RedeemedInv`.  Every step but StoreBlacklist leaves these alone (OffersKept);
StoreBlacklist inserts only a token without heirs (StoreRedeems).
KeepsLineage (LineageKept) needs `LineageInv` besides: what is refreshed is in a client's
hands (`HeldPairsInv`), and a pair about to be given out was signed for that client, is offered by
one request and held by nobody (`PendingInv`).  LineageWriters names the few steps that
sign, give out or expire a pair; every other step is `Plain`.  FamiliesHold draws
the consequence from the abstract steps: a pair has one predecessor at most, of its own account.
RefreshableIsListed follows from `ListedInv` and `OwnInv`.  ListedInv: keys and held requests name only
sessions that were opened, so that a login's fresh id has no keys before the
command that follows its entry into the set, and Delete removes a session before
its entry.  OwnInv: whatever `Names` an account for a session, be it the row, a key of a
signed pair, or a request that has read one of them, names the same account.  No step but a
login adds to what is named (`NothingNamed`), also where a rotation writes a session
back after its deletion or a pipeline leaves a key behind; HomeHolds states it of tokens.
DestroyedForGood is proved from the types and the fact that only
ReadForRotate, which needs a live session, makes a handler hold one for rotation
(GoneStays and the lemmas on `Quiet`).

`RegistrationProofs`, under `RegistrationAssumption`.  OneAccount follows from the
unique indexes.  GuessesBounded needs `Counted`: attempts never fall
below the wrong guesses that were compared, whatever the interleaving, because the
counter is incremented before it is compared and loses its value only together with
the guesses.  CooldownHolds needs `Burst`: the mails under a cooldown and the
requests that still may send one are no more than the handlers; nobody joins them while the key
stands.  SpentIsGone and StoredIsMailed share `CodeInv`: a drawn code is in no key and in no
other request (`Fresh`), and a clean-up past its first DEL has deleted its code or
could not (`Undone`).  CodeStep says what one step can do to a stored code, CodeGoes
what a handler goes on to; each invariant is preserved by these two.

`AccountsProofs`, under `AccountsAssumption`.  JwtResetOnce needs that a valid JWT that
changed a password is blacklisted, and that one request at most holds it between
StoreBlacklist and its Save (`SpentOnce`).  LinkBounded counts the acceptances together with the requests that have
read the link and not deleted it (`LinksCounted`).  ResetRevokes needs that a barred hash is
in no request, nor in what a request goes on to (`Forgotten`), and that a session a
refresh writes back is the one it read (`RotationsMatch`), so that it changes nothing about a
session that is still there.

`LocationSyncProofs`, under `LocationSyncAssumption`.  SyncsExclude: whoever is past the flag
holds it, and only its owner clears it.  NoOrphanJobs and FinishedForGood: a goroutine
runs on its job's instance, which is up, and is past its last update only if its row is over or
`stuck`.  CacheUpToDate: a reader that nobody has overtaken still holds the rows
of the table.  That the list due next exists (`First`) follows from the ranks being
natural numbers.

`PermissionsProofs`, under `PermissionsAssumption`.  AssignedExactly needs `RowsSeen`: the rows
a transaction saw, and those others committed since, cover what is granted.
CacheFollows needs `ReadersFollow`: keys that a request is about to cache are those of the tables,
unless an invalidation is on its way or the request is marked late.  MenusFollow is about a
function defined by recursion on the steps of a walk.  Induction is done on sets: the least index at
which something fails exists because < is well-founded on the naturals (LeastIndex, Onward).  A walk
that has not ended after as many steps as there are menus has met one of them twice, by the
pigeonhole principle, and so goes round a circle (LongWalkIsCircle); walks that end visit the least
set wanted (WalkIsWanted).

Only model-checked: RequestsEnd and JobsEnd, because liveness under fairness is beyond
TLAPS's backends.  Every other property of a passing run is stated by a theorem.

## 6. Not modelled

* Login and request limiters (`pkg/security`, `middlewares/rate_limiter.go`): they
  decide from counters of their own whether a request is tried.  The models let every
  request be tried, so what never happens here never happens behind a limiter either.
* The throttle of RequestReset (cooldown and send count): the model may leave any
  request out, which is what the throttle does.
* Impersonation: it signs tokens that carry two users and changes no row and no session.
* Signing of JWTs and hashing of passwords: a token or a hash is a value that
  nobody else can make.
* AssignMenus of a role always answers with an error; ValidateSession with
  UpdateActivity, SetExpiration and DeleteExpired of the session repository have no caller.
* E-mail and object storage (a mail that is sent either arrives or does not),
  audit texts, logging, pagination and search filters, response formatting, start-up and
  routing, the React pages: I/O and formatting without state that requests share.
