-------------------------- MODULE GiftReservations --------------------------
(***************************************************************************)
(* The gift core: lists, their items, and the guests' reservations, as the *)
(* service of internal/services/gift drives three PostgreSQL tables        *)
(* through GORM.                                                           *)
(*                                                                         *)
(* Every HTTP request runs in a goroutine of its own and takes no lock     *)
(* outside the database, so a request is modelled by its database calls:   *)
(* the read (with the checks made on what was read) is one action, the     *)
(* write another, and what the code holds in local variables between them  *)
(* is in request[h].  Only CreateReservationWithAvailability and           *)
(* ReorderItems open a transaction; both hold row locks until they commit. *)
(***************************************************************************)
EXTENDS Naturals, FiniteSets, Sequences

CONSTANTS
  Users,         \* account ids that may call the owner's endpoints
  Lists,         \* ids of gift_lists rows
  Items,         \* ids of gift_items rows
  Reservations,  \* ids of gift_reservations rows
  Handlers,      \* goroutines serving requests
  OwnerOf,       \* [Lists -> Users]: owner_id, written once by CreateList
  ListOf,        \* [Items -> Lists]: list_id, written once by CreateItem
  MaxQuantity,   \* the largest quantity the DTOs accept (999 in the code)
  MaxPriority,   \* bound on priorities
  Horizon,       \* bound on the clock
  Nil,           \* Go's nil: an omitted field of a request, a NULL timestamp
  NewLists,      \* bodies of POST /gift-lists tried
  ListUpdates,   \* bodies of PUT /gift-lists/:id tried
  NewItems,      \* bodies of POST /gift-lists/:id/items tried
  ItemUpdates,   \* bodies of PUT /gift-items/:id tried
  Orders         \* bodies of POST /gift-lists/:id/items/reorder tried

Quantities == 1..MaxQuantity
Priorities == 0..MaxPriority
Times      == 1..Horizon

\* A row is absent until it is inserted; DELETE only sets deleted_at.
RowStates == {"absent", "live", "deleted"}

ListRow == [row: RowStates, public: BOOLEAN, active: BOOLEAN,
            never: BOOLEAN, expiry: Times \cup {Nil}]
ItemRow == [row: RowStates, quantity: Quantities, priority: Priorities,
            active: BOOLEAN, archived: BOOLEAN]
\* canceled_at and canceled_by are written with the status: one field here.
ReservationRow == [status: {"absent", "confirmed", "canceled"}, item: Items \cup {Nil},
                   quantity: 0..MaxQuantity, thanked: BOOLEAN]

\* Request bodies; Nil is a field the client left out.
NewList == [public: BOOLEAN, never: BOOLEAN \cup {Nil}, expiry: Times \cup {Nil}]
ListUpdate == [public: BOOLEAN \cup {Nil}, active: BOOLEAN \cup {Nil},
               never: BOOLEAN \cup {Nil}, expiry: Times \cup {Nil}]
NewItem == [quantity: Quantities, priority: Priorities]
ItemUpdate == [quantity: Quantities \cup {Nil}, priority: Priorities \cup {Nil},
               active: BOOLEAN \cup {Nil}, archived: BOOLEAN \cup {Nil}]
Order == Seq([item: Items, priority: Priorities])

ASSUME GiftAssumption ==
  /\ IsFiniteSet(Reservations)
  /\ MaxQuantity \in Nat \ {0} /\ MaxPriority \in Nat /\ Horizon \in Nat
  /\ Nil \notin Priorities
  /\ OwnerOf \in [Lists -> Users]
  /\ ListOf \in [Items -> Lists]
  /\ NewLists \subseteq NewList /\ ListUpdates \subseteq ListUpdate
  /\ NewItems \subseteq NewItem /\ ItemUpdates \subseteq ItemUpdate
  /\ Orders \subseteq Order

VARIABLES
  lists,         \* gift_lists
  items,         \* gift_items
  reservations,  \* gift_reservations
  request,       \* what each handler holds between two database calls
  now,           \* the clock expires_at is compared with
  offered,       \* history: the units of each item its owner stands by
  reinstated     \* history: reservations a stale Save turned back to confirmed

vars == <<lists, items, reservations, request, now, offered, reinstated>>
history == <<offered, reinstated>>

Idle == [op |-> "idle"]

\* The locals of a handler between two of its database calls, per operation.
Requests ==
  {Idle}
  \cup [op: {"save_list"}, list: Lists, value: ListRow]
  \cup [op: {"delete_list"}, list: Lists]
  \cup [op: {"store_item", "save_item"}, item: Items, value: ItemRow]
  \cup [op: {"delete_item"}, item: Items]
  \cup [op: {"reorder"}, list: Lists, order: Orders, done: Nat,
         moved: [Items -> Priorities \cup {Nil}]]
  \cup [op: {"save_reservation"}, reservation: Reservations, value: ReservationRow]
  \cup [op: {"reserve", "locked", "counted"}, reservation: Reservations,
         item: Items, quantity: Quantities]

-----------------------------------------------------------------------------
(* What the queries return.                                                *)

\* GetByID and the ownership check of GetOwnerList.
Owns(u, l) == lists[l].row = "live" /\ OwnerOf[l] = u

\* isGiftListAvailable
Available(list) ==
  /\ list.active
  /\ list.never \/ (list.expiry # Nil /\ list.expiry > now)

\* getPublicList: what a share code opens.
OpenByShareCode(l) ==
  lists[l].row = "live" /\ Available(lists[l]) /\ lists[l].public

\* The WHERE of the SELECT ... FOR UPDATE.
Bookable(i) == items[i].row = "live" /\ items[i].active /\ ~items[i].archived

\* The units of item i taken by the reservations of R that are confirmed.
UnitsOf(i, R) ==
  {u \in R \X Quantities :
     /\ reservations[u[1]].status = "confirmed"
     /\ reservations[u[1]].item = i
     /\ u[2] <= reservations[u[1]].quantity}

\* COALESCE(SUM(quantity), 0) ... WHERE item_id = ? AND status = 'confirmed'
Booked(i) == Cardinality(UnitsOf(i, Reservations))

\* The same sum without the reservations a stale Save brought back.
Firm(i) == Cardinality(UnitsOf(i, Reservations \ reinstated))

\* Row locks held by the two kinds of transaction.
Holds(h, i) ==
  \/ request[h].op \in {"locked", "counted"} /\ request[h].item = i
  \/ request[h].op = "reorder" /\ request[h].moved[i] # Nil

\* Mutant: the SELECT and the UPDATEs take no row lock.
NoRowLocks(h, i) == FALSE

LockedByOther(h, i) == \E g \in Handlers \ {h} : Holds(g, i)

\* An omitted field keeps the value that was read.
Or(v, old) == IF v = Nil THEN old ELSE v

Larger(a, b) == IF a > b THEN a ELSE b

Start(h, r) == request[h] = Idle /\ request' = [request EXCEPT ![h] = r]
Continue(h, r) == request' = [request EXCEPT ![h] = r]
Finish(h) == request' = [request EXCEPT ![h] = Idle]

-----------------------------------------------------------------------------
(* Lists.                                                                  *)

\* CreateList: never_expires defaults to TRUE and then drops expires_at.
CreateList(u, l, new) ==
  LET never == Or(new.never, TRUE)
  IN  /\ lists[l].row = "absent" /\ OwnerOf[l] = u
      /\ lists' = [lists EXCEPT ![l] =
                     [row |-> "live", public |-> new.public, active |-> TRUE,
                      never |-> never, expiry |-> IF never THEN Nil ELSE new.expiry]]
      /\ UNCHANGED <<items, reservations, request, now, history>>

\* Mutant: never_expires is set without clearing expires_at.
UpdatedListKeepsDate(list, upd) ==
  [list EXCEPT !.public = Or(upd.public, @),
               !.active = Or(upd.active, @),
               !.never  = IF upd.expiry # Nil THEN FALSE ELSE Or(upd.never, @),
               !.expiry = Or(upd.expiry, @)]

\* UpdateList, on the row it read: expires_at is applied last and wins.
UpdatedList(list, upd) ==
  LET never   == Or(upd.never, list.never)
      cleared == IF upd.never # Nil /\ never THEN Nil ELSE list.expiry
  IN  [list EXCEPT !.public = Or(upd.public, @),
                   !.active = Or(upd.active, @),
                   !.never  = IF upd.expiry # Nil THEN FALSE ELSE never,
                   !.expiry = Or(upd.expiry, cleared)]

ReadListForUpdate(h, u, l, upd) ==
  /\ Owns(u, l)
  /\ Start(h, [op |-> "save_list", list |-> l, value |-> UpdatedList(lists[l], upd)])
  /\ UNCHANGED <<lists, items, reservations, now, history>>

\* Save writes every column.  Where the row was deleted meanwhile its UPDATE
\* matches nothing and GORM inserts it again with ON CONFLICT DO UPDATE, so
\* the row ends live either way; SaveItem below does the same.
SaveList(h) ==
  /\ request[h].op = "save_list"
  /\ lists' = [lists EXCEPT ![request[h].list] = request[h].value]
  /\ Finish(h)
  /\ UNCHANGED <<items, reservations, now, history>>

ReadListForDelete(h, u, l) ==
  /\ Owns(u, l)
  /\ Start(h, [op |-> "delete_list", list |-> l])
  /\ UNCHANGED <<lists, items, reservations, now, history>>

\* Neither the items nor the reservations of the list are touched.
DeleteList(h) ==
  /\ request[h].op = "delete_list"
  /\ lists' = [lists EXCEPT ![request[h].list].row =
                 IF @ = "live" THEN "deleted" ELSE @]
  /\ Finish(h)
  /\ UNCHANGED <<items, reservations, now, history>>

-----------------------------------------------------------------------------
(* Items.                                                                  *)

\* i is a fresh UUID, so no row and no other request has it.
ReadListForNewItem(h, u, i, new) ==
  /\ Owns(u, ListOf[i])
  /\ items[i].row = "absent"
  /\ \A g \in Handlers : request[g].op = "store_item" => request[g].item # i
  /\ Start(h, [op |-> "store_item", item |-> i,
               value |-> [row |-> "live", quantity |-> new.quantity,
                          priority |-> new.priority, active |-> TRUE, archived |-> FALSE]])
  /\ UNCHANGED <<lists, items, reservations, now, history>>

StoreItem(h) ==
  LET i == request[h].item
  IN  /\ request[h].op = "store_item"
      /\ items[i].row = "absent"
      /\ items' = [items EXCEPT ![i] = request[h].value]
      /\ offered' = [offered EXCEPT ![i] = Larger(request[h].value.quantity, Firm(i))]
      /\ Finish(h)
      /\ UNCHANGED <<lists, reservations, now, reinstated>>

UpdatedItem(item, upd) ==
  [item EXCEPT !.quantity = Or(upd.quantity, @),
               !.priority = Or(upd.priority, @),
               !.active   = Or(upd.active, @),
               !.archived = Or(upd.archived, @)]

\* getOwnerItem; the new quantity is not compared with what is reserved.
ReadItemForUpdate(h, u, i, upd) ==
  /\ items[i].row = "live" /\ Owns(u, ListOf[i])
  /\ Start(h, [op |-> "save_item", item |-> i, value |-> UpdatedItem(items[i], upd)])
  /\ UNCHANGED <<lists, items, reservations, now, history>>

\* The UPDATE waits for the row lock of a transaction.  The owner then stands
\* by the new quantity, or by what guests had booked if that is more.
SaveItem(h) ==
  LET i == request[h].item
  IN  /\ request[h].op = "save_item"
      /\ ~LockedByOther(h, i)
      /\ items' = [items EXCEPT ![i] = request[h].value]
      /\ offered' = [offered EXCEPT ![i] = Larger(request[h].value.quantity, Firm(i))]
      /\ Finish(h)
      /\ UNCHANGED <<lists, reservations, now, reinstated>>

ReadItemForDelete(h, u, i) ==
  /\ items[i].row = "live" /\ Owns(u, ListOf[i])
  /\ Start(h, [op |-> "delete_item", item |-> i])
  /\ UNCHANGED <<lists, items, reservations, now, history>>

\* Mutant: the soft delete does not wait for the row lock.
DeleteItemWithoutWaiting(h) ==
  LET i == request[h].item
  IN  /\ request[h].op = "delete_item"
      /\ items' = [items EXCEPT ![i].row = IF @ = "live" THEN "deleted" ELSE @]
      /\ Finish(h)
      /\ UNCHANGED <<lists, reservations, now, history>>

DeleteItem(h) ==
  LET i == request[h].item
  IN  /\ request[h].op = "delete_item"
      /\ ~LockedByOther(h, i)
      /\ items' = [items EXCEPT ![i].row = IF @ = "live" THEN "deleted" ELSE @]
      /\ Finish(h)
      /\ UNCHANGED <<lists, reservations, now, history>>

ReadListForReorder(h, u, l, order) ==
  /\ Owns(u, l)
  /\ Start(h, [op |-> "reorder", list |-> l, order |-> order, done |-> 0,
               moved |-> [i \in Items |-> Nil]])
  /\ UNCHANGED <<lists, items, reservations, now, history>>

\* The transaction after the UPDATE of its next row, not committed yet.
Moved(r, entry) ==
  [r EXCEPT !.done = @ + 1, !.moved = [@ EXCEPT ![entry.item] = entry.priority]]

\* Mutant: an UPDATE that matches no row is not noticed.
ReorderRowSkips(h) ==
  LET r == request[h]
      entry == r.order[r.done + 1]
  IN  /\ r.op = "reorder" /\ r.done < Len(r.order)
      /\ ~LockedByOther(h, entry.item)
      /\ Continue(h, IF items[entry.item].row = "live" /\ ListOf[entry.item] = r.list
                     THEN Moved(r, entry) ELSE [r EXCEPT !.done = @ + 1])
      /\ UNCHANGED <<lists, items, reservations, now, history>>

\* Mutant: a row that does not match neither advances nor ends the transaction.
ReorderRowNeverFails(h) ==
  LET r == request[h]
      entry == r.order[r.done + 1]
  IN  /\ r.op = "reorder" /\ r.done < Len(r.order)
      /\ ~LockedByOther(h, entry.item)
      /\ items[entry.item].row = "live" /\ ListOf[entry.item] = r.list
      /\ Continue(h, Moved(r, entry))
      /\ UNCHANGED <<lists, items, reservations, now, history>>

\* One UPDATE of the transaction: it waits for the row, keeps it locked, and
\* rolls the whole transaction back when no live row of the list matches.
ReorderRow(h) ==
  LET r == request[h]
      entry == r.order[r.done + 1]
  IN  /\ r.op = "reorder" /\ r.done < Len(r.order)
      /\ ~LockedByOther(h, entry.item)
      /\ IF items[entry.item].row = "live" /\ ListOf[entry.item] = r.list
         THEN Continue(h, Moved(r, entry))
         ELSE Finish(h)
      /\ UNCHANGED <<lists, items, reservations, now, history>>

CommitReorder(h) ==
  LET r == request[h]
  IN  /\ r.op = "reorder" /\ r.done = Len(r.order)
      /\ items' = [i \in Items |-> [items[i] EXCEPT !.priority = Or(r.moved[i], @)]]
      /\ Finish(h)
      /\ UNCHANGED <<lists, reservations, now, history>>

-----------------------------------------------------------------------------
(* Reservations.                                                           *)

\* The three reads MarkReservationThanked and CancelReservation start with;
\* neither looks at the status it read.
OwnerSees(u, r) ==
  LET i == reservations[r].item
  IN  /\ reservations[r].status # "absent"
      /\ items[i].row = "live"
      /\ Owns(u, ListOf[i])

\* Mutant: thanking a guest also confirms the reservation.
ReadForThankConfirms(h, u, r) ==
  /\ OwnerSees(u, r)
  /\ Start(h, [op |-> "save_reservation", reservation |-> r,
               value |-> [reservations[r] EXCEPT !.thanked = TRUE, !.status = "confirmed"]])
  /\ UNCHANGED <<lists, items, reservations, now, history>>

ReadForThank(h, u, r) ==
  /\ OwnerSees(u, r)
  /\ Start(h, [op |-> "save_reservation", reservation |-> r,
               value |-> [reservations[r] EXCEPT !.thanked = TRUE]])
  /\ UNCHANGED <<lists, items, reservations, now, history>>

\* Mutant: the status is written the British way.
ReadForCancelMisspelt(h, u, r) ==
  /\ OwnerSees(u, r)
  /\ Start(h, [op |-> "save_reservation", reservation |-> r,
               value |-> [reservations[r] EXCEPT !.status = "cancelled"]])
  /\ UNCHANGED <<lists, items, reservations, now, history>>

ReadForCancel(h, u, r) ==
  /\ OwnerSees(u, r)
  /\ Start(h, [op |-> "save_reservation", reservation |-> r,
               value |-> [reservations[r] EXCEPT !.status = "canceled"]])
  /\ UNCHANGED <<lists, items, reservations, now, history>>

\* Writes back every column, the status that was read included.  The item's
\* row lock does not cover its reservations: this never waits.
SaveReservation(h) ==
  LET r == request[h].reservation
      value == request[h].value
  IN  /\ request[h].op = "save_reservation"
      /\ reservations' = [reservations EXCEPT ![r] = value]
      /\ reinstated' = IF reservations[r].status = "canceled" /\ value.status = "confirmed"
                       THEN reinstated \cup {r} ELSE reinstated
      /\ Finish(h)
      /\ UNCHANGED <<lists, items, now, offered>>

\* Requests of CreatePublicReservation that have drawn their UUID.
Reserving(h) == request[h].op \in {"reserve", "locked", "counted"}

\* CreatePublicReservation up to the transaction; r is a fresh UUID.
CheckForReserve(h, r, l, i, q) ==
  /\ OpenByShareCode(l)
  /\ Bookable(i) /\ ListOf[i] = l
  /\ reservations[r].status = "absent"
  /\ \A g \in Handlers : Reserving(g) => request[g].reservation # r
  /\ Start(h, [op |-> "reserve", reservation |-> r, item |-> i, quantity |-> q])
  /\ UNCHANGED <<lists, items, reservations, now, history>>

\* Mutant: the locking SELECT looks the row up by id only.
LockItemById(h) ==
  LET r == request[h]
  IN  /\ r.op = "reserve"
      /\ ~LockedByOther(h, r.item)
      /\ Continue(h, [r EXCEPT !.op = "locked"])
      /\ UNCHANGED <<lists, items, reservations, now, history>>

\* SELECT ... FOR UPDATE: it waits for the row, then looks at it again.
LockItem(h) ==
  LET r == request[h]
  IN  /\ r.op = "reserve"
      /\ ~LockedByOther(h, r.item)
      /\ IF Bookable(r.item) THEN Continue(h, [r EXCEPT !.op = "locked"]) ELSE Finish(h)
      /\ UNCHANGED <<lists, items, reservations, now, history>>

\* Mutant: the check asks for one free unit whatever the quantity.
CountReservedOne(h) ==
  LET r == request[h]
  IN  /\ r.op = "locked"
      /\ IF items[r.item].quantity <= Booked(r.item)
         THEN Finish(h)
         ELSE Continue(h, [r EXCEPT !.op = "counted"])
      /\ UNCHANGED <<lists, items, reservations, now, history>>

\* SELECT SUM, and ErrInsufficientQuantity.
CountReserved(h) ==
  LET r == request[h]
  IN  /\ r.op = "locked"
      /\ IF items[r.item].quantity < Booked(r.item) + r.quantity
         THEN Finish(h)
         ELSE Continue(h, [r EXCEPT !.op = "counted"])
      /\ UNCHANGED <<lists, items, reservations, now, history>>

\* INSERT and COMMIT.
StoreReservation(h) ==
  LET r == request[h]
  IN  /\ r.op = "counted"
      /\ reservations[r.reservation].status = "absent"
      /\ reservations' = [reservations EXCEPT ![r.reservation] =
                            [status |-> "confirmed", item |-> r.item,
                             quantity |-> r.quantity, thanked |-> FALSE]]
      /\ Finish(h)
      /\ UNCHANGED <<lists, items, now, history>>

-----------------------------------------------------------------------------
(* What happens to any request, and the clock.                             *)

\* A database error, a canceled request context or a crash of the process
\* ends a request between two calls; an open transaction rolls back.
Abort(h) ==
  /\ request[h] # Idle
  /\ Finish(h)
  /\ UNCHANGED <<lists, items, reservations, now, history>>

\* The row the next statement of h needs.
Wants(h) ==
  LET r == request[h]
  IN  IF r.op \in {"save_item", "delete_item", "reserve"} THEN {r.item}
      ELSE IF r.op = "reorder" /\ r.done < Len(r.order) THEN {r.order[r.done + 1].item}
      ELSE {}

WaitsFor(g, h) == g # h /\ \E i \in Wants(g) : Holds(h, i)

\* PostgreSQL aborts a transaction that finds itself on a cycle of waits.
BreakDeadlock(h) ==
  /\ \E cycle \in SUBSET Handlers :
       /\ h \in cycle
       /\ \A g \in cycle : (\E f \in cycle : WaitsFor(g, f)) /\ (\E f \in cycle : WaitsFor(f, g))
  /\ Abort(h)

Tick ==
  /\ now < Horizon
  /\ now' = now + 1
  /\ UNCHANGED <<lists, items, reservations, request, history>>

-----------------------------------------------------------------------------

Init ==
  /\ lists = [l \in Lists |->
                [row |-> "absent", public |-> FALSE, active |-> FALSE,
                 never |-> FALSE, expiry |-> Nil]]
  /\ items = [i \in Items |->
                [row |-> "absent", quantity |-> 1, priority |-> 0,
                 active |-> FALSE, archived |-> FALSE]]
  /\ reservations = [r \in Reservations |->
                       [status |-> "absent", item |-> Nil, quantity |-> 0, thanked |-> FALSE]]
  /\ request = [h \in Handlers |-> Idle]
  /\ now = 0
  /\ offered = [i \in Items |-> 1]
  /\ reinstated = {}

\* The database calls a request makes after its first.
Progress(h) ==
  \/ SaveList(h) \/ DeleteList(h)
  \/ StoreItem(h) \/ SaveItem(h) \/ DeleteItem(h)
  \/ ReorderRow(h) \/ CommitReorder(h)
  \/ SaveReservation(h)
  \/ LockItem(h) \/ CountReserved(h) \/ StoreReservation(h)

OwnerStarts(h, u) ==
  \/ \E l \in Lists :
       \/ ReadListForDelete(h, u, l)
       \/ \E upd \in ListUpdates : ReadListForUpdate(h, u, l, upd)
       \/ \E order \in Orders : ReadListForReorder(h, u, l, order)
  \/ \E i \in Items :
       \/ ReadItemForDelete(h, u, i)
       \/ \E new \in NewItems : ReadListForNewItem(h, u, i, new)
       \/ \E upd \in ItemUpdates : ReadItemForUpdate(h, u, i, upd)
  \/ \E r \in Reservations : ReadForThank(h, u, r) \/ ReadForCancel(h, u, r)

GuestStarts(h) ==
  \E r \in Reservations, l \in Lists, i \in Items, q \in Quantities :
    CheckForReserve(h, r, l, i, q)

Next ==
  \/ \E u \in Users, l \in Lists, new \in NewLists : CreateList(u, l, new)
  \/ \E h \in Handlers, u \in Users : OwnerStarts(h, u)
  \/ \E h \in Handlers : GuestStarts(h) \/ Progress(h) \/ Abort(h) \/ BreakDeadlock(h)
  \/ Tick

Spec == Init /\ [][Next]_vars

\* The server runs every goroutine, PostgreSQL grants a row to its waiters in
\* turn (hence SF) and its deadlock detector runs; nobody has to call.
FairSpec ==
  /\ Spec
  /\ \A h \in Handlers : SF_vars(Progress(h))
  /\ WF_vars(\E h \in Handlers : BreakDeadlock(h))

-----------------------------------------------------------------------------
(* Properties.                                                             *)

\* Every row and every handler's locals have the shape the code gives them.
TypeOK ==
  /\ lists \in [Lists -> ListRow]
  /\ items \in [Items -> ItemRow]
  /\ reservations \in [Reservations -> ReservationRow]
  /\ request \in [Handlers -> Requests]
  /\ now \in 0..Horizon
  /\ offered \in [Items -> Nat]
  /\ reinstated \subseteq Reservations

\* Guests never take more of an item than its owner stands by (the quantity
\* saved last, or what was booked then), whatever interleaves with the check of
\* CreateReservationWithAvailability, except through reservations that a stale
\* Save of MarkReservationThanked turned back to confirmed.
GuestsNeverOverbook == \A i \in Items : Firm(i) <= offered[i]

\* The transaction that has counted still has room when it inserts: nothing it
\* was not locked against can use up the units it counted free.
CountedUnitsStayFree ==
  \A h \in Handlers, i \in Items :
    request[h].op = "counted" /\ request[h].item = i =>
      Firm(i) + request[h].quantity <= offered[i]

\* What holds a row lock at the same time is one transaction.
LockIsExclusive ==
  \A i \in Items : \A g, h \in Handlers : Holds(g, i) /\ Holds(h, i) => g = h

\* A row that a transaction matched and locked is still the row it matched:
\* not deleted, and for a reservation not deactivated or archived either.
LockedRowsStayMatched ==
  \A h \in Handlers, i \in Items :
    Holds(h, i) =>
      /\ items[i].row = "live"
      /\ request[h].op \in {"locked", "counted"} => Bookable(i)

\* A reordering that changes anything changes all of it at once: when it
\* commits, every row its order names is live and in its list, whoever deleted
\* or saved items while it ran, and gets the priority of its last entry.
ReordersAreWhole ==
  [][\A h \in Handlers :
       request[h].op = "reorder" /\ request'[h] = Idle /\ items' # items =>
         \A k \in DOMAIN request[h].order :
           LET order == request[h].order
               i == order[k].item
           IN  /\ items[i].row = "live" /\ ListOf[i] = request[h].list
               /\ (\A m \in (k + 1)..Len(order) : order[m].item # i)
                    => items'[i] = [items[i] EXCEPT !.priority = order[k].priority]]_vars

\* A list that never expires carries no expiry date, however updates of the
\* two fields race (UpdateList and CreateList both normalise the pair).
NeverExpiringHasNoDate == \A l \in Lists : lists[l].never => lists[l].expiry = Nil

\* A reservation appears only on an item that is live, active and not archived
\* at that moment, although the guest's checks were made earlier: the
\* transaction's locking SELECT repeats them.
GuestsBookOnlyBookableItems ==
  [][\A r \in Reservations :
       reservations[r].status = "absent" /\ reservations'[r].status # "absent"
         => Bookable(reservations'[r].item)]_vars

\* Once a reservation is canceled and no request that read it confirmed is
\* still to save it, it stays canceled: nothing that starts later revives it.
StaleConfirm(r) ==
  \E h \in Handlers : /\ request[h].op = "save_reservation"
                      /\ request[h].reservation = r
                      /\ request[h].value.status = "confirmed"

SettledCanceled(r) == reservations[r].status = "canceled" /\ ~StaleConfirm(r)

CanceledForGood ==
  [][\A r \in Reservations : SettledCanceled(r) => SettledCanceled(r)']_vars

\* Every request ends: no order of row locks leaves two of them waiting for
\* each other for ever, and no early return forgets to finish.
RequestsEnd == \A h \in Handlers : request[h] # Idle ~> request[h] = Idle

\* README.md:241, "so reservations cannot exceed availability".
ReservationsWithinAvailability ==
  \A i \in Items : items[i].row = "live" => Booked(i) <= items[i].quantity

\* Requests, rows and locks taken together do what GiftLedger promises in
\* single steps: a booking is taken at once and within what the owner stands by,
\* never changes its item or quantity, and does not count again once canceled
\* (service.go:266, repositories/gift/gift.go:172).
Bookings ==
  [r \in Reservations |->
     [item |-> reservations[r].item, quantity |-> reservations[r].quantity,
      firm |-> reservations[r].status = "confirmed" /\ r \notin reinstated]]

Ledger == INSTANCE GiftLedger WITH promised <- offered, booking <- Bookings

KeepsLedger == Ledger!Spec

-----------------------------------------------------------------------------
(* The inductive invariant behind GuestsNeverOverbook.                     *)

\* A Save of a reservation can change neither its item nor its quantity.
SavesKeepUnits ==
  \A h \in Handlers :
    request[h].op = "save_reservation" =>
      LET row == reservations[request[h].reservation]
          value == request[h].value
      IN  /\ row.status # "absent" /\ value.status # "absent"
          /\ value.item = row.item /\ value.quantity = row.quantity

\* The owner stands by at least the quantity on the row.
OwnerStandsByQuantity == \A i \in Items : items[i].quantity <= offered[i]

BookingInv ==
  /\ TypeOK
  /\ SavesKeepUnits
  /\ OwnerStandsByQuantity
  /\ LockIsExclusive
  /\ LockedRowsStayMatched
  /\ CountedUnitsStayFree
  /\ GuestsNeverOverbook

\* What makes ReordersAreWhole provable: an open reordering has a new priority,
\* that of the last entry so far, for each row that it has updated.
MovesFollowOrder ==
  \A h \in Handlers :
    request[h].op = "reorder" =>
      LET r == request[h]
      IN  /\ r.done <= Len(r.order)
          /\ \A k \in 1..r.done :
               /\ r.moved[r.order[k].item] # Nil
               /\ ListOf[r.order[k].item] = r.list
               /\ (\A m \in (k + 1)..r.done : r.order[m].item # r.order[k].item)
                    => r.moved[r.order[k].item] = r.order[k].priority

\* What makes NeverExpiringHasNoDate inductive: a list about to be saved has it.
SavedListsAgree ==
  \A h \in Handlers :
    request[h].op = "save_list" /\ request[h].value.never => request[h].value.expiry = Nil

=============================================================================
