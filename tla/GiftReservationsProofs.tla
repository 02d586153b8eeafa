----------------------- MODULE GiftReservationsProofs -----------------------
(***************************************************************************)
(* TLAPS proofs about GiftReservations, for every number of handlers,      *)
(* items and reservations and for every MaxQuantity.                       *)
(***************************************************************************)
EXTENDS GiftReservations, FiniteSetTheorems, WellFoundedInduction, TLAPS

-----------------------------------------------------------------------------
(* Units: the sums of the quantities are cardinalities of sets of units.   *)

\* The confirmed units of any set of reservations are finitely many.
LEMMA UnitsFinite ==
  ASSUME NEW i, NEW R \in SUBSET Reservations
  PROVE  IsFiniteSet(UnitsOf(i, R)) /\ Cardinality(UnitsOf(i, R)) \in Nat
<1>1. IsFiniteSet(R)
  BY GiftAssumption, FS_Subset
<1>2. IsFiniteSet(Quantities)
  BY GiftAssumption, FS_Interval DEF Quantities
<1>3. IsFiniteSet(R \X Quantities)
  BY <1>1, <1>2, FS_Product
<1>4. UnitsOf(i, R) \in SUBSET (R \X Quantities)
  BY DEF UnitsOf
<1>5. IsFiniteSet(UnitsOf(i, R))
  BY <1>3, <1>4, FS_Subset
<1> QED
  BY <1>5, FS_CardinalityType

\* Leaving reservations out of the sum cannot make it larger.
LEMMA FirmAtMostBooked ==
  ASSUME NEW i
  PROVE  Firm(i) \in Nat /\ Booked(i) \in Nat /\ Firm(i) <= Booked(i)
<1>1. UnitsOf(i, Reservations \ reinstated) \in SUBSET UnitsOf(i, Reservations)
  BY DEF UnitsOf
<1>2. /\ IsFiniteSet(UnitsOf(i, Reservations))
      /\ Cardinality(UnitsOf(i, Reservations)) \in Nat
      /\ Cardinality(UnitsOf(i, Reservations \ reinstated)) \in Nat
  BY UnitsFinite
<1>3. Cardinality(UnitsOf(i, Reservations \ reinstated)) <= Cardinality(UnitsOf(i, Reservations))
  BY <1>1, <1>2, FS_Subset
<1> QED
  BY <1>2, <1>3 DEF Firm, Booked

\* One reservation of q units has q of them.
LEMMA UnitsOfOne ==
  ASSUME NEW r, NEW q \in Quantities
  PROVE  IsFiniteSet({r} \X (1..q)) /\ Cardinality({r} \X (1..q)) = q
<1>1. q \in Nat \ {0}
  BY GiftAssumption DEF Quantities
<1>2. IsFiniteSet(1..q) /\ Cardinality(1..q) = q
  BY <1>1, FS_Interval
<1>3. IsFiniteSet({r}) /\ Cardinality({r}) = 1
  BY FS_Singleton
<1>4. Cardinality({r} \X (1..q)) = 1 * q /\ IsFiniteSet({r} \X (1..q))
  BY <1>2, <1>3, FS_Product, ZenonT(60)
<1> QED
  BY <1>1, <1>4

-----------------------------------------------------------------------------
(* Typing.                                                                 *)

\* What the operation of a request says of its other fields.
LEMMA RequestFields ==
  ASSUME TypeOK, NEW h \in Handlers
  PROVE  LET r == request[h]
         IN  /\ r \in Requests
             /\ r.op = "save_list" => r.list \in Lists /\ r.value \in ListRow
             /\ r.op = "delete_list" => r.list \in Lists
             /\ r.op \in {"store_item", "save_item"} => r.item \in Items /\ r.value \in ItemRow
             /\ r.op = "delete_item" => r.item \in Items
             /\ r.op = "reorder" =>
                  /\ r.list \in Lists /\ r.order \in Orders /\ r.done \in Nat
                  /\ r.moved \in [Items -> Priorities \cup {Nil}]
                  /\ r \in [op: {"reorder"}, list: Lists, order: Orders, done: Nat,
                            moved: [Items -> Priorities \cup {Nil}]]
             /\ r.op = "save_reservation" =>
                  r.reservation \in Reservations /\ r.value \in ReservationRow
             /\ r.op \in {"reserve", "locked", "counted"} =>
                  /\ r.reservation \in Reservations /\ r.item \in Items
                  /\ r.quantity \in Quantities
                  /\ r = [op |-> r.op, reservation |-> r.reservation,
                          item |-> r.item, quantity |-> r.quantity]
  BY DEF TypeOK, Requests, Idle

\* Writing an omitted or a sent field keeps a value of the field's type.
LEMMA OrType ==
  ASSUME NEW S, NEW v \in S \cup {Nil}, NEW old \in S
  PROVE  Or(v, old) \in S
  BY DEF Or


\* A handler that stores well-typed locals, or none, keeps request well typed.
LEMMA RequestType ==
  ASSUME TypeOK, NEW h \in Handlers, NEW r \in Requests,
         request' = [request EXCEPT ![h] = r]
  PROVE  request' \in [Handlers -> Requests]
  BY DEF TypeOK

\* The next element of a sequence that has not been read to its end.
LEMMA NextElement ==
  ASSUME NEW S, NEW s \in Seq(S), NEW n \in Nat, n < Len(s)
  PROVE  s[n + 1] \in S
<1>1. Len(s) \in Nat /\ n + 1 \in 1..Len(s)
  OBVIOUS
<1> QED
  BY <1>1

LEMMA ElementOf ==
  ASSUME NEW S, NEW s \in Seq(S), NEW k \in DOMAIN s
  PROVE  k \in 1..Len(s) /\ s[k] \in S
  OBVIOUS

\* A reorder that has made one more UPDATE has well-typed locals.
LEMMA MovedType ==
  ASSUME NEW r \in [op: {"reorder"}, list: Lists, order: Orders, done: Nat,
                    moved: [Items -> Priorities \cup {Nil}]],
         NEW entry \in [item: Items, priority: Priorities]
  PROVE  Moved(r, entry) \in Requests
<1>1. /\ [r.moved EXCEPT ![entry.item] = entry.priority] \in [Items -> Priorities \cup {Nil}]
      /\ r.done + 1 \in Nat
  OBVIOUS
<1>2. \A d \in Nat, m \in [Items -> Priorities \cup {Nil}] :
        [r EXCEPT !.done = d, !.moved = m] \in
          [op: {"reorder"}, list: Lists, order: Orders, done: Nat,
           moved: [Items -> Priorities \cup {Nil}]]
  OBVIOUS
<1> QED
  BY <1>1, <1>2 DEF Moved, Requests

LEMMA IdleIsRequest == Idle \in Requests
  BY DEF Requests

\* Each first call of a request keeps the types.
LEMMA StartsKeepTypes ==
  ASSUME TypeOK, NEW h \in Handlers, GuestStarts(h) \/ \E u \in Users : OwnerStarts(h, u)
  PROVE  TypeOK'
<1>1. ASSUME NEW r \in Requests, Start(h, r),
             UNCHANGED <<lists, items, reservations, now, history>>
      PROVE  TypeOK'
  BY <1>1, RequestType DEF TypeOK, Start, history
<1>2. ASSUME NEW u \in Users, NEW l \in Lists, ReadListForDelete(h, u, l)
      PROVE  TypeOK'
  <2>1. [op |-> "delete_list", list |-> l] \in Requests
    BY DEF Requests
  <2> QED
    BY <1>1, <1>2, <2>1 DEF ReadListForDelete
<1>3. ASSUME NEW u \in Users, NEW l \in Lists, NEW upd \in ListUpdates,
             ReadListForUpdate(h, u, l, upd)
      PROVE  TypeOK'
  <2>1. upd \in ListUpdate /\ lists[l] \in ListRow
    BY GiftAssumption DEF TypeOK
  <2>2. UpdatedList(lists[l], upd) \in ListRow
    <3>1. /\ Or(upd.public, lists[l].public) \in BOOLEAN
          /\ Or(upd.active, lists[l].active) \in BOOLEAN
      BY <2>1 DEF ListUpdate, ListRow, Or
    <3>2. Or(upd.never, lists[l].never) \in BOOLEAN
      BY <2>1 DEF ListUpdate, ListRow, Or
    <3>3. \A e \in {lists[l].expiry, Nil} : Or(upd.expiry, e) \in Times \cup {Nil}
      BY <2>1 DEF ListUpdate, ListRow, Or
    <3> QED
      BY <2>1, <3>1, <3>2, <3>3, ZenonT(60) DEF UpdatedList, ListRow
  <2>3. [op |-> "save_list", list |-> l, value |-> UpdatedList(lists[l], upd)] \in Requests
    BY <2>2 DEF Requests
  <2> QED
    BY <1>1, <1>3, <2>3 DEF ReadListForUpdate
<1>4. ASSUME NEW u \in Users, NEW l \in Lists, NEW order \in Orders,
             ReadListForReorder(h, u, l, order)
      PROVE  TypeOK'
  <2>1. [op |-> "reorder", list |-> l, order |-> order, done |-> 0,
         moved |-> [i \in Items |-> Nil]] \in Requests
    BY DEF Requests
  <2> QED
    BY <1>1, <1>4, <2>1 DEF ReadListForReorder
<1>5. ASSUME NEW u \in Users, NEW i \in Items, ReadItemForDelete(h, u, i)
      PROVE  TypeOK'
  <2>1. [op |-> "delete_item", item |-> i] \in Requests
    BY DEF Requests
  <2> QED
    BY <1>1, <1>5, <2>1 DEF ReadItemForDelete
<1>6. ASSUME NEW u \in Users, NEW i \in Items, NEW new \in NewItems,
             ReadListForNewItem(h, u, i, new)
      PROVE  TypeOK'
  <2>1. new \in NewItem
    BY GiftAssumption
  <2>2. [row |-> "live", quantity |-> new.quantity, priority |-> new.priority,
         active |-> TRUE, archived |-> FALSE] \in ItemRow
    BY <2>1 DEF NewItem, ItemRow, RowStates
  <2>3. [op |-> "store_item", item |-> i,
         value |-> [row |-> "live", quantity |-> new.quantity, priority |-> new.priority,
                    active |-> TRUE, archived |-> FALSE]] \in Requests
    BY <2>2 DEF Requests
  <2> QED
    BY <1>1, <1>6, <2>3 DEF ReadListForNewItem
<1>7. ASSUME NEW u \in Users, NEW i \in Items, NEW upd \in ItemUpdates,
             ReadItemForUpdate(h, u, i, upd)
      PROVE  TypeOK'
  <2>1. upd \in ItemUpdate /\ items[i] \in ItemRow
    BY GiftAssumption DEF TypeOK
  <2>2. UpdatedItem(items[i], upd) \in ItemRow
    BY <2>1 DEF UpdatedItem, ItemUpdate, ItemRow, Or
  <2>3. [op |-> "save_item", item |-> i, value |-> UpdatedItem(items[i], upd)] \in Requests
    BY <2>2 DEF Requests
  <2> QED
    BY <1>1, <1>7, <2>3 DEF ReadItemForUpdate
<1>8. ASSUME NEW u \in Users, NEW r \in Reservations,
             ReadForThank(h, u, r) \/ ReadForCancel(h, u, r)
      PROVE  TypeOK'
  <2>1. /\ [reservations[r] EXCEPT !.thanked = TRUE] \in ReservationRow
        /\ [reservations[r] EXCEPT !.status = "canceled"] \in ReservationRow
    BY DEF TypeOK, ReservationRow
  <2>2. \A value \in ReservationRow :
          [op |-> "save_reservation", reservation |-> r, value |-> value] \in Requests
    BY DEF Requests
  <2> QED
    BY <1>1, <1>8, <2>1, <2>2 DEF ReadForThank, ReadForCancel
<1>9. ASSUME NEW r \in Reservations, NEW l \in Lists, NEW i \in Items, NEW q \in Quantities,
             CheckForReserve(h, r, l, i, q)
      PROVE  TypeOK'
  <2>1. [op |-> "reserve", reservation |-> r, item |-> i, quantity |-> q] \in Requests
    BY DEF Requests
  <2> QED
    BY <1>1, <1>9, <2>1 DEF CheckForReserve
<1> QED
  BY <1>2, <1>3, <1>4, <1>5, <1>6, <1>7, <1>8, <1>9 DEF OwnerStarts, GuestStarts


\* Each later call keeps the types.
LEMMA ProgressKeepsTypes ==
  ASSUME TypeOK, NEW h \in Handlers, Progress(h)
  PROVE  TypeOK'
<1> DEFINE r == request[h]
<1>2. CASE SaveList(h)
  <2>1. r.list \in Lists /\ r.value \in ListRow
    BY <1>2, RequestFields DEF SaveList
  <2>2. request' \in [Handlers -> Requests]
    BY <1>2, RequestType, IdleIsRequest DEF SaveList, Finish
  <2> QED
    BY <1>2, <2>1, <2>2 DEF SaveList, TypeOK, history
<1>3. CASE DeleteList(h)
  <2>1. r.list \in Lists /\ lists[r.list] \in ListRow
    BY <1>3, RequestFields DEF DeleteList, TypeOK
  <2>2. [lists[r.list] EXCEPT !.row = IF @ = "live" THEN "deleted" ELSE @] \in ListRow
    BY <2>1 DEF ListRow, RowStates
  <2>3. lists' \in [Lists -> ListRow]
    BY <1>3, <2>1, <2>2 DEF DeleteList, TypeOK
  <2>4. request' \in [Handlers -> Requests]
    BY <1>3, RequestType, IdleIsRequest DEF DeleteList, Finish
  <2> QED
    BY <1>3, <2>3, <2>4 DEF DeleteList, TypeOK, history
<1>4. CASE StoreItem(h) \/ SaveItem(h)
  <2>1. r.item \in Items /\ r.value \in ItemRow
    BY <1>4, RequestFields DEF StoreItem, SaveItem
  <2>2. items' \in [Items -> ItemRow]
    BY <1>4, <2>1 DEF StoreItem, SaveItem, TypeOK
  <2>3. Larger(r.value.quantity, Firm(r.item)) \in Nat
    BY <2>1, FirmAtMostBooked, GiftAssumption DEF Larger, ItemRow, Quantities
  <2>4. offered' \in [Items -> Nat]
    BY <1>4, <2>1, <2>3 DEF StoreItem, SaveItem, TypeOK
  <2>5. request' \in [Handlers -> Requests]
    BY <1>4, RequestType, IdleIsRequest DEF StoreItem, SaveItem, Finish
  <2> QED
    BY <1>4, <2>2, <2>4, <2>5 DEF StoreItem, SaveItem, TypeOK
<1>5. CASE DeleteItem(h)
  <2>1. r.item \in Items /\ items[r.item] \in ItemRow
    BY <1>5, RequestFields DEF DeleteItem, TypeOK
  <2>2. [items[r.item] EXCEPT !.row = IF @ = "live" THEN "deleted" ELSE @] \in ItemRow
    BY <2>1 DEF ItemRow, RowStates
  <2>3. items' \in [Items -> ItemRow]
    BY <1>5, <2>1, <2>2 DEF DeleteItem, TypeOK
  <2>4. request' \in [Handlers -> Requests]
    BY <1>5, RequestType, IdleIsRequest DEF DeleteItem, Finish
  <2> QED
    BY <1>5, <2>3, <2>4 DEF DeleteItem, TypeOK, history
<1>6. CASE ReorderRow(h)
  <2> DEFINE entry == r.order[r.done + 1]
  <2>1. r.op = "reorder" /\ r.done < Len(r.order)
    BY <1>6 DEF ReorderRow
  <2>2. entry \in [item: Items, priority: Priorities]
    <3>1. r.order \in Seq([item: Items, priority: Priorities])
      BY <2>1, RequestFields, GiftAssumption DEF Order
    <3>2. r.done \in Nat
      BY <2>1, RequestFields
    <3> QED
      BY <2>1, <3>1, <3>2, NextElement
  <2>3. Moved(r, entry) \in Requests
    <3>1. r \in [op: {"reorder"}, list: Lists, order: Orders, done: Nat,
                 moved: [Items -> Priorities \cup {Nil}]]
      BY <2>1, RequestFields
    <3> QED
      BY <2>2, <3>1, MovedType
  <2>4. request' \in [Handlers -> Requests]
    BY <1>6, <2>3, RequestType, IdleIsRequest DEF ReorderRow, Continue, Finish
  <2> QED
    BY <1>6, <2>4 DEF ReorderRow, TypeOK, history
<1>7. CASE CommitReorder(h)
  <2>1. r.moved \in [Items -> Priorities \cup {Nil}]
    BY <1>7, RequestFields DEF CommitReorder
  <2>2. ASSUME NEW i \in Items
        PROVE  [items[i] EXCEPT !.priority = Or(r.moved[i], @)] \in ItemRow
    <3>1. items[i] \in ItemRow /\ r.moved[i] \in Priorities \cup {Nil}
      BY <2>1 DEF TypeOK
    <3> QED
      BY <3>1 DEF ItemRow, Or
  <2>3. items' \in [Items -> ItemRow]
    BY <1>7, <2>2 DEF CommitReorder
  <2>4. request' \in [Handlers -> Requests]
    BY <1>7, RequestType, IdleIsRequest DEF CommitReorder, Finish
  <2> QED
    BY <1>7, <2>3, <2>4 DEF CommitReorder, TypeOK, history
<1>8. CASE SaveReservation(h)
  <2>1. r.reservation \in Reservations /\ r.value \in ReservationRow
    BY <1>8, RequestFields DEF SaveReservation
  <2>2. request' \in [Handlers -> Requests]
    BY <1>8, RequestType, IdleIsRequest DEF SaveReservation, Finish
  <2> QED
    BY <1>8, <2>1, <2>2 DEF SaveReservation, TypeOK
<1>9. CASE LockItem(h) \/ CountReserved(h)
  <2>1. r.op \in {"reserve", "locked"}
    BY <1>9 DEF LockItem, CountReserved
  <2>2. [r EXCEPT !.op = "locked"] \in Requests /\ [r EXCEPT !.op = "counted"] \in Requests
    <3>1. /\ r = [op |-> r.op, reservation |-> r.reservation,
                  item |-> r.item, quantity |-> r.quantity]
          /\ r.reservation \in Reservations /\ r.item \in Items /\ r.quantity \in Quantities
      BY <2>1, RequestFields
    <3>2. \A op : [r EXCEPT !.op = op] = [op |-> op, reservation |-> r.reservation,
                                          item |-> r.item, quantity |-> r.quantity]
      BY <3>1
    <3> HIDE DEF r
    <3> QED
      BY <3>1, <3>2 DEF Requests
  <2>3. request' \in [Handlers -> Requests]
    BY <1>9, <2>2, RequestType, IdleIsRequest DEF LockItem, CountReserved, Continue, Finish
  <2> QED
    BY <1>9, <2>3 DEF LockItem, CountReserved, TypeOK, history
<1>10. CASE StoreReservation(h)
  <2>1. r.reservation \in Reservations /\ r.item \in Items /\ r.quantity \in Quantities
    BY <1>10, RequestFields DEF StoreReservation
  <2>2. [status |-> "confirmed", item |-> r.item, quantity |-> r.quantity, thanked |-> FALSE]
          \in ReservationRow
    BY <2>1, GiftAssumption DEF ReservationRow, Quantities
  <2>3. reservations' \in [Reservations -> ReservationRow]
    BY <1>10, <2>1, <2>2 DEF StoreReservation, TypeOK
  <2>4. request' \in [Handlers -> Requests]
    BY <1>10, RequestType, IdleIsRequest DEF StoreReservation, Finish
  <2> QED
    BY <1>10, <2>3, <2>4 DEF StoreReservation, TypeOK, history
<1> QED
  BY <1>2, <1>3, <1>4, <1>5, <1>6, <1>7, <1>8, <1>9, <1>10 DEF Progress

LEMMA InitTypes == Init => TypeOK
<1> SUFFICES ASSUME Init PROVE TypeOK
  OBVIOUS
<1>1. [row |-> "absent", public |-> FALSE, active |-> FALSE, never |-> FALSE, expiry |-> Nil]
        \in ListRow
  BY DEF ListRow, RowStates
<1>2. [row |-> "absent", quantity |-> 1, priority |-> 0, active |-> FALSE, archived |-> FALSE]
        \in ItemRow
  BY GiftAssumption DEF ItemRow, RowStates, Quantities, Priorities
<1>3. [status |-> "absent", item |-> Nil, quantity |-> 0, thanked |-> FALSE] \in ReservationRow
  BY GiftAssumption DEF ReservationRow
<1> QED
  BY <1>1, <1>2, <1>3, GiftAssumption, IdleIsRequest DEF Init, TypeOK

LEMMA StepTypes == TypeOK /\ [Next]_vars => TypeOK'
<1> SUFFICES ASSUME TypeOK, [Next]_vars PROVE TypeOK'
  OBVIOUS
<1>1. CASE UNCHANGED vars
  BY <1>1 DEF TypeOK, vars, Requests
<1>2. ASSUME NEW u \in Users, NEW l \in Lists, NEW new \in NewLists, CreateList(u, l, new)
      PROVE  TypeOK'
  <2>1. new \in NewList
    BY GiftAssumption
  <2>2. lists' \in [Lists -> ListRow]
    BY <1>2, <2>1 DEF CreateList, TypeOK, NewList, ListRow, RowStates, Or
  <2> QED
    BY <1>2, <2>2 DEF CreateList, TypeOK, history
<1>3. ASSUME NEW h \in Handlers, Abort(h) \/ BreakDeadlock(h)
      PROVE  TypeOK'
  BY <1>3, RequestType, IdleIsRequest DEF Abort, BreakDeadlock, Finish, TypeOK, history
<1>4. CASE Tick
  BY <1>4, GiftAssumption DEF Tick, TypeOK, history
<1> QED
  BY <1>1, <1>2, <1>3, <1>4, StartsKeepTypes, ProgressKeepsTypes DEF Next

\* Rows and handlers' locals keep their shape.
THEOREM GiftTypes == Spec => []TypeOK
  BY InitTypes, StepTypes, PTL DEF Spec

-----------------------------------------------------------------------------
(* Booking.                                                                *)

\* While the reservations stay, so does every sum over them.
LEMMA FirmUnchanged ==
  ASSUME UNCHANGED <<reservations, reinstated>>
  PROVE  \A i : Firm(i)' = Firm(i)
  BY DEF Firm, UnitsOf

\* Saving a reservation never adds to the firm units: it keeps item and
\* quantity, and a reservation it confirms again counts as reinstated.
LEMMA SaveAddsNoUnits ==
  ASSUME BookingInv, TypeOK', NEW h \in Handlers, SaveReservation(h), NEW i
  PROVE  Firm(i)' <= Firm(i) /\ Firm(i) \in Nat /\ Firm(i)' \in Nat
<1> DEFINE r == request[h].reservation
           value == request[h].value
<1>1. /\ r \in Reservations
      /\ reservations' = [reservations EXCEPT ![r] = value]
      /\ reservations \in [Reservations -> ReservationRow]
      /\ value \in ReservationRow
  BY RequestFields DEF SaveReservation, BookingInv, TypeOK
<1>2. /\ reservations[r].status # "absent"
      /\ value.item = reservations[r].item /\ value.quantity = reservations[r].quantity
  BY DEF SaveReservation, BookingInv, SavesKeepUnits
<1>3. reservations[r].status = "canceled" /\ value.status = "confirmed" => r \in reinstated'
  BY DEF SaveReservation
<1>4. reinstated \subseteq reinstated'
  BY DEF SaveReservation
<1>5. UnitsOf(i, Reservations \ reinstated)' \in SUBSET UnitsOf(i, Reservations \ reinstated)
  <2> SUFFICES ASSUME NEW u \in (Reservations \ reinstated') \X Quantities,
                      reservations'[u[1]].status = "confirmed",
                      reservations'[u[1]].item = i,
                      u[2] <= reservations'[u[1]].quantity
               PROVE  /\ u \in (Reservations \ reinstated) \X Quantities
                      /\ reservations[u[1]].status = "confirmed"
                      /\ reservations[u[1]].item = i
                      /\ u[2] <= reservations[u[1]].quantity
    BY DEF UnitsOf
  <2>1. u \in (Reservations \ reinstated) \X Quantities
    BY <1>4
  <2>2. CASE u[1] # r
    BY <1>1, <2>1, <2>2
  <2>3. CASE u[1] = r
    <3>1. reservations'[r] = value
      BY <1>1
    <3>2. reservations[r].status = "confirmed"
      BY <1>1, <1>2, <1>3, <2>3, <3>1 DEF ReservationRow
    <3> QED
      BY <1>2, <2>1, <2>3, <3>1, <3>2
  <2> QED
    BY <2>2, <2>3
<1>6. /\ IsFiniteSet(UnitsOf(i, Reservations \ reinstated))
      /\ Firm(i) \in Nat
  BY UnitsFinite DEF Firm
<1>7. /\ Cardinality(UnitsOf(i, Reservations \ reinstated)') <= Firm(i)
      /\ IsFiniteSet(UnitsOf(i, Reservations \ reinstated)')
  BY <1>5, <1>6, FS_Subset DEF Firm
<1> QED
  BY <1>6, <1>7, FS_CardinalityType DEF Firm

\* An insert adds the units of its own reservation, to its own item only.
LEMMA InsertAddsItsUnits ==
  ASSUME BookingInv, NEW h \in Handlers, StoreReservation(h), NEW i
  PROVE  /\ Firm(i) \in Nat /\ Firm(i)' \in Nat
         /\ request[h].quantity \in Nat
         /\ i # request[h].item => Firm(i)' <= Firm(i)
         /\ Firm(i)' <= Firm(i) + request[h].quantity
<1> DEFINE r == request[h].reservation
           q == request[h].quantity
           old == UnitsOf(i, Reservations \ reinstated)
           new == UnitsOf(i, Reservations \ reinstated)'
           own == {r} \X (1..q)
<1>1. /\ r \in Reservations /\ q \in Quantities
      /\ reservations' = [reservations EXCEPT ![r] =
            [status |-> "confirmed", item |-> request[h].item, quantity |-> q, thanked |-> FALSE]]
      /\ reservations \in [Reservations -> ReservationRow]
      /\ reinstated' = reinstated
  BY RequestFields DEF StoreReservation, BookingInv, TypeOK, history
<1>2. IsFiniteSet(old) /\ Cardinality(old) \in Nat
  BY UnitsFinite
<1>3. IsFiniteSet(own) /\ Cardinality(own) = q /\ q \in Nat
  <2>1. IsFiniteSet(own) /\ Cardinality(own) = q
    BY <1>1, UnitsOfOne
  <2>2. q \in Nat
    BY <1>1, GiftAssumption DEF Quantities
  <2> QED
    BY <2>1, <2>2
<1>4. \A u \in new : u \in old \/ (u \in own /\ i = request[h].item)
  <2> SUFFICES ASSUME NEW u \in (Reservations \ reinstated) \X Quantities,
                      reservations'[u[1]].status = "confirmed",
                      reservations'[u[1]].item = i,
                      u[2] <= reservations'[u[1]].quantity
               PROVE  \/ /\ reservations[u[1]].status = "confirmed"
                         /\ reservations[u[1]].item = i
                         /\ u[2] <= reservations[u[1]].quantity
                      \/ u \in own /\ i = request[h].item
    BY <1>1 DEF UnitsOf
  <2>1. CASE u[1] # r
    BY <1>1, <2>1
  <2>2. CASE u[1] = r
    <3>1. i = request[h].item /\ u[2] <= q
      BY <1>1, <2>2
    <3>2. u[2] \in Nat /\ 1 <= u[2] /\ q \in Nat
      BY <1>3, GiftAssumption DEF Quantities
    <3>3. u[2] \in 1..q
      BY <3>1, <3>2
    <3>4. u = <<r, u[2]>>
      BY <2>2
    <3> QED
      BY <3>1, <3>3, <3>4
  <2> QED
    BY <2>1, <2>2
<1>5. /\ IsFiniteSet(old \cup own)
      /\ Cardinality(old \cup own) \in Nat
      /\ Cardinality(old \cup own) <= Cardinality(old) + q
  <2>1. /\ IsFiniteSet(old \cup own)
        /\ Cardinality(old \cup own) =
             Cardinality(old) + Cardinality(own) - Cardinality(old \cap own)
    BY <1>2, <1>3, FS_Union
  <2>2. Cardinality(old \cap own) \in Nat
    BY <1>2, FS_Intersection, FS_CardinalityType
  <2> HIDE DEF old, own, q
  <2> QED
    BY <1>2, <1>3, <2>1, <2>2, FS_CardinalityType
<1>6. /\ IsFiniteSet(new) /\ Cardinality(new) \in Nat
      /\ Cardinality(new) <= Cardinality(old \cup own)
  <2>1. new \in SUBSET (old \cup own)
    BY <1>4
  <2> QED
    BY <1>5, <2>1, FS_Subset, FS_CardinalityType
<1>7. i # request[h].item => Cardinality(new) <= Cardinality(old)
  <2>1. i # request[h].item => new \in SUBSET old
    BY <1>4
  <2> QED
    BY <1>2, <2>1, FS_Subset
<1>8. Firm(i) = Cardinality(old) /\ Firm(i)' = Cardinality(new)
  BY DEF Firm
<1> HIDE DEF old, new, own, q
<1> QED
  BY <1>2, <1>3, <1>5, <1>6, <1>7, <1>8 DEF q

\* A step of handler h grants no lock that another transaction holds, so no
\* two transactions come to hold the same row.
LEMMA LocksStayExclusive ==
  ASSUME BookingInv, NEW h \in Handlers,
         \A g \in Handlers \ {h} : request'[g] = request[g],
         \A i \in Items : Holds(h, i)' => Holds(h, i) \/ ~LockedByOther(h, i)
  PROVE  LockIsExclusive'
<1>1. \A g \in Handlers \ {h}, i \in Items : Holds(g, i)' <=> Holds(g, i)
  BY DEF Holds
<1>2. ASSUME NEW i \in Items, NEW g \in Handlers \ {h}, Holds(g, i)'
      PROVE  ~Holds(h, i)'
  BY <1>1, <1>2 DEF LockedByOther, BookingInv, LockIsExclusive
<1> QED
  BY <1>1, <1>2 DEF LockIsExclusive, BookingInv

\* A request that holds no row: one that has just started, or none.
LockFree(r) ==
  /\ r.op \notin {"locked", "counted"}
  /\ r.op = "reorder" => \A i \in Items : r.moved[i] = Nil

\* What a step that leaves h without locks does to locks and counts.
LEMMA LocksAfter ==
  ASSUME BookingInv, NEW h \in Handlers, NEW r, LockFree(r),
         request' = [request EXCEPT ![h] = r]
  PROVE  /\ \A g \in Handlers \ {h} : request'[g] = request[g]
         /\ request'[h] = r
         /\ \A g \in Handlers, i \in Items : Holds(g, i)' => g # h /\ Holds(g, i)
         /\ \A g \in Handlers : request'[g].op = "counted" => g # h /\ request'[g] = request[g]
         /\ LockIsExclusive'
<1>1. /\ \A g \in Handlers \ {h} : request'[g] = request[g]
      /\ request'[h] = r
  BY DEF BookingInv, TypeOK
<1>2. \A i \in Items : ~Holds(h, i)'
  BY <1>1 DEF Holds, LockFree
<1>3. \A g \in Handlers, i \in Items : Holds(g, i)' => g # h /\ Holds(g, i)
  BY <1>1, <1>2 DEF Holds
<1>4. \A g \in Handlers : request'[g].op = "counted" => g # h /\ request'[g] = request[g]
  BY <1>1 DEF LockFree
<1> QED
  BY <1>1, <1>2, <1>3, <1>4, LocksStayExclusive

\* The item of a request that has counted is one whose row it holds.
LEMMA CountedHolds ==
  ASSUME TypeOK, NEW h \in Handlers, request[h].op = "counted"
  PROVE  request[h].item \in Items /\ Holds(h, request[h].item)
  BY RequestFields DEF Holds

\* What a handler may store without disturbing SavesKeepUnits.
KeepsUnits(r) ==
  r.op = "save_reservation" =>
    /\ r.reservation \in Reservations
    /\ reservations[r.reservation].status # "absent" /\ r.value.status # "absent"
    /\ r.value.item = reservations[r.reservation].item
    /\ r.value.quantity = reservations[r.reservation].quantity

LEMMA IdleIsHarmless == LockFree(Idle) /\ KeepsUnits(Idle)
  BY DEF Idle, LockFree, KeepsUnits

\* A step that only changes what h holds in its locals, and takes no lock.
LEMMA RequestStep ==
  ASSUME BookingInv, TypeOK', NEW h \in Handlers, NEW r, LockFree(r), KeepsUnits(r),
         request' = [request EXCEPT ![h] = r],
         UNCHANGED <<items, reservations, offered, reinstated>>
  PROVE  BookingInv'
<1>1. SavesKeepUnits'
  BY LocksAfter DEF KeepsUnits, BookingInv, SavesKeepUnits
<1>2. OwnerStandsByQuantity'
  BY DEF BookingInv, OwnerStandsByQuantity
<1>3. LockIsExclusive'
  BY LocksAfter
<1>4. LockedRowsStayMatched'
  <2> SUFFICES ASSUME NEW g \in Handlers, NEW i \in Items, Holds(g, i)'
               PROVE  /\ items'[i].row = "live"
                      /\ request'[g].op \in {"locked", "counted"} => Bookable(i)'
    BY DEF LockedRowsStayMatched
  <2>1. Holds(g, i) /\ request'[g] = request[g]
    BY LocksAfter
  <2> QED
    BY <2>1 DEF BookingInv, LockedRowsStayMatched, Bookable
<1>5. CountedUnitsStayFree'
  <2> SUFFICES ASSUME NEW g \in Handlers, NEW i \in Items,
                      request'[g].op = "counted", request'[g].item = i
               PROVE  Firm(i)' + request'[g].quantity <= offered'[i]
    BY DEF CountedUnitsStayFree
  <2>1. request'[g] = request[g]
    BY LocksAfter
  <2> QED
    BY <2>1, FirmUnchanged DEF BookingInv, CountedUnitsStayFree
<1>6. GuestsNeverOverbook'
  BY FirmUnchanged DEF BookingInv, GuestsNeverOverbook
<1> QED
  BY <1>1, <1>2, <1>3, <1>4, <1>5, <1>6 DEF BookingInv

LEMMA StartsKeepBooking ==
  ASSUME BookingInv, TypeOK', NEW h \in Handlers,
         GuestStarts(h) \/ \E u \in Users : OwnerStarts(h, u)
  PROVE  BookingInv'
<1>1. ASSUME NEW r, LockFree(r), KeepsUnits(r), Start(h, r),
             UNCHANGED <<lists, items, reservations, now, history>>
      PROVE  BookingInv'
  BY <1>1, RequestStep DEF Start, history
<1>2. ASSUME NEW u \in Users, NEW l \in Lists, NEW order \in Orders,
             ReadListForReorder(h, u, l, order)
      PROVE  BookingInv'
  <2> DEFINE r == [op |-> "reorder", list |-> l, order |-> order, done |-> 0,
                   moved |-> [i \in Items |-> Nil]]
  <2>1. LockFree(r) /\ KeepsUnits(r)
    BY DEF LockFree, KeepsUnits
  <2> QED
    BY <1>1, <1>2, <2>1 DEF ReadListForReorder
<1>3. ASSUME NEW u \in Users, NEW r \in Reservations,
             ReadForThank(h, u, r) \/ ReadForCancel(h, u, r)
      PROVE  BookingInv'
  <2> DEFINE thanked == [op |-> "save_reservation", reservation |-> r,
                         value |-> [reservations[r] EXCEPT !.thanked = TRUE]]
             canceled == [op |-> "save_reservation", reservation |-> r,
                          value |-> [reservations[r] EXCEPT !.status = "canceled"]]
  <2>1. reservations[r] \in ReservationRow /\ reservations[r].status # "absent"
    BY <1>3 DEF ReadForThank, ReadForCancel, OwnerSees, BookingInv, TypeOK
  <2>2. LockFree(thanked) /\ KeepsUnits(thanked) /\ LockFree(canceled) /\ KeepsUnits(canceled)
    BY <2>1 DEF LockFree, KeepsUnits, ReservationRow
  <2> QED
    BY <1>1, <1>3, <2>2 DEF ReadForThank, ReadForCancel
<1>4. ASSUME NEW u \in Users, NEW l \in Lists,
             \/ ReadListForDelete(h, u, l)
             \/ \E upd \in ListUpdates : ReadListForUpdate(h, u, l, upd)
      PROVE  BookingInv'
  <2>1. \A v : /\ LockFree([op |-> "save_list", list |-> l, value |-> v])
               /\ KeepsUnits([op |-> "save_list", list |-> l, value |-> v])
    BY DEF LockFree, KeepsUnits
  <2>2. LockFree([op |-> "delete_list", list |-> l]) /\ KeepsUnits([op |-> "delete_list", list |-> l])
    BY DEF LockFree, KeepsUnits
  <2> QED
    BY <1>1, <1>4, <2>1, <2>2 DEF ReadListForDelete, ReadListForUpdate
<1>5. ASSUME NEW u \in Users, NEW i \in Items,
             \/ ReadItemForDelete(h, u, i)
             \/ \E new \in NewItems : ReadListForNewItem(h, u, i, new)
             \/ \E upd \in ItemUpdates : ReadItemForUpdate(h, u, i, upd)
      PROVE  BookingInv'
  <2>1. \A v, op : op \in {"store_item", "save_item"} =>
          /\ LockFree([op |-> op, item |-> i, value |-> v])
          /\ KeepsUnits([op |-> op, item |-> i, value |-> v])
    BY DEF LockFree, KeepsUnits
  <2>2. LockFree([op |-> "delete_item", item |-> i]) /\ KeepsUnits([op |-> "delete_item", item |-> i])
    BY DEF LockFree, KeepsUnits
  <2> QED
    BY <1>1, <1>5, <2>1, <2>2 DEF ReadItemForDelete, ReadListForNewItem, ReadItemForUpdate
<1>6. CASE GuestStarts(h)
  <2>1. \A r, i, q :
          /\ LockFree([op |-> "reserve", reservation |-> r, item |-> i, quantity |-> q])
          /\ KeepsUnits([op |-> "reserve", reservation |-> r, item |-> i, quantity |-> q])
    BY DEF LockFree, KeepsUnits
  <2> QED
    BY <1>1, <1>6, <2>1 DEF GuestStarts, CheckForReserve
<1> QED
  BY <1>2, <1>3, <1>4, <1>5, <1>6 DEF OwnerStarts

\* A write of an item row that no transaction holds, where the owner stands by
\* the new quantity and by what is firmly booked.
LEMMA ItemWrite ==
  ASSUME BookingInv, TypeOK', NEW h \in Handlers, NEW i \in Items, NEW row,
         \A g \in Handlers : ~Holds(g, i),
         items' = [items EXCEPT ![i] = row],
         row.quantity <= offered'[i], Firm(i) <= offered'[i],
         \A j \in Items \ {i} : offered'[j] = offered[j],
         request' = [request EXCEPT ![h] = Idle],
         UNCHANGED <<reservations, reinstated>>
  PROVE  BookingInv'
<1>1. /\ \A g \in Handlers, j \in Items :
           Holds(g, j)' => j # i /\ Holds(g, j) /\ request'[g] = request[g]
      /\ LockIsExclusive'
      /\ \A g \in Handlers : request'[g].op = "counted" => request'[g] = request[g]
  BY LocksAfter, IdleIsHarmless, ZenonT(60)
<1>2. items'[i] = row /\ \A j \in Items \ {i} : items'[j] = items[j]
  BY DEF BookingInv, TypeOK
<1>3. SavesKeepUnits'
  BY DEF BookingInv, SavesKeepUnits, TypeOK, Idle
<1>4. OwnerStandsByQuantity'
  BY <1>2 DEF BookingInv, OwnerStandsByQuantity
<1>5. LockedRowsStayMatched'
  <2> SUFFICES ASSUME NEW g \in Handlers, NEW j \in Items, Holds(g, j)'
               PROVE  /\ items'[j].row = "live"
                      /\ request'[g].op \in {"locked", "counted"} => Bookable(j)'
    BY DEF LockedRowsStayMatched
  <2>1. Holds(g, j) /\ request'[g] = request[g] /\ items'[j] = items[j]
    BY <1>1, <1>2
  <2> QED
    BY <2>1 DEF BookingInv, LockedRowsStayMatched, Bookable
<1>6. CountedUnitsStayFree'
  <2> SUFFICES ASSUME NEW g \in Handlers, NEW j \in Items,
                      request'[g].op = "counted", request'[g].item = j
               PROVE  Firm(j)' + request'[g].quantity <= offered'[j]
    BY DEF CountedUnitsStayFree
  <2>1. request'[g] = request[g]
    BY <1>1
  <2>2. j # i
    BY <2>1, CountedHolds DEF BookingInv
  <2> QED
    BY <2>1, <2>2, FirmUnchanged DEF BookingInv, CountedUnitsStayFree
<1>7. GuestsNeverOverbook'
  BY FirmUnchanged DEF BookingInv, GuestsNeverOverbook
<1> QED
  BY <1>1, <1>3, <1>4, <1>5, <1>6, <1>7 DEF BookingInv

\* A row that is not there, or that a statement may write, is locked by nobody.
LEMMA UnheldRows ==
  ASSUME BookingInv, NEW h \in Handlers, NEW i \in Items,
         \/ items[i].row # "live"
         \/ request[h].op \in {"save_item", "delete_item"} /\ ~LockedByOther(h, i)
  PROVE  \A g \in Handlers : ~Holds(g, i)
  BY DEF BookingInv, LockedRowsStayMatched, Holds, LockedByOther

LEMMA ItemWritesKeepBooking ==
  ASSUME BookingInv, TypeOK', NEW h \in Handlers,
         StoreItem(h) \/ SaveItem(h) \/ DeleteItem(h)
  PROVE  BookingInv'
<1> DEFINE i == request[h].item
<1>1. i \in Items /\ items \in [Items -> ItemRow] /\ offered \in [Items -> Nat]
  BY RequestFields DEF StoreItem, SaveItem, DeleteItem, BookingInv, TypeOK
<1>2. \A g \in Handlers : ~Holds(g, i)
  BY <1>1, UnheldRows DEF StoreItem, SaveItem, DeleteItem
<1>3. CASE StoreItem(h) \/ SaveItem(h)
  <2> DEFINE row == request[h].value
  <2>1. row.quantity \in Nat /\ Firm(i) \in Nat
    <3>1. row \in ItemRow
      BY <1>3, RequestFields DEF StoreItem, SaveItem, BookingInv
    <3>2. row.quantity \in Nat
      BY <3>1, GiftAssumption DEF ItemRow, Quantities
    <3> QED
      BY <3>2, FirmAtMostBooked
  <2>2. offered' = [offered EXCEPT ![i] = Larger(row.quantity, Firm(i))]
    BY <1>3 DEF StoreItem, SaveItem
  <2>3. /\ row.quantity <= offered'[i] /\ Firm(i) <= offered'[i]
        /\ \A j \in Items \ {i} : offered'[j] = offered[j]
    BY <1>1, <2>1, <2>2 DEF Larger
  <2>4. /\ items' = [items EXCEPT ![i] = row]
        /\ request' = [request EXCEPT ![h] = Idle]
        /\ UNCHANGED <<reservations, reinstated>>
    BY <1>3 DEF StoreItem, SaveItem, Finish
  <2> HIDE DEF i, row
  <2> QED
    BY <1>1, <1>2, <2>3, <2>4, ItemWrite
<1>4. CASE DeleteItem(h)
  <2> DEFINE row == [items[i] EXCEPT !.row = IF @ = "live" THEN "deleted" ELSE @]
  <2>1. row.quantity = items[i].quantity
    BY <1>1 DEF ItemRow
  <2>2. /\ items' = [items EXCEPT ![i] = row]
        /\ request' = [request EXCEPT ![h] = Idle]
        /\ UNCHANGED <<reservations, reinstated, offered>>
    BY <1>1, <1>4 DEF DeleteItem, Finish, history
  <2>3. row.quantity <= offered[i] /\ Firm(i) <= offered[i]
    BY <1>1, <2>1 DEF BookingInv, OwnerStandsByQuantity, GuestsNeverOverbook
  <2> HIDE DEF i, row
  <2> QED
    BY <1>1, <1>2, <2>2, <2>3, ItemWrite
<1> QED
  BY <1>3, <1>4

\* The transaction of ReorderItems takes a lock, or writes priorities only.
LEMMA ReorderKeepsBooking ==
  ASSUME BookingInv, TypeOK', NEW h \in Handlers, ReorderRow(h) \/ CommitReorder(h)
  PROVE  BookingInv'
<1> DEFINE r == request[h]
<1>1. ASSUME request' = [request EXCEPT ![h] = Idle],
             UNCHANGED <<items, reservations, offered, reinstated>>
      PROVE  BookingInv'
  BY <1>1, RequestStep, IdleIsHarmless
<1>2. CASE CommitReorder(h)
  <2>1. /\ \A g \in Handlers, i \in Items : Holds(g, i)' => Holds(g, i) /\ request'[g] = request[g]
        /\ LockIsExclusive'
        /\ \A g \in Handlers : request'[g].op = "counted" => request'[g] = request[g]
    BY <1>2, LocksAfter, IdleIsHarmless DEF CommitReorder, Finish
  <2>2. \A i \in Items : /\ items'[i].row = items[i].row
                         /\ items'[i].quantity = items[i].quantity
                         /\ items'[i].active = items[i].active
                         /\ items'[i].archived = items[i].archived
    <3> SUFFICES ASSUME NEW i \in Items, NEW p
                 PROVE  LET new == [items[i] EXCEPT !.priority = p]
                        IN  /\ new.row = items[i].row /\ new.quantity = items[i].quantity
                            /\ new.active = items[i].active /\ new.archived = items[i].archived
      BY <1>2 DEF CommitReorder
    <3>1. items[i] \in ItemRow
      BY DEF BookingInv, TypeOK
    <3> QED
      BY <3>1 DEF ItemRow
  <2>3. SavesKeepUnits'
    BY <1>2 DEF CommitReorder, Finish, BookingInv, SavesKeepUnits, TypeOK, Idle
  <2>4. OwnerStandsByQuantity'
    BY <1>2, <2>2 DEF CommitReorder, history, BookingInv, OwnerStandsByQuantity
  <2>5. LockedRowsStayMatched'
    <3> SUFFICES ASSUME NEW g \in Handlers, NEW i \in Items, Holds(g, i)'
                 PROVE  /\ items'[i].row = "live"
                        /\ request'[g].op \in {"locked", "counted"} => Bookable(i)'
      BY DEF LockedRowsStayMatched
    <3> QED
      BY <2>1, <2>2 DEF BookingInv, LockedRowsStayMatched, Bookable
  <2>6. CountedUnitsStayFree'
    <3> SUFFICES ASSUME NEW g \in Handlers, NEW i \in Items,
                        request'[g].op = "counted", request'[g].item = i
                 PROVE  Firm(i)' + request'[g].quantity <= offered'[i]
      BY DEF CountedUnitsStayFree
    <3> QED
      BY <1>2, <2>1, FirmUnchanged DEF CommitReorder, history, BookingInv, CountedUnitsStayFree
  <2>7. GuestsNeverOverbook'
    BY <1>2, FirmUnchanged DEF CommitReorder, history, BookingInv, GuestsNeverOverbook
  <2> QED
    BY <2>1, <2>3, <2>4, <2>5, <2>6, <2>7 DEF BookingInv
<1>3. CASE ReorderRow(h)
  <2> DEFINE entry == r.order[r.done + 1]
             next == Moved(r, entry)
  <2>1. /\ UNCHANGED <<items, reservations, offered, reinstated>>
        /\ r.op = "reorder" /\ ~LockedByOther(h, entry.item)
    BY <1>3 DEF ReorderRow, history
  <2>2. CASE request' = [request EXCEPT ![h] = Idle]
    BY <1>1, <2>1, <2>2
  <2>3. CASE request' = [request EXCEPT ![h] = next] /\ items[entry.item].row = "live"
    <3>1. /\ r \in [op: {"reorder"}, list: Lists, order: Orders, done: Nat,
                    moved: [Items -> Priorities \cup {Nil}]]
      BY <2>1, RequestFields DEF BookingInv
    <3>2. /\ next.op = "reorder"
          /\ \A i \in Items : next.moved[i] # Nil => r.moved[i] # Nil \/ i = entry.item
      BY <3>1 DEF Moved
    <3>3. /\ request'[h] = next
          /\ \A g \in Handlers \ {h} : request'[g] = request[g]
      BY <2>3 DEF BookingInv, TypeOK
    <3>4. /\ \A i \in Items : Holds(h, i)' => Holds(h, i) \/ i = entry.item
          /\ \A g \in Handlers \ {h}, i \in Items : Holds(g, i)' => Holds(g, i)
      BY <2>1, <3>2, <3>3 DEF Holds
    <3>5. LockIsExclusive'
      BY <2>1, <3>3, <3>4, LocksStayExclusive
    <3>6. LockedRowsStayMatched'
      <4> SUFFICES ASSUME NEW g \in Handlers, NEW i \in Items, Holds(g, i)'
                   PROVE  /\ items'[i].row = "live"
                          /\ request'[g].op \in {"locked", "counted"} => Bookable(i)'
        BY DEF LockedRowsStayMatched
      <4> QED
        BY <2>1, <2>3, <3>2, <3>3, <3>4 DEF BookingInv, LockedRowsStayMatched, Bookable
    <3>7. SavesKeepUnits'
      BY <2>1, <3>2, <3>3 DEF BookingInv, SavesKeepUnits
    <3>8. OwnerStandsByQuantity'
      BY <2>1 DEF BookingInv, OwnerStandsByQuantity
    <3>9. CountedUnitsStayFree'
      <4> SUFFICES ASSUME NEW g \in Handlers, NEW i \in Items,
                          request'[g].op = "counted", request'[g].item = i
                   PROVE  Firm(i)' + request'[g].quantity <= offered'[i]
        BY DEF CountedUnitsStayFree
      <4> QED
        BY <2>1, <3>2, <3>3, FirmUnchanged DEF BookingInv, CountedUnitsStayFree
    <3>10. GuestsNeverOverbook'
      BY <2>1, FirmUnchanged DEF BookingInv, GuestsNeverOverbook
    <3> QED
      BY <3>5, <3>6, <3>7, <3>8, <3>9, <3>10 DEF BookingInv
  <2> QED
    BY <1>3, <2>2, <2>3 DEF ReorderRow, Continue, Finish
<1> QED
  BY <1>2, <1>3

\* The transaction of CreateReservationWithAvailability: it takes the item's
\* row, counts, and inserts what it counted room for.
LEMMA ReserveKeepsBooking ==
  ASSUME BookingInv, TypeOK', NEW h \in Handlers,
         LockItem(h) \/ CountReserved(h) \/ StoreReservation(h)
  PROVE  BookingInv'
<1> DEFINE r == request[h]
<1>1. /\ r.reservation \in Reservations /\ r.item \in Items /\ r.quantity \in Nat
      /\ r = [op |-> r.op, reservation |-> r.reservation, item |-> r.item, quantity |-> r.quantity]
      /\ UNCHANGED <<items, offered, reinstated>>
  <2>1. r.op \in {"reserve", "locked", "counted"}
    BY DEF LockItem, CountReserved, StoreReservation
  <2>2. r.quantity \in Quantities
    BY <2>1, RequestFields DEF BookingInv
  <2> QED
    BY <2>1, <2>2, RequestFields, GiftAssumption
    DEF BookingInv, LockItem, CountReserved, StoreReservation, history, Quantities
<1>2. CASE request' = [request EXCEPT ![h] = Idle] /\ UNCHANGED reservations
  BY <1>1, <1>2, RequestStep, IdleIsHarmless
<1>3. ASSUME NEW op \in {"locked", "counted"},
             request' = [request EXCEPT ![h] = [r EXCEPT !.op = op]], UNCHANGED reservations,
             Holds(h, r.item) \/ (~LockedByOther(h, r.item) /\ Bookable(r.item)),
             r.op \in {"reserve", "locked"},
             op = "counted" => Firm(r.item) + r.quantity <= offered[r.item]
      PROVE  BookingInv'
  <2>1. /\ request'[h] = [op |-> op, reservation |-> r.reservation,
                          item |-> r.item, quantity |-> r.quantity]
        /\ \A g \in Handlers \ {h} : request'[g] = request[g]
    BY <1>1, <1>3 DEF BookingInv, TypeOK
  <2>2. /\ \A i \in Items : Holds(h, i)' => i = r.item
        /\ \A g \in Handlers \ {h}, i \in Items : Holds(g, i)' => Holds(g, i)
    BY <2>1 DEF Holds
  <2>3. LockIsExclusive'
    BY <1>3, <2>1, <2>2, LocksStayExclusive
  <2>4. LockedRowsStayMatched'
    <3> SUFFICES ASSUME NEW g \in Handlers, NEW i \in Items, Holds(g, i)'
                 PROVE  /\ items'[i].row = "live"
                        /\ request'[g].op \in {"locked", "counted"} => Bookable(i)'
      BY DEF LockedRowsStayMatched
    <3>1. CASE g = h
      <4>1. Bookable(r.item)
        BY <1>1, <1>3 DEF BookingInv, LockedRowsStayMatched, Holds
      <4> QED
        BY <1>1, <2>2, <3>1, <4>1 DEF Bookable
    <3>2. CASE g # h
      BY <1>1, <2>1, <2>2, <3>2 DEF BookingInv, LockedRowsStayMatched, Bookable
    <3> QED
      BY <3>1, <3>2
  <2>5. SavesKeepUnits'
    BY <1>3, <2>1 DEF BookingInv, SavesKeepUnits
  <2>6. OwnerStandsByQuantity'
    BY <1>1 DEF BookingInv, OwnerStandsByQuantity
  <2>7. CountedUnitsStayFree'
    <3> SUFFICES ASSUME NEW g \in Handlers, NEW i \in Items,
                        request'[g].op = "counted", request'[g].item = i
                 PROVE  Firm(i)' + request'[g].quantity <= offered'[i]
      BY DEF CountedUnitsStayFree
    <3> QED
      BY <1>1, <1>3, <2>1, FirmUnchanged DEF BookingInv, CountedUnitsStayFree
  <2>8. GuestsNeverOverbook'
    BY <1>1, <1>3, FirmUnchanged DEF BookingInv, GuestsNeverOverbook
  <2> QED
    BY <2>3, <2>4, <2>5, <2>6, <2>7, <2>8 DEF BookingInv
<1>4. CASE LockItem(h)
  BY <1>2, <1>3, <1>4 DEF LockItem, Continue, Finish
<1>5. CASE CountReserved(h)
  <2>1. Holds(h, r.item)
    BY <1>5 DEF CountReserved, Holds
  <2>2. ~(items[r.item].quantity < Booked(r.item) + r.quantity)
          => Firm(r.item) + r.quantity <= offered[r.item]
    <3>1. /\ Firm(r.item) \in Nat /\ Booked(r.item) \in Nat /\ Firm(r.item) <= Booked(r.item)
          /\ items[r.item].quantity <= offered[r.item]
          /\ items[r.item].quantity \in Nat /\ offered[r.item] \in Nat
      BY <1>1, FirmAtMostBooked, GiftAssumption
      DEF BookingInv, OwnerStandsByQuantity, TypeOK, ItemRow, Quantities
    <3> QED
      BY <1>1, <3>1
  <2> QED
    BY <1>2, <1>3, <1>5, <2>1, <2>2 DEF CountReserved, Continue, Finish
<1>6. CASE StoreReservation(h)
  <2>1. /\ request' = [request EXCEPT ![h] = Idle]
        /\ r.op = "counted" /\ reservations[r.reservation].status = "absent"
        /\ \A s \in Reservations \ {r.reservation} : reservations'[s] = reservations[s]
    BY <1>6 DEF StoreReservation, Finish, BookingInv, TypeOK
  <2>2. /\ \A g \in Handlers, i \in Items :
             Holds(g, i)' => g # h /\ Holds(g, i) /\ request'[g] = request[g]
        /\ LockIsExclusive'
        /\ \A g \in Handlers : request'[g].op = "counted" => g # h /\ request'[g] = request[g]
    BY <2>1, LocksAfter, IdleIsHarmless
  <2>3. SavesKeepUnits'
    BY <2>1, RequestFields DEF BookingInv, SavesKeepUnits, TypeOK, Idle
  <2>4. OwnerStandsByQuantity'
    BY <1>1 DEF BookingInv, OwnerStandsByQuantity
  <2>5. LockedRowsStayMatched'
    <3> SUFFICES ASSUME NEW g \in Handlers, NEW i \in Items, Holds(g, i)'
                 PROVE  /\ items'[i].row = "live"
                        /\ request'[g].op \in {"locked", "counted"} => Bookable(i)'
      BY DEF LockedRowsStayMatched
    <3> QED
      BY <1>1, <2>2 DEF BookingInv, LockedRowsStayMatched, Bookable
  <2>6. CountedUnitsStayFree'
    <3> SUFFICES ASSUME NEW g \in Handlers, NEW i \in Items,
                        request'[g].op = "counted", request'[g].item = i
                 PROVE  Firm(i)' + request'[g].quantity <= offered'[i]
      BY DEF CountedUnitsStayFree
    <3>1. g # h /\ request'[g] = request[g]
      BY <2>2
    <3>2. i # r.item
      BY <1>1, <2>1, <3>1, CountedHolds DEF BookingInv, LockIsExclusive
    <3>3. request[g].quantity \in Nat
      <4>1. request[g].quantity \in Quantities
        BY <3>1, RequestFields DEF BookingInv
      <4> QED
        BY <4>1, GiftAssumption DEF Quantities
    <3>4. Firm(i)' <= Firm(i) /\ Firm(i) \in Nat /\ Firm(i)' \in Nat
      BY <1>6, <3>2, InsertAddsItsUnits
    <3>5. Firm(i) + request[g].quantity <= offered[i] /\ offered[i] \in Nat
      BY <3>1 DEF BookingInv, CountedUnitsStayFree, TypeOK
    <3> QED
      BY <1>1, <3>1, <3>3, <3>4, <3>5
  <2>7. GuestsNeverOverbook'
    <3> SUFFICES ASSUME NEW i \in Items PROVE Firm(i)' <= offered'[i]
      BY DEF GuestsNeverOverbook
    <3>1. /\ Firm(i) \in Nat /\ Firm(i)' \in Nat /\ offered[i] \in Nat
          /\ i # r.item => Firm(i)' <= Firm(i)
          /\ Firm(i)' <= Firm(i) + r.quantity
      BY <1>6, InsertAddsItsUnits DEF BookingInv, TypeOK
    <3>2. CASE i = r.item
      <4>1. Firm(i) + r.quantity <= offered[i]
        BY <2>1, <3>2 DEF BookingInv, CountedUnitsStayFree
      <4> QED
        BY <1>1, <3>1, <4>1
    <3>3. CASE i # r.item
      BY <1>1, <3>1, <3>3 DEF BookingInv, GuestsNeverOverbook
    <3> QED
      BY <3>2, <3>3
  <2> QED
    BY <2>2, <2>3, <2>4, <2>5, <2>6, <2>7 DEF BookingInv
<1> QED
  BY <1>4, <1>5, <1>6

\* The Save of a reservation neither adds units nor changes what other Saves keep.
LEMMA SaveKeepsBooking ==
  ASSUME BookingInv, TypeOK', NEW h \in Handlers, SaveReservation(h)
  PROVE  BookingInv'
<1> DEFINE r == request[h].reservation
           value == request[h].value
<1>1. /\ r \in Reservations
      /\ reservations' = [reservations EXCEPT ![r] = value]
      /\ request' = [request EXCEPT ![h] = Idle]
      /\ UNCHANGED <<items, offered>>
  BY RequestFields DEF SaveReservation, Finish, BookingInv
<1>2. /\ \A g \in Handlers, i \in Items :
           Holds(g, i)' => Holds(g, i) /\ request'[g] = request[g]
      /\ LockIsExclusive'
      /\ \A g \in Handlers : request'[g].op = "counted" => request'[g] = request[g]
  BY <1>1, LocksAfter, IdleIsHarmless
<1>3. SavesKeepUnits'
  <2>1. reservations'[r] = value /\ \A s \in Reservations \ {r} : reservations'[s] = reservations[s]
    BY <1>1 DEF BookingInv, TypeOK
  <2>2. /\ value.status # "absent" /\ value.item = reservations[r].item
        /\ value.quantity = reservations[r].quantity
    BY DEF BookingInv, SavesKeepUnits, SaveReservation
  <2> QED
    BY <1>1, <2>1, <2>2, RequestFields DEF BookingInv, SavesKeepUnits, TypeOK, Idle
<1>4. OwnerStandsByQuantity'
  BY <1>1 DEF BookingInv, OwnerStandsByQuantity
<1>5. LockedRowsStayMatched'
  <2> SUFFICES ASSUME NEW g \in Handlers, NEW i \in Items, Holds(g, i)'
               PROVE  /\ items'[i].row = "live"
                      /\ request'[g].op \in {"locked", "counted"} => Bookable(i)'
    BY DEF LockedRowsStayMatched
  <2> QED
    BY <1>1, <1>2 DEF BookingInv, LockedRowsStayMatched, Bookable
<1>6. CountedUnitsStayFree'
  <2> SUFFICES ASSUME NEW g \in Handlers, NEW i \in Items,
                      request'[g].op = "counted", request'[g].item = i
               PROVE  Firm(i)' + request'[g].quantity <= offered'[i]
    BY DEF CountedUnitsStayFree
  <2>1. request'[g] = request[g]
    BY <1>2
  <2>2. request[g].quantity \in Nat
    <3>1. request[g].quantity \in Quantities
      BY <2>1, RequestFields DEF BookingInv
    <3> QED
      BY <3>1, GiftAssumption DEF Quantities
  <2>3. Firm(i) + request[g].quantity <= offered[i] /\ offered[i] \in Nat
    BY <2>1 DEF BookingInv, CountedUnitsStayFree, TypeOK
  <2> QED
    BY <1>1, <2>1, <2>2, <2>3, SaveAddsNoUnits
<1>7. GuestsNeverOverbook'
  <2> SUFFICES ASSUME NEW i \in Items PROVE Firm(i)' <= offered'[i]
    BY DEF GuestsNeverOverbook
  <2>1. Firm(i) <= offered[i] /\ offered[i] \in Nat
    BY DEF BookingInv, GuestsNeverOverbook, TypeOK
  <2> QED
    BY <1>1, <2>1, SaveAddsNoUnits
<1> QED
  BY <1>2, <1>3, <1>4, <1>5, <1>6, <1>7 DEF BookingInv

\* Creating a list, the clock and a stuttering step leave all of it alone.
LEMMA RestKeepsBooking ==
  ASSUME BookingInv, TypeOK', UNCHANGED <<items, reservations, request, offered, reinstated>>
  PROVE  BookingInv'
<1>1. SavesKeepUnits' /\ OwnerStandsByQuantity' /\ LockIsExclusive' /\ LockedRowsStayMatched'
  BY DEF BookingInv, SavesKeepUnits, OwnerStandsByQuantity, LockIsExclusive,
         LockedRowsStayMatched, Holds, Bookable
<1>2. CountedUnitsStayFree' /\ GuestsNeverOverbook'
  BY FirmUnchanged DEF BookingInv, CountedUnitsStayFree, GuestsNeverOverbook
<1> QED
  BY <1>1, <1>2 DEF BookingInv

LEMMA InitBooking == Init => BookingInv
<1> SUFFICES ASSUME Init PROVE BookingInv
  OBVIOUS
<1>1. TypeOK
  BY InitTypes
<1>2. SavesKeepUnits /\ LockIsExclusive /\ LockedRowsStayMatched /\ CountedUnitsStayFree
  BY DEF Init, Idle, SavesKeepUnits, LockIsExclusive, LockedRowsStayMatched,
         CountedUnitsStayFree, Holds
<1>3. OwnerStandsByQuantity
  BY DEF Init, OwnerStandsByQuantity
<1>4. GuestsNeverOverbook
  <2>1. \A i \in Items : UnitsOf(i, Reservations \ reinstated) = {}
    BY DEF Init, UnitsOf
  <2>2. \A i \in Items : Firm(i) = 0
    BY <2>1, FS_EmptySet DEF Firm
  <2> QED
    BY <2>2 DEF Init, GuestsNeverOverbook
<1> QED
  BY <1>1, <1>2, <1>3, <1>4 DEF BookingInv

LEMMA StepBooking == BookingInv /\ [Next]_vars => BookingInv'
<1> SUFFICES ASSUME BookingInv, [Next]_vars PROVE BookingInv'
  OBVIOUS
<1>1. TypeOK /\ TypeOK'
  BY StepTypes DEF BookingInv
<1>2. CASE UNCHANGED vars
  BY <1>1, <1>2, RestKeepsBooking DEF vars
<1>3. CASE Tick \/ \E u \in Users, l \in Lists, new \in NewLists : CreateList(u, l, new)
  BY <1>1, <1>3, RestKeepsBooking DEF Tick, CreateList, history
<1>4. ASSUME NEW h \in Handlers,
             Abort(h) \/ BreakDeadlock(h) \/ SaveList(h) \/ DeleteList(h)
      PROVE  BookingInv'
  BY <1>1, <1>4, RequestStep, IdleIsHarmless
  DEF Abort, BreakDeadlock, SaveList, DeleteList, Finish, history
<1>5. ASSUME NEW h \in Handlers, Progress(h)
      PROVE  BookingInv'
  BY <1>1, <1>4, <1>5, ItemWritesKeepBooking, ReorderKeepsBooking, SaveKeepsBooking,
     ReserveKeepsBooking DEF Progress
<1>6. ASSUME NEW h \in Handlers, GuestStarts(h) \/ \E u \in Users : OwnerStarts(h, u)
      PROVE  BookingInv'
  BY <1>1, <1>6, StartsKeepBooking
<1> QED
  BY <1>2, <1>3, <1>4, <1>5, <1>6 DEF Next

\* The inductive invariant: what the row lock protects, and what the sums are.
THEOREM BookingHolds == Spec => []BookingInv
  BY InitBooking, StepBooking, PTL DEF Spec

\* CreateReservationWithAvailability never lets guests take more of an item
\* than its owner stands by, for any number of requests, items and owners; a
\* reservation that a stale Save confirmed again is not counted.
THEOREM NeverOverbooked == Spec => []GuestsNeverOverbook
  BY BookingHolds, PTL DEF BookingInv

\* What a transaction has counted free is still free when it inserts.
THEOREM CountStaysGood == Spec => []CountedUnitsStayFree
  BY BookingHolds, PTL DEF BookingInv

\* The row locks of the two kinds of transaction exclude each other, and keep
\* what was matched under them as it was.
THEOREM LocksProtect == Spec => [](LockIsExclusive /\ LockedRowsStayMatched)
  BY BookingHolds, PTL DEF BookingInv

-----------------------------------------------------------------------------
(* What a step may never do to a reservation.                              *)

\* Only an insert makes a reservation appear, and it still holds the item's
\* row as its locking SELECT matched it.
LEMMA InsertsAreBookable ==
  ASSUME BookingInv, [Next]_vars, NEW r \in Reservations,
         reservations[r].status = "absent", reservations'[r].status # "absent"
  PROVE  Bookable(reservations'[r].item)
<1>1. PICK h \in Handlers : StoreReservation(h) \/ SaveReservation(h)
  BY ZenonT(60)
     DEF Next, vars, Progress, CreateList, OwnerStarts, GuestStarts, Tick, Abort, BreakDeadlock,
         ReadListForDelete, ReadListForUpdate, ReadListForReorder, ReadItemForDelete,
         ReadListForNewItem, ReadItemForUpdate, ReadForThank, ReadForCancel, CheckForReserve,
         SaveList, DeleteList, StoreItem, SaveItem, DeleteItem, ReorderRow, CommitReorder,
         LockItem, CountReserved
<1>2. CASE SaveReservation(h)
  <2>1. /\ reservations' = [reservations EXCEPT ![request[h].reservation] = request[h].value]
        /\ reservations[request[h].reservation].status # "absent"
    BY <1>2 DEF SaveReservation, BookingInv, SavesKeepUnits
  <2> QED
    BY <2>1 DEF BookingInv, TypeOK
<1>3. CASE StoreReservation(h)
  <2>1. request[h].item \in Items /\ Holds(h, request[h].item)
    BY <1>3, CountedHolds DEF StoreReservation, BookingInv
  <2>2. Bookable(request[h].item)
    BY <1>3, <2>1 DEF StoreReservation, BookingInv, LockedRowsStayMatched
  <2>3. reservations'[r].item = request[h].item
    BY <1>3, RequestFields DEF StoreReservation, BookingInv, TypeOK
  <2> QED
    BY <2>2, <2>3
<1> QED
  BY <1>1, <1>2, <1>3

\* A guest's reservation is inserted only on an item that is live, active and
\* not archived at that moment, however long ago the guest's checks were made.
THEOREM BookedWhileBookable == Spec => GuestsBookOnlyBookableItems
<1>1. BookingInv /\ [Next]_vars =>
        [\A r \in Reservations :
           reservations[r].status = "absent" /\ reservations'[r].status # "absent"
             => Bookable(reservations'[r].item)]_vars
  BY InsertsAreBookable
<1> QED
  BY <1>1, BookingHolds, PTL DEF Spec, GuestsBookOnlyBookableItems

\* Locals that would not confirm reservation r when they are saved.
Quiet(x, r) ==
  ~(x.op = "save_reservation" /\ x.reservation = r /\ x.value.status = "confirmed")

\* A step that stores quiet locals keeps a settled cancellation settled.
LEMMA QuietStep ==
  ASSUME TypeOK, NEW r \in Reservations, SettledCanceled(r), NEW h \in Handlers, NEW x,
         Quiet(x, r), request' = [request EXCEPT ![h] = x], reservations'[r] = reservations[r]
  PROVE  SettledCanceled(r)'
  BY DEF TypeOK, SettledCanceled, StaleConfirm, Quiet

LEMMA IdleIsQuiet == \A r : Quiet(Idle, r)
  BY DEF Quiet, Idle

\* The first calls read the canceled row, and would save it canceled.
LEMMA StartsAreQuiet ==
  ASSUME TypeOK, NEW r \in Reservations, SettledCanceled(r), NEW h \in Handlers,
         GuestStarts(h) \/ \E u \in Users : OwnerStarts(h, u)
  PROVE  SettledCanceled(r)'
<1>1. ASSUME NEW x, Quiet(x, r), Start(h, x), UNCHANGED reservations
      PROVE  SettledCanceled(r)'
  BY <1>1, QuietStep DEF Start
<1>2. ASSUME NEW u \in Users, NEW s \in Reservations, ReadForThank(h, u, s) \/ ReadForCancel(h, u, s)
      PROVE  SettledCanceled(r)'
  <2> DEFINE thanked == [op |-> "save_reservation", reservation |-> s,
                         value |-> [reservations[s] EXCEPT !.thanked = TRUE]]
             canceled == [op |-> "save_reservation", reservation |-> s,
                          value |-> [reservations[s] EXCEPT !.status = "canceled"]]
  <2>1. reservations[s] \in ReservationRow
    BY DEF TypeOK
  <2>2. Quiet(thanked, r) /\ Quiet(canceled, r)
    BY <2>1 DEF Quiet, ReservationRow, SettledCanceled
  <2> QED
    BY <1>1, <1>2, <2>2 DEF ReadForThank, ReadForCancel
<1>3. ASSUME NEW u \in Users, NEW l \in Lists,
             \/ ReadListForDelete(h, u, l)
             \/ \E upd \in ListUpdates : ReadListForUpdate(h, u, l, upd)
             \/ \E order \in Orders : ReadListForReorder(h, u, l, order)
      PROVE  SettledCanceled(r)'
  <2>1. \A v : Quiet([op |-> "save_list", list |-> l, value |-> v], r)
    BY DEF Quiet
  <2>2. Quiet([op |-> "delete_list", list |-> l], r)
    BY DEF Quiet
  <2>3. \A order, moved : Quiet([op |-> "reorder", list |-> l, order |-> order,
                                 done |-> 0, moved |-> moved], r)
    BY DEF Quiet
  <2> QED
    BY <1>1, <1>3, <2>1, <2>2, <2>3 DEF ReadListForDelete, ReadListForUpdate, ReadListForReorder
<1>4. ASSUME NEW u \in Users, NEW i \in Items,
             \/ ReadItemForDelete(h, u, i)
             \/ \E new \in NewItems : ReadListForNewItem(h, u, i, new)
             \/ \E upd \in ItemUpdates : ReadItemForUpdate(h, u, i, upd)
      PROVE  SettledCanceled(r)'
  <2>1. \A v, op : op \in {"store_item", "save_item"} =>
                     Quiet([op |-> op, item |-> i, value |-> v], r)
    BY DEF Quiet
  <2>2. Quiet([op |-> "delete_item", item |-> i], r)
    BY DEF Quiet
  <2> QED
    BY <1>1, <1>4, <2>1, <2>2 DEF ReadItemForDelete, ReadListForNewItem, ReadItemForUpdate
<1>5. CASE GuestStarts(h)
  <2>1. \A s, i, q : Quiet([op |-> "reserve", reservation |-> s, item |-> i, quantity |-> q], r)
    BY DEF Quiet
  <2> QED
    BY <1>1, <1>5, <2>1 DEF GuestStarts, CheckForReserve
<1> QED
  BY <1>2, <1>3, <1>4, <1>5 DEF OwnerStarts

\* No later call confirms it: what is still to be saved is not confirmed, and
\* an insert writes a reservation that was absent.
LEMMA ProgressIsQuiet ==
  ASSUME BookingInv, NEW r \in Reservations, SettledCanceled(r), NEW h \in Handlers, Progress(h)
  PROVE  SettledCanceled(r)'
<1>1. TypeOK
  BY DEF BookingInv
<1>2. ASSUME request' = [request EXCEPT ![h] = Idle], reservations'[r] = reservations[r]
      PROVE  SettledCanceled(r)'
  BY <1>1, <1>2, QuietStep, IdleIsQuiet
<1>3. CASE SaveList(h) \/ DeleteList(h) \/ StoreItem(h) \/ SaveItem(h) \/ DeleteItem(h) \/ CommitReorder(h)
  BY <1>2, <1>3 DEF SaveList, DeleteList, StoreItem, SaveItem, DeleteItem, CommitReorder, Finish
<1>4. CASE ReorderRow(h)
  <2>1. Quiet(Moved(request[h], request[h].order[request[h].done + 1]), r)
    <3>1. request[h] \in [op: {"reorder"}, list: Lists, order: Orders, done: Nat,
                          moved: [Items -> Priorities \cup {Nil}]]
      BY <1>1, <1>4, RequestFields DEF ReorderRow
    <3> QED
      BY <3>1 DEF Moved, Quiet
  <2> QED
    BY <1>1, <1>2, <1>4, <2>1, QuietStep DEF ReorderRow, Continue, Finish
<1>5. CASE LockItem(h) \/ CountReserved(h)
  <2>1. request[h] = [op |-> request[h].op, reservation |-> request[h].reservation,
                      item |-> request[h].item, quantity |-> request[h].quantity]
    BY <1>1, <1>5, RequestFields DEF LockItem, CountReserved
  <2>2. \A op : op # "save_reservation" => Quiet([request[h] EXCEPT !.op = op], r)
    BY <2>1 DEF Quiet
  <2> QED
    BY <1>1, <1>2, <1>5, <2>2, QuietStep DEF LockItem, CountReserved, Continue, Finish
<1>6. CASE StoreReservation(h)
  <2>1. request[h].reservation # r
    BY <1>6 DEF StoreReservation, SettledCanceled
  <2> QED
    BY <1>1, <1>2, <1>6, <2>1 DEF StoreReservation, Finish, TypeOK
<1>7. CASE SaveReservation(h)
  <2> DEFINE s == request[h].reservation
             value == request[h].value
  <2>1. /\ s \in Reservations /\ value \in ReservationRow /\ value.status # "absent"
        /\ reservations' = [reservations EXCEPT ![s] = value]
        /\ request' = [request EXCEPT ![h] = Idle]
        /\ request[h].op = "save_reservation"
    BY <1>1, <1>7, RequestFields DEF SaveReservation, Finish, BookingInv, SavesKeepUnits
  <2>2. CASE s # r
    BY <1>1, <1>2, <2>1, <2>2 DEF TypeOK
  <2>3. CASE s = r
    <3>1. value.status = "canceled"
      BY <2>1, <2>3 DEF SettledCanceled, StaleConfirm, ReservationRow
    <3>2. reservations'[r].status = "canceled"
      BY <1>1, <2>1, <2>3, <3>1 DEF TypeOK
    <3>3. ~StaleConfirm(r)'
      BY <1>1, <2>1 DEF SettledCanceled, StaleConfirm, TypeOK, Idle
    <3> QED
      BY <3>2, <3>3 DEF SettledCanceled
  <2> QED
    BY <2>2, <2>3
<1> QED
  BY <1>3, <1>4, <1>5, <1>6, <1>7 DEF Progress

\* A canceled reservation that no request read as confirmed stays canceled:
\* whatever starts after the cancellation cannot revive it.
THEOREM CancellationsHold == Spec => CanceledForGood
<1>1. ASSUME BookingInv, [Next]_vars, NEW r \in Reservations, SettledCanceled(r)
      PROVE  SettledCanceled(r)'
  <2>1. TypeOK
    BY <1>1 DEF BookingInv
  <2>2. CASE UNCHANGED <<reservations, request>>
    BY <1>1, <2>2 DEF SettledCanceled, StaleConfirm
  <2>3. ASSUME NEW h \in Handlers, Abort(h) \/ BreakDeadlock(h)
        PROVE  SettledCanceled(r)'
    BY <1>1, <2>1, <2>3, QuietStep, IdleIsQuiet DEF Abort, BreakDeadlock, Finish
  <2>4. CASE Tick \/ \E u \in Users, l \in Lists, new \in NewLists : CreateList(u, l, new)
    BY <2>2, <2>4 DEF Tick, CreateList
  <2> QED
    BY <1>1, <2>1, <2>2, <2>3, <2>4, StartsAreQuiet, ProgressIsQuiet DEF Next, vars
<1>2. BookingInv /\ [Next]_vars =>
        [\A r \in Reservations : SettledCanceled(r) => SettledCanceled(r)']_vars
  BY <1>1
<1> QED
  BY <1>2, BookingHolds, PTL DEF Spec, CanceledForGood

-----------------------------------------------------------------------------
(* A reordering takes effect as a whole.                                   *)

\* What MovesFollowOrder says of the locals of one handler.
FollowsOrder(r) ==
  r.op = "reorder" =>
    /\ r.done <= Len(r.order)
    /\ \A k \in 1..r.done :
         /\ r.moved[r.order[k].item] # Nil
         /\ ListOf[r.order[k].item] = r.list
         /\ (\A m \in (k + 1)..r.done : r.order[m].item # r.order[k].item)
              => r.moved[r.order[k].item] = r.order[k].priority

Reorderings ==
  [op: {"reorder"}, list: Lists, order: Orders, done: Nat, moved: [Items -> Priorities \cup {Nil}]]

LEMMA FollowsStep ==
  ASSUME TypeOK, MovesFollowOrder, NEW h \in Handlers, NEW x, FollowsOrder(x),
         request' = [request EXCEPT ![h] = x]
  PROVE  MovesFollowOrder'
<1>1. \A g \in Handlers : FollowsOrder(request[g])
  BY DEF MovesFollowOrder, FollowsOrder
<1>2. \A g \in Handlers : request'[g] = x \/ request'[g] = request[g]
  BY DEF TypeOK
<1>3. \A g \in Handlers : FollowsOrder(request'[g])
  BY <1>1, <1>2
<1> QED
  BY <1>3 DEF MovesFollowOrder, FollowsOrder

\* One more UPDATE: its entry is the last one so far that names the row.
LEMMA MovedFollows ==
  ASSUME NEW r \in Reorderings, FollowsOrder(r), r.done < Len(r.order),
         ListOf[r.order[r.done + 1].item] = r.list
  PROVE  FollowsOrder(Moved(r, r.order[r.done + 1]))
<1> DEFINE n == r.done + 1
           entry == r.order[n]
           s == Moved(r, entry)
<1>1. /\ r.order \in Seq([item: Items, priority: Priorities]) /\ r.done \in Nat
      /\ r.moved \in [Items -> Priorities \cup {Nil}] /\ r.op = "reorder"
  BY GiftAssumption DEF Reorderings, Order
<1>2. entry \in [item: Items, priority: Priorities]
  BY <1>1, NextElement
<1>3. /\ s.op = "reorder" /\ s.order = r.order /\ s.list = r.list /\ s.done = n
      /\ s.moved = [r.moved EXCEPT ![entry.item] = entry.priority]
  BY <1>1 DEF Moved, Reorderings
<1>4. n <= Len(r.order) /\ n \in Nat
  BY <1>1
<1>5. s.moved[entry.item] = entry.priority /\ entry.priority # Nil
  BY <1>1, <1>2, <1>3, GiftAssumption
<1> HIDE DEF s
<1>6. ASSUME NEW k \in 1..n
      PROVE  /\ s.moved[r.order[k].item] # Nil
             /\ ListOf[r.order[k].item] = r.list
             /\ (\A m \in (k + 1)..n : r.order[m].item # r.order[k].item)
                  => s.moved[r.order[k].item] = r.order[k].priority
  <2>1. CASE k = n
    BY <1>5, <2>1
  <2>2. CASE k # n
    <3>1. k \in 1..r.done /\ n \in (k + 1)..n
      BY <1>1, <2>2
    <3>2. /\ r.moved[r.order[k].item] # Nil
          /\ ListOf[r.order[k].item] = r.list
          /\ (\A m \in (k + 1)..r.done : r.order[m].item # r.order[k].item)
               => r.moved[r.order[k].item] = r.order[k].priority
      BY <1>1, <3>1 DEF FollowsOrder
    <3>3. CASE r.order[k].item = entry.item
      BY <1>5, <3>1, <3>2, <3>3
    <3>4. CASE r.order[k].item # entry.item
      <4>1. s.moved[r.order[k].item] = r.moved[r.order[k].item]
        BY <1>1, <1>3, <3>4
      <4>2. \A m \in (k + 1)..r.done : m \in (k + 1)..n
        BY <1>1
      <4> QED
        BY <3>2, <4>1, <4>2
    <3> QED
      BY <3>3, <3>4
  <2> QED
    BY <2>1, <2>2
<1>7. FollowsOrder(s)
  BY <1>3, <1>4, <1>6 DEF FollowsOrder
<1> QED
  BY <1>7 DEF s

LEMMA StepMoves ==
  ASSUME TypeOK, MovesFollowOrder, [Next]_vars
  PROVE  MovesFollowOrder'
<1>1. CASE UNCHANGED request
  BY <1>1 DEF MovesFollowOrder
<1>2. \A x : x.op # "reorder" => FollowsOrder(x)
  BY DEF FollowsOrder
<1>3. ASSUME NEW h \in Handlers, NEW x, x.op # "reorder", request' = [request EXCEPT ![h] = x]
      PROVE  MovesFollowOrder'
  BY <1>2, <1>3, FollowsStep
<1>4. ASSUME NEW h \in Handlers, request' = [request EXCEPT ![h] = Idle]
      PROVE  MovesFollowOrder'
  BY <1>3, <1>4 DEF Idle
<1>5. ASSUME NEW h \in Handlers,
             \/ Abort(h) \/ BreakDeadlock(h) \/ SaveList(h) \/ DeleteList(h) \/ StoreItem(h)
             \/ SaveItem(h) \/ DeleteItem(h) \/ CommitReorder(h) \/ SaveReservation(h)
             \/ StoreReservation(h)
      PROVE  MovesFollowOrder'
  BY <1>4, <1>5 DEF Abort, BreakDeadlock, SaveList, DeleteList, StoreItem, SaveItem, DeleteItem,
                    CommitReorder, SaveReservation, StoreReservation, Finish
<1>6. ASSUME NEW h \in Handlers, LockItem(h) \/ CountReserved(h)
      PROVE  MovesFollowOrder'
  <2>1. \A op \in {"locked", "counted"} : [request[h] EXCEPT !.op = op].op # "reorder"
    BY <1>6, RequestFields DEF LockItem, CountReserved
  <2> QED
    BY <1>3, <1>4, <1>6, <2>1 DEF LockItem, CountReserved, Continue, Finish
<1>7. ASSUME NEW h \in Handlers, ReorderRow(h)
      PROVE  MovesFollowOrder'
  <2> DEFINE r == request[h]
             entry == r.order[r.done + 1]
  <2>1. r \in Reorderings /\ r.done < Len(r.order)
    BY <1>7, RequestFields DEF ReorderRow, Reorderings
  <2>2. FollowsOrder(r)
    BY DEF MovesFollowOrder, FollowsOrder
  <2>3. CASE ListOf[entry.item] = r.list /\ request' = [request EXCEPT ![h] = Moved(r, entry)]
    BY <2>1, <2>2, <2>3, MovedFollows, FollowsStep
  <2> QED
    BY <1>4, <1>7, <2>3 DEF ReorderRow, Continue, Finish
<1>8. ASSUME NEW h \in Handlers, GuestStarts(h) \/ \E u \in Users : OwnerStarts(h, u)
      PROVE  MovesFollowOrder'
  <2>1. ASSUME NEW u \in Users, NEW l \in Lists, NEW order \in Orders,
               ReadListForReorder(h, u, l, order)
        PROVE  MovesFollowOrder'
    <3> DEFINE x == [op |-> "reorder", list |-> l, order |-> order, done |-> 0,
                     moved |-> [i \in Items |-> Nil]]
    <3>1. order \in Seq([item: Items, priority: Priorities])
      BY GiftAssumption DEF Order
    <3>2. 0 <= Len(order) /\ 1..0 = {}
      BY <3>1
    <3>3. FollowsOrder(x)
      BY <3>2 DEF FollowsOrder
    <3> QED
      BY <2>1, <3>3, FollowsStep DEF ReadListForReorder, Start
  <2> QED
    BY <1>3, <1>8, <2>1, ZenonT(60)
    DEF OwnerStarts, GuestStarts, ReadListForDelete, ReadListForUpdate, ReadItemForDelete,
        ReadListForNewItem, ReadItemForUpdate, ReadForThank, ReadForCancel, CheckForReserve, Start
<1> QED
  BY <1>1, <1>5, <1>6, <1>7, <1>8 DEF Next, vars, Tick, CreateList, Progress

\* A step that ends a reordering and writes items is its commit.
LEMMA OnlyCommitsReorder ==
  ASSUME TypeOK, [Next]_vars, NEW h \in Handlers, request[h].op = "reorder",
         request'[h] = Idle, items' # items
  PROVE  CommitReorder(h)
<1>1. PICK g \in Handlers : StoreItem(g) \/ SaveItem(g) \/ DeleteItem(g) \/ CommitReorder(g)
  BY ZenonT(60)
     DEF Next, vars, Progress, CreateList, OwnerStarts, GuestStarts, Tick, Abort, BreakDeadlock,
         ReadListForDelete, ReadListForUpdate, ReadListForReorder, ReadItemForDelete,
         ReadListForNewItem, ReadItemForUpdate, ReadForThank, ReadForCancel, CheckForReserve,
         SaveList, DeleteList, ReorderRow, SaveReservation, LockItem, CountReserved,
         StoreReservation
<1>2. request' = [request EXCEPT ![g] = Idle]
  BY <1>1 DEF StoreItem, SaveItem, DeleteItem, CommitReorder, Finish
<1>3. g = h
  BY <1>2 DEF TypeOK, Idle
<1> QED
  BY <1>1, <1>3 DEF StoreItem, SaveItem, DeleteItem

\* The commit of a reordering reaches all of its rows: each is one it updated,
\* and its lock has kept it as it was matched.
LEMMA CommitIsWhole ==
  ASSUME BookingInv, MovesFollowOrder, NEW h \in Handlers, CommitReorder(h),
         NEW k \in DOMAIN request[h].order
  PROVE  LET order == request[h].order
             i == order[k].item
         IN  /\ items[i].row = "live" /\ ListOf[i] = request[h].list
             /\ (\A m \in (k + 1)..Len(order) : order[m].item # i)
                  => items'[i] = [items[i] EXCEPT !.priority = order[k].priority]
<1> DEFINE r == request[h]
           i == r.order[k].item
<1>1. r.op = "reorder" /\ r.done = Len(r.order)
  BY DEF CommitReorder
<1>2. r.order \in Seq([item: Items, priority: Priorities])
  BY <1>1, RequestFields, GiftAssumption DEF BookingInv, Order
<1>3. /\ k \in 1..r.done /\ i \in Items
      /\ r.order[k].priority \in Priorities /\ r.order[k].priority # Nil
  <2>1. k \in 1..Len(r.order) /\ r.order[k] \in [item: Items, priority: Priorities]
    BY <1>2, ElementOf
  <2> QED
    BY <1>1, <2>1, GiftAssumption
<1>4. /\ r.moved[i] # Nil
      /\ ListOf[i] = r.list
      /\ (\A m \in (k + 1)..r.done : r.order[m].item # i) => r.moved[i] = r.order[k].priority
  BY <1>1, <1>3 DEF MovesFollowOrder
<1>5. items[i].row = "live"
  BY <1>1, <1>3, <1>4 DEF BookingInv, LockedRowsStayMatched, Holds
<1>6. items'[i] = [items[i] EXCEPT !.priority = Or(r.moved[i], items[i].priority)]
  <2>1. items'[i] = [items[i] EXCEPT !.priority = Or(r.moved[i], @)]
    BY <1>3 DEF CommitReorder
  <2> QED
    BY <2>1
<1>7. Or(r.moved[i], items[i].priority) = r.moved[i]
  BY <1>4 DEF Or
<1> QED
  BY <1>1, <1>4, <1>5, <1>6, <1>7

\* An open reordering has moved the rows of its order so far, each to the place
\* its last entry gives, in the list that was checked.
THEOREM MovesHold == Spec => []MovesFollowOrder
<1>1. Init => MovesFollowOrder
  BY DEF Init, MovesFollowOrder, Idle
<1> QED
  BY <1>1, StepMoves, GiftTypes, PTL DEF Spec

\* ReorderItems takes effect as a whole: whatever saves, deletions and other
\* reorderings overlap with it, at its commit every row of its order is live and
\* in its list, and gets the priority of the last entry that names it.
THEOREM ReorderedAsOne == Spec => ReordersAreWhole
<1>1. BookingInv /\ MovesFollowOrder /\ [Next]_vars =>
        [\A h \in Handlers :
           request[h].op = "reorder" /\ request'[h] = Idle /\ items' # items =>
             \A k \in DOMAIN request[h].order :
               LET order == request[h].order
                   i == order[k].item
               IN  /\ items[i].row = "live" /\ ListOf[i] = request[h].list
                   /\ (\A m \in (k + 1)..Len(order) : order[m].item # i)
                        => items'[i] = [items[i] EXCEPT !.priority = order[k].priority]]_vars
  <2> SUFFICES ASSUME BookingInv, MovesFollowOrder, [Next]_vars, NEW h \in Handlers,
                      request[h].op = "reorder", request'[h] = Idle, items' # items,
                      NEW k \in DOMAIN request[h].order
               PROVE  LET order == request[h].order
                          i == order[k].item
                      IN  /\ items[i].row = "live" /\ ListOf[i] = request[h].list
                          /\ (\A m \in (k + 1)..Len(order) : order[m].item # i)
                               => items'[i] = [items[i] EXCEPT !.priority = order[k].priority]
    OBVIOUS
  <2>1. CommitReorder(h)
    BY OnlyCommitsReorder DEF BookingInv
  <2> QED
    BY <2>1, CommitIsWhole
<1> QED
  BY <1>1, MovesHold, BookingHolds, PTL DEF Spec, ReordersAreWhole

-----------------------------------------------------------------------------
(* No request is stuck: what RequestsEnd says of safety.                    *)

\* The ids drawn for inserts are fresh and differ, and a row about to be saved
\* exists: no insert and no Save finds its row in a state that it cannot use.
IdsAreFresh ==
  /\ \A h \in Handlers :
       /\ request[h].op = "store_item" => items[request[h].item].row = "absent"
       /\ request[h].op = "save_item" =>
            items[request[h].item].row # "absent" /\ request[h].value.row # "absent"
       /\ Reserving(h) => reservations[request[h].reservation].status = "absent"
  /\ \A g, h \in Handlers :
       /\ request[g].op = "store_item" /\ request[h].op = "store_item" =>
            request[g].item # request[h].item \/ g = h
       /\ Reserving(g) /\ Reserving(h) =>
            request[g].reservation # request[h].reservation \/ g = h

\* What h may hold next, where no row changes.
StaysFresh(h, x) ==
  /\ x.op = "store_item" =>
       /\ items[x.item].row = "absent"
       /\ \A g \in Handlers : request[g].op = "store_item" => request[g].item # x.item
  /\ x.op = "save_item" => items[x.item].row # "absent" /\ x.value.row # "absent"
  /\ x.op \in {"reserve", "locked", "counted"} =>
       /\ reservations[x.reservation].status = "absent"
       /\ \A g \in Handlers \ {h} : Reserving(g) => request[g].reservation # x.reservation

LEMMA FreshStep ==
  ASSUME TypeOK, IdsAreFresh, NEW h \in Handlers, NEW x, StaysFresh(h, x),
         request' = [request EXCEPT ![h] = x], UNCHANGED <<items, reservations>>
  PROVE  IdsAreFresh'
<1>1. request'[h] = x /\ \A g \in Handlers \ {h} : request'[g] = request[g]
  BY DEF TypeOK
<1>2. ASSUME NEW g \in Handlers
      PROVE  /\ request'[g].op = "store_item" => items'[request'[g].item].row = "absent"
             /\ request'[g].op = "save_item" =>
                  items'[request'[g].item].row # "absent" /\ request'[g].value.row # "absent"
             /\ Reserving(g)' => reservations'[request'[g].reservation].status = "absent"
  BY <1>1 DEF IdsAreFresh, StaysFresh, Reserving
<1>3. ASSUME NEW f \in Handlers, NEW g \in Handlers, f # g
      PROVE  /\ request'[f].op = "store_item" /\ request'[g].op = "store_item" =>
                  request'[f].item # request'[g].item
             /\ Reserving(f)' /\ Reserving(g)' =>
                  request'[f].reservation # request'[g].reservation
  BY <1>1, <1>3 DEF IdsAreFresh, StaysFresh, Reserving
<1> QED
  BY <1>2, <1>3 DEF IdsAreFresh

LEMMA IdleStaysFresh == \A h : StaysFresh(h, Idle)
  BY DEF StaysFresh, Idle

\* A write that ends h's request, leaves the rows that others will insert absent
\* and makes no row absent that was not.
LEMMA FreshWrite ==
  ASSUME TypeOK, IdsAreFresh, NEW h \in Handlers, request' = [request EXCEPT ![h] = Idle],
         \A g \in Handlers \ {h} :
           /\ request[g].op = "store_item" => items'[request[g].item].row = "absent"
           /\ request[g].op = "save_item" => items'[request[g].item].row # "absent"
           /\ Reserving(g) => reservations'[request[g].reservation].status = "absent"
  PROVE  IdsAreFresh'
<1>1. request'[h] = Idle /\ \A g \in Handlers \ {h} : request'[g] = request[g]
  BY DEF TypeOK
<1> QED
  BY <1>1 DEF IdsAreFresh, Reserving, Idle

\* Each first call draws a fresh id, or reads a row that exists.
LEMMA StartsAreFresh ==
  ASSUME TypeOK, IdsAreFresh, NEW h \in Handlers,
         GuestStarts(h) \/ \E u \in Users : OwnerStarts(h, u)
  PROVE  IdsAreFresh'
<1>1. ASSUME NEW x, StaysFresh(h, x), Start(h, x), UNCHANGED <<items, reservations>>
      PROVE  IdsAreFresh'
  BY <1>1, FreshStep DEF Start
<1>2. ASSUME NEW x, Start(h, x), UNCHANGED <<items, reservations>>,
             x.op \notin {"store_item", "save_item", "reserve", "locked", "counted"}
      PROVE  IdsAreFresh'
  BY <1>1, <1>2 DEF StaysFresh
<1>3. ASSUME NEW u \in Users, NEW i \in Items, NEW new \in NewItems,
             ReadListForNewItem(h, u, i, new)
      PROVE  IdsAreFresh'
  <2> DEFINE x == [op |-> "store_item", item |-> i,
                   value |-> [row |-> "live", quantity |-> new.quantity,
                              priority |-> new.priority, active |-> TRUE, archived |-> FALSE]]
  <2>1. StaysFresh(h, x)
    BY <1>3 DEF ReadListForNewItem, StaysFresh
  <2> QED
    BY <1>1, <1>3, <2>1 DEF ReadListForNewItem
<1>4. ASSUME NEW u \in Users, NEW i \in Items, NEW upd \in ItemUpdates,
             ReadItemForUpdate(h, u, i, upd)
      PROVE  IdsAreFresh'
  <2>1. UpdatedItem(items[i], upd).row = "live"
    BY <1>4 DEF ReadItemForUpdate, UpdatedItem, TypeOK, ItemRow
  <2>2. StaysFresh(h, [op |-> "save_item", item |-> i, value |-> UpdatedItem(items[i], upd)])
    BY <1>4, <2>1 DEF ReadItemForUpdate, StaysFresh
  <2> QED
    BY <1>1, <1>4, <2>2 DEF ReadItemForUpdate
<1>5. ASSUME NEW r \in Reservations, NEW l \in Lists, NEW i \in Items, NEW q \in Quantities,
             CheckForReserve(h, r, l, i, q)
      PROVE  IdsAreFresh'
  <2>1. StaysFresh(h, [op |-> "reserve", reservation |-> r, item |-> i, quantity |-> q])
    BY <1>5 DEF CheckForReserve, StaysFresh
  <2> QED
    BY <1>1, <1>5, <2>1 DEF CheckForReserve
<1>6. ASSUME NEW u \in Users, NEW l \in Lists,
             \/ ReadListForDelete(h, u, l)
             \/ \E upd \in ListUpdates : ReadListForUpdate(h, u, l, upd)
             \/ \E order \in Orders : ReadListForReorder(h, u, l, order)
      PROVE  IdsAreFresh'
  BY <1>2, <1>6, ZenonT(60) DEF ReadListForDelete, ReadListForUpdate, ReadListForReorder
<1>7. ASSUME NEW u \in Users, NEW i \in Items, ReadItemForDelete(h, u, i)
      PROVE  IdsAreFresh'
  BY <1>2, <1>7, ZenonT(60) DEF ReadItemForDelete
<1>8. ASSUME NEW u \in Users, NEW r \in Reservations,
             ReadForThank(h, u, r) \/ ReadForCancel(h, u, r)
      PROVE  IdsAreFresh'
  BY <1>2, <1>8, ZenonT(60) DEF ReadForThank, ReadForCancel
<1> QED
  BY <1>3, <1>4, <1>5, <1>6, <1>7, <1>8 DEF OwnerStarts, GuestStarts

\* No later call takes the row of another insert or makes a row vanish.
LEMMA ProgressIsFresh ==
  ASSUME BookingInv, IdsAreFresh, NEW h \in Handlers, Progress(h)
  PROVE  IdsAreFresh'
<1> DEFINE r == request[h]
<1>1. TypeOK
  BY DEF BookingInv
<1>2. ASSUME request' = [request EXCEPT ![h] = Idle], UNCHANGED <<items, reservations>>
      PROVE  IdsAreFresh'
  BY <1>1, <1>2, FreshStep, IdleStaysFresh
<1>3. ASSUME request' = [request EXCEPT ![h] = Idle], UNCHANGED reservations,
             \A g \in Handlers \ {h} :
               /\ request[g].op = "store_item" => items'[request[g].item].row = "absent"
               /\ request[g].op = "save_item" => items'[request[g].item].row # "absent"
      PROVE  IdsAreFresh'
  BY <1>1, <1>3, FreshWrite DEF IdsAreFresh
<1>4. CASE SaveList(h) \/ DeleteList(h)
  BY <1>2, <1>4 DEF SaveList, DeleteList, Finish
<1>5. CASE StoreItem(h) \/ SaveItem(h)
  <2>1. r.item \in Items /\ items' = [items EXCEPT ![r.item] = r.value]
    BY <1>1, <1>5, RequestFields DEF StoreItem, SaveItem
  <2>2. ASSUME NEW g \in Handlers \ {h}, request[g].op = "store_item"
        PROVE  items'[request[g].item].row = "absent"
    <3>1. request[g].item # r.item
      BY <1>5, <2>2 DEF StoreItem, SaveItem, IdsAreFresh
    <3>2. request[g].item \in Items /\ items[request[g].item].row = "absent"
      BY <1>1, <2>2, RequestFields DEF IdsAreFresh
    <3> QED
      BY <1>1, <2>1, <3>1, <3>2 DEF TypeOK
  <2>3. ASSUME NEW g \in Handlers \ {h}, request[g].op = "save_item"
        PROVE  items'[request[g].item].row # "absent"
    <3>1. request[g].item \in Items /\ items[request[g].item].row # "absent"
      BY <1>1, <2>3, RequestFields DEF IdsAreFresh
    <3>2. request[g].item # r.item \/ r.value.row # "absent"
      BY <1>5, <3>1 DEF StoreItem, SaveItem, IdsAreFresh
    <3> QED
      BY <1>1, <2>1, <3>1, <3>2 DEF TypeOK
  <2> QED
    BY <1>3, <1>5, <2>2, <2>3 DEF StoreItem, SaveItem, Finish
<1>6. CASE DeleteItem(h) \/ CommitReorder(h)
  <2>1. \A i \in Items : items'[i].row = "absent" <=> items[i].row = "absent"
    <3>1. CASE DeleteItem(h)
      <4>1. r.item \in Items /\ items \in [Items -> ItemRow]
        BY <1>1, <3>1, RequestFields DEF DeleteItem, TypeOK
      <4>2. \A i \in Items \ {r.item} : items'[i] = items[i]
        BY <3>1, <4>1 DEF DeleteItem
      <4>3. items'[r.item].row = IF items[r.item].row = "live" THEN "deleted" ELSE items[r.item].row
        BY <3>1, <4>1 DEF DeleteItem, ItemRow
      <4> QED
        BY <4>2, <4>3
    <3>2. CASE CommitReorder(h)
      BY <1>1, <3>2 DEF CommitReorder, TypeOK, ItemRow
    <3> QED
      BY <1>6, <3>1, <3>2
  <2>2. ASSUME NEW g \in Handlers \ {h}, request[g].op \in {"store_item", "save_item"}
        PROVE  items'[request[g].item].row = "absent" <=> items[request[g].item].row = "absent"
    BY <1>1, <2>1, <2>2, RequestFields
  <2> QED
    BY <1>3, <1>6, <2>2 DEF DeleteItem, CommitReorder, Finish, IdsAreFresh
<1>7. CASE ReorderRow(h)
  <2>1. Moved(r, r.order[r.done + 1]).op = "reorder"
    BY <1>1, <1>7, RequestFields DEF ReorderRow, Moved
  <2>2. StaysFresh(h, Moved(r, r.order[r.done + 1]))
    BY <2>1 DEF StaysFresh
  <2> QED
    BY <1>1, <1>2, <1>7, <2>2, FreshStep DEF ReorderRow, Continue, Finish
<1>8. CASE LockItem(h) \/ CountReserved(h)
  <2>1. Reserving(h)
    BY <1>8 DEF LockItem, CountReserved, Reserving
  <2>2. ASSUME NEW op \in {"locked", "counted"}
        PROVE  StaysFresh(h, [r EXCEPT !.op = op])
    <3>1. /\ [r EXCEPT !.op = op].op = op
          /\ [r EXCEPT !.op = op].reservation = r.reservation
      BY <1>1, <2>1, RequestFields DEF Reserving
    <3>2. /\ reservations[r.reservation].status = "absent"
          /\ \A g \in Handlers \ {h} : Reserving(g) => request[g].reservation # r.reservation
      BY <2>1 DEF IdsAreFresh
    <3> QED
      BY <3>1, <3>2 DEF StaysFresh
  <2> QED
    BY <1>1, <1>2, <1>8, <2>2, FreshStep DEF LockItem, CountReserved, Continue, Finish
<1>9. CASE SaveReservation(h) \/ StoreReservation(h)
  <2>1. PICK row : reservations' = [reservations EXCEPT ![r.reservation] = row]
    BY <1>9 DEF SaveReservation, StoreReservation
  <2>2. ASSUME NEW g \in Handlers \ {h}, Reserving(g)
        PROVE  reservations'[request[g].reservation].status = "absent"
    <3>1. /\ request[g].reservation \in Reservations
          /\ reservations[request[g].reservation].status = "absent"
      BY <1>1, <2>2, RequestFields DEF IdsAreFresh, Reserving
    <3>2. request[g].reservation # r.reservation
      BY <1>9, <2>2, <3>1
      DEF SaveReservation, StoreReservation, IdsAreFresh, Reserving, BookingInv, SavesKeepUnits
    <3> QED
      BY <1>1, <2>1, <3>1, <3>2 DEF TypeOK
  <2> QED
    BY <1>1, <1>9, <2>2, FreshWrite
    DEF SaveReservation, StoreReservation, Finish, IdsAreFresh, history
<1> QED
  BY <1>4, <1>5, <1>6, <1>7, <1>8, <1>9 DEF Progress

LEMMA StepFresh ==
  ASSUME BookingInv, IdsAreFresh, [Next]_vars
  PROVE  IdsAreFresh'
<1>1. TypeOK
  BY DEF BookingInv
<1>2. CASE UNCHANGED <<items, reservations, request>>
  BY <1>2 DEF IdsAreFresh, Reserving
<1>3. ASSUME NEW h \in Handlers, Abort(h) \/ BreakDeadlock(h)
      PROVE  IdsAreFresh'
  BY <1>1, <1>3, FreshStep, IdleStaysFresh DEF Abort, BreakDeadlock, Finish
<1> QED
  BY <1>1, <1>2, <1>3, StartsAreFresh, ProgressIsFresh DEF Next, vars, Tick, CreateList

\* The guards of Progress(h): the row that its next call needs is locked by no
\* other transaction, and the call finds what it was told to expect.
Ready(h) ==
  LET r == request[h]
  IN  /\ r # Idle
      /\ \A i \in Wants(h) : ~LockedByOther(h, i)
      /\ r.op = "reorder" => r.done <= Len(r.order)
      /\ r.op = "store_item" => items[r.item].row = "absent"
      /\ r.op = "counted" => reservations[r.reservation].status = "absent"

\* The guard of BreakDeadlock(h).
OnCycle(h) ==
  \E cycle \in SUBSET Handlers :
    /\ h \in cycle
    /\ \A g \in cycle : (\E f \in cycle : WaitsFor(g, f)) /\ (\E f \in cycle : WaitsFor(f, g))

\* Requests that wait for none but each other.
Closed(S) ==
  /\ S # {} /\ IsFiniteSet(S)
  /\ \A h \in S : request[h] # Idle
  /\ \A h \in S, g \in Handlers : WaitsFor(h, g) => g \in S

NobodyStuck == \A S \in SUBSET Handlers : Closed(S) => \E h \in S : Ready(h) \/ OnCycle(h)

\* A request that cannot go on waits for a row lock of another one.
LEMMA BlockedWaits ==
  ASSUME IdsAreFresh, MovesFollowOrder, NEW h \in Handlers, request[h] # Idle, ~Ready(h)
  PROVE  \E g \in Handlers : WaitsFor(h, g)
<1>1. \E i \in Wants(h) : LockedByOther(h, i)
  BY DEF Ready, IdsAreFresh, MovesFollowOrder, Reserving
<1> QED
  BY <1>1 DEF LockedByOther, WaitsFor

\* The least of some cardinalities.
LEMMA LeastSize ==
  ASSUME NEW N \in SUBSET Nat, N # {}
  PROVE  \E n \in N : \A m \in N : n <= m
<1> DEFINE Below == {p \in Nat \X Nat : p[1] < p[2]}
<1>1. IsWellFoundedOn(Below, Nat)
  <2>1. Below = OpToRel(<, Nat)
    BY Zenon DEF OpToRel
  <2> QED
    BY <2>1, NatLessThanWellFounded, Zenon
<1>2. PICK n \in N : \A m \in N : <<m, n>> \notin Below
  <2> HIDE DEF Below
  <2> QED
    BY <1>1, WFMin
<1>3. \A m \in N : ~(m < n)
  BY <1>2
<1> QED
  BY <1>3

\* Among finitely many requests that all wait for one another there is a
\* cycle: the smallest set in which each waits for a member is one.
LEMMA WaitsCycle ==
  ASSUME NEW S \in SUBSET Handlers, S # {}, IsFiniteSet(S),
         \A g \in S : \E f \in S : WaitsFor(g, f)
  PROVE  \E h \in S : OnCycle(h)
<1> DEFINE Chained == {T \in SUBSET S : T # {} /\ \A g \in T : \E f \in T : WaitsFor(g, f)}
           Sizes == {Cardinality(T) : T \in Chained}
<1>1. \A T \in Chained : IsFiniteSet(T) /\ Cardinality(T) \in Nat
  BY FS_Subset, FS_CardinalityType
<1>2. Sizes \in SUBSET Nat /\ Sizes # {}
  BY <1>1
<1>3. PICK n \in Sizes : \A m \in Sizes : n <= m
  <2> HIDE DEF Sizes
  <2> QED
    BY <1>2, LeastSize
<1>4. PICK T \in Chained : Cardinality(T) = n
  OBVIOUS
<1> DEFINE Awaited == {f \in T : \E g \in T : WaitsFor(g, f)}
<1>5. Awaited \in Chained
  <2>1. \A g \in T : \E f \in Awaited : WaitsFor(g, f)
    OBVIOUS
  <2>2. Awaited # {} /\ Awaited \in SUBSET S
    BY <2>1
  <2> QED
    BY <2>1, <2>2
<1>6. Awaited = T
  <2>1. Cardinality(Awaited) \in Sizes /\ Awaited \in SUBSET T
    BY <1>5
  <2>2. Cardinality(T) <= Cardinality(Awaited)
    BY <1>3, <1>4, <2>1
  <2>3. /\ IsFiniteSet(T) /\ Cardinality(T) \in Nat
        /\ Cardinality(Awaited) \in Nat
    BY <1>1, <1>4, <1>5
  <2>4. Cardinality(Awaited) <= Cardinality(T)
    BY <2>1, <2>3, FS_Subset
  <2>5. Cardinality(T) = Cardinality(Awaited)
    BY <2>2, <2>3, <2>4
  <2> QED
    BY <2>1, <2>3, <2>5, FS_Subset
<1>7. PICK h \in T : TRUE
  BY <1>4
<1>8. OnCycle(h)
  BY <1>4, <1>6 DEF OnCycle
<1> QED
  BY <1>4, <1>8

\* The queues of row locks never leave requests stuck, for any number of
\* handlers, items and orders: among requests that wait for none but each other
\* there is one whose next call can be made, or one that PostgreSQL's deadlock
\* detector ends.  With fair scheduling that is why every request ends.
THEOREM NeverStuck == Spec => []NobodyStuck
<1>1. Init => IdsAreFresh
  BY DEF Init, IdsAreFresh, Reserving, Idle
<1>2. Spec => []IdsAreFresh
  BY <1>1, StepFresh, BookingHolds, PTL DEF Spec
<1>3. IdsAreFresh /\ MovesFollowOrder => NobodyStuck
  <2> SUFFICES ASSUME IdsAreFresh, MovesFollowOrder, NEW S \in SUBSET Handlers, Closed(S),
                      \A h \in S : ~Ready(h)
               PROVE  \E h \in S : OnCycle(h)
    BY DEF NobodyStuck
  <2>1. \A g \in S : \E f \in S : WaitsFor(g, f)
    BY BlockedWaits DEF Closed
  <2> QED
    BY <2>1, WaitsCycle DEF Closed
<1> QED
  BY <1>2, <1>3, MovesHold, PTL

-----------------------------------------------------------------------------
(* The expiry of a list.                                                   *)

\* UpdateList leaves the pair of fields consistent where it found it so.
LEMMA UpdatedListAgrees ==
  ASSUME NEW list \in ListRow, NEW upd \in ListUpdate, list.never => list.expiry = Nil
  PROVE  UpdatedList(list, upd).never => UpdatedList(list, upd).expiry = Nil
<1> DEFINE never == Or(upd.never, list.never)
           cleared == IF upd.never # Nil /\ never THEN Nil ELSE list.expiry
<1>1. /\ UpdatedList(list, upd).never = (IF upd.expiry # Nil THEN FALSE ELSE never)
      /\ UpdatedList(list, upd).expiry = Or(upd.expiry, cleared)
  BY DEF UpdatedList, ListRow
<1>2. upd.expiry = Nil /\ never => cleared = Nil
  BY DEF Or
<1> QED
  BY <1>1, <1>2 DEF Or

LEMMA StepExpiry ==
  ASSUME TypeOK, NeverExpiringHasNoDate, SavedListsAgree, [Next]_vars
  PROVE  NeverExpiringHasNoDate' /\ SavedListsAgree'
<1>1. CASE UNCHANGED <<lists, request>>
  BY <1>1 DEF NeverExpiringHasNoDate, SavedListsAgree
<1>2. ASSUME NEW h \in Handlers, NEW x, request' = [request EXCEPT ![h] = x], UNCHANGED lists,
             x.op = "save_list" /\ x.value.never => x.value.expiry = Nil
      PROVE  NeverExpiringHasNoDate' /\ SavedListsAgree'
  BY <1>2 DEF NeverExpiringHasNoDate, SavedListsAgree, TypeOK
<1>3. ASSUME NEW u \in Users, NEW l \in Lists, NEW new \in NewLists, CreateList(u, l, new)
      PROVE  NeverExpiringHasNoDate' /\ SavedListsAgree'
  BY <1>3 DEF CreateList, NeverExpiringHasNoDate, SavedListsAgree, TypeOK, history
<1>4. ASSUME NEW h \in Handlers, SaveList(h)
      PROVE  NeverExpiringHasNoDate' /\ SavedListsAgree'
  <2>1. request[h].list \in Lists
    BY <1>4, RequestFields DEF SaveList
  <2> QED
    BY <1>4, <2>1 DEF SaveList, Finish, NeverExpiringHasNoDate, SavedListsAgree, TypeOK, Idle
<1>5. ASSUME NEW h \in Handlers, DeleteList(h)
      PROVE  NeverExpiringHasNoDate' /\ SavedListsAgree'
  <2>1. request[h].list \in Lists /\ lists[request[h].list] \in ListRow
    BY <1>5, RequestFields DEF DeleteList, TypeOK
  <2>2. \A l \in Lists : lists'[l].never = lists[l].never /\ lists'[l].expiry = lists[l].expiry
    BY <1>5, <2>1 DEF DeleteList, TypeOK, ListRow
  <2> QED
    BY <1>5, <2>2 DEF DeleteList, Finish, NeverExpiringHasNoDate, SavedListsAgree, TypeOK, Idle
<1>6. ASSUME NEW h \in Handlers,
             \/ Abort(h) \/ BreakDeadlock(h) \/ StoreItem(h) \/ SaveItem(h) \/ DeleteItem(h)
             \/ CommitReorder(h) \/ SaveReservation(h) \/ StoreReservation(h)
      PROVE  NeverExpiringHasNoDate' /\ SavedListsAgree'
  <2>1. request' = [request EXCEPT ![h] = Idle] /\ UNCHANGED lists
    BY <1>6 DEF Abort, BreakDeadlock, StoreItem, SaveItem, DeleteItem, CommitReorder,
                SaveReservation, StoreReservation, Finish
  <2> QED
    BY <1>2, <2>1 DEF Idle
<1>7. ASSUME NEW h \in Handlers, LockItem(h) \/ CountReserved(h) \/ ReorderRow(h)
      PROVE  NeverExpiringHasNoDate' /\ SavedListsAgree'
  <2>1. ASSUME NEW op \in {"locked", "counted"}, request[h].op \in {"reserve", "locked"}
        PROVE  [request[h] EXCEPT !.op = op].op # "save_list"
    BY <2>1, RequestFields
  <2>2. request[h].op = "reorder" =>
          Moved(request[h], request[h].order[request[h].done + 1]).op = "reorder"
    BY RequestFields DEF Moved
  <2> QED
    BY <1>2, <1>7, <2>1, <2>2 DEF LockItem, CountReserved, ReorderRow, Continue, Finish, Idle
<1>8. ASSUME NEW h \in Handlers, GuestStarts(h) \/ \E u \in Users : OwnerStarts(h, u)
      PROVE  NeverExpiringHasNoDate' /\ SavedListsAgree'
  <2>1. ASSUME NEW u \in Users, NEW l \in Lists, NEW upd \in ListUpdates,
               ReadListForUpdate(h, u, l, upd)
        PROVE  NeverExpiringHasNoDate' /\ SavedListsAgree'
    <3>1. lists[l] \in ListRow /\ upd \in ListUpdate
      BY GiftAssumption DEF TypeOK
    <3>2. UpdatedList(lists[l], upd).never => UpdatedList(lists[l], upd).expiry = Nil
      BY <3>1, UpdatedListAgrees DEF NeverExpiringHasNoDate
    <3> QED
      BY <1>2, <2>1, <3>2 DEF ReadListForUpdate, Start
  <2> QED
    BY <1>2, <1>8, <2>1, ZenonT(60)
    DEF OwnerStarts, GuestStarts, ReadListForDelete, ReadListForReorder, ReadItemForDelete,
        ReadListForNewItem, ReadItemForUpdate, ReadForThank, ReadForCancel, CheckForReserve, Start
<1> QED
  BY <1>1, <1>3, <1>4, <1>5, <1>6, <1>7, <1>8 DEF Next, vars, Tick, Progress

\* never_expires and expires_at never contradict each other, however the
\* updates of one list overlap.
THEOREM ExpiryAgrees == Spec => []NeverExpiringHasNoDate
<1>1. Init => NeverExpiringHasNoDate /\ SavedListsAgree
  BY DEF Init, NeverExpiringHasNoDate, SavedListsAgree, Idle
<1>2. TypeOK /\ NeverExpiringHasNoDate /\ SavedListsAgree /\ [Next]_vars
        => NeverExpiringHasNoDate' /\ SavedListsAgree'
  BY StepExpiry
<1> QED
  BY <1>1, <1>2, GiftTypes, PTL DEF Spec

=============================================================================
