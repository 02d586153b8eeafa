--------------------------- MODULE GiftLedgerProofs ---------------------------
(***************************************************************************)
(* GiftReservations implements GiftLedger, for any number of lists, items, *)
(* reservations and requests.                                              *)
(***************************************************************************)
EXTENDS GiftReservationsProofs

\* The columns of a reservation go together: none before the insertion, all of
\* them after it.
RowsAgree ==
  \A r \in Reservations :
    IF reservations[r].status = "absent"
    THEN /\ reservations[r].item = Nil /\ reservations[r].quantity = 0
         /\ r \notin reinstated
    ELSE reservations[r].item \in Items /\ reservations[r].quantity \in Quantities

\* Only these steps write what the ledger sees.
LEMMA LedgerWriters ==
  ASSUME TypeOK, [Next]_vars
  PROVE  \/ UNCHANGED <<reservations, offered, reinstated>>
         \/ \E h \in Handlers : \/ StoreItem(h) \/ SaveItem(h)
                                \/ StoreReservation(h) \/ SaveReservation(h)
BY ZenonT(120)
   DEF Next, vars, history, Progress, CreateList, OwnerStarts, GuestStarts, Tick, Abort, BreakDeadlock,
       ReadListForDelete, ReadListForUpdate, ReadListForReorder, ReadItemForDelete,
       ReadListForNewItem, ReadItemForUpdate, ReadForThank, ReadForCancel, CheckForReserve,
       SaveList, DeleteList, DeleteItem, ReorderRow, CommitReorder, LockItem, CountReserved

\* What an insertion writes.
LEMMA Inserted ==
  ASSUME TypeOK, NEW h \in Handlers, StoreReservation(h)
  PROVE  LET r == request[h].reservation
             i == request[h].item
             q == request[h].quantity
         IN  /\ r \in Reservations /\ i \in Items /\ q \in Quantities
             /\ reservations[r].status = "absent"
             /\ reservations' = [reservations EXCEPT ![r] =
                                   [status |-> "confirmed", item |-> i,
                                    quantity |-> q, thanked |-> FALSE]]
             /\ UNCHANGED <<offered, reinstated>>
  BY RequestFields DEF StoreReservation, history

\* What a save of a reservation writes: the item and the quantity stay.
LEMMA Saved ==
  ASSUME BookingInv, NEW h \in Handlers, SaveReservation(h)
  PROVE  LET r == request[h].reservation
             value == request[h].value
         IN  /\ r \in Reservations
             /\ reservations[r].status # "absent" /\ value.status # "absent"
             /\ value.item = reservations[r].item
             /\ value.quantity = reservations[r].quantity
             /\ reservations' = [reservations EXCEPT ![r] = value]
             /\ reinstated' = IF reservations[r].status = "canceled" /\ value.status = "confirmed"
                              THEN reinstated \cup {r} ELSE reinstated
             /\ UNCHANGED offered
  BY RequestFields DEF SaveReservation, BookingInv, SavesKeepUnits

LEMMA StepRows ==
  ASSUME BookingInv, RowsAgree, [Next]_vars
  PROVE  RowsAgree'
<1>1. TypeOK
  BY DEF BookingInv
<1>2. CASE UNCHANGED <<reservations, reinstated>>
  BY <1>2 DEF RowsAgree
<1>3. ASSUME NEW h \in Handlers, StoreReservation(h)
      PROVE  RowsAgree'
  <2> DEFINE r == request[h].reservation
  <2>1. /\ r \in Reservations /\ request[h].item \in Items /\ request[h].quantity \in Quantities
        /\ reservations' = [reservations EXCEPT ![r] =
                              [status |-> "confirmed", item |-> request[h].item,
                               quantity |-> request[h].quantity, thanked |-> FALSE]]
        /\ UNCHANGED reinstated
    BY <1>1, <1>3, Inserted
  <2>2. \A s \in Reservations \ {r} : reservations'[s] = reservations[s]
    BY <1>1, <2>1 DEF TypeOK
  <2>3. /\ reservations'[r].status = "confirmed" /\ reservations'[r].item \in Items
        /\ reservations'[r].quantity \in Quantities
    BY <1>1, <2>1 DEF TypeOK
  <2> QED
    BY <2>1, <2>2, <2>3 DEF RowsAgree
<1>4. ASSUME NEW h \in Handlers, SaveReservation(h)
      PROVE  RowsAgree'
  BY <1>1, <1>4, Saved DEF RowsAgree, TypeOK
<1>5. ASSUME NEW h \in Handlers, StoreItem(h) \/ SaveItem(h)
      PROVE  UNCHANGED <<reservations, reinstated>>
  BY <1>5 DEF StoreItem, SaveItem
<1> QED
  BY <1>1, <1>2, <1>3, <1>4, <1>5, LedgerWriters

LEMMA RowsHold == Spec => [](BookingInv /\ RowsAgree)
<1>1. Init => RowsAgree
  BY DEF Init, RowsAgree
<1>2. BookingInv /\ RowsAgree /\ [Next]_vars => RowsAgree'
  BY StepRows
<1> QED
  BY <1>1, <1>2, BookingHolds, PTL DEF Spec

-----------------------------------------------------------------------------
(* The mapping.                                                            *)

\* The ledger counts as taken what guests have firmly booked.
LEMMA TakenIsFirm == \A i : Ledger!Taken(i) = Firm(i)
<1> SUFFICES ASSUME NEW i PROVE Ledger!Units(i) = UnitsOf(i, Reservations \ reinstated)
  BY DEF Ledger!Taken, Firm, Ledger!Cardinality, Cardinality
<1>1. ASSUME NEW u \in Reservations \X Quantities
      PROVE  u \in Ledger!Units(i) <=> u \in UnitsOf(i, Reservations \ reinstated)
  <2>1. u[1] \in Reservations /\ u[2] \in Quantities /\ u = <<u[1], u[2]>>
    OBVIOUS
  <2>2. Bookings[u[1]] = [item |-> reservations[u[1]].item,
                          quantity |-> reservations[u[1]].quantity,
                          firm |-> reservations[u[1]].status = "confirmed" /\ u[1] \notin reinstated]
    BY <2>1 DEF Bookings
  <2>3. u \in Ledger!Units(i) <=>
          /\ Bookings[u[1]].firm /\ Bookings[u[1]].item = i
          /\ u[2] <= Bookings[u[1]].quantity
    BY <2>1 DEF Ledger!Units, Ledger!Quantities, Quantities
  <2>4. u \in UnitsOf(i, Reservations \ reinstated) <=>
          /\ u[1] \notin reinstated /\ reservations[u[1]].status = "confirmed"
          /\ reservations[u[1]].item = i /\ u[2] <= reservations[u[1]].quantity
    BY <2>1 DEF UnitsOf
  <2>5. Bookings[u[1]].firm = (reservations[u[1]].status = "confirmed" /\ u[1] \notin reinstated)
    BY <2>2
  <2>6. Bookings[u[1]].item = reservations[u[1]].item
        /\ Bookings[u[1]].quantity = reservations[u[1]].quantity
    BY <2>2
  <2> QED
    BY <2>3, <2>4, <2>5, <2>6
<1>2. /\ Ledger!Units(i) \subseteq Reservations \X Quantities
      /\ UnitsOf(i, Reservations \ reinstated) \subseteq Reservations \X Quantities
  BY DEF Ledger!Units, Ledger!Quantities, UnitsOf, Quantities
<1> QED
  BY <1>1, <1>2

LEMMA StepLedger ==
  ASSUME BookingInv, RowsAgree, [Next]_vars
  PROVE  [Ledger!Next]_<<offered, Bookings>>
<1>1. TypeOK
  BY DEF BookingInv
<1>2. CASE UNCHANGED <<reservations, offered, reinstated>>
  BY <1>2 DEF Bookings
<1>3. ASSUME NEW h \in Handlers, StoreItem(h) \/ SaveItem(h)
      PROVE  Ledger!Next
  <2> DEFINE i == request[h].item
             q == request[h].value.quantity
  <2>1. i \in Items /\ q \in Quantities
    BY <1>1, <1>3, RequestFields DEF StoreItem, SaveItem, ItemRow
  <2>2. /\ offered' = [offered EXCEPT ![i] = Larger(q, Firm(i))]
        /\ UNCHANGED <<reservations, reinstated>>
    BY <1>3 DEF StoreItem, SaveItem
  <2>3. Ledger!Promise(i, q)
    BY <2>2, TakenIsFirm DEF Ledger!Promise, Larger, Bookings
  <2> QED
    BY <2>1, <2>3 DEF Ledger!Next, Ledger!Quantities, Quantities
<1>4. ASSUME NEW h \in Handlers, StoreReservation(h)
      PROVE  Ledger!Next
  <2> DEFINE r == request[h].reservation
             i == request[h].item
             q == request[h].quantity
  <2>1. /\ r \in Reservations /\ i \in Items /\ q \in Quantities
        /\ reservations[r].status = "absent"
        /\ reservations' = [reservations EXCEPT ![r] =
                              [status |-> "confirmed", item |-> i, quantity |-> q, thanked |-> FALSE]]
        /\ UNCHANGED <<offered, reinstated>>
    BY <1>1, <1>4, Inserted
  <2>2. r \notin reinstated
    BY <2>1 DEF RowsAgree
  <2>3. Bookings[r] = Ledger!NoEntry
    BY <2>1 DEF RowsAgree, Bookings, Ledger!NoEntry, Ledger!Entry
  <2>4. Ledger!Taken(i) + q <= offered[i]
    BY <1>4, <2>1, TakenIsFirm DEF StoreReservation, BookingInv, CountedUnitsStayFree
  <2>5. Bookings' = [Bookings EXCEPT ![r] = Ledger!Entry(i, q, TRUE)]
    BY <1>1, <2>1, <2>2 DEF Bookings, Ledger!Entry, TypeOK
  <2> QED
    BY <2>1, <2>3, <2>4, <2>5
       DEF Ledger!Next, Ledger!Book, Ledger!Quantities, Quantities
<1>5. ASSUME NEW h \in Handlers, SaveReservation(h)
      PROVE  [Ledger!Next]_<<offered, Bookings>>
  <2> DEFINE r == request[h].reservation
             value == request[h].value
             firm == value.status = "confirmed" /\ r \notin reinstated'
  <2>1. /\ r \in Reservations
        /\ reservations[r].status # "absent" /\ value.status # "absent"
        /\ value.item = reservations[r].item
        /\ value.quantity = reservations[r].quantity
        /\ reservations' = [reservations EXCEPT ![r] = value]
        /\ reinstated' = IF reservations[r].status = "canceled" /\ value.status = "confirmed"
                         THEN reinstated \cup {r} ELSE reinstated
        /\ UNCHANGED offered
    BY <1>5, Saved
  <2>2. reservations[r].status \in {"confirmed", "canceled"}
    BY <1>1, <2>1 DEF TypeOK, ReservationRow
  <2>3. Bookings' = [Bookings EXCEPT ![r] = Ledger!Entry(Bookings[r].item, Bookings[r].quantity, firm)]
    <3>1. \A s \in Reservations \ {r} : Bookings'[s] = Bookings[s]
      BY <1>1, <2>1 DEF Bookings, TypeOK
    <3>2. Bookings'[r] = Ledger!Entry(Bookings[r].item, Bookings[r].quantity, firm)
      BY <1>1, <2>1 DEF Bookings, Ledger!Entry, TypeOK
    <3> QED
      BY <2>1, <3>1, <3>2 DEF Bookings
  <2>4. CASE firm
    <3>1. Bookings[r].firm = TRUE
      BY <2>1, <2>2, <2>4 DEF Bookings
    <3>2. Bookings[r] = Ledger!Entry(Bookings[r].item, Bookings[r].quantity, TRUE)
      BY <2>1, <3>1 DEF Bookings, Ledger!Entry
    <3>3. Ledger!Entry(Bookings[r].item, Bookings[r].quantity, firm) = Bookings[r]
      BY <2>4, <3>2
    <3>4. Bookings' = [Bookings EXCEPT ![r] = Bookings[r]]
      BY <2>3, <3>3, Zenon
    <3>5. Bookings' = Bookings
      <4> HIDE DEF r, value, firm
      <4>1. Bookings = [s \in Reservations |-> Bookings[s]]
        BY DEF Bookings
      <4> QED
        BY <2>1, <3>4, <4>1
    <3> QED
      BY <2>1, <3>5
  <2>5. CASE ~firm
    <3>1. Bookings[r] # Ledger!NoEntry
      <4>1. Bookings[r].quantity \in Quantities
        BY <2>1 DEF RowsAgree, Bookings
      <4>2. Ledger!NoEntry.quantity = 0
        BY DEF Ledger!NoEntry, Ledger!Entry
      <4>3. 0 \notin Quantities
        BY GiftAssumption DEF Quantities
      <4> QED
        BY <4>1, <4>2, <4>3, Zenon
    <3>2. firm = FALSE
      BY <2>5
    <3>3. Ledger!GiveBack(r)
      BY <2>1, <2>3, <3>1, <3>2 DEF Ledger!GiveBack
    <3> QED
      BY <2>1, <3>3 DEF Ledger!Next
  <2> QED
    BY <2>4, <2>5
<1> QED
  BY <1>1, <1>2, <1>3, <1>4, <1>5, LedgerWriters

\* Whatever interleaves, the requests on the tables do what GiftLedger promises:
\* bookings are taken at once and within what the owner stands by, keep their
\* item and quantity, and once canceled never count again.
THEOREM Implements == Spec => KeepsLedger
<1>1. Init => Ledger!Init
  <2> SUFFICES ASSUME Init PROVE Ledger!Init
    OBVIOUS
  <2>1. \A r \in Reservations :
          /\ reservations[r].item = Nil /\ reservations[r].quantity = 0
          /\ (reservations[r].status = "confirmed" /\ r \notin reinstated) = FALSE
    BY DEF Init
  <2>2. Bookings = [r \in Reservations |-> Ledger!NoEntry]
    BY <2>1 DEF Bookings, Ledger!NoEntry, Ledger!Entry
  <2> QED
    BY <2>2 DEF Init, Ledger!Init
<1>2. BookingInv /\ RowsAgree /\ [Next]_vars => [Ledger!Next]_<<offered, Bookings>>
  BY StepLedger
<1> QED
  BY <1>1, <1>2, RowsHold, PTL DEF Spec, KeepsLedger, Ledger!Spec

=============================================================================
