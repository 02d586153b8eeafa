------------------------------ MODULE GiftLedger ------------------------------
(***************************************************************************)
(* What the gift service promises about an item, without requests, rows or *)
(* locks: guests book units in one step and never more than the owner      *)
(* stands by; a booking keeps its item and its quantity and, once given    *)
(* back, never counts again; an owner who changes an item stands by the    *)
(* new quantity or by what is booked, whichever is more.                   *)
(***************************************************************************)
EXTENDS Naturals, FiniteSets

CONSTANTS Items, Reservations, MaxQuantity, Nil

VARIABLES
  promised,  \* the units of each item its owner stands by
  booking    \* what each reservation took

Quantities == 1..MaxQuantity

Entry(i, q, firm) == [item |-> i, quantity |-> q, firm |-> firm]
NoEntry == Entry(Nil, 0, FALSE)

\* The units of an item that are taken, one by one.
Units(i) ==
  {u \in Reservations \X Quantities :
     booking[u[1]].firm /\ booking[u[1]].item = i /\ u[2] <= booking[u[1]].quantity}

Taken(i) == Cardinality(Units(i))

Book(r, i, q) ==
  /\ booking[r] = NoEntry
  /\ Taken(i) + q <= promised[i]
  /\ booking' = [booking EXCEPT ![r] = Entry(i, q, TRUE)]
  /\ UNCHANGED promised

GiveBack(r) ==
  /\ booking[r] # NoEntry
  /\ booking' = [booking EXCEPT ![r] = Entry(@.item, @.quantity, FALSE)]
  /\ UNCHANGED promised

Promise(i, q) ==
  /\ promised' = [promised EXCEPT ![i] = IF q > Taken(i) THEN q ELSE Taken(i)]
  /\ UNCHANGED booking

Init ==
  /\ promised = [i \in Items |-> 1]
  /\ booking = [r \in Reservations |-> NoEntry]

Next ==
  \/ \E r \in Reservations, i \in Items, q \in Quantities : Book(r, i, q)
  \/ \E r \in Reservations : GiveBack(r)
  \/ \E i \in Items, q \in Quantities : Promise(i, q)

Spec == Init /\ [][Next]_<<promised, booking>>

=============================================================================
