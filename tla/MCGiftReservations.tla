------------------------- MODULE MCGiftReservations -------------------------
(***************************************************************************)
(* Small instances of GiftReservations: one owner, one or two lists.       *)
(***************************************************************************)
EXTENDS GiftReservations, TLC

CONSTANTS owner, l1, i1, i2

MCOwnerOf == [l \in Lists |-> owner]
MCListOf == [i \in Items |-> l1]

\* Bodies of the owner's requests.
PublicList == {[public |-> TRUE, never |-> Nil, expiry |-> Nil]}
SomeLists == {[public |-> TRUE, never |-> Nil, expiry |-> Nil],
              [public |-> TRUE, never |-> TRUE, expiry |-> 1],
              [public |-> TRUE, never |-> FALSE, expiry |-> 1],
              [public |-> FALSE, never |-> FALSE, expiry |-> Nil]}
Keep == [public |-> Nil, active |-> Nil, never |-> Nil, expiry |-> Nil]
SomeListUpdates == {[Keep EXCEPT !.public = FALSE], [Keep EXCEPT !.active = FALSE],
                    [Keep EXCEPT !.never = TRUE], [Keep EXCEPT !.never = FALSE],
                    [Keep EXCEPT !.expiry = 2], [Keep EXCEPT !.never = TRUE, !.expiry = 1]}

OneOfOne == {[quantity |-> 1, priority |-> 0]}
OneOfTwo == {[quantity |-> 2, priority |-> 0]}
Same == [quantity |-> Nil, priority |-> Nil, active |-> Nil, archived |-> Nil]
Touch == {Same}
SomeItemUpdates == {[Same EXCEPT !.quantity = 1], [Same EXCEPT !.quantity = 2],
                    [Same EXCEPT !.archived = TRUE]}
Requantify == {[Same EXCEPT !.quantity = 1]}
Hide == {[Same EXCEPT !.active = FALSE], [Same EXCEPT !.priority = 1]}

\* Reorder requests that lock two rows in opposite orders; one names a row twice.
OppositeOrders == {<<[item |-> i1, priority |-> 0], [item |-> i2, priority |-> 1]>>,
                   <<[item |-> i2, priority |-> 1], [item |-> i1, priority |-> 1],
                     [item |-> i2, priority |-> 0]>>}

Guests == Permutations(Reservations)
GuestsAndHandlers == Permutations(Reservations) \cup Permutations(Handlers)
=============================================================================
