---------------------------- MODULE MCGiftFriends ----------------------------
(* A small instance of GiftFriends. *)
EXTENDS GiftFriends, TLC

Symmetric == Permutations(Users) \cup Permutations(Friends) \cup Permutations(Handlers)
=============================================================================
