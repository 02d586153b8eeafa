------------------------------ MODULE MCAccounts ------------------------------
(* Small instances of Accounts. *)
EXTENDS Accounts, TLC

Symmetric == Permutations(Passwords) \cup Permutations(SessionIds) \cup Permutations(Handlers)
=============================================================================
