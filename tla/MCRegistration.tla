---------------------------- MODULE MCRegistration ----------------------------
(* A small instance of Registration: one address asks for codes, another is  *)
(* given an account with the same phone by an administrator.                 *)
EXTENDS Registration, TLC

CONSTANTS ann, bob, phone

OneApplicant == {[email |-> ann, phone |-> phone]}
OneColleague == {[email |-> bob, phone |-> phone]}
Closing == {[key |-> "registration", value |-> FALSE, active |-> Nil]}

Symmetric == Permutations(Codes) \cup Permutations(Handlers) \cup Permutations(Ids)
=============================================================================
