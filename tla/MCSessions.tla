------------------------------ MODULE MCSessions ------------------------------
(* Small instances of Sessions. *)
EXTENDS Sessions, TLC

AnySessions == SUBSET SessionIds
NoSessions == {{}}

Symmetric ==
  Permutations(Users) \cup Permutations(SessionIds) \cup Permutations(Pairs)
    \cup Permutations(Handlers)
=============================================================================
