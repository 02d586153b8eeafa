----------------------------- MODULE PairLineage -----------------------------
(***************************************************************************)
(* What signing in and refreshing promise about pairs of tokens, without   *)
(* requests, sessions or a blacklist: a login gives out a new pair, and a  *)
(* refresh gives out in one step a new pair of the same account for a pair *)
(* its client holds, once while that pair's refresh token is valid.        *)
(***************************************************************************)
CONSTANTS Users, Pairs, Nil

VARIABLES
  owner,  \* the account a pair was given out for; Nil before it is
  heirs,  \* the pairs given out in exchange for each pair
  dead    \* pairs whose refresh token has expired

SignIn(u, p) ==
  /\ owner[p] = Nil
  /\ owner' = [owner EXCEPT ![p] = u]
  /\ UNCHANGED <<heirs, dead>>

\* A pair that expires while its exchange is under way may be exchanged again.
Exchange(p, q) ==
  /\ owner[p] # Nil /\ owner[q] = Nil
  /\ heirs[p] = {} \/ p \in dead
  /\ owner' = [owner EXCEPT ![q] = owner[p]]
  /\ heirs' = [heirs EXCEPT ![p] = @ \cup {q}]
  /\ UNCHANGED dead

Expire(p) ==
  /\ dead' = dead \cup {p}
  /\ UNCHANGED <<owner, heirs>>

Init ==
  /\ owner = [p \in Pairs |-> Nil]
  /\ heirs = [p \in Pairs |-> {}]
  /\ dead = {}

Next ==
  \/ \E u \in Users, p \in Pairs : SignIn(u, p)
  \/ \E p, q \in Pairs : Exchange(p, q)
  \/ \E p \in Pairs : Expire(p)

Spec == Init /\ [][Next]_<<owner, heirs, dead>>

=============================================================================
