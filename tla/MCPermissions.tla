----------------------------- MODULE MCPermissions -----------------------------
(* Small instances of Permissions. *)
EXTENDS Permissions, TLC

CONSTANTS k1, k2, root, settings, people, invites

AllLists == (SUBSET Perms) \ {{}}

\* One key names a menu two levels down, the other a resource without a menu.
MenuOfKey == (k1 :> invites) @@ (k2 :> Nil)

Item(parent, active) == [parent |-> parent, active |-> active]
OneTree ==
  {(root :> Item(Nil, FALSE)) @@ (settings :> Item(root, TRUE))
     @@ (people :> Item(settings, TRUE)) @@ (invites :> Item(people, TRUE))}

\* A move that closes a circle.
Moves == {[menu |-> people, parent |-> invites, active |-> Nil]}

Symmetric == Permutations(Perms) \cup Permutations(Handlers)
=============================================================================
