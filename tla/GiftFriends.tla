----------------------------- MODULE GiftFriends -----------------------------
(***************************************************************************)
(* Friend connections: the gift_friends rows two users share, as the       *)
(* friend methods of the gift service read and write them.  A connection   *)
(* is asked for by one user and accepted or rejected by the other; either  *)
(* may delete it.                                                          *)
(*                                                                         *)
(* No method opens a transaction, so each is a read and, later, a write of *)
(* the whole row that was read; requests of both users overlap freely.     *)
(***************************************************************************)
EXTENDS FiniteSets

CONSTANTS
  Users,    \* account ids
  Friends,  \* ids of gift_friends rows
  Handlers  \* goroutines serving requests

Statuses == {"pending", "accepted", "rejected"}

\* CHECK gift_friends_no_self holds of every row that is written.
Row == {row \in [requester: Users, addressee: Users, status: Statuses] :
          row.requester # row.addressee}

Absent == [state |-> "absent"]
Idle == [op |-> "idle"]

Requests ==
  {Idle}
  \cup [op: {"store", "save"}, friend: Friends, row: Row]
  \cup [op: {"delete"}, friend: Friends]

VARIABLES
  friends,  \* gift_friends: absent, live or soft-deleted rows
  request,  \* what each handler holds between two database calls
  asked,    \* history: <<a, b>> when a asked b
  agreed    \* history: <<a, b, f>> when b accepted row f as asked by a

vars == <<friends, request, asked, agreed>>
history == <<asked, agreed>>

Live(f) == friends[f].state = "live"
Between(row, u, v) == {row.requester, row.addressee} = {u, v}

Start(h, r) == request[h] = Idle /\ request' = [request EXCEPT ![h] = r]
Finish(h) == request' = [request EXCEPT ![h] = Idle]

\* The partial unique index over the unordered pair lets this row be live.
PairFree(f, row) ==
  \A g \in Friends \ {f} :
    Live(g) => ~Between(friends[g].row, row.requester, row.addressee)

-----------------------------------------------------------------------------

\* Mutant: the query also finds rows that were deleted.
FoundDeleted(f, u, v) == friends[f].state # "absent" /\ Between(friends[f].row, u, v)

\* FindBetweenUsers
Found(f, u, v) == Live(f) /\ Between(friends[f].row, u, v)

\* Mutant: asking again forgets to turn the row round.
AskedAgainUnturned(row, u, v) == [row EXCEPT !.requester = u, !.status = "pending"]

AskedAgain(row, u, v) == [row EXCEPT !.requester = u, !.addressee = v, !.status = "pending"]

\* RequestFriend where the two share a rejected row: it is asked again, by u.
\* A pending or accepted row is returned as it is, and nothing is written.
ReadForRequestAgain(h, u, v, f) ==
  /\ u # v
  /\ Found(f, u, v) /\ friends[f].row.status = "rejected"
  /\ Start(h, [op |-> "save", friend |-> f, row |-> AskedAgain(friends[f].row, u, v)])
  /\ asked' = asked \cup {<<u, v>>}
  /\ UNCHANGED <<friends, agreed>>

\* RequestFriend where they share none; f is a fresh UUID.
ReadForRequest(h, u, v, f) ==
  /\ u # v
  /\ \A g \in Friends : ~Found(g, u, v)
  /\ friends[f] = Absent
  /\ \A g \in Handlers : request[g].op = "store" => request[g].friend # f
  /\ Start(h, [op |-> "store", friend |-> f,
               row |-> [requester |-> u, addressee |-> v, status |-> "pending"]])
  /\ asked' = asked \cup {<<u, v>>}
  /\ UNCHANGED <<friends, agreed>>

\* Mutant: the pair has no unique index.
StoreFriendTwice(h) ==
  LET r == request[h]
  IN  /\ r.op = "store" /\ friends[r.friend] = Absent
      /\ friends' = [friends EXCEPT ![r.friend] = [state |-> "live", row |-> r.row]]
      /\ Finish(h)
      /\ UNCHANGED history

\* The INSERT fails on the unique index where the other user was first.
StoreFriend(h) ==
  LET r == request[h]
  IN  /\ r.op = "store" /\ friends[r.friend] = Absent
      /\ friends' = IF PairFree(r.friend, r.row)
                    THEN [friends EXCEPT ![r.friend] = [state |-> "live", row |-> r.row]]
                    ELSE friends
      /\ Finish(h)
      /\ UNCHANGED history

\* AcceptFriend: only by the addressee, only while pending.
ReadForAccept(h, u, f) ==
  LET row == friends[f].row
  IN  /\ Live(f) /\ row.addressee = u /\ row.status = "pending"
      /\ Start(h, [op |-> "save", friend |-> f, row |-> [row EXCEPT !.status = "accepted"]])
      /\ agreed' = agreed \cup {<<row.requester, u, f>>}
      /\ UNCHANGED <<friends, asked>>

\* Mutant: a connection can be rejected whatever its status.
ReadForRejectAnyTime(h, u, f) ==
  LET row == friends[f].row
  IN  /\ Live(f) /\ row.addressee = u
      /\ Start(h, [op |-> "save", friend |-> f, row |-> [row EXCEPT !.status = "rejected"]])
      /\ UNCHANGED <<friends, history>>

ReadForReject(h, u, f) ==
  LET row == friends[f].row
  IN  /\ Live(f) /\ row.addressee = u /\ row.status = "pending"
      /\ Start(h, [op |-> "save", friend |-> f, row |-> [row EXCEPT !.status = "rejected"]])
      /\ UNCHANGED <<friends, history>>

\* Mutant: the write sets status alone, on whoever the row now names.
SaveFriendStatus(h) ==
  LET r == request[h]
      row == IF r.row.status = "pending" THEN r.row
             ELSE [friends[r.friend].row EXCEPT !.status = r.row.status]
  IN  /\ r.op = "save"
      /\ friends' = IF PairFree(r.friend, row)
                    THEN [friends EXCEPT ![r.friend] = [state |-> "live", row |-> row]]
                    ELSE friends
      /\ Finish(h)
      /\ UNCHANGED history

\* Save writes every column.  Where the row was deleted meanwhile the UPDATE
\* matches nothing and GORM inserts it again by id: it is live once more, or
\* the insert fails on the unique index of the pair.
SaveFriend(h) ==
  LET r == request[h]
  IN  /\ r.op = "save"
      /\ friends' = IF PairFree(r.friend, r.row)
                    THEN [friends EXCEPT ![r.friend] = [state |-> "live", row |-> r.row]]
                    ELSE friends
      /\ Finish(h)
      /\ UNCHANGED history

ReadForDelete(h, u, f) ==
  /\ Live(f) /\ u \in {friends[f].row.requester, friends[f].row.addressee}
  /\ Start(h, [op |-> "delete", friend |-> f])
  /\ UNCHANGED <<friends, history>>

\* DELETE sets deleted_at where the row is live.
DeleteFriend(h) ==
  LET f == request[h].friend
  IN  /\ request[h].op = "delete"
      /\ friends' = IF Live(f) THEN [friends EXCEPT ![f] = [@ EXCEPT !.state = "deleted"]]
                    ELSE friends
      /\ Finish(h)
      /\ UNCHANGED history

\* A database error, a canceled request or a crash ends the request half-way.
Abort(h) ==
  /\ request[h] # Idle
  /\ Finish(h)
  /\ UNCHANGED <<friends, history>>

-----------------------------------------------------------------------------

Init ==
  /\ friends = [f \in Friends |-> Absent]
  /\ request = [h \in Handlers |-> Idle]
  /\ asked = {}
  /\ agreed = {}

Next ==
  \E h \in Handlers :
    \/ \E f \in Friends, u \in Users :
         \/ \E v \in Users : ReadForRequest(h, u, v, f) \/ ReadForRequestAgain(h, u, v, f)
         \/ ReadForAccept(h, u, f) \/ ReadForReject(h, u, f) \/ ReadForDelete(h, u, f)
    \/ StoreFriend(h) \/ SaveFriend(h) \/ DeleteFriend(h)
    \/ Abort(h)

Spec == Init /\ [][Next]_vars

-----------------------------------------------------------------------------
(* Properties.                                                             *)

\* Every row connects two different users and every handler holds such rows.
TypeOK ==
  /\ friends \in [Friends -> {Absent} \cup [state: {"live", "deleted"}, row: Row]]
  /\ request \in [Handlers -> Requests]
  /\ asked \subseteq Users \X Users
  /\ agreed \subseteq Users \X Users \X Friends

\* Two users never share two live connections, although RequestFriend looks
\* first and inserts later, and a stale Save can bring a deleted one back.
OneRowPerPair ==
  \A f, g \in Friends :
    Live(f) /\ Live(g)
      /\ Between(friends[f].row, friends[g].row.requester, friends[g].row.addressee)
    => f = g

\* The two users of f see each other's lists: the subquery of
\* GetListsByFriendOwners.
Befriended(f) == Live(f) /\ friends[f].row.status = "accepted"

\* Nobody is shown as a friend, and nobody's lists are opened to a friend,
\* unless the row's requester asked and its addressee accepted that very
\* request: no overlap of accepting, rejecting and asking the other way round
\* turns a user's own request into an acceptance.
NoFriendshipWithoutConsent ==
  \A f \in Friends :
    Befriended(f) =>
      LET row == friends[f].row
      IN  /\ <<row.requester, row.addressee>> \in asked
          /\ <<row.requester, row.addressee, f>> \in agreed

Saving(f) == {h \in Handlers : request[h].op = "save" /\ request[h].friend = f}

\* An accepted connection that no older request is still about to overwrite
\* ends by deletion only: a later request or rejection cannot undo it.
SettledFriends(f) ==
  /\ Live(f) /\ friends[f].row.status = "accepted"
  /\ \A h \in Saving(f) : request[h].row.status = "accepted"

FriendshipEndsByDeletion ==
  [][\A f \in Friends : SettledFriends(f) => SettledFriends(f)' \/ friends'[f].state = "deleted"]_vars

\* A deleted connection that no request still holds stays deleted: only a Save
\* of a request that had read it before can bring it back.
SettledDeleted(f) == friends[f].state = "deleted" /\ Saving(f) = {}

DeletedForGood ==
  [][\A f \in Friends : SettledDeleted(f) => SettledDeleted(f)']_vars

-----------------------------------------------------------------------------
(* The inductive invariant behind NoFriendshipWithoutConsent.              *)

\* The requester of this row asked, and if it is accepted the addressee did so.
Consented(f, row) ==
  /\ <<row.requester, row.addressee>> \in asked
  /\ row.status = "accepted" => <<row.requester, row.addressee, f>> \in agreed

ConsentInv ==
  /\ TypeOK
  /\ \A f \in Friends : friends[f] # Absent => Consented(f, friends[f].row)
  /\ \A h \in Handlers :
       request[h].op \in {"store", "save"} => Consented(request[h].friend, request[h].row)

=============================================================================
