-------------------------- MODULE GiftFriendsProofs --------------------------
(***************************************************************************)
(* TLAPS proofs about GiftFriends, for any sets of users, rows and         *)
(* handlers.                                                               *)
(***************************************************************************)
EXTENDS GiftFriends, TLAPS

LEMMA RowsAndRequests ==
  ASSUME TypeOK
  PROVE  /\ \A f \in Friends :
              \/ friends[f] = Absent
              \/ friends[f] \in [state: {"live", "deleted"}, row: Row]
         /\ \A f \in Friends : Live(f) => friends[f].row \in Row /\ friends[f] # Absent
         /\ \A h \in Handlers :
              /\ request[h] \in Requests
              /\ request[h].op \in {"store", "save"} =>
                   request[h].friend \in Friends /\ request[h].row \in Row
              /\ request[h].op = "delete" => request[h].friend \in Friends
  BY DEF TypeOK, Requests, Idle, Live, Absent

\* Asking, accepting and rejecting turn a row of two users into another one.
LEMMA RowTypes ==
  ASSUME NEW row \in Row
  PROVE  /\ \A s \in Statuses : [row EXCEPT !.status = s] \in Row
         /\ \A u, v \in Users : u # v => AskedAgain(row, u, v) \in Row
         /\ \A u, v \in Users : u # v =>
              [requester |-> u, addressee |-> v, status |-> "pending"] \in Row
  BY DEF Row, AskedAgain, Statuses

\* What a request starts or ends with is well typed and carries consent.
LEMMA RequestStep ==
  ASSUME ConsentInv, NEW h \in Handlers, NEW r \in Requests,
         request' = [request EXCEPT ![h] = r], friends' = friends,
         asked \subseteq asked', asked' \subseteq Users \X Users,
         agreed \subseteq agreed', agreed' \subseteq Users \X Users \X Friends,
         r.op \in {"store", "save"} =>
           /\ <<r.row.requester, r.row.addressee>> \in asked'
           /\ r.row.status = "accepted" => <<r.row.requester, r.row.addressee, r.friend>> \in agreed'
  PROVE  ConsentInv'
<1>1. TypeOK'
  BY DEF ConsentInv, TypeOK
<1>2. \A f \in Friends : friends'[f] # Absent => Consented(f, friends[f].row)'
  BY DEF ConsentInv, Consented
<1>3. ASSUME NEW g \in Handlers, request'[g].op \in {"store", "save"}
      PROVE  Consented(request[g].friend, request[g].row)'
  <2>1. CASE g = h
    <3>1. request'[h] = r
      BY DEF ConsentInv, TypeOK
    <3> QED
      BY <1>3, <2>1, <3>1 DEF Consented
  <2>2. CASE g # h
    <3>1. request'[g] = request[g]
      BY <2>2 DEF ConsentInv, TypeOK
    <3> QED
      BY <1>3, <3>1 DEF Consented, ConsentInv
  <2> QED
    BY <2>1, <2>2
<1> QED
  BY <1>1, <1>2, <1>3 DEF ConsentInv

\* A write of a row that carries consent, or of none.
LEMMA WriteStep ==
  ASSUME ConsentInv, NEW h \in Handlers, NEW f \in Friends, NEW row \in Row, Consented(f, row),
         NEW state \in {"live", "deleted"},
         \/ friends' = friends
         \/ friends' = [friends EXCEPT ![f] = [state |-> state, row |-> row]],
         request' = [request EXCEPT ![h] = Idle], UNCHANGED history
  PROVE  ConsentInv'
<1>1. TypeOK'
  BY DEF ConsentInv, TypeOK, Requests, history
<1>2. ASSUME NEW g \in Friends, friends'[g] # Absent
      PROVE  Consented(g, friends[g].row)'
  <2>1. CASE friends'[g] = friends[g]
    BY <1>2, <2>1 DEF ConsentInv, Consented, history
  <2>2. CASE g = f /\ friends'[g] = [state |-> state, row |-> row]
    BY <2>2 DEF Consented, history
  <2> QED
    BY <2>1, <2>2 DEF ConsentInv, TypeOK
<1>3. ASSUME NEW g \in Handlers, request'[g].op \in {"store", "save"}
      PROVE  Consented(request[g].friend, request[g].row)'
  <2>1. request'[g] = request[g]
    BY <1>3 DEF ConsentInv, TypeOK, Idle
  <2>2. Consented(request[g].friend, request[g].row)
    BY <1>3, <2>1 DEF ConsentInv
  <2> QED
    BY <2>1, <2>2 DEF Consented, history
<1> QED
  BY <1>1, <1>2, <1>3 DEF ConsentInv

LEMMA StepConsent == ConsentInv /\ [Next]_vars => ConsentInv'
<1> SUFFICES ASSUME ConsentInv, [Next]_vars PROVE ConsentInv'
  OBVIOUS
<1>0. TypeOK
  BY DEF ConsentInv
<1>1. CASE UNCHANGED vars
  BY <1>1 DEF vars, ConsentInv, TypeOK, Consented
<1>2. ASSUME NEW h \in Handlers, NEW f \in Friends, NEW u \in Users, NEW v \in Users,
             ReadForRequest(h, u, v, f) \/ ReadForRequestAgain(h, u, v, f)
      PROVE  ConsentInv'
  <2>1. ASSUME NEW row \in Row, NEW op \in {"store", "save"},
               row.requester = u, row.addressee = v, row.status = "pending",
               Start(h, [op |-> op, friend |-> f, row |-> row])
        PROVE  ConsentInv'
    <3>1. [op |-> op, friend |-> f, row |-> row] \in Requests
      BY DEF Requests
    <3>2. /\ asked' = asked \cup {<<u, v>>} /\ agreed' = agreed /\ friends' = friends
          /\ asked \subseteq Users \X Users /\ agreed \subseteq Users \X Users \X Friends
      BY <1>0, <1>2 DEF ReadForRequest, ReadForRequestAgain, TypeOK
    <3>3. [op |-> op, friend |-> f, row |-> row].row = row
      OBVIOUS
    <3> DEFINE r == [op |-> op, friend |-> f, row |-> row]
    <3>4. /\ request' = [request EXCEPT ![h] = r]
          /\ <<r.row.requester, r.row.addressee>> \in asked' /\ r.row.status # "accepted"
      BY <2>1, <3>2, <3>3 DEF Start
    <3>5. asked' \subseteq Users \X Users
      BY <3>2
    <3> HIDE DEF r
    <3> QED
      BY <3>1, <3>2, <3>4, <3>5, RequestStep DEF r
  <2>2. CASE ReadForRequest(h, u, v, f)
    <3>1. u # v /\ Start(h, [op |-> "store", friend |-> f,
                             row |-> [requester |-> u, addressee |-> v, status |-> "pending"]])
      BY <2>2 DEF ReadForRequest
    <3>2. [requester |-> u, addressee |-> v, status |-> "pending"] \in Row
      BY <3>1 DEF Row, Statuses
    <3> QED
      BY <2>1, <3>1, <3>2
  <2>3. CASE ReadForRequestAgain(h, u, v, f)
    <3>1. /\ u # v /\ friends[f].row \in Row
          /\ Start(h, [op |-> "save", friend |-> f, row |-> AskedAgain(friends[f].row, u, v)])
      BY <1>0, <2>3, RowsAndRequests DEF ReadForRequestAgain, Found
    <3>2. AskedAgain(friends[f].row, u, v) \in Row
      BY <3>1, RowTypes
    <3>3. /\ AskedAgain(friends[f].row, u, v).requester = u
          /\ AskedAgain(friends[f].row, u, v).addressee = v
          /\ AskedAgain(friends[f].row, u, v).status = "pending"
      BY <3>1 DEF AskedAgain, Row
    <3> QED
      BY <2>1, <3>1, <3>2, <3>3
  <2> QED
    BY <1>2, <2>2, <2>3
<1>3. ASSUME NEW h \in Handlers, NEW f \in Friends, NEW u \in Users,
             ReadForAccept(h, u, f) \/ ReadForReject(h, u, f)
      PROVE  ConsentInv'
  <2> DEFINE row == friends[f].row
             accepted == [row EXCEPT !.status = "accepted"]
             rejected == [row EXCEPT !.status = "rejected"]
  <2>1. /\ row \in Row /\ row.addressee = u
        /\ <<row.requester, row.addressee>> \in asked
    BY <1>0, <1>3, RowsAndRequests DEF ReadForAccept, ReadForReject, ConsentInv, Consented
  <2>2. /\ accepted \in Row /\ rejected \in Row /\ row.requester \in Users
        /\ accepted.requester = row.requester /\ accepted.addressee = u
        /\ rejected.requester = row.requester /\ rejected.addressee = u
        /\ rejected.status = "rejected"
    BY <2>1 DEF Row, Statuses
  <2>3. /\ [op |-> "save", friend |-> f, row |-> accepted] \in Requests
        /\ [op |-> "save", friend |-> f, row |-> rejected] \in Requests
    BY <2>2 DEF Requests
  <2>4. asked \subseteq Users \X Users /\ agreed \subseteq Users \X Users \X Friends
    BY <1>0 DEF TypeOK
  <2>5. CASE ReadForAccept(h, u, f)
    <3>1. /\ Start(h, [op |-> "save", friend |-> f, row |-> accepted])
          /\ agreed' = agreed \cup {<<row.requester, u, f>>}
          /\ friends' = friends /\ asked' = asked
      BY <2>5 DEF ReadForAccept
    <3> DEFINE r == [op |-> "save", friend |-> f, row |-> accepted]
    <3>2. /\ r \in Requests /\ request' = [request EXCEPT ![h] = r]
          /\ r.row = accepted /\ r.friend = f
      BY <2>3, <3>1 DEF Start
    <3> HIDE DEF r, accepted, row
    <3>3. /\ <<r.row.requester, r.row.addressee>> \in asked'
          /\ <<r.row.requester, r.row.addressee, r.friend>> \in agreed'
          /\ agreed' \subseteq Users \X Users \X Friends
      BY <2>1, <2>2, <2>4, <3>1, <3>2
    <3> QED
      BY <2>4, <3>1, <3>2, <3>3, RequestStep
  <2>6. CASE ReadForReject(h, u, f)
    <3>1. /\ Start(h, [op |-> "save", friend |-> f, row |-> rejected])
          /\ friends' = friends /\ asked' = asked /\ agreed' = agreed
      BY <2>6 DEF ReadForReject, history
    <3> DEFINE r == [op |-> "save", friend |-> f, row |-> rejected]
    <3>2. /\ r \in Requests /\ request' = [request EXCEPT ![h] = r]
          /\ r.row = rejected
      BY <2>3, <3>1 DEF Start
    <3> HIDE DEF r, rejected, row
    <3>3. <<r.row.requester, r.row.addressee>> \in asked' /\ r.row.status # "accepted"
      BY <2>1, <2>2, <3>1, <3>2
    <3> QED
      BY <2>4, <3>1, <3>2, <3>3, RequestStep
  <2> QED
    BY <1>3, <2>5, <2>6
<1>4. ASSUME NEW h \in Handlers, NEW f \in Friends, NEW u \in Users, ReadForDelete(h, u, f)
      PROVE  ConsentInv'
  <2>1. [op |-> "delete", friend |-> f] \in Requests
    BY DEF Requests
  <2> QED
    BY <1>0, <1>4, <2>1, RequestStep DEF ReadForDelete, Start, history, TypeOK
<1>5. ASSUME NEW h \in Handlers, StoreFriend(h) \/ SaveFriend(h)
      PROVE  ConsentInv'
  <2>1. /\ request[h].friend \in Friends /\ request[h].row \in Row
        /\ Consented(request[h].friend, request[h].row)
    BY <1>0, <1>5, RowsAndRequests DEF StoreFriend, SaveFriend, ConsentInv
  <2> QED
    BY <1>5, <2>1, WriteStep DEF StoreFriend, SaveFriend, Finish
<1>6. ASSUME NEW h \in Handlers, DeleteFriend(h)
      PROVE  ConsentInv'
  <2> DEFINE f == request[h].friend
  <2>1. /\ f \in Friends
        /\ request' = [request EXCEPT ![h] = Idle] /\ UNCHANGED history
        /\ friends' = IF Live(f) THEN [friends EXCEPT ![f] = [friends[f] EXCEPT !.state = "deleted"]]
                      ELSE friends
    BY <1>0, <1>6, RowsAndRequests DEF DeleteFriend, Finish
  <2>2. CASE Live(f)
    <3>1. /\ friends[f] \in [state: {"live", "deleted"}, row: Row]
          /\ friends[f].row \in Row /\ Consented(f, friends[f].row)
      BY <1>0, <2>1, <2>2, RowsAndRequests DEF ConsentInv
    <3>2. [friends[f] EXCEPT !.state = "deleted"] = [state |-> "deleted", row |-> friends[f].row]
      BY <3>1
    <3> HIDE DEF f
    <3> QED
      BY <2>1, <2>2, <3>1, <3>2, WriteStep
  <2>3. CASE ~Live(f)
    BY <1>0, <2>1, <2>3, RequestStep DEF history, TypeOK, Requests, Idle
  <2> QED
    BY <2>2, <2>3
<1>7. ASSUME NEW h \in Handlers, Abort(h)
      PROVE  ConsentInv'
  BY <1>0, <1>7, RequestStep DEF Abort, Finish, history, TypeOK, Requests, Idle
<1> QED
  BY <1>1, <1>2, <1>3, <1>4, <1>5, <1>6, <1>7 DEF Next

\* Rows and locals keep their shape, and every row, stored or about to be,
\* was asked for by its requester and, if accepted, accepted by its addressee.
THEOREM ConsentHolds == Spec => []ConsentInv
<1>1. Init => ConsentInv
  BY DEF Init, ConsentInv, TypeOK, Requests, Idle, Absent
<1> QED
  BY <1>1, StepConsent, PTL DEF Spec

\* The rows and the handlers' locals are well typed.
THEOREM FriendTypes == Spec => []TypeOK
  BY ConsentHolds, PTL DEF ConsentInv

\* A connection that shows two users as friends was asked for by its requester
\* and accepted, as that request, by its addressee.
THEOREM FriendshipNeedsConsent == Spec => []NoFriendshipWithoutConsent
<1>1. ConsentInv => NoFriendshipWithoutConsent
  <2> SUFFICES ASSUME ConsentInv, NEW f \in Friends, Befriended(f)
               PROVE  Consented(f, friends[f].row)
    BY DEF NoFriendshipWithoutConsent, Befriended, Consented
  <2> QED
    BY RowsAndRequests DEF Befriended, ConsentInv
<1> QED
  BY <1>1, ConsentHolds, PTL

\* Two live rows never connect the same two users.
THEOREM OneConnection == Spec => []OneRowPerPair
<1>1. Init => OneRowPerPair
  BY DEF Init, OneRowPerPair, Live, Absent
<1>2. TypeOK /\ OneRowPerPair /\ [Next]_vars => OneRowPerPair'
  <2> SUFFICES ASSUME TypeOK, OneRowPerPair, [Next]_vars PROVE OneRowPerPair'
    OBVIOUS
  <2>1. CASE friends' = friends
    BY <2>1 DEF OneRowPerPair, Live, Between
  <2>2. ASSUME NEW h \in Handlers, NEW f \in Friends, NEW row, PairFree(f, row),
               friends' = [friends EXCEPT ![f] = [state |-> "live", row |-> row]]
        PROVE  OneRowPerPair'
    <3>1. /\ friends'[f] = [state |-> "live", row |-> row]
          /\ \A g \in Friends \ {f} : friends'[g] = friends[g]
      BY <2>2 DEF TypeOK
    <3>2. friends'[f].row = row
      BY <3>1
    <3>3. ASSUME NEW g \in Friends \ {f}, Live(g)'
          PROVE  {friends[g].row.requester, friends[g].row.addressee}
                   # {row.requester, row.addressee}
      BY <2>2, <3>1, <3>3 DEF PairFree, Live, Between
    <3> SUFFICES ASSUME NEW g \in Friends, NEW k \in Friends, Live(g)', Live(k)',
                        {friends'[g].row.requester, friends'[g].row.addressee}
                          = {friends'[k].row.requester, friends'[k].row.addressee}
                 PROVE  g = k
      BY DEF OneRowPerPair, Between
    <3>4. CASE g # f /\ k # f
      BY <3>1, <3>4 DEF OneRowPerPair, Live, Between
    <3>5. CASE g = f \/ k = f
      BY <3>1, <3>2, <3>3, <3>5
    <3> QED
      BY <3>4, <3>5
  <2>3. ASSUME NEW h \in Handlers, StoreFriend(h) \/ SaveFriend(h)
        PROVE  OneRowPerPair'
    <3>1. request[h].friend \in Friends
      BY <2>3, RowsAndRequests DEF StoreFriend, SaveFriend
    <3> QED
      BY <2>1, <2>2, <2>3, <3>1 DEF StoreFriend, SaveFriend
  <2>4. ASSUME NEW h \in Handlers, DeleteFriend(h)
        PROVE  OneRowPerPair'
    <3> DEFINE f == request[h].friend
    <3>1. f \in Friends
      BY <2>4, RowsAndRequests DEF DeleteFriend
    <3>2. \A g \in Friends : friends'[g].state = "live" => friends'[g] = friends[g]
      <4>1. CASE ~Live(f)
        BY <2>4, <4>1 DEF DeleteFriend
      <4>2. CASE Live(f)
        <5>1. [friends[f] EXCEPT !.state = "deleted"].state = "deleted"
          BY <3>1, <4>2, RowsAndRequests
        <5> QED
          BY <2>4, <3>1, <4>2, <5>1 DEF DeleteFriend, TypeOK
      <4> QED
        BY <4>1, <4>2
    <3> QED
      BY <3>2 DEF OneRowPerPair, Live, Between
  <2>5. ASSUME NEW h \in Handlers,
               \/ Abort(h)
               \/ \E f \in Friends, u \in Users :
                    \/ \E v \in Users : ReadForRequest(h, u, v, f) \/ ReadForRequestAgain(h, u, v, f)
                    \/ ReadForAccept(h, u, f) \/ ReadForReject(h, u, f) \/ ReadForDelete(h, u, f)
        PROVE  friends' = friends
    <3>1. \A f \in Friends, u \in Users, v \in Users :
            ReadForRequest(h, u, v, f) \/ ReadForRequestAgain(h, u, v, f) => friends' = friends
      BY DEF ReadForRequest, ReadForRequestAgain
    <3>2. \A f \in Friends, u \in Users :
            ReadForAccept(h, u, f) \/ ReadForReject(h, u, f) => friends' = friends
      BY DEF ReadForAccept, ReadForReject
    <3>3. \A f \in Friends, u \in Users :
            ReadForDelete(h, u, f) => friends' = friends
      BY DEF ReadForDelete
    <3>4. Abort(h) => friends' = friends
      BY DEF Abort
    <3> QED
      BY <2>5, <3>1, <3>2, <3>3, <3>4
  <2>6. CASE UNCHANGED vars
    BY <2>1, <2>6 DEF vars
  <2> QED
    BY <2>1, <2>3, <2>4, <2>5, <2>6 DEF Next
<1> QED
  BY <1>1, <1>2, FriendTypes, PTL DEF Spec

-----------------------------------------------------------------------------
(* What a connection may never become.                                     *)

\* A handler comes to hold a row only by reading one that is live and that nobody
\* has accepted.
LEMMA SavesStarted ==
  ASSUME TypeOK, [Next]_vars, NEW h \in Handlers, request'[h].op = "save"
  PROVE  \/ request'[h] = request[h]
         \/ LET f == request'[h].friend
            IN  friends' = friends /\ Live(f) /\ friends[f].row.status # "accepted"
<1>1. ASSUME NEW g \in Handlers, NEW r, request' = [request EXCEPT ![g] = r]
      PROVE  /\ request'[g] = r /\ \A k \in Handlers \ {g} : request'[k] = request[k]
  BY <1>1 DEF TypeOK
<1>2. ASSUME NEW g \in Handlers, Finish(g)
      PROVE  request'[h] = request[h]
  <2>1. request'[g] = Idle /\ \A k \in Handlers \ {g} : request'[k] = request[k]
    BY <1>1, <1>2 DEF Finish
  <2> QED
    BY <2>1 DEF Idle
<1>3. ASSUME NEW g \in Handlers, NEW f, NEW r, NEW op, Start(g, [op |-> op, friend |-> f, row |-> r])
      PROVE  request'[h] = request[h] \/ (request'[h].friend = f /\ op = "save")
  <2>1. /\ request'[g] = [op |-> op, friend |-> f, row |-> r]
        /\ \A k \in Handlers \ {g} : request'[k] = request[k]
    BY <1>1, <1>3 DEF Start
  <2>2. request'[g].op = op /\ request'[g].friend = f
    BY <2>1
  <2> QED
    BY <2>1, <2>2
<1>4. ASSUME NEW g \in Handlers, NEW f, Start(g, [op |-> "delete", friend |-> f])
      PROVE  request'[h] = request[h]
  <2>1. /\ request'[g] = [op |-> "delete", friend |-> f]
        /\ \A k \in Handlers \ {g} : request'[k] = request[k]
    BY <1>1, <1>4 DEF Start
  <2> QED
    BY <2>1
<1>5. ASSUME NEW g \in Handlers, NEW f \in Friends, NEW u \in Users, NEW v \in Users,
             ReadForRequest(g, u, v, f)
      PROVE  request'[h] = request[h]
  BY <1>3, <1>5 DEF ReadForRequest
<1>6. ASSUME NEW g \in Handlers, NEW f \in Friends, NEW u \in Users, NEW v \in Users,
             \/ ReadForRequestAgain(g, u, v, f)
             \/ ReadForAccept(g, u, f) \/ ReadForReject(g, u, f)
      PROVE  \/ request'[h] = request[h]
             \/ /\ request'[h].friend = f
                /\ friends' = friends /\ Live(f) /\ friends[f].row.status # "accepted"
  <2>1. friends' = friends /\ Live(f) /\ friends[f].row.status # "accepted"
    BY <1>6 DEF ReadForRequestAgain, ReadForAccept, ReadForReject, Found
  <2>2. \E r : Start(g, [op |-> "save", friend |-> f, row |-> r])
    BY <1>6 DEF ReadForRequestAgain, ReadForAccept, ReadForReject
  <2> QED
    BY <1>3, <2>1, <2>2
<1>7. ASSUME NEW g \in Handlers, NEW f \in Friends, NEW u \in Users, ReadForDelete(g, u, f)
      PROVE  request'[h] = request[h]
  BY <1>4, <1>7 DEF ReadForDelete
<1>8. ASSUME NEW g \in Handlers, StoreFriend(g) \/ SaveFriend(g) \/ DeleteFriend(g) \/ Abort(g)
      PROVE  request'[h] = request[h]
  BY <1>2, <1>8 DEF StoreFriend, SaveFriend, DeleteFriend, Abort
<1>9. CASE UNCHANGED vars
  BY <1>9 DEF vars
<1> QED
  BY <1>5, <1>6, <1>7, <1>8, <1>9 DEF Next

\* A row changes only by an insertion, by a handler that holds it, or by a deletion.
LEMMA RowWritten ==
  ASSUME TypeOK, [Next]_vars, NEW f \in Friends
  PROVE  \/ friends'[f] = friends[f]
         \/ friends[f] = Absent
         \/ \E h \in Saving(f) : friends'[f].state = "live" /\ friends'[f].row = request[h].row
         \/ Live(f) /\ friends'[f].state = "deleted"
<1>1. friends \in [Friends -> {Absent} \cup [state: {"live", "deleted"}, row: Row]]
  BY DEF TypeOK
<1>2. ASSUME NEW h \in Handlers, StoreFriend(h)
      PROVE  friends'[f] = friends[f] \/ friends[f] = Absent
  BY <1>1, <1>2 DEF StoreFriend
<1>3. ASSUME NEW h \in Handlers, SaveFriend(h)
      PROVE  \/ friends'[f] = friends[f]
             \/ /\ h \in Saving(f)
                /\ friends'[f].state = "live" /\ friends'[f].row = request[h].row
  <2>1. CASE friends' = [friends EXCEPT ![request[h].friend] = [state |-> "live", row |-> request[h].row]]
    <3>1. CASE request[h].friend = f
      <4>1. friends'[f] = [state |-> "live", row |-> request[h].row]
        BY <1>1, <2>1, <3>1
      <4> QED
        BY <1>3, <3>1, <4>1 DEF SaveFriend, Saving
    <3>2. CASE request[h].friend # f
      BY <1>1, <2>1, <3>2
    <3> QED
      BY <3>1, <3>2
  <2> QED
    BY <1>3, <2>1 DEF SaveFriend
<1>4. ASSUME NEW h \in Handlers, DeleteFriend(h)
      PROVE  friends'[f] = friends[f] \/ (Live(f) /\ friends'[f].state = "deleted")
  <2> DEFINE g == request[h].friend
  <2>1. CASE Live(g) /\ g = f /\ friends' = [friends EXCEPT ![g] = [friends[g] EXCEPT !.state = "deleted"]]
    <3>1. friends[f] \in [state: {"live", "deleted"}, row: Row]
      BY <2>1, RowsAndRequests
    <3>2. friends'[f] = [friends[f] EXCEPT !.state = "deleted"]
      BY <1>1, <2>1
    <3> QED
      BY <2>1, <3>1, <3>2
  <2>2. CASE g # f /\ friends' = [friends EXCEPT ![g] = [friends[g] EXCEPT !.state = "deleted"]]
    BY <1>1, <2>2
  <2> QED
    BY <1>4, <2>1, <2>2 DEF DeleteFriend
<1>5. ASSUME NEW h \in Handlers, NEW g \in Friends, NEW u \in Users, NEW v \in Users,
             \/ ReadForRequest(h, u, v, g) \/ ReadForRequestAgain(h, u, v, g)
             \/ ReadForAccept(h, u, g) \/ ReadForReject(h, u, g) \/ ReadForDelete(h, u, g)
      PROVE  friends' = friends
  BY <1>5 DEF ReadForRequest, ReadForRequestAgain, ReadForAccept, ReadForReject, ReadForDelete
<1>6. ASSUME UNCHANGED vars \/ \E h \in Handlers : Abort(h)
      PROVE  friends' = friends
  BY <1>6 DEF vars, Abort
<1> QED
  BY <1>2, <1>3, <1>4, <1>5, <1>6 DEF Next

\* A friendship that no older request is about to overwrite ends by deletion only,
\* whatever is asked or rejected later (service.go:482).
THEOREM FriendshipsEndByDeletion == Spec => FriendshipEndsByDeletion
<1>1. ASSUME TypeOK, [Next]_vars, NEW f \in Friends, SettledFriends(f)
      PROVE  SettledFriends(f)' \/ friends'[f].state = "deleted"
  <2>1. friends[f] # Absent
    BY <1>1, RowsAndRequests DEF SettledFriends
  <2>2. CASE Live(f)' /\ friends'[f].row.status = "accepted"
    <3> SUFFICES ASSUME NEW h \in Saving(f)'
                 PROVE  request'[h].row.status = "accepted"
      BY <2>2 DEF SettledFriends
    <3>1. h \in Handlers /\ request'[h].op = "save" /\ request'[h].friend = f
      BY DEF Saving
    <3>2. request'[h] = request[h]
      BY <1>1, <3>1, SavesStarted DEF SettledFriends
    <3> QED
      BY <1>1, <3>1, <3>2 DEF SettledFriends, Saving
  <2>3. \A h \in Saving(f) : request[h].row.status = "accepted"
    BY <1>1 DEF SettledFriends
  <2> QED
    BY <1>1, <2>1, <2>2, <2>3, RowWritten DEF SettledFriends, Live
<1>2. TypeOK /\ [Next]_vars =>
        [\A f \in Friends : SettledFriends(f) => SettledFriends(f)' \/ friends'[f].state = "deleted"]_vars
  BY <1>1
<1> QED
  BY <1>2, FriendTypes, PTL DEF Spec, FriendshipEndsByDeletion

\* A deleted connection that no request holds a copy of never comes back
\* (generic.go:164).
THEOREM DeletionsHold == Spec => DeletedForGood
<1>1. ASSUME TypeOK, [Next]_vars, NEW f \in Friends, SettledDeleted(f)
      PROVE  SettledDeleted(f)'
  <2>1. friends[f] # Absent /\ ~Live(f) /\ Saving(f) = {}
    BY <1>1 DEF SettledDeleted, Absent, Live
  <2>2. friends'[f] = friends[f]
    BY <1>1, <2>1, RowWritten
  <2>3. ASSUME NEW h \in Saving(f)'
        PROVE  FALSE
    <3>1. h \in Handlers /\ request'[h].op = "save" /\ request'[h].friend = f
      BY <2>3 DEF Saving
    <3>2. request'[h] = request[h]
      BY <1>1, <2>1, <3>1, SavesStarted
    <3> QED
      BY <2>1, <3>1, <3>2 DEF Saving
  <2> QED
    BY <1>1, <2>2, <2>3 DEF SettledDeleted
<1>2. TypeOK /\ [Next]_vars => [\A f \in Friends : SettledDeleted(f) => SettledDeleted(f)']_vars
  BY <1>1
<1> QED
  BY <1>2, FriendTypes, PTL DEF Spec, DeletedForGood

=============================================================================
