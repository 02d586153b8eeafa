---------------------------- MODULE SessionsProofs ----------------------------
(***************************************************************************)
(* TLAPS proofs about Sessions, for any sets of users, sessions, pairs and *)
(* handlers, and wherever a pipeline may break.                            *)
(***************************************************************************)
EXTENDS Sessions, TLAPS

\* What a handler holds, by operation.
LEMMA RequestTypes ==
  ASSUME TypeOK, NEW h \in Handlers
  PROVE  LET r == request[h]
         IN  /\ r \in Requests
             /\ r.op = "refresh" => r.pair \in Pairs
             /\ r.op \in {"found", "rotate"} => r.pair \in Pairs /\ r.session \in SessionIds
             /\ r.op \in {"rotate", "delete"} => r.session \in SessionIds /\ r.old \in Row
             /\ r.op \in {"blacklist", "store"} => r.token \in Tokens /\ r.next \in Pairs \cup {Nil}
             /\ r.op \in {"revoke", "delete"} =>
                  /\ r.kind \in Kinds /\ r.pair \in Pairs \cup {Nil} /\ r.todo \in SUBSET SessionIds
                  /\ r.kind # "all" => r.pair \in Pairs
  BY DEF TypeOK, Requests, Idle, Called

\* Only a request changes: what it starts or ends with is typed.
LEMMA RequestStep ==
  ASSUME TypeOK, NEW h \in Handlers, NEW r \in Requests,
         request' = [request EXCEPT ![h] = r], RedisTypes', TokenTypes', HistoryTypes'
  PROVE  TypeOK'
  BY DEF TypeOK

LEMMA IdleIsRequest == Idle \in Requests
  BY DEF Requests

LEMMA UnchangedTypes ==
  ASSUME TypeOK
  PROVE  /\ UNCHANGED redis => RedisTypes'
         /\ UNCHANGED tokens => TokenTypes'
         /\ UNCHANGED history => HistoryTypes'
  BY DEF TypeOK, RedisTypes, TokenTypes, HistoryTypes, redis, tokens, history

LEMMA LoginTypes ==
  ASSUME TypeOK, NEW u \in Users, NEW s \in SessionIds, NEW p \in Pairs, NEW k, Login(u, s, p, k)
  PROVE  TypeOK'
<1>1. [user |-> u, pair |-> p] \in Row
  BY DEF Row
<1>2. RedisTypes'
  <2>1. session' \in [SessionIds -> Row \cup {Absent}]
    BY <1>1 DEF Login, Create, After, TypeOK, RedisTypes
  <2>2. listed' \in [Users -> SUBSET SessionIds]
    BY <1>1 DEF Login, Create, After, TypeOK, RedisTypes
  <2>3. access' \in [Pairs -> SessionIds \cup {Nil}]
    BY <1>1 DEF Login, Create, After, TypeOK, RedisTypes
  <2>4. refresh' \in [Pairs -> SessionIds \cup {Nil}]
    BY <1>1 DEF Login, Create, After, TypeOK, RedisTypes
  <2> QED
    BY <2>1, <2>2, <2>3, <2>4 DEF RedisTypes
<1>3. TokenTypes' /\ HistoryTypes' /\ request' = request
  BY DEF Login, TypeOK, TokenTypes, HistoryTypes
<1> QED
  BY <1>2, <1>3 DEF TypeOK

\* A rotation, however far it gets.
LEMMA RotateTypes ==
  ASSUME TypeOK, NEW h \in Handlers, NEW q \in Pairs, NEW k, request[h].op = "rotate",
         Rotate(request[h], q, k)
  PROVE  RedisTypes' /\ strays' \subseteq SessionIds
<1> DEFINE r == request[h]
<1>1. r.session \in SessionIds /\ r.old \in Row /\ r.pair \in Pairs
  BY RequestTypes
<1>2. r.old.pair \in Pairs /\ [r.old EXCEPT !.pair = q] \in Row
  BY <1>1 DEF Row
<1> HIDE DEF r
<1>3. Rotate(r, q, k)
  BY DEF r
<1>4. session' \in [SessionIds -> Row \cup {Absent}]
  BY <1>1, <1>2, <1>3 DEF Rotate, After, TypeOK, RedisTypes
<1>5. access' \in [Pairs -> SessionIds \cup {Nil}]
  BY <1>1, <1>2, <1>3 DEF Rotate, After, TypeOK, RedisTypes
<1>6. refresh' \in [Pairs -> SessionIds \cup {Nil}]
  BY <1>1, <1>2, <1>3 DEF Rotate, After, TypeOK, RedisTypes
<1>7. listed' = listed /\ strays' \subseteq SessionIds
  BY <1>1, <1>3 DEF Rotate, TypeOK, HistoryTypes
<1> QED
  BY <1>4, <1>5, <1>6, <1>7 DEF TypeOK, RedisTypes

LEMMA DeleteTypes ==
  ASSUME TypeOK, NEW h \in Handlers, NEW k, request[h].op = "delete", Delete(request[h], k)
  PROVE  RedisTypes'
<1> DEFINE r == request[h]
<1>1. r.session \in SessionIds /\ r.old \in Row
  BY RequestTypes
<1> HIDE DEF r
<1>2. Delete(r, k)
  BY DEF r
<1>3. session' \in [SessionIds -> Row \cup {Absent}]
  BY <1>1, <1>2 DEF Delete, After, TypeOK, RedisTypes
<1>4. listed' \in [Users -> SUBSET SessionIds]
  <2>1. listed' = listed \/ listed' = [listed EXCEPT ![r.old.user] = @ \ {r.session}]
    BY <1>2 DEF Delete, After
  <2> QED
    BY <2>1 DEF TypeOK, RedisTypes
<1>5. access' \in [Pairs -> SessionIds \cup {Nil}]
  BY <1>1, <1>2 DEF Delete, After, TypeOK, RedisTypes
<1>6. refresh' \in [Pairs -> SessionIds \cup {Nil}]
  BY <1>1, <1>2 DEF Delete, After, TypeOK, RedisTypes
<1> QED
  BY <1>3, <1>4, <1>5, <1>6 DEF RedisTypes

LEMMA ListTypes ==
  ASSUME TypeOK, NEW u, NEW unread \in SUBSET SessionIds, ListSessions(u, unread),
         UNCHANGED <<session, access, refresh, opened, heirs>>
  PROVE  RedisTypes' /\ HistoryTypes' /\ Found(u, unread) \in SUBSET SessionIds
<1>1. Found(u, unread) \in SUBSET SessionIds
  BY DEF Found
<1>2. listed' \in [Users -> SUBSET SessionIds]
  BY <1>1 DEF ListSessions, TypeOK, RedisTypes
<1>3. strays' \subseteq SessionIds
  BY DEF ListSessions, TypeOK, HistoryTypes
<1> QED
  BY <1>1, <1>2, <1>3 DEF TypeOK, RedisTypes, HistoryTypes

LEMMA StartTypes ==
  ASSUME TypeOK, NEW h \in Handlers, Starts(h)
  PROVE  TypeOK'
<1>1. ASSUME NEW p \in Pairs, CheckRefresh(h, p)
      PROVE  TypeOK'
  <2>1. [op |-> "refresh", pair |-> p] \in Requests
    BY DEF Requests
  <2> QED
    BY <1>1, <2>1, RequestStep, UnchangedTypes DEF CheckRefresh, Start
<1>2. ASSUME NEW kind \in Kinds, NEW p \in Pairs \cup {Nil}, NEW todo \in SUBSET SessionIds,
             kind # "all" => p \in Pairs
      PROVE  Revoking(kind, p, todo) \in Requests
  BY <1>2 DEF Revoking, Requests, Called
<1>3. ASSUME NEW p \in Pairs, Logout(h, p)
      PROVE  TypeOK'
  <2>1. {s \in SessionIds : Leads(access[p], s)} \in SUBSET SessionIds
    OBVIOUS
  <2>2. Revoking("logout", p, {s \in SessionIds : Leads(access[p], s)}) \in Requests
    BY <1>2, <2>1 DEF Kinds
  <2> QED
    BY <1>3, <2>2, RequestStep, UnchangedTypes DEF Logout, Start
<1>4. ASSUME NEW p \in Pairs, NEW s \in SessionIds, RevokeSession(h, p, s)
      PROVE  TypeOK'
  <2>1. Revoking("one", p, {s}) \in Requests
    BY <1>2 DEF Kinds
  <2> QED
    BY <1>4, <2>1, RequestStep, UnchangedTypes DEF RevokeSession, Start
<1>5. ASSUME NEW p \in Pairs, NEW unread \in Unreadable, RevokeOthers(h, p, unread)
      PROVE  TypeOK'
  <2>1. unread \in SUBSET SessionIds
    BY SessionsAssumption
  <2>2. RedisTypes' /\ HistoryTypes' /\ Found(claims[p], unread) \in SUBSET SessionIds
    BY <1>5, <2>1, ListTypes DEF RevokeOthers
  <2>3. PICK s \in SessionIds : Start(h, Revoking("others", p, Found(claims[p], unread) \ {s}))
    BY <1>5 DEF RevokeOthers
  <2>4. Found(claims[p], unread) \ {s} \in SUBSET SessionIds
    BY <2>2
  <2>5. Revoking("others", p, Found(claims[p], unread) \ {s}) \in Requests
    BY <1>2, <2>4 DEF Kinds
  <2> QED
    BY <1>5, <2>2, <2>3, <2>5, RequestStep, UnchangedTypes DEF RevokeOthers, Start
<1>6. ASSUME NEW u \in Users, NEW unread \in Unreadable, RevokeAll(h, u, unread)
      PROVE  TypeOK'
  <2>1. unread \in SUBSET SessionIds
    BY SessionsAssumption
  <2>2. RedisTypes' /\ HistoryTypes' /\ Found(u, unread) \in SUBSET SessionIds
    BY <1>6, <2>1, ListTypes DEF RevokeAll
  <2>3. Revoking("all", Nil, Found(u, unread)) \in Requests
    BY <1>2, <2>2 DEF Kinds
  <2> QED
    BY <1>6, <2>2, <2>3, RequestStep, UnchangedTypes DEF RevokeAll, Start
<1> QED
  BY <1>1, <1>3, <1>4, <1>5, <1>6 DEF Starts

LEMMA RefreshTypes ==
  ASSUME TypeOK, NEW h \in Handlers, RefreshSteps(h)
  PROVE  TypeOK'
<1> DEFINE r == request[h]
<1>1. CASE FindSession(h)
  <2>1. r.pair \in Pairs
    BY <1>1, RequestTypes DEF FindSession
  <2>2. \A s \in SessionIds : [op |-> "found", pair |-> r.pair, session |-> s] \in Requests
    BY <2>1 DEF Requests
  <2> QED
    BY <1>1, <2>2, RequestStep, IdleIsRequest, UnchangedTypes DEF FindSession, Continue, Finish
<1>2. CASE ReadForRotate(h)
  <2>1. r.pair \in Pairs /\ r.session \in SessionIds
    BY <1>2, RequestTypes DEF ReadForRotate
  <2>2. CASE Live(r.session)
    <3>1. session[r.session] \in Row
      BY <2>1, <2>2 DEF Live, TypeOK, RedisTypes
    <3>2. [op |-> "rotate", pair |-> r.pair, session |-> r.session, old |-> session[r.session]]
            \in Requests
      BY <2>1, <3>1 DEF Requests
    <3> QED
      BY <1>2, <2>2, <3>2, RequestStep, UnchangedTypes DEF ReadForRotate, Continue
  <2>3. CASE ~Live(r.session)
    BY <1>2, <2>3, RequestStep, IdleIsRequest, UnchangedTypes DEF ReadForRotate, Finish
  <2> QED
    BY <2>2, <2>3
<1>3. ASSUME NEW q \in Pairs, NEW k, r.op = "rotate", Rotate(r, q, k), heirs' = heirs,
             opened' = opened, claims' = [claims EXCEPT ![q] = claims[r.pair]],
             UNCHANGED <<blacklist, expired, given>>
      PROVE  RedisTypes' /\ TokenTypes' /\ HistoryTypes'
  <2>1. RedisTypes' /\ strays' \subseteq SessionIds /\ r.pair \in Pairs
    BY <1>3, RotateTypes, RequestTypes
  <2>2. TokenTypes'
    BY <1>3, <2>1 DEF TypeOK, TokenTypes
  <2> QED
    BY <1>3, <2>1, <2>2 DEF TypeOK, HistoryTypes
<1>4. ASSUME NEW q \in Pairs, RotateTokens(h, q)
      PROVE  TypeOK'
  <2>1. RedisTypes' /\ TokenTypes' /\ HistoryTypes'
    BY <1>3, <1>4 DEF RotateTokens
  <2>2. r.pair \in Pairs
    BY <1>4, RequestTypes DEF RotateTokens
  <2>3. [op |-> "blacklist", token |-> Refresh(r.pair), next |-> q] \in Requests
    BY <2>2 DEF Requests, Refresh, Tokens
  <2> QED
    BY <1>4, <2>1, <2>3, RequestStep DEF RotateTokens, Continue
<1>5. ASSUME NEW q \in Pairs, NEW k \in Breaks, RotateTokensFails(h, q, k)
      PROVE  TypeOK'
  <2>1. RedisTypes' /\ TokenTypes' /\ HistoryTypes'
    BY <1>3, <1>5 DEF RotateTokensFails
  <2> QED
    BY <1>5, <2>1, RequestStep, IdleIsRequest DEF RotateTokensFails, Finish
<1>6. CASE CheckExpiry(h)
  <2>1. r.op = "blacklist" /\ r \in [op: {"blacklist", "store"}, token: Tokens, next: Pairs \cup {Nil}]
    BY <1>6 DEF CheckExpiry, TypeOK, Requests, Called, Idle
  <2>2. [r EXCEPT !.op = "store"] \in Requests
    BY <2>1 DEF Requests
  <2> QED
    BY <1>6, <2>2, RequestStep, IdleIsRequest, UnchangedTypes DEF CheckExpiry, Continue, Finish
<1>7. CASE StoreBlacklist(h)
  <2>1. r.token \in Tokens /\ r.next \in Pairs \cup {Nil} /\ r.token[2] \in Pairs
    BY <1>7, RequestTypes DEF StoreBlacklist, Tokens
  <2>2. given' \subseteq Pairs /\ heirs' \in [Pairs -> SUBSET Pairs]
    BY <1>7, <2>1 DEF StoreBlacklist, Respond, TypeOK, TokenTypes, HistoryTypes
  <2>3. RedisTypes' /\ TokenTypes' /\ HistoryTypes'
    BY <1>7, <2>1, <2>2, UnchangedTypes DEF StoreBlacklist, TypeOK, TokenTypes, HistoryTypes
  <2> QED
    BY <1>7, <2>3, RequestStep, IdleIsRequest DEF StoreBlacklist, Finish
<1> QED
  BY <1>1, <1>2, <1>4, <1>5, <1>6, <1>7 DEF RefreshSteps

LEMMA RevokeTypes ==
  ASSUME TypeOK, NEW h \in Handlers, RevokeSteps(h)
  PROVE  TypeOK'
<1> DEFINE r == request[h]
<1>1. ASSUME r.op \in {"revoke", "delete"}, NEW todo \in SUBSET SessionIds
      PROVE  Revoking(r.kind, r.pair, todo) \in Requests
  BY <1>1, RequestTypes DEF Revoking, Requests, Called
<1>2. ASSUME r.op \in {"revoke", "delete"}, NEW s
      PROVE  Skip(r, s) \in Requests /\ Revoking(r.kind, r.pair, r.todo \ {s}) \in Requests
  <2>1. r.todo \ {s} \in SUBSET SessionIds /\ {} \in SUBSET SessionIds
    BY <1>2, RequestTypes
  <2> QED
    BY <1>1, <1>2, <2>1 DEF Skip
<1>3. ASSUME NEW s \in SessionIds, ReadForDelete(h, s)
      PROVE  TypeOK'
  <2>1. CASE Live(s)
    <3>1. session[s] \in Row
      BY <2>1 DEF Live, TypeOK, RedisTypes
    <3>2. /\ r.kind \in Kinds /\ r.pair \in Pairs \cup {Nil} /\ r.todo \in SUBSET SessionIds
          /\ r.kind # "all" => r.pair \in Pairs
      BY <1>3, RequestTypes DEF ReadForDelete
    <3>3. [op |-> "delete", kind |-> r.kind, pair |-> r.pair, todo |-> r.todo,
           session |-> s, old |-> session[s]] \in Requests
      BY <3>1, <3>2 DEF Requests, Called
    <3> QED
      BY <1>3, <2>1, <3>3, RequestStep, UnchangedTypes DEF ReadForDelete, Continue
  <2>2. CASE ~Live(s)
    <3>1. Skip(r, s) \in Requests
      BY <1>2, <1>3 DEF ReadForDelete
    <3> QED
      BY <1>3, <2>2, <3>1, RequestStep, UnchangedTypes DEF ReadForDelete, Continue
  <2> QED
    BY <2>1, <2>2
<1>4. CASE DeleteSession(h)
  <2>1. RedisTypes'
    BY <1>4, DeleteTypes DEF DeleteSession
  <2>2. Revoking(r.kind, r.pair, r.todo \ {r.session}) \in Requests
    BY <1>2, <1>4 DEF DeleteSession
  <2> QED
    BY <1>4, <2>1, <2>2, RequestStep, UnchangedTypes DEF DeleteSession, Continue
<1>5. ASSUME NEW k \in Breaks, DeleteSessionFails(h, k)
      PROVE  TypeOK'
  <2>1. RedisTypes'
    BY <1>5, DeleteTypes DEF DeleteSessionFails
  <2>2. Skip(r, r.session) \in Requests
    BY <1>2, <1>5 DEF DeleteSessionFails
  <2> QED
    BY <1>5, <2>1, <2>2, RequestStep, UnchangedTypes DEF DeleteSessionFails, Continue
<1>6. CASE EndRevoke(h)
  <2>1. CASE r.kind = "logout" /\ r.pair \in Pairs
    <3>1. [op |-> "blacklist", token |-> Access(r.pair), next |-> Nil] \in Requests
      BY <2>1 DEF Requests, Access, Tokens
    <3> QED
      BY <1>6, <2>1, <3>1, RequestStep, UnchangedTypes DEF EndRevoke, Continue
  <2>2. CASE r.kind # "logout"
    BY <1>6, <2>2, RequestStep, IdleIsRequest, UnchangedTypes DEF EndRevoke, Finish
  <2> QED
    BY <1>6, <2>1, <2>2, RequestTypes DEF EndRevoke
<1> QED
  BY <1>3, <1>4, <1>5, <1>6 DEF RevokeSteps

LEMMA StepTypes ==
  ASSUME TypeOK, [Next]_vars
  PROVE  TypeOK'
<1>1. ASSUME NEW u \in Users, NEW s \in SessionIds, NEW p \in Pairs, NEW k, Login(u, s, p, k)
      PROVE  TypeOK'
  BY <1>1, LoginTypes
<1>2. ASSUME NEW p \in Pairs, NEW unread \in Unreadable, GetActiveSessions(p, unread)
      PROVE  TypeOK'
  <2>1. unread \in SUBSET SessionIds
    BY SessionsAssumption
  <2>2. RedisTypes' /\ HistoryTypes'
    BY <1>2, <2>1, ListTypes DEF GetActiveSessions
  <2> QED
    BY <1>2, <2>2, UnchangedTypes DEF GetActiveSessions, TypeOK
<1>3. ASSUME NEW h \in Handlers, Starts(h) \/ RefreshSteps(h) \/ RevokeSteps(h)
      PROVE  TypeOK'
  BY <1>3, StartTypes, RefreshTypes, RevokeTypes
<1>4. ASSUME NEW h \in Handlers, Abort(h)
      PROVE  TypeOK'
  BY <1>4, RequestStep, IdleIsRequest, UnchangedTypes DEF Abort, Finish
<1>5. ASSUME NEW t \in Expiring \X Pairs, Expire(t)
      PROVE  TypeOK'
  <2>1. t \in Tokens
    BY SessionsAssumption DEF Tokens
  <2>2. RedisTypes'
    BY <1>5 DEF Expire, TypeOK, RedisTypes
  <2>3. TokenTypes'
    BY <1>5, <2>1 DEF Expire, TypeOK, TokenTypes
  <2>4. HistoryTypes' /\ request' = request
    BY <1>5, UnchangedTypes DEF Expire
  <2> QED
    BY <2>2, <2>3, <2>4 DEF TypeOK
<1>6. CASE UNCHANGED vars
  BY <1>6, UnchangedTypes DEF vars, TypeOK
<1> QED
  BY <1>1, <1>2, <1>3, <1>4, <1>5, <1>6 DEF Next

LEMMA InitTypes == Init => TypeOK
  BY DEF Init, TypeOK, RedisTypes, TokenTypes, HistoryTypes, Requests

\* Every key, row, token and handler keeps its shape (see TypeOK), whatever
\* handlers interleave and wherever a pipeline breaks.
THEOREM SessionTypes == Spec => []TypeOK
<1>1. Init => TypeOK
  BY InitTypes
<1>2. TypeOK /\ [Next]_vars => TypeOK'
  BY StepTypes
<1> QED
  BY <1>1, <1>2, PTL DEF Spec

-----------------------------------------------------------------------------
(* RedeemedOnce.                                                           *)

LEMMA OfferStep ==
  ASSUME TypeOK, OffersInv, NEW h \in Handlers, NEW r,
         request' = [request EXCEPT ![h] = r], OffersForRefresh(r)
  PROVE  OffersInv'
  BY DEF TypeOK, OffersInv

\* Every step but StoreBlacklist leaves the blacklist and the exchanges alone.
LEMMA OffersKept ==
  ASSUME TypeOK, OffersInv, Next, \A h \in Handlers : ~StoreBlacklist(h)
  PROVE  OffersInv' /\ blacklist' = blacklist /\ heirs' = heirs /\ expired \subseteq expired'
<1>0. OffersForRefresh(Idle)
  BY DEF OffersForRefresh, Idle
<1>1. ASSUME NEW u \in Users, NEW s \in SessionIds, NEW p \in Pairs, NEW k, Login(u, s, p, k)
      PROVE  OffersInv' /\ blacklist' = blacklist /\ heirs' = heirs /\ expired' = expired
  BY <1>1 DEF Login, OffersInv
<1>2. ASSUME NEW p \in Pairs, NEW unread \in Unreadable, GetActiveSessions(p, unread)
      PROVE  OffersInv' /\ blacklist' = blacklist /\ heirs' = heirs /\ expired' = expired
  BY <1>2 DEF GetActiveSessions, OffersInv, tokens
<1>3. ASSUME NEW t \in Expiring \X Pairs, Expire(t)
      PROVE  OffersInv' /\ blacklist' = blacklist /\ heirs' = heirs /\ expired \subseteq expired'
  BY <1>3 DEF Expire, OffersInv, history
<1>4. ASSUME NEW h \in Handlers, Starts(h)
      PROVE  OffersInv' /\ UNCHANGED <<tokens, heirs>>
  <2>1. ASSUME NEW kind, NEW p, NEW todo
        PROVE  OffersForRefresh(Revoking(kind, p, todo))
    BY DEF OffersForRefresh, Revoking
  <2>2. ASSUME NEW p \in Pairs
        PROVE  OffersForRefresh([op |-> "refresh", pair |-> p])
    BY DEF OffersForRefresh
  <2>3. \A p \in Pairs : CheckRefresh(h, p) => OffersInv' /\ UNCHANGED <<tokens, heirs>>
    BY <2>2, OfferStep DEF CheckRefresh, Start, history
  <2>4. \A p \in Pairs : Logout(h, p) => OffersInv' /\ UNCHANGED <<tokens, heirs>>
    BY <2>1, OfferStep DEF Logout, Start, history
  <2>5. \A p \in Pairs, s \in SessionIds :
          RevokeSession(h, p, s) => OffersInv' /\ UNCHANGED <<tokens, heirs>>
    BY <2>1, OfferStep DEF RevokeSession, Start, history
  <2>6. \A p \in Pairs, unread \in Unreadable :
          RevokeOthers(h, p, unread) => OffersInv' /\ UNCHANGED <<tokens, heirs>>
    BY <2>1, OfferStep DEF RevokeOthers, Start
  <2>7. \A u \in Users, unread \in Unreadable :
          RevokeAll(h, u, unread) => OffersInv' /\ UNCHANGED <<tokens, heirs>>
    BY <2>1, OfferStep DEF RevokeAll, Start
  <2> QED
    BY <1>4, <2>3, <2>4, <2>5, <2>6, <2>7 DEF Starts
<1>5. ASSUME NEW h \in Handlers, RefreshSteps(h), ~StoreBlacklist(h)
      PROVE  OffersInv' /\ blacklist' = blacklist /\ heirs' = heirs /\ expired' = expired
  <2> DEFINE r == request[h]
  <2>1. CASE FindSession(h)
    <3>1. \A s : OffersForRefresh([op |-> "found", pair |-> r.pair, session |-> s])
      BY DEF OffersForRefresh
    <3> QED
      BY <1>0, <2>1, <3>1, OfferStep DEF FindSession, Continue, Finish, tokens, history
  <2>2. CASE ReadForRotate(h)
    <3>1. OffersForRefresh([op |-> "rotate", pair |-> r.pair, session |-> r.session,
                            old |-> session[r.session]])
      BY DEF OffersForRefresh
    <3> QED
      BY <1>0, <2>2, <3>1, OfferStep DEF ReadForRotate, Continue, Finish, tokens, history
  <2>3. ASSUME NEW q \in Pairs, RotateTokens(h, q)
        PROVE  OffersInv' /\ blacklist' = blacklist /\ heirs' = heirs /\ expired' = expired
    <3>1. OffersForRefresh([op |-> "blacklist", token |-> Refresh(r.pair), next |-> q])
      BY DEF OffersForRefresh, Refresh
    <3> QED
      BY <2>3, <3>1, OfferStep DEF RotateTokens, Continue
  <2>4. ASSUME NEW q \in Pairs, NEW k \in Breaks, RotateTokensFails(h, q, k)
        PROVE  OffersInv' /\ blacklist' = blacklist /\ heirs' = heirs /\ expired' = expired
    BY <1>0, <2>4, OfferStep DEF RotateTokensFails, Finish
  <2>5. CASE CheckExpiry(h)
    <3>1. r.op = "blacklist" /\ r \in [op: {"blacklist", "store"}, token: Tokens, next: Pairs \cup {Nil}]
      BY <2>5 DEF CheckExpiry, TypeOK, Requests, Called, Idle
    <3>2. OffersForRefresh(r)
      BY DEF OffersInv
    <3>3. OffersForRefresh([r EXCEPT !.op = "store"])
      BY <3>1, <3>2 DEF OffersForRefresh
    <3> QED
      BY <1>0, <2>5, <3>3, OfferStep DEF CheckExpiry, Continue, Finish, tokens, history
  <2> QED
    BY <1>5, <2>1, <2>2, <2>3, <2>4, <2>5 DEF RefreshSteps
<1>6. ASSUME NEW h \in Handlers, RevokeSteps(h)
      PROVE  OffersInv' /\ UNCHANGED <<tokens, heirs>>
  <2> DEFINE r == request[h]
  <2>1. ASSUME NEW kind, NEW p, NEW todo
        PROVE  OffersForRefresh(Revoking(kind, p, todo))
    BY DEF OffersForRefresh, Revoking
  <2>2. \A s : OffersForRefresh(Skip(r, s))
    BY <2>1 DEF Skip
  <2>3. ASSUME NEW s \in SessionIds, ReadForDelete(h, s)
        PROVE  OffersInv' /\ UNCHANGED <<tokens, heirs>>
    <3>1. OffersForRefresh([op |-> "delete", kind |-> r.kind, pair |-> r.pair, todo |-> r.todo,
                            session |-> s, old |-> session[s]])
      BY DEF OffersForRefresh
    <3> QED
      BY <2>2, <2>3, <3>1, OfferStep DEF ReadForDelete, Continue, history
  <2>4. DeleteSession(h) => OffersInv' /\ UNCHANGED <<tokens, heirs>>
    BY <2>1, OfferStep DEF DeleteSession, Continue, history
  <2>5. \A k \in Breaks : DeleteSessionFails(h, k) => OffersInv' /\ UNCHANGED <<tokens, heirs>>
    BY <2>2, OfferStep DEF DeleteSessionFails, Continue, history
  <2>6. CASE EndRevoke(h)
    <3>1. OffersForRefresh([op |-> "blacklist", token |-> Access(r.pair), next |-> Nil])
      BY DEF OffersForRefresh
    <3> QED
      BY <1>0, <2>6, <3>1, OfferStep DEF EndRevoke, Continue, Finish, history
  <2> QED
    BY <1>6, <2>3, <2>4, <2>5, <2>6 DEF RevokeSteps
<1>7. ASSUME NEW h \in Handlers, Abort(h)
      PROVE  OffersInv' /\ UNCHANGED <<tokens, heirs>>
  BY <1>0, <1>7, OfferStep DEF Abort, Finish, history
<1> QED
  BY <1>1, <1>2, <1>3, <1>4, <1>5, <1>6, <1>7 DEF Next, tokens

\* Only a token that is not yet blacklisted is exchanged, and nothing was given
\* for such a token before.
LEMMA StoreRedeems ==
  ASSUME RedeemedInv, NEW h \in Handlers, StoreBlacklist(h)
  PROVE  OffersInv' /\ ExchangedInv' /\ RedeemedOnce'
<1> DEFINE r == request[h]
           kept == blacklist \ expired
<1>1. r.token \in Tokens /\ r.token[2] \in Pairs /\ OffersForRefresh(r)
  BY RequestTypes DEF RedeemedInv, OffersInv, StoreBlacklist, Tokens
<1>2. heirs \in [Pairs -> SUBSET Pairs]
  BY DEF RedeemedInv, TypeOK, HistoryTypes
<1>3. OffersInv'
  <2>1. OffersForRefresh(Idle)
    BY DEF OffersForRefresh, Idle
  <2> QED
    BY <2>1, OfferStep DEF RedeemedInv, StoreBlacklist, Finish
<1>4. blacklist' = kept \cup {r.token} /\ expired' = expired
  BY DEF StoreBlacklist
<1>5. CASE heirs' = heirs
  <2>1. ExchangedInv'
    BY <1>4, <1>5 DEF RedeemedInv, ExchangedInv
  <2>2. RedeemedOnce'
    BY <1>4, <1>5 DEF RedeemedInv, RedeemedOnce
  <2> QED
    BY <1>3, <2>1, <2>2
<1>6. CASE r.next # Nil /\ r.token \notin kept
  <2>1. r.token = Refresh(r.token[2])
    BY <1>1, <1>6 DEF OffersForRefresh, StoreBlacklist, Refresh, Tokens
  <2>2. heirs' = [heirs EXCEPT ![r.token[2]] = @ \cup {r.next}]
    BY <1>6 DEF StoreBlacklist, Respond
  <2>3. ExchangedInv'
    <3> SUFFICES ASSUME NEW p \in Pairs, Refresh(p) \notin expired, heirs'[p] # {}
                 PROVE  Refresh(p) \in blacklist'
      BY <1>4 DEF ExchangedInv, Refresh
    <3>1. CASE p = r.token[2]
      BY <1>4, <2>1, <3>1
    <3>2. CASE p # r.token[2]
      BY <1>2, <1>4, <2>2, <3>2 DEF RedeemedInv, ExchangedInv
    <3> QED
      BY <3>1, <3>2
  <2>4. RedeemedOnce'
    <3> SUFFICES ASSUME NEW p \in Pairs, Refresh(p) \notin expired,
                        NEW q \in heirs'[p], NEW x \in heirs'[p]
                 PROVE  q = x
      BY <1>4 DEF RedeemedOnce, Refresh
    <3>1. CASE p = r.token[2]
      <4>1. heirs[p] = {}
        BY <1>6, <2>1, <3>1 DEF RedeemedInv, ExchangedInv
      <4> QED
        BY <1>2, <2>2, <3>1, <4>1
    <3>2. CASE p # r.token[2]
      BY <1>2, <2>2, <3>2 DEF RedeemedInv, RedeemedOnce
    <3> QED
      BY <3>1, <3>2
  <2> QED
    BY <1>3, <2>3, <2>4
<1>7. heirs' = heirs \/ (r.next # Nil /\ r.token \notin kept)
  BY DEF StoreBlacklist, Respond
<1> QED
  BY <1>5, <1>6, <1>7

LEMMA RedeemedStep ==
  ASSUME RedeemedInv, [Next]_vars
  PROVE  RedeemedInv'
<1>1. TypeOK'
  BY StepTypes DEF RedeemedInv
<1>2. CASE \E h \in Handlers : StoreBlacklist(h)
  BY <1>1, <1>2, StoreRedeems DEF RedeemedInv
<1>3. ASSUME OffersInv', blacklist' = blacklist, heirs' = heirs, expired \subseteq expired'
      PROVE  RedeemedInv'
  <2>1. ExchangedInv'
    BY <1>3 DEF RedeemedInv, ExchangedInv, Refresh
  <2>2. RedeemedOnce'
    BY <1>3 DEF RedeemedInv, RedeemedOnce, Refresh
  <2> QED
    BY <1>1, <1>3, <2>1, <2>2 DEF RedeemedInv
<1>4. CASE Next /\ ~\E h \in Handlers : StoreBlacklist(h)
  BY <1>3, <1>4, OffersKept DEF RedeemedInv
<1>5. CASE UNCHANGED vars
  BY <1>3, <1>5 DEF vars, tokens, history, RedeemedInv, OffersInv
<1> QED
  BY <1>2, <1>4, <1>5

LEMMA InitRedeemed == Init => RedeemedInv
<1>1. Init => OffersInv
  BY DEF Init, OffersInv, OffersForRefresh, Idle
<1>2. Init => ExchangedInv /\ RedeemedOnce
  BY DEF Init, ExchangedInv, RedeemedOnce
<1> QED
  BY <1>1, <1>2, InitTypes DEF RedeemedInv

\* Of the refreshes that hold one valid refresh token at the same time, at most
\* one answers with a new pair: the unique index of the blacklist decides.
THEOREM ExchangedOnce == Spec => []RedeemedOnce
<1>1. Init => RedeemedInv
  BY InitRedeemed
<1>2. RedeemedInv /\ [Next]_vars => RedeemedInv'
  BY RedeemedStep
<1>3. RedeemedInv => RedeemedOnce
  BY DEF RedeemedInv
<1> QED
  BY <1>1, <1>2, <1>3, PTL DEF Spec

-----------------------------------------------------------------------------
(* KeepsLineage.                                                           *)

\* What a handler comes to hold names a pair its client has, and no new pair.
Keeps(h, r) ==
  /\ r.op \in {"refresh", "found", "rotate"} => r.pair \in given
  /\ r.op \in {"blacklist", "store"} /\ r.next # Nil =>
       Offers(h, r.next) /\ r.token = request[h].token

\* A step that signs no pair and gives none out.
Plain ==
  /\ UNCHANGED <<tokens, heirs>>
  /\ \/ request' = request
     \/ \E h \in Handlers, r \in Requests : request' = [request EXCEPT ![h] = r] /\ Keeps(h, r)

LEMMA IdleKeeps == \A h \in Handlers : Idle \in Requests /\ Keeps(h, Idle)
  BY IdleIsRequest DEF Keeps, Idle

LEMMA RevokingKeeps ==
  \A h \in Handlers : \A kind, p, todo : Keeps(h, Revoking(kind, p, todo))
  BY DEF Keeps, Revoking

\* The step of a handler that changes nothing but what the handler holds is plain.
LEMMA PlainStep ==
  ASSUME TypeOK, TypeOK', NEW h \in Handlers, NEW r, request' = [request EXCEPT ![h] = r],
         Keeps(h, r), UNCHANGED <<tokens, heirs>>
  PROVE  Plain
<1>1. r \in Requests
  BY DEF TypeOK
<1> QED
  BY <1>1 DEF Plain

LEMMA StartsPlainly ==
  ASSUME TypeOK, TypeOK', NEW h \in Handlers, Starts(h)
  PROVE  Plain
<1>1. ASSUME NEW p \in Pairs, CheckRefresh(h, p)
      PROVE  Plain
  <2>1. Keeps(h, [op |-> "refresh", pair |-> p])
    BY <1>1 DEF Keeps, CheckRefresh
  <2> QED
    BY <1>1, <2>1, PlainStep DEF CheckRefresh, Start, history
<1>2. \A p \in Pairs : Logout(h, p) => Plain
  BY RevokingKeeps, PlainStep DEF Logout, Start, history
<1>3. \A p \in Pairs, s \in SessionIds : RevokeSession(h, p, s) => Plain
  BY RevokingKeeps, PlainStep DEF RevokeSession, Start, history
<1>4. \A p \in Pairs, unread \in Unreadable : RevokeOthers(h, p, unread) => Plain
  BY RevokingKeeps, PlainStep DEF RevokeOthers, Start
<1>5. \A u \in Users, unread \in Unreadable : RevokeAll(h, u, unread) => Plain
  BY RevokingKeeps, PlainStep DEF RevokeAll, Start
<1> QED
  BY <1>1, <1>2, <1>3, <1>4, <1>5 DEF Starts

LEMMA RefreshesPlainly ==
  ASSUME TypeOK, TypeOK', HeldPairsInv, NEW h \in Handlers,
         FindSession(h) \/ ReadForRotate(h) \/ CheckExpiry(h)
  PROVE  Plain
<1> DEFINE r == request[h]
<1>1. CASE FindSession(h)
  <2>1. \A s : Keeps(h, [op |-> "found", pair |-> r.pair, session |-> s])
    BY <1>1 DEF Keeps, FindSession, HeldPairsInv
  <2> QED
    BY <1>1, <2>1, IdleKeeps, PlainStep DEF FindSession, Continue, Finish, history
<1>2. CASE ReadForRotate(h)
  <2>1. \A s, old : Keeps(h, [op |-> "rotate", pair |-> r.pair, session |-> s, old |-> old])
    BY <1>2 DEF Keeps, ReadForRotate, HeldPairsInv
  <2> QED
    BY <1>2, <2>1, IdleKeeps, PlainStep DEF ReadForRotate, Continue, Finish, history
<1>3. CASE CheckExpiry(h)
  <2>1. r.op = "blacklist" /\ r \in [op: {"blacklist", "store"}, token: Tokens, next: Pairs \cup {Nil}]
    BY <1>3 DEF CheckExpiry, TypeOK, Requests, Called, Idle
  <2>2. Keeps(h, [r EXCEPT !.op = "store"])
    BY <2>1 DEF Keeps, Offers
  <2> QED
    BY <1>3, <2>2, IdleKeeps, PlainStep DEF CheckExpiry, Continue, Finish, history
<1> QED
  BY <1>1, <1>2, <1>3

LEMMA RevokesPlainly ==
  ASSUME TypeOK, TypeOK', NEW h \in Handlers, RevokeSteps(h)
  PROVE  Plain
<1> DEFINE r == request[h]
<1>1. \A s : Keeps(h, Skip(r, s))
  BY RevokingKeeps DEF Skip
<1>2. ASSUME NEW s \in SessionIds, ReadForDelete(h, s)
      PROVE  Plain
  <2>1. Keeps(h, [op |-> "delete", kind |-> r.kind, pair |-> r.pair, todo |-> r.todo,
                  session |-> s, old |-> session[s]])
    BY DEF Keeps
  <2> QED
    BY <1>1, <1>2, <2>1, PlainStep DEF ReadForDelete, Continue, history
<1>3. DeleteSession(h) => Plain
  BY RevokingKeeps, PlainStep DEF DeleteSession, Continue, history
<1>4. \A k \in Breaks : DeleteSessionFails(h, k) => Plain
  BY <1>1, PlainStep DEF DeleteSessionFails, Continue, history
<1>5. CASE EndRevoke(h)
  <2>1. Keeps(h, [op |-> "blacklist", token |-> Access(r.pair), next |-> Nil])
    BY DEF Keeps
  <2> QED
    BY <1>5, <2>1, IdleKeeps, PlainStep DEF EndRevoke, Continue, Finish, history
<1> QED
  BY <1>2, <1>3, <1>4, <1>5 DEF RevokeSteps

\* The steps that sign a pair, give one out or let one expire, and the others.
LEMMA LineageWriters ==
  ASSUME TypeOK, TypeOK', HeldPairsInv, [Next]_vars
  PROVE  \/ Plain
         \/ \E u \in Users, s \in SessionIds, p \in Pairs, k \in Breaks \cup {5} : Login(u, s, p, k)
         \/ \E h \in Handlers, q \in Pairs :
              RotateTokens(h, q) \/ \E k \in Breaks : RotateTokensFails(h, q, k)
         \/ \E h \in Handlers : StoreBlacklist(h)
         \/ \E t \in Expiring \X Pairs : Expire(t)
<1>1. CASE UNCHANGED vars
  BY <1>1 DEF vars, history, Plain
<1>2. ASSUME NEW p \in Pairs, NEW unread \in Unreadable, GetActiveSessions(p, unread)
      PROVE  Plain
  BY <1>2 DEF GetActiveSessions, Plain
<1>3. ASSUME NEW h \in Handlers, Abort(h)
      PROVE  Plain
  BY <1>3, IdleKeeps, PlainStep DEF Abort, Finish, history
<1> QED
  BY <1>1, <1>2, <1>3, StartsPlainly, RefreshesPlainly, RevokesPlainly DEF Next, RefreshSteps

\* Who holds what, after a plain step.
LEMMA PlainLineage ==
  ASSUME TypeOK, HeldPairsInv, SignedInv, PendingInv, Plain
  PROVE  HeldPairsInv' /\ SignedInv' /\ PendingInv'
<1>1. UNCHANGED <<claims, given>>
  BY DEF Plain, tokens
<1>2. CASE request' = request
  BY <1>1, <1>2 DEF HeldPairsInv, SignedInv, PendingInv, Offers
<1>3. ASSUME NEW h \in Handlers, NEW r \in Requests, request' = [request EXCEPT ![h] = r], Keeps(h, r)
      PROVE  HeldPairsInv' /\ SignedInv' /\ PendingInv'
  <2>1. HeldPairsInv' /\ SignedInv'
    BY <1>1, <1>3 DEF TypeOK, HeldPairsInv, SignedInv, Keeps
  <2>2. ASSUME NEW g \in Handlers, NEW q \in Pairs, Offers(g, q)'
        PROVE  Offers(g, q) /\ request'[g].token = request[g].token
    <3>1. q # Nil
      BY SessionsAssumption
    <3> QED
      BY <1>3, <2>2, <3>1 DEF TypeOK, Offers, Keeps
  <2>3. PendingInv'
    BY <1>1, <2>2 DEF PendingInv
  <2> QED
    BY <2>1, <2>3
<1> QED
  BY <1>2, <1>3 DEF Plain

\* A pair nobody signed yet is not about to be given out.
LEMMA UnsignedIsFree ==
  ASSUME TypeOK, SignedInv, PendingInv, NEW q \in Pairs, claims[q] = Nil
  PROVE  q \notin given /\ \A h \in Handlers : ~Offers(h, q)
<1>1. q \notin given
  BY DEF SignedInv
<1>2. ASSUME NEW h \in Handlers, Offers(h, q)
      PROVE  FALSE
  <2>1. request[h].token[2] \in given /\ claims[q] = claims[request[h].token[2]]
    BY <1>2 DEF PendingInv
  <2> QED
    BY <2>1 DEF SignedInv
<1> QED
  BY <1>1, <1>2

LEMMA LoginLineage ==
  ASSUME TypeOK, HeldPairsInv, SignedInv, PendingInv, NEW u \in Users, NEW p \in Pairs,
         claims[p] = Nil, claims' = [claims EXCEPT ![p] = u], given' = given \cup {p},
         request' = request
  PROVE  HeldPairsInv' /\ SignedInv' /\ PendingInv'
<1>1. claims \in [Pairs -> Users \cup {Nil}] /\ u # Nil
  BY SessionsAssumption DEF TypeOK, TokenTypes
<1>2. p \notin given /\ \A h \in Handlers : ~Offers(h, p)
  BY UnsignedIsFree
<1>3. HeldPairsInv' /\ SignedInv'
  BY <1>1 DEF HeldPairsInv, SignedInv, TypeOK, TokenTypes
<1>4. ASSUME NEW h \in Handlers, NEW q \in Pairs, Offers(h, q)'
      PROVE  /\ q \notin given' /\ request'[h].token[2] \in given'
             /\ claims'[q] = claims'[request'[h].token[2]]
             /\ \A g \in Handlers : Offers(g, q)' => g = h
  <2>1. Offers(h, q) /\ q # p
    BY <1>2, <1>4 DEF Offers
  <2>2. /\ q \notin given /\ request[h].token[2] \in given
        /\ claims[q] = claims[request[h].token[2]]
        /\ \A g \in Handlers : Offers(g, q) => g = h
    BY <2>1 DEF PendingInv
  <2>3. request[h].token[2] # p
    BY <1>2, <2>2
  <2> QED
    BY <1>1, <2>1, <2>2, <2>3 DEF Offers
<1> QED
  BY <1>3, <1>4 DEF PendingInv

\* A rotation signs a pair for the client it serves, and offers it to that
\* client, or to nobody.
LEMMA RotateLineage ==
  ASSUME TypeOK, HeldPairsInv, SignedInv, PendingInv, NEW h \in Handlers, NEW q \in Pairs,
         RotateTokens(h, q) \/ \E k \in Breaks : RotateTokensFails(h, q, k)
  PROVE  HeldPairsInv' /\ SignedInv' /\ PendingInv' /\ UNCHANGED <<given, heirs, expired>>
<1> DEFINE r == request[h]
           offer == [op |-> "blacklist", token |-> Refresh(r.pair), next |-> q]
<1>1. /\ r.op = "rotate" /\ claims[q] = Nil
      /\ claims' = [claims EXCEPT ![q] = claims[r.pair]]
      /\ request' = [request EXCEPT ![h] = offer] \/ request' = [request EXCEPT ![h] = Idle]
      /\ UNCHANGED <<given, heirs, expired>>
  BY DEF RotateTokens, RotateTokensFails, Continue, Finish
<1>2. r.pair \in Pairs /\ r.pair \in given /\ claims[r.pair] # Nil /\ r.pair # q
  BY <1>1, RequestTypes DEF HeldPairsInv, SignedInv
<1>3. q \notin given /\ \A g \in Handlers : ~Offers(g, q)
  BY <1>1, UnsignedIsFree
<1>4. claims \in [Pairs -> Users \cup {Nil}] /\ given \subseteq Pairs
  BY DEF TypeOK, TokenTypes
<1>5. \A p \in given : claims'[p] = claims[p]
  BY <1>1, <1>3, <1>4
<1>6. HeldPairsInv' /\ SignedInv'
  <2>1. SignedInv'
    BY <1>1, <1>5 DEF SignedInv
  <2>2. HeldPairsInv'
    BY <1>1 DEF HeldPairsInv, TypeOK, Idle
  <2> QED
    BY <2>1, <2>2
<1>7. ASSUME NEW g \in Handlers, NEW x \in Pairs, Offers(g, x)', x # q
      PROVE  /\ x \notin given' /\ request'[g].token[2] \in given'
             /\ claims'[x] = claims'[request'[g].token[2]]
             /\ \A f \in Handlers : Offers(f, x)' => f = g
  <2>1. ASSUME NEW f \in Handlers, Offers(f, x)'
        PROVE  f # h /\ Offers(f, x) /\ request'[f] = request[f]
    <3>1. Nil \notin Pairs
      BY SessionsAssumption
    <3> QED
      BY <1>1, <1>7, <2>1, <3>1 DEF Offers, TypeOK, Idle
  <2>2. Offers(g, x) /\ request'[g] = request[g]
    BY <1>7, <2>1
  <2>3. /\ x \notin given /\ request[g].token[2] \in given
        /\ claims[x] = claims[request[g].token[2]]
        /\ \A f \in Handlers : Offers(f, x) => f = g
    BY <2>2 DEF PendingInv
  <2> QED
    BY <1>1, <1>4, <1>5, <1>7, <2>1, <2>2, <2>3
<1>8. ASSUME NEW g \in Handlers, Offers(g, q)'
      PROVE  /\ q \notin given' /\ request'[g].token[2] \in given'
             /\ claims'[q] = claims'[request'[g].token[2]]
             /\ \A f \in Handlers : Offers(f, q)' => f = g
  <2>1. ASSUME NEW f \in Handlers, Offers(f, q)'
        PROVE  f = h
    BY <1>1, <1>3, <2>1 DEF Offers, TypeOK
  <2>2. g = h /\ request'[h] = offer
    BY <1>1, <1>8, <2>1 DEF Offers, TypeOK, Idle
  <2>3. request'[h].token[2] = r.pair
    BY <2>2 DEF Refresh
  <2> QED
    BY <1>1, <1>2, <1>3, <1>4, <1>5, <2>1, <2>2, <2>3
<1>9. PendingInv'
  BY <1>7, <1>8 DEF PendingInv
<1> QED
  BY <1>1, <1>6, <1>9

\* What an answer gives out: a pair offered, to the client of the exchanged one.
LEMMA StoreGives ==
  ASSUME LineageInv, NEW h \in Handlers, StoreBlacklist(h), ~UNCHANGED <<given, heirs>>
  PROVE  LET p == request[h].token[2]
             q == request[h].next
         IN  /\ p \in Pairs /\ q \in Pairs /\ Offers(h, q)
             /\ p \in given /\ q \notin given /\ claims[q] = claims[p]
             /\ heirs[p] = {} \/ Refresh(p) \in expired
             /\ given' = given \cup {q}
             /\ heirs' = [heirs EXCEPT ![p] = @ \cup {q}]
<1> DEFINE r == request[h]
<1>1. /\ r.op = "store" /\ r.token \in Tokens /\ r.next \in Pairs \cup {Nil}
      /\ r.next # Nil /\ r.token \notin blacklist \ expired
      /\ given' = given \cup {r.next}
      /\ heirs' = [heirs EXCEPT ![r.token[2]] = @ \cup {r.next}]
  BY RequestTypes DEF LineageInv, RedeemedInv, StoreBlacklist, Respond
<1>2. r.token[2] \in Pairs /\ r.next \in Pairs /\ Offers(h, r.next)
  BY <1>1 DEF Tokens, Offers
<1>3. r.token = Refresh(r.token[2])
  BY <1>1 DEF LineageInv, RedeemedInv, OffersInv, OffersForRefresh, Refresh, Tokens
<1>4. r.token[2] \in given /\ r.next \notin given /\ claims[r.next] = claims[r.token[2]]
  BY <1>2 DEF LineageInv, PendingInv
<1>5. heirs[r.token[2]] = {} \/ Refresh(r.token[2]) \in expired
  BY <1>1, <1>2, <1>3 DEF LineageInv, RedeemedInv, ExchangedInv
<1> QED
  BY <1>1, <1>2, <1>4, <1>5

LEMMA StoreLineage ==
  ASSUME LineageInv, NEW h \in Handlers, StoreBlacklist(h)
  PROVE  HeldPairsInv' /\ SignedInv' /\ PendingInv'
<1>1. TypeOK /\ HeldPairsInv /\ SignedInv /\ PendingInv
  BY DEF LineageInv, RedeemedInv
<1>2. claims' = claims /\ request' = [request EXCEPT ![h] = Idle]
  BY DEF StoreBlacklist, Finish
<1>3. ASSUME NEW g \in Handlers, NEW q \in Pairs, Offers(g, q)'
      PROVE  g # h /\ Offers(g, q) /\ request'[g] = request[g]
  BY <1>1, <1>2, <1>3 DEF TypeOK, Offers, Idle
<1>4. /\ given \subseteq given'
      /\ \A q \in given' : q \in given \/ (q \in Pairs /\ Offers(h, q) /\ claims[q] # Nil)
  <2>1. CASE UNCHANGED <<given, heirs>>
    BY <2>1
  <2>2. CASE ~UNCHANGED <<given, heirs>>
    BY <1>1, <2>2, StoreGives DEF SignedInv
  <2> QED
    BY <2>1, <2>2
<1>5. HeldPairsInv' /\ SignedInv'
  BY <1>1, <1>2, <1>4 DEF HeldPairsInv, SignedInv, TypeOK, Idle
<1>6. ASSUME NEW g \in Handlers, NEW q \in Pairs, Offers(g, q)'
      PROVE  /\ q \notin given' /\ request'[g].token[2] \in given'
             /\ claims'[q] = claims'[request'[g].token[2]]
             /\ \A f \in Handlers : Offers(f, q)' => f = g
  <2>1. g # h /\ Offers(g, q) /\ request'[g] = request[g]
    BY <1>3, <1>6
  <2>2. /\ q \notin given /\ request[g].token[2] \in given
        /\ claims[q] = claims[request[g].token[2]]
        /\ \A f \in Handlers : Offers(f, q) => f = g
    BY <1>1, <2>1 DEF PendingInv
  <2> QED
    BY <1>2, <1>3, <1>4, <2>1, <2>2
<1>7. PendingInv'
  BY <1>6 DEF PendingInv
<1> QED
  BY <1>5, <1>7

LEMMA LineageStep ==
  ASSUME LineageInv, [Next]_vars
  PROVE  LineageInv'
<1>1. RedeemedInv' /\ TypeOK /\ TypeOK' /\ HeldPairsInv /\ SignedInv /\ PendingInv
  BY RedeemedStep DEF LineageInv, RedeemedInv
<1>2. ASSUME NEW u \in Users, NEW s \in SessionIds, NEW p \in Pairs, NEW k \in Breaks \cup {5},
             Login(u, s, p, k)
      PROVE  HeldPairsInv' /\ SignedInv' /\ PendingInv'
  BY <1>1, <1>2, LoginLineage DEF Login
<1>3. ASSUME NEW t \in Expiring \X Pairs, Expire(t)
      PROVE  HeldPairsInv' /\ SignedInv' /\ PendingInv'
  BY <1>1, <1>3 DEF Expire, HeldPairsInv, SignedInv, PendingInv, Offers
<1>4. HeldPairsInv' /\ SignedInv' /\ PendingInv'
  BY <1>1, <1>2, <1>3, LineageWriters, PlainLineage, RotateLineage, StoreLineage
<1> QED
  BY <1>1, <1>4 DEF LineageInv

LEMMA LineageHolds == Spec => []LineageInv
<1>1. Init => LineageInv
  <2>1. Init => RedeemedInv
    BY InitRedeemed
  <2>2. Init => HeldPairsInv /\ SignedInv /\ PendingInv
    BY DEF Init, HeldPairsInv, SignedInv, PendingInv, Offers, Idle
  <2> QED
    BY <2>1, <2>2 DEF LineageInv
<1>2. LineageInv /\ [Next]_vars => LineageInv'
  BY LineageStep
<1> QED
  BY <1>1, <1>2, PTL DEF Spec

LEMMA StepLineage ==
  ASSUME LineageInv, [Next]_vars
  PROVE  [Lineage!Next]_<<Owner, heirs, Dead>>
<1>1. TypeOK /\ TypeOK' /\ HeldPairsInv /\ SignedInv /\ PendingInv
  BY RedeemedStep DEF LineageInv, RedeemedInv
<1>2. CASE Plain
  BY <1>2 DEF Plain, tokens, Owner, Dead
<1>3. ASSUME NEW u \in Users, NEW s \in SessionIds, NEW p \in Pairs, NEW k, Login(u, s, p, k)
      PROVE  Lineage!SignIn(u, p)
  <2>1. /\ claims[p] = Nil /\ claims' = [claims EXCEPT ![p] = u] /\ given' = given \cup {p}
        /\ UNCHANGED <<heirs, expired>>
    BY <1>3 DEF Login
  <2>2. Owner[p] = Nil
    BY <2>1 DEF Owner
  <2>3. Owner' = [Owner EXCEPT ![p] = u]
    BY <1>1, <2>1 DEF Owner, TypeOK, TokenTypes
  <2> QED
    BY <2>1, <2>2, <2>3 DEF Lineage!SignIn, Dead
<1>4. ASSUME NEW h \in Handlers, NEW q \in Pairs,
             RotateTokens(h, q) \/ \E k \in Breaks : RotateTokensFails(h, q, k)
      PROVE  UNCHANGED <<Owner, heirs, Dead>>
  <2>1. UNCHANGED <<given, heirs, expired>>
    BY <1>1, <1>4, RotateLineage
  <2>2. claims[q] = Nil /\ claims' = [claims EXCEPT ![q] = claims[request[h].pair]]
    BY <1>4 DEF RotateTokens, RotateTokensFails
  <2>3. q \notin given
    BY <1>1, <2>2, UnsignedIsFree
  <2>4. UNCHANGED Owner
    BY <1>1, <2>1, <2>2, <2>3 DEF Owner, TypeOK, TokenTypes
  <2> QED
    BY <2>1, <2>4 DEF Dead
<1>5. ASSUME NEW h \in Handlers, StoreBlacklist(h)
      PROVE  [Lineage!Next]_<<Owner, heirs, Dead>>
  <2>1. UNCHANGED <<claims, expired>>
    BY <1>5 DEF StoreBlacklist
  <2>2. CASE UNCHANGED <<given, heirs>>
    BY <2>1, <2>2 DEF Owner, Dead
  <2>3. CASE ~UNCHANGED <<given, heirs>>
    <3> DEFINE p == request[h].token[2]
               q == request[h].next
    <3>1. /\ p \in Pairs /\ q \in Pairs
          /\ p \in given /\ q \notin given /\ claims[q] = claims[p] /\ claims[p] # Nil
          /\ heirs[p] = {} \/ Refresh(p) \in expired
          /\ given' = given \cup {q}
          /\ heirs' = [heirs EXCEPT ![p] = @ \cup {q}]
      BY <1>1, <1>5, <2>3, StoreGives DEF SignedInv
    <3> HIDE DEF p, q
    <3>2. Owner[p] # Nil /\ Owner[q] = Nil
      BY <3>1 DEF Owner
    <3>3. Owner' = [Owner EXCEPT ![q] = Owner[p]]
      BY <2>1, <3>1 DEF Owner
    <3>4. Dead' = Dead /\ (heirs[p] = {} \/ p \in Dead)
      BY <2>1, <3>1 DEF Dead
    <3>5. Lineage!Exchange(p, q)
      BY <3>1, <3>2, <3>3, <3>4 DEF Lineage!Exchange
    <3> QED
      BY <3>1, <3>5 DEF Lineage!Next
  <2> QED
    BY <2>2, <2>3
<1>6. ASSUME NEW t \in Expiring \X Pairs, Expire(t)
      PROVE  Lineage!Expire(t[2]) \/ UNCHANGED <<Owner, heirs, Dead>>
  <2>1. expired' = expired \cup {t} /\ UNCHANGED <<claims, given, heirs>>
    BY <1>6 DEF Expire, history
  <2>2. CASE t[1] = "refresh"
    <3>1. t = Refresh(t[2]) /\ t[2] \in Pairs
      BY <2>2 DEF Refresh
    <3>2. Dead' = Dead \cup {t[2]}
      BY <2>1, <3>1 DEF Dead, Refresh
    <3> QED
      BY <2>1, <3>2 DEF Lineage!Expire, Owner
  <2>3. CASE t[1] # "refresh"
    BY <2>1, <2>3 DEF Owner, Dead, Refresh
  <2> QED
    BY <2>2, <2>3
<1>7. \A t \in Expiring \X Pairs : t[2] \in Pairs
  OBVIOUS
<1>8. ASSUME NEW u \in Users, NEW p \in Pairs, Lineage!SignIn(u, p)
      PROVE  Lineage!Next
  BY <1>8 DEF Lineage!Next
<1>9. ASSUME NEW p \in Pairs, Lineage!Expire(p)
      PROVE  Lineage!Next
  BY <1>9 DEF Lineage!Next
<1> QED
  BY <1>1, <1>2, <1>3, <1>4, <1>5, <1>6, <1>7, <1>8, <1>9, LineageWriters

\* Refreshes that overlap, break off or are repeated exchange pairs as
\* PairLineage does: in one step, once while the token is valid, within one
\* account.
THEOREM LineageKept == Spec => KeepsLineage
<1>1. Init => Lineage!Init
  BY DEF Init, Lineage!Init, Owner, Dead
<1>2. LineageInv /\ [Next]_vars => [Lineage!Next]_<<Owner, heirs, Dead>>
  BY StepLineage
<1> QED
  BY <1>1, <1>2, LineageHolds, PTL DEF Spec, KeepsLineage, Lineage!Spec

\* Pairs that came of one login: each has one predecessor at most, and belongs
\* to the account of that one.
FamiliesApart ==
  \A p \in Pairs : \A q \in heirs[p] :
    /\ Owner[q] # Nil /\ Owner[q] = Owner[p]
    /\ \A x \in Pairs : q \in heirs[x] => x = p

LEMMA FamilyStep ==
  ASSUME TypeOK, FamiliesApart, [Lineage!Next]_<<Owner, heirs, Dead>>
  PROVE  FamiliesApart'
<1>1. Owner \in [Pairs -> Users \cup {Nil}] /\ heirs \in [Pairs -> SUBSET Pairs]
  BY DEF Owner, TypeOK, TokenTypes, HistoryTypes
<1>2. CASE UNCHANGED <<Owner, heirs>>
  BY <1>2 DEF FamiliesApart
<1>3. ASSUME NEW u \in Users, NEW p \in Pairs, Lineage!SignIn(u, p)
      PROVE  FamiliesApart'
  <2>1. Owner[p] = Nil /\ Owner' = [Owner EXCEPT ![p] = u] /\ heirs' = heirs
    BY <1>3 DEF Lineage!SignIn
  <2> QED
    BY <1>1, <2>1 DEF FamiliesApart
<1>4. ASSUME NEW p \in Pairs, NEW q \in Pairs, Lineage!Exchange(p, q)
      PROVE  FamiliesApart'
  <2>1. /\ Owner[p] # Nil /\ Owner[q] = Nil
        /\ Owner' = [Owner EXCEPT ![q] = Owner[p]]
        /\ heirs' = [heirs EXCEPT ![p] = @ \cup {q}]
    BY <1>4 DEF Lineage!Exchange
  <2>2. \A x \in Pairs : q \notin heirs[x] /\ (x = q => heirs[x] = {})
    BY <1>1, <2>1 DEF FamiliesApart
  <2> QED
    BY <1>1, <2>1, <2>2 DEF FamiliesApart
<1>5. ASSUME NEW p \in Pairs, Lineage!Expire(p)
      PROVE  UNCHANGED <<Owner, heirs>>
  BY <1>5 DEF Lineage!Expire
<1> QED
  BY <1>2, <1>3, <1>4, <1>5 DEF Lineage!Next

\* However refreshes overlap, the pairs that came of different logins never
\* mix, and no refresh hands the pair of one account to another.
THEOREM FamiliesHold == Spec => []FamiliesApart
<1>1. Init => FamiliesApart
  BY DEF Init, FamiliesApart
<1>2. LineageInv /\ FamiliesApart /\ [Next]_vars => FamiliesApart'
  BY StepLineage, FamilyStep DEF LineageInv, RedeemedInv
<1> QED
  BY <1>1, <1>2, LineageHolds, PTL DEF Spec

-----------------------------------------------------------------------------
(* RefreshableIsListed.                                                    *)

\* No handler comes to hold a session it found or is to rotate.
Quiet ==
  \A g \in Handlers : request'[g].op \in {"found", "rotate"} => request'[g] = request[g]

LEMMA QuietStep ==
  ASSUME TypeOK, NEW h \in Handlers, NEW r, request' = [request EXCEPT ![h] = r],
         r.op \notin {"found", "rotate"}
  PROVE  Quiet
  BY DEF TypeOK, Quiet

LEMMA IdleHoldsNone == Idle.op \notin {"found", "rotate"}
  BY DEF Idle

LEMMA RevokingHoldsNone ==
  ASSUME NEW kind, NEW p, NEW todo
  PROVE  Revoking(kind, p, todo).op \notin {"found", "rotate"}
  BY DEF Revoking

LEMMA SkipHoldsNone ==
  ASSUME NEW r, NEW s
  PROVE  Skip(r, s).op \notin {"found", "rotate"}
  BY RevokingHoldsNone DEF Skip

LEMMA StartsQuietly ==
  ASSUME TypeOK, NEW h \in Handlers, Starts(h)
  PROVE  Quiet /\ opened' = opened
<1>1. ASSUME NEW p \in Pairs, CheckRefresh(h, p)
      PROVE  Quiet /\ opened' = opened
  <2>1. [op |-> "refresh", pair |-> p].op \notin {"found", "rotate"}
    OBVIOUS
  <2> QED
    BY <1>1, <2>1, QuietStep DEF CheckRefresh, Start, history
<1>2. \A p \in Pairs : Logout(h, p) => Quiet /\ opened' = opened
  BY RevokingHoldsNone, QuietStep DEF Logout, Start, history
<1>3. \A p \in Pairs, s \in SessionIds : RevokeSession(h, p, s) => Quiet /\ opened' = opened
  BY RevokingHoldsNone, QuietStep DEF RevokeSession, Start, history
<1>4. \A p \in Pairs, unread \in Unreadable : RevokeOthers(h, p, unread) => Quiet /\ opened' = opened
  BY RevokingHoldsNone, QuietStep DEF RevokeOthers, Start
<1>5. \A u \in Users, unread \in Unreadable : RevokeAll(h, u, unread) => Quiet /\ opened' = opened
  BY RevokingHoldsNone, QuietStep DEF RevokeAll, Start
<1> QED
  BY <1>1, <1>2, <1>3, <1>4, <1>5 DEF Starts

LEMMA RevokesQuietly ==
  ASSUME TypeOK, NEW h \in Handlers, RevokeSteps(h)
  PROVE  Quiet /\ opened' = opened
<1> DEFINE r == request[h]
<1>1. ASSUME NEW s \in SessionIds, ReadForDelete(h, s)
      PROVE  Quiet /\ opened' = opened
  <2>1. [op |-> "delete", kind |-> r.kind, pair |-> r.pair, todo |-> r.todo,
         session |-> s, old |-> session[s]].op \notin {"found", "rotate"}
    OBVIOUS
  <2> QED
    BY <1>1, <2>1, SkipHoldsNone, QuietStep DEF ReadForDelete, Continue, history
<1>2. DeleteSession(h) => Quiet /\ opened' = opened
  BY RevokingHoldsNone, QuietStep DEF DeleteSession, Continue, history
<1>3. \A k \in Breaks : DeleteSessionFails(h, k) => Quiet /\ opened' = opened
  BY SkipHoldsNone, QuietStep DEF DeleteSessionFails, Continue, history
<1>4. CASE EndRevoke(h)
  <2>1. [op |-> "blacklist", token |-> Access(r.pair), next |-> Nil].op \notin {"found", "rotate"}
    OBVIOUS
  <2> QED
    BY <1>4, <2>1, IdleHoldsNone, QuietStep DEF EndRevoke, Continue, Finish, history
<1> QED
  BY <1>1, <1>2, <1>3, <1>4 DEF RevokeSteps

\* Of the steps of a refresh, those after the session was read again.
LEMMA RotatesQuietly ==
  ASSUME TypeOK, NEW h \in Handlers,
         \/ \E q \in Pairs : RotateTokens(h, q) \/ \E k \in Breaks : RotateTokensFails(h, q, k)
         \/ CheckExpiry(h) \/ StoreBlacklist(h) \/ Abort(h)
  PROVE  Quiet /\ opened' = opened
<1> DEFINE r == request[h]
<1>1. ASSUME NEW q \in Pairs, RotateTokens(h, q)
      PROVE  Quiet /\ opened' = opened
  <2>1. [op |-> "blacklist", token |-> Refresh(r.pair), next |-> q].op \notin {"found", "rotate"}
    OBVIOUS
  <2> QED
    BY <1>1, <2>1, QuietStep DEF RotateTokens, Continue
<1>2. \A q \in Pairs, k \in Breaks : RotateTokensFails(h, q, k) => Quiet /\ opened' = opened
  BY IdleHoldsNone, QuietStep DEF RotateTokensFails, Finish
<1>3. CASE CheckExpiry(h)
  <2>1. r \in [op: {"blacklist", "store"}, token: Tokens, next: Pairs \cup {Nil}]
    BY <1>3 DEF CheckExpiry, TypeOK, Requests, Called, Idle
  <2>2. [r EXCEPT !.op = "store"].op \notin {"found", "rotate"}
    BY <2>1
  <2> QED
    BY <1>3, <2>2, IdleHoldsNone, QuietStep DEF CheckExpiry, Continue, Finish, history
<1>4. CASE StoreBlacklist(h) \/ Abort(h)
  BY <1>4, IdleHoldsNone, QuietStep DEF StoreBlacklist, Abort, Finish, history
<1> QED
  BY <1>1, <1>2, <1>3, <1>4

LEMMA QuietHeld ==
  ASSUME HeldInv, Quiet, opened' = opened
  PROVE  HeldInv'
  BY DEF HeldInv, Quiet

\* Keys and sessions that only disappear, from sets that stay as they are.
LEMMA VanishingIsListed ==
  ASSUME TypeOK, KeysInv, LedInv,
         \A p \in Pairs : refresh'[p] \in {refresh[p], Nil},
         \A s \in SessionIds : session'[s] \in {session[s], Absent},
         listed' = listed, strays \subseteq strays', opened' = opened
  PROVE  KeysInv' /\ LedInv'
  BY DEF KeysInv, LedInv, Led, Leads, Live

\* A step of a request that holds its place: nothing in Redis changes.
LEMMA StayingIsListed ==
  ASSUME ListedInv, UNCHANGED <<redis, opened, strays>>
  PROVE  KeysInv' /\ LedInv'
  BY VanishingIsListed DEF ListedInv, redis

LEMMA LoginIsListed ==
  ASSUME ListedInv, NEW u \in Users, NEW s \in SessionIds, NEW p \in Pairs,
         NEW k \in 0..6, Login(u, s, p, k)
  PROVE  KeysInv' /\ HeldInv' /\ LedInv'
<1> DEFINE row == [user |-> u, pair |-> p]
<1>1. /\ session \in [SessionIds -> Row \cup {Absent}]
      /\ listed \in [Users -> SUBSET SessionIds]
      /\ refresh \in [Pairs -> SessionIds \cup {Nil}]
  BY DEF ListedInv, TypeOK, RedisTypes
<1>2. opened' = opened \cup {s} /\ s \notin opened /\ request' = request /\ strays' = strays
  BY DEF Login
<1>3. /\ session' = IF k >= 1 THEN [session EXCEPT ![s] = row] ELSE session
      /\ listed' = IF k >= 2 THEN [listed EXCEPT ![u] = @ \cup {s}] ELSE listed
      /\ refresh' = IF k >= 5 THEN [refresh EXCEPT ![p] = s] ELSE refresh
  BY DEF Login, Create, After
<1>4. KeysInv'
  BY <1>1, <1>2, <1>3 DEF ListedInv, KeysInv
<1>5. HeldInv'
  BY <1>2 DEF ListedInv, HeldInv
<1>6. ASSUME NEW t \in SessionIds, Led(t)'
      PROVE  t \in listed'[session'[t].user] \cup strays'
  <2>1. PICK x \in Pairs : refresh'[x] = t /\ t # Nil /\ session'[t] # Absent
    BY <1>6 DEF Led, Leads, Live
  <2>2. CASE t = s
    <3>1. k >= 5
      BY <1>2, <1>3, <2>1, <2>2 DEF ListedInv, KeysInv
    <3>2. k >= 1 /\ k >= 2
      BY <3>1
    <3>3. session'[t].user = u /\ t \in listed'[u]
      BY <1>1, <1>3, <2>2, <3>2
    <3> QED
      BY <3>3
  <2>3. CASE t # s
    <3>1. refresh[x] = t /\ session'[t] = session[t]
      BY <1>1, <1>3, <2>1, <2>3
    <3>2. t \in listed[session[t].user] \cup strays
      BY <2>1, <3>1 DEF ListedInv, LedInv, Led, Leads, Live
    <3>3. session[t].user \in Users
      BY <1>1, <2>1, <3>1 DEF Row
    <3> QED
      BY <1>1, <1>2, <1>3, <3>1, <3>2, <3>3
  <2> QED
    BY <2>2, <2>3
<1> QED
  BY <1>4, <1>5, <1>6 DEF LedInv

LEMMA RotateIsListed ==
  ASSUME ListedInv, NEW h \in Handlers, NEW q \in Pairs, NEW k \in 0..6,
         request[h].op = "rotate", Rotate(request[h], q, k), opened' = opened
  PROVE  KeysInv' /\ LedInv'
<1> DEFINE r == request[h]
<1>1. r.session \in SessionIds /\ r.old \in Row /\ r.session \in opened
  BY RequestTypes DEF ListedInv, HeldInv
<1>2. /\ session \in [SessionIds -> Row \cup {Absent}]
      /\ refresh \in [Pairs -> SessionIds \cup {Nil}]
  BY DEF ListedInv, TypeOK, RedisTypes
<1>3. Rotate(r, q, k)
  OBVIOUS
<1> HIDE DEF r
<1>4. r.old.pair \in Pairs /\ r.old.user \in Users /\ [r.old EXCEPT !.pair = q].user = r.old.user
  BY <1>1 DEF Row
<1>5. listed' = listed /\ strays \subseteq strays'
  BY <1>3 DEF Rotate
<1>6. CASE k >= 3
  <2>1. /\ session' = [session EXCEPT ![r.session] = [r.old EXCEPT !.pair = q]]
        /\ r.session \in listed[r.old.user] \cup strays'
    BY <1>3, <1>6 DEF Rotate, After
  <2>2. \A p \in Pairs : refresh'[p] \in {refresh[p], Nil, r.session}
    BY <1>2, <1>3 DEF Rotate, After
  <2>3. KeysInv'
    BY <1>1, <2>2 DEF ListedInv, KeysInv
  <2>4. ASSUME NEW t \in SessionIds, Led(t)'
        PROVE  t \in listed'[session'[t].user] \cup strays'
    <3>1. CASE t = r.session
      BY <1>1, <1>2, <1>4, <1>5, <2>1, <3>1
    <3>2. CASE t # r.session
      <4>1. PICK x \in Pairs : refresh'[x] = t /\ t # Nil /\ session'[t] # Absent
        BY <2>4 DEF Led, Leads, Live
      <4>2. refresh[x] = t /\ session'[t] = session[t]
        BY <1>2, <2>1, <2>2, <3>2, <4>1
      <4>3. t \in listed[session[t].user] \cup strays
        BY <4>1, <4>2 DEF ListedInv, LedInv, Led, Leads, Live
      <4> QED
        BY <1>5, <4>2, <4>3
    <3> QED
      BY <3>1, <3>2
  <2> QED
    BY <2>3, <2>4 DEF LedInv
<1>7. CASE ~(k >= 3)
  <2>1. ~(k >= 5)
    BY <1>7
  <2>2. session' = session /\ \A p \in Pairs : refresh'[p] \in {refresh[p], Nil}
    BY <1>2, <1>3, <1>7, <2>1 DEF Rotate, After
  <2> QED
    BY <1>5, <2>2, VanishingIsListed DEF ListedInv
<1> QED
  BY <1>6, <1>7

\* Delete takes the session away before it leaves the set.
LEMMA DeleteIsListed ==
  ASSUME ListedInv, NEW h \in Handlers, NEW k \in 0..6, request[h].op = "delete",
         Delete(request[h], k), opened' = opened, strays' = strays
  PROVE  KeysInv' /\ LedInv'
<1> DEFINE r == request[h]
<1>1. r.session \in SessionIds /\ r.old \in Row
  BY RequestTypes DEF ListedInv
<1>2. /\ session \in [SessionIds -> Row \cup {Absent}]
      /\ listed \in [Users -> SUBSET SessionIds]
      /\ refresh \in [Pairs -> SessionIds \cup {Nil}]
  BY DEF ListedInv, TypeOK, RedisTypes
<1>3. Delete(r, k)
  OBVIOUS
<1> HIDE DEF r
<1>4. \A p \in Pairs : refresh'[p] \in {refresh[p], Nil}
  BY <1>2, <1>3 DEF Delete, After
<1>5. \A s \in SessionIds : session'[s] \in {session[s], Absent}
  BY <1>2, <1>3 DEF Delete, After
<1>6. CASE k >= 1
  <2>1. session'[r.session] = Absent
    BY <1>1, <1>2, <1>3, <1>6 DEF Delete, After
  <2>2. KeysInv'
    BY <1>4 DEF ListedInv, KeysInv
  <2>3. ASSUME NEW t \in SessionIds, Led(t)'
        PROVE  t \in listed'[session'[t].user] \cup strays'
    <3>1. PICK x \in Pairs : refresh'[x] = t /\ t # Nil /\ session'[t] # Absent
      BY <2>3 DEF Led, Leads, Live
    <3>2. t # r.session /\ session'[t] = session[t] /\ refresh[x] = t
      BY <1>4, <1>5, <2>1, <3>1
    <3>3. t \in listed[session[t].user] \cup strays
      BY <3>1, <3>2 DEF ListedInv, LedInv, Led, Leads, Live
    <3>4. session[t].user \in Users
      BY <1>2, <3>1, <3>2 DEF Row
    <3>5. t \in listed[session[t].user] => t \in listed'[session[t].user]
      BY <1>2, <1>3, <3>2, <3>4 DEF Delete, After
    <3> QED
      BY <3>2, <3>3, <3>5
  <2> QED
    BY <2>2, <2>3 DEF LedInv
<1>7. CASE ~(k >= 1)
  <2>1. ~(k >= 2)
    BY <1>7
  <2>2. listed' = listed
    BY <1>3, <2>1 DEF Delete, After
  <2> QED
    BY <1>4, <1>5, <2>2, VanishingIsListed DEF ListedInv
<1> QED
  BY <1>6, <1>7

LEMMA ListingIsListed ==
  ASSUME ListedInv, NEW u, NEW unread, ListSessions(u, unread),
         UNCHANGED <<session, refresh, opened>>
  PROVE  KeysInv' /\ LedInv'
<1>1. /\ session \in [SessionIds -> Row \cup {Absent}]
      /\ listed \in [Users -> SUBSET SessionIds]
  BY DEF ListedInv, TypeOK, RedisTypes
<1>2. KeysInv'
  BY DEF ListedInv, KeysInv
<1>3. ASSUME NEW t \in SessionIds, Led(t)'
      PROVE  t \in listed'[session'[t].user] \cup strays'
  <2>1. Led(t) /\ Live(t)
    BY <1>3 DEF Led, Leads, Live
  <2>2. t \in listed[session[t].user] \cup strays
    BY <2>1 DEF ListedInv, LedInv
  <2>3. session[t].user \in Users
    BY <1>1, <2>1 DEF Live, Row
  <2>4. CASE session[t].user = u /\ t \in listed[u]
    BY <1>1, <2>1, <2>3, <2>4 DEF ListSessions, Found
  <2>5. CASE session[t].user # u \/ t \in strays
    BY <1>1, <2>2, <2>3, <2>5 DEF ListSessions
  <2> QED
    BY <2>2, <2>4, <2>5
<1> QED
  BY <1>2, <1>3 DEF LedInv

LEMMA ListedRefreshStep ==
  ASSUME ListedInv, NEW h \in Handlers, RefreshSteps(h)
  PROVE  KeysInv' /\ HeldInv' /\ LedInv'
<1> DEFINE r == request[h]
<1>0. TypeOK /\ HeldInv /\ 6 \in 0..6 /\ Breaks \subseteq 0..6
  BY SessionsAssumption DEF ListedInv
<1>1. CASE FindSession(h)
  <2>1. r.pair \in Pairs
    BY <1>0, <1>1, RequestTypes DEF FindSession
  <2>2. KeysInv' /\ LedInv' /\ opened' = opened
    BY <1>1, StayingIsListed DEF FindSession, history
  <2>3. ASSUME NEW s \in SessionIds, Leads(refresh[r.pair], s),
               Continue(h, [op |-> "found", pair |-> r.pair, session |-> s])
        PROVE  HeldInv'
    <3>1. s \in opened
      BY <2>1, <2>3 DEF Leads, ListedInv, KeysInv
    <3> QED
      BY <1>0, <2>2, <2>3, <3>1 DEF Continue, HeldInv, TypeOK
  <2>4. CASE Finish(h)
    BY <1>0, <2>2, <2>4, IdleHoldsNone, QuietStep, QuietHeld DEF Finish
  <2> QED
    BY <1>1, <2>2, <2>3, <2>4 DEF FindSession
<1>2. CASE ReadForRotate(h)
  <2>1. KeysInv' /\ LedInv' /\ opened' = opened
    BY <1>2, StayingIsListed DEF ReadForRotate, history
  <2>2. r.session \in opened
    BY <1>0, <1>2 DEF ReadForRotate, HeldInv
  <2>3. CASE Continue(h, [op |-> "rotate", pair |-> r.pair, session |-> r.session,
                          old |-> session[r.session]])
    BY <1>0, <2>1, <2>2, <2>3 DEF Continue, HeldInv, TypeOK
  <2>4. CASE Finish(h)
    BY <1>0, <2>1, <2>4, IdleHoldsNone, QuietStep, QuietHeld DEF Finish
  <2> QED
    BY <1>2, <2>1, <2>3, <2>4 DEF ReadForRotate
<1>3. ASSUME NEW q \in Pairs, RotateTokens(h, q)
      PROVE  KeysInv' /\ HeldInv' /\ LedInv'
  <2>1. r.op = "rotate" /\ Rotate(r, q, 6)
    BY <1>3 DEF RotateTokens
  <2>2. Quiet /\ opened' = opened
    BY <1>0, <1>3, RotatesQuietly
  <2>3. HeldInv'
    BY <1>0, <2>2, QuietHeld
  <2> QED
    BY <1>0, <2>1, <2>2, <2>3, RotateIsListed
<1>4. ASSUME NEW q \in Pairs, NEW k \in Breaks, RotateTokensFails(h, q, k)
      PROVE  KeysInv' /\ HeldInv' /\ LedInv'
  <2>1. r.op = "rotate" /\ Rotate(r, q, k)
    BY <1>4 DEF RotateTokensFails
  <2>2. Quiet /\ opened' = opened
    BY <1>0, <1>4, RotatesQuietly
  <2>3. HeldInv'
    BY <1>0, <2>2, QuietHeld
  <2> QED
    BY <1>0, <2>1, <2>2, <2>3, RotateIsListed
<1>5. CASE CheckExpiry(h) \/ StoreBlacklist(h)
  <2>1. UNCHANGED <<redis, opened, strays>>
    BY <1>5 DEF CheckExpiry, StoreBlacklist, history
  <2> QED
    BY <1>0, <1>5, <2>1, StayingIsListed, RotatesQuietly, QuietHeld
<1> QED
  BY <1>1, <1>2, <1>3, <1>4, <1>5 DEF RefreshSteps

LEMMA ListedRevokeStep ==
  ASSUME ListedInv, NEW h \in Handlers, Starts(h) \/ RevokeSteps(h)
  PROVE  KeysInv' /\ HeldInv' /\ LedInv'
<1>1. HeldInv'
  BY StartsQuietly, RevokesQuietly, QuietHeld DEF ListedInv
<1>2. CASE Starts(h)
  <2>1. ASSUME NEW p \in Pairs,
               \/ CheckRefresh(h, p) \/ Logout(h, p)
               \/ \E s \in SessionIds : RevokeSession(h, p, s)
        PROVE  KeysInv' /\ LedInv'
    BY <2>1, StayingIsListed DEF CheckRefresh, Logout, RevokeSession, history
  <2>2. ASSUME NEW p \in Pairs, NEW unread \in Unreadable, RevokeOthers(h, p, unread)
        PROVE  KeysInv' /\ LedInv'
    BY <2>2, ListingIsListed DEF RevokeOthers
  <2>3. ASSUME NEW u \in Users, NEW unread \in Unreadable, RevokeAll(h, u, unread)
        PROVE  KeysInv' /\ LedInv'
    BY <2>3, ListingIsListed DEF RevokeAll
  <2> QED
    BY <1>1, <1>2, <2>1, <2>2, <2>3 DEF Starts
<1>3. CASE RevokeSteps(h)
  <2>0. 4 \in 0..6 /\ Breaks \subseteq 0..6
    BY SessionsAssumption
  <2>1. CASE EndRevoke(h) \/ \E s \in SessionIds : ReadForDelete(h, s)
    BY <1>1, <2>1, StayingIsListed DEF EndRevoke, ReadForDelete, history
  <2>2. CASE DeleteSession(h)
    BY <1>1, <2>0, <2>2, DeleteIsListed DEF DeleteSession, history
  <2>3. ASSUME NEW k \in Breaks, DeleteSessionFails(h, k)
        PROVE  KeysInv' /\ LedInv'
    BY <2>0, <2>3, DeleteIsListed DEF DeleteSessionFails, history
  <2> QED
    BY <1>1, <1>3, <2>1, <2>2, <2>3 DEF RevokeSteps
<1> QED
  BY <1>2, <1>3

\* exp takes keys and sessions away.
LEMMA ExpireVanishes ==
  ASSUME TypeOK, NEW t, Expire(t)
  PROVE  /\ \A p \in Pairs : refresh'[p] \in {refresh[p], Nil}
         /\ \A s \in SessionIds : session'[s] \in {session[s], Absent}
         /\ listed' = listed /\ request' = request /\ opened' = opened /\ strays' = strays
  BY DEF Expire, TypeOK, RedisTypes, history

LEMMA ListedStep ==
  ASSUME ListedInv, [Next]_vars
  PROVE  ListedInv'
<1>0. TypeOK' /\ TypeOK /\ HeldInv /\ KeysInv /\ LedInv
  BY StepTypes DEF ListedInv
<1>1. ASSUME NEW u \in Users, NEW s \in SessionIds, NEW p \in Pairs, NEW k \in Breaks \cup {5},
             Login(u, s, p, k)
      PROVE  KeysInv' /\ HeldInv' /\ LedInv'
  <2>1. k \in 0..6
    BY SessionsAssumption
  <2> QED
    BY <1>1, <2>1, LoginIsListed
<1>2. ASSUME NEW p \in Pairs, NEW unread \in Unreadable, GetActiveSessions(p, unread)
      PROVE  KeysInv' /\ HeldInv' /\ LedInv'
  <2>1. KeysInv' /\ LedInv'
    BY <1>2, ListingIsListed DEF GetActiveSessions
  <2>2. HeldInv'
    BY <1>0, <1>2 DEF GetActiveSessions, HeldInv
  <2> QED
    BY <2>1, <2>2
<1>3. ASSUME NEW h \in Handlers, Starts(h) \/ RefreshSteps(h) \/ RevokeSteps(h)
      PROVE  KeysInv' /\ HeldInv' /\ LedInv'
  BY <1>3, ListedRefreshStep, ListedRevokeStep
<1>4. ASSUME NEW h \in Handlers, Abort(h)
      PROVE  KeysInv' /\ HeldInv' /\ LedInv'
  <2>1. UNCHANGED <<redis, opened, strays>>
    BY <1>4 DEF Abort, history
  <2> QED
    BY <1>0, <1>4, <2>1, StayingIsListed, RotatesQuietly, QuietHeld
<1>5. ASSUME NEW t \in Expiring \X Pairs, Expire(t)
      PROVE  KeysInv' /\ HeldInv' /\ LedInv'
  BY <1>0, <1>5, ExpireVanishes, VanishingIsListed DEF HeldInv
<1>6. CASE UNCHANGED vars
  <2>1. UNCHANGED <<redis, opened, strays>> /\ request' = request
    BY <1>6 DEF vars, history
  <2> QED
    BY <1>0, <2>1, StayingIsListed DEF ListedInv, HeldInv
<1> QED
  BY <1>0, <1>1, <1>2, <1>3, <1>4, <1>5, <1>6 DEF Next, ListedInv

LEMMA ListedInvHolds == Spec => []ListedInv
<1>1. Init => ListedInv
  <2>1. Init => KeysInv /\ HeldInv
    BY DEF Init, KeysInv, HeldInv, Idle
  <2>2. Init => LedInv
    BY DEF Init, LedInv, Led, Leads
  <2> QED
    BY <2>1, <2>2, InitTypes DEF ListedInv
<1>2. ListedInv /\ [Next]_vars => ListedInv'
  BY ListedStep
<1> QED
  BY <1>1, <1>2, PTL DEF Spec

-----------------------------------------------------------------------------
(* A session belongs to one account.                                       *)

\* A step that only takes sessions and keys away.
Shrinks ==
  /\ \A s \in SessionIds : session'[s] \in {session[s], Absent}
  /\ \A p \in Pairs : access'[p] \in {access[p], Nil} /\ refresh'[p] \in {refresh[p], Nil}
  /\ UNCHANGED claims

\* What a handler comes to hold names no account the session has not.
Tells(r) ==
  \A s \in SessionIds, u \in Users \cup {Nil} : RequestNames(r, u, s) => Names(u, s)

NothingNamed == \A s \in SessionIds, u \in Users \cup {Nil} : Names(u, s)' => Names(u, s)

LEMMA OwnKept ==
  ASSUME OwnInv, NothingNamed, opened \subseteq opened'
  PROVE  OwnInv'
  BY DEF OwnInv, NothingNamed

LEMMA StillNames ==
  ASSUME Shrinks, NEW s \in SessionIds, NEW u
  PROVE  /\ (Live(s) /\ session[s].user = u)' => Names(u, s)
         /\ (\E p \in Pairs : s \in {access[p], refresh[p]} /\ claims[p] = u)' => Names(u, s)
<1>1. s # Nil
  BY SessionsAssumption
<1> QED
  BY <1>1 DEF Shrinks, Names, Live

LEMMA ShrinkNames ==
  ASSUME Shrinks, request' = request
  PROVE  NothingNamed
<1> SUFFICES ASSUME NEW s \in SessionIds, NEW u \in Users \cup {Nil}, Names(u, s)'
             PROVE  Names(u, s)
  BY DEF NothingNamed
<1>1. CASE \E h \in Handlers : RequestNames(request[h], u, s)'
  BY <1>1 DEF Names, RequestNames, Shrinks
<1> QED
  BY <1>1, StillNames DEF Names

LEMMA HoldNames ==
  ASSUME TypeOK, Shrinks, NEW h \in Handlers, NEW r, request' = [request EXCEPT ![h] = r], Tells(r)
  PROVE  NothingNamed
<1> SUFFICES ASSUME NEW s \in SessionIds, NEW u \in Users \cup {Nil}, Names(u, s)'
             PROVE  Names(u, s)
  BY DEF NothingNamed
<1>1. CASE \E g \in Handlers : RequestNames(request[g], u, s)'
  <2>1. PICK g \in Handlers : RequestNames(request[g], u, s)'
    BY <1>1
  <2>2. CASE g = h
    <3>1. RequestNames(r, u, s)
      BY <2>1, <2>2 DEF RequestNames, TypeOK, Shrinks
    <3> QED
      BY <3>1 DEF Tells
  <2>3. CASE g # h
    <3>1. RequestNames(request[g], u, s)
      BY <2>1, <2>3 DEF RequestNames, TypeOK, Shrinks
    <3> QED
      BY <3>1 DEF Names
  <2> QED
    BY <2>2, <2>3
<1> QED
  BY <1>1, StillNames DEF Names

LEMMA QuietTells ==
  /\ Tells(Idle)
  /\ \A kind, p, todo : Tells(Revoking(kind, p, todo))
  /\ \A r, s : Tells(Skip(r, s))
  BY DEF Tells, RequestNames, Idle, Revoking, Skip

LEMMA RedisShrinks == ASSUME UNCHANGED <<session, access, refresh, claims>> PROVE Shrinks
  BY DEF Shrinks

LEMMA OwnStarts ==
  ASSUME TypeOK, NEW h \in Handlers, Starts(h)
  PROVE  NothingNamed /\ opened' = opened
<1>1. ASSUME NEW p \in Pairs, CheckRefresh(h, p)
      PROVE  NothingNamed /\ opened' = opened
  <2>1. Tells([op |-> "refresh", pair |-> p])
    BY DEF Tells, RequestNames
  <2> QED
    BY <1>1, <2>1, HoldNames, RedisShrinks DEF CheckRefresh, Start, redis, tokens, history
<1>2. \A p \in Pairs : Logout(h, p) => NothingNamed /\ opened' = opened
  BY QuietTells, HoldNames, RedisShrinks DEF Logout, Start, redis, tokens, history
<1>3. \A p \in Pairs, s \in SessionIds : RevokeSession(h, p, s) => NothingNamed /\ opened' = opened
  BY QuietTells, HoldNames, RedisShrinks DEF RevokeSession, Start, redis, tokens, history
<1>4. \A p \in Pairs, unread \in Unreadable :
        RevokeOthers(h, p, unread) => NothingNamed /\ opened' = opened
  BY QuietTells, HoldNames, RedisShrinks DEF RevokeOthers, Start, tokens
<1>5. \A u \in Users, unread \in Unreadable :
        RevokeAll(h, u, unread) => NothingNamed /\ opened' = opened
  BY QuietTells, HoldNames, RedisShrinks DEF RevokeAll, Start, tokens
<1> QED
  BY <1>1, <1>2, <1>3, <1>4, <1>5 DEF Starts

\* The first k commands of a deletion.
LEMMA DeleteShrinks ==
  ASSUME TypeOK, NEW h \in Handlers, NEW k, request[h].op = "delete", Delete(request[h], k),
         claims' = claims
  PROVE  Shrinks
<1> DEFINE r == request[h]
<1>1. r.session \in SessionIds /\ r.old.pair \in Pairs
  BY RequestTypes DEF Row
<1> HIDE DEF r
<1>2. Delete(r, k)
  BY DEF r
<1>3. session' \in {session, [session EXCEPT ![r.session] = Absent]}
  BY <1>2 DEF Delete, After
<1>4. access' \in {access, [access EXCEPT ![r.old.pair] = Nil]}
  BY <1>2 DEF Delete, After
<1>5. refresh' \in {refresh, [refresh EXCEPT ![r.old.pair] = Nil]}
  BY <1>2 DEF Delete, After
<1> QED
  BY <1>1, <1>3, <1>4, <1>5 DEF Shrinks, TypeOK, RedisTypes

LEMMA OwnRevokes ==
  ASSUME TypeOK, NEW h \in Handlers, RevokeSteps(h)
  PROVE  NothingNamed /\ opened' = opened
<1> DEFINE r == request[h]
<1>1. ASSUME NEW s \in SessionIds, ReadForDelete(h, s)
      PROVE  NothingNamed /\ opened' = opened
  <2>1. ASSUME Live(s)
        PROVE  Tells([op |-> "delete", kind |-> r.kind, pair |-> r.pair, todo |-> r.todo,
                      session |-> s, old |-> session[s]])
    BY <2>1 DEF Tells, RequestNames, Names
  <2> QED
    BY <1>1, <2>1, QuietTells, HoldNames, RedisShrinks
       DEF ReadForDelete, Continue, redis, tokens, history
<1>2. CASE DeleteSession(h)
  <2>1. Shrinks
    BY <1>2, DeleteShrinks DEF DeleteSession, tokens
  <2> QED
    BY <1>2, <2>1, QuietTells, HoldNames DEF DeleteSession, Continue, history
<1>3. ASSUME NEW k \in Breaks, DeleteSessionFails(h, k)
      PROVE  NothingNamed /\ opened' = opened
  <2>1. Shrinks
    BY <1>3, DeleteShrinks DEF DeleteSessionFails, tokens
  <2> QED
    BY <1>3, <2>1, QuietTells, HoldNames DEF DeleteSessionFails, Continue, history
<1>4. CASE EndRevoke(h)
  <2>1. Tells([op |-> "blacklist", token |-> Access(r.pair), next |-> Nil])
    BY DEF Tells, RequestNames
  <2> QED
    BY <1>4, <2>1, QuietTells, HoldNames, RedisShrinks
       DEF EndRevoke, Continue, Finish, redis, tokens, history
<1> QED
  BY <1>1, <1>2, <1>3, <1>4 DEF RevokeSteps

\* A rotation writes only what it names already; the pair it signs led nowhere.
LEMMA OwnRotates ==
  ASSUME TypeOK, OwnInv, NEW h \in Handlers, NEW q \in Pairs,
         RotateTokens(h, q) \/ \E k \in Breaks : RotateTokensFails(h, q, k)
  PROVE  NothingNamed /\ opened' = opened
<1> DEFINE r == request[h]
           offer == [op |-> "blacklist", token |-> Refresh(r.pair), next |-> q]
<1>1. /\ r.op = "rotate" /\ claims[q] = Nil /\ opened' = opened
      /\ claims' = [claims EXCEPT ![q] = claims[r.pair]]
      /\ \E k : Rotate(r, q, k)
      /\ \E x : request' = [request EXCEPT ![h] = x] /\ x.op \in {"blacklist", "idle"}
  <2>1. /\ r.op = "rotate" /\ claims[q] = Nil /\ opened' = opened
        /\ claims' = [claims EXCEPT ![q] = claims[r.pair]]
        /\ request' = [request EXCEPT ![h] = offer] \/ request' = [request EXCEPT ![h] = Idle]
    BY DEF RotateTokens, RotateTokensFails, Continue, Finish
  <2>2. \E k : Rotate(r, q, k)
    BY DEF RotateTokens, RotateTokensFails
  <2>3. offer.op = "blacklist" /\ Idle.op = "idle"
    BY DEF Idle
  <2> HIDE DEF r, offer
  <2> QED
    BY <2>1, <2>2, <2>3
<1>2. r.session \in SessionIds /\ r.old \in Row /\ r.pair \in Pairs /\ r.old.pair \in Pairs
  BY <1>1, RequestTypes DEF Row
<1>3. \A u : u \in {claims[r.pair], r.old.user} => Names(u, r.session)
  BY <1>1 DEF Names, RequestNames
<1>4. /\ session' \in {session, [session EXCEPT ![r.session] = [r.old EXCEPT !.pair = q]]}
      /\ \A p \in Pairs \ {q} : access'[p] \in {access[p], Nil} /\ refresh'[p] \in {refresh[p], Nil}
      /\ access'[q] \in {access[q], Nil, r.session} /\ refresh'[q] \in {refresh[q], Nil, r.session}
  BY <1>1, <1>2 DEF Rotate, After, TypeOK, RedisTypes
<1>5. \A s \in SessionIds : ~Names(Nil, s)
  BY DEF OwnInv
<1> SUFFICES ASSUME NEW s \in SessionIds, NEW u \in Users \cup {Nil}, Names(u, s)'
             PROVE  Names(u, s)
  BY <1>1 DEF NothingNamed
<1>6. CASE (Live(s) /\ session[s].user = u)'
  <2>1. CASE s = r.session /\ session' # session
    <3>1. session'[s].user = r.old.user
      BY <1>2, <1>4, <2>1 DEF TypeOK, RedisTypes, Row
    <3> QED
      BY <1>3, <1>6, <2>1, <3>1
  <2>2. CASE ~(s = r.session /\ session' # session)
    <3>1. session'[s] = session[s]
      BY <1>4, <2>2 DEF TypeOK, RedisTypes
    <3> QED
      BY <1>6, <3>1 DEF Names, Live
  <2> QED
    BY <2>1, <2>2
<1>7. ASSUME NEW p \in Pairs, (s \in {access[p], refresh[p]} /\ claims[p] = u)'
      PROVE  Names(u, s)
  <2>1. s # Nil
    BY SessionsAssumption
  <2>2. CASE p # q
    <3>1. s \in {access[p], refresh[p]} /\ claims[p] = u
      BY <1>1, <1>4, <1>7, <2>1, <2>2 DEF TypeOK, TokenTypes
    <3> QED
      BY <3>1 DEF Names
  <2>3. CASE p = q
    <3>1. s \notin {access[q], refresh[q]}
      BY <1>1, <1>5 DEF Names
    <3>2. s = r.session /\ u = claims[r.pair]
      BY <1>1, <1>4, <1>7, <2>1, <2>3, <3>1 DEF TypeOK, TokenTypes
    <3> QED
      BY <1>3, <3>2
  <2> QED
    BY <2>2, <2>3
<1>8. ASSUME NEW g \in Handlers, RequestNames(request[g], u, s)'
      PROVE  Names(u, s)
  <2>1. g # h /\ request'[g] = request[g]
    BY <1>1, <1>8 DEF RequestNames, TypeOK
  <2>2. CASE request[g].op \in {"found", "rotate"} /\ request[g].session = s
             /\ claims'[request[g].pair] = u
    <3>1. request[g].pair \in Pairs /\ Names(claims[request[g].pair], s)
      BY <2>2, RequestTypes DEF Names, RequestNames
    <3>2. request[g].pair # q
      BY <1>1, <1>5, <3>1
    <3> QED
      BY <1>1, <2>2, <3>1, <3>2 DEF TypeOK, TokenTypes
  <2>3. CASE request[g].op \in {"rotate", "delete"} /\ request[g].session = s
             /\ request[g].old.user = u
    BY <2>3 DEF Names, RequestNames
  <2> QED
    BY <1>8, <2>1, <2>2, <2>3 DEF RequestNames
<1> QED
  BY <1>6, <1>7, <1>8 DEF Names

LEMMA OwnRefreshes ==
  ASSUME TypeOK, OwnInv, NEW h \in Handlers, RefreshSteps(h)
  PROVE  NothingNamed /\ opened' = opened
<1> DEFINE r == request[h]
<1>1. CASE FindSession(h)
  <2>1. r.pair \in Pairs
    BY <1>1, RequestTypes DEF FindSession
  <2>2. ASSUME NEW s \in SessionIds, Leads(refresh[r.pair], s)
        PROVE  Tells([op |-> "found", pair |-> r.pair, session |-> s])
    BY <2>1, <2>2 DEF Tells, RequestNames, Names, Leads
  <2> QED
    BY <1>1, <2>2, QuietTells, HoldNames, RedisShrinks
       DEF FindSession, Continue, Finish, redis, tokens, history
<1>2. CASE ReadForRotate(h)
  <2>1. ASSUME Live(r.session)
        PROVE  Tells([op |-> "rotate", pair |-> r.pair, session |-> r.session,
                      old |-> session[r.session]])
    BY <1>2, <2>1 DEF Tells, RequestNames, Names, ReadForRotate
  <2> QED
    BY <1>2, <2>1, QuietTells, HoldNames, RedisShrinks
       DEF ReadForRotate, Continue, Finish, redis, tokens, history
<1>3. CASE CheckExpiry(h)
  <2>1. r.op = "blacklist" /\ r \in [op: {"blacklist", "store"}, token: Tokens, next: Pairs \cup {Nil}]
    BY <1>3 DEF CheckExpiry, TypeOK, Requests, Called, Idle
  <2>2. Tells([r EXCEPT !.op = "store"])
    BY <2>1 DEF Tells, RequestNames
  <2> QED
    BY <1>3, <2>2, QuietTells, HoldNames, RedisShrinks
       DEF CheckExpiry, Continue, Finish, redis, tokens, history
<1>4. CASE StoreBlacklist(h)
  <2>1. opened' = opened /\ Shrinks /\ request' = [request EXCEPT ![h] = Idle]
    BY <1>4, RedisShrinks DEF StoreBlacklist, Finish, redis
  <2> QED
    BY <2>1, QuietTells, HoldNames
<1> QED
  BY <1>1, <1>2, <1>3, <1>4, OwnRotates DEF RefreshSteps

\* A login names its account for a session id nothing named before.
LEMMA OwnLogin ==
  ASSUME TypeOK, OwnInv, NEW u \in Users, NEW s \in SessionIds, NEW p \in Pairs, NEW k,
         Login(u, s, p, k)
  PROVE  OwnInv'
<1>1. /\ s \notin opened /\ claims[p] = Nil /\ opened' = opened \cup {s}
      /\ claims' = [claims EXCEPT ![p] = u] /\ request' = request
      /\ session' \in {session, [session EXCEPT ![s] = [user |-> u, pair |-> p]]}
      /\ access' \in {access, [access EXCEPT ![p] = s]}
      /\ refresh' \in {refresh, [refresh EXCEPT ![p] = s]}
  BY DEF Login, Create, After
<1>2. s # Nil /\ u # Nil
  BY SessionsAssumption
<1>3. \A x \in SessionIds : ~Names(Nil, x)
  BY DEF OwnInv
<1>4. \A v \in Users \cup {Nil} : ~Names(v, s)
  BY <1>1 DEF OwnInv
<1>5. ASSUME NEW x \in SessionIds, NEW v \in Users \cup {Nil}, Names(v, x)'
      PROVE  Names(v, x) \/ (x = s /\ v = u)
  <2>1. x # Nil
    BY SessionsAssumption
  <2>2. CASE (Live(x) /\ session[x].user = v)'
    BY <1>1, <2>2 DEF Names, Live, TypeOK, RedisTypes
  <2>3. ASSUME NEW y \in Pairs, (x \in {access[y], refresh[y]} /\ claims[y] = v)'
        PROVE  Names(v, x) \/ (x = s /\ v = u)
    <3>1. CASE y = p
      <4>1. x \notin {access[p], refresh[p]}
        BY <1>1, <1>3 DEF Names
      <4> QED
        BY <1>1, <2>3, <3>1, <4>1 DEF TypeOK, RedisTypes, TokenTypes
    <3>2. CASE y # p
      <4>1. x \in {access[y], refresh[y]} /\ claims[y] = v
        BY <1>1, <2>3, <3>2 DEF TypeOK, RedisTypes, TokenTypes
      <4> QED
        BY <4>1 DEF Names
    <3> QED
      BY <3>1, <3>2
  <2>4. ASSUME NEW g \in Handlers, RequestNames(request[g], v, x)'
        PROVE  Names(v, x)
    <3>1. CASE request[g].op \in {"found", "rotate"} /\ request[g].session = x
               /\ claims'[request[g].pair] = v
      <4>1. request[g].pair \in Pairs /\ Names(claims[request[g].pair], x)
        BY <3>1, RequestTypes DEF Names, RequestNames
      <4>2. request[g].pair # p
        BY <1>1, <1>3, <4>1
      <4> QED
        BY <1>1, <3>1, <4>1, <4>2 DEF TypeOK, TokenTypes
    <3>2. CASE request[g].op \in {"rotate", "delete"} /\ request[g].session = x
               /\ request[g].old.user = v
      BY <3>2 DEF Names, RequestNames
    <3> QED
      BY <1>1, <2>4, <3>1, <3>2 DEF RequestNames
  <2> QED
    BY <1>5, <2>2, <2>3, <2>4 DEF Names
<1>6. ASSUME NEW x \in SessionIds, NEW v \in Users \cup {Nil}, Names(v, x)'
      PROVE  /\ x \in opened' /\ v # Nil
             /\ \A w \in Users : Names(w, x)' => w = v
  <2>1. CASE x = s
    BY <1>1, <1>2, <1>4, <1>5, <1>6, <2>1
  <2>2. CASE x # s
    BY <1>1, <1>5, <1>6, <2>2 DEF OwnInv
  <2> QED
    BY <2>1, <2>2
<1> QED
  BY <1>6 DEF OwnInv

LEMMA OwnStep ==
  ASSUME TypeOK, OwnInv, [Next]_vars
  PROVE  OwnInv'
<1>1. CASE UNCHANGED vars
  <2>1. NothingNamed /\ opened' = opened
    BY <1>1, ShrinkNames, RedisShrinks DEF vars, redis, tokens, history
  <2> QED
    BY <2>1, OwnKept
<1>2. ASSUME NEW p \in Pairs, NEW unread \in Unreadable, GetActiveSessions(p, unread)
      PROVE  OwnInv'
  BY <1>2, ShrinkNames, RedisShrinks, OwnKept DEF GetActiveSessions, tokens
<1>3. ASSUME NEW h \in Handlers, Starts(h) \/ RefreshSteps(h) \/ RevokeSteps(h)
      PROVE  OwnInv'
  BY <1>3, OwnStarts, OwnRefreshes, OwnRevokes, OwnKept
<1>4. ASSUME NEW h \in Handlers, Abort(h)
      PROVE  OwnInv'
  BY <1>4, QuietTells, HoldNames, RedisShrinks, OwnKept DEF Abort, Finish, redis, tokens, history
<1>5. ASSUME NEW t \in Expiring \X Pairs, Expire(t)
      PROVE  OwnInv'
  <2>1. Shrinks
    BY <1>5 DEF Expire, Shrinks, TypeOK, RedisTypes
  <2>2. request' = request /\ opened' = opened
    BY <1>5 DEF Expire, history
  <2> QED
    BY <2>1, <2>2, ShrinkNames, OwnKept
<1> QED
  BY <1>1, <1>2, <1>3, <1>4, <1>5, OwnLogin DEF Next

LEMMA OwnHolds == Spec => []OwnInv
<1>1. Init => OwnInv
  <2> SUFFICES ASSUME Init, NEW s \in SessionIds, NEW u \in Users \cup {Nil}
               PROVE  ~Names(u, s)
    BY DEF OwnInv
  <2>1. s # Nil
    BY SessionsAssumption
  <2> QED
    BY <2>1 DEF Init, Names, RequestNames, Live, Idle
<1>2. TypeOK /\ OwnInv /\ [Next]_vars => OwnInv'
  BY OwnStep
<1> QED
  BY <1>1, <1>2, SessionTypes, PTL DEF Spec

\* Neither token of a pair ever leads to a session of another account than the
\* one the pair was signed for: neither a rotation that brings a session back
\* nor a pipeline that leaves a key behind mixes two accounts.
TokensLeadHome ==
  \A p \in Pairs, s \in SessionIds :
    Leads(access[p], s) \/ Leads(refresh[p], s) => session[s].user = claims[p]

LEMMA HomeFromOwn ==
  ASSUME TypeOK, OwnInv
  PROVE  TokensLeadHome
<1> SUFFICES ASSUME NEW p \in Pairs, NEW s \in SessionIds,
                    Leads(access[p], s) \/ Leads(refresh[p], s)
             PROVE  session[s].user = claims[p]
  BY DEF TokensLeadHome
<1>1. session[s].user \in Users /\ claims[p] \in Users \cup {Nil}
  BY DEF Leads, Live, TypeOK, RedisTypes, TokenTypes, Row
<1>2. Names(session[s].user, s) /\ Names(claims[p], s)
  BY DEF Leads, Names
<1> QED
  BY <1>1, <1>2 DEF OwnInv

THEOREM HomeHolds == Spec => []TokensLeadHome
BY OwnHolds, SessionTypes, HomeFromOwn, PTL

\* Wherever the pipelines of Create, Rotate and Delete break, a session a
\* client can refresh can be listed and revoked by its account (see strays).
THEOREM ListedHolds == Spec => []RefreshableIsListed
<1>1. TypeOK /\ OwnInv /\ ListedInv => RefreshableIsListed
  <2> SUFFICES ASSUME TypeOK, TokensLeadHome, LedInv, NEW p \in given, NEW s \in SessionIds,
                      Leads(refresh[p], s)
               PROVE  s \in listed[claims[p]] \cup strays
    BY HomeFromOwn DEF ListedInv, RefreshableIsListed
  <2>1. p \in Pairs
    BY DEF TypeOK, TokenTypes
  <2> QED
    BY <2>1 DEF TokensLeadHome, LedInv, Led
<1> QED
  BY <1>1, OwnHolds, ListedInvHolds, SessionTypes, PTL

-----------------------------------------------------------------------------
(* DestroyedForGood.                                                       *)

\* A request that is quiet and writes no live session leaves what is gone gone.
LEMMA GoneStays ==
  ASSUME NEW s \in SessionIds, SettledGone(s), Quiet, opened \subseteq opened',
         session'[s] \in {session[s], Absent}
  PROVE  SettledGone(s)'
  BY DEF SettledGone, Live, Quiet

LEMMA GoneRefreshStep ==
  ASSUME TypeOK, NEW s \in SessionIds, SettledGone(s), NEW h \in Handlers, RefreshSteps(h)
  PROVE  SettledGone(s)'
<1> DEFINE r == request[h]
<1>1. ASSUME NEW q, NEW k, r.op = "rotate", Rotate(r, q, k)
      PROVE  session'[s] = session[s]
  <2>1. r.session # s
    BY <1>1 DEF SettledGone
  <2>2. session' = session \/ session' = [session EXCEPT ![r.session] = [r.old EXCEPT !.pair = q]]
    BY <1>1 DEF Rotate, After
  <2> HIDE DEF r
  <2> QED
    BY <2>1, <2>2 DEF TypeOK, RedisTypes
<1>2. ASSUME NEW q \in Pairs, RotateTokens(h, q)
      PROVE  SettledGone(s)'
  <2>1. session'[s] = session[s]
    BY <1>1, <1>2 DEF RotateTokens
  <2> QED
    BY <1>2, <2>1, RotatesQuietly, GoneStays
<1>3. ASSUME NEW q \in Pairs, NEW k \in Breaks, RotateTokensFails(h, q, k)
      PROVE  SettledGone(s)'
  <2>1. session'[s] = session[s]
    BY <1>1, <1>3 DEF RotateTokensFails
  <2> QED
    BY <1>3, <2>1, RotatesQuietly, GoneStays
<1>4. CASE CheckExpiry(h) \/ StoreBlacklist(h)
  <2>1. session' = session
    BY <1>4 DEF CheckExpiry, StoreBlacklist, redis
  <2> QED
    BY <1>4, <2>1, RotatesQuietly, GoneStays
<1>5. CASE FindSession(h)
  <2>1. session' = session /\ opened' = opened
    BY <1>5 DEF FindSession, redis, history
  <2>2. ASSUME NEW t \in SessionIds, Continue(h, [op |-> "found", pair |-> r.pair, session |-> t])
        PROVE  SettledGone(s)'
    BY <2>1, <2>2 DEF Continue, SettledGone, Live, TypeOK
  <2>3. CASE Finish(h)
    BY <2>1, <2>3, IdleHoldsNone, QuietStep, GoneStays DEF Finish
  <2> QED
    BY <1>5, <2>2, <2>3 DEF FindSession
<1>6. CASE ReadForRotate(h)
  <2>1. session' = session /\ opened' = opened
    BY <1>6 DEF ReadForRotate, redis, history
  <2>2. CASE Live(r.session) /\ Continue(h, [op |-> "rotate", pair |-> r.pair,
                                             session |-> r.session, old |-> session[r.session]])
    <3>1. r.session # s
      BY <2>2 DEF SettledGone
    <3> QED
      BY <2>1, <2>2, <3>1 DEF Continue, SettledGone, Live, TypeOK
  <2>3. CASE Finish(h)
    BY <2>1, <2>3, IdleHoldsNone, QuietStep, GoneStays DEF Finish
  <2> QED
    BY <1>6, <2>2, <2>3 DEF ReadForRotate
<1> QED
  BY <1>2, <1>3, <1>4, <1>5, <1>6 DEF RefreshSteps

LEMMA GoneStep ==
  ASSUME TypeOK, NEW s \in SessionIds, SettledGone(s), Next
  PROVE  SettledGone(s)'
<1>1. ASSUME NEW u \in Users, NEW x \in SessionIds, NEW p \in Pairs, NEW k, Login(u, x, p, k)
      PROVE  SettledGone(s)'
  <2>1. x # s /\ opened \subseteq opened' /\ request' = request
    BY <1>1 DEF Login, SettledGone
  <2>2. session'[s] = session[s]
    BY <1>1, <2>1 DEF Login, Create, After, TypeOK, RedisTypes
  <2> QED
    BY <2>1, <2>2, GoneStays DEF Quiet
<1>2. ASSUME NEW p \in Pairs, NEW unread \in Unreadable, GetActiveSessions(p, unread)
      PROVE  SettledGone(s)'
  BY <1>2, GoneStays DEF GetActiveSessions, Quiet
<1>3. ASSUME NEW h \in Handlers, Starts(h)
      PROVE  SettledGone(s)'
  <2>1. session' = session
    BY <1>3 DEF Starts, CheckRefresh, Logout, RevokeSession, RevokeOthers, RevokeAll, redis
  <2> QED
    BY <1>3, <2>1, StartsQuietly, GoneStays
<1>4. ASSUME NEW h \in Handlers, RevokeSteps(h)
      PROVE  SettledGone(s)'
  <2>1. ASSUME NEW r, NEW k, Delete(r, k)
        PROVE  session'[s] \in {session[s], Absent}
    BY <2>1 DEF Delete, After, TypeOK, RedisTypes
  <2>2. session'[s] \in {session[s], Absent}
    BY <1>4, <2>1 DEF RevokeSteps, ReadForDelete, DeleteSession, DeleteSessionFails, EndRevoke, redis
  <2> QED
    BY <1>4, <2>2, RevokesQuietly, GoneStays
<1>5. ASSUME NEW h \in Handlers, Abort(h)
      PROVE  SettledGone(s)'
  <2>1. session' = session
    BY <1>5 DEF Abort, redis
  <2> QED
    BY <1>5, <2>1, RotatesQuietly, GoneStays
<1>6. ASSUME NEW t \in Expiring \X Pairs, Expire(t)
      PROVE  SettledGone(s)'
  BY <1>6, ExpireVanishes, GoneStays DEF Quiet
<1> QED
  BY <1>1, <1>2, <1>3, <1>4, <1>5, <1>6, GoneRefreshStep DEF Next

\* A destroyed or expired session that no rotation is holding is destroyed for
\* good: neither a login nor a later refresh brings its id back.
THEOREM GoneForGood == Spec => DestroyedForGood
<1>1. TypeOK /\ [Next]_vars =>
        [\A s \in SessionIds : SettledGone(s) => SettledGone(s)']_vars
  BY GoneStep
<1> QED
  BY <1>1, SessionTypes, PTL DEF Spec, DestroyedForGood

=============================================================================
