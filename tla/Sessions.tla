------------------------------- MODULE Sessions -------------------------------
(***************************************************************************)
(* Login sessions: the keys the session repository keeps in Redis, the     *)
(* blacklist table, and the requests that open, rotate and destroy         *)
(* sessions: login, refresh, logout, revocation and password reset.        *)
(*                                                                         *)
(* The repository sends its writes as a pipeline, not a transaction: the   *)
(* commands run in order and a broken connection leaves a prefix of them.  *)
(* Between two round trips other requests run; what a handler holds        *)
(* meanwhile is in request[h].                                             *)
(***************************************************************************)
EXTENDS Naturals, FiniteSets

CONSTANTS
  Users,       \* account ids
  SessionIds,  \* UUIDs of sessions
  Pairs,       \* access and refresh tokens, signed together
  Handlers,    \* goroutines serving requests
  Breaks,      \* numbers of commands after which a pipeline may break
  Expiring,    \* kinds of tokens whose exp passes while requests run
  Unreadable,  \* sets of sessions whose GET may fail while listing
  Nil

ASSUME SessionsAssumption ==
  /\ Nil \notin SessionIds \cup Users \cup Pairs
  /\ Breaks \subseteq 0..6 /\ Expiring \subseteq {"access", "refresh"}
  /\ Unreadable \subseteq SUBSET SessionIds

Tokens == {"access", "refresh"} \X Pairs
Refresh(p) == <<"refresh", p>>
Access(p) == <<"access", p>>

\* session:<id>, as far as anybody reads it back.
Row == [user: Users, pair: Pairs]
Absent == [user |-> Nil, pair |-> Nil]

VARIABLES
  session,    \* session:<id>
  listed,     \* user_sessions:<user>
  access,     \* access_token_session:<token>
  refresh,    \* refresh_token_session:<token>
  blacklist,  \* tokens in the blacklist table
  expired,    \* tokens whose exp has passed
  claims,     \* the user_id in a signed pair; Nil before it is signed
  given,      \* pairs a response carried to its client
  request,    \* what each handler holds between two round trips
  opened,     \* history: session ids drawn so far
  heirs,      \* history: pairs given in exchange for the refresh token of a pair
  strays      \* history: live sessions that lost their place in listed

redis == <<session, listed, access, refresh>>
tokens == <<blacklist, expired, claims, given>>
history == <<opened, heirs, strays>>
vars == <<redis, tokens, request, history>>

Idle == [op |-> "idle"]

\* How a request that destroys sessions started; only "all" has no caller.
Kinds == {"logout", "one", "others", "all"}
Called(S) == {r \in S : r.kind # "all" => r.pair \in Pairs}

Requests ==
  {Idle}
  \cup [op: {"refresh"}, pair: Pairs]
  \cup [op: {"found"}, pair: Pairs, session: SessionIds]
  \cup [op: {"rotate"}, pair: Pairs, session: SessionIds, old: Row]
  \cup [op: {"blacklist", "store"}, token: Tokens, next: Pairs \cup {Nil}]
  \cup Called([op: {"revoke"}, kind: Kinds, pair: Pairs \cup {Nil}, todo: SUBSET SessionIds])
  \cup Called([op: {"delete"}, kind: Kinds, pair: Pairs \cup {Nil}, todo: SUBSET SessionIds,
                session: SessionIds, old: Row])

Start(h, r) == request[h] = Idle /\ request' = [request EXCEPT ![h] = r]
Continue(h, r) == request' = [request EXCEPT ![h] = r]
Finish(h) == request' = [request EXCEPT ![h] = Idle]

Live(s) == session[s] # Absent

\* The session a token key leads to: GetByToken, GetByRefreshToken.
Leads(key, s) == key = s /\ s # Nil /\ Live(s)

\* What JwtClaim and the blacklist accept.
Accepted(t) == t \notin expired \cup blacklist

\* AuthMiddleware.
Authenticated(p) == p \in given /\ Accepted(Access(p))

\* A key after the first k commands of a pipeline whose n-th command sets it.
After(k, n, new, old) == IF k >= n THEN new ELSE old

-----------------------------------------------------------------------------
(* Login.                                                                  *)

\* Mutant: the session is added to its user's set last.
CreateListedLast(s, row, k) ==
  /\ session' = After(k, 1, [session EXCEPT ![s] = row], session)
  /\ access' = After(k, 2, [access EXCEPT ![row.pair] = s], access)
  /\ refresh' = After(k, 3, [refresh EXCEPT ![row.pair] = s], refresh)
  /\ listed' = After(k, 4, [listed EXCEPT ![row.user] = @ \cup {s}], listed)

\* SessionRepository.Create; its third command only renews a TTL.
Create(s, row, k) ==
  /\ session' = After(k, 1, [session EXCEPT ![s] = row], session)
  /\ listed' = After(k, 2, [listed EXCEPT ![row.user] = @ \cup {s}], listed)
  /\ access' = After(k, 4, [access EXCEPT ![row.pair] = s], access)
  /\ refresh' = After(k, 5, [refresh EXCEPT ![row.pair] = s], refresh)

\* Login and GoogleLogin, once the credentials are accepted.  A session that
\* could not be created is logged; the client gets its tokens all the same.
Login(u, s, p, k) ==
  /\ s \notin opened /\ claims[p] = Nil
  /\ Create(s, [user |-> u, pair |-> p], k)
  /\ opened' = opened \cup {s}
  /\ claims' = [claims EXCEPT ![p] = u]
  /\ given' = given \cup {p}
  /\ UNCHANGED <<blacklist, expired, request, heirs, strays>>

-----------------------------------------------------------------------------
(* Refresh.                                                                *)

CheckRefresh(h, p) ==
  /\ p \in given /\ Accepted(Refresh(p))
  /\ Start(h, [op |-> "refresh", pair |-> p])
  /\ UNCHANGED <<redis, tokens, history>>

\* Mutant: a missing key is not an error.
FindSessionUnchecked(h) ==
  LET p == request[h].pair
  IN  /\ request[h].op = "refresh"
      /\ Continue(h, [op |-> "found", pair |-> p, session |-> refresh[p]])
      /\ UNCHANGED <<redis, tokens, history>>

\* GetSessionByRefreshToken; the token in the session is not compared.
FindSession(h) ==
  LET p == request[h].pair
  IN  /\ request[h].op = "refresh"
      /\ \/ \E s \in SessionIds :
              /\ Leads(refresh[p], s)
              /\ Continue(h, [op |-> "found", pair |-> p, session |-> s])
         \/ ~(\E s \in SessionIds : Leads(refresh[p], s)) /\ Finish(h)
      /\ UNCHANGED <<redis, tokens, history>>

\* Mutant: rotation goes on with the session the handler found before.
ReadForRotateLoosely(h) ==
  LET r == request[h]
  IN  /\ r.op = "found"
      /\ Continue(h, [op |-> "rotate", pair |-> r.pair, session |-> r.session,
                      old |-> [user |-> claims[r.pair], pair |-> r.pair]])
      /\ UNCHANGED <<redis, tokens, history>>

\* RotateTokens reads the session again.
ReadForRotate(h) ==
  LET r == request[h]
  IN  /\ r.op = "found"
      /\ IF Live(r.session)
         THEN Continue(h, [op |-> "rotate", pair |-> r.pair, session |-> r.session,
                           old |-> session[r.session]])
         ELSE Finish(h)
      /\ UNCHANGED <<redis, tokens, history>>

\* The first k commands of RotateTokens; its sixth only renews a TTL.  It never
\* adds the session to its user's set.
Rotate(r, q, k) ==
  /\ access' = After(k, 4, [access EXCEPT ![r.old.pair] = Nil, ![q] = r.session],
                     After(k, 1, [access EXCEPT ![r.old.pair] = Nil], access))
  /\ refresh' = After(k, 5, [refresh EXCEPT ![r.old.pair] = Nil, ![q] = r.session],
                      After(k, 2, [refresh EXCEPT ![r.old.pair] = Nil], refresh))
  /\ session' = After(k, 3, [session EXCEPT ![r.session] = [r.old EXCEPT !.pair = q]], session)
  /\ strays' = IF k >= 3 /\ r.session \notin listed[r.old.user]
               THEN strays \cup {r.session} ELSE strays
  /\ UNCHANGED listed

\* Mutant: tokens carry no id, so that one signed before may be signed again.
RotateTokensTwin(h, q) ==
  LET r == request[h]
  IN  /\ r.op = "rotate" /\ claims[q] \in {Nil, claims[r.pair]}
      /\ Rotate(r, q, 6)
      /\ claims' = [claims EXCEPT ![q] = claims[r.pair]]
      /\ Continue(h, [op |-> "blacklist", token |-> Refresh(r.pair), next |-> q])
      /\ UNCHANGED <<blacklist, expired, given, opened, heirs>>

\* The pair was signed, for the user of the old one, before the session was
\* looked up; nobody sees it before this write.
RotateTokens(h, q) ==
  LET r == request[h]
  IN  /\ r.op = "rotate" /\ claims[q] = Nil
      /\ Rotate(r, q, 6)
      /\ claims' = [claims EXCEPT ![q] = claims[r.pair]]
      /\ Continue(h, [op |-> "blacklist", token |-> Refresh(r.pair), next |-> q])
      /\ UNCHANGED <<blacklist, expired, given, opened, heirs>>

\* The pipeline broke, perhaps after its last command: an error, no new pair.
RotateTokensFails(h, q, k) ==
  LET r == request[h]
  IN  /\ r.op = "rotate" /\ claims[q] = Nil
      /\ Rotate(r, q, k)
      /\ claims' = [claims EXCEPT ![q] = claims[r.pair]]
      /\ Finish(h)
      /\ UNCHANGED <<blacklist, expired, given, opened, heirs>>

-----------------------------------------------------------------------------
(* LogoutUser: the blacklist, for a refresh and for a logout.              *)

\* JwtExpiresAt parses the token once more.
CheckExpiry(h) ==
  LET r == request[h]
  IN  /\ r.op = "blacklist"
      /\ IF r.token \in expired THEN Finish(h) ELSE Continue(h, [r EXCEPT !.op = "store"])
      /\ UNCHANGED <<redis, tokens, history>>

\* Respond with the next pair, where there is one.
Respond(r) ==
  IF r.next = Nil THEN UNCHANGED <<given, heirs>>
  ELSE /\ given' = given \cup {r.next}
       /\ heirs' = [heirs EXCEPT ![r.token[2]] = @ \cup {r.next}]

\* Mutant: the token column has no unique index.
StoreBlacklistAgain(h) ==
  LET r == request[h]
  IN  /\ r.op = "store"
      /\ blacklist' = (blacklist \ expired) \cup {r.token}
      /\ Respond(r)
      /\ Finish(h)
      /\ UNCHANGED <<redis, expired, claims, opened, strays>>

\* Store deletes the expired rows and inserts; the token column is UNIQUE, and
\* a request whose insert fails answers with an error.
StoreBlacklist(h) ==
  LET r == request[h]
      kept == blacklist \ expired
  IN  /\ r.op = "store"
      /\ blacklist' = kept \cup {r.token}
      /\ IF r.token \in kept THEN UNCHANGED <<given, heirs>> ELSE Respond(r)
      /\ Finish(h)
      /\ UNCHANGED <<redis, expired, claims, opened, strays>>

-----------------------------------------------------------------------------
(* Destroying sessions.                                                    *)

Revoking(kind, p, todo) == [op |-> "revoke", kind |-> kind, pair |-> p, todo |-> todo]

\* Logout: DestroySessionByToken finds at most one session.
Logout(h, p) ==
  /\ Authenticated(p)
  /\ Start(h, Revoking("logout", p, {s \in SessionIds : Leads(access[p], s)}))
  /\ UNCHANGED <<redis, tokens, history>>

\* RevokeSession, of a session of the caller's own.
RevokeSession(h, p, s) ==
  /\ Authenticated(p)
  /\ Live(s) /\ session[s].user = claims[p]
  /\ Start(h, Revoking("one", p, {s}))
  /\ UNCHANGED <<redis, tokens, history>>

\* GetByUserID: ids whose session it cannot read, because it is gone or because
\* the GET failed (those of unread), are taken out of the user's set.
Found(u, unread) == {s \in SessionIds \ unread : s \in listed[u] /\ Live(s)}

ListSessions(u, unread) ==
  /\ listed' = [listed EXCEPT ![u] = Found(u, unread)]
  /\ strays' = strays \cup {s \in unread : s \in listed[u] /\ Live(s)}

GetActiveSessions(p, unread) ==
  /\ Authenticated(p)
  /\ ListSessions(claims[p], unread)
  /\ UNCHANGED <<session, access, refresh, tokens, request, opened, heirs>>

\* RevokeAllOtherSessions: all but the one the caller's token leads to.
RevokeOthers(h, p, unread) ==
  /\ Authenticated(p)
  /\ \E s \in SessionIds :
       /\ Leads(access[p], s)
       /\ Start(h, Revoking("others", p, Found(claims[p], unread) \ {s}))
  /\ ListSessions(claims[p], unread)
  /\ UNCHANGED <<session, access, refresh, tokens, opened, heirs>>

\* DestroyAllUserSessions, after a password reset.
RevokeAll(h, u, unread) ==
  /\ Start(h, Revoking("all", Nil, Found(u, unread)))
  /\ ListSessions(u, unread)
  /\ UNCHANGED <<session, access, refresh, tokens, opened, heirs>>

\* After a deletion failed: DestroyOtherSessions returns, DeleteByUserID goes on.
Skip(r, s) == Revoking(r.kind, r.pair, IF r.kind = "others" THEN {} ELSE r.todo \ {s})

\* Delete reads the session for the keys it has to remove.
ReadForDelete(h, s) ==
  LET r == request[h]
  IN  /\ r.op = "revoke" /\ s \in r.todo
      /\ IF Live(s)
         THEN Continue(h, [op |-> "delete", kind |-> r.kind, pair |-> r.pair,
                           todo |-> r.todo, session |-> s, old |-> session[s]])
         ELSE Continue(h, Skip(r, s))
      /\ UNCHANGED <<redis, tokens, history>>

\* The first k commands of Delete.
Delete(r, k) ==
  /\ session' = After(k, 1, [session EXCEPT ![r.session] = Absent], session)
  /\ listed' = After(k, 2, [listed EXCEPT ![r.old.user] = @ \ {r.session}], listed)
  /\ access' = After(k, 3, [access EXCEPT ![r.old.pair] = Nil], access)
  /\ refresh' = After(k, 4, [refresh EXCEPT ![r.old.pair] = Nil], refresh)

DeleteSession(h) ==
  LET r == request[h]
  IN  /\ r.op = "delete"
      /\ Delete(r, 4)
      /\ Continue(h, Revoking(r.kind, r.pair, r.todo \ {r.session}))
      /\ UNCHANGED <<tokens, history>>

DeleteSessionFails(h, k) ==
  LET r == request[h]
  IN  /\ r.op = "delete"
      /\ Delete(r, k)
      /\ Continue(h, Skip(r, r.session))
      /\ UNCHANGED <<tokens, history>>

\* A logout then blacklists the access token, whatever became of the session.
EndRevoke(h) ==
  LET r == request[h]
  IN  /\ r.op = "revoke" /\ r.todo = {}
      /\ IF r.kind = "logout"
         THEN Continue(h, [op |-> "blacklist", token |-> Access(r.pair), next |-> Nil])
         ELSE Finish(h)
      /\ UNCHANGED <<redis, tokens, history>>

-----------------------------------------------------------------------------

\* exp passes.  The Redis keys of a pair live as long as its refresh token.
Expire(t) ==
  LET p == t[2]
  IN  /\ claims[p] # Nil /\ t \notin expired
      /\ expired' = expired \cup {t}
      /\ IF t[1] = "refresh"
         THEN /\ access' = [access EXCEPT ![p] = Nil]
              /\ refresh' = [refresh EXCEPT ![p] = Nil]
              /\ session' = [s \in SessionIds |->
                               IF session[s].pair = p THEN Absent ELSE session[s]]
         ELSE UNCHANGED <<access, refresh, session>>
      /\ UNCHANGED <<listed, blacklist, claims, given, request, history>>

\* A failing call, a canceled request or a crash ends a request half-way.
Abort(h) ==
  /\ request[h] # Idle
  /\ Finish(h)
  /\ UNCHANGED <<redis, tokens, history>>

Init ==
  /\ session = [s \in SessionIds |-> Absent]
  /\ listed = [u \in Users |-> {}]
  /\ access = [p \in Pairs |-> Nil] /\ refresh = [p \in Pairs |-> Nil]
  /\ blacklist = {} /\ expired = {}
  /\ claims = [p \in Pairs |-> Nil] /\ given = {}
  /\ request = [h \in Handlers |-> Idle]
  /\ opened = {} /\ heirs = [p \in Pairs |-> {}] /\ strays = {}

RefreshSteps(h) ==
  \/ FindSession(h) \/ ReadForRotate(h)
  \/ \E q \in Pairs : RotateTokens(h, q) \/ \E k \in Breaks : RotateTokensFails(h, q, k)
  \/ CheckExpiry(h) \/ StoreBlacklist(h)

RevokeSteps(h) ==
  \/ \E s \in SessionIds : ReadForDelete(h, s)
  \/ DeleteSession(h) \/ \E k \in Breaks : DeleteSessionFails(h, k)
  \/ EndRevoke(h)

Starts(h) ==
  \/ \E p \in Pairs :
       \/ CheckRefresh(h, p) \/ Logout(h, p)
       \/ \E s \in SessionIds : RevokeSession(h, p, s)
       \/ \E unread \in Unreadable : RevokeOthers(h, p, unread)
  \/ \E u \in Users, unread \in Unreadable : RevokeAll(h, u, unread)

Next ==
  \/ \E u \in Users, s \in SessionIds, p \in Pairs, k \in Breaks \cup {5} : Login(u, s, p, k)
  \/ \E p \in Pairs, unread \in Unreadable : GetActiveSessions(p, unread)
  \/ \E h \in Handlers : Starts(h) \/ RefreshSteps(h) \/ RevokeSteps(h) \/ Abort(h)
  \/ \E t \in Expiring \X Pairs : Expire(t)

Spec == Init /\ [][Next]_vars

-----------------------------------------------------------------------------
(* Properties.                                                             *)

\* Every key, row and handler has the shape the code gives it.
RedisTypes ==
  /\ session \in [SessionIds -> Row \cup {Absent}]
  /\ listed \in [Users -> SUBSET SessionIds]
  /\ access \in [Pairs -> SessionIds \cup {Nil}]
  /\ refresh \in [Pairs -> SessionIds \cup {Nil}]

TokenTypes ==
  /\ blacklist \subseteq Tokens /\ expired \subseteq Tokens
  /\ claims \in [Pairs -> Users \cup {Nil}] /\ given \subseteq Pairs

HistoryTypes ==
  /\ opened \subseteq SessionIds /\ strays \subseteq SessionIds
  /\ heirs \in [Pairs -> SUBSET Pairs]

TypeOK ==
  /\ RedisTypes /\ TokenTypes /\ HistoryTypes
  /\ request \in [Handlers -> Requests]

\* A refresh token is exchanged for one new pair at most, while it is valid:
\* of refreshes that overlap after both saw it free, one answers.
RedeemedOnce ==
  \A p \in Pairs : Refresh(p) \notin expired => \A q, r \in heirs[p] : q = r

\* A session that a client can refresh is in the set of the client's account,
\* where listing and revoking find it, unless a rotation brought it back after
\* its deletion or a listing could not read it: no pipeline that breaks half-way
\* hides it, and no token leads into another account's session.
RefreshableIsListed ==
  \A p \in given, s \in SessionIds :
    Leads(refresh[p], s) => s \in listed[claims[p]] \cup strays

\* A session that is gone, by logout, revocation, reset or expiry, and that no
\* rotation has read before, never comes back.
SettledGone(s) ==
  /\ s \in opened /\ ~Live(s)
  /\ \A h \in Handlers : request[h].op = "rotate" => request[h].session # s

DestroyedForGood ==
  [][\A s \in SessionIds : SettledGone(s) => SettledGone(s)']_vars

-----------------------------------------------------------------------------
(* Refinement.                                                             *)

\* The account whose client holds a pair, and the pairs past refreshing.
Owner == [p \in Pairs |-> IF p \in given THEN claims[p] ELSE Nil]
Dead == {p \in Pairs : Refresh(p) \in expired}

Lineage == INSTANCE PairLineage WITH owner <- Owner, dead <- Dead

\* Overlapping refreshes, broken pipelines, aborted requests and the blacklist
\* taken together do what PairLineage promises in single steps: a pair comes
\* out of a login or, in one refresh, out of a pair of the same account that a
\* client holds and that, while valid, had no heir (user.go:732).
KeepsLineage == Lineage!Spec

-----------------------------------------------------------------------------
(* The inductive invariants behind RedeemedOnce, KeepsLineage and       *)
(* RefreshableIsListed.                                                    *)

\* Whatever was exchanged and is still valid is blacklisted, and only refresh
\* tokens are exchanged.
OffersForRefresh(r) ==
  r.op \in {"blacklist", "store"} /\ r.next # Nil => r.token[1] = "refresh"

OffersInv == \A h \in Handlers : OffersForRefresh(request[h])

ExchangedInv ==
  \A p \in Pairs : Refresh(p) \notin expired /\ heirs[p] # {} => Refresh(p) \in blacklist

RedeemedInv == TypeOK /\ OffersInv /\ ExchangedInv /\ RedeemedOnce

\* A pair that is refreshed is one its client holds, and a pair about to be
\* given out is held by nobody, is offered once and is signed for that client.
Offers(h, q) == request[h].op \in {"blacklist", "store"} /\ request[h].next = q

HeldPairsInv ==
  \A h \in Handlers : request[h].op \in {"refresh", "found", "rotate"} => request[h].pair \in given

SignedInv == \A p \in given : claims[p] # Nil

PendingInv ==
  \A h \in Handlers, q \in Pairs :
    Offers(h, q) =>
      /\ q \notin given /\ request[h].token[2] \in given
      /\ claims[q] = claims[request[h].token[2]]
      /\ \A g \in Handlers : Offers(g, q) => g = h

LineageInv == RedeemedInv /\ HeldPairsInv /\ SignedInv /\ PendingInv

\* Keys and rotations name sessions that were opened.
KeysInv == \A p \in Pairs : refresh[p] \in opened \cup {Nil}

HeldInv == \A h \in Handlers : request[h].op \in {"found", "rotate"} => request[h].session \in opened

\* RefreshableIsListed for pairs nobody holds too.
Led(s) == \E p \in Pairs : Leads(refresh[p], s)

LedInv == \A s \in SessionIds : Led(s) => s \in listed[session[s].user] \cup strays

\* Whatever names an account for a session, row, key or request, names the one
\* it was opened for.
RequestNames(r, u, s) ==
  \/ r.op \in {"found", "rotate"} /\ r.session = s /\ claims[r.pair] = u
  \/ r.op \in {"rotate", "delete"} /\ r.session = s /\ r.old.user = u

Names(u, s) ==
  \/ Live(s) /\ session[s].user = u
  \/ \E p \in Pairs : s \in {access[p], refresh[p]} /\ claims[p] = u
  \/ \E h \in Handlers : RequestNames(request[h], u, s)

OwnInv ==
  \A s \in SessionIds, u \in Users \cup {Nil} :
    Names(u, s) => /\ s \in opened /\ u # Nil
                   /\ \A v \in Users : Names(v, s) => v = u

ListedInv == TypeOK /\ KeysInv /\ HeldInv /\ LedInv

=============================================================================
