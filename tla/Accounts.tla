------------------------------- MODULE Accounts -------------------------------
(***************************************************************************)
(* What happens to an account once it exists: logins, refreshes, profile   *)
(* updates, password changes, the two ways to reset a password, deletion.  *)
(*                                                                         *)
(* Every request reads the row of users, changes some columns of its copy  *)
(* and saves all of it; other requests run between the read and the save,  *)
(* and what a handler holds meanwhile is in request[h].  An address stands *)
(* for its account.  A password is its bcrypt hash: every hash is salted   *)
(* anew, so no two of them are the same.                                   *)
(***************************************************************************)
EXTENDS Naturals, FiniteSets

CONSTANTS
  Users,       \* account ids
  Passwords,   \* hashes
  SessionIds,  \* UUIDs of sessions
  Jwts,        \* reset tokens that are JWTs
  Links,       \* reset tokens that are keys in Redis
  Handlers,    \* goroutines serving requests
  Nil

ASSUME AccountsAssumption ==
  /\ Nil \notin Users \cup Passwords \cup SessionIds \cup Jwts \cup Links
  /\ IsFiniteSet(Handlers)

VARIABLES
  row,        \* the users table, as far as the requests here look at it
  session,    \* sessions in Redis, with the password the login had read
  jwt,        \* the account a reset JWT was signed for; Nil before
  expired,    \* reset JWTs whose exp has passed
  blacklist,  \* reset JWTs in the blacklist table
  link,       \* reset:token:<hash>
  mailed,     \* links that reached a mailbox
  request,    \* what each handler holds between two round trips
  used,       \* history: passwords saved with a JWT that has not expired
  accepted,   \* history: verifications that accepted a link, as long as it gets deleted
  undeleted,  \* history: links whose deletion failed
  barred,     \* history: passwords that were gone from the row and from every
              \* request when a reset went through the sessions
  strays,     \* sessions that may be missing from their user's set
  unrevoked   \* history: other sessions a reset listed and could not delete

tokens == <<jwt, expired, blacklist>>
links == <<link, mailed, accepted, undeleted>>
vars == <<row, session, tokens, links, request, used, barred, unrevoked, strays>>

Row == [password: Passwords, live: BOOLEAN]
Session == [user: Users, by: Passwords]
NoSession == [user |-> Nil]

Idle == [op |-> "idle"]

\* What a request goes on to when its row is saved: "lookup" reads the account
\* again before it opens a session, "claim" parses its JWT again.
Nexts ==
  {Idle}
  \cup [op: {"lookup", "open"}, user: Users, by: Passwords]
  \cup [op: {"claim"}, user: Users, token: Jwts]
  \cup [op: {"list"}, user: Users]

Requests ==
  Nexts
  \cup [op: {"save"}, user: Users, password: Passwords, next: Nexts]
  \cup [op: {"load"}, user: Users, token: Jwts \cup {Nil}]
  \cup [op: {"expiry", "blacklist"}, user: Users, token: Jwts, password: Passwords]
  \cup [op: {"mail", "unset"}, link: Links]
  \cup [op: {"consume"}, user: Users, link: Links]
  \cup [op: {"destroy"}, user: Users, todo: SUBSET SessionIds]
  \cup [op: {"rotate"}, session: SessionIds, old: Session]

Start(h, r) == request[h] = Idle /\ request' = [request EXCEPT ![h] = r]
Continue(h, r) == request' = [request EXCEPT ![h] = r]
Finish(h) == request' = [request EXCEPT ![h] = Idle]

\* A counter that stays where nothing tells its values apart any more.
Up(n, top) == IF n < top THEN n + 1 ELSE top

\* The passwords a request may still write or open a session with.
Carried(r) ==
  (IF "password" \in DOMAIN r THEN {r.password} ELSE {})
  \cup (IF "by" \in DOMAIN r THEN {r.by} ELSE {})
  \cup (IF "next" \in DOMAIN r /\ "by" \in DOMAIN r.next THEN {r.next.by} ELSE {})

\* In the row, or on its way to it.
InUse(p) == \/ \E u \in Users : row[u].password = p
            \/ \E h \in Handlers : p \in Carried(request[h])

\* A new hash; the model takes one that nothing remembers.
Hash(p) ==
  /\ ~InUse(p) /\ \A s \in SessionIds : session[s] # NoSession => session[s].by # p
  /\ \A h \in Handlers : request[h].op = "rotate" => request[h].old.by # p
  /\ barred' = [u \in Users |-> barred[u] \ {p}]

\* GetByID, GetByEmail: deleted rows are not found.
Found(u) == row[u].live

Saving(u, p, next) == [op |-> "save", user |-> u, password |-> p, next |-> next]

-----------------------------------------------------------------------------
(* Requests that read the row, change their copy and save it.              *)

\* LoginUser, with the right password, and LoginWithGoogle.
Login(h, u) ==
  /\ Found(u)
  /\ LET p == row[u].password
     IN  \E op \in {"lookup", "open"} :
           Start(h, Saving(u, p, [op |-> op, user |-> u, by |-> p]))
  /\ UNCHANGED <<row, session, tokens, links, used, barred, unrevoked, strays>>

\* Update and UpdateUserById.
Update(h, u) ==
  /\ Found(u) /\ Start(h, Saving(u, row[u].password, Idle))
  /\ UNCHANGED <<row, session, tokens, links, used, barred, unrevoked, strays>>

\* The current password was compared; sessions are left alone.
ChangePassword(h, u, p) ==
  /\ Found(u) /\ Hash(p)
  /\ Start(h, Saving(u, p, Idle))
  /\ UNCHANGED <<row, session, tokens, links, used, unrevoked, strays>>

\* Save writes every column.  Of a row deleted meanwhile the UPDATE finds
\* nothing, and the INSERT that follows brings it back.
Save(h) ==
  LET r == request[h]
  IN  /\ r.op = "save"
      /\ row' = [row EXCEPT ![r.user] = [password |-> r.password, live |-> TRUE]]
      /\ used' = IF r.next.op = "claim" /\ r.next.token \notin expired
                 THEN [used EXCEPT ![r.next.token] = Up(@, 2)] ELSE used
      /\ Continue(h, r.next)
      /\ UNCHANGED <<session, tokens, links, barred, unrevoked, strays>>

\* A UUID no request has to do with.
Unused(s) ==
  /\ session[s] = NoSession
  /\ \A h \in Handlers : /\ request[h].op = "rotate" => request[h].session # s
                         /\ request[h].op = "destroy" => s \notin request[h].todo

\* CreateSession.  Login looks for the account again, GoogleLogin does not.
OpenSession(h, s) ==
  LET r == request[h]
  IN  /\ r.op \in {"lookup", "open"} /\ (r.op = "lookup" => Found(r.user))
      /\ Unused(s)
      /\ session' = [session EXCEPT ![s] = [user |-> r.user, by |-> r.by]]
      /\ Finish(h)
      /\ UNCHANGED <<row, tokens, links, used, barred, unrevoked, strays>>

\* Delete and DeleteUserById: a soft delete.
Delete(u) ==
  /\ row' = [row EXCEPT ![u].live = FALSE]
  /\ row[u].live
  /\ UNCHANGED <<session, tokens, links, request, used, barred, unrevoked, strays>>

\* A logout, a revocation or a TTL ends a session.
EndSession(s) ==
  /\ session[s] # NoSession
  /\ session' = [session EXCEPT ![s] = NoSession]
  /\ unrevoked' = unrevoked \ {s} /\ strays' = strays \ {s}
  /\ UNCHANGED <<row, tokens, links, request, used, barred>>

\* A listing takes a session it could not read out of its user's set.
LoseSession(s) ==
  /\ session[s] # NoSession /\ s \notin strays
  /\ strays' = strays \cup {s} /\ unrevoked' = unrevoked \ {s}
  /\ UNCHANGED <<row, session, tokens, links, request, used, barred>>

\* RefreshToken: the account, then the session the token leads to.  One step is
\* enough for both, since what is kept of a session changes only by its end.
ReadForRotate(h, s) ==
  /\ session[s] # NoSession /\ Found(session[s].user)
  /\ Start(h, [op |-> "rotate", session |-> s, old |-> session[s]])
  /\ UNCHANGED <<row, session, tokens, links, used, barred, unrevoked, strays>>

\* The session is written with its new tokens, whether it still exists or not,
\* and is not put back into its user's set.
RotateTokens(h) ==
  LET r == request[h]
  IN  /\ r.op = "rotate"
      /\ session' = [session EXCEPT ![r.session] = r.old]
      /\ strays' = IF session[r.session] = NoSession THEN strays \cup {r.session} ELSE strays
      /\ Finish(h)
      /\ UNCHANGED <<row, tokens, links, used, barred, unrevoked>>

-----------------------------------------------------------------------------
(* Resetting a password with a JWT.                                        *)

\* ForgotPassword with the switch off.
ForgotPassword(u, t) ==
  /\ Found(u) /\ jwt[t] = Nil
  /\ jwt' = [jwt EXCEPT ![t] = u]
  /\ UNCHANGED <<row, session, expired, blacklist, links, request, used, barred, unrevoked, strays>>

Expire(t) ==
  /\ jwt[t] # Nil /\ t \notin expired
  /\ expired' = expired \cup {t} /\ used' = [used EXCEPT ![t] = 0]
  /\ UNCHANGED <<row, session, jwt, blacklist, links, request, barred, unrevoked, strays>>

\* JwtClaim and ExistsByToken.
ResetPassword(h, t) ==
  /\ jwt[t] # Nil /\ t \notin expired \cup blacklist
  /\ Start(h, [op |-> "load", user |-> jwt[t], token |-> t])
  /\ UNCHANGED <<row, session, tokens, links, used, barred, unrevoked, strays>>

\* Mutant: the account is read whether it was deleted or not.
LoadDeleted(h, p) ==
  LET r == request[h]
  IN  /\ r.op = "load" /\ Hash(p)
      /\ Continue(h, IF r.token = Nil THEN Saving(r.user, p, [op |-> "list", user |-> r.user])
                     ELSE [op |-> "expiry", user |-> r.user, token |-> r.token, password |-> p])
      /\ UNCHANGED <<row, session, tokens, links, used, unrevoked, strays>>

\* The account is read and the new password hashed, for either kind of token.
Load(h, p) ==
  LET r == request[h]
  IN  /\ r.op = "load" /\ Found(r.user) /\ Hash(p)
      /\ Continue(h, IF r.token = Nil THEN Saving(r.user, p, [op |-> "list", user |-> r.user])
                     ELSE [op |-> "expiry", user |-> r.user, token |-> r.token, password |-> p])
      /\ UNCHANGED <<row, session, tokens, links, used, unrevoked, strays>>

LoadFails(h) ==
  /\ request[h].op = "load" /\ ~Found(request[h].user)
  /\ Finish(h)
  /\ UNCHANGED <<row, session, tokens, links, used, barred, unrevoked, strays>>

\* LogoutUser: JwtExpiresAt, then the blacklist.
CheckExpiry(h) ==
  LET r == request[h]
  IN  /\ r.op = "expiry"
      /\ IF r.token \in expired THEN Finish(h) ELSE Continue(h, [r EXCEPT !.op = "blacklist"])
      /\ UNCHANGED <<row, session, tokens, links, used, barred, unrevoked, strays>>

\* Mutant: a token that is in the table already is no error.
StoreBlacklistAgain(h) ==
  LET r == request[h]
  IN  /\ r.op = "blacklist"
      /\ blacklist' = (blacklist \ expired) \cup {r.token}
      /\ Continue(h, Saving(r.user, r.password,
                            [op |-> "claim", user |-> r.user, token |-> r.token]))
      /\ UNCHANGED <<row, session, jwt, expired, links, used, barred, unrevoked, strays>>

\* Store purges expired rows first; the token column is UNIQUE.
StoreBlacklist(h) ==
  LET r == request[h]
      kept == blacklist \ expired
  IN  /\ r.op = "blacklist"
      /\ blacklist' = kept \cup {r.token}
      /\ IF r.token \in kept THEN Finish(h)
         ELSE Continue(h, Saving(r.user, r.password,
                                 [op |-> "claim", user |-> r.user, token |-> r.token]))
      /\ UNCHANGED <<row, session, jwt, expired, links, used, barred, unrevoked, strays>>

\* The handler parses the JWT again to learn whose sessions to revoke.
Claim(h) ==
  LET r == request[h]
  IN  /\ r.op = "claim"
      /\ IF r.token \in expired THEN Finish(h)
         ELSE Continue(h, [op |-> "list", user |-> r.user])
      /\ UNCHANGED <<row, session, tokens, links, used, barred, unrevoked, strays>>

-----------------------------------------------------------------------------
(* Resetting a password with a mailed link.                                *)

\* RequestReset, past its throttle, which may refuse any of them.
RequestReset(h, u, l) ==
  /\ Found(u) /\ link[l] = Nil
  /\ \A g \in Handlers : "link" \in DOMAIN request[g] => request[g].link # l
  /\ link' = [link EXCEPT ![l] = u]
  /\ mailed' = mailed \ {l} /\ undeleted' = undeleted \ {l}
  /\ accepted' = [accepted EXCEPT ![l] = 0]
  /\ Start(h, [op |-> "mail", link |-> l])
  /\ UNCHANGED <<row, session, tokens, used, barred, unrevoked, strays>>

SendPasswordReset(h) ==
  /\ request[h].op = "mail"
  /\ mailed' = mailed \cup {request[h].link}
  /\ Finish(h)
  /\ UNCHANGED <<row, session, tokens, link, accepted, undeleted, used, barred, unrevoked, strays>>

\* The cooldown was not set, or the mailer reports an error; the mail may have
\* gone out all the same.
SendPasswordResetFails(h) ==
  LET r == request[h]
  IN  /\ r.op = "mail"
      /\ mailed' \in {mailed, mailed \cup {r.link}}
      /\ Continue(h, [r EXCEPT !.op = "unset"])
      /\ UNCHANGED <<row, session, tokens, link, accepted, undeleted, used, barred, unrevoked, strays>>

Unset(h) ==
  LET r == request[h]
  IN  /\ r.op = "unset"
      /\ link' \in {link, [link EXCEPT ![r.link] = Nil]}
      /\ Finish(h)
      /\ UNCHANGED <<row, session, tokens, mailed, accepted, undeleted, used, barred, unrevoked, strays>>

ExpireLink(l) ==
  /\ link[l] # Nil /\ link' = [link EXCEPT ![l] = Nil]
  /\ UNCHANGED <<row, session, tokens, mailed, accepted, undeleted, request, used, barred, unrevoked, strays>>

\* Mutant: a key that is gone is no error.
VerifyResetUnchecked(h, l) ==
  /\ l \in mailed
  /\ Start(h, [op |-> "consume", user |-> link[l], link |-> l])
  /\ UNCHANGED <<row, session, tokens, links, used, barred, unrevoked, strays>>

VerifyReset(h, l) ==
  /\ l \in mailed /\ link[l] # Nil
  /\ Start(h, [op |-> "consume", user |-> link[l], link |-> l])
  /\ UNCHANGED <<row, session, tokens, links, used, barred, unrevoked, strays>>

\* Mutant: the link is left to its TTL.
DeleteTokenNot(h) ==
  LET r == request[h]
  IN  /\ r.op = "consume"
      /\ accepted' = [accepted EXCEPT ![r.link] = Up(@, Cardinality(Handlers) + 1)]
      /\ Continue(h, [op |-> "load", user |-> r.user, token |-> Nil])
      /\ UNCHANGED <<row, session, tokens, link, mailed, undeleted, used, barred, unrevoked, strays>>

\* The link is deleted after it was read; an error is ignored.
DeleteToken(h) ==
  LET r == request[h]
  IN  /\ r.op = "consume"
      /\ \/ link' = [link EXCEPT ![r.link] = Nil] /\ UNCHANGED undeleted
         \/ undeleted' = undeleted \cup {r.link} /\ UNCHANGED link
      /\ accepted' = [accepted EXCEPT ![r.link] = IF r.link \in undeleted' THEN 0
                                                 ELSE Up(@, Cardinality(Handlers) + 1)]
      /\ Continue(h, [op |-> "load", user |-> r.user, token |-> Nil])
      /\ UNCHANGED <<row, session, tokens, mailed, used, barred, unrevoked, strays>>

-----------------------------------------------------------------------------
(* revokePasswordResetSessions, after either kind of reset.                *)

\* A stray is found where its removal from the set had failed.
ListSessions(h) ==
  LET r == request[h]
      owned == {s \in SessionIds : session[s].user = r.user}
  IN  /\ r.op = "list"
      /\ \E lost \in SUBSET (owned \cap strays) :
           Continue(h, [op |-> "destroy", user |-> r.user, todo |-> owned \ lost])
      /\ barred' = [barred EXCEPT ![r.user] = @ \cup {p \in Passwords : ~InUse(p)}]
      /\ UNCHANGED <<row, session, tokens, links, used, unrevoked, strays>>

\* Mutant: the first deletion that fails ends the loop.
DestroySessionStopping(h, s) ==
  LET r == request[h]
  IN  /\ r.op = "destroy" /\ s \in r.todo
      /\ \/ /\ session' = [session EXCEPT ![s] = NoSession]
            /\ unrevoked' = unrevoked \ {s} /\ strays' = strays \ {s}
            /\ Continue(h, [r EXCEPT !.todo = @ \ {s}])
         \/ /\ unrevoked' = unrevoked \cup {s}
            /\ Finish(h) /\ UNCHANGED <<session, strays>>
      /\ UNCHANGED <<row, tokens, links, used, barred>>

\* One DELETE; a session that could not be read or deleted is only logged.
DestroySession(h, s) ==
  LET r == request[h]
  IN  /\ r.op = "destroy" /\ s \in r.todo
      /\ \/ /\ session' = [session EXCEPT ![s] = NoSession]
            /\ unrevoked' = unrevoked \ {s} /\ strays' = strays \ {s}
         \/ /\ unrevoked' = IF session[s] = NoSession \/ s \in strays
                             THEN unrevoked ELSE unrevoked \cup {s}
            /\ UNCHANGED <<session, strays>>
      /\ Continue(h, [r EXCEPT !.todo = @ \ {s}])
      /\ UNCHANGED <<row, tokens, links, used, barred>>

Destroyed(h) ==
  /\ request[h].op = "destroy" /\ request[h].todo = {}
  /\ Finish(h)
  /\ UNCHANGED <<row, session, tokens, links, used, barred, unrevoked, strays>>

\* A failing call, a canceled request or a crash ends a request half-way.
Abort(h) ==
  LET r == request[h]
  IN  /\ r # Idle /\ Finish(h)
      /\ unrevoked' = IF r.op = "destroy"
                      THEN unrevoked \cup {s \in r.todo \ strays : session[s] # NoSession} ELSE unrevoked
      /\ UNCHANGED <<row, session, tokens, links, used, barred, strays>>

Init ==
  /\ row \in [Users -> [password: Passwords, live: {TRUE}]]
  /\ \A u, v \in Users : row[u].password = row[v].password => u = v
  /\ session = [s \in SessionIds |-> NoSession]
  /\ jwt = [t \in Jwts |-> Nil] /\ expired = {} /\ blacklist = {}
  /\ link = [l \in Links |-> Nil] /\ mailed = {}
  /\ request = [h \in Handlers |-> Idle]
  /\ used = [t \in Jwts |-> 0] /\ accepted = [l \in Links |-> 0] /\ undeleted = {}
  /\ barred = [u \in Users |-> {}] /\ unrevoked = {} /\ strays = {}

Copying(h) ==
  \/ \E u \in Users : \/ Login(h, u) \/ Update(h, u)
                      \/ \E p \in Passwords : ChangePassword(h, u, p)
  \/ Save(h) \/ \E s \in SessionIds : OpenSession(h, s)

Refreshing(h) == RotateTokens(h) \/ \E s \in SessionIds : ReadForRotate(h, s)

ByJwt(h) ==
  \/ \E t \in Jwts : ResetPassword(h, t)
  \/ \E p \in Passwords : Load(h, p)
  \/ LoadFails(h) \/ CheckExpiry(h) \/ StoreBlacklist(h) \/ Claim(h)

ByLink(h) ==
  \/ \E u \in Users, l \in Links : RequestReset(h, u, l)
  \/ SendPasswordReset(h) \/ SendPasswordResetFails(h) \/ Unset(h)
  \/ \E l \in Links : VerifyReset(h, l)
  \/ DeleteToken(h)

Revoking(h) ==
  \/ ListSessions(h) \/ \E s \in SessionIds : DestroySession(h, s)
  \/ Destroyed(h)

Next ==
  \/ \E h \in Handlers : Copying(h) \/ Refreshing(h) \/ ByJwt(h) \/ ByLink(h) \/ Revoking(h) \/ Abort(h)
  \/ \E u \in Users : Delete(u) \/ \E t \in Jwts : ForgotPassword(u, t)
  \/ \E t \in Jwts : Expire(t)
  \/ \E l \in Links : ExpireLink(l)
  \/ \E s \in SessionIds : EndSession(s) \/ LoseSession(s)

Spec == Init /\ [][Next]_vars

-----------------------------------------------------------------------------
(* Properties.                                                             *)

\* Every row, key, token and handler has the shape the code gives it.
TypeOK ==
  /\ row \in [Users -> Row]
  /\ session \in [SessionIds -> Session \cup {NoSession}]
  /\ jwt \in [Jwts -> Users \cup {Nil}]
  /\ expired \subseteq Jwts /\ blacklist \subseteq Jwts
  /\ link \in [Links -> Users \cup {Nil}] /\ mailed \subseteq Links
  /\ request \in [Handlers -> Requests]
  /\ used \in [Jwts -> 0..2] /\ accepted \in [Links -> Nat] /\ undeleted \subseteq Links
  /\ barred \in [Users -> SUBSET Passwords]
  /\ unrevoked \subseteq SessionIds /\ strays \subseteq SessionIds

\* A reset JWT replaces one password, however many requests present it at once,
\* as long as it has not expired (user_service.go:467, blacklist.go:31).
JwtResetOnce == \A t \in Jwts \ expired : used[t] <= 1

\* A link is accepted by no more verifications than read it before one of them
\* deleted it, unless Redis failed to delete it (reset_service.go:119).
LinkBounded == \A l \in Links \ undeleted : accepted[l] <= Cardinality(Handlers)

\* When a reset goes through the sessions, a password that is neither in the
\* row nor in the hands of a request has had its day: it never comes back, and
\* the sessions it opened are closed or about to be.  Two exceptions: those
\* whose deletion failed, and strays, which a refresh had read before they were
\* gone and wrote back, or a listing failed to read (user.go:1503,
\* session_repo.go:202, :93).  The old password a stale Save still holds is not
\* barred: it does come back (user_service.go:195).
BeingDestroyed(s) == \E h \in Handlers : request[h].op = "destroy" /\ s \in request[h].todo

ResetRevokes ==
  /\ \A u \in Users : row[u].password \notin barred[u]
  /\ \A s \in SessionIds :
       session[s] # NoSession /\ session[s].by \in barred[session[s].user] =>
         s \in unrevoked \cup strays \/ BeingDestroyed(s)

\* A deleted account that no request holds a copy of stays deleted, whatever
\* tokens and links were issued for it before (user_service.go:195).
Buried(u) ==
  /\ ~row[u].live
  /\ \A h \in Handlers :
       request[h].op \in {"save", "expiry", "blacklist"} => request[h].user # u

DeletedForGood == [][\A u \in Users : Buried(u) => Buried(u)']_vars

=============================================================================
