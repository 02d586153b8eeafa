---------------------------- MODULE AccountsProofs ----------------------------
(***************************************************************************)
(* TLAPS proofs about Accounts, for any sets of accounts, passwords,       *)
(* sessions, tokens, links and handlers.                                   *)
(***************************************************************************)
EXTENDS Accounts, FiniteSetTheorems, TLAPS

-----------------------------------------------------------------------------
(* Types.                                                                  *)

\* What a handler holds, by operation.
LEMMA RequestTypes ==
  ASSUME NEW r \in Requests
  PROVE  /\ r.op = "save" => r.user \in Users /\ r.password \in Passwords /\ r.next \in Nexts
         /\ r.op \in {"lookup", "open"} => r.user \in Users /\ r.by \in Passwords
         /\ r.op = "claim" => r.user \in Users /\ r.token \in Jwts
         /\ r.op = "list" => r.user \in Users
         /\ r.op = "load" => r.user \in Users /\ r.token \in Jwts \cup {Nil}
         /\ r.op \in {"expiry", "blacklist"} =>
              r.user \in Users /\ r.token \in Jwts /\ r.password \in Passwords
         /\ r.op \in {"mail", "unset"} => r.link \in Links
         /\ r.op = "consume" => r.user \in Users /\ r.link \in Links
         /\ r.op = "destroy" => r.user \in Users /\ r.todo \in SUBSET SessionIds
         /\ r.op = "rotate" => r.session \in SessionIds /\ r.old \in Session
  BY DEF Requests, Nexts, Idle

LEMMA NextTypes ==
  ASSUME NEW n \in Nexts
  PROVE  /\ n \in Requests /\ n.op \in {"idle", "lookup", "open", "claim", "list"}
         /\ n.op \in {"lookup", "open"} => n.user \in Users /\ n.by \in Passwords
         /\ n.op = "claim" => n.user \in Users /\ n.token \in Jwts
         /\ n.op = "list" => n.user \in Users
  BY DEF Requests, Nexts, Idle

LEMMA RequestStep ==
  ASSUME TypeOK, NEW h \in Handlers, NEW r \in Requests,
         request' = [request EXCEPT ![h] = r]
  PROVE  request' \in [Handlers -> Requests]
  BY DEF TypeOK

LEMMA IdleIsRequest == Idle \in Requests /\ Idle \in Nexts
  BY DEF Requests, Nexts

LEMMA SavingIsRequest ==
  ASSUME NEW u \in Users, NEW p \in Passwords, NEW n \in Nexts
  PROVE  Saving(u, p, n) \in Requests
  BY DEF Saving, Requests

LEMMA HashTypes ==
  ASSUME TypeOK, NEW p, Hash(p)
  PROVE  barred' \in [Users -> SUBSET Passwords]
  BY DEF TypeOK, Hash

LEMMA UpTypes ==
  /\ \A n, top \in Nat : Up(n, top) \in Nat
  /\ \A n \in 0..2 : Up(n, 2) \in 0..2
  BY DEF Up

LEMMA CopyingTypes ==
  ASSUME TypeOK, NEW h \in Handlers, Copying(h)
  PROVE  TypeOK'
<1> DEFINE r == request[h]
<1>1. r \in Requests
  BY DEF TypeOK
<1>2. ASSUME NEW u \in Users, Login(h, u)
      PROVE  TypeOK'
  <2>1. row[u].password \in Passwords
    BY DEF TypeOK, Row
  <2>2. PICK op \in {"lookup", "open"} :
          request' = [request EXCEPT ![h] = Saving(u, row[u].password,
                                        [op |-> op, user |-> u, by |-> row[u].password])]
    BY <1>2 DEF Login, Start
  <2>3. [op |-> op, user |-> u, by |-> row[u].password] \in Nexts
    BY <2>1 DEF Nexts
  <2>4. request' \in [Handlers -> Requests]
    BY <2>1, <2>2, <2>3, SavingIsRequest, RequestStep
  <2> QED
    BY <1>2, <2>4 DEF Login, tokens, links, TypeOK
<1>3. ASSUME NEW u \in Users, Update(h, u)
      PROVE  TypeOK'
  <2>1. row[u].password \in Passwords
    BY DEF TypeOK, Row
  <2>2. request' \in [Handlers -> Requests]
    BY <1>3, <2>1, SavingIsRequest, IdleIsRequest, RequestStep DEF Update, Start
  <2> QED
    BY <1>3, <2>2 DEF Update, tokens, links, TypeOK
<1>4. ASSUME NEW u \in Users, NEW p \in Passwords, ChangePassword(h, u, p)
      PROVE  TypeOK'
  <2>1. request' \in [Handlers -> Requests]
    BY <1>4, SavingIsRequest, IdleIsRequest, RequestStep DEF ChangePassword, Start
  <2> QED
    BY <1>4, <2>1, HashTypes DEF ChangePassword, tokens, links, TypeOK
<1>5. CASE Save(h)
  <2>1. r.user \in Users /\ r.password \in Passwords /\ r.next \in Nexts
    BY <1>1, <1>5, RequestTypes DEF Save
  <2>2. request' \in [Handlers -> Requests]
    BY <1>5, <2>1, NextTypes, RequestStep DEF Save, Continue
  <2>3. [password |-> r.password, live |-> TRUE] \in Row
    BY <2>1 DEF Row
  <2>4. row' \in [Users -> Row]
    BY <1>5, <2>3 DEF Save, TypeOK
  <2>5. used' \in [Jwts -> 0..2]
    BY <1>5, <2>1, NextTypes, UpTypes DEF Save, TypeOK
  <2> QED
    BY <1>5, <2>2, <2>4, <2>5 DEF Save, tokens, links, TypeOK
<1>6. ASSUME NEW s \in SessionIds, OpenSession(h, s)
      PROVE  TypeOK'
  <2>1. [user |-> r.user, by |-> r.by] \in Session
    BY <1>1, <1>6, RequestTypes DEF OpenSession, Session
  <2>2. session' \in [SessionIds -> Session \cup {NoSession}]
    BY <1>6, <2>1 DEF OpenSession, TypeOK
  <2>3. request' \in [Handlers -> Requests]
    BY <1>6, IdleIsRequest, RequestStep DEF OpenSession, Finish
  <2> QED
    BY <1>6, <2>2, <2>3 DEF OpenSession, tokens, links, TypeOK
<1> QED
  BY <1>2, <1>3, <1>4, <1>5, <1>6 DEF Copying

LEMMA RefreshingTypes ==
  ASSUME TypeOK, NEW h \in Handlers, Refreshing(h)
  PROVE  TypeOK'
<1> DEFINE r == request[h]
<1>1. ASSUME NEW s \in SessionIds, ReadForRotate(h, s)
      PROVE  TypeOK'
  <2>1. session[s] \in Session
    BY <1>1 DEF ReadForRotate, TypeOK
  <2>2. [op |-> "rotate", session |-> s, old |-> session[s]] \in Requests
    BY <2>1 DEF Requests
  <2>3. request' \in [Handlers -> Requests]
    BY <1>1, <2>2, RequestStep DEF ReadForRotate, Start
  <2> QED
    BY <1>1, <2>3 DEF ReadForRotate, tokens, links, TypeOK
<1>2. CASE RotateTokens(h)
  <2>1. r.session \in SessionIds /\ r.old \in Session
    BY <1>2, RequestTypes DEF RotateTokens, TypeOK
  <2>2. session' \in [SessionIds -> Session \cup {NoSession}] /\ strays' \subseteq SessionIds
    BY <1>2, <2>1 DEF RotateTokens, TypeOK
  <2>3. request' \in [Handlers -> Requests]
    BY <1>2, IdleIsRequest, RequestStep DEF RotateTokens, Finish
  <2> QED
    BY <1>2, <2>2, <2>3 DEF RotateTokens, tokens, links, TypeOK
<1> QED
  BY <1>1, <1>2 DEF Refreshing

LEMMA ByJwtTypes ==
  ASSUME TypeOK, NEW h \in Handlers, ByJwt(h)
  PROVE  TypeOK'
<1> DEFINE r == request[h]
<1>1. r \in Requests
  BY DEF TypeOK
<1>2. ASSUME NEW t \in Jwts, ResetPassword(h, t)
      PROVE  TypeOK'
  <2>1. [op |-> "load", user |-> jwt[t], token |-> t] \in Requests
    BY <1>2 DEF ResetPassword, Requests, TypeOK
  <2>2. request' \in [Handlers -> Requests]
    BY <1>2, <2>1, RequestStep DEF ResetPassword, Start
  <2> QED
    BY <1>2, <2>2 DEF ResetPassword, tokens, links, TypeOK
<1>3. ASSUME NEW p \in Passwords, Load(h, p)
      PROVE  TypeOK'
  <2>1. r.user \in Users /\ r.token \in Jwts \cup {Nil}
    BY <1>1, <1>3, RequestTypes DEF Load
  <2>2. [op |-> "list", user |-> r.user] \in Nexts
    BY <2>1 DEF Nexts
  <2>3. r.token # Nil => [op |-> "expiry", user |-> r.user, token |-> r.token, password |-> p] \in Requests
    BY <2>1 DEF Requests
  <2>4. request' \in [Handlers -> Requests]
    BY <1>3, <2>1, <2>2, <2>3, SavingIsRequest, RequestStep DEF Load, Continue
  <2> QED
    BY <1>3, <2>4, HashTypes DEF Load, tokens, links, TypeOK
<1>4. CASE LoadFails(h)
  BY <1>4, IdleIsRequest, RequestStep DEF LoadFails, Finish, tokens, links, TypeOK
<1>5. CASE CheckExpiry(h)
  <2>1. r \in [op: {"expiry", "blacklist"}, user: Users, token: Jwts, password: Passwords]
    BY <1>1, <1>5 DEF CheckExpiry, Requests, Nexts, Idle
  <2>2. [r EXCEPT !.op = "blacklist"] \in Requests
    BY <2>1 DEF Requests
  <2>3. request' \in [Handlers -> Requests]
    BY <1>5, <2>2, IdleIsRequest, RequestStep DEF CheckExpiry, Continue, Finish
  <2> QED
    BY <1>5, <2>3 DEF CheckExpiry, tokens, links, TypeOK
<1>6. CASE StoreBlacklist(h)
  <2>1. r.user \in Users /\ r.token \in Jwts /\ r.password \in Passwords
    BY <1>1, <1>6, RequestTypes DEF StoreBlacklist
  <2>2. [op |-> "claim", user |-> r.user, token |-> r.token] \in Nexts
    BY <2>1 DEF Nexts
  <2>3. request' \in [Handlers -> Requests]
    BY <1>6, <2>1, <2>2, SavingIsRequest, IdleIsRequest, RequestStep
       DEF StoreBlacklist, Continue, Finish
  <2>4. blacklist' \subseteq Jwts
    BY <1>6, <2>1 DEF StoreBlacklist, TypeOK
  <2> QED
    BY <1>6, <2>3, <2>4 DEF StoreBlacklist, links, TypeOK
<1>7. CASE Claim(h)
  <2>1. [op |-> "list", user |-> r.user] \in Requests
    BY <1>1, <1>7, RequestTypes DEF Claim, Requests, Nexts
  <2>2. request' \in [Handlers -> Requests]
    BY <1>7, <2>1, IdleIsRequest, RequestStep DEF Claim, Continue, Finish
  <2> QED
    BY <1>7, <2>2 DEF Claim, tokens, links, TypeOK
<1> QED
  BY <1>2, <1>3, <1>4, <1>5, <1>6, <1>7 DEF ByJwt

LEMMA ByLinkTypes ==
  ASSUME TypeOK, NEW h \in Handlers, ByLink(h)
  PROVE  TypeOK'
<1> DEFINE r == request[h]
<1>1. r \in Requests
  BY DEF TypeOK
<1>2. ASSUME NEW u \in Users, NEW l \in Links, RequestReset(h, u, l)
      PROVE  TypeOK'
  <2>1. [op |-> "mail", link |-> l] \in Requests
    BY DEF Requests
  <2>2. request' \in [Handlers -> Requests]
    BY <1>2, <2>1, RequestStep DEF RequestReset, Start
  <2>3. /\ link' \in [Links -> Users \cup {Nil}] /\ mailed' \subseteq Links
        /\ accepted' \in [Links -> Nat] /\ undeleted' \subseteq Links
    BY <1>2 DEF RequestReset, TypeOK
  <2> QED
    BY <1>2, <2>2, <2>3 DEF RequestReset, tokens, TypeOK
<1>3. CASE SendPasswordReset(h) \/ SendPasswordResetFails(h)
  <2>1. r \in [op: {"mail", "unset"}, link: Links]
    BY <1>1, <1>3 DEF SendPasswordReset, SendPasswordResetFails, Requests, Nexts, Idle
  <2>2. [r EXCEPT !.op = "unset"] \in Requests
    BY <2>1 DEF Requests
  <2>3. request' \in [Handlers -> Requests]
    BY <1>3, <2>2, IdleIsRequest, RequestStep
       DEF SendPasswordReset, SendPasswordResetFails, Continue, Finish
  <2>4. mailed' \subseteq Links
    BY <1>3, <2>1 DEF SendPasswordReset, SendPasswordResetFails, TypeOK
  <2> QED
    BY <1>3, <2>3, <2>4 DEF SendPasswordReset, SendPasswordResetFails, tokens, TypeOK
<1>4. CASE Unset(h)
  <2>1. request' \in [Handlers -> Requests]
    BY <1>4, IdleIsRequest, RequestStep DEF Unset, Finish
  <2>2. link' \in [Links -> Users \cup {Nil}]
    BY <1>4 DEF Unset, TypeOK
  <2> QED
    BY <1>4, <2>1, <2>2 DEF Unset, tokens, TypeOK
<1>5. ASSUME NEW l \in Links, VerifyReset(h, l)
      PROVE  TypeOK'
  <2>1. [op |-> "consume", user |-> link[l], link |-> l] \in Requests
    BY <1>5 DEF VerifyReset, Requests, TypeOK
  <2>2. request' \in [Handlers -> Requests]
    BY <1>5, <2>1, RequestStep DEF VerifyReset, Start
  <2> QED
    BY <1>5, <2>2 DEF VerifyReset, tokens, links, TypeOK
<1>6. CASE DeleteToken(h)
  <2>1. r.user \in Users /\ r.link \in Links
    BY <1>1, <1>6, RequestTypes DEF DeleteToken
  <2>2. [op |-> "load", user |-> r.user, token |-> Nil] \in Requests
    BY <2>1 DEF Requests
  <2>3. request' \in [Handlers -> Requests]
    BY <1>6, <2>2, RequestStep DEF DeleteToken, Continue
  <2>4. link' \in [Links -> Users \cup {Nil}] /\ undeleted' \subseteq Links
    BY <1>6, <2>1 DEF DeleteToken, TypeOK
  <2>5. Cardinality(Handlers) + 1 \in Nat
    BY AccountsAssumption, FS_CardinalityType
  <2>6. accepted' \in [Links -> Nat]
    BY <1>6, <2>1, <2>5, UpTypes DEF DeleteToken, TypeOK
  <2> QED
    BY <1>6, <2>3, <2>4, <2>6 DEF DeleteToken, tokens, TypeOK
<1> QED
  BY <1>2, <1>3, <1>4, <1>5, <1>6 DEF ByLink

LEMMA RevokingTypes ==
  ASSUME TypeOK, NEW h \in Handlers, Revoking(h)
  PROVE  TypeOK'
<1> DEFINE r == request[h]
<1>1. r \in Requests
  BY DEF TypeOK
<1>2. CASE ListSessions(h)
  <2>1. PICK todo \in SUBSET SessionIds :
          request' = [request EXCEPT ![h] = [op |-> "destroy", user |-> r.user, todo |-> todo]]
    BY <1>2 DEF ListSessions, Continue
  <2>2. r.user \in Users
    BY <1>1, <1>2, RequestTypes DEF ListSessions
  <2>3. [op |-> "destroy", user |-> r.user, todo |-> todo] \in Requests
    BY <2>2 DEF Requests
  <2>4. request' \in [Handlers -> Requests]
    BY <2>1, <2>3, RequestStep
  <2>5. barred' \in [Users -> SUBSET Passwords]
    BY <1>2, <2>2 DEF ListSessions, TypeOK
  <2> QED
    BY <1>2, <2>4, <2>5 DEF ListSessions, tokens, links, TypeOK
<1>3. ASSUME NEW s \in SessionIds, DestroySession(h, s)
      PROVE  TypeOK'
  <2>1. r \in [op: {"destroy"}, user: Users, todo: SUBSET SessionIds]
    BY <1>1, <1>3 DEF DestroySession, Requests, Nexts, Idle
  <2>2. [r EXCEPT !.todo = @ \ {s}] \in Requests
    BY <2>1 DEF Requests
  <2>3. request' \in [Handlers -> Requests]
    BY <1>3, <2>2, RequestStep DEF DestroySession, Continue
  <2>4. /\ session' \in [SessionIds -> Session \cup {NoSession}]
        /\ unrevoked' \subseteq SessionIds /\ strays' \subseteq SessionIds
    BY <1>3 DEF DestroySession, TypeOK
  <2> QED
    BY <1>3, <2>3, <2>4 DEF DestroySession, tokens, links, TypeOK
<1>4. CASE Destroyed(h)
  BY <1>4, IdleIsRequest, RequestStep DEF Destroyed, Finish, tokens, links, TypeOK
<1> QED
  BY <1>2, <1>3, <1>4 DEF Revoking

LEMMA InitTypes == Init => TypeOK
<1> SUFFICES ASSUME Init
             PROVE  TypeOK
  OBVIOUS
<1>1. [password: Passwords, live: {TRUE}] \subseteq Row
  BY DEF Row
<1>2. row \in [Users -> Row]
  BY <1>1 DEF Init
<1>3. request \in [Handlers -> Requests]
  BY IdleIsRequest DEF Init
<1>4. used \in [Jwts -> 0..2] /\ accepted \in [Links -> Nat]
  BY DEF Init
<1> QED
  BY <1>2, <1>3, <1>4 DEF Init, TypeOK

LEMMA StepTypes ==
  ASSUME TypeOK, [Next]_vars
  PROVE  TypeOK'
<1>1. ASSUME NEW h \in Handlers, Abort(h)
      PROVE  TypeOK'
  <2>1. request[h].op = "destroy" => request[h].todo \in SUBSET SessionIds
    BY RequestTypes DEF TypeOK
  <2>2. request' \in [Handlers -> Requests]
    BY <1>1, IdleIsRequest, RequestStep DEF Abort, Finish
  <2>3. unrevoked' \subseteq SessionIds
    BY <1>1, <2>1 DEF Abort, TypeOK
  <2> QED
    BY <1>1, <2>2, <2>3 DEF Abort, tokens, links, TypeOK
<1>2. ASSUME NEW u \in Users, Delete(u)
      PROVE  TypeOK'
  <2>1. [row[u] EXCEPT !.live = FALSE] \in Row
    BY DEF TypeOK, Row
  <2>2. row' \in [Users -> Row]
    BY <1>2, <2>1 DEF Delete, TypeOK
  <2> QED
    BY <1>2, <2>2 DEF Delete, tokens, links, TypeOK
<1>3. ASSUME NEW u \in Users, NEW t \in Jwts, ForgotPassword(u, t)
      PROVE  TypeOK'
  BY <1>3 DEF ForgotPassword, links, TypeOK
<1>4. ASSUME NEW t \in Jwts, Expire(t)
      PROVE  TypeOK'
  BY <1>4 DEF Expire, links, TypeOK
<1>5. ASSUME NEW l \in Links, ExpireLink(l)
      PROVE  TypeOK'
  BY <1>5 DEF ExpireLink, tokens, TypeOK
<1>6. ASSUME NEW s \in SessionIds, EndSession(s)
      PROVE  TypeOK'
  BY <1>6 DEF EndSession, tokens, links, TypeOK
<1>8. ASSUME NEW s \in SessionIds, LoseSession(s)
      PROVE  TypeOK'
  BY <1>8 DEF LoseSession, tokens, links, TypeOK
<1>7. CASE UNCHANGED vars
  BY <1>7 DEF vars, tokens, links, TypeOK
<1> QED
  BY <1>1, <1>2, <1>3, <1>4, <1>5, <1>6, <1>7, <1>8, CopyingTypes, RefreshingTypes, ByJwtTypes, ByLinkTypes,
     RevokingTypes DEF Next

\* Types: every row, key, token and handler keeps the shape the code gives it.
THEOREM AccountTypes == Spec => []TypeOK
  BY InitTypes, StepTypes, PTL DEF Spec

-----------------------------------------------------------------------------
(* A reset JWT replaces one password.                                      *)

\* A request that has blacklisted JWT t and not yet saved the password.
Spends(h, t) ==
  request[h].op = "save" /\ request[h].next.op = "claim" /\ request[h].next.token = t

\* As long as a JWT has not expired: only who finds it absent from the blacklist
\* saves a password with it, and it stays there.
SpentOnce ==
  \A t \in Jwts \ expired :
    /\ \A h \in Handlers : Spends(h, t) => t \in blacklist /\ used[t] = 0
    /\ \A g, h \in Handlers : Spends(g, t) /\ Spends(h, t) => g = h
    /\ used[t] # 0 => t \in blacklist
    /\ used[t] <= 1

JwtInv == TypeOK /\ SpentOnce

LEMMA InitSpent == Init => SpentOnce
  BY DEF Init, SpentOnce, Spends, Idle

\* Steps that end with no request about to save with a JWT that was not before.
LEMMA QuietSpends ==
  ASSUME JwtInv, expired \subseteq expired', UNCHANGED blacklist,
         \A t \in Jwts \ expired' : used'[t] = used[t],
         \A h \in Handlers, t \in Jwts : Spends(h, t)' => Spends(h, t)
  PROVE  SpentOnce'
  BY DEF JwtInv, SpentOnce

LEMMA StoreSpends ==
  ASSUME JwtInv, NEW h \in Handlers, StoreBlacklist(h)
  PROVE  SpentOnce'
<1> DEFINE r == request[h]
           kept == blacklist \ expired
           n == [op |-> "claim", user |-> r.user, token |-> r.token]
<1>1. /\ UNCHANGED <<expired, used>> /\ blacklist' = kept \cup {r.token}
      /\ r.op = "blacklist" /\ r.token \in Jwts
      /\ \A g \in Handlers \ {h} : request'[g] = request[g]
      /\ r.token \in kept => request'[h] = Idle
      /\ r.token \notin kept => request'[h] = Saving(r.user, r.password, n)
  BY RequestTypes DEF StoreBlacklist, Finish, Continue, JwtInv, TypeOK
<1>2. ASSUME NEW t \in Jwts \ expired
      PROVE  /\ t \in blacklist => t \in blacklist'
             /\ Spends(h, t)' => t = r.token /\ t \notin blacklist
             /\ \A g \in Handlers \ {h} : Spends(g, t)' <=> Spends(g, t)
  <2>1. Spends(h, t)' => t = r.token /\ r.token \notin kept
    BY <1>1 DEF Spends, Saving, Idle
  <2> QED
    BY <1>1, <1>2, <2>1 DEF Spends
<1>3. ASSUME NEW t \in Jwts \ expired, Spends(h, t)'
      PROVE  used[t] = 0 /\ t \in blacklist' /\ \A g \in Handlers \ {h} : ~Spends(g, t)
  BY <1>1, <1>2, <1>3 DEF JwtInv, SpentOnce
<1> HIDE DEF r, kept, n
<1> QED
  BY <1>1, <1>2, <1>3 DEF JwtInv, SpentOnce

LEMMA SaveSpends ==
  ASSUME JwtInv, NEW h \in Handlers, Save(h)
  PROVE  SpentOnce'
<1> DEFINE r == request[h]
<1>1. /\ UNCHANGED <<expired, blacklist>> /\ r.op = "save" /\ r.next \in Nexts
      /\ \A g \in Handlers \ {h} : request'[g] = request[g]
      /\ request'[h] = r.next
  BY RequestTypes DEF Save, Continue, tokens, JwtInv, TypeOK
<1>2. \A t \in Jwts : ~Spends(h, t)' /\ \A g \in Handlers \ {h} : Spends(g, t)' <=> Spends(g, t)
  BY <1>1, NextTypes DEF Spends
<1>3. ASSUME NEW t \in Jwts
      PROVE  t \notin expired => used'[t] = IF Spends(h, t) THEN Up(used[t], 2) ELSE used[t]
  BY <1>1, <1>3 DEF Save, Spends, JwtInv, TypeOK
<1> HIDE DEF r
<1>4. ASSUME NEW t \in Jwts \ expired
      PROVE  /\ used'[t] # 0 => t \in blacklist
             /\ used'[t] <= 1
             /\ \A g \in Handlers : Spends(g, t)' => t \in blacklist /\ used'[t] = 0
  <2>1. CASE Spends(h, t)
    <3>1. used[t] = 0 /\ t \in blacklist /\ \A g \in Handlers \ {h} : ~Spends(g, t)
      BY <2>1 DEF JwtInv, SpentOnce
    <3>2. used'[t] = 1
      BY <1>3, <2>1, <3>1 DEF Up
    <3> QED
      BY <1>2, <3>1, <3>2
  <2>2. CASE ~Spends(h, t)
    BY <1>2, <1>3, <2>2 DEF JwtInv, SpentOnce
  <2> QED
    BY <2>1, <2>2
<1> QED
  BY <1>1, <1>2, <1>4 DEF JwtInv, SpentOnce

\* What a request that does not come from the blacklist goes on to is no save
\* with a JWT.
LEMMA OtherSpends ==
  ASSUME JwtInv, NEW h \in Handlers,
         Copying(h) \/ Refreshing(h) \/ ByJwt(h) \/ ByLink(h) \/ Revoking(h) \/ Abort(h),
         ~Save(h), ~StoreBlacklist(h)
  PROVE  SpentOnce'
<1>1. UNCHANGED <<expired, used, blacklist>> /\ \E r : request' = [request EXCEPT ![h] = r]
  BY DEF Copying, Refreshing, ReadForRotate, RotateTokens, ByJwt, ByLink, Revoking, Abort, Login,
         Update, ChangePassword, OpenSession, ResetPassword, Load, LoadFails, CheckExpiry, Claim,
         RequestReset, SendPasswordReset,
         SendPasswordResetFails, Unset, VerifyReset, DeleteToken, ListSessions, DestroySession,
         Destroyed, Start, Continue, Finish, tokens
<1>2. \A g \in Handlers \ {h} : request'[g] = request[g]
  BY <1>1 DEF JwtInv, TypeOK
<1>3. request'[h].op = "save" => request'[h].next.op # "claim"
  <2>1. request[h] \in Requests /\ \A r : request' = [request EXCEPT ![h] = r] => request'[h] = r
    BY DEF JwtInv, TypeOK
  <2>2. CASE Copying(h)
    BY <2>1, <2>2 DEF Copying, Login, Update, ChangePassword, OpenSession, Start, Finish, Saving, Idle
  <2>3. CASE ByJwt(h)
    <3>1. ASSUME CheckExpiry(h)
          PROVE  request'[h].op # "save"
      <4>1. request[h] \in [op: {"expiry", "blacklist"}, user: Users, token: Jwts, password: Passwords]
        BY <2>1, <3>1 DEF CheckExpiry, Requests, Nexts, Idle
      <4> QED
        BY <2>1, <3>1, <4>1 DEF CheckExpiry, Continue, Finish, Idle
    <3> QED
      BY <2>1, <2>3, <3>1 DEF ByJwt, ResetPassword, Load, LoadFails, Claim, Start, Continue, Finish,
         Saving, Idle
  <2>4. CASE ByLink(h)
    <3>1. ASSUME SendPasswordResetFails(h)
          PROVE  request'[h].op # "save"
      <4>1. request[h] \in [op: {"mail", "unset"}, link: Links]
        BY <2>1, <3>1 DEF SendPasswordResetFails, Requests, Nexts, Idle
      <4> QED
        BY <2>1, <3>1, <4>1 DEF SendPasswordResetFails, Continue
    <3> QED
      BY <2>1, <2>4, <3>1 DEF ByLink, RequestReset, SendPasswordReset, Unset, VerifyReset, DeleteToken,
         Start, Continue, Finish, Idle
  <2>5. CASE Revoking(h)
    <3>1. ASSUME NEW s \in SessionIds, DestroySession(h, s)
          PROVE  request'[h].op # "save"
      <4>1. request[h] \in [op: {"destroy"}, user: Users, todo: SUBSET SessionIds]
        BY <2>1, <3>1 DEF DestroySession, Requests, Nexts, Idle
      <4> QED
        BY <2>1, <3>1, <4>1 DEF DestroySession, Continue
    <3> QED
      BY <2>1, <2>5, <3>1 DEF Revoking, ListSessions, Destroyed, Continue, Finish, Idle
  <2>6. CASE Abort(h)
    BY <2>1, <2>6 DEF Abort, Finish, Idle
  <2>7. CASE Refreshing(h)
    BY <2>1, <2>7 DEF Refreshing, ReadForRotate, RotateTokens, Start, Finish, Idle
  <2> QED
    BY <2>2, <2>3, <2>4, <2>5, <2>6, <2>7
<1> QED
  BY <1>1, <1>2, <1>3, QuietSpends DEF Spends

LEMMA StepSpent ==
  ASSUME JwtInv, [Next]_vars
  PROVE  JwtInv'
<1>1. TypeOK'
  BY StepTypes DEF JwtInv
<1>2. CASE /\ UNCHANGED <<request, blacklist>> /\ expired \subseteq expired'
           /\ \A t \in Jwts \ expired' : used'[t] = used[t]
  BY <1>1, <1>2, QuietSpends DEF Spends, JwtInv
<1>3. ASSUME NEW t \in Jwts, Expire(t)
      PROVE  /\ UNCHANGED <<request, blacklist>> /\ expired \subseteq expired'
             /\ \A x \in Jwts \ expired' : used'[x] = used[x]
  BY <1>3 DEF Expire, JwtInv, TypeOK
<1> QED
  BY <1>1, <1>2, <1>3, StoreSpends, SaveSpends, OtherSpends
     DEF Next, Copying, ByJwt, Delete, ForgotPassword, ExpireLink, EndSession, LoseSession, vars, tokens, JwtInv

\* A reset JWT that has not expired replaces one password, however many requests
\* present it at once (user_service.go:467, blacklist.go:31).
THEOREM JwtIsSpentOnce == Spec => []JwtResetOnce
<1>1. Init => JwtInv
  BY InitTypes, InitSpent DEF JwtInv
<1>2. JwtInv => JwtResetOnce
  BY DEF JwtInv, SpentOnce, JwtResetOnce
<1> QED
  BY <1>1, <1>2, StepSpent, PTL DEF Spec

-----------------------------------------------------------------------------
(* Deleted accounts.                                                       *)

\* A request that holds a copy of an account it may still save.
Copies(h, u) == request[h].op \in {"save", "expiry", "blacklist"} /\ request[h].user = u

Serves(h) == Copying(h) \/ Refreshing(h) \/ ByJwt(h) \/ ByLink(h) \/ Revoking(h) \/ Abort(h)

LEMMA ServesOne ==
  ASSUME TypeOK, NEW h \in Handlers, Serves(h)
  PROVE  /\ \A g \in Handlers \ {h} : request'[g] = request[g]
         /\ \A r : request' = [request EXCEPT ![h] = r] => request'[h] = r
         /\ row' = row \/ Save(h)
<1>1. \E r : request' = [request EXCEPT ![h] = r]
  BY DEF Serves, Copying, Refreshing, ReadForRotate, RotateTokens,
         ByJwt, ByLink, Revoking, Abort, Login, Update, ChangePassword, Save,
         OpenSession, ResetPassword, Load, LoadFails, CheckExpiry, StoreBlacklist, Claim, RequestReset,
         SendPasswordReset, SendPasswordResetFails, Unset, VerifyReset, DeleteToken, ListSessions,
         DestroySession, Destroyed, Start, Continue, Finish
<1>2. row' = row \/ Save(h)
  BY DEF Serves, Copying, Refreshing, ReadForRotate, RotateTokens,
         ByJwt, ByLink, Revoking, Abort, Login, Update, ChangePassword,
         OpenSession, ResetPassword, Load, LoadFails, CheckExpiry, StoreBlacklist, Claim, RequestReset,
         SendPasswordReset, SendPasswordResetFails, Unset, VerifyReset, DeleteToken, ListSessions,
         DestroySession, Destroyed
<1> QED
  BY <1>1, <1>2 DEF TypeOK

\* A copy is one of a row that was found, or was a copy before.
LEMMA CopiesFound ==
  ASSUME TypeOK, NEW h \in Handlers, Serves(h), NEW u \in Users, Copies(h, u)'
  PROVE  Found(u) \/ Copies(h, u)
<1> DEFINE r == request[h]
<1>1. r \in Requests /\ \A x : request' = [request EXCEPT ![h] = x] => request'[h] = x
  BY ServesOne DEF TypeOK
<1>2. CASE Save(h)
  <2>1. request'[h] = r.next /\ r.next \in Nexts
    BY <1>1, <1>2, RequestTypes DEF Save, Continue
  <2> QED
    BY <2>1, NextTypes DEF Copies
<1>3. CASE CheckExpiry(h)
  <2>1. r \in [op: {"expiry", "blacklist"}, user: Users, token: Jwts, password: Passwords]
    BY <1>1, <1>3 DEF CheckExpiry, Requests, Nexts, Idle
  <2> QED
    BY <1>1, <1>3, <2>1 DEF CheckExpiry, Continue, Finish, Idle, Copies
<1>4. CASE SendPasswordResetFails(h)
  <2>1. r \in [op: {"mail", "unset"}, link: Links]
    BY <1>1, <1>4 DEF SendPasswordResetFails, Requests, Nexts, Idle
  <2> QED
    BY <1>1, <1>4, <2>1 DEF SendPasswordResetFails, Continue, Copies
<1>5. ASSUME NEW s \in SessionIds, DestroySession(h, s)
      PROVE  Found(u) \/ Copies(h, u)
  <2>1. r \in [op: {"destroy"}, user: Users, todo: SUBSET SessionIds]
    BY <1>1, <1>5 DEF DestroySession, Requests, Nexts, Idle
  <2> QED
    BY <1>1, <1>5, <2>1 DEF DestroySession, Continue, Copies
<1>6. CASE Copying(h) /\ ~Save(h)
  BY <1>1, <1>6 DEF Copying, Login, Update, ChangePassword, OpenSession, Start, Finish, Saving, Idle, Copies
<1>7. CASE ByJwt(h) /\ ~CheckExpiry(h)
  BY <1>1, <1>7 DEF ByJwt, ResetPassword, Load, LoadFails, StoreBlacklist, Claim, Start, Continue, Finish,
     Saving, Idle, Copies
<1>8. CASE ByLink(h) /\ ~SendPasswordResetFails(h)
  BY <1>1, <1>8 DEF ByLink, RequestReset, SendPasswordReset, Unset, VerifyReset, DeleteToken, Start,
     Continue, Finish, Idle, Copies
<1>9. CASE ListSessions(h) \/ Destroyed(h) \/ Abort(h)
  BY <1>1, <1>9 DEF ListSessions, Destroyed, Abort, Continue, Finish, Idle, Copies
<1>10. CASE Refreshing(h)
  BY <1>1, <1>10 DEF Refreshing, ReadForRotate, RotateTokens, Start, Finish, Idle, Copies
<1> QED
  BY <1>2, <1>3, <1>4, <1>5, <1>6, <1>7, <1>8, <1>9, <1>10 DEF Serves, Revoking

LEMMA StaysBuried ==
  ASSUME TypeOK, [Next]_vars, NEW u \in Users, Buried(u)
  PROVE  Buried(u)'
<1>1. ~row[u].live /\ \A h \in Handlers : ~Copies(h, u)
  BY DEF Buried, Copies
<1>2. ASSUME NEW h \in Handlers, Serves(h)
      PROVE  Buried(u)'
  <2>1. \A g \in Handlers : ~Copies(g, u)'
    <3>1. ~Copies(h, u)'
      BY <1>1, <1>2, CopiesFound DEF Found
    <3>2. \A g \in Handlers \ {h} : ~Copies(g, u)'
      BY <1>1, <1>2, ServesOne DEF Copies
    <3> QED
      BY <3>1, <3>2
  <2>2. ~row'[u].live
    <3>1. CASE Save(h)
      <4>1. request[h].user # u
        BY <1>1, <3>1 DEF Save, Copies
      <4> QED
        BY <1>1, <3>1, <4>1 DEF Save, TypeOK
    <3>2. CASE row' = row
      BY <1>1, <3>2
    <3> QED
      BY <1>2, <3>1, <3>2, ServesOne
  <2> QED
    BY <2>1, <2>2 DEF Buried, Copies
<1>3. ASSUME NEW v \in Users, Delete(v)
      PROVE  Buried(u)'
  <2>1. request' = request /\ row' = [row EXCEPT ![v].live = FALSE]
    BY <1>3 DEF Delete
  <2>2. ~row'[u].live
    BY <1>1, <2>1 DEF TypeOK, Row
  <2> QED
    BY <2>1, <2>2 DEF Buried
<1>4. CASE UNCHANGED <<row, request>>
  BY <1>4 DEF Buried
<1> QED
  BY <1>2, <1>3, <1>4 DEF Next, Serves, ForgotPassword, Expire, ExpireLink, EndSession, LoseSession, vars

\* A deleted account that no request holds a copy of stays deleted, whatever
\* tokens and links were issued for it before (user_service.go:195).
THEOREM DeletionHolds == Spec => DeletedForGood
<1>1. TypeOK /\ [Next]_vars => [\A u \in Users : Buried(u) => Buried(u)']_vars
  BY StaysBuried
<1> QED
  BY <1>1, AccountTypes, PTL DEF Spec, DeletedForGood

-----------------------------------------------------------------------------
(* Links.                                                                  *)

Verifying(l) == {h \in Handlers : request[h].op = "consume" /\ request[h].link = l}

\* What has read a link has its share of the bound already.
LinksCounted ==
  \A l \in Links \ undeleted :
    /\ link[l] # Nil => accepted[l] = 0
    /\ accepted[l] + Cardinality(Verifying(l)) <= Cardinality(Handlers)

LinkInv == TypeOK /\ LinksCounted

LEMMA VerifyingFinite ==
  ASSUME NEW l
  PROVE  /\ IsFiniteSet(Verifying(l)) /\ Cardinality(Verifying(l)) \in Nat
         /\ Cardinality(Handlers) \in Nat /\ Cardinality(Verifying(l)) <= Cardinality(Handlers)
<1>1. Verifying(l) \subseteq Handlers
  BY DEF Verifying
<1> QED
  BY <1>1, AccountsAssumption, FS_Subset, FS_CardinalityType

LEMMA InitLinks == Init => LinksCounted
<1> SUFFICES ASSUME Init
             PROVE  LinksCounted
  OBVIOUS
<1>1. \A l \in Links : accepted[l] = 0 /\ link[l] = Nil
  BY DEF Init
<1> QED
  BY <1>1, VerifyingFinite DEF LinksCounted

\* Steps that leave a link to those who had read it.
LEMMA QuietLinks ==
  ASSUME LinkInv, UNCHANGED <<accepted, undeleted>>,
         \A l \in Links : link'[l] \in {Nil, link[l]},
         \A l \in Links : Verifying(l)' = Verifying(l)
  PROVE  LinksCounted'
  BY DEF LinkInv, LinksCounted

LEMMA VerifyCounted ==
  ASSUME LinkInv, NEW h \in Handlers, NEW l \in Links, VerifyReset(h, l)
  PROVE  LinksCounted'
<1>1. UNCHANGED <<link, accepted, undeleted>> /\ link[l] # Nil
  BY DEF VerifyReset, links
<1>2. \A m \in Links \ {l} : Verifying(m)' = Verifying(m)
  BY DEF VerifyReset, Start, Verifying, Idle, LinkInv, TypeOK
<1>3. l \notin undeleted => accepted[l] = 0
  BY <1>1 DEF LinkInv, LinksCounted
<1>4. /\ Cardinality(Verifying(l)') \in Nat /\ Cardinality(Handlers) \in Nat
      /\ Cardinality(Verifying(l)') <= Cardinality(Handlers)
  <2>1. Verifying(l)' \subseteq Handlers
    BY DEF Verifying
  <2> QED
    BY <2>1, AccountsAssumption, FS_Subset, FS_CardinalityType
<1> QED
  BY <1>1, <1>2, <1>3, <1>4 DEF LinkInv, LinksCounted

LEMMA DeleteCounted ==
  ASSUME LinkInv, NEW h \in Handlers, DeleteToken(h)
  PROVE  LinksCounted'
<1>1. PICK l \in Links : l = request[h].link /\ request[h].op = "consume"
  BY RequestTypes DEF DeleteToken, LinkInv, TypeOK
<1>2. /\ Verifying(l)' = Verifying(l) \ {h} /\ h \in Verifying(l)
      /\ \A m \in Links \ {l} : Verifying(m)' = Verifying(m)
  BY <1>1 DEF DeleteToken, Continue, Verifying, LinkInv, TypeOK
<1>3. Cardinality(Verifying(l)') = Cardinality(Verifying(l)) - 1
  BY <1>2, VerifyingFinite, FS_RemoveElement
<1>4. /\ \A m \in Links \ {l} : link'[m] = link[m] /\ accepted'[m] = accepted[m]
                                 /\ (m \in undeleted <=> m \in undeleted')
      /\ l \notin undeleted' => link'[l] = Nil /\ l \notin undeleted
      /\ l \notin undeleted' => accepted'[l] = Up(accepted[l], Cardinality(Handlers) + 1)
  BY <1>1 DEF DeleteToken, LinkInv, TypeOK
<1>5. ASSUME l \notin undeleted'
      PROVE  accepted'[l] + Cardinality(Verifying(l)') <= Cardinality(Handlers)
  <2>1. accepted[l] + Cardinality(Verifying(l)) <= Cardinality(Handlers)
    BY <1>4, <1>5 DEF LinkInv, LinksCounted
  <2>2. accepted[l] \in Nat /\ Cardinality(Verifying(l)) \in Nat /\ Cardinality(Handlers) \in Nat
    BY VerifyingFinite DEF LinkInv, TypeOK
  <2>3. accepted'[l] = accepted[l] + 1
    BY <1>4, <1>5, <2>1, <2>2 DEF Up
  <2> QED
    BY <1>3, <2>1, <2>2, <2>3
<1> QED
  BY <1>2, <1>4, <1>5 DEF LinkInv, LinksCounted

LEMMA RequestCounted ==
  ASSUME LinkInv, NEW h \in Handlers, NEW u \in Users, NEW l \in Links, RequestReset(h, u, l)
  PROVE  LinksCounted'
<1>1. /\ accepted'[l] = 0 /\ undeleted' = undeleted \ {l}
      /\ \A m \in Links \ {l} : link'[m] = link[m] /\ accepted'[m] = accepted[m]
  BY DEF RequestReset, LinkInv, TypeOK
<1>2. \A m \in Links : Verifying(m)' = Verifying(m)
  BY DEF RequestReset, Start, Verifying, Idle, LinkInv, TypeOK
<1> QED
  BY <1>1, <1>2, VerifyingFinite DEF LinkInv, LinksCounted

\* No other step begins or ends a verification, except by breaking it off.
LEMMA OtherCounted ==
  ASSUME LinkInv, NEW h \in Handlers, Serves(h),
         ~DeleteToken(h), \A l \in Links : ~VerifyReset(h, l),
         \A u \in Users, l \in Links : ~RequestReset(h, u, l)
  PROVE  LinksCounted'
<1> DEFINE r == request[h]
<1>1. r \in Requests /\ (\A x : request' = [request EXCEPT ![h] = x] => request'[h] = x)
      /\ \A g \in Handlers \ {h} : request'[g] = request[g]
  BY ServesOne DEF LinkInv, TypeOK
<1>2. UNCHANGED <<accepted, undeleted>> /\ \A l \in Links : link'[l] \in {Nil, link[l]}
  <2>1. UNCHANGED <<accepted, undeleted>> /\ (link' = link \/ Unset(h))
    BY DEF Serves, Copying, Refreshing, ReadForRotate, RotateTokens,
         ByJwt, ByLink, Revoking, Abort, Login, Update, ChangePassword, Save,
           OpenSession, ResetPassword, Load, LoadFails, CheckExpiry, StoreBlacklist, Claim,
           SendPasswordReset, SendPasswordResetFails, Unset, ListSessions, DestroySession, Destroyed,
           links
  <2> QED
    BY <2>1 DEF Unset, LinkInv, TypeOK
<1>3. request'[h].op # "consume"
  <2>1. CASE Save(h)
    <3>1. request'[h] = r.next /\ r.next \in Nexts
      BY <1>1, <2>1, RequestTypes DEF Save, Continue
    <3> QED
      BY <3>1, NextTypes
  <2>2. CASE CheckExpiry(h)
    <3>1. r \in [op: {"expiry", "blacklist"}, user: Users, token: Jwts, password: Passwords]
      BY <1>1, <2>2 DEF CheckExpiry, Requests, Nexts, Idle
    <3> QED
      BY <1>1, <2>2, <3>1 DEF CheckExpiry, Continue, Finish, Idle
  <2>3. CASE SendPasswordResetFails(h)
    <3>1. r \in [op: {"mail", "unset"}, link: Links]
      BY <1>1, <2>3 DEF SendPasswordResetFails, Requests, Nexts, Idle
    <3> QED
      BY <1>1, <2>3, <3>1 DEF SendPasswordResetFails, Continue
  <2>4. ASSUME NEW s \in SessionIds, DestroySession(h, s)
        PROVE  request'[h].op # "consume"
    <3>1. r \in [op: {"destroy"}, user: Users, todo: SUBSET SessionIds]
      BY <1>1, <2>4 DEF DestroySession, Requests, Nexts, Idle
    <3> QED
      BY <1>1, <2>4, <3>1 DEF DestroySession, Continue
  <2>5. CASE Copying(h) /\ ~Save(h)
    BY <1>1, <2>5 DEF Copying, Login, Update, ChangePassword, OpenSession, Start, Finish, Saving, Idle
  <2>6. CASE ByJwt(h) /\ ~CheckExpiry(h)
    BY <1>1, <2>6 DEF ByJwt, ResetPassword, Load, LoadFails, StoreBlacklist, Claim, Start, Continue, Finish,
       Saving, Idle
  <2>7. CASE ByLink(h) /\ ~SendPasswordResetFails(h)
    BY <1>1, <2>7 DEF ByLink, SendPasswordReset, Unset, Finish, Idle
  <2>8. CASE ListSessions(h) \/ Destroyed(h) \/ Abort(h)
    BY <1>1, <2>8 DEF ListSessions, Destroyed, Abort, Continue, Finish, Idle
  <2>9. CASE Refreshing(h)
    BY <1>1, <2>9 DEF Refreshing, ReadForRotate, RotateTokens, Start, Finish, Idle
  <2> QED
    BY <2>1, <2>2, <2>3, <2>4, <2>5, <2>6, <2>7, <2>8, <2>9 DEF Serves, Revoking
<1>4. ASSUME NEW l \in Links
      PROVE  Verifying(l)' \in SUBSET Verifying(l)
  BY <1>1, <1>3 DEF Verifying
<1>5. ASSUME NEW l \in Links
      PROVE  /\ Cardinality(Verifying(l)') \in Nat /\ Cardinality(Verifying(l)) \in Nat
             /\ Cardinality(Verifying(l)') <= Cardinality(Verifying(l))
             /\ Cardinality(Handlers) \in Nat
  BY <1>4, VerifyingFinite, FS_Subset, FS_CardinalityType
<1>6. \A l \in Links : accepted[l] \in Nat
  BY DEF LinkInv, TypeOK
<1> QED
  BY <1>2, <1>5, <1>6 DEF LinkInv, LinksCounted

LEMMA StepLinks ==
  ASSUME LinkInv, [Next]_vars
  PROVE  LinkInv'
<1>1. TypeOK'
  BY StepTypes DEF LinkInv
<1>2. CASE UNCHANGED <<request, accepted, undeleted>> /\ \A l \in Links : link'[l] \in {Nil, link[l]}
  BY <1>1, <1>2, QuietLinks DEF Verifying, LinkInv
<1>3. ASSUME NEW l \in Links, ExpireLink(l)
      PROVE  UNCHANGED <<request, accepted, undeleted>> /\ \A m \in Links : link'[m] \in {Nil, link[m]}
  BY <1>3 DEF ExpireLink, LinkInv, TypeOK
<1>4. CASE \E h \in Handlers : Serves(h)
  BY <1>1, <1>4, OtherCounted, VerifyCounted, DeleteCounted, RequestCounted DEF LinkInv
<1> QED
  BY <1>2, <1>3, <1>4 DEF Next, Serves, Delete, ForgotPassword, Expire, EndSession, LoseSession, vars, links

\* A link is accepted by no more verifications than there are handlers to read
\* it at once, unless Redis failed to delete it (reset_service.go:119).
THEOREM LinksAreBounded == Spec => []LinkBounded
<1>1. Init => LinkInv
  BY InitTypes, InitLinks DEF LinkInv
<1>2. LinkInv => LinkBounded
  BY VerifyingFinite DEF LinkInv, LinksCounted, LinkBounded, TypeOK
<1> QED
  BY <1>1, <1>2, StepLinks, PTL DEF Spec

-----------------------------------------------------------------------------
(* Sessions after a reset.                                                 *)

\* The passwords a request carries, by operation.
LEMMA CarriedBy ==
  ASSUME NEW r \in Requests
  PROVE  /\ r.op \in {"save", "expiry", "blacklist"} => r.password \in Carried(r)
         /\ r.op \in {"lookup", "open"} => r.by \in Carried(r)
         /\ r.op = "save" /\ r.next.op \in {"lookup", "open"} => r.next.by \in Carried(r)
         /\ \A p \in Carried(r) :
              \/ r.op \in {"save", "expiry", "blacklist"} /\ p = r.password
              \/ r.op \in {"lookup", "open"} /\ p = r.by
              \/ r.op = "save" /\ r.next.op \in {"lookup", "open"} /\ p = r.next.by
<1>1. ASSUME NEW n \in Nexts
      PROVE  "by" \in DOMAIN n <=> n.op \in {"lookup", "open"}
  BY DEF Nexts, Idle
<1>2. CASE r \in Nexts
  <2>1. "password" \notin DOMAIN r /\ "next" \notin DOMAIN r
    BY <1>2 DEF Nexts, Idle
  <2> QED
    BY <1>1, <1>2, <2>1, NextTypes DEF Carried
<1>3. CASE r \in [op: {"save"}, user: Users, password: Passwords, next: Nexts]
  <2>1. /\ "password" \in DOMAIN r /\ "next" \in DOMAIN r /\ "by" \notin DOMAIN r
        /\ r.op = "save" /\ r.next \in Nexts
    BY <1>3
  <2> QED
    BY <1>1, <2>1 DEF Carried
<1>4. CASE r \in [op: {"expiry", "blacklist"}, user: Users, token: Jwts, password: Passwords]
  <2>1. /\ "password" \in DOMAIN r /\ "next" \notin DOMAIN r /\ "by" \notin DOMAIN r
        /\ r.op \in {"expiry", "blacklist"}
    BY <1>4
  <2> QED
    BY <2>1 DEF Carried
<1>5. CASE \/ r \in [op: {"load"}, user: Users, token: Jwts \cup {Nil}]
           \/ r \in [op: {"mail", "unset"}, link: Links]
           \/ r \in [op: {"consume"}, user: Users, link: Links]
           \/ r \in [op: {"destroy"}, user: Users, todo: SUBSET SessionIds]
           \/ r \in [op: {"rotate"}, session: SessionIds, old: Session]
  <2>1. /\ "password" \notin DOMAIN r /\ "next" \notin DOMAIN r /\ "by" \notin DOMAIN r
        /\ r.op \in {"load", "mail", "unset", "consume", "destroy", "rotate"}
    BY <1>5
  <2> QED
    BY <2>1 DEF Carried
<1> QED
  BY <1>2, <1>3, <1>4, <1>5 DEF Requests

\* What a request goes on to after its save concerns the account it saves.
NextsMatch ==
  \A h \in Handlers :
    request[h].op = "save" /\ request[h].next.op # "idle" => request[h].next.user = request[h].user

\* A password that has had its day is in no row and in the hands of no request.
Forgotten ==
  /\ \A u \in Users : row[u].password \notin barred[u]
  /\ \A h \in Handlers : \A p \in Carried(request[h]) : p \notin barred[request[h].user]

\* A session that lives is the one its refreshes have read: no login is given
\* an id that a request still knows.
RotationsMatch ==
  \A h \in Handlers :
    request[h].op = "rotate" =>
      /\ session[request[h].session] \in {NoSession, request[h].old}
      /\ \A g \in Handlers :
           request[g].op = "rotate" /\ request[g].session = request[h].session =>
             request[g].old = request[h].old

ResetInv == TypeOK /\ NextsMatch /\ Forgotten /\ RotationsMatch /\ ResetRevokes

LEMMA InitReset == Init => NextsMatch /\ Forgotten /\ RotationsMatch /\ ResetRevokes
<1> SUFFICES ASSUME Init
             PROVE  NextsMatch /\ Forgotten /\ RotationsMatch /\ ResetRevokes
  OBVIOUS
<1>1. NextsMatch /\ RotationsMatch /\ ResetRevokes
  BY DEF Init, NextsMatch, RotationsMatch, ResetRevokes, Idle
<1>2. Carried(Idle) = {}
  BY DEF Idle, Carried
<1> QED
  BY <1>1, <1>2 DEF Init, Forgotten

\* Request x, held after a step, has its passwords from the request before,
\* from the row it read or fresh from bcrypt, and its next step is for the
\* account it saves.
PassedOn(h, x) ==
  /\ x.op = "save" /\ x.next.op # "idle" => x.next.user = x.user
  /\ \A p \in Carried(x) :
       \/ p \in Carried(request[h]) /\ x.user = request[h].user
       \/ x.user \in Users /\ p = row[x.user].password
       \/ Hash(p)

LEMMA EmptyHanded ==
  ASSUME NEW h, NEW x \in Requests, x.op \notin {"save", "expiry", "blacklist", "lookup", "open"}
  PROVE  PassedOn(h, x)
  BY CarriedBy DEF PassedOn

LEMMA CopyingPasses ==
  ASSUME ResetInv, NEW h \in Handlers, Copying(h), request'[h] \in Requests
  PROVE  PassedOn(h, request'[h])
<1> DEFINE r == request[h]
<1>1. r \in Requests /\ \A x : request' = [request EXCEPT ![h] = x] => request'[h] = x
  BY DEF ResetInv, TypeOK
<1>2. ASSUME NEW u \in Users, Login(h, u)
      PROVE  PassedOn(h, request'[h])
  <2>1. PICK op \in {"lookup", "open"} :
          request'[h] = Saving(u, row[u].password, [op |-> op, user |-> u, by |-> row[u].password])
    BY <1>1, <1>2 DEF Login, Start
  <2>2. /\ request'[h].op = "save" /\ request'[h].user = u /\ request'[h].password = row[u].password
        /\ request'[h].next.user = u /\ request'[h].next.by = row[u].password
    BY <2>1 DEF Saving
  <2> QED
    BY <2>2, CarriedBy DEF PassedOn
<1>3. ASSUME NEW u \in Users, NEW p \in Passwords,
             \/ Update(h, u) /\ p = row[u].password
             \/ ChangePassword(h, u, p)
      PROVE  PassedOn(h, request'[h])
  <2>1. request'[h] = Saving(u, p, Idle) /\ (Hash(p) \/ p = row[u].password)
    BY <1>1, <1>3 DEF Update, ChangePassword, Start
  <2>2. /\ request'[h].op = "save" /\ request'[h].user = u /\ request'[h].password = p
        /\ request'[h].next.op = "idle"
    BY <2>1 DEF Saving, Idle
  <2> QED
    BY <2>1, <2>2, CarriedBy DEF PassedOn
<1>4. CASE Save(h)
  <2>1. request'[h] = r.next /\ r.op = "save" /\ r.next \in Nexts
    BY <1>1, <1>4, RequestTypes DEF Save, Continue
  <2>2. r.next.op \in {"lookup", "open"} => r.next.by \in Carried(r) /\ r.next.user = r.user
    BY <1>1, <2>1, CarriedBy DEF ResetInv, NextsMatch
  <2>3. r.next \in Requests /\ r.next.op \notin {"save", "expiry", "blacklist"}
    BY <2>1, NextTypes
  <2>4. \A p \in Carried(r.next) : r.next.op \in {"lookup", "open"} /\ p = r.next.by
    BY <2>3, CarriedBy
  <2> QED
    BY <2>1, <2>2, <2>3, <2>4 DEF PassedOn
<1>5. ASSUME NEW s \in SessionIds, OpenSession(h, s)
      PROVE  PassedOn(h, request'[h])
  <2>1. request'[h].op = "idle"
    BY <1>1, <1>5 DEF OpenSession, Finish, Idle
  <2> QED
    BY <2>1, EmptyHanded
<1>6. \A u \in Users : row[u].password \in Passwords
  BY DEF ResetInv, TypeOK, Row
<1> QED
  BY <1>2, <1>3, <1>4, <1>5, <1>6 DEF Copying

LEMMA JwtPasses ==
  ASSUME ResetInv, NEW h \in Handlers, ByJwt(h), request'[h] \in Requests
  PROVE  PassedOn(h, request'[h])
<1> DEFINE r == request[h]
<1>1. r \in Requests /\ \A x : request' = [request EXCEPT ![h] = x] => request'[h] = x
  BY DEF ResetInv, TypeOK
<1>2. ASSUME NEW p \in Passwords, Load(h, p)
      PROVE  PassedOn(h, request'[h])
  <2>1. Hash(p)
    BY <1>2 DEF Load
  <2>2. CASE r.token = Nil
    <3>1. request'[h] = Saving(r.user, p, [op |-> "list", user |-> r.user])
      BY <1>1, <1>2, <2>2 DEF Load, Continue
    <3>2. /\ request'[h].op = "save" /\ request'[h].user = r.user /\ request'[h].password = p
          /\ request'[h].next.op = "list" /\ request'[h].next.user = r.user
      BY <3>1 DEF Saving
    <3> QED
      BY <2>1, <3>2, CarriedBy DEF PassedOn
  <2>3. CASE r.token # Nil
    <3>1. request'[h] = [op |-> "expiry", user |-> r.user, token |-> r.token, password |-> p]
      BY <1>1, <1>2, <2>3 DEF Load, Continue
    <3>2. request'[h].op = "expiry" /\ request'[h].password = p
      BY <3>1
    <3> QED
      BY <2>1, <3>2, CarriedBy DEF PassedOn
  <2> QED
    BY <2>2, <2>3
<1>3. CASE CheckExpiry(h)
  <2>1. r \in [op: {"expiry", "blacklist"}, user: Users, token: Jwts, password: Passwords]
    BY <1>1, <1>3 DEF CheckExpiry, Requests, Nexts, Idle
  <2>2. \/ request'[h].op = "idle"
        \/ /\ request'[h].op = "blacklist" /\ request'[h].user = r.user
           /\ request'[h].password = r.password
    BY <1>1, <1>3, <2>1 DEF CheckExpiry, Continue, Finish, Idle
  <2>3. r.password \in Carried(r)
    BY <1>1, <2>1, CarriedBy
  <2> QED
    BY <2>2, <2>3, EmptyHanded, CarriedBy DEF PassedOn
<1>4. CASE StoreBlacklist(h)
  <2>1. \/ request'[h] = Idle
        \/ request'[h] = Saving(r.user, r.password, [op |-> "claim", user |-> r.user, token |-> r.token])
    BY <1>1, <1>4 DEF StoreBlacklist, Continue, Finish
  <2>2. \/ request'[h].op = "idle"
        \/ /\ request'[h].op = "save" /\ request'[h].user = r.user
           /\ request'[h].password = r.password
           /\ request'[h].next.op = "claim" /\ request'[h].next.user = r.user
    BY <2>1 DEF Saving, Idle
  <2>3. r.password \in Carried(r)
    BY <1>1, <1>4, CarriedBy DEF StoreBlacklist
  <2> QED
    BY <2>2, <2>3, EmptyHanded, CarriedBy DEF PassedOn
<1>5. ASSUME NEW t \in Jwts, ResetPassword(h, t)
      PROVE  PassedOn(h, request'[h])
  BY <1>1, <1>5, EmptyHanded DEF ResetPassword, Start
<1>6. CASE LoadFails(h) \/ Claim(h)
  BY <1>1, <1>6, EmptyHanded DEF LoadFails, Claim, Continue, Finish, Idle
<1> QED
  BY <1>2, <1>3, <1>4, <1>5, <1>6 DEF ByJwt

LEMMA LinkPasses ==
  ASSUME ResetInv, NEW h \in Handlers, Refreshing(h) \/ ByLink(h) \/ Revoking(h) \/ Abort(h),
         request'[h] \in Requests
  PROVE  PassedOn(h, request'[h])
<1> DEFINE r == request[h]
<1>1. r \in Requests /\ \A x : request' = [request EXCEPT ![h] = x] => request'[h] = x
  BY DEF ResetInv, TypeOK
<1>2. request'[h].op \in {"idle", "mail", "unset", "consume", "load", "destroy", "rotate"}
  <2>1. CASE SendPasswordResetFails(h)
    <3>1. r \in [op: {"mail", "unset"}, link: Links]
      BY <1>1, <2>1 DEF SendPasswordResetFails, Requests, Nexts, Idle
    <3> QED
      BY <1>1, <2>1, <3>1 DEF SendPasswordResetFails, Continue
  <2>2. ASSUME NEW s \in SessionIds, DestroySession(h, s)
        PROVE  request'[h].op = "destroy"
    <3>1. r \in [op: {"destroy"}, user: Users, todo: SUBSET SessionIds]
      BY <1>1, <2>2 DEF DestroySession, Requests, Nexts, Idle
    <3> QED
      BY <1>1, <2>2, <3>1 DEF DestroySession, Continue
  <2>3. CASE ByLink(h) /\ ~SendPasswordResetFails(h)
    BY <1>1, <2>3 DEF ByLink, RequestReset, SendPasswordReset, Unset, VerifyReset, DeleteToken,
       Start, Continue, Finish, Idle
  <2>4. CASE ListSessions(h) \/ Destroyed(h) \/ Abort(h)
    BY <1>1, <2>4 DEF ListSessions, Destroyed, Abort, Continue, Finish, Idle
  <2>5. CASE Refreshing(h)
    BY <1>1, <2>5 DEF Refreshing, ReadForRotate, RotateTokens, Start, Finish, Idle
  <2> QED
    BY <2>1, <2>2, <2>3, <2>4, <2>5 DEF Revoking
<1> QED
  BY <1>2, EmptyHanded

\* How a step of a handler may change what counts as having had its day.
LEMMA BarredSteps ==
  ASSUME ResetInv, NEW h \in Handlers, Serves(h)
  PROVE  \A u \in Users, p \in Passwords :
           p \in barred'[u] => p \in barred[u] \/ (ListSessions(h) /\ u = request[h].user /\ ~InUse(p))
<1>1. CASE ListSessions(h)
  BY <1>1 DEF ListSessions, ResetInv, TypeOK
<1>2. ASSUME NEW p \in Passwords, Hash(p)
      PROVE  \A u \in Users : barred'[u] \subseteq barred[u]
  BY <1>2 DEF Hash
<1>3. CASE barred' = barred
  BY <1>3
<1> QED
  BY <1>1, <1>2, <1>3
     DEF Serves, Copying, Refreshing, ReadForRotate, RotateTokens,
         ByJwt, ByLink, Revoking, Abort, Login, Update, ChangePassword, Save,
         OpenSession, ResetPassword, Load, LoadFails, CheckExpiry, StoreBlacklist, Claim, RequestReset,
         SendPasswordReset, SendPasswordResetFails, Unset, VerifyReset, DeleteToken, DestroySession,
         Destroyed

LEMMA CarriedTypes ==
  ASSUME NEW r \in Requests, NEW p \in Carried(r)
  PROVE  p \in Passwords /\ r.user \in Users
  BY CarriedBy, RequestTypes, NextTypes

LEMMA StaysForgotten ==
  ASSUME ResetInv, TypeOK', NEW h \in Handlers, Serves(h)
  PROVE  NextsMatch' /\ Forgotten'
<1> DEFINE x == request'[h]
<1>1. /\ request[h] \in Requests /\ x \in Requests
      /\ \A g \in Handlers \ {h} : request'[g] = request[g]
  BY ServesOne DEF ResetInv, TypeOK
<1>2. PassedOn(h, x)
  BY <1>1, CopyingPasses, JwtPasses, LinkPasses DEF Serves
<1>3. ASSUME NEW u \in Users, NEW p \in Passwords, p \in barred'[u]
      PROVE  /\ row[u].password # p
             /\ \A g \in Handlers : p \in Carried(request[g]) => request[g].user # u
             /\ ~Hash(p)
  <2>1. CASE p \in barred[u]
    <3>1. Hash(p) => p \notin barred'[u]
      BY DEF Hash
    <3> QED
      BY <1>3, <2>1, <3>1 DEF ResetInv, Forgotten
  <2>2. CASE ListSessions(h) /\ ~InUse(p)
    <3>1. Hash(p) => p \notin barred'[u]
      BY DEF Hash
    <3> QED
      BY <1>3, <2>2, <3>1 DEF InUse
  <2> QED
    BY <1>3, <2>1, <2>2, BarredSteps
<1>4. \A u \in Users : row'[u].password \notin barred'[u]
  <2>1. ASSUME NEW u \in Users
        PROVE  /\ row'[u].password \in Passwords
               /\ \/ row'[u].password = row[u].password
                  \/ row'[u].password \in Carried(request[h]) /\ request[h].user = u
    <3>1. row'[u] \in Row
      BY DEF TypeOK
    <3>2. CASE Save(h)
      <4>1. request[h].password \in Carried(request[h])
        BY <1>1, <3>2, CarriedBy DEF Save
      <4> QED
        BY <3>1, <3>2, <4>1 DEF Save, ResetInv, TypeOK, Row
    <3> QED
      BY <3>1, <3>2, ServesOne DEF ResetInv, Row
  <2> QED
    BY <1>3, <2>1
<1>5. ASSUME NEW g \in Handlers, NEW p \in Carried(request'[g])
      PROVE  p \notin barred'[request'[g].user]
  <2>1. p \in Passwords /\ request'[g].user \in Users
    BY <1>5, CarriedTypes DEF TypeOK
  <2>2. CASE g = h
    BY <1>2, <1>3, <1>5, <2>1, <2>2 DEF PassedOn
  <2>3. CASE g # h
    BY <1>1, <1>3, <1>5, <2>1, <2>3
  <2> QED
    BY <2>2, <2>3
<1>6. NextsMatch'
  BY <1>1, <1>2 DEF PassedOn, ResetInv, NextsMatch
<1>7. Forgotten'
  BY <1>4, <1>5 DEF Forgotten
<1> QED
  BY <1>6, <1>7

\* No step lets a rotation and the session it is for drift apart.
LEMMA StaysMatched ==
  ASSUME ResetInv, NEW h \in Handlers, Serves(h)
  PROVE  RotationsMatch'
<1> DEFINE r == request[h]
<1>1. /\ r \in Requests /\ \A x : request' = [request EXCEPT ![h] = x] => request'[h] = x
      /\ \A g \in Handlers \ {h} : request'[g] = request[g]
  BY ServesOne DEF ResetInv, TypeOK
<1>2. ASSUME NEW s \in SessionIds, ReadForRotate(h, s)
      PROVE  RotationsMatch'
  <2>1. /\ session' = session /\ session[s] # NoSession
        /\ request'[h] = [op |-> "rotate", session |-> s, old |-> session[s]]
    BY <1>1, <1>2 DEF ReadForRotate, Start
  <2>2. /\ request'[h].op = "rotate" /\ request'[h].session = s /\ request'[h].old = session[s]
    BY <2>1
  <2> QED
    BY <1>1, <2>1, <2>2 DEF ResetInv, RotationsMatch
<1>3. ASSUME request'[h].op # "rotate",
             \A g \in Handlers \ {h} : request[g].op = "rotate" =>
               LET s == request[g].session
               IN  session'[s] \in {NoSession, session[s], request[g].old}
      PROVE  RotationsMatch'
  BY <1>1, <1>3 DEF ResetInv, RotationsMatch
<1>4. CASE RotateTokens(h)
  <2>1. request'[h] = Idle /\ session' = [session EXCEPT ![r.session] = r.old] /\ r.op = "rotate"
    BY <1>1, <1>4 DEF RotateTokens, Finish
  <2>2. ASSUME NEW g \in Handlers \ {h}, request[g].op = "rotate"
        PROVE  session'[request[g].session] \in {session[request[g].session], request[g].old}
    BY <2>1, <2>2, RequestTypes DEF ResetInv, RotationsMatch, TypeOK
  <2> QED
    BY <1>3, <2>1, <2>2 DEF Idle
<1>5. ASSUME NEW s \in SessionIds, OpenSession(h, s)
      PROVE  RotationsMatch'
  <2>1. /\ request'[h] = Idle /\ Unused(s)
        /\ \A t \in SessionIds \ {s} : session'[t] = session[t]
    BY <1>1, <1>5 DEF OpenSession, Finish, ResetInv, TypeOK
  <2>2. ASSUME NEW g \in Handlers \ {h}, request[g].op = "rotate"
        PROVE  session'[request[g].session] = session[request[g].session]
    BY <2>1, <2>2, RequestTypes DEF Unused, ResetInv, TypeOK
  <2> QED
    BY <1>3, <2>1, <2>2 DEF Idle
<1>6. ASSUME NEW s \in SessionIds, DestroySession(h, s)
      PROVE  RotationsMatch'
  <2>1. r \in [op: {"destroy"}, user: Users, todo: SUBSET SessionIds]
    BY <1>1, <1>6 DEF DestroySession, Requests, Nexts, Idle
  <2>2. request'[h].op = "destroy"
    BY <1>1, <1>6, <2>1 DEF DestroySession, Continue
  <2>3. \A t \in SessionIds : session'[t] \in {NoSession, session[t]}
    BY <1>6 DEF DestroySession, ResetInv, TypeOK
  <2>4. \A g \in Handlers : request[g].op = "rotate" => request[g].session \in SessionIds
    BY RequestTypes DEF ResetInv, TypeOK
  <2> QED
    BY <1>3, <2>2, <2>3, <2>4
<1>7. CASE session' = session /\ request'[h].op # "rotate"
  BY <1>3, <1>7
<1>8. CASE Copying(h) /\ \A s \in SessionIds : ~OpenSession(h, s)
  <2>1. CASE Save(h)
    BY <1>1, <1>7, <2>1, RequestTypes, NextTypes DEF Save, Continue
  <2> QED
    BY <1>1, <1>7, <1>8, <2>1 DEF Copying, Login, Update, ChangePassword, Start, Saving
<1>9. CASE ByJwt(h)
  <2>1. CASE CheckExpiry(h)
    <3>1. r \in [op: {"expiry", "blacklist"}, user: Users, token: Jwts, password: Passwords]
      BY <1>1, <2>1 DEF CheckExpiry, Requests, Nexts, Idle
    <3> QED
      BY <1>1, <1>7, <2>1, <3>1 DEF CheckExpiry, Continue, Finish, Idle
  <2> QED
    BY <1>1, <1>7, <1>9, <2>1 DEF ByJwt, ResetPassword, Load, LoadFails, StoreBlacklist, Claim,
       Start, Continue, Finish, Saving, Idle
<1>10. CASE ByLink(h)
  <2>1. CASE SendPasswordResetFails(h)
    <3>1. r \in [op: {"mail", "unset"}, link: Links]
      BY <1>1, <2>1 DEF SendPasswordResetFails, Requests, Nexts, Idle
    <3> QED
      BY <1>1, <1>7, <2>1, <3>1 DEF SendPasswordResetFails, Continue
  <2> QED
    BY <1>1, <1>7, <1>10, <2>1 DEF ByLink, RequestReset, SendPasswordReset, Unset, VerifyReset,
       DeleteToken, Start, Continue, Finish, Idle
<1>11. CASE ListSessions(h) \/ Destroyed(h) \/ Abort(h)
  BY <1>1, <1>7, <1>11 DEF ListSessions, Destroyed, Abort, Continue, Finish, Idle
<1> QED
  BY <1>2, <1>4, <1>5, <1>6, <1>8, <1>9, <1>10, <1>11 DEF Serves, Refreshing, Revoking

\* Closed or about to be, or known to be left.
Doomed(s) == s \in unrevoked \cup strays \/ BeingDestroyed(s)

\* A session that counts as doomed does so until it is gone.
LEMMA DoomedStays ==
  ASSUME ResetInv, NEW h \in Handlers, Serves(h), NEW s \in SessionIds, Doomed(s),
         session'[s] = session[s], session[s] # NoSession
  PROVE  Doomed(s)'
<1> DEFINE r == request[h]
<1>1. /\ r \in Requests /\ \A x : request' = [request EXCEPT ![h] = x] => request'[h] = x
      /\ \A g \in Handlers \ {h} : request'[g] = request[g]
  BY ServesOne DEF ResetInv, TypeOK
<1>2. ASSUME NEW t \in SessionIds, DestroySession(h, t)
      PROVE  Doomed(s)'
  <2>1. r \in [op: {"destroy"}, user: Users, todo: SUBSET SessionIds]
    BY <1>1, <1>2 DEF DestroySession, Requests, Nexts, Idle
  <2>6. request'[h] = [r EXCEPT !.todo = r.todo \ {t}]
    BY <1>1, <1>2 DEF DestroySession, Continue
  <2> HIDE DEF r
  <2>2. request'[h].op = "destroy" /\ request'[h].todo = r.todo \ {t}
    BY <2>1, <2>6
  <2> USE DEF r
  <2>3. s = t => s \in unrevoked' \cup strays'
    BY <1>2 DEF DestroySession, ResetInv, TypeOK
  <2>4. s # t /\ s \in unrevoked \cup strays => s \in unrevoked' \cup strays'
    BY <1>2 DEF DestroySession
  <2>5. s # t /\ BeingDestroyed(s) => BeingDestroyed(s)'
    BY <1>1, <2>2 DEF BeingDestroyed
  <2> QED
    BY <2>3, <2>4, <2>5 DEF Doomed
<1>3. CASE Abort(h)
  <2>1. /\ s \in unrevoked \cup strays => s \in unrevoked' \cup strays'
        /\ r.op = "destroy" /\ s \in r.todo => s \in unrevoked' \cup strays'
    BY <1>3 DEF Abort
  <2> QED
    BY <1>1, <2>1 DEF Doomed, BeingDestroyed
<1>4. CASE Destroyed(h)
  BY <1>1, <1>4 DEF Destroyed, Doomed, BeingDestroyed
<1>5. CASE unrevoked' = unrevoked /\ (s \in strays => s \in strays') /\ r.op # "destroy"
  BY <1>1, <1>5 DEF Doomed, BeingDestroyed
<1>6. ASSUME Copying(h)
      PROVE  unrevoked' = unrevoked /\ strays' = strays /\ r.op # "destroy"
  <2>1. ASSUME Save(h)
        PROVE  unrevoked' = unrevoked /\ strays' = strays /\ r.op # "destroy"
    BY <2>1 DEF Save
  <2>2. ASSUME NEW u \in Users, \/ Login(h, u) \/ Update(h, u)
                               \/ \E p \in Passwords : ChangePassword(h, u, p)
        PROVE  unrevoked' = unrevoked /\ strays' = strays /\ r = Idle
    BY <2>2, ZenonT(60) DEF Login, Update, ChangePassword, Start
  <2>3. ASSUME NEW t \in SessionIds, OpenSession(h, t)
        PROVE  unrevoked' = unrevoked /\ strays' = strays /\ r.op # "destroy"
    BY <2>3 DEF OpenSession
  <2> QED
    BY <1>6, <2>1, <2>2, <2>3 DEF Copying, Idle
<1>7. ASSUME ByJwt(h)
      PROVE  unrevoked' = unrevoked /\ strays' = strays /\ r.op # "destroy"
  <2>1. ASSUME NEW t \in Jwts, ResetPassword(h, t)
        PROVE  unrevoked' = unrevoked /\ strays' = strays /\ r = Idle
    BY <2>1, ZenonT(60) DEF ResetPassword, Start
  <2>2. ASSUME NEW p \in Passwords, Load(h, p)
        PROVE  unrevoked' = unrevoked /\ strays' = strays /\ r.op # "destroy"
    BY <2>2 DEF Load
  <2>3. LoadFails(h) \/ CheckExpiry(h) \/ StoreBlacklist(h) \/ Claim(h)
        => unrevoked' = unrevoked /\ strays' = strays /\ r.op # "destroy"
    BY DEF LoadFails, CheckExpiry, StoreBlacklist, Claim
  <2> QED
    BY <1>7, <2>1, <2>2, <2>3 DEF ByJwt, Idle
<1>8. ASSUME ByLink(h)
      PROVE  unrevoked' = unrevoked /\ strays' = strays /\ r.op # "destroy"
  BY <1>8 DEF ByLink, RequestReset, SendPasswordReset, SendPasswordResetFails, Unset, VerifyReset,
              DeleteToken, Start, Idle
<1>9. ASSUME ListSessions(h)
      PROVE  unrevoked' = unrevoked /\ strays' = strays /\ r.op # "destroy"
  BY <1>9 DEF ListSessions
<1>10. ASSUME Refreshing(h)
       PROVE  unrevoked' = unrevoked /\ (s \in strays => s \in strays') /\ r.op # "destroy"
  <2>1. ASSUME NEW t \in SessionIds, ReadForRotate(h, t)
        PROVE  unrevoked' = unrevoked /\ strays' = strays /\ r = Idle
    BY <2>1, ZenonT(60) DEF ReadForRotate, Start
  <2>2. RotateTokens(h) => unrevoked' = unrevoked /\ (s \in strays => s \in strays') /\ r.op # "destroy"
    BY DEF RotateTokens
  <2> QED
    BY <1>10, <2>1, <2>2 DEF Refreshing, Idle
<1>11. CASE Copying(h) \/ ByJwt(h) \/ ByLink(h) \/ ListSessions(h)
  <2>1. unrevoked' = unrevoked /\ strays' = strays /\ r.op # "destroy"
    BY <1>6, <1>7, <1>8, <1>9, <1>11
  <2> QED
    BY <1>5, <2>1
<1>12. CASE Refreshing(h)
  <2>1. unrevoked' = unrevoked /\ (s \in strays => s \in strays') /\ r.op # "destroy"
    BY <1>10, <1>12
  <2> QED
    BY <1>5, <2>1
<1> QED
  BY <1>2, <1>3, <1>4, <1>11, <1>12 DEF Serves, Revoking

LEMMA StaysRevoked ==
  ASSUME ResetInv, TypeOK', Forgotten', NEW h \in Handlers, Serves(h)
  PROVE  ResetRevokes'
<1> DEFINE r == request[h]
<1>1. r \in Requests /\ \A x : request' = [request EXCEPT ![h] = x] => request'[h] = x
  BY ServesOne DEF ResetInv, TypeOK
<1>2. ASSUME NEW s \in SessionIds, session'[s] # NoSession,
             session'[s].by \in barred'[session'[s].user]
      PROVE  Doomed(s)'
  <2>1. session'[s] \in Session /\ session'[s].by \in Passwords /\ session'[s].user \in Users
    BY <1>2 DEF TypeOK, Session
  <2>2. ASSUME OpenSession(h, s)
        PROVE  FALSE
    <3>1. session'[s] = [user |-> r.user, by |-> r.by] /\ barred' = barred
      BY <2>2 DEF OpenSession, ResetInv, TypeOK
    <3>2. session'[s].user = r.user /\ session'[s].by = r.by
      BY <3>1
    <3>3. r.by \in Carried(r)
      BY <1>1, <2>2, CarriedBy DEF OpenSession
    <3> QED
      BY <1>2, <3>1, <3>2, <3>3 DEF ResetInv, Forgotten
  <2>3. CASE RotateTokens(h) /\ session[s] # session'[s]
    <3>1. /\ r.session = s /\ session[s] = NoSession
          /\ strays' = IF session[r.session] = NoSession THEN strays \cup {r.session} ELSE strays
      BY <2>3 DEF RotateTokens, ResetInv, RotationsMatch, TypeOK
    <3> QED
      BY <3>1 DEF Doomed
  <2>4. ASSUME ~RotateTokens(h)
        PROVE  session'[s] = session[s]
    <3>1. session' = session \/ (\E t \in SessionIds : OpenSession(h, t) \/ DestroySession(h, t))
      BY <2>4 DEF Serves, Copying, Refreshing, ReadForRotate, ByJwt, ByLink, Revoking, Abort, Login,
         Update, ChangePassword, Save, ResetPassword, Load, LoadFails, CheckExpiry, StoreBlacklist,
         Claim, RequestReset, SendPasswordReset, SendPasswordResetFails, Unset, VerifyReset,
         DeleteToken, ListSessions, Destroyed
    <3>2. ASSUME NEW t \in SessionIds, OpenSession(h, t)
          PROVE  session'[s] = session[s]
      BY <2>2, <3>2 DEF OpenSession, ResetInv, TypeOK
    <3>3. ASSUME NEW t \in SessionIds, DestroySession(h, t)
          PROVE  session'[s] = session[s]
      BY <1>2, <3>3 DEF DestroySession, ResetInv, TypeOK
    <3> QED
      BY <3>1, <3>2, <3>3
  <2>5. CASE session'[s] = session[s] /\ session[s].by \in barred[session[s].user]
    <3>1. Doomed(s)
      BY <1>2, <2>5 DEF ResetInv, ResetRevokes, Doomed
    <3> QED
      BY <1>2, <2>5, <3>1, DoomedStays
  <2>6. CASE ListSessions(h) /\ session'[s] = session[s] /\ session[s].user = r.user
    <3>1. PICK lost \in SUBSET ({t \in SessionIds : session[t].user = r.user} \cap strays) :
            request'[h] = [op |-> "destroy", user |-> r.user,
                           todo |-> {t \in SessionIds : session[t].user = r.user} \ lost]
      BY <1>1, <2>6 DEF ListSessions, Continue
    <3>2. /\ request'[h].op = "destroy" /\ strays' = strays
          /\ s \in request'[h].todo \/ s \in strays
      BY <2>6, <3>1 DEF ListSessions
    <3> QED
      BY <3>2 DEF Doomed, BeingDestroyed
  <2> QED
    BY <1>2, <2>1, <2>3, <2>4, <2>5, <2>6, BarredSteps
<1>3. \A u \in Users : row'[u].password \notin barred'[u]
  BY DEF Forgotten
<1> QED
  BY <1>2, <1>3 DEF ResetRevokes, Doomed

LEMMA StepReset ==
  ASSUME ResetInv, [Next]_vars
  PROVE  ResetInv'
<1>1. TypeOK'
  BY StepTypes DEF ResetInv
<1>2. ASSUME NEW h \in Handlers, Serves(h)
      PROVE  ResetInv'
  BY <1>1, <1>2, StaysForgotten, StaysMatched, StaysRevoked DEF ResetInv
<1>3. CASE UNCHANGED <<row, session, request, barred, unrevoked, strays>>
  BY <1>1, <1>3 DEF ResetInv, NextsMatch, Forgotten, RotationsMatch, ResetRevokes, BeingDestroyed
<1>4. ASSUME NEW u \in Users, Delete(u)
      PROVE  ResetInv'
  <2>1. UNCHANGED <<session, request, barred, unrevoked, strays>>
    BY <1>4 DEF Delete
  <2>2. \A v \in Users : row'[v].password = row[v].password
    BY <1>4 DEF Delete, ResetInv, TypeOK, Row
  <2> QED
    BY <1>1, <2>1, <2>2 DEF ResetInv, NextsMatch, Forgotten, RotationsMatch, ResetRevokes, BeingDestroyed
<1>5. ASSUME NEW s \in SessionIds, EndSession(s)
      PROVE  ResetInv'
  <2>1. /\ UNCHANGED <<row, request, barred>>
        /\ unrevoked' = unrevoked \ {s} /\ strays' = strays \ {s}
        /\ session'[s] = NoSession /\ \A t \in SessionIds \ {s} : session'[t] = session[t]
    BY <1>5 DEF EndSession, ResetInv, TypeOK
  <2>2. NextsMatch' /\ Forgotten'
    BY <2>1 DEF ResetInv, NextsMatch, Forgotten
  <2>3. RotationsMatch'
    <3>1. \A h \in Handlers : request[h].op = "rotate" => request[h].session \in SessionIds
      BY RequestTypes DEF ResetInv, TypeOK
    <3> QED
      BY <2>1, <3>1 DEF ResetInv, RotationsMatch
  <2>4. ResetRevokes'
    BY <2>1 DEF ResetInv, ResetRevokes, BeingDestroyed
  <2> QED
    BY <1>1, <2>2, <2>3, <2>4 DEF ResetInv
<1>6. ASSUME NEW s \in SessionIds, LoseSession(s)
      PROVE  ResetInv'
  <2>1. /\ UNCHANGED <<row, session, request, barred>>
        /\ unrevoked' \cup strays' = unrevoked \cup strays \cup {s}
    BY <1>6 DEF LoseSession
  <2>2. NextsMatch' /\ Forgotten' /\ RotationsMatch'
    BY <2>1 DEF ResetInv, NextsMatch, Forgotten, RotationsMatch
  <2>3. ResetRevokes'
    BY <2>1 DEF ResetInv, ResetRevokes, BeingDestroyed
  <2> QED
    BY <1>1, <2>2, <2>3 DEF ResetInv
<1> QED
  BY <1>2, <1>3, <1>4, <1>5, <1>6 DEF Next, Serves, ForgotPassword, Expire, ExpireLink, vars

\* When a reset goes through the sessions, a password that is neither in the row
\* nor in the hands of a request never comes back, and the sessions it opened
\* are closed or about to be, except those whose deletion failed (user.go:1503)
\* and strays, which a refresh wrote back or a listing failed to read
\* (session_repo.go:202, :93).
THEOREM ResetsRevoke == Spec => []ResetRevokes
<1>1. Init => ResetInv
  BY InitTypes, InitReset DEF ResetInv
<1>2. ResetInv => ResetRevokes
  BY DEF ResetInv
<1> QED
  BY <1>1, <1>2, StepReset, PTL DEF Spec

=============================================================================
