-------------------------- MODULE RegistrationProofs --------------------------
(***************************************************************************)
(* TLAPS proofs about Registration, for any sets of addresses, phones,     *)
(* ids, codes and handlers and any limits.                                 *)
(***************************************************************************)
EXTENDS Registration, FiniteSetTheorems, TLAPS

-----------------------------------------------------------------------------
(* Types.                                                                  *)

Coded == [op: {"set", "reset", "cool", "mail"}, email: Emails, code: Codes]
Cleanings ==
  [op: {"clear"}, email: Emails, code: Codes \cup {Nil}, todo: SUBSET Keys,
   next: {Idle} \cup Accounts]

\* What a handler holds, by operation.
LEMMA RequestTypes ==
  ASSUME NEW r \in Requests
  PROVE  /\ r.op \in {"check", "store"} => r \in Accounts
         /\ r.op = "config" => /\ r.update \in ConfigUpdates /\ r.row \in ConfigRow
         /\ r.op \in {"cooldown", "count"} => r.email \in Emails
         /\ r.op \in {"set", "reset", "cool", "mail"} => r \in Coded
         /\ r.op = "verify" => r.who \in People /\ r.guess \in Codes \cup {Nil}
         /\ r.op = "attempt" => r.who \in People /\ r.guess \in Codes \cup {Nil} /\ r.code \in Codes
         /\ r.op = "clear" => r \in Cleanings
  BY DEF Requests, Idle, Coded, Cleanings, Accounts

LEMMA Written ==
  ASSUME TypeOK, NEW h \in Handlers, NEW x, request' = [request EXCEPT ![h] = x]
  PROVE  /\ request'[h] = x /\ \A g \in Handlers \ {h} : request'[g] = request[g]
         /\ x \in Requests => request' \in [Handlers -> Requests]
  BY DEF TypeOK

LEMMA Made ==
  /\ Idle \in Requests /\ Accounts \subseteq Requests
  /\ \A e \in Emails : [op |-> "cooldown", email |-> e] \in Requests
                       /\ [op |-> "count", email |-> e] \in Requests
  /\ \A e \in Emails, c \in Codes \cup {Nil}, keys \in SUBSET Keys, next \in {Idle} \cup Accounts :
       Clearing(e, c, keys, next) \in Cleanings /\ Clearing(e, c, keys, next) \in Requests
  /\ \A who \in People : Checking(who) \in Accounts /\ who.email \in Emails
  BY DEF Requests, Accounts, Clearing, Cleanings, Checking, People

LEMMA UpTypes == \A n, top \in Nat : Up(n, top) \in Nat /\ (n <= top => n <= Up(n, top) /\ Up(n, top) <= top)
  BY DEF Up

LEMMA StoreTypes ==
  ASSUME TypeOK, NEW e \in Emails, NEW c \in Codes \cup {Nil}, Store(e, c)
  PROVE  /\ code' \in [Emails -> Codes \cup {Nil}] /\ wrong' \in [Emails -> Nat]
         /\ mailed' \subseteq Emails /\ dropped' \subseteq Emails /\ spent' \subseteq Emails
         /\ orphans' \subseteq Emails /\ older' \subseteq Emails
  BY DEF Store, TypeOK

LEMMA AttemptsGoneTypes ==
  ASSUME TypeOK, NEW e \in Emails, AttemptsGone(e)
  PROVE  /\ attempts' \in [Emails -> Nat] /\ wrong' \in [Emails -> Nat]
         /\ older' \subseteq Emails /\ dropped' \subseteq Emails
  BY DEF AttemptsGone, TypeOK

LEMMA CooldownGoneTypes ==
  ASSUME TypeOK, NEW e \in Emails, CooldownGone(e)
  PROVE  cooling' \subseteq Emails /\ burst' \in [Emails -> Nat]
  BY DEF CooldownGone, TypeOK

LEMMA AbandonedTypes ==
  ASSUME TypeOK, NEW r \in Requests
  PROVE  Abandoned(r) \subseteq Emails
<1>1. r.op \in {"reset", "cool", "mail", "clear"} => r.email \in Emails
  BY RequestTypes DEF Coded, Cleanings
<1> QED
  BY <1>1 DEF Abandoned, TypeOK

\* A clean-up that goes on to its next key.
LEMMA CleaningTypes ==
  ASSUME TypeOK, NEW h \in Handlers, NEW k, Cleaning(h, k)
  PROVE  /\ request[h] \in Cleanings /\ request[h].op = "clear" /\ request[h].email \in Emails
         /\ request' \in [Handlers -> Requests]
         /\ \A g \in Handlers \ {h} : request'[g] = request[g]
         /\ request'[h].op = "clear" /\ request'[h].email = request[h].email
         /\ request'[h].code = request[h].code /\ request'[h].next = request[h].next
         /\ request'[h].todo = request[h].todo \ {k}
<1> DEFINE r == request[h]
<1>1. r \in Cleanings
  BY RequestTypes DEF Cleaning, TypeOK
<1>2. request' = [request EXCEPT ![h] = [r EXCEPT !.todo = r.todo \ {k}]]
  BY DEF Cleaning, Continue
<1> DEFINE x == [r EXCEPT !.todo = r.todo \ {k}]
<1>3. x \in Cleanings /\ x.email = r.email /\ x.code = r.code /\ x.next = r.next
      /\ x.todo = r.todo \ {k}
  BY <1>1 DEF Cleanings
<1>4. x \in Requests /\ x.op = "clear" /\ r.email \in Emails /\ r.op = "clear"
  BY <1>1, <1>3 DEF Requests, Cleanings
<1>5. request' = [request EXCEPT ![h] = x]
  BY <1>2
<1> HIDE DEF x
<1>6. /\ request'[h] = x /\ request' \in [Handlers -> Requests]
      /\ \A g \in Handlers \ {h} : request'[g] = request[g]
  BY <1>4, <1>5, Written
<1> QED
  BY <1>1, <1>3, <1>4, <1>6

LEMMA ClearTypes ==
  ASSUME TypeOK, NEW h \in Handlers, ClearSteps(h) \/ Cleared(h)
  PROVE  TypeOK'
<1> DEFINE r == request[h]
<1>1. CASE ClearCode(h)
  <2>1. Cleaning(h, "code") /\ Store(r.email, Nil)
    BY <1>1 DEF ClearCode
  <2> QED
    BY <1>1, <2>1, CleaningTypes, StoreTypes DEF ClearCode, database, TypeOK
<1>2. CASE ClearAttempts(h)
  <2>1. Cleaning(h, "attempts") /\ AttemptsGone(r.email)
    BY <1>2 DEF ClearAttempts
  <2> QED
    BY <1>2, <2>1, CleaningTypes, AttemptsGoneTypes DEF ClearAttempts, database, TypeOK
<1>3. CASE ClearCooldown(h)
  <2>1. Cleaning(h, "cooldown") /\ CooldownGone(r.email)
    BY <1>3 DEF ClearCooldown
  <2> QED
    BY <1>3, <2>1, CleaningTypes, CooldownGoneTypes DEF ClearCooldown, database, ofCode, TypeOK
<1>4. CASE ClearSendCount(h)
  <2>1. Cleaning(h, "sent") /\ sent' = [sent EXCEPT ![r.email] = 0]
    BY <1>4 DEF ClearSendCount
  <2> QED
    BY <1>4, <2>1, CleaningTypes DEF ClearSendCount, database, history, ofCode, TypeOK
<1>5. ASSUME NEW k \in Keys, ClearKeyFails(h, k)
      PROVE  TypeOK'
  <2>1. Cleaning(h, k) /\ orphans' \subseteq Emails
    BY <1>5, AbandonedTypes DEF ClearKeyFails, TypeOK
  <2> QED
    BY <1>5, <2>1, CleaningTypes DEF ClearKeyFails, redis, database, TypeOK
<1>6. CASE Cleared(h)
  <2>1. r \in Cleanings
    BY <1>6, RequestTypes DEF Cleared, TypeOK
  <2>2. r.next \in Requests /\ r.email \in Emails
    BY <2>1, Made DEF Cleanings
  <2>3. request' \in [Handlers -> Requests]
    BY <1>6, <2>2, Written DEF Cleared, Continue
  <2>4. spent' \subseteq Emails
    BY <1>6, <2>2 DEF Cleared, TypeOK
  <2> QED
    BY <1>6, <2>3, <2>4 DEF Cleared, redis, database, TypeOK
<1> QED
  BY <1>1, <1>2, <1>3, <1>4, <1>5, <1>6 DEF ClearSteps

LEMMA StartTypes ==
  ASSUME TypeOK, NEW h \in Handlers, Starts(h)
  PROVE  TypeOK'
<1>1. ASSUME NEW x \in Requests, request' = [request EXCEPT ![h] = x],
             UNCHANGED <<redis, database, history>>
      PROVE  TypeOK'
  <2>1. request' \in [Handlers -> Requests]
    BY <1>1, Written
  <2> QED
    BY <1>1, <2>1 DEF redis, database, history, ofCode, TypeOK
<1>2. ASSUME NEW who \in People, SendRegisterOTP(h, who)
      PROVE  TypeOK'
  BY <1>1, <1>2, Made DEF SendRegisterOTP, Start
<1>3. ASSUME NEW who \in People, NEW guess \in Codes \cup {Nil}, Register(h, who, guess)
      PROVE  TypeOK'
  <2>1. [op |-> "verify", who |-> who, guess |-> guess] \in Requests /\ Checking(who) \in Requests
    BY Made DEF Requests
  <2>2. \E x \in Requests : request' = [request EXCEPT ![h] = x]
    <3>1. CASE Enabled("otp")
      BY <1>3, <2>1, <3>1 DEF Register, Start
    <3>2. CASE ~Enabled("otp")
      BY <1>3, <2>1, <3>2 DEF Register, Start
    <3> QED
      BY <3>1, <3>2
  <2> QED
    BY <1>1, <1>3, <2>2 DEF Register
<1>4. ASSUME NEW e \in Emails, GoogleRegistration(h, e)
      PROVE  TypeOK'
  <2>1. [op |-> "store", who |-> [email |-> e, phone |-> Nil]] \in Requests
    BY DEF Requests, Accounts, People
  <2> QED
    BY <1>1, <1>4, <2>1 DEF GoogleRegistration, Start
<1>5. ASSUME NEW who \in People, AdminCreateUser(h, who)
      PROVE  TypeOK'
  BY <1>1, <1>5, Made DEF AdminCreateUser, Start
<1>6. ASSUME NEW update \in ConfigUpdates, ReadConfig(h, update)
      PROVE  TypeOK'
  <2>1. config[update.key] \in ConfigRow
    BY DEF TypeOK, ConfigUpdates
  <2>2. [op |-> "config", update |-> update, row |-> config[update.key]] \in Requests
    BY <2>1 DEF Requests
  <2> QED
    BY <1>1, <1>6, <2>2 DEF ReadConfig, Start
<1>7. Applicants \subseteq People /\ Staff \subseteq People /\ Settings \subseteq ConfigUpdates
  BY RegistrationAssumption
<1> QED
  BY <1>2, <1>3, <1>4, <1>5, <1>6, <1>7, Made DEF Starts

LEMMA SendTypes ==
  ASSUME TypeOK, NEW h \in Handlers, SendSteps(h)
  PROVE  TypeOK'
<1> DEFINE r == request[h]
<1>1. r \in Requests
  BY DEF TypeOK
<1>2. CASE CheckCooldown(h)
  <2>1. r.email \in Emails
    BY <1>1, <1>2, RequestTypes DEF CheckCooldown
  <2>3. [op |-> "count", email |-> r.email] \in Requests /\ Idle \in Requests
    BY <2>1, Made
  <2>4. \/ request' = [request EXCEPT ![h] = Idle]
        \/ request' = [request EXCEPT ![h] = [op |-> "count", email |-> r.email]]
    BY <1>2 DEF CheckCooldown, Continue, Finish
  <2>2. request' \in [Handlers -> Requests]
    BY <2>3, <2>4, Written
  <2> QED
    BY <1>2, <2>2 DEF CheckCooldown, redis, database, history, ofCode, TypeOK
<1>3. ASSUME NEW c \in Codes, CountSend(h, c)
      PROVE  TypeOK'
  <2>1. r.email \in Emails
    BY <1>1, <1>3, RequestTypes DEF CountSend
  <2>2. [op |-> "set", email |-> r.email, code |-> c] \in Requests
    BY <2>1 DEF Requests
  <2>3. request' \in [Handlers -> Requests]
    BY <1>3, <2>2, Made, Written DEF CountSend, Continue, Finish
  <2>4. RateLimit + 1 \in Nat
    BY RegistrationAssumption
  <2>5. sent' \in [Emails -> Nat]
    BY <1>3, <2>4, UpTypes DEF CountSend, TypeOK
  <2> QED
    BY <1>3, <2>3, <2>5 DEF CountSend, database, history, ofCode, TypeOK
<1>4. CASE SetOTP(h) \/ ResetAttempts(h) \/ SetCooldown(h)
  <2>1. r \in Coded
    BY <1>1, <1>4, RequestTypes DEF SetOTP, ResetAttempts, SetCooldown
  <2>2. \A op \in {"reset", "cool", "mail"} : [r EXCEPT !.op = op] \in Requests
    BY <2>1 DEF Coded, Requests
  <2>3. request' \in [Handlers -> Requests]
    BY <1>4, <2>2, Written DEF SetOTP, ResetAttempts, SetCooldown, Continue
  <2>4. r.email \in Emails /\ r.code \in Codes \cup {Nil}
    BY <2>1 DEF Coded
  <2>5. CASE SetOTP(h)
    BY <2>3, <2>4, <2>5, StoreTypes DEF SetOTP, database, TypeOK
  <2>6. CASE ResetAttempts(h)
    BY <2>3, <2>4, <2>6, AttemptsGoneTypes DEF ResetAttempts, database, TypeOK
  <2>7. CASE SetCooldown(h)
    BY <2>3, <2>4, <2>7 DEF SetCooldown, database, history, ofCode, TypeOK
  <2> QED
    BY <1>4, <2>5, <2>6, <2>7
<1>5. CASE SetOTPFails(h) \/ SetCooldownFails(h)
  <2>1. r \in Coded
    BY <1>1, <1>5, RequestTypes DEF SetOTPFails, SetCooldownFails
  <2>2. /\ Clearing(r.email, Nil, {"sent"}, Idle) \in Requests
        /\ Clearing(r.email, r.code, {"code", "attempts", "sent"}, Idle) \in Requests
    BY <2>1, Made DEF Coded, Keys
  <2>3. request' \in [Handlers -> Requests]
    BY <1>5, <2>2, Written DEF SetOTPFails, SetCooldownFails, Continue
  <2> QED
    BY <1>5, <2>3 DEF SetOTPFails, SetCooldownFails, redis, database, history, ofCode, TypeOK
<1>6. CASE SendOTP(h) \/ SendOTPFails(h)
  <2>1. r \in Coded
    BY <1>1, <1>6, RequestTypes DEF SendOTP, SendOTPFails
  <2>2. Clearing(r.email, r.code, Keys, Idle) \in Requests /\ r.email \in Emails
    BY <2>1, Made DEF Coded
  <2>3. request' \in [Handlers -> Requests]
    BY <1>6, <2>2, Made, Written DEF SendOTP, SendOTPFails, Continue, Finish
  <2>4. ASSUME Delivered(r)
        PROVE  TypeOK'
    <3>1. Cardinality(Handlers) + 1 \in Nat
      BY RegistrationAssumption, FS_CardinalityType
    <3>2. burst' \in [Emails -> Nat]
      BY <2>2, <2>4, <3>1, UpTypes DEF Delivered, TypeOK
    <3>3. mailed' \subseteq Emails
      BY <2>2, <2>4 DEF Delivered, TypeOK
    <3> QED
      BY <2>3, <2>4, <3>2, <3>3 DEF Delivered, redis, database, TypeOK
  <2>5. ASSUME UNCHANGED <<redis, database, history>>
        PROVE  TypeOK'
    BY <2>3, <2>5 DEF redis, database, history, ofCode, TypeOK
  <2> QED
    BY <1>6, <2>4, <2>5 DEF SendOTP, SendOTPFails
<1> QED
  BY <1>2, <1>3, <1>4, <1>5, <1>6 DEF SendSteps

\* What a judged attempt goes on to.
LEMMA JudgedTypes ==
  ASSUME NEW r, r.who \in People, r.code \in Codes, NEW n
  PROVE  /\ Judged(r, n) \in Requests
         /\ \/ Judged(r, n) = Idle
            \/ \E keys \in SUBSET Keys, next \in {Idle} \cup Accounts :
                 "code" \in keys /\ Judged(r, n) = Clearing(r.who.email, r.code, keys, next)
<1>1. r.who.email \in Emails /\ Checking(r.who) \in Accounts
  BY Made
<1>2. {"code", "attempts"} \in SUBSET Keys /\ Keys \in SUBSET Keys /\ "code" \in Keys
  BY DEF Keys
<1>3. \/ Judged(r, n) = Clearing(r.who.email, r.code, {"code", "attempts"}, Idle)
      \/ Judged(r, n) = Idle
      \/ Judged(r, n) = Clearing(r.who.email, r.code, Keys, Checking(r.who))
  BY DEF Judged
<1>4. \/ Judged(r, n) = Idle
      \/ \E keys \in SUBSET Keys, next \in {Idle} \cup Accounts :
           "code" \in keys /\ Judged(r, n) = Clearing(r.who.email, r.code, keys, next)
  BY <1>1, <1>2, <1>3
<1> QED
  BY <1>1, <1>4, Made

LEMMA RegisterTypes ==
  ASSUME TypeOK, NEW h \in Handlers, RegisterSteps(h)
  PROVE  TypeOK'
<1> DEFINE r == request[h]
<1>1. r \in Requests
  BY DEF TypeOK
<1>2. CASE GetOTP(h)
  <2>1. r.who \in People /\ r.guess \in Codes \cup {Nil}
    BY <1>1, <1>2, RequestTypes DEF GetOTP
  <2>2. code[r.who.email] \in Codes \cup {Nil}
    BY <2>1, Made DEF TypeOK
  <2>3. code[r.who.email] # Nil =>
          [op |-> "attempt", who |-> r.who, guess |-> r.guess, code |-> code[r.who.email]] \in Requests
    BY <2>1, <2>2 DEF Requests
  <2>4. request' \in [Handlers -> Requests]
    BY <1>2, <2>3, Made, Written DEF GetOTP, Continue, Finish
  <2> QED
    BY <1>2, <2>4 DEF GetOTP, redis, database, history, ofCode, TypeOK
<1>3. CASE Attempt(h)
  <2> DEFINE n == Up(attempts[r.who.email], MaxAttempts + 1)
  <2>1. r.who \in People /\ r.code \in Codes /\ r.who.email \in Emails
    BY <1>1, <1>3, RequestTypes, Made DEF Attempt, Count
  <2>6. MaxAttempts + 1 \in Nat /\ attempts[r.who.email] \in Nat
    BY <2>1, RegistrationAssumption DEF TypeOK
  <2>2. n \in Nat
    BY <2>6, UpTypes
  <2>3. Count(r, n, n <= MaxAttempts) /\ request' = [request EXCEPT ![h] = Judged(r, n)]
    BY <1>3 DEF Attempt, Continue
  <2> HIDE DEF n
  <2>4. request' \in [Handlers -> Requests]
    BY <2>1, <2>3, JudgedTypes, Written
  <2>5. attempts' \in [Emails -> Nat] /\ wrong' \in [Emails -> Nat]
    BY <2>1, <2>2, <2>3, <2>6, UpTypes DEF Count, TypeOK
  <2> QED
    BY <2>3, <2>4, <2>5 DEF Count, database, TypeOK
<1>4. CASE CheckTaken(h)
  <2>1. r \in Accounts
    BY <1>1, <1>4, RequestTypes DEF CheckTaken
  <2>2. [r EXCEPT !.op = "store"] \in Requests
    BY <2>1 DEF Accounts, Requests
  <2>3. request' \in [Handlers -> Requests]
    BY <1>4, <2>2, Made, Written DEF CheckTaken, Continue, Finish
  <2> QED
    BY <1>4, <2>3 DEF CheckTaken, redis, database, history, ofCode, TypeOK
<1>5. ASSUME NEW i \in Ids, StoreUser(h, i)
      PROVE  TypeOK'
  <2>1. r.who \in People
    BY <1>1, <1>5, RequestTypes DEF StoreUser, Accounts
  <2>2. [email |-> r.who.email, phone |-> r.who.phone, live |-> TRUE] \in UserRow
    BY <2>1 DEF People, UserRow
  <2>3. users' \in [Ids -> UserRow \cup {NoRow}]
    BY <1>5, <2>2 DEF StoreUser, TypeOK
  <2>4. request' \in [Handlers -> Requests]
    BY <1>5, Made, Written DEF StoreUser, Finish
  <2> QED
    BY <1>5, <2>3, <2>4 DEF StoreUser, redis, history, ofCode, TypeOK
<1> QED
  BY <1>2, <1>3, <1>4, <1>5 DEF RegisterSteps

LEMMA OtherTypes ==
  ASSUME TypeOK
  PROVE  /\ \A h \in Handlers : SaveConfig(h) \/ Abort(h) => TypeOK'
         /\ \A i \in Ids : DeleteUser(i) => TypeOK'
         /\ \A e \in Emails : ExpireCode(e) \/ ExpireAttempts(e) \/ ExpireCooldown(e) \/ ExpireSent(e)
                            => TypeOK'
<1>1. ASSUME NEW h \in Handlers, SaveConfig(h)
      PROVE  TypeOK'
  <2> DEFINE r == request[h]
             u == r.update
             row == [value |-> u.value, active |-> IF u.active = Nil THEN r.row.active ELSE u.active]
  <2>1. u \in ConfigUpdates /\ r.row \in ConfigRow
    BY <1>1, RequestTypes DEF SaveConfig, TypeOK
  <2>2. row \in ConfigRow
    BY <2>1 DEF ConfigUpdates, ConfigRow
  <2>3. config' = [config EXCEPT ![u.key] = row]
    BY <1>1 DEF SaveConfig
  <2> HIDE DEF row, u
  <2>4. config' \in [ConfigKeys -> ConfigRow]
    BY <2>2, <2>3 DEF TypeOK
  <2>5. request' \in [Handlers -> Requests]
    BY <1>1, Made, Written DEF SaveConfig, Finish
  <2> QED
    BY <1>1, <2>4, <2>5 DEF SaveConfig, redis, history, ofCode, TypeOK
<1>2. ASSUME NEW h \in Handlers, Abort(h)
      PROVE  TypeOK'
  <2>1. request' \in [Handlers -> Requests] /\ orphans' \subseteq Emails
    BY <1>2, Made, Written, AbandonedTypes DEF Abort, Finish, TypeOK
  <2> QED
    BY <1>2, <2>1 DEF Abort, redis, database, TypeOK
<1>3. ASSUME NEW i \in Ids, DeleteUser(i)
      PROVE  TypeOK'
  <2>1. [users[i] EXCEPT !.live = FALSE] \in UserRow
    BY <1>3 DEF DeleteUser, UserRow, TypeOK
  <2>2. users' \in [Ids -> UserRow \cup {NoRow}]
    BY <1>3, <2>1 DEF DeleteUser, TypeOK
  <2> QED
    BY <1>3, <2>2 DEF DeleteUser, redis, history, ofCode, TypeOK
<1>4. ASSUME NEW e \in Emails, ExpireCode(e)
      PROVE  TypeOK'
  BY <1>4, StoreTypes DEF ExpireCode, database, TypeOK
<1>5. ASSUME NEW e \in Emails, ExpireAttempts(e)
      PROVE  TypeOK'
  BY <1>5, AttemptsGoneTypes DEF ExpireAttempts, database, TypeOK
<1>6. ASSUME NEW e \in Emails, ExpireCooldown(e)
      PROVE  TypeOK'
  BY <1>6, CooldownGoneTypes DEF ExpireCooldown, database, ofCode, TypeOK
<1>7. ASSUME NEW e \in Emails, ExpireSent(e)
      PROVE  TypeOK'
  BY <1>7 DEF ExpireSent, database, history, ofCode, TypeOK
<1> QED
  BY <1>1, <1>2, <1>3, <1>4, <1>5, <1>6, <1>7

LEMMA InitTypes == Init => TypeOK
<1> SUFFICES ASSUME Init
             PROVE  TypeOK
  OBVIOUS
<1>1. config \in [ConfigKeys -> ConfigRow]
  BY DEF Init, ConfigRow
<1>2. request \in [Handlers -> Requests]
  BY Made DEF Init
<1> QED
  BY <1>1, <1>2 DEF Init, TypeOK

LEMMA StepTypes ==
  ASSUME TypeOK, [Next]_vars
  PROVE  TypeOK'
<1>1. CASE UNCHANGED vars
  BY <1>1 DEF vars, redis, database, history, ofCode, TypeOK
<1> QED
  BY <1>1, StartTypes, SendTypes, RegisterTypes, ClearTypes, OtherTypes DEF Next

\* Types: every key, row and handler keeps the shape the code gives it.
THEOREM RegistrationTypes == Spec => []TypeOK
  BY InitTypes, StepTypes, PTL DEF Spec

-----------------------------------------------------------------------------
(* The users table.                                                        *)

\* Who writes what.
LEMMA Writers ==
  ASSUME [Next]_vars
  PROVE  /\ \/ UNCHANGED users
            \/ (\E h \in Handlers, i \in Ids : StoreUser(h, i)) \/ \E i \in Ids : DeleteUser(i)
         /\ \/ UNCHANGED <<attempts, wrong>>
            \/ \E e \in Emails, c \in Codes \cup {Nil} : Store(e, c) /\ UNCHANGED attempts
            \/ \E h \in Handlers : Attempt(h)
            \/ \E e : AttemptsGone(e)
            \/ \E h \in Handlers : ClearCode(h) \/ SetOTP(h)
<1>1. ASSUME NEW h \in Handlers, Starts(h) \/ SaveConfig(h) \/ Cleared(h) \/ Abort(h)
      PROVE  UNCHANGED <<users, attempts, wrong>>
  BY <1>1 DEF Starts, SendRegisterOTP, Register, GoogleRegistration, AdminCreateUser, ReadConfig,
     SaveConfig, Cleared, Abort, redis, database, history, ofCode
<1>2. ASSUME NEW h \in Handlers, SendSteps(h)
      PROVE  /\ UNCHANGED users
             /\ \/ UNCHANGED <<attempts, wrong>> \/ SetOTP(h) \/ \E e : AttemptsGone(e)
  BY <1>2 DEF SendSteps, CheckCooldown, CountSend, SetOTP, SetOTPFails, ResetAttempts, SetCooldown,
     SetCooldownFails, SendOTP, SendOTPFails, Delivered, redis, database, history, ofCode
<1>3. ASSUME NEW h \in Handlers, RegisterSteps(h)
      PROVE  /\ UNCHANGED users \/ \E i \in Ids : StoreUser(h, i)
             /\ UNCHANGED <<attempts, wrong>> \/ Attempt(h)
  BY <1>3 DEF RegisterSteps, GetOTP, CheckTaken, StoreUser, Attempt, Count, redis, database, history, ofCode
<1>4. ASSUME NEW h \in Handlers, ClearSteps(h)
      PROVE  /\ UNCHANGED users
             /\ \/ UNCHANGED <<attempts, wrong>> \/ ClearCode(h) \/ \E e : AttemptsGone(e)
  BY <1>4 DEF ClearSteps, ClearCode, ClearAttempts, ClearCooldown, ClearSendCount, ClearKeyFails,
     redis, database, history, ofCode
<1>5. ASSUME NEW i \in Ids, DeleteUser(i)
      PROVE  UNCHANGED <<attempts, wrong>>
  BY <1>5 DEF DeleteUser, redis, history, ofCode
<1>6. ASSUME NEW e \in Emails, ExpireCode(e)
      PROVE  UNCHANGED users /\ Store(e, Nil) /\ UNCHANGED attempts
  BY <1>6 DEF ExpireCode, database
<1>7. ASSUME NEW e \in Emails, ExpireAttempts(e)
      PROVE  UNCHANGED users /\ AttemptsGone(e)
  BY <1>7 DEF ExpireAttempts, database
<1>8. ASSUME NEW e \in Emails, ExpireCooldown(e) \/ ExpireSent(e)
      PROVE  UNCHANGED <<users, attempts, wrong>>
  BY <1>8 DEF ExpireCooldown, ExpireSent, database, history, ofCode
<1>9. ASSUME UNCHANGED vars
      PROVE  UNCHANGED <<users, attempts, wrong>>
  BY <1>9 DEF vars, redis, database, history, ofCode
<1> QED
  BY <1>1, <1>2, <1>3, <1>4, <1>5, <1>6, <1>7, <1>8, <1>9 DEF Next

LEMMA StepAccounts ==
  ASSUME TypeOK, OneAccount, [Next]_vars
  PROVE  OneAccount'
<1>1. ASSUME NEW h \in Handlers, NEW i \in Ids, StoreUser(h, i)
      PROVE  OneAccount'
  <2> DEFINE who == request[h].who
             row == [email |-> who.email, phone |-> who.phone, live |-> TRUE]
  <2>1. users[i] = NoRow /\ users' = IF Taken(who) THEN users ELSE [users EXCEPT ![i] = row]
    BY <1>1 DEF StoreUser
  <2>2. CASE Taken(who)
    BY <2>1, <2>2 DEF OneAccount
  <2>3. CASE ~Taken(who)
    <3>1. \A j \in Ids : users'[j] = IF j = i THEN row ELSE users[j]
      BY <2>1, <2>3 DEF TypeOK
    <3>2. ASSUME NEW j \in Ids, users[j] # NoRow
          PROVE  users[j].email # who.email /\ (users[j].phone = who.phone => who.phone = Nil)
      BY <2>3, <3>2 DEF Taken
    <3>3. row.email = who.email /\ row.phone = who.phone
      OBVIOUS
    <3> HIDE DEF row, who
    <3> QED
      BY <2>1, <3>1, <3>2, <3>3 DEF OneAccount
  <2> QED
    BY <2>2, <2>3
<1>2. ASSUME NEW i \in Ids, DeleteUser(i)
      PROVE  OneAccount'
  <2>1. users[i] \in UserRow
    BY <1>2 DEF DeleteUser, TypeOK
  <2>2. [users[i] EXCEPT !.live = FALSE].email = users[i].email
        /\ [users[i] EXCEPT !.live = FALSE].phone = users[i].phone
    BY <2>1 DEF UserRow
  <2>3. \A j \in Ids : users'[j] = IF j = i THEN [users[i] EXCEPT !.live = FALSE] ELSE users[j]
    BY <1>2 DEF DeleteUser, TypeOK
  <2>4. \A j \in Ids : /\ users'[j].email = users[j].email /\ users'[j].phone = users[j].phone
                       /\ users'[j] # NoRow => users[j] # NoRow
    BY <1>2, <2>2, <2>3 DEF DeleteUser
  <2> QED
    BY <2>4 DEF OneAccount
<1>3. ASSUME UNCHANGED users
      PROVE  OneAccount'
  BY <1>3 DEF OneAccount
<1> QED
  BY <1>1, <1>2, <1>3, Writers

\* However many registrations, administrators and Google logins overlap, no two
\* rows share an address or a phone (user_service.go:45).
THEOREM AccountsAreUnique == Spec => []OneAccount
<1>1. Init => OneAccount
  BY DEF Init, OneAccount
<1> QED
  BY <1>1, InitTypes, StepTypes, StepAccounts, PTL DEF Spec

-----------------------------------------------------------------------------
(* Guesses.                                                                *)

\* The attempts key counts at least the wrong guesses at the stored code.
Counted ==
  \A e \in Emails : wrong[e] <= attempts[e] /\ wrong[e] <= MaxAttempts /\ attempts[e] <= MaxAttempts + 1

GuessInv == TypeOK /\ Counted

LEMMA AttemptCounts ==
  ASSUME GuessInv, NEW h \in Handlers, Attempt(h)
  PROVE  Counted'
<1> DEFINE r == request[h]
           e == r.who.email
           n == Up(attempts[e], MaxAttempts + 1)
<1>1. e \in Emails /\ Count(r, n, n <= MaxAttempts)
  BY RequestTypes, Made DEF Attempt, Count, GuessInv, TypeOK
<1>2. /\ MaxAttempts \in Nat /\ attempts[e] \in Nat /\ wrong[e] \in Nat
      /\ wrong[e] <= attempts[e] /\ wrong[e] <= MaxAttempts /\ attempts[e] <= MaxAttempts + 1
  BY <1>1, RegistrationAssumption DEF GuessInv, Counted, TypeOK
<1>3. /\ n \in Nat /\ attempts[e] <= n /\ n <= MaxAttempts + 1
      /\ n <= MaxAttempts => n = attempts[e] + 1
  BY <1>2 DEF Up
<1>4. PICK f \in Emails : f = e
  BY <1>1
<1>5. /\ attempts' = [attempts EXCEPT ![f] = n]
      /\ \/ wrong' = wrong
         \/ n <= MaxAttempts /\ wrong' = [wrong EXCEPT ![f] = Up(wrong[f], MaxAttempts + 1)]
  BY <1>1, <1>4 DEF Count
<1>6. Up(wrong[f], MaxAttempts + 1) = wrong[f] + 1
  BY <1>2, <1>4 DEF Up
<1> HIDE DEF n, e
<1>9. attempts \in [Emails -> Nat] /\ wrong \in [Emails -> Nat]
  BY DEF GuessInv, TypeOK
<1>7. /\ attempts'[f] = n /\ (wrong'[f] = wrong[f] \/ (n <= MaxAttempts /\ wrong'[f] = wrong[f] + 1))
      /\ \A g \in Emails \ {f} : attempts'[g] = attempts[g] /\ wrong'[g] = wrong[g]
  <2>1. attempts'[f] = n /\ \A g \in Emails \ {f} : attempts'[g] = attempts[g]
    BY <1>5, <1>9
  <2>2. CASE wrong' = wrong
    BY <2>1, <2>2
  <2>3. CASE n <= MaxAttempts /\ wrong' = [wrong EXCEPT ![f] = Up(wrong[f], MaxAttempts + 1)]
    BY <1>6, <1>9, <2>1, <2>3
  <2> QED
    BY <1>5, <2>2, <2>3
<1>8. wrong'[f] <= attempts'[f] /\ wrong'[f] <= MaxAttempts /\ attempts'[f] <= MaxAttempts + 1
  BY <1>2, <1>3, <1>4, <1>7
<1> QED
  BY <1>7, <1>8 DEF GuessInv, Counted

LEMMA StepGuesses ==
  ASSUME GuessInv, [Next]_vars
  PROVE  GuessInv'
<1>1. TypeOK' /\ MaxAttempts \in Nat
  BY StepTypes, RegistrationAssumption DEF GuessInv
<1>2. ASSUME NEW e, NEW c, Store(e, c), UNCHANGED attempts
      PROVE  Counted'
  BY <1>1, <1>2 DEF Store, GuessInv, Counted, TypeOK
<1>3. ASSUME NEW e, AttemptsGone(e)
      PROVE  Counted'
  BY <1>1, <1>3 DEF AttemptsGone, GuessInv, Counted, TypeOK
<1>4. ASSUME UNCHANGED <<attempts, wrong>>
      PROVE  Counted'
  BY <1>4 DEF GuessInv, Counted
<1>5. ASSUME NEW h \in Handlers, ClearCode(h) \/ SetOTP(h)
      PROVE  Counted'
  BY <1>2, <1>5 DEF ClearCode, SetOTP
<1> QED
  BY <1>1, <1>2, <1>3, <1>4, <1>5, AttemptCounts, Writers DEF GuessInv

\* A stored code withstands MaxAttempts wrong guesses and no more, whatever the
\* overlap of verifications (otp_service.go:124).
THEOREM GuessesAreBounded == Spec => []GuessesBounded
<1>1. Init => GuessInv
  <2> SUFFICES ASSUME Init
               PROVE  GuessInv
    OBVIOUS
  <2>1. MaxAttempts \in Nat
    BY RegistrationAssumption
  <2>2. \A e \in Emails : wrong[e] = 0 /\ attempts[e] = 0
    BY DEF Init
  <2> QED
    BY <2>1, <2>2, InitTypes DEF GuessInv, Counted
<1>2. GuessInv => GuessesBounded
  BY DEF GuessInv, Counted, GuessesBounded
<1> QED
  BY <1>1, <1>2, StepGuesses, PTL DEF Spec

-----------------------------------------------------------------------------
(* Steps of a handler.                                                     *)

Serves(h) == Starts(h) \/ SendSteps(h) \/ RegisterSteps(h) \/ SaveConfig(h) \/ ClearSteps(h)
             \/ Cleared(h) \/ Abort(h)

\* Steps of the clock and of an administrator who deletes accounts.
Outside == \/ \E i \in Ids : DeleteUser(i)
           \/ \E e \in Emails : ExpireCode(e) \/ ExpireAttempts(e) \/ ExpireCooldown(e) \/ ExpireSent(e)

LEMMA ServesOne ==
  ASSUME TypeOK, NEW h \in Handlers, Serves(h)
  PROVE  /\ request[h] \in Requests
         /\ \A g \in Handlers \ {h} : request'[g] = request[g]
         /\ \A x : request' = [request EXCEPT ![h] = x] => request'[h] = x
<1>1. \E x : request' = [request EXCEPT ![h] = x]
  <2>1. ASSUME Starts(h) \/ SaveConfig(h) \/ Cleared(h) \/ Abort(h)
        PROVE  \E x : request' = [request EXCEPT ![h] = x]
    BY <2>1 DEF Starts, SendRegisterOTP, Register, GoogleRegistration, AdminCreateUser, ReadConfig,
       SaveConfig, Cleared, Abort, Start, Continue, Finish
  <2>2. ASSUME SendSteps(h)
        PROVE  \E x : request' = [request EXCEPT ![h] = x]
    BY <2>2 DEF SendSteps, CheckCooldown, CountSend, SetOTP, SetOTPFails, ResetAttempts, SetCooldown,
       SetCooldownFails, SendOTP, SendOTPFails, Continue, Finish
  <2>3. ASSUME RegisterSteps(h) \/ ClearSteps(h)
        PROVE  \E x : request' = [request EXCEPT ![h] = x]
    BY <2>3 DEF RegisterSteps, GetOTP, CheckTaken, StoreUser, Attempt, ClearSteps, ClearCode,
       ClearAttempts, ClearCooldown, ClearSendCount, ClearKeyFails, Cleaning, Continue, Finish
  <2> QED
    BY <2>1, <2>2, <2>3 DEF Serves
<1> QED
  BY <1>1 DEF TypeOK

\* The requests that are given a copy with another operation.
LEMMA Advanced ==
  ASSUME NEW r \in Coded, NEW op \in {"reset", "cool", "mail"}
  PROVE  /\ [r EXCEPT !.op = op].op = op
         /\ [r EXCEPT !.op = op].email = r.email /\ [r EXCEPT !.op = op].code = r.code
  BY DEF Coded

\* What a handler goes on to, outside of sending.
LEMMA StartsGo ==
  ASSUME TypeOK, NEW h \in Handlers, Starts(h)
  PROVE  /\ request[h] = Idle /\ UNCHANGED <<redis, history>>
         /\ \/ request'[h].op \in {"cooldown", "check", "store", "config"}
            \/ /\ request'[h].op = "verify"
               /\ request'[h].guess = Nil \/ \E e \in Emails : request'[h].guess = code[e]
<1>1. \A x : request' = [request EXCEPT ![h] = x] => request'[h] = x
  BY ServesOne DEF Serves
<1>2. \A who \in Applicants \cup Staff : who.email \in Emails
  BY Made, RegistrationAssumption
<1>3. ASSUME NEW who \in Applicants, NEW guess, Register(h, who, guess)
      PROVE  /\ request[h] = Idle /\ UNCHANGED <<redis, history>>
             /\ \/ request'[h].op = "check"
                \/ /\ request'[h].op = "verify"
                   /\ request'[h].guess = Nil \/ \E e \in Emails : request'[h].guess = code[e]
  <2>1. request[h] = Idle /\ UNCHANGED <<redis, history>>
    BY <1>3 DEF Register, Start
  <2>2. guess = Nil \/ \E e \in Emails : guess = code[e]
    BY <1>2, <1>3 DEF Register
  <2>3. CASE Enabled("otp")
    <3>1. request'[h] = [op |-> "verify", who |-> who, guess |-> guess]
      BY <1>1, <1>3, <2>3 DEF Register, Start
    <3>2. request'[h].op = "verify" /\ request'[h].guess = guess
      BY <3>1
    <3> QED
      BY <2>1, <2>2, <3>2
  <2>4. CASE ~Enabled("otp")
    <3>1. request'[h] = Checking(who)
      BY <1>1, <1>3, <2>4 DEF Register, Start
    <3> QED
      BY <2>1, <3>1 DEF Checking
  <2> QED
    BY <2>3, <2>4
<1>4. ASSUME (\E who \in Applicants : SendRegisterOTP(h, who) \/ GoogleRegistration(h, who.email))
             \/ (\E who \in Staff : AdminCreateUser(h, who))
             \/ \E update \in Settings : ReadConfig(h, update)
      PROVE  /\ request[h] = Idle /\ UNCHANGED <<redis, history>>
             /\ request'[h].op \in {"cooldown", "check", "store", "config"}
  <2>1. request[h] = Idle
    BY <1>4 DEF SendRegisterOTP, GoogleRegistration, AdminCreateUser, ReadConfig, Start
  <2>2. UNCHANGED <<redis, history>>
    BY <1>4 DEF SendRegisterOTP, GoogleRegistration, AdminCreateUser, ReadConfig
  <2>3. request'[h].op \in {"cooldown", "check", "store", "config"}
    <3>1. ASSUME NEW who, SendRegisterOTP(h, who)
          PROVE  request'[h].op = "cooldown"
      BY <1>1, <3>1 DEF SendRegisterOTP, Start
    <3>2. ASSUME NEW e, GoogleRegistration(h, e)
          PROVE  request'[h].op = "store"
      BY <1>1, <3>2 DEF GoogleRegistration, Start
    <3>3. ASSUME NEW who, AdminCreateUser(h, who)
          PROVE  request'[h].op = "check"
      BY <1>1, <3>3 DEF AdminCreateUser, Start, Checking
    <3>4. ASSUME NEW update, ReadConfig(h, update)
          PROVE  request'[h].op = "config"
      BY <1>1, <3>4 DEF ReadConfig, Start
    <3> QED
      BY <1>4, <3>1, <3>2, <3>3, <3>4
  <2> QED
    BY <2>1, <2>2, <2>3
<1>5. \/ \E who \in Applicants : \E guess : Register(h, who, guess)
      \/ \E who \in Applicants : SendRegisterOTP(h, who) \/ GoogleRegistration(h, who.email)
      \/ \E who \in Staff : AdminCreateUser(h, who)
      \/ \E update \in Settings : ReadConfig(h, update)
  BY DEF Starts
<1>6. CASE \E who \in Applicants : \E guess : Register(h, who, guess)
  <2>1. PICK who \in Applicants : \E guess : Register(h, who, guess)
    BY <1>6
  <2> QED
    BY <1>3, <2>1
<1> QED
  BY <1>4, <1>5, <1>6

LEMMA RegisterGo ==
  ASSUME TypeOK, NEW h \in Handlers, RegisterSteps(h) \/ SaveConfig(h) \/ Cleared(h)
  PROVE  /\ UNCHANGED <<code, cooling, burst, mailed, orphans>>
         /\ \/ request'[h].op \in {"idle", "check", "store"}
            \/ /\ request[h].op = "verify" /\ request'[h].op = "attempt"
               /\ request'[h].guess = request[h].guess
               /\ \E e \in Emails : request'[h].code = code[e]
            \/ /\ request[h].op = "attempt" /\ request'[h].op = "clear"
               /\ request'[h].code = request[h].code /\ "code" \in request'[h].todo
<1> DEFINE r == request[h]
<1>1. r \in Requests /\ \A x : request' = [request EXCEPT ![h] = x] => request'[h] = x
  BY ServesOne DEF Serves
<1>2. UNCHANGED <<code, cooling, burst, mailed, orphans>>
  BY DEF RegisterSteps, GetOTP, Attempt, Count, CheckTaken, StoreUser, SaveConfig, Cleared, redis,
         history, ofCode
<1>3. CASE GetOTP(h)
  <2>1. r.who.email \in Emails /\ r.op = "verify"
    BY <1>1, <1>3, RequestTypes, Made DEF GetOTP
  <2>2. \/ request'[h] = Idle
        \/ request'[h] = [op |-> "attempt", who |-> r.who, guess |-> r.guess, code |-> code[r.who.email]]
    BY <1>1, <1>3 DEF GetOTP, Continue, Finish
  <2>3. \/ request'[h].op = "idle"
        \/ /\ request'[h].op = "attempt" /\ request'[h].guess = r.guess
           /\ request'[h].code = code[r.who.email]
    BY <2>2 DEF Idle
  <2> QED
    BY <1>2, <2>1, <2>3
<1>4. CASE Attempt(h)
  <2>1. r.who \in People /\ r.code \in Codes /\ r.op = "attempt"
    BY <1>1, <1>4, RequestTypes DEF Attempt, Count
  <2>2. PICK n : request'[h] = Judged(r, n)
    BY <1>1, <1>4 DEF Attempt, Continue
  <2>3. \/ request'[h] = Idle
        \/ \E keys \in SUBSET Keys, next \in {Idle} \cup Accounts :
             "code" \in keys /\ request'[h] = Clearing(r.who.email, r.code, keys, next)
    BY <2>1, <2>2, JudgedTypes
  <2>4. \/ request'[h].op = "idle"
        \/ /\ request'[h].op = "clear" /\ request'[h].code = r.code
           /\ "code" \in request'[h].todo
    <3>1. CASE request'[h] = Idle
      BY <3>1 DEF Idle
    <3>2. ASSUME NEW keys, NEW next, "code" \in keys,
                 request'[h] = Clearing(r.who.email, r.code, keys, next)
          PROVE  /\ request'[h].op = "clear" /\ request'[h].code = r.code
                 /\ "code" \in request'[h].todo
      BY <3>2 DEF Clearing
    <3> QED
      BY <2>3, <3>1, <3>2
  <2> QED
    BY <1>2, <2>1, <2>4
<1>5. CASE CheckTaken(h)
  <2>1. r \in Accounts
    BY <1>1, <1>5, RequestTypes DEF CheckTaken
  <2>2. request'[h] = Idle \/ request'[h] = [r EXCEPT !.op = "store"]
    BY <1>1, <1>5 DEF CheckTaken, Continue, Finish
  <2>3. request'[h].op \in {"idle", "store"}
    BY <2>1, <2>2 DEF Accounts, Idle
  <2> QED
    BY <1>2, <2>3
<1>6. CASE SaveConfig(h) \/ \E i \in Ids : StoreUser(h, i)
  <2>1. request'[h] = Idle
    BY <1>1, <1>6 DEF SaveConfig, StoreUser, Finish
  <2> QED
    BY <1>2, <2>1 DEF Idle
<1>7. CASE Cleared(h)
  <2>1. request'[h] = r.next /\ r \in Cleanings
    BY <1>1, <1>7, RequestTypes DEF Cleared, Continue
  <2>2. request'[h].op \in {"idle", "check", "store"}
    BY <2>1 DEF Cleanings, Accounts, Idle
  <2> QED
    BY <1>2, <2>2
<1> QED
  BY <1>3, <1>4, <1>5, <1>6, <1>7 DEF RegisterSteps

\* What a sender goes on to.
LEMMA SendGo ==
  ASSUME TypeOK, NEW h \in Handlers, SendSteps(h)
  PROVE  /\ request[h].email \in Emails
         /\ CheckCooldown(h) =>
              \/ request'[h].op = "idle"
              \/ /\ request'[h].op = "count" /\ request'[h].email = request[h].email
                 /\ request[h].email \notin cooling
         /\ \A c \in Codes : CountSend(h, c) =>
              \/ request'[h].op = "idle"
              \/ /\ request[h].op = "count" /\ request'[h].op = "set"
                 /\ request'[h].email = request[h].email /\ request'[h].code = c
         /\ SetOTP(h) \/ ResetAttempts(h) \/ SetCooldown(h) =>
              /\ request[h] \in Coded /\ request'[h].op \in {"reset", "cool", "mail"}
              /\ request'[h].email = request[h].email /\ request'[h].code = request[h].code
         /\ SetOTPFails(h) => /\ request[h].op = "set" /\ request'[h].op = "clear"
                              /\ request'[h].code = Nil /\ request'[h].next = Idle
         /\ SetCooldownFails(h) \/ SendOTPFails(h) =>
              /\ request[h] \in Coded /\ request'[h].op = "clear" /\ "code" \in request'[h].todo
              /\ request'[h].email = request[h].email /\ request'[h].code = request[h].code
         /\ SendOTP(h) => request[h] \in Coded /\ request'[h].op = "idle"
<1> DEFINE r == request[h]
<1>1. r \in Requests /\ \A x : request' = [request EXCEPT ![h] = x] => request'[h] = x
  BY ServesOne DEF Serves
<1>2. r.op \in {"cooldown", "count", "set", "reset", "cool", "mail"}
  BY DEF SendSteps, CheckCooldown, CountSend, SetOTP, ResetAttempts, SetCooldown, SetOTPFails,
         SetCooldownFails, SendOTP, SendOTPFails
<1>3. r.email \in Emails /\ (r.op \in {"set", "reset", "cool", "mail"} => r \in Coded)
  BY <1>1, <1>2, RequestTypes DEF Coded
<1>4. ASSUME CheckCooldown(h)
      PROVE  \/ request'[h].op = "idle"
             \/ request'[h].op = "count" /\ request'[h].email = r.email /\ r.email \notin cooling
  <2>1. \/ request'[h] = Idle
        \/ request'[h] = [op |-> "count", email |-> r.email] /\ r.email \notin cooling
    BY <1>1, <1>4 DEF CheckCooldown, Continue, Finish
  <2> QED
    BY <2>1 DEF Idle
<1>5. ASSUME NEW c \in Codes, CountSend(h, c)
      PROVE  \/ request'[h].op = "idle"
             \/ /\ r.op = "count" /\ request'[h].op = "set"
                /\ request'[h].email = r.email /\ request'[h].code = c
  <2>1. r.op = "count"
        /\ (request'[h] = Idle \/ request'[h] = [op |-> "set", email |-> r.email, code |-> c])
    BY <1>1, <1>5 DEF CountSend, Continue, Finish
  <2> QED
    BY <2>1 DEF Idle
<1>6. ASSUME SetOTP(h) \/ ResetAttempts(h) \/ SetCooldown(h)
      PROVE  /\ r \in Coded /\ request'[h].op \in {"reset", "cool", "mail"}
             /\ request'[h].email = r.email /\ request'[h].code = r.code
  <2>1. \E op \in {"reset", "cool", "mail"} : request'[h] = [r EXCEPT !.op = op]
    BY <1>1, <1>6 DEF SetOTP, ResetAttempts, SetCooldown, Continue
  <2>2. r \in Coded
    BY <1>3, <1>6 DEF SetOTP, ResetAttempts, SetCooldown
  <2> HIDE DEF r
  <2> QED
    BY <2>1, <2>2, Advanced
<1>7. ASSUME SetOTPFails(h)
      PROVE  /\ r.op = "set" /\ request'[h].op = "clear" /\ request'[h].code = Nil
             /\ request'[h].next = Idle
  <2>1. request'[h] = Clearing(r.email, Nil, {"sent"}, Idle) /\ r.op = "set"
    BY <1>1, <1>7 DEF SetOTPFails, Continue
  <2> QED
    BY <2>1 DEF Clearing
<1>8. ASSUME SetCooldownFails(h) \/ SendOTPFails(h)
      PROVE  /\ r \in Coded /\ request'[h].op = "clear" /\ "code" \in request'[h].todo
             /\ request'[h].email = r.email /\ request'[h].code = r.code
  <2>1. \E keys : "code" \in keys /\ request'[h] = Clearing(r.email, r.code, keys, Idle)
    BY <1>1, <1>8 DEF SetCooldownFails, SendOTPFails, Continue, Keys
  <2>2. r \in Coded
    BY <1>3, <1>8 DEF SetCooldownFails, SendOTPFails
  <2> QED
    BY <2>1, <2>2 DEF Clearing
<1>9. ASSUME SendOTP(h)
      PROVE  r \in Coded /\ request'[h].op = "idle"
  <2>1. request'[h] = Idle /\ r.op = "mail"
    BY <1>1, <1>9 DEF SendOTP, Finish
  <2> QED
    BY <1>3, <2>1 DEF Idle
<1> HIDE DEF r
<1> QED
  BY <1>3, <1>4, <1>5, <1>6, <1>7, <1>8, <1>9 DEF r

-----------------------------------------------------------------------------
(* Cooldowns.                                                              *)

\* A request that passed the cooldown of e and may still send its mail.
Mails(r, e) == r.op \in {"count", "set", "reset", "cool", "mail"} /\ r.email = e
Mailers(e) == {h \in Handlers : Mails(request[h], e)}

\* While the key stands, nobody joins the requests that passed it: each of them
\* has sent its mail, or is still to send it.
Burst(e) ==
  /\ e \notin cooling => burst[e] = 0
  /\ burst[e] + Cardinality(Mailers(e)) <= Cardinality(Handlers)

CooldownInv == TypeOK /\ \A e \in Emails : Burst(e)

LEMMA MailersFinite ==
  ASSUME NEW e
  PROVE  /\ IsFiniteSet(Mailers(e)) /\ IsFiniteSet(Mailers(e)')
         /\ Cardinality(Mailers(e)) \in Nat /\ Cardinality(Mailers(e)') \in Nat
         /\ Cardinality(Mailers(e)) <= Cardinality(Handlers)
         /\ Cardinality(Mailers(e)') <= Cardinality(Handlers)
         /\ Cardinality(Handlers) \in Nat
<1>1. IsFiniteSet(Handlers)
  BY RegistrationAssumption
<1>2. Mailers(e) \subseteq Handlers /\ Mailers(e)' \subseteq Handlers
  BY DEF Mailers
<1> QED
  BY <1>1, <1>2, FS_Subset, FS_CardinalityType

LEMMA BurstStep ==
  ASSUME CooldownInv, TypeOK', NEW e \in Emails,
         \/ burst'[e] = 0
         \/ /\ burst'[e] = burst[e] /\ Mailers(e)' \subseteq Mailers(e)
            /\ e \in cooling => e \in cooling'
         \/ /\ burst'[e] \in {burst[e], burst[e] + 1} /\ e \in cooling'
            /\ \E h \in Mailers(e) : Mailers(e)' \subseteq Mailers(e) \ {h}
  PROVE  Burst(e)'
<1>1. burst[e] \in Nat /\ burst'[e] \in Nat /\ Burst(e)
  BY DEF CooldownInv, TypeOK
<1>2. CASE burst'[e] = 0
  BY <1>2, MailersFinite DEF Burst
<1>3. CASE /\ burst'[e] = burst[e] /\ Mailers(e)' \subseteq Mailers(e)
           /\ e \in cooling => e \in cooling'
  <2>1. Cardinality(Mailers(e)') <= Cardinality(Mailers(e))
    BY <1>3, MailersFinite, FS_Subset
  <2> QED
    BY <1>1, <1>3, <2>1, MailersFinite DEF Burst
<1>4. CASE /\ burst'[e] \in {burst[e], burst[e] + 1} /\ e \in cooling'
           /\ \E h \in Mailers(e) : Mailers(e)' \subseteq Mailers(e) \ {h}
  <2>1. PICK h \in Mailers(e) : Mailers(e)' \subseteq Mailers(e) \ {h}
    BY <1>4
  <2>2. /\ IsFiniteSet(Mailers(e) \ {h})
        /\ Cardinality(Mailers(e) \ {h}) = Cardinality(Mailers(e)) - 1
    BY <2>1, MailersFinite, FS_RemoveElement
  <2>3. Cardinality(Mailers(e)') <= Cardinality(Mailers(e)) - 1
    BY <2>1, <2>2, FS_Subset
  <2> QED
    BY <1>1, <1>4, <2>3, MailersFinite DEF Burst
<1> QED
  BY <1>2, <1>3, <1>4

\* A handler joins the requests that passed a cooldown only where there is none.
LEMMA MailsKept ==
  ASSUME TypeOK, NEW h \in Handlers, Serves(h), NEW e, Mails(request'[h], e)
  PROVE  Mails(request[h], e) \/ (e \notin cooling /\ UNCHANGED <<cooling, burst>>)
<1>1. CASE Starts(h) \/ RegisterSteps(h) \/ SaveConfig(h) \/ Cleared(h)
  BY <1>1, StartsGo, RegisterGo DEF Mails
<1>2. CASE ClearSteps(h)
  <2>1. PICK k : Cleaning(h, k)
    BY <1>2 DEF ClearSteps, ClearCode, ClearAttempts, ClearCooldown, ClearSendCount, ClearKeyFails
  <2> QED
    BY <2>1, CleaningTypes DEF Mails
<1>3. CASE Abort(h)
  <2>1. request'[h] = Idle
    BY <1>3, ServesOne DEF Abort, Finish
  <2> QED
    BY <2>1 DEF Idle, Mails
<1>4. CASE SendSteps(h)
  <2>1. CASE CheckCooldown(h)
    <3>1. UNCHANGED <<cooling, burst>>
      BY <2>1 DEF CheckCooldown, redis, history
    <3> QED
      BY <1>4, <2>1, <3>1, SendGo DEF Mails
  <2>2. ASSUME NEW c \in Codes, CountSend(h, c)
        PROVE  Mails(request[h], e)
    BY <1>4, <2>2, SendGo DEF Mails
  <2>3. CASE SetOTP(h) \/ ResetAttempts(h) \/ SetCooldown(h)
    BY <1>4, <2>3, SendGo DEF Mails, Coded
  <2>4. CASE SetOTPFails(h) \/ SetCooldownFails(h) \/ SendOTPFails(h) \/ SendOTP(h)
    BY <1>4, <2>4, SendGo DEF Mails
  <2> QED
    BY <1>4, <2>1, <2>2, <2>3, <2>4 DEF SendSteps
<1> QED
  BY <1>1, <1>2, <1>3, <1>4 DEF Serves

\* Who writes the cooldowns and the mails sent under them.
LEMMA CooldownWriters ==
  ASSUME NEW h \in Handlers, Serves(h)
  PROVE  \/ UNCHANGED <<cooling, burst>>
         \/ CooldownGone(request[h].email)
         \/ cooling' = cooling \cup {request[h].email} /\ UNCHANGED burst
         \/ (SendOTP(h) \/ SendOTPFails(h)) /\ Delivered(request[h])
<1>1. CASE Starts(h) \/ SaveConfig(h) \/ Cleared(h) \/ Abort(h)
  BY <1>1 DEF Starts, SendRegisterOTP, Register, GoogleRegistration, AdminCreateUser, ReadConfig,
     SaveConfig, Cleared, Abort, redis, history
<1>2. CASE SendSteps(h)
  BY <1>2 DEF SendSteps, CheckCooldown, CountSend, SetOTP, SetOTPFails, ResetAttempts, SetCooldown,
     SetCooldownFails, SendOTP, SendOTPFails, redis, history
<1>3. CASE RegisterSteps(h)
  BY <1>3 DEF RegisterSteps, GetOTP, CheckTaken, StoreUser, Attempt, Count, redis, history
<1>4. CASE ClearSteps(h)
  BY <1>4 DEF ClearSteps, ClearCode, ClearAttempts, ClearCooldown, ClearSendCount, ClearKeyFails,
     redis, history
<1> QED
  BY <1>1, <1>2, <1>3, <1>4 DEF Serves

\* A mail that goes out is the last one of its request.
LEMMA MailSent ==
  ASSUME CooldownInv, TypeOK', NEW h \in Handlers, SendOTP(h) \/ SendOTPFails(h), Delivered(request[h]),
         NEW e \in Emails
  PROVE  Burst(e)'
<1> DEFINE r == request[h]
<1> USE DEF CooldownInv
<1>1. SendSteps(h) /\ Serves(h)
  BY DEF SendSteps, Serves
<1>2. r.email \in Emails /\ r.op = "mail" /\ request'[h].op \in {"idle", "clear"}
  BY <1>1, SendGo DEF SendOTP, SendOTPFails
<1>3. cooling' = cooling /\ burst \in [Emails -> Nat]
  BY DEF Delivered, redis, TypeOK
<1>4. Mailers(e)' \subseteq Mailers(e) \ {h}
  BY <1>1, <1>2, ServesOne DEF Mailers, Mails
<1>5. CASE e # r.email \/ e \notin cooling
  <2>1. burst'[e] = burst[e]
    BY <1>2, <1>3, <1>5 DEF Delivered
  <2> QED
    BY <1>3, <1>4, <2>1, BurstStep
<1>6. CASE e = r.email /\ e \in cooling
  <2>1. burst'[e] = Up(burst[e], Cardinality(Handlers) + 1)
    BY <1>3, <1>6 DEF Delivered
  <2>2. burst[e] + Cardinality(Mailers(e)) <= Cardinality(Handlers)
    BY DEF Burst
  <2>3. burst'[e] = burst[e] + 1
    BY <1>3, <2>1, <2>2, MailersFinite DEF Up
  <2>4. h \in Mailers(e)
    BY <1>2, <1>6 DEF Mailers, Mails
  <2> QED
    BY <1>3, <1>4, <1>6, <2>3, <2>4, BurstStep
<1> QED
  BY <1>5, <1>6

LEMMA StepCooldown ==
  ASSUME CooldownInv, [Next]_vars
  PROVE  CooldownInv'
<1> USE DEF CooldownInv
<1>1. TypeOK'
  BY StepTypes
<1> SUFFICES ASSUME NEW e \in Emails
             PROVE  Burst(e)'
  BY <1>1
<1>2. ASSUME NEW f \in Emails, CooldownGone(f), Mailers(e)' \subseteq Mailers(e)
      PROVE  Burst(e)'
  <2>1. burst'[e] = 0 \/ (burst'[e] = burst[e] /\ (e \in cooling => e \in cooling'))
    BY <1>2 DEF CooldownGone, TypeOK
  <2> QED
    BY <1>1, <1>2, <2>1, BurstStep
<1>3. CASE Outside \/ UNCHANGED vars
  <2>1. request' = request
    BY <1>3 DEF Outside, DeleteUser, ExpireCode, ExpireAttempts, ExpireCooldown, ExpireSent, vars
  <2>2. Mailers(e)' = Mailers(e)
    BY <2>1 DEF Mailers
  <2>3. UNCHANGED <<cooling, burst>> \/ \E f \in Emails : CooldownGone(f)
    BY <1>3 DEF Outside, DeleteUser, ExpireCode, ExpireAttempts, ExpireCooldown, ExpireSent, vars,
       redis, history
  <2>4. CASE UNCHANGED <<cooling, burst>>
    BY <1>1, <2>2, <2>4, BurstStep
  <2> QED
    BY <1>2, <2>2, <2>3, <2>4
<1>4. ASSUME NEW h \in Handlers, Serves(h)
      PROVE  Burst(e)'
  <2>1. CASE (SendOTP(h) \/ SendOTPFails(h)) /\ Delivered(request[h])
    BY <1>1, <2>1, MailSent
  <2>2. CASE ~(Mailers(e)' \subseteq Mailers(e))
    <3>1. Mails(request'[h], e) /\ ~Mails(request[h], e)
      BY <1>4, <2>2, ServesOne DEF Mailers
    <3>2. e \notin cooling /\ UNCHANGED <<cooling, burst>>
      BY <1>4, <3>1, MailsKept
    <3>3. burst'[e] = 0
      BY <3>2 DEF Burst
    <3> QED
      BY <1>1, <3>3, BurstStep
  <2>3. CASE UNCHANGED <<cooling, burst>> /\ Mailers(e)' \subseteq Mailers(e)
    BY <1>1, <2>3, BurstStep
  <2>4. CASE CooldownGone(request[h].email) /\ Mailers(e)' \subseteq Mailers(e)
    <3>1. CASE request[h].email \in Emails
      BY <1>2, <2>4, <3>1
    <3>2. CASE request[h].email \notin Emails
      <4>1. burst'[e] = burst[e] /\ (e \in cooling => e \in cooling')
        BY <2>4, <3>2 DEF CooldownGone, TypeOK
      <4> QED
        BY <1>1, <2>4, <4>1, BurstStep
    <3> QED
      BY <3>1, <3>2
  <2>5. CASE /\ cooling' = cooling \cup {request[h].email} /\ UNCHANGED burst
             /\ Mailers(e)' \subseteq Mailers(e)
    BY <1>1, <2>5, BurstStep
  <2> QED
    BY <1>4, <2>1, <2>2, <2>3, <2>4, <2>5, CooldownWriters
<1> QED
  BY <1>3, <1>4 DEF Next, Outside, Serves

\* Under one cooldown no more mails leave than there are requests at once, however
\* their checks and their SETs of the key overlap (otp_service.go:57).
THEOREM CooldownsHold == Spec => []CooldownHolds
<1>1. Init => CooldownInv
  <2> SUFFICES ASSUME Init
               PROVE  CooldownInv
    OBVIOUS
  <2>1. TypeOK /\ \A e \in Emails : burst[e] = 0
    BY InitTypes DEF Init
  <2> QED
    BY <2>1, MailersFinite DEF CooldownInv, Burst
<1>2. CooldownInv => CooldownHolds
  <2> SUFFICES ASSUME CooldownInv, NEW e \in Emails
               PROVE  burst[e] <= Cardinality(Handlers)
    BY DEF CooldownHolds
  <2>1. burst[e] \in Nat /\ burst[e] + Cardinality(Mailers(e)) <= Cardinality(Handlers)
    BY DEF CooldownInv, TypeOK, Burst
  <2> QED
    BY <2>1, MailersFinite
<1> QED
  BY <1>1, <1>2, StepCooldown, PTL DEF Spec

-----------------------------------------------------------------------------
(* Codes.                                                                  *)

LEMMA KnowsTypes ==
  ASSUME NEW r \in Requests, NEW c
  PROVE  Knows(r, c) <=>
           \/ r.op \in {"set", "reset", "cool", "mail", "attempt", "clear"} /\ r.code = c
           \/ r.op \in {"verify", "attempt"} /\ r.guess = c
<1>1. CASE r.op \in {"idle", "check", "store", "config", "cooldown", "count"}
  <2>1. DOMAIN r \subseteq {"op", "who", "update", "row", "email"}
    BY <1>1 DEF Requests, Idle, Accounts
  <2> QED
    BY <1>1, <2>1 DEF Knows
<1>2. CASE r.op \in {"set", "reset", "cool", "mail", "clear"}
  <2>1. "code" \in DOMAIN r /\ "guess" \notin DOMAIN r
    BY <1>2 DEF Requests, Idle, Accounts
  <2> QED
    BY <1>2, <2>1 DEF Knows
<1>3. CASE r.op = "verify"
  <2>1. "code" \notin DOMAIN r /\ "guess" \in DOMAIN r
    BY <1>3 DEF Requests, Idle, Accounts
  <2> QED
    BY <1>3, <2>1 DEF Knows
<1>4. CASE r.op = "attempt"
  <2>1. "code" \in DOMAIN r /\ "guess" \in DOMAIN r
    BY <1>4 DEF Requests, Idle, Accounts
  <2> QED
    BY <1>4, <2>1 DEF Knows
<1> QED
  BY <1>1, <1>2, <1>3, <1>4 DEF Requests, Idle, Accounts

\* A code that is drawn is in no key and in no other request.
Fresh(h) ==
  request[h].op = "set" =>
    /\ \A e \in Emails : code[e] # request[h].code
    /\ \A g \in Handlers \ {h} : ~Knows(request[g], request[h].code)

\* A clean-up past its first DEL has deleted the code, or could not.
Undone(h) ==
  LET r == request[h]
  IN  r.op = "clear" =>
        /\ r.code = Nil => r.next = Idle
        /\ "code" \notin r.todo /\ r.code # Nil /\ code[r.email] = r.code => r.email \in orphans

CodeInv ==
  /\ TypeOK /\ SpentIsGone /\ StoredIsMailed
  /\ \A h \in Handlers : Fresh(h) /\ Undone(h)

\* What a handler in Sending(e) goes on to.
Sends(h) == request[h].op \in {"reset", "cool", "mail", "clear"}

LEMMA CodeGoes ==
  ASSUME TypeOK, TypeOK', NEW h \in Handlers, Serves(h)
  PROVE  /\ \A c \in Codes : Knows(request'[h], c) =>
              Knows(request[h], c) \/ (\E e \in Emails : code[e] = c) \/ CountSend(h, c)
         /\ request'[h].op = "set" => CountSend(h, request'[h].code)
         /\ request'[h].op = "clear" =>
              \/ /\ request'[h].code = Nil => request'[h].next = Idle
                 /\ "code" \notin request'[h].todo => request'[h].code = Nil
              \/ /\ request[h].op = "clear" /\ request'[h].email = request[h].email
                 /\ request'[h].code = request[h].code /\ request'[h].next = request[h].next
                 /\ \/ "code" \in request'[h].todo \/ "code" \notin request[h].todo
                    \/ ClearCode(h) \/ ClearKeyFails(h, "code")
         /\ Sends(h) =>
              \/ SendOTP(h) \/ Cleared(h) \/ Abort(h)
              \/ Sends(h)' /\ request'[h].email = request[h].email /\ request'[h].code = request[h].code
<1>1. request[h] \in Requests /\ request'[h] \in Requests
  BY DEF TypeOK
<1>2. \A c : Knows(request[h], c) <=>
        \/ request[h].op \in {"set", "reset", "cool", "mail", "attempt", "clear"} /\ request[h].code = c
        \/ request[h].op \in {"verify", "attempt"} /\ request[h].guess = c
  BY <1>1, KnowsTypes
<1>3. \A c : Knows(request'[h], c) <=>
        \/ request'[h].op \in {"set", "reset", "cool", "mail", "attempt", "clear"} /\ request'[h].code = c
        \/ request'[h].op \in {"verify", "attempt"} /\ request'[h].guess = c
  BY <1>1, KnowsTypes
<1>4. Nil \notin Codes
  BY RegistrationAssumption
<1>5. CASE Starts(h)
  <2>1. request[h].op = "idle"
    BY <1>5, StartsGo DEF Idle
  <2> QED
    BY <1>3, <1>4, <1>5, <2>1, StartsGo DEF Sends
<1>6. CASE RegisterSteps(h) \/ SaveConfig(h) \/ Cleared(h)
  <2>1. Sends(h) => Cleared(h)
    BY <1>6 DEF Sends, RegisterSteps, GetOTP, Attempt, Count, CheckTaken, StoreUser, SaveConfig
  <2>2. request[h].op = "attempt" => request[h].code \in Codes
    BY <1>1, RequestTypes
  <2> QED
    BY <1>2, <1>3, <1>4, <1>6, <2>1, <2>2, RegisterGo
<1>7. CASE Abort(h)
  <2>1. request'[h] = Idle
    BY <1>7, ServesOne DEF Abort, Finish
  <2> QED
    BY <1>3, <1>7, <2>1 DEF Idle
<1>8. CASE ClearSteps(h)
  <2>1. PICK k : Cleaning(h, k) /\ (k = "code" => ClearCode(h) \/ ClearKeyFails(h, "code"))
    BY <1>8 DEF ClearSteps, ClearCode, ClearAttempts, ClearCooldown, ClearSendCount, ClearKeyFails
  <2> QED
    BY <1>2, <1>3, <2>1, CleaningTypes DEF Sends
<1>9. CASE SendSteps(h)
  <2>1. request[h] \in Coded => request[h].op \in {"set", "reset", "cool", "mail"} /\ request[h].code \in Codes
    BY DEF Coded
  <2>2. ASSUME NEW c \in Codes, CountSend(h, c)
        PROVE  request[h].op = "count"
    BY <2>2 DEF CountSend
  <2>3. CheckCooldown(h) => request[h].op = "cooldown"
    BY DEF CheckCooldown
  <2>4. SetOTP(h) \/ SetOTPFails(h) => request[h].op = "set"
    BY DEF SetOTP, SetOTPFails
  <2>5. CASE CheckCooldown(h) \/ \E c \in Codes : CountSend(h, c)
    BY <1>3, <1>9, <2>2, <2>3, <2>5, SendGo DEF Sends
  <2>6. CASE SetOTP(h) \/ ResetAttempts(h) \/ SetCooldown(h)
    BY <1>2, <1>3, <1>9, <2>1, <2>6, SendGo DEF Sends
  <2>7. CASE SetOTPFails(h) \/ SetCooldownFails(h) \/ SendOTPFails(h) \/ SendOTP(h)
    BY <1>2, <1>3, <1>4, <1>9, <2>1, <2>4, <2>7, SendGo DEF Sends
  <2> QED
    BY <1>9, <2>5, <2>6, <2>7 DEF SendSteps
<1> QED
  BY <1>5, <1>6, <1>7, <1>8, <1>9 DEF Serves

Spends(h, e) == /\ Cleared(h) /\ request[h].next # Idle /\ request[h].email = e
                /\ code[e] = request[h].code

\* What becomes of a stored code in one step.
LEMMA CodeStep ==
  ASSUME TypeOK, [Next]_vars, NEW e \in Emails
  PROVE  \/ code'[e] = Nil /\ e \notin spent'
         \/ \E h \in Handlers : /\ SetOTP(h) /\ request[h].email = e
                               /\ code'[e] = request[h].code /\ e \notin spent'
         \/ /\ code'[e] = code[e] /\ (e \in orphans => e \in orphans') /\ (e \in mailed => e \in mailed')
            /\ e \in spent' => e \in spent \/ \E h \in Handlers : Spends(h, e)
<1>1. ASSUME NEW f, NEW c, Store(f, c)
      PROVE  \/ f = e /\ code'[e] = c /\ e \notin spent'
             \/ /\ code'[e] = code[e] /\ (e \in orphans => e \in orphans')
                /\ (e \in mailed => e \in mailed') /\ (e \in spent' => e \in spent)
  BY <1>1 DEF Store, TypeOK
<1>2. ASSUME \E f : Store(f, Nil)
      PROVE  \/ code'[e] = Nil /\ e \notin spent'
             \/ /\ code'[e] = code[e] /\ (e \in orphans => e \in orphans')
                /\ (e \in mailed => e \in mailed') /\ (e \in spent' => e \in spent)
  BY <1>1, <1>2
<1>3. CASE Outside \/ UNCHANGED vars
  <2>1. (\E f : Store(f, Nil)) \/ UNCHANGED <<code, orphans, mailed, spent>>
    BY <1>3 DEF Outside, DeleteUser, ExpireCode, ExpireAttempts, ExpireCooldown, ExpireSent, vars,
       redis, history, ofCode
  <2> QED
    BY <1>2, <2>1
<1>4. ASSUME NEW h \in Handlers, Serves(h)
      PROVE  \/ \E f : Store(f, Nil)
             \/ SetOTP(h)
             \/ /\ UNCHANGED code /\ mailed \subseteq mailed' /\ orphans \subseteq orphans'
                /\ UNCHANGED spent \/ Cleared(h)
  <2>1. CASE Starts(h) \/ RegisterSteps(h) \/ SaveConfig(h) \/ Abort(h)
    BY <2>1 DEF Starts, SendRegisterOTP, Register, GoogleRegistration, AdminCreateUser, ReadConfig,
       RegisterSteps, GetOTP, CheckTaken, StoreUser, Attempt, Count,
       SaveConfig, Abort, Abandoned, redis, history, ofCode
  <2>2. CASE SendSteps(h)
    BY <2>2 DEF SendSteps, CheckCooldown, CountSend, SetOTP, SetOTPFails, ResetAttempts, SetCooldown,
       SetCooldownFails, SendOTP, SendOTPFails, Delivered, redis, history, ofCode
  <2>3. CASE ClearSteps(h)
    BY <2>3 DEF ClearSteps, ClearCode, ClearAttempts, ClearCooldown, ClearSendCount, ClearKeyFails,
       Abandoned, redis, history, ofCode
  <2>4. CASE Cleared(h)
    BY <2>4 DEF Cleared, redis
  <2> QED
    BY <1>4, <2>1, <2>2, <2>3, <2>4 DEF Serves
<1>5. ASSUME NEW h \in Handlers, SetOTP(h)
      PROVE  \/ request[h].email = e /\ code'[e] = request[h].code /\ e \notin spent'
             \/ /\ code'[e] = code[e] /\ (e \in orphans => e \in orphans')
                /\ (e \in mailed => e \in mailed') /\ (e \in spent' => e \in spent)
  BY <1>1, <1>5 DEF SetOTP
<1>6. ASSUME NEW h \in Handlers, Cleared(h)
      PROVE  e \in spent' => e \in spent \/ Spends(h, e)
  BY <1>6 DEF Cleared, Spends
<1>7. Outside \/ UNCHANGED vars \/ \E h \in Handlers : Serves(h)
  BY DEF Next, Outside, Serves
<1>8. CASE \E h \in Handlers : Serves(h)
  <2>1. PICK h \in Handlers : Serves(h)
    BY <1>8
  <2>2. CASE \E f : Store(f, Nil)
    BY <1>2, <2>2
  <2>3. CASE SetOTP(h)
    BY <1>5, <2>3
  <2>4. CASE /\ UNCHANGED code /\ mailed \subseteq mailed' /\ orphans \subseteq orphans'
             /\ UNCHANGED spent \/ Cleared(h)
    BY <1>6, <2>4
  <2> QED
    BY <1>4, <2>1, <2>2, <2>3, <2>4
<1> QED
  BY <1>3, <1>7, <1>8

LEMMA StepFresh ==
  ASSUME CodeInv, TypeOK', [Next]_vars, NEW h \in Handlers
  PROVE  Fresh(h)'
<1> USE DEF CodeInv
<1> DEFINE c == request'[h].code
<1> SUFFICES ASSUME request'[h].op = "set"
             PROVE  /\ \A e \in Emails : code'[e] # c
                    /\ \A g \in Handlers \ {h} : ~Knows(request'[g], c)
  BY DEF Fresh
<1>1. c \in Codes /\ c # Nil
  BY RequestTypes, RegistrationAssumption DEF TypeOK, Coded
<1>2. CASE Outside \/ UNCHANGED vars
  <2>1. request' = request
    BY <1>2 DEF Outside, DeleteUser, ExpireCode, ExpireAttempts, ExpireCooldown, ExpireSent, vars
  <2>2. ASSUME NEW g \in Handlers, SetOTP(g)
        PROVE  FALSE
    <3>1. SendSteps(g)
      BY <2>2 DEF SendSteps
    <3> QED
      BY <2>1, <2>2, <3>1, SendGo DEF SetOTP
  <2> QED
    BY <1>1, <2>1, <2>2, CodeStep DEF Fresh
<1>3. ASSUME Serves(h)
      PROVE  /\ \A e \in Emails : code'[e] # c
             /\ \A g \in Handlers \ {h} : ~Knows(request'[g], c)
  <2>1. CountSend(h, c)
    BY <1>3, CodeGoes
  <2>2. ~InUse(c) /\ UNCHANGED code
    BY <2>1 DEF CountSend
  <2> HIDE DEF c
  <2> QED
    BY <1>3, <2>2, ServesOne DEF InUse
<1>4. ASSUME NEW k \in Handlers \ {h}, Serves(k)
      PROVE  /\ \A e \in Emails : code'[e] # c
             /\ \A g \in Handlers \ {h} : ~Knows(request'[g], c)
  <2>1. request'[h] = request[h] /\ Fresh(h)
    BY <1>4, ServesOne
  <2>2. (\A e \in Emails : code[e] # c) /\ \A g \in Handlers \ {h} : ~Knows(request[g], c)
    BY <2>1 DEF Fresh
  <2>3. Knows(request[h], c) /\ request[h].op = "set"
    BY <2>1, KnowsTypes DEF TypeOK
  <2>4. ASSUME NEW g \in Handlers, SetOTP(g)
        PROVE  request[g].code # c
    <3>1. g # h
      <4>1. SUFFICES ASSUME SetOTP(h) PROVE FALSE
        BY <2>4
      <4>2. SendSteps(h) /\ Serves(h)
        BY <4>1 DEF SendSteps, Serves
      <4> QED
        BY <4>1, <4>2, SendGo
    <3>2. request[g].op = "set"
      BY <2>4 DEF SetOTP
    <3>3. Knows(request[g], request[g].code)
      BY <3>2, KnowsTypes DEF TypeOK
    <3> QED
      BY <2>2, <3>1, <3>3
  <2>5. \A e \in Emails : code'[e] # c
    BY <1>1, <2>2, <2>4, CodeStep
  <2>6. ~CountSend(k, c)
    BY <2>3 DEF CountSend, InUse
  <2>7. ~Knows(request'[k], c)
    BY <1>1, <1>4, <2>2, <2>6, CodeGoes
  <2> QED
    BY <1>4, <2>2, <2>5, <2>7, ServesOne
<1> QED
  BY <1>2, <1>3, <1>4 DEF Next, Outside, Serves

LEMMA StepUndone ==
  ASSUME CodeInv, TypeOK', [Next]_vars, NEW h \in Handlers
  PROVE  Undone(h)'
<1> USE DEF CodeInv
<1> DEFINE r == request[h]
           e == r.email
<1>1. request'[h].op # "clear" \/ (request'[h] \in Cleanings /\ request'[h].email \in Emails)
  BY RequestTypes DEF TypeOK, Cleanings
<1>2. ASSUME r.op = "clear", r.code = Nil => r.next = Idle, request'[h].op = "clear",
             request'[h].email = e, request'[h].code = r.code, request'[h].next = r.next,
             \/ "code" \in request'[h].todo \/ "code" \notin r.todo
             \/ ClearCode(h) \/ ClearKeyFails(h, "code")
      PROVE  Undone(h)'
  <2> SUFFICES ASSUME "code" \notin request'[h].todo, r.code # Nil, code'[e] = r.code
               PROVE  e \in orphans'
    BY <1>2 DEF Undone
  <2>1. e \in Emails /\ Undone(h)
    BY <1>1, <1>2
  <2>2. CASE ClearCode(h)
    <3>1. code'[e] = Nil
      BY <2>1, <2>2 DEF ClearCode, Store, TypeOK
    <3> QED
      BY <3>1
  <2>3. CASE ClearKeyFails(h, "code")
    <3>1. UNCHANGED code /\ orphans' = Abandoned(r)
      BY <2>3 DEF ClearKeyFails, redis
    <3> QED
      BY <1>2, <3>1 DEF Abandoned
  <2>4. CASE "code" \notin r.todo
    <3>1. ASSUME NEW g \in Handlers, SetOTP(g), code'[e] = request[g].code
          PROVE  FALSE
      <4>1. request[g].op = "set" /\ g # h
        BY <1>2, <3>1 DEF SetOTP
      <4>2. ~Knows(r, request[g].code)
        BY <4>1 DEF Fresh
      <4>3. Knows(r, r.code)
        BY <1>2, KnowsTypes DEF TypeOK
      <4> QED
        BY <3>1, <4>2, <4>3
    <3>2. code'[e] = code[e] /\ (e \in orphans => e \in orphans')
      BY <2>1, <3>1, CodeStep
    <3> QED
      BY <1>2, <2>1, <2>4, <3>2 DEF Undone
  <2> QED
    BY <1>2, <2>2, <2>3, <2>4
<1>3. CASE request' = request
  <2>1. CASE r.op = "clear"
    <3>1. Undone(h)
      OBVIOUS
    <3>2. r.code = Nil => r.next = Idle
      BY <2>1, <3>1 DEF Undone
    <3>3. CASE "code" \in r.todo
      BY <1>2, <1>3, <2>1, <3>2, <3>3
    <3>4. CASE "code" \notin r.todo
      BY <1>2, <1>3, <2>1, <3>2, <3>4
    <3> QED
      BY <3>3, <3>4
  <2>2. CASE r.op # "clear"
    BY <1>3, <2>2 DEF Undone
  <2> QED
    BY <2>1, <2>2
<1>4. ASSUME NEW k \in Handlers, Serves(k)
      PROVE  Undone(h)'
  <2>1. CASE request'[h].op = "clear" /\ request'[h] = request[h]
    <3>1. Undone(h)
      OBVIOUS
    <3>2. r.op = "clear" /\ (r.code = Nil => r.next = Idle)
      BY <2>1, <3>1 DEF Undone
    <3> QED
      BY <1>2, <2>1, <3>2
  <2>2. CASE request'[h].op = "clear" /\ k = h
    <3>1. Undone(h)
      OBVIOUS
    <3>2. CASE /\ request'[h].code = Nil => request'[h].next = Idle
               /\ "code" \notin request'[h].todo => request'[h].code = Nil
      BY <3>2 DEF Undone
    <3>3. CASE /\ r.op = "clear" /\ request'[h].email = e
               /\ request'[h].code = r.code /\ request'[h].next = r.next
               /\ \/ "code" \in request'[h].todo \/ "code" \notin r.todo
                  \/ ClearCode(h) \/ ClearKeyFails(h, "code")
      <4>1. r.code = Nil => r.next = Idle
        BY <3>1, <3>3 DEF Undone
      <4> QED
        BY <1>2, <2>2, <3>3, <4>1
    <3> QED
      BY <1>4, <2>2, <3>2, <3>3, CodeGoes
  <2>3. CASE request'[h].op # "clear"
    BY <2>3 DEF Undone
  <2>4. k = h \/ request'[h] = request[h]
    BY <1>4, ServesOne
  <2> QED
    BY <2>1, <2>2, <2>3, <2>4
<1>5. Outside \/ UNCHANGED vars => request' = request
  BY DEF Outside, DeleteUser, ExpireCode, ExpireAttempts, ExpireCooldown, ExpireSent, vars
<1> QED
  BY <1>3, <1>4, <1>5 DEF Next, Outside, Serves

LEMMA StepSpent ==
  ASSUME CodeInv, [Next]_vars
  PROVE  SpentIsGone'
<1> USE DEF CodeInv
<1> SUFFICES ASSUME NEW e \in spent'
             PROVE  e \in orphans'
  BY DEF SpentIsGone
<1>1. ASSUME NEW h \in Handlers, Spends(h, e)
      PROVE  e \in orphans
  <2>1. request[h].op = "clear" /\ request[h].todo = {} /\ request[h].next # Idle
        /\ request[h].email = e /\ code[e] = request[h].code
    BY <1>1 DEF Spends, Cleared
  <2> QED
    BY <2>1 DEF Undone
<1>2. CASE e \in Emails
  <2>1. (e \in orphans => e \in orphans') /\ (e \in spent \/ \E h \in Handlers : Spends(h, e))
    BY <1>2, CodeStep
  <2> QED
    BY <1>1, <2>1 DEF SpentIsGone
<1>3. TypeOK'
  BY StepTypes
<1> QED
  BY <1>2, <1>3 DEF TypeOK

LEMMA StepStored ==
  ASSUME CodeInv, TypeOK', [Next]_vars
  PROVE  StoredIsMailed'
<1> USE DEF CodeInv
<1> SUFFICES ASSUME NEW e \in Emails, code'[e] # Nil
             PROVE  e \in mailed' \cup orphans' \/ Sending(e)'
  BY DEF StoredIsMailed
<1>1. ASSUME NEW h \in Handlers, SetOTP(h), request[h].email = e, code'[e] = request[h].code
      PROVE  Sending(e)'
  <2>1. SendSteps(h)
    BY <1>1 DEF SendSteps
  <2> QED
    BY <1>1, <2>1, SendGo DEF Sending
<1>2. CASE code'[e] = code[e] /\ (e \in orphans => e \in orphans') /\ (e \in mailed => e \in mailed')
  <2>1. CASE e \in mailed \cup orphans
    BY <1>2, <2>1
  <2>2. ASSUME NEW h \in Handlers, Sends(h), request[h].email = e, request[h].code = code[e]
        PROVE  e \in mailed' \cup orphans' \/ Sending(e)'
    <3>1. CASE request'[h] = request[h]
      BY <1>2, <2>2, <3>1 DEF Sending, Sends
    <3>2. CASE Serves(h)
      <4>1. CASE Sends(h)' /\ request'[h].email = request[h].email /\ request'[h].code = request[h].code
        BY <1>2, <2>2, <4>1 DEF Sending, Sends
      <4>2. CASE SendOTP(h)
        BY <2>2, <4>2 DEF SendOTP, Delivered
      <4>3. CASE Cleared(h)
        <5>1. request[h].op = "clear" /\ request[h].todo = {}
          BY <4>3 DEF Cleared
        <5>2. e \in orphans
          BY <1>2, <2>2, <5>1 DEF Undone
        <5> QED
          BY <1>2, <5>2
      <4>4. CASE Abort(h)
        BY <1>2, <2>2, <4>4 DEF Abort, Abandoned, Sends
      <4> QED
        BY <2>2, <3>2, <4>1, <4>2, <4>3, <4>4, CodeGoes
    <3>3. request'[h] = request[h] \/ Serves(h)
      <4>1. Outside \/ UNCHANGED vars => request' = request
        BY DEF Outside, DeleteUser, ExpireCode, ExpireAttempts, ExpireCooldown, ExpireSent, vars
      <4>2. Outside \/ UNCHANGED vars \/ \E k \in Handlers : Serves(k)
        BY DEF Next, Outside, Serves
      <4> QED
        BY <4>1, <4>2, ServesOne
    <3> QED
      BY <3>1, <3>2, <3>3
  <2>3. e \in mailed \cup orphans \/ Sending(e)
    BY <1>2 DEF StoredIsMailed
  <2> QED
    BY <2>1, <2>2, <2>3 DEF Sending, Sends
<1> QED
  BY <1>1, <1>2, CodeStep

LEMMA CodesKept == Spec => []CodeInv
<1>1. Init => CodeInv
  <2> SUFFICES ASSUME Init
               PROVE  CodeInv
    OBVIOUS
  <2>1. TypeOK /\ spent = {} /\ \A e \in Emails : code[e] = Nil
    BY InitTypes DEF Init
  <2>2. \A h \in Handlers : request[h].op = "idle"
    BY DEF Init, Idle
  <2> QED
    BY <2>1, <2>2 DEF CodeInv, SpentIsGone, StoredIsMailed, Fresh, Undone
<1>2. CodeInv /\ [Next]_vars => CodeInv'
  <2> SUFFICES ASSUME CodeInv, [Next]_vars
               PROVE  CodeInv'
    OBVIOUS
  <2>1. TypeOK'
    BY StepTypes DEF CodeInv
  <2> QED
    BY <2>1, StepFresh, StepUndone, StepSpent, StepStored DEF CodeInv
<1> QED
  BY <1>1, <1>2, PTL DEF Spec

\* A code that has proved a finished request can be read by nobody any more,
\* however many verifications and sends overlap, unless Redis refused its DEL or
\* the request that was to delete it died (otp_service.go:144).
THEOREM CodesAreSpentOnce == Spec => []SpentIsGone
<1>1. CodeInv => SpentIsGone
  BY DEF CodeInv
<1> QED
  BY <1>1, CodesKept, PTL

\* A code that stays in Redis reached its mailbox, unless its sender is still at
\* it, died, or could not delete it (otp_service.go:93).
THEOREM NoCodeIsUnknown == Spec => []StoredIsMailed
<1>1. CodeInv => StoredIsMailed
  BY DEF CodeInv
<1> QED
  BY <1>1, CodesKept, PTL

=============================================================================
