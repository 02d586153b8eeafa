----------------------------- MODULE Registration -----------------------------
(***************************************************************************)
(* Opening an account: the one-time codes kept in Redis, the requests that *)
(* send and verify them, and the insertion into the users table by a       *)
(* registration, an administrator or a first Google login.                 *)
(*                                                                         *)
(* Every Redis command and every query is a round trip of its own; what a  *)
(* handler holds between two of them is in request[h].  A code is the draw *)
(* itself: two draws that happen to show the same digits are two codes.    *)
(***************************************************************************)
EXTENDS Naturals, FiniteSets

CONSTANTS
  Emails, Phones, Ids, Codes, Handlers,
  Applicants,   \* what people register with
  Staff,        \* what administrators create accounts with
  Settings,     \* configuration updates an administrator sends
  Undeletable,  \* keys whose DEL may fail
  MaxAttempts,  \* OTP_MAX_ATTEMPTS
  RateLimit,    \* OTP_RATE_LIMIT
  Nil

ConfigKeys == {"registration", "otp"}
People == [email: Emails, phone: Phones \cup {Nil}]
ConfigUpdates == [key: ConfigKeys, value: BOOLEAN, active: BOOLEAN \cup {Nil}]

ASSUME RegistrationAssumption ==
  /\ Nil \notin Emails \cup Phones \cup Ids \cup Codes \cup BOOLEAN
  /\ Applicants \subseteq People /\ Staff \subseteq People
  /\ Settings \subseteq ConfigUpdates
  /\ Undeletable \subseteq {"code", "attempts", "cooldown", "sent"}
  /\ MaxAttempts \in Nat \ {0} /\ RateLimit \in Nat \ {0}
  /\ IsFiniteSet(Handlers)

\* A row of users, as far as the indexes look at it.
UserRow == [email: Emails, phone: Phones \cup {Nil}, live: BOOLEAN]
NoRow == [email |-> Nil]

\* A counter that stays where nothing tells its values apart any more.
Up(n, top) == IF n < top THEN n + 1 ELSE top

ConfigRow == [value: BOOLEAN, active: BOOLEAN]

VARIABLES
  config,    \* the app_configs rows of the two switches
  users,     \* the users table
  code,      \* otp:register:<email>
  attempts,  \* otp:attempt:<email>; 0 when the key is absent
  cooling,   \* addresses with a key otp:cooldown:<email>
  sent,      \* otp:rate:<email>; 0 when the key is absent
  request,   \* what each handler holds between two round trips
  burst,     \* history: mails sent since the cooldown key last appeared
  mailed,    \* history: addresses whose stored code reached the mailbox
  older,     \* history: addresses whose attempts key is older than the code
  wrong,     \* history: wrong guesses compared with the stored code
  dropped,   \* history: addresses whose attempts key went with guesses at the
             \* stored code on it
  spent,     \* history: addresses whose stored code proved a finished request
  orphans    \* history: addresses whose stored code could not be deleted, or
             \* whose sender or deleter died

redis == <<code, attempts, cooling, sent>>
database == <<config, users>>
ofCode == <<mailed, older, wrong, dropped, spent, orphans>>
history == <<burst, ofCode>>
vars == <<redis, database, request, history>>

\* The keys in the order in which every clean-up deletes them.
Keys == {"code", "attempts", "cooldown", "sent"}
Rank == [code |-> 1, attempts |-> 2, cooldown |-> 3, sent |-> 4]
First(S) == CHOOSE k \in S : \A j \in S : Rank[k] <= Rank[j]

Idle == [op |-> "idle"]
Accounts == [op: {"check", "store"}, who: People]

Requests ==
  {Idle} \cup Accounts
  \cup [op: {"config"}, update: ConfigUpdates, row: ConfigRow]
  \cup [op: {"cooldown", "count"}, email: Emails]
  \cup [op: {"set", "reset", "cool", "mail"}, email: Emails, code: Codes]
  \cup [op: {"verify"}, who: People, guess: Codes \cup {Nil}]
  \cup [op: {"attempt"}, who: People, guess: Codes \cup {Nil}, code: Codes]
  \cup [op: {"clear"}, email: Emails, code: Codes \cup {Nil}, todo: SUBSET Keys,
        next: {Idle} \cup Accounts]

Start(h, r) == request[h] = Idle /\ request' = [request EXCEPT ![h] = r]
Continue(h, r) == request' = [request EXCEPT ![h] = r]
Finish(h) == request' = [request EXCEPT ![h] = Idle]

\* IsEnabled: an inactive row counts for nothing, its fallback decides.
Enabled(k) == IF config[k].active THEN config[k].value ELSE k = "registration"

\* GetByEmail and GetByPhone do not see deleted rows; the unique indexes do.
Registered(who) ==
  \E i \in Ids : /\ users[i] # NoRow /\ users[i].live
                 /\ \/ users[i].email = who.email
                    \/ who.phone # Nil /\ users[i].phone = who.phone
Taken(who) ==
  \E i \in Ids : /\ users[i] # NoRow
                 /\ \/ users[i].email = who.email
                    \/ who.phone # Nil /\ users[i].phone = who.phone

-----------------------------------------------------------------------------
(* Redis keys.                                                             *)

\* The stored code changes or goes, and its past with it.
Store(e, c) ==
  /\ code' = [code EXCEPT ![e] = c]
  /\ wrong' = [wrong EXCEPT ![e] = 0]
  /\ mailed' = mailed \ {e} /\ dropped' = dropped \ {e}
  /\ spent' = spent \ {e} /\ orphans' = orphans \ {e}
  /\ older' = IF c # Nil /\ attempts[e] > 0 THEN older \cup {e} ELSE older \ {e}

\* The attempts key goes, and the guesses at the stored code are forgotten.
AttemptsGone(e) ==
  /\ attempts' = [attempts EXCEPT ![e] = 0]
  /\ older' = older \ {e}
  /\ dropped' = IF attempts[e] > 0 /\ wrong[e] > 0 THEN dropped \cup {e} ELSE dropped
  /\ wrong' = [wrong EXCEPT ![e] = 0]

CooldownGone(e) == cooling' = cooling \ {e} /\ burst' = [burst EXCEPT ![e] = 0]

Cleaning(h, k) ==
  LET r == request[h]
  IN  /\ r.op = "clear" /\ r.todo # {} /\ k = First(r.todo)
      /\ Continue(h, [r EXCEPT !.todo = @ \ {k}])

\* One DEL of a clean-up; its errors are ignored.
ClearCode(h) ==
  /\ Cleaning(h, "code") /\ Store(request[h].email, Nil)
  /\ UNCHANGED <<attempts, cooling, sent, database, burst>>

ClearAttempts(h) ==
  /\ Cleaning(h, "attempts") /\ AttemptsGone(request[h].email)
  /\ UNCHANGED <<code, cooling, sent, database, burst, mailed, spent, orphans>>

ClearCooldown(h) ==
  /\ Cleaning(h, "cooldown") /\ CooldownGone(request[h].email)
  /\ UNCHANGED <<code, attempts, sent, database, ofCode>>

ClearSendCount(h) ==
  /\ Cleaning(h, "sent") /\ sent' = [sent EXCEPT ![request[h].email] = 0]
  /\ UNCHANGED <<code, attempts, cooling, database, history>>

\* The code a request was to mail or to delete stays as it is.
Abandoned(r) ==
  IF r.op \in {"reset", "cool", "mail", "clear"} /\ r.code # Nil /\ code[r.email] = r.code
  THEN orphans \cup {r.email} ELSE orphans

ClearKeyFails(h, k) ==
  /\ Cleaning(h, k) /\ k \in Undeletable
  /\ orphans' = IF k = "code" THEN Abandoned(request[h]) ELSE orphans
  /\ UNCHANGED <<redis, database, burst, mailed, older, wrong, dropped, spent>>

\* A verification that cleaned up goes on to RegisterUser.
Cleared(h) ==
  LET r == request[h]
  IN  /\ r.op = "clear" /\ r.todo = {}
      /\ spent' = IF r.next # Idle /\ code[r.email] = r.code
                  THEN spent \cup {r.email} ELSE spent
      /\ Continue(h, r.next)
      /\ UNCHANGED <<redis, database, burst, mailed, older, wrong, dropped, orphans>>

\* A TTL runs out.  A code and its attempts key live equally long and the
\* attempts key starts later, so it can only go first if it was there before.
ExpireCode(e) ==
  /\ code[e] # Nil /\ Store(e, Nil)
  /\ UNCHANGED <<attempts, cooling, sent, database, request, burst>>

ExpireAttempts(e) ==
  /\ attempts[e] > 0 /\ (code[e] = Nil \/ e \in older)
  /\ AttemptsGone(e)
  /\ UNCHANGED <<code, cooling, sent, database, request, burst, mailed, spent, orphans>>

ExpireCooldown(e) ==
  /\ e \in cooling /\ CooldownGone(e)
  /\ UNCHANGED <<code, attempts, sent, database, request, ofCode>>

ExpireSent(e) ==
  /\ sent[e] > 0 /\ sent' = [sent EXCEPT ![e] = 0]
  /\ UNCHANGED <<code, attempts, cooling, database, request, history>>

-----------------------------------------------------------------------------
(* Sending a code.                                                         *)

Clearing(e, c, keys, next) ==
  [op |-> "clear", email |-> e, code |-> c, todo |-> keys, next |-> next]

\* The handler's checks; the phone is given or not.
SendRegisterOTP(h, who) ==
  /\ Enabled("registration") /\ Enabled("otp") /\ ~Registered(who)
  /\ Start(h, [op |-> "cooldown", email |-> who.email])
  /\ UNCHANGED <<redis, database, history>>

\* Mutant: the cooldown is not looked at.
SkipCooldown(h) ==
  /\ request[h].op = "cooldown"
  /\ Continue(h, [op |-> "count", email |-> request[h].email])
  /\ UNCHANGED <<redis, database, history>>

CheckCooldown(h) ==
  LET e == request[h].email
  IN  /\ request[h].op = "cooldown"
      /\ IF e \in cooling THEN Finish(h) ELSE Continue(h, [op |-> "count", email |-> e])
      /\ UNCHANGED <<redis, database, history>>

\* A code some key or handler still knows.
Knows(r, c) == \/ "code" \in DOMAIN r /\ r.code = c
               \/ "guess" \in DOMAIN r /\ r.guess = c
InUse(c) == (\E e \in Emails : code[e] = c) \/ (\E h \in Handlers : Knows(request[h], c))

\* IncrementSendCount.  Its EXPIRE may fail; a key without a TTL is one that
\* ExpireSent never takes.
CountSend(h, c) ==
  LET e == request[h].email
  IN  /\ request[h].op = "count" /\ ~InUse(c)
      /\ sent' = [sent EXCEPT ![e] = Up(@, RateLimit + 1)]
      /\ IF sent[e] >= RateLimit THEN Finish(h)
         ELSE Continue(h, [op |-> "set", email |-> e, code |-> c])
      /\ UNCHANGED <<code, attempts, cooling, database, history>>

SetOTP(h) ==
  LET r == request[h]
  IN  /\ r.op = "set" /\ Store(r.email, r.code)
      /\ Continue(h, [r EXCEPT !.op = "reset"])
      /\ UNCHANGED <<attempts, cooling, sent, database, burst>>

SetOTPFails(h) ==
  /\ request[h].op = "set"
  /\ Continue(h, Clearing(request[h].email, Nil, {"sent"}, Idle))
  /\ UNCHANGED <<redis, database, history>>

\* ResetAttempts for the new code; an error is ignored.
ResetAttempts(h) ==
  LET r == request[h]
  IN  /\ r.op = "reset"
      /\ AttemptsGone(r.email) \/ UNCHANGED <<attempts, older, wrong, dropped>>
      /\ Continue(h, [r EXCEPT !.op = "cool"])
      /\ UNCHANGED <<code, cooling, sent, database, burst, mailed, spent, orphans>>

SetCooldown(h) ==
  LET r == request[h]
  IN  /\ r.op = "cool"
      /\ cooling' = cooling \cup {r.email}
      /\ Continue(h, [r EXCEPT !.op = "mail"])
      /\ UNCHANGED <<code, attempts, sent, database, history>>

SetCooldownFails(h) ==
  LET r == request[h]
  IN  /\ r.op = "cool"
      /\ Continue(h, Clearing(r.email, r.code, {"code", "attempts", "sent"}, Idle))
      /\ UNCHANGED <<redis, database, history>>

\* The mail reaches its mailbox.
Delivered(r) ==
  /\ mailed' = IF code[r.email] = r.code THEN mailed \cup {r.email} ELSE mailed
  /\ burst' = IF r.email \in cooling
              THEN [burst EXCEPT ![r.email] = Up(@, Cardinality(Handlers) + 1)] ELSE burst
  /\ UNCHANGED <<redis, database, older, wrong, dropped, spent, orphans>>

SendOTP(h) ==
  /\ request[h].op = "mail" /\ Delivered(request[h])
  /\ Finish(h)

\* Mutant: the code of a mail that failed is left in Redis.
SendOTPFailsKeeping(h) ==
  LET r == request[h]
  IN  /\ r.op = "mail"
      /\ Delivered(r) \/ UNCHANGED <<redis, database, history>>
      /\ Continue(h, Clearing(r.email, r.code, {"attempts", "cooldown", "sent"}, Idle))

\* The mailer reports an error; the mail may have gone out all the same.
SendOTPFails(h) ==
  LET r == request[h]
  IN  /\ r.op = "mail"
      /\ Delivered(r) \/ UNCHANGED <<redis, database, history>>
      /\ Continue(h, Clearing(r.email, r.code, Keys, Idle))

-----------------------------------------------------------------------------
(* Registering.                                                            *)

Checking(who) == [op |-> "check", who |-> who]

\* The two switches decide whether a code is asked for.  What people enter is
\* the code in their mailbox or a wrong or outdated one.
Register(h, who, guess) ==
  LET known == IF who.email \in mailed THEN {code[who.email]} ELSE {}
  IN  /\ Enabled("registration") /\ guess \in known \cup {Nil}
      /\ Start(h, IF Enabled("otp") THEN [op |-> "verify", who |-> who, guess |-> guess]
                  ELSE Checking(who))
      /\ UNCHANGED <<redis, database, history>>

\* Mutant: a missing code is not told from a stored one.
GetOTPUnchecked(h) ==
  LET r == request[h]
  IN  /\ r.op = "verify"
      /\ Continue(h, [op |-> "attempt", who |-> r.who, guess |-> r.guess,
                      code |-> code[r.who.email]])
      /\ UNCHANGED <<redis, database, history>>

GetOTP(h) ==
  LET r == request[h]
      c == code[r.who.email]
  IN  /\ r.op = "verify"
      /\ IF c = Nil THEN Finish(h)
         ELSE Continue(h, [op |-> "attempt", who |-> r.who, guess |-> r.guess, code |-> c])
      /\ UNCHANGED <<redis, database, history>>

\* Mutant: a code that matched is left to its TTL.
JudgedKeeping(r, n) ==
  IF n > MaxAttempts \/ (r.guess # r.code /\ n >= MaxAttempts)
  THEN Clearing(r.who.email, r.code, {"code", "attempts"}, Idle)
  ELSE IF r.guess # r.code THEN Idle
  ELSE Clearing(r.who.email, r.code, Keys \ {"code"}, Checking(r.who))

\* What VerifyRegisterOTP does at the n-th attempt, on the code it read before.
Judged(r, n) ==
  IF n > MaxAttempts \/ (r.guess # r.code /\ n >= MaxAttempts)
  THEN Clearing(r.who.email, r.code, {"code", "attempts"}, Idle)
  ELSE IF r.guess # r.code THEN Idle
  ELSE Clearing(r.who.email, r.code, Keys, Checking(r.who))

\* IncrementAttempts, and what a comparison adds to the history.
Count(r, n, compared) ==
  LET e == r.who.email
  IN  /\ r.op = "attempt"
      /\ attempts' = [attempts EXCEPT ![e] = n]
      /\ wrong' = IF compared /\ r.guess # r.code /\ code[e] = r.code /\ e \notin dropped
                  THEN [wrong EXCEPT ![e] = Up(@, MaxAttempts + 1)] ELSE wrong
      /\ UNCHANGED <<code, cooling, sent, database, burst, mailed, older, dropped, spent, orphans>>

\* Mutant: a count above the limit does not stop the comparison.
AttemptUnlimited(h) ==
  LET r == request[h]
  IN  /\ Count(r, Up(attempts[r.who.email], MaxAttempts + 1), TRUE)
      /\ IF r.guess # r.code THEN Finish(h)
         ELSE Continue(h, Clearing(r.who.email, r.code, Keys, Checking(r.who)))

\* The count comes first; above the limit nothing is compared.
Attempt(h) ==
  LET r == request[h]
      n == Up(attempts[r.who.email], MaxAttempts + 1)
  IN  Count(r, n, n <= MaxAttempts) /\ Continue(h, Judged(r, n))

-----------------------------------------------------------------------------
(* The users table.                                                        *)

\* AdminCreateUser, and LoginWithGoogle for an address without an account.
AdminCreateUser(h, who) ==
  /\ Start(h, Checking(who))
  /\ UNCHANGED <<redis, database, history>>

GoogleRegistration(h, e) ==
  LET who == [email |-> e, phone |-> Nil]
  IN  /\ Enabled("registration") /\ ~Registered(who)
      /\ Start(h, [op |-> "store", who |-> who])
      /\ UNCHANGED <<redis, database, history>>

\* RegisterUser looks for the address and the phone; a query that fails counts
\* as finding nothing.
CheckTaken(h) ==
  LET r == request[h]
  IN  /\ r.op = "check"
      /\ \/ Registered(r.who) /\ Finish(h)
         \/ Continue(h, [r EXCEPT !.op = "store"])
      /\ UNCHANGED <<redis, database, history>>

\* Mutant: the indexes leave deleted rows out, as the queries do.
StoreBesideDeleted(h, i) ==
  LET r == request[h]
  IN  /\ r.op = "store" /\ users[i] = NoRow
      /\ users' = IF Registered(r.who) THEN users
                  ELSE [users EXCEPT ![i] = [email |-> r.who.email, phone |-> r.who.phone,
                                             live |-> TRUE]]
      /\ Finish(h)
      /\ UNCHANGED <<redis, config, history>>

\* Store: the unique indexes cover deleted rows too.
StoreUser(h, i) ==
  LET r == request[h]
  IN  /\ r.op = "store" /\ users[i] = NoRow
      /\ users' = IF Taken(r.who) THEN users
                  ELSE [users EXCEPT ![i] = [email |-> r.who.email, phone |-> r.who.phone,
                                             live |-> TRUE]]
      /\ Finish(h)
      /\ UNCHANGED <<redis, config, history>>

\* Delete of the users service is a soft delete.
DeleteUser(i) ==
  /\ users[i] # NoRow /\ users[i].live
  /\ users' = [users EXCEPT ![i].live = FALSE]
  /\ UNCHANGED <<redis, config, request, history>>

-----------------------------------------------------------------------------
(* The switches.                                                           *)

\* AppConfigService.Update reads the row and saves all of it.
ReadConfig(h, update) ==
  /\ Start(h, [op |-> "config", update |-> update, row |-> config[update.key]])
  /\ UNCHANGED <<redis, database, history>>

SaveConfig(h) ==
  LET r == request[h]
      u == r.update
  IN  /\ r.op = "config"
      /\ config' = [config EXCEPT ![u.key] =
                      [value |-> u.value,
                       active |-> IF u.active = Nil THEN r.row.active ELSE u.active]]
      /\ Finish(h)
      /\ UNCHANGED <<redis, users, history>>

\* A failing call, a canceled request or a crash ends a request half-way.
Abort(h) ==
  /\ request[h] # Idle
  /\ orphans' = Abandoned(request[h])
  /\ Finish(h)
  /\ UNCHANGED <<redis, database, burst, mailed, older, wrong, dropped, spent>>

Init ==
  /\ \E otp \in BOOLEAN :
       config = [k \in ConfigKeys |-> [value |-> TRUE, active |-> k = "otp" => otp]]
  /\ users = [i \in Ids |-> NoRow]
  /\ code = [e \in Emails |-> Nil] /\ attempts = [e \in Emails |-> 0]
  /\ cooling = {} /\ sent = [e \in Emails |-> 0]
  /\ request = [h \in Handlers |-> Idle]
  /\ burst = [e \in Emails |-> 0] /\ wrong = [e \in Emails |-> 0]
  /\ mailed = {} /\ older = {} /\ dropped = {} /\ spent = {} /\ orphans = {}

Starts(h) ==
  \/ \E who \in Applicants :
       \/ SendRegisterOTP(h, who)
       \/ \E guess \in Codes \cup {Nil} : Register(h, who, guess)
       \/ GoogleRegistration(h, who.email)
  \/ \E who \in Staff : AdminCreateUser(h, who)
  \/ \E update \in Settings : ReadConfig(h, update)

SendSteps(h) ==
  \/ CheckCooldown(h) \/ \E c \in Codes : CountSend(h, c)
  \/ SetOTP(h) \/ SetOTPFails(h) \/ ResetAttempts(h)
  \/ SetCooldown(h) \/ SetCooldownFails(h) \/ SendOTP(h) \/ SendOTPFails(h)

RegisterSteps(h) ==
  \/ GetOTP(h) \/ Attempt(h)
  \/ CheckTaken(h) \/ \E i \in Ids : StoreUser(h, i)

ClearSteps(h) ==
  \/ ClearCode(h) \/ ClearAttempts(h) \/ ClearCooldown(h) \/ ClearSendCount(h)
  \/ \E k \in Keys : ClearKeyFails(h, k)

Next ==
  \/ \E h \in Handlers :
       \/ Starts(h) \/ SendSteps(h) \/ RegisterSteps(h) \/ SaveConfig(h)
       \/ ClearSteps(h) \/ Cleared(h) \/ Abort(h)
  \/ \E i \in Ids : DeleteUser(i)
  \/ \E e \in Emails : ExpireCode(e) \/ ExpireAttempts(e) \/ ExpireCooldown(e) \/ ExpireSent(e)

Spec == Init /\ [][Next]_vars

-----------------------------------------------------------------------------
(* Properties.                                                             *)

\* Every key, row and handler has the shape the code gives it.
TypeOK ==
  /\ config \in [ConfigKeys -> ConfigRow]
  /\ users \in [Ids -> UserRow \cup {NoRow}]
  /\ code \in [Emails -> Codes \cup {Nil}] /\ attempts \in [Emails -> Nat]
  /\ cooling \subseteq Emails /\ sent \in [Emails -> Nat]
  /\ request \in [Handlers -> Requests]
  /\ burst \in [Emails -> Nat] /\ wrong \in [Emails -> Nat]
  /\ mailed \subseteq Emails /\ older \subseteq Emails /\ dropped \subseteq Emails
  /\ spent \subseteq Emails /\ orphans \subseteq Emails

\* Two accounts, deleted ones included, never share an address or a phone,
\* however many requests saw it free at once (user_service.go:45).
OneAccount ==
  \A i, j \in Ids :
    i # j /\ users[i] # NoRow /\ users[j] # NoRow =>
      /\ users[i].email # users[j].email
      /\ users[i].phone = users[j].phone => users[i].phone = Nil

\* A code in Redis has withstood no more than MaxAttempts wrong guesses, however
\* many verifications overlap, unless its attempts key was deleted or ran out
\* under it (otp_service.go:124).
GuessesBounded == \A e \in Emails \ dropped : wrong[e] <= MaxAttempts

\* Once a verification has succeeded and cleaned up, nobody can read its code
\* any more, unless Redis failed to delete it or the request that was to delete
\* it died (otp_service.go:144).
SpentIsGone == spent \subseteq orphans

\* While a cooldown stands, only requests that looked before it was set send a
\* mail: never more than there are handlers (otp_service.go:57).
CooldownHolds == \A e \in Emails : burst[e] <= Cardinality(Handlers)

\* A code that stays in Redis was mailed, unless its sender is still at it,
\* died, or could not delete it: a failed delivery leaves no code behind that
\* nobody knows (otp_service.go:93).
Sending(e) ==
  \E h \in Handlers : /\ request[h].op \in {"reset", "cool", "mail", "clear"}
                      /\ request[h].email = e /\ request[h].code = code[e]

StoredIsMailed ==
  \A e \in Emails : code[e] # Nil => e \in mailed \cup orphans \/ Sending(e)

=============================================================================
