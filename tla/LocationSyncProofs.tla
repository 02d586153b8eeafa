-------------------------- MODULE LocationSyncProofs --------------------------
(***************************************************************************)
(* TLAPS proofs about LocationSync, for any tree of lists, any answers of  *)
(* the location service and any sets of jobs, instances and handlers.      *)
(***************************************************************************)
EXTENDS LocationSync, WellFoundedInduction, TLAPS

Goroutine == [at: Stages, on: Instances, plan: Plan]

Below == {p \in Nat \X Nat : p[1] < p[2]}

LEMMA BelowIsWellFounded == IsWellFoundedOn(Below, Nat)
<1>1. Below = OpToRel(<, Nat)
  BY Zenon DEF Below, OpToRel
<1> QED
  BY <1>1, NatLessThanWellFounded, Zenon

\* A sync that still has lists to go through goes through the first of them.
LEMMA FirstIsOne ==
  ASSUME NEW S \in SUBSET Keys, S # {}
  PROVE  First(S) \in S
<1> DEFINE Ranks == {Rank[k] : k \in S}
<1>1. \A k \in S : Rank[k] \in Nat
  BY LocationSyncAssumption
<1>2. Ranks \subseteq Nat /\ Ranks # {}
  BY <1>1
<1>3. PICK m \in Ranks : \A n \in Ranks : <<n, m>> \notin Below
  <2> HIDE DEF Ranks
  <2> QED
    BY <1>2, BelowIsWellFounded, WFMin
<1>4. PICK k \in S : m = Rank[k]
  OBVIOUS
<1>5. \A l \in S : Rank[k] <= Rank[l]
  <2>1. \A a, b \in Nat : a < b => <<a, b>> \in Below
    BY DEF Below
  <2>2. \A l \in S : ~(Rank[l] < Rank[k])
    BY <1>1, <1>3, <1>4, <2>1
  <2> QED
    BY <1>1, <2>2
<1> QED
  BY <1>4, <1>5 DEF First

-----------------------------------------------------------------------------
(* Types.                                                                  *)

LEMMA RequestTypes ==
  ASSUME TypeOK, NEW h \in Handlers
  PROVE  LET r == request[h]
         IN  /\ r # Idle => r.on \in Instances
             /\ r.op \in {"fetch", "fill", "publish"} => r.on \in Instances /\ r.key \in Keys
             /\ r.op \in {"fill", "publish"} => r.list \in Lists
             /\ r.op = "create" => r.on \in Instances /\ r.plan \in Plan
  BY DEF TypeOK, Requests, Idle

\* Job j goes on to a stage with some lists left, and every other job stays.
MovesTo(j, stage, todo) ==
  /\ work' \in [Jobs -> {NoWork} \cup Goroutine]
  /\ \A i \in Jobs \ {j} : work'[i] = work[i]
  /\ work'[j] \in Goroutine /\ work'[j].at = stage
  /\ work'[j].on = work[j].on /\ work'[j].plan.todo = todo

Ends(j) ==
  /\ work' \in [Jobs -> {NoWork} \cup Goroutine]
  /\ \A i \in Jobs \ {j} : work'[i] = work[i]
  /\ work'[j] = NoWork

LEMMA WorkTypes ==
  ASSUME TypeOK, NEW j \in Jobs, work[j].at # "none"
  PROVE  /\ work[j] \in Goroutine /\ Working(j)
         /\ work[j].at \in Stages /\ work[j].on \in Instances
         /\ work[j].plan \in Plan /\ work[j].plan.todo \in SUBSET Keys
  BY DEF TypeOK, Goroutine, NoWork, Working, Plan, Stages

LEMMA GotoMoves ==
  ASSUME TypeOK, NEW j \in Jobs, NEW stage \in Stages, work[j].at # "none", Goto(j, stage)
  PROVE  MovesTo(j, stage, work[j].plan.todo)
<1> DEFINE w == work[j]
<1>1. w \in Goroutine
  BY WorkTypes
<1>2. [w EXCEPT !.at = stage] \in Goroutine
  BY <1>1 DEF Goroutine
<1>3. work \in [Jobs -> {NoWork} \cup Goroutine]
  BY DEF TypeOK, Goroutine
<1>4. work' = [work EXCEPT ![j] = [w EXCEPT !.at = stage]]
  BY DEF Goto
<1>5. /\ [w EXCEPT !.at = stage].at = stage /\ [w EXCEPT !.at = stage].on = w.on
      /\ [w EXCEPT !.at = stage].plan = w.plan
  BY <1>1 DEF Goroutine
<1>6. /\ work' \in [Jobs -> {NoWork} \cup Goroutine] /\ work'[j] = [w EXCEPT !.at = stage]
      /\ \A i \in Jobs \ {j} : work'[i] = work[i]
  BY <1>2, <1>3, <1>4
<1> QED
  BY <1>2, <1>5, <1>6 DEF MovesTo

LEMMA GotoTodoMoves ==
  ASSUME TypeOK, NEW j \in Jobs, NEW stage \in Stages, NEW done, work[j].at # "none",
         work' = [work EXCEPT ![j].at = stage, ![j].plan.todo = @ \ done]
  PROVE  MovesTo(j, stage, work[j].plan.todo \ done)
<1> DEFINE w == work[j]
           left == w.plan.todo \ done
           v == [[w EXCEPT !.at = stage] EXCEPT !.plan.todo = left]
<1>1. w \in Goroutine /\ w.plan \in Plan /\ w.plan.todo \in SUBSET Keys
  BY WorkTypes
<1>2. [w.plan EXCEPT !.todo = left] \in Plan /\ [w.plan EXCEPT !.todo = left].todo = left
  BY <1>1 DEF Plan
<1>3. [w EXCEPT !.at = stage] \in Goroutine /\ [w EXCEPT !.at = stage].plan = w.plan
  BY <1>1 DEF Goroutine
<1>4. v = [[w EXCEPT !.at = stage] EXCEPT !.plan = [w.plan EXCEPT !.todo = left]]
  BY <1>3
<1>5. v \in Goroutine /\ v.at = stage /\ v.on = w.on /\ v.plan = [w.plan EXCEPT !.todo = left]
  BY <1>1, <1>2, <1>4 DEF Goroutine
<1>6. work \in [Jobs -> {NoWork} \cup Goroutine]
  BY DEF TypeOK, Goroutine
<1>7. work' = [work EXCEPT ![j] = v]
  BY <1>3, <1>6
<1>8. /\ work' \in [Jobs -> {NoWork} \cup Goroutine] /\ work'[j] = v
      /\ \A i \in Jobs \ {j} : work'[i] = work[i]
  <2> HIDE DEF v
  <2>1. \A i \in Jobs \ {j} : work'[i] = work[i]
    BY <1>6, <1>7
  <2>2. work'[j] = v
    BY <1>6, <1>7
  <2>3. work' \in [Jobs -> {NoWork} \cup Goroutine]
    BY <1>5, <1>6, <1>7
  <2> QED
    BY <2>1, <2>2, <2>3
<1> QED
  BY <1>2, <1>5, <1>8 DEF MovesTo

LEMMA ReturnMoves ==
  ASSUME TypeOK, NEW j \in Jobs, work[j].at # "none", Return(j)
  PROVE  /\ work[j].at = "refused" => Ends(j)
         /\ work[j].at # "refused" => MovesTo(j, "leave", work[j].plan.todo)
<1>1. CASE At(j, "refused")
  BY <1>1 DEF Return, At, Ends, TypeOK, Goroutine
<1>2. CASE ~At(j, "refused")
  <2>1. "leave" \in Stages /\ Goto(j, "leave")
    BY <1>2 DEF Return, Stages
  <2> QED
    BY <1>2, <2>1, GotoMoves DEF At
<1> QED
  BY <1>1, <1>2

LEMMA RequestStep ==
  ASSUME TypeOK, NEW h \in Handlers, NEW r \in Requests,
         request' = [request EXCEPT ![h] = r]
  PROVE  request' \in [Handlers -> Requests]
  BY DEF TypeOK

LEMMA IdleIsRequest == Idle \in Requests
  BY DEF Requests

\* What the location service answers for a list.
LEMMA AnswerTypes ==
  ASSUME NEW k \in Keys, NEW list \in Answers[k]
  PROVE  list \in Lists /\ \A old \in Lists : Upserted(old, list) \in Lists
<1>1. list \in Lists
  BY LocationSyncAssumption
<1> QED
  BY <1>1 DEF Lists, Upserted

LEMMA ReadingTypes ==
  ASSUME TypeOK, NEW h \in Handlers, Reading(h)
  PROVE  TypeOK'
<1> DEFINE r == request[h]
<1>1. ASSUME NEW n \in RunsOn[h], NEW k \in Wanted[h], GetLocations(h, n, k)
      PROVE  TypeOK'
  <2>1. k \in Keys /\ n \in Instances /\ table[k] \in Lists
    BY LocationSyncAssumption DEF TypeOK
  <2>2. /\ [op |-> "fetch", on |-> n, key |-> k] \in Requests
        /\ [op |-> "fill", on |-> n, key |-> k, list |-> table[k]] \in Requests
    BY <2>1 DEF Requests
  <2>3. request' \in [Handlers -> Requests]
    BY <1>1, <2>2, RequestStep DEF GetLocations, Start
  <2> QED
    BY <1>1, <2>3 DEF GetLocations, tables, jobs, TypeOK
<1>2. CASE FillCache(h)
  <2>1. r.key \in Keys /\ r.list \in Lists
    BY <1>2, RequestTypes DEF FillCache
  <2>2. request' \in [Handlers -> Requests] /\ late' \subseteq Handlers
    BY <1>2, RequestStep, IdleIsRequest DEF FillCache, Finish, TypeOK
  <2>3. cache' \in [Keys -> {Nil} \cup Lists] /\ tainted' \subseteq Keys
    BY <1>2, <2>1 DEF FillCache, TypeOK
  <2> QED
    BY <1>2, <2>2, <2>3 DEF FillCache, jobs, TypeOK
<1>3. ASSUME r.op = "fetch", NEW list \in Answers[r.key], FetchMissing(h, list)
      PROVE  TypeOK'
  <2>1. r.key \in Keys /\ r.on \in Instances
    BY <1>3, RequestTypes
  <2>2. list \in Lists /\ Upserted(table[r.key], list) \in Lists
    BY <2>1, AnswerTypes DEF TypeOK
  <2>3. [op |-> "publish", on |-> r.on, key |-> r.key, list |-> list] \in Requests
    BY <2>1, <2>2 DEF Requests
  <2>4. request' \in [Handlers -> Requests]
    BY <1>3, <2>3, RequestStep DEF FetchMissing, Continue
  <2>5. table' \in [Keys -> Lists] /\ late' \subseteq Handlers
    BY <1>3, <2>1, <2>2 DEF FetchMissing, Holding, TypeOK
  <2> QED
    BY <1>3, <2>4, <2>5 DEF FetchMissing, jobs, TypeOK
<1> QED
  BY <1>1, <1>2, <1>3 DEF Reading

LEMMA AbortTypes ==
  ASSUME TypeOK, NEW h \in Handlers, Abort(h)
  PROVE  TypeOK'
<1>1. request' \in [Handlers -> Requests] /\ late' \subseteq Handlers
  BY RequestStep, IdleIsRequest DEF Abort, Finish, TypeOK
<1>2. tainted' \subseteq Keys
  <2>1. Unfilled({h}) \subseteq Keys
    BY RequestTypes DEF Unfilled
  <2> QED
    BY <2>1 DEF Abort, Cached, TypeOK
<1> QED
  BY <1>1, <1>2 DEF Abort, tables, jobs, TypeOK

LEMMA StartSyncTypes ==
  ASSUME TypeOK, NEW h \in Handlers, NEW n \in RunsOn[h], NEW plan \in Plans[h], StartSync(h, n, plan)
  PROVE  TypeOK'
<1>1. plan \in Plan /\ n \in Instances
  <2>1. Full \in Plan /\ \A k \in Keys : Scoped(k) \in Plan
    BY DEF Plan, Full, Scoped
  <2> QED
    BY <2>1, LocationSyncAssumption
<1>2. [op |-> "create", on |-> n, plan |-> plan] \in Requests
  BY <1>1 DEF Requests
<1>3. request' \in [Handlers -> Requests]
  BY <1>2, RequestStep DEF StartSync, Start
<1> QED
  BY <1>3 DEF StartSync, tables, jobs, TypeOK

LEMMA CreateTypes ==
  ASSUME TypeOK, NEW h \in Handlers, NEW j \in Jobs, CreateSyncJob(h, j)
  PROVE  TypeOK'
<1> DEFINE r == request[h]
<1>1. r.on \in Instances /\ r.plan \in Plan
  BY RequestTypes DEF CreateSyncJob
<1>2. [at |-> "start", on |-> r.on, plan |-> r.plan] \in [at: Stages, on: Instances, plan: Plan]
  BY <1>1 DEF Stages
<1>3. request' \in [Handlers -> Requests] /\ late' \subseteq Handlers
  BY RequestStep, IdleIsRequest DEF CreateSyncJob, Finish, TypeOK
<1>4. work' \in [Jobs -> {NoWork} \cup [at: Stages, on: Instances, plan: Plan]]
  BY <1>2 DEF CreateSyncJob, TypeOK
<1>5. /\ status' \in [Jobs -> {Nil, "queued", "running", "completed", "failed"}]
      /\ host' \in [Jobs -> Instances \cup {Nil}]
  BY <1>1 DEF CreateSyncJob, TypeOK
<1> QED
  BY <1>3, <1>4, <1>5 DEF CreateSyncJob, tables, TypeOK

LEMMA CreateFailsTypes ==
  ASSUME TypeOK, NEW h \in Handlers, NEW j \in Jobs, CreateSyncJobFails(h, j)
  PROVE  TypeOK'
<1>1. request[h].on \in Instances
  BY RequestTypes DEF CreateSyncJobFails
<1>2. request' \in [Handlers -> Requests] /\ late' \subseteq Handlers
  BY RequestStep, IdleIsRequest DEF CreateSyncJobFails, Finish, TypeOK
<1>3. /\ status' \in [Jobs -> {Nil, "queued", "running", "completed", "failed"}]
      /\ host' \in [Jobs -> Instances \cup {Nil}] /\ stuck' \subseteq Jobs
  BY <1>1 DEF CreateSyncJobFails, TypeOK
<1> QED
  BY <1>2, <1>3 DEF CreateSyncJobFails, tables, TypeOK

-----------------------------------------------------------------------------
(* The steps of a job.                                                     *)

\* A sync fetches, and drops cached lists, only while it has lists to go through.
HasList(j) == work[j].at \in {"fetch", "delete"} => work[j].plan.todo # {}

LEMMA DueIsKey ==
  ASSUME TypeOK, NEW j \in Jobs, HasList(j), work[j].at \in {"fetch", "delete"}
  PROVE  Due(j) \in Keys /\ Due(j) \in work[j].plan.todo
<1>1. work[j].plan.todo \in SUBSET Keys
  BY WorkTypes
<1> QED
  BY <1>1, FirstIsOne DEF HasList, Due

\* A goroutine that has set the flag goes on.
GoesOn(j) ==
  /\ Working(j) /\ work[j].at \notin {"none", "start", "refused", "leave"}
  /\ UNCHANGED syncing
  /\ \E stage \in Stages \ {"start", "refused"}, todo \in SUBSET Keys :
       /\ MovesTo(j, stage, todo)
       /\ stage \in {"fetch", "delete"} => todo # {}
       /\ stage = "leave" => work[j].at \in {"mark", "finish", "failing"}

LEMMA MarkMoves ==
  ASSUME TypeOK, NEW j \in Jobs, MarkRunning(j) \/ Complete(j)
  PROVE  GoesOn(j)
<1>1. work[j].at \in {"mark", "finish"}
  BY DEF MarkRunning, Complete, At
<1>2. Working(j) /\ work[j].plan.todo \in SUBSET Keys
  BY <1>1, WorkTypes
<1>3. ASSUME NEW stage \in {"report", "leave"}, MovesTo(j, stage, work[j].plan.todo), UNCHANGED syncing
      PROVE  GoesOn(j)
  BY <1>1, <1>2, <1>3 DEF GoesOn, Stages
<1>4. CASE Goto(j, "report") /\ UNCHANGED syncing
  BY <1>1, <1>3, <1>4, GotoMoves DEF Stages
<1>5. CASE Return(j) /\ UNCHANGED syncing
  BY <1>1, <1>3, <1>5, ReturnMoves
<1> QED
  BY <1>4, <1>5 DEF MarkRunning, Complete

LEMMA ReportMoves ==
  ASSUME TypeOK, NEW j \in Jobs, Report(j)
  PROVE  GoesOn(j)
<1> DEFINE stage == IF work[j].plan.todo = {} THEN "clear" ELSE "fetch"
<1>1. work[j].at = "report" /\ Goto(j, stage) /\ UNCHANGED syncing
  BY DEF Report, At
<1>2. Working(j) /\ work[j].plan.todo \in SUBSET Keys
  BY <1>1, WorkTypes
<1>3. /\ stage \in Stages \ {"start", "refused"} /\ stage # "leave"
      /\ stage \in {"fetch", "delete"} => work[j].plan.todo # {}
  BY DEF Stages
<1> HIDE DEF stage
<1>4. MovesTo(j, stage, work[j].plan.todo)
  BY <1>1, <1>3, GotoMoves
<1> QED
  BY <1>1, <1>2, <1>3, <1>4 DEF GoesOn

LEMMA FetchMoves ==
  ASSUME TypeOK, NEW j \in Jobs, HasList(j),
         \/ SkipEmpty(j) \/ SyncFails(j)
         \/ \E list \in Answers[Due(j)] : UpsertList(j, list)
  PROVE  GoesOn(j) /\ work[j].at = "fetch"
<1>1. work[j].at = "fetch" /\ UNCHANGED syncing
  BY DEF SkipEmpty, SyncFails, UpsertList, At
<1>2. Working(j) /\ work[j].plan.todo \in SUBSET Keys /\ work[j].plan.todo # {}
  BY <1>1, WorkTypes DEF HasList
<1>3. CASE SkipEmpty(j)
  <2> DEFINE done == {Due(j)} \cup Under[Due(j)]
  <2>1. work' = [work EXCEPT ![j].at = "report", ![j].plan.todo = @ \ done]
    BY <1>3 DEF SkipEmpty
  <2>2. "report" \in Stages \ {"start", "refused"}
    BY DEF Stages
  <2> HIDE DEF done
  <2>3. MovesTo(j, "report", work[j].plan.todo \ done)
    BY <1>1, <2>1, <2>2, GotoTodoMoves
  <2>4. work[j].plan.todo \ done \in SUBSET Keys
    BY <1>2
  <2>5. PICK todo \in SUBSET Keys : MovesTo(j, "report", todo)
    BY <2>3, <2>4
  <2>6. \E stage \in Stages \ {"start", "refused"} :
          MovesTo(j, stage, todo) /\ stage \notin {"fetch", "delete", "leave"}
    BY <2>2, <2>5
  <2> QED
    BY <1>1, <1>2, <2>6 DEF GoesOn
<1>4. ASSUME NEW stage \in {"failing", "delete"}, Goto(j, stage)
      PROVE  GoesOn(j)
  <2>1. stage \in Stages \ {"start", "refused"}
    BY DEF Stages
  <2>2. MovesTo(j, stage, work[j].plan.todo)
    BY <1>1, <1>4, <2>1, GotoMoves
  <2> QED
    BY <1>1, <1>2, <2>1, <2>2 DEF GoesOn
<1> QED
  BY <1>1, <1>3, <1>4 DEF SyncFails, UpsertList

LEMMA DropMoves ==
  ASSUME TypeOK, NEW j \in Jobs, DropCached(j) \/ DropAll(j)
  PROVE  GoesOn(j)
<1>1. CASE DropCached(j)
  <2> DEFINE stage == IF work[j].plan.full THEN "report" ELSE "finish"
             done == {Due(j)}
  <2>1. work[j].at = "delete" /\ UNCHANGED syncing
    BY <1>1 DEF DropCached, At
  <2>2. Working(j) /\ work[j].plan.todo \in SUBSET Keys
    BY <2>1, WorkTypes
  <2>3. stage \in Stages \ {"start", "refused"} /\ stage \notin {"fetch", "delete", "leave"}
    BY DEF Stages
  <2>4. work' = [work EXCEPT ![j].at = stage, ![j].plan.todo = @ \ done]
    BY <1>1 DEF DropCached
  <2> HIDE DEF stage, done
  <2>5. MovesTo(j, stage, work[j].plan.todo \ done)
    BY <2>1, <2>3, <2>4, GotoTodoMoves
  <2>6. work[j].plan.todo \ done \in SUBSET Keys
    BY <2>2
  <2> QED
    BY <2>1, <2>2, <2>3, <2>5, <2>6 DEF GoesOn
<1>2. CASE DropAll(j)
  <2>1. work[j].at = "clear" /\ Goto(j, "finish") /\ UNCHANGED syncing
    BY <1>2 DEF DropAll, At
  <2>2. Working(j) /\ work[j].plan.todo \in SUBSET Keys
    BY <2>1, WorkTypes
  <2>3. "finish" \in Stages \ {"start", "refused"}
    BY DEF Stages
  <2>4. MovesTo(j, "finish", work[j].plan.todo)
    BY <2>1, <2>3, GotoMoves
  <2> QED
    BY <2>1, <2>2, <2>3, <2>4 DEF GoesOn
<1> QED
  BY <1>1, <1>2

LEMMA FailedMoves ==
  ASSUME TypeOK, NEW j \in Jobs, MarkFailed(j)
  PROVE  GoesOn(j) \/ (work[j].at = "refused" /\ Ends(j) /\ UNCHANGED syncing)
<1>1. work[j].at \in {"failing", "refused"} /\ Return(j) /\ UNCHANGED syncing
  BY DEF MarkFailed
<1>2. Working(j) /\ work[j].plan.todo \in SUBSET Keys
  BY <1>1, WorkTypes
<1>3. "leave" \in Stages \ {"start", "refused"}
  BY DEF Stages
<1>4. CASE work[j].at = "failing"
  <2>1. MovesTo(j, "leave", work[j].plan.todo)
    BY <1>1, <1>4, ReturnMoves
  <2> QED
    BY <1>1, <1>2, <1>3, <1>4, <2>1 DEF GoesOn
<1>5. CASE work[j].at = "refused"
  BY <1>1, <1>5, ReturnMoves
<1> QED
  BY <1>1, <1>4, <1>5

\* TakeFlag finds the flag of its instance set, or sets it.
Looks(j, stage) ==
  /\ Working(j) /\ work[j].at = "start" /\ syncing' = syncing \cup {work[j].on}
  /\ stage = (IF work[j].on \in syncing THEN "refused" ELSE "mark")
  /\ MovesTo(j, stage, work[j].plan.todo)

LEMMA FlagMoves ==
  ASSUME TypeOK, NEW j \in Jobs, TakeFlag(j)
  PROVE  \E stage \in {"refused", "mark"} : Looks(j, stage)
<1> DEFINE stage == IF work[j].on \in syncing THEN "refused" ELSE "mark"
<1>1. work[j].at = "start" /\ Goto(j, stage) /\ syncing' = syncing \cup {work[j].on}
  BY DEF TakeFlag, At
<1>2. Working(j)
  BY <1>1, WorkTypes
<1>3. stage \in Stages /\ stage \in {"refused", "mark"}
  BY DEF Stages
<1>4. MovesTo(j, stage, work[j].plan.todo)
  <2> HIDE DEF stage
  <2> QED
    BY <1>1, <1>3, GotoMoves
<1>5. Looks(j, stage)
  BY <1>1, <1>2, <1>4 DEF Looks
<1> QED
  BY <1>3, <1>5

LEMMA LeaveMoves ==
  ASSUME TypeOK, NEW j \in Jobs, Leave(j)
  PROVE  /\ Working(j) /\ work[j].at = "leave" /\ Ends(j)
         /\ syncing' = syncing \ {work[j].on}
<1>1. work[j].at = "leave"
  BY DEF Leave, At
<1> QED
  BY <1>1, WorkTypes DEF Leave, Ends, TypeOK, Goroutine

\* Whatever a goroutine does, it goes on, looks at the flag, or ends.
LEMMA JobMoves ==
  ASSUME TypeOK, NEW j \in Jobs, HasList(j), Syncing(j)
  PROVE  \/ GoesOn(j)
         \/ \E stage \in {"refused", "mark"} : Looks(j, stage)
         \/ work[j].at = "refused" /\ Ends(j) /\ UNCHANGED syncing
         \/ Working(j) /\ work[j].at = "leave" /\ Ends(j) /\ syncing' = syncing \ {work[j].on}
<1>1. CASE SkipEmpty(j) \/ SyncFails(j) \/ \E list \in Answers[Due(j)] : UpsertList(j, list)
  BY <1>1, FetchMoves
<1>2. CASE MarkRunning(j) \/ Complete(j)
  BY <1>2, MarkMoves
<1>3. CASE Report(j)
  BY <1>3, ReportMoves
<1>4. CASE DropCached(j) \/ DropAll(j)
  BY <1>4, DropMoves
<1>5. CASE MarkFailed(j)
  BY <1>5, FailedMoves
<1>6. CASE TakeFlag(j)
  BY <1>6, FlagMoves
<1>7. CASE Leave(j)
  BY <1>7, LeaveMoves
<1> QED
  BY <1>1, <1>2, <1>3, <1>4, <1>5, <1>6, <1>7 DEF Syncing

LEMMA JobWorkTypes ==
  ASSUME TypeOK, NEW j \in Jobs, \A i \in Jobs : HasList(i), Syncing(j)
  PROVE  /\ work' \in [Jobs -> {NoWork} \cup Goroutine] /\ \A i \in Jobs : HasList(i)'
         /\ syncing' \subseteq Instances
<1>1. CASE GoesOn(j)
  BY <1>1 DEF GoesOn, MovesTo, HasList, TypeOK
<1>2. ASSUME NEW stage \in {"refused", "mark"}, Looks(j, stage)
      PROVE  /\ work' \in [Jobs -> {NoWork} \cup Goroutine] /\ \A i \in Jobs : HasList(i)'
             /\ syncing' \subseteq Instances
  <2>1. work[j].on \in Instances
    BY <1>2, WorkTypes DEF Looks
  <2> QED
    BY <1>2, <2>1 DEF Looks, MovesTo, HasList, TypeOK
<1>3. CASE Ends(j) /\ syncing' \subseteq syncing
  BY <1>3 DEF Ends, HasList, NoWork, TypeOK
<1> QED
  BY <1>1, <1>2, <1>3, JobMoves

LEMMA SyncingTypes ==
  ASSUME TypeOK, NEW j \in Jobs, \A i \in Jobs : HasList(i), Syncing(j)
  PROVE  TypeOK' /\ \A i \in Jobs : HasList(i)'
<1>1. /\ work' \in [Jobs -> {NoWork} \cup [at: Stages, on: Instances, plan: Plan]]
      /\ syncing' \subseteq Instances /\ \A i \in Jobs : HasList(i)'
  BY JobWorkTypes DEF Goroutine
<1>2. UNCHANGED <<up, request, host>>
  BY DEF Syncing, TakeFlag, MarkRunning, Report, SkipEmpty, SyncFails, UpsertList, DropCached,
         DropAll, Complete, MarkFailed, Leave
<1>3. /\ status' \in [Jobs -> {Nil, "queued", "running", "completed", "failed"}]
      /\ stuck' \subseteq Jobs
  BY DEF Syncing, TakeFlag, MarkRunning, Report, SkipEmpty, SyncFails, UpsertList, DropCached,
         DropAll, Complete, MarkFailed, Leave, Saved, Unsaved, TypeOK, tables
<1>4. /\ table' \in [Keys -> Lists] /\ cache' \in [Keys -> {Nil} \cup Lists]
      /\ late' \subseteq Handlers /\ tainted' \subseteq Keys
  <2>1. ASSUME NEW list \in Answers[Due(j)], UpsertList(j, list)
        PROVE  table' \in [Keys -> Lists] /\ late' \subseteq Handlers /\ UNCHANGED <<cache, tainted>>
    <3>1. Due(j) \in Keys
      BY <2>1, DueIsKey DEF UpsertList, At
    <3>2. Upserted(table[Due(j)], list) \in Lists
      BY <3>1, AnswerTypes DEF TypeOK
    <3> QED
      BY <2>1, <3>2 DEF UpsertList, Holding, TypeOK
  <2>2. CASE DropCached(j)
    <3>1. Due(j) \in Keys
      BY <2>2, DueIsKey DEF DropCached, At
    <3> QED
      BY <2>2, <3>1 DEF DropCached, Cached, TypeOK
  <2>3. CASE DropAll(j)
    BY <2>3 DEF DropAll, TypeOK
  <2>4. CASE UNCHANGED <<tables, late, tainted>>
    BY <2>4 DEF tables, TypeOK
  <2> QED
    BY <2>1, <2>2, <2>3, <2>4
       DEF Syncing, TakeFlag, MarkRunning, Report, SkipEmpty, SyncFails, Complete, MarkFailed, Leave,
           TypeOK
<1> QED
  BY <1>1, <1>2, <1>3, <1>4 DEF TypeOK

LEMMA InstanceTypes ==
  ASSUME TypeOK, NEW n \in Instances, \A i \in Jobs : HasList(i), StartInstance(n) \/ Crash(n)
  PROVE  TypeOK' /\ \A i \in Jobs : HasList(i)'
<1>1. CASE StartInstance(n)
  <2>1. /\ status' \in [Jobs -> {Nil, "queued", "running", "completed", "failed"}]
        /\ stuck' \subseteq Jobs
    BY <1>1 DEF StartInstance, TypeOK
  <2> QED
    BY <1>1, <2>1 DEF StartInstance, TypeOK, tables, HasList
<1>2. CASE Crash(n)
  <2> DEFINE lost == {j \in Jobs : Working(j) /\ work[j].on = n}
             gone == {h \in Handlers : request[h] # Idle /\ request[h].on = n}
             cut == {Due(j) : j \in {i \in lost : At(i, "delete")}}
  <2>1. cut \subseteq Keys
    BY DueIsKey DEF At
  <2>2. \A h \in Handlers : request[h].op = "publish" => request[h].key \in Keys
    BY RequestTypes
  <2>3. Unfilled(gone) \subseteq Keys
    BY <2>2 DEF Unfilled
  <2>4. tainted' = tainted \cup Cached(Unfilled(gone) \cup cut)
    BY <1>2 DEF Crash
  <2>5. tainted' \subseteq Keys
    <3> HIDE DEF gone, cut
    <3> QED
      BY <2>1, <2>3, <2>4 DEF Cached, TypeOK
  <2>6. /\ work' \in [Jobs -> {NoWork} \cup [at: Stages, on: Instances, plan: Plan]]
        /\ \A i \in Jobs : HasList(i)'
    BY <1>2 DEF Crash, TypeOK, HasList, NoWork
  <2>7. request' \in [Handlers -> Requests]
    BY <1>2, IdleIsRequest DEF Crash, TypeOK
  <2> QED
    BY <1>2, <2>5, <2>6, <2>7 DEF Crash, TypeOK, tables
<1> QED
  BY <1>1, <1>2

Typed == TypeOK /\ \A j \in Jobs : HasList(j)

LEMMA InitTypes == Init => Typed
<1>1. ASSUME Init
      PROVE  TypeOK
  BY <1>1, LocationSyncAssumption, IdleIsRequest DEF Init, TypeOK
<1> QED
  BY <1>1 DEF Init, HasList, NoWork, Typed

LEMMA StepTypes ==
  ASSUME Typed, [Next]_vars
  PROVE  Typed'
<1> USE DEF Typed
<1>1. ASSUME NEW h \in Handlers, Reading(h)
      PROVE  TypeOK' /\ UNCHANGED work
  BY <1>1, ReadingTypes DEF Reading, GetLocations, FillCache, FetchMissing, jobs
<1>2. ASSUME NEW h \in Handlers, Abort(h)
      PROVE  TypeOK' /\ UNCHANGED work
  BY <1>2, AbortTypes DEF Abort, jobs
<1>3. ASSUME NEW h \in Handlers, NEW n \in RunsOn[h], NEW plan \in Plans[h], StartSync(h, n, plan)
      PROVE  TypeOK' /\ UNCHANGED work
  BY <1>3, StartSyncTypes DEF StartSync, jobs
<1>4. ASSUME NEW h \in Handlers, NEW j \in Jobs, CreateSyncJob(h, j)
      PROVE  TypeOK' /\ \A i \in Jobs : HasList(i)'
  BY <1>4, CreateTypes DEF CreateSyncJob, HasList, TypeOK
<1>8. ASSUME NEW h \in Handlers, NEW j \in Jobs, CreateSyncJobFails(h, j)
      PROVE  TypeOK' /\ UNCHANGED work
  BY <1>8, CreateFailsTypes DEF CreateSyncJobFails
<1>5. ASSUME NEW k \in Keys, ExpireCache(k)
      PROVE  TypeOK' /\ UNCHANGED work
  BY <1>5 DEF ExpireCache, jobs, TypeOK
<1>6. CASE UNCHANGED vars
  BY <1>6 DEF vars, tables, jobs, TypeOK, HasList
<1>7. CASE TypeOK' /\ UNCHANGED work
  BY <1>7 DEF HasList
<1> QED
  BY <1>1, <1>2, <1>3, <1>4, <1>5, <1>6, <1>7, <1>8, SyncingTypes, InstanceTypes DEF Next

LEMMA TypedHolds == Spec => []Typed
  BY InitTypes, StepTypes, PTL DEF Spec

\* Types: every table, cached list, job and request keeps the shape the code
\* gives it, though two jobs may save their rows in any order (service.go:262).
THEOREM LocationTypes == Spec => []TypeOK
  BY TypedHolds, PTL DEF Typed

-----------------------------------------------------------------------------
(* One sync per instance.                                                  *)

\* The goroutine that has set the flag of its instance is the only one that
\* goes on, as long as the flag is set.
FlagHeld == \A j \in Jobs : InSync(j) => work[j].on \in syncing

ExclusionInv == Typed /\ FlagHeld /\ SyncsExclude

LEMMA InitExclusion == Init => FlagHeld /\ SyncsExclude
  BY DEF Init, FlagHeld, SyncsExclude, InSync, Working

LEMMA SyncingExcludes ==
  ASSUME ExclusionInv, NEW j \in Jobs, Syncing(j)
  PROVE  FlagHeld' /\ SyncsExclude'
<1>1. CASE GoesOn(j)
  BY <1>1 DEF GoesOn, MovesTo, ExclusionInv, FlagHeld, SyncsExclude, InSync, Working
<1>2. ASSUME NEW stage \in {"refused", "mark"}, Looks(j, stage)
      PROVE  FlagHeld' /\ SyncsExclude'
  <2>1. /\ \A i \in Jobs \ {j} : work'[i] = work[i]
        /\ work'[j].on = work[j].on /\ work'[j].at = stage
        /\ syncing' = syncing \cup {work[j].on}
        /\ stage = "mark" => work[j].on \notin syncing
    BY <1>2 DEF Looks, MovesTo
  <2>2. \A i \in Jobs \ {j} : InSync(i)' <=> InSync(i)
    BY <2>1 DEF InSync, Working
  <2>3. InSync(j)' => work[j].on \notin syncing
    BY <2>1 DEF InSync
  <2> QED
    BY <2>1, <2>2, <2>3 DEF ExclusionInv, FlagHeld, SyncsExclude
<1>3. CASE Ends(j) /\ UNCHANGED syncing
  BY <1>3 DEF Ends, ExclusionInv, FlagHeld, SyncsExclude, InSync, Working
<1>4. CASE Working(j) /\ work[j].at = "leave" /\ Ends(j) /\ syncing' = syncing \ {work[j].on}
  BY <1>4 DEF Ends, ExclusionInv, FlagHeld, SyncsExclude, InSync, Working
<1> QED
  BY <1>1, <1>2, <1>3, <1>4, JobMoves DEF ExclusionInv, Typed

LEMMA StepExclusion ==
  ASSUME ExclusionInv, [Next]_vars
  PROVE  ExclusionInv'
<1>1. Typed'
  BY StepTypes DEF ExclusionInv
<1>2. CASE UNCHANGED <<work, syncing>>
  BY <1>1, <1>2 DEF ExclusionInv, FlagHeld, SyncsExclude, InSync, Working
<1>3. ASSUME NEW h \in Handlers, NEW j \in Jobs, CreateSyncJob(h, j)
      PROVE  FlagHeld' /\ SyncsExclude'
  <2>1. /\ syncing' = syncing /\ \A i \in Jobs \ {j} : work'[i] = work[i]
        /\ work'[j].at = "start"
    BY <1>3 DEF CreateSyncJob, ExclusionInv, Typed, TypeOK
  <2> QED
    BY <2>1 DEF ExclusionInv, FlagHeld, SyncsExclude, InSync, Working
<1>4. ASSUME NEW n \in Instances, Crash(n)
      PROVE  FlagHeld' /\ SyncsExclude'
  <2>1. /\ syncing' = syncing \ {n}
        /\ \A j \in Jobs : work'[j] = NoWork \/ (work'[j] = work[j] /\ work[j].on # n)
                             \/ (work'[j] = work[j] /\ ~Working(j))
    BY <1>4 DEF Crash
  <2> QED
    BY <2>1 DEF ExclusionInv, FlagHeld, SyncsExclude, InSync, Working
<1> QED
  BY <1>1, <1>2, <1>3, <1>4, SyncingExcludes
     DEF ExclusionInv, Next, Reading, GetLocations, FillCache, FetchMissing, Abort, StartSync,
         CreateSyncJobFails, StartInstance, ExpireCache, vars, jobs

\* Two goroutines of an instance never synchronise at the same time, for any
\* number of instances, jobs and administrators who found no active job
\* (service.go:192, :262).
THEOREM OneSyncPerInstance == Spec => []SyncsExclude
<1>1. Init => ExclusionInv
  BY InitTypes, InitExclusion DEF ExclusionInv
<1>2. ExclusionInv /\ [Next]_vars => ExclusionInv'
  BY StepExclusion
<1>3. ExclusionInv => SyncsExclude
  BY DEF ExclusionInv
<1> QED
  BY <1>1, <1>2, <1>3, PTL DEF Spec

-----------------------------------------------------------------------------
(* No job is left behind.                                                  *)

\* A goroutine, and a request that starts one, lives in an instance that runs.
Hosted == \A j \in Jobs : Working(j) => work[j].on = host[j] /\ host[j] \in up
Served == \A h \in Handlers : request[h] # Idle => request[h].on \in up

\* A goroutine belongs to a stored job, and has saved how it ended, or failed
\* to, before it lets the flag go.
Begun == \A j \in Jobs : status[j] = Nil => ~Working(j)
Told(j) == Over(j) \/ j \in stuck
Leaving == \A j \in Jobs : work[j].at = "leave" => Told(j)

JobsInv == Typed /\ Hosted /\ Served /\ Begun /\ Leaving /\ NoOrphanJobs

LEMMA InitJobs == Init => Hosted /\ Served /\ Begun /\ Leaving /\ NoOrphanJobs
<1> SUFFICES ASSUME Init
             PROVE  Hosted /\ Served /\ Begun /\ Leaving /\ NoOrphanJobs
  OBVIOUS
<1>1. \A j \in Jobs : status[j] = Nil /\ work[j] = NoWork /\ ~Active(j)
  BY LocationSyncAssumption DEF Init, Active
<1> QED
  BY <1>1 DEF Init, Hosted, Served, Begun, Leaving, NoOrphanJobs, Working, NoWork

\* What a step of a goroutine leaves in the rows of the jobs.
LEMMA SyncingTells ==
  ASSUME JobsInv, NEW j \in Jobs, Syncing(j)
  PROVE  /\ UNCHANGED <<up, host, request>>
         /\ \A i \in Jobs \ {j} : status'[i] = status[i] /\ (i \in stuck => i \in stuck')
         /\ status'[j] # Nil
         /\ ~Working(j)' \/ work'[j].at = "leave" => Told(j)'
<1>1. UNCHANGED <<up, host, request>>
  BY DEF Syncing, TakeFlag, MarkRunning, Report, SkipEmpty, SyncFails, UpsertList, DropCached,
         DropAll, Complete, MarkFailed, Leave
<1>2. Typed /\ TypeOK /\ HasList(j)
  BY DEF JobsInv, Typed
<1>3. Working(j) /\ status[j] # Nil
  <2>1. Working(j)
    BY <1>2, JobMoves, WorkTypes DEF GoesOn, Looks
  <2> QED
    BY <2>1 DEF JobsInv, Begun
<1>4. ASSUME NEW x \in {"running", "completed", "failed"}, Saved(j, x)
      PROVE  /\ \A i \in Jobs \ {j} : status'[i] = status[i]
             /\ status'[j] = x /\ x # Nil /\ stuck' = stuck
  BY <1>2, <1>4, LocationSyncAssumption DEF Saved, TypeOK
<1>5. ASSUME Unsaved(j)
      PROVE  /\ status' = status /\ stuck' = stuck \cup {j} /\ Told(j)'
  BY <1>5 DEF Unsaved, Told
<1>6. ASSUME NEW x \in {"completed", "failed"}, Saved(j, x)
      PROVE  Told(j)'
  BY <1>4, <1>6 DEF Told, Over
<1>7. CASE MarkRunning(j) /\ Saved(j, "running")
  <2>1. CASE Goto(j, "report")
    <3>1. work'[j] \in Goroutine /\ work'[j].at = "report"
      BY <1>2, <1>7, <2>1, GotoMoves DEF MarkRunning, At, Stages, MovesTo
    <3> QED
      BY <1>1, <1>4, <1>7, <3>1 DEF Working, NoWork, Goroutine
  <2>2. CASE Unsaved(j)
    BY <1>1, <1>3, <1>5, <2>2
  <2> QED
    BY <1>7, <2>1, <2>2 DEF MarkRunning
<1>8. CASE Unsaved(j)
  BY <1>1, <1>3, <1>5, <1>8
<1>9. CASE Report(j) /\ Saved(j, "running")
  <2>1. GoesOn(j) /\ work[j].at = "report"
    BY <1>2, <1>9, ReportMoves DEF Report, At
  <2>2. Working(j)' /\ work'[j].at # "leave"
    BY <2>1 DEF GoesOn, MovesTo, Working, Goroutine, NoWork
  <2> QED
    BY <1>1, <1>4, <1>9, <2>2
<1>10. CASE Saved(j, "completed") \/ Saved(j, "failed")
  BY <1>1, <1>4, <1>6, <1>10
<1>11. CASE UNCHANGED <<status, stuck>> /\ Leave(j)
  <2>1. Told(j)
    BY <1>11 DEF JobsInv, Leaving, Leave, At
  <2> QED
    BY <1>1, <1>3, <1>11, <2>1 DEF Told, Over
<1>12. CASE UNCHANGED <<status, stuck>> /\ (GoesOn(j) \/ \E stage \in {"refused", "mark"} : Looks(j, stage))
              /\ work[j].at \notin {"mark", "finish", "failing"}
  <2>1. Working(j)' /\ work'[j].at # "leave"
    BY <1>12 DEF GoesOn, Looks, MovesTo, Working, Goroutine, NoWork
  <2> QED
    BY <1>1, <1>3, <1>12, <2>1
<1>13. CASE SkipEmpty(j) \/ SyncFails(j) \/ \E list \in Answers[Due(j)] : UpsertList(j, list)
  <2>1. UNCHANGED <<status, stuck>>
    BY <1>13 DEF SkipEmpty, SyncFails, UpsertList
  <2> QED
    BY <1>2, <1>12, <1>13, <2>1, FetchMoves
<1>14. CASE DropCached(j) \/ DropAll(j)
  <2>1. UNCHANGED <<status, stuck>> /\ work[j].at \in {"delete", "clear"}
    BY <1>14 DEF DropCached, DropAll, At
  <2> QED
    BY <1>2, <1>12, <1>14, <2>1, DropMoves
<1>15. CASE TakeFlag(j)
  <2>1. UNCHANGED <<status, stuck>> /\ work[j].at = "start"
    BY <1>15 DEF TakeFlag, At
  <2> QED
    BY <1>2, <1>12, <1>15, <2>1, FlagMoves
<1>16. CASE Report(j) /\ UNCHANGED <<status, stuck>>
  <2>1. GoesOn(j) /\ work[j].at = "report"
    BY <1>2, <1>16, ReportMoves DEF Report, At
  <2> QED
    BY <1>12, <1>16, <2>1
<1>17. MarkRunning(j) => Saved(j, "running") \/ Unsaved(j)
  BY DEF MarkRunning
<1>18. Report(j) => Saved(j, "running") \/ UNCHANGED <<status, stuck>>
  BY DEF Report
<1>19. Complete(j) \/ MarkFailed(j) => Saved(j, "completed") \/ Saved(j, "failed") \/ Unsaved(j)
  BY DEF Complete, MarkFailed
<1>20. Leave(j) => UNCHANGED <<status, stuck>>
  BY DEF Leave
<1> QED
  BY <1>7, <1>8, <1>9, <1>10, <1>11, <1>13, <1>14, <1>15, <1>16, <1>17, <1>18, <1>19, <1>20
     DEF Syncing

LEMMA SyncingLeavesNone ==
  ASSUME JobsInv, NEW j \in Jobs, Syncing(j)
  PROVE  Hosted' /\ Served' /\ Begun' /\ Leaving' /\ NoOrphanJobs'
<1>1. /\ work[j] \in Goroutine /\ Working(j) /\ \A i \in Jobs \ {j} : work'[i] = work[i]
      /\ work'[j] = NoWork \/ (work'[j] \in Goroutine /\ work'[j].on = work[j].on)
  BY JobMoves, WorkTypes DEF JobsInv, Typed, GoesOn, Looks, Ends, MovesTo, Working
<1>2. Hosted' /\ Served'
  <2>1. Hosted'
    BY <1>1, SyncingTells DEF JobsInv, Hosted, Working
  <2>2. Served'
    BY SyncingTells DEF JobsInv, Served
  <2> QED
    BY <2>1, <2>2
<1>3. Begun'
  BY <1>1, SyncingTells DEF JobsInv, Begun, Working
<1>4. ASSUME NEW i \in Jobs \ {j}
      PROVE  /\ Working(i)' <=> Working(i)
             /\ Told(i) => Told(i)'
             /\ Active(i)' <=> Active(i)
  BY <1>1, SyncingTells DEF Working, Told, Over, Active
<1>5. Leaving'
  BY <1>1, <1>4, SyncingTells DEF JobsInv, Leaving
<1>6. Told(j)' => ~Active(j)' \/ j \in stuck'
  BY DEF Told, Over, Active
<1>7. NoOrphanJobs'
  BY <1>4, <1>6, SyncingTells DEF JobsInv, NoOrphanJobs
<1> QED
  BY <1>2, <1>3, <1>5, <1>7

LEMMA CreateLeavesNone ==
  ASSUME JobsInv, NEW h \in Handlers, NEW j \in Jobs, CreateSyncJob(h, j)
  PROVE  Hosted' /\ Served' /\ Begun' /\ Leaving' /\ NoOrphanJobs'
<1> DEFINE r == request[h]
<1>1. /\ \A i \in Jobs \ {j} : status'[i] = status[i] /\ work'[i] = work[i] /\ host'[i] = host[i]
      /\ status'[j] = "queued" /\ host'[j] = r.on
      /\ work'[j] = [at |-> "start", on |-> r.on, plan |-> r.plan]
      /\ UNCHANGED <<up, stuck>>
  BY DEF CreateSyncJob, Unused, JobsInv, Typed, TypeOK
<1>2. r.on \in up
  BY DEF CreateSyncJob, JobsInv, Served, Idle
<1>3. Working(j)' /\ work'[j].at = "start" /\ work'[j].on = r.on
  BY <1>1 DEF Working, NoWork
<1> HIDE DEF r
<1>4. Hosted'
  BY <1>1, <1>2, <1>3 DEF JobsInv, Hosted, Working
<1>5. Served'
  BY DEF CreateSyncJob, Finish, JobsInv, Typed, TypeOK, Served
<1>6. Begun' /\ Leaving' /\ NoOrphanJobs'
  <2>1. Begun'
    BY <1>1, <1>3, LocationSyncAssumption DEF JobsInv, Begun, Working
  <2>2. Leaving'
    BY <1>1, <1>3 DEF JobsInv, Leaving, Told, Over
  <2>3. NoOrphanJobs'
    BY <1>1, <1>3 DEF JobsInv, NoOrphanJobs, Active, Working
  <2> QED
    BY <2>1, <2>2, <2>3
<1> QED
  BY <1>4, <1>5, <1>6

LEMMA CreateFailsLeavesNone ==
  ASSUME JobsInv, NEW h \in Handlers, NEW j \in Jobs, CreateSyncJobFails(h, j)
  PROVE  Hosted' /\ Served' /\ Begun' /\ Leaving' /\ NoOrphanJobs'
<1>1. /\ \A i \in Jobs \ {j} : status'[i] = status[i] /\ host'[i] = host[i]
      /\ status'[j] = "queued" /\ status[j] = Nil /\ stuck' = stuck \cup {j}
      /\ UNCHANGED <<up, work>>
  BY DEF CreateSyncJobFails, Unused, JobsInv, Typed, TypeOK
<1>2. ~Working(j)
  BY <1>1 DEF JobsInv, Begun
<1>3. Hosted' /\ Begun'
  BY <1>1, <1>2, LocationSyncAssumption DEF JobsInv, Hosted, Begun, Working
<1>4. Served'
  BY DEF CreateSyncJobFails, Finish, JobsInv, Typed, TypeOK, Served
<1>5. Leaving'
  BY <1>1, <1>2 DEF JobsInv, Leaving, Told, Over, Working, NoWork
<1>6. NoOrphanJobs'
  BY <1>1 DEF JobsInv, NoOrphanJobs, Active, Working
<1> QED
  BY <1>3, <1>4, <1>5, <1>6

LEMMA InstanceLeavesNone ==
  ASSUME JobsInv, NEW n \in Instances, StartInstance(n) \/ Crash(n)
  PROVE  Hosted' /\ Served' /\ Begun' /\ Leaving' /\ NoOrphanJobs'
<1>1. CASE StartInstance(n)
  <2>1. UNCHANGED <<work, host, request>> /\ n \notin up /\ up' = up \cup {n}
    BY <1>1 DEF StartInstance
  <2>2. ASSUME NEW j \in Jobs
        PROVE  \/ /\ status'[j] = IF Active(j) THEN "failed" ELSE status[j]
                  /\ stuck' = stuck
               \/ /\ status'[j] = status[j] /\ (j \in stuck => j \in stuck')
                  /\ Active(j) /\ ~Working(j) => j \in stuck'
    BY <1>1, <2>2 DEF StartInstance, Recovered
  <2>3. Hosted' /\ Served'
    BY <2>1 DEF JobsInv, Hosted, Served, Working
  <2>4. Begun'
    BY <2>1, <2>2, LocationSyncAssumption DEF JobsInv, Begun, Working, Active
  <2>5. ASSUME NEW j \in Jobs, Told(j)
        PROVE  Told(j)'
    BY <2>2, <2>5 DEF Told, Over, Active
  <2>6. Leaving'
    BY <2>1, <2>5 DEF JobsInv, Leaving
  <2>7. ASSUME NEW j \in Jobs, Active(j)'
        PROVE  Working(j)' \/ j \in stuck'
    BY <2>1, <2>2, <2>7 DEF JobsInv, NoOrphanJobs, Active, Working
  <2>8. NoOrphanJobs'
    BY <2>7 DEF NoOrphanJobs
  <2> QED
    BY <2>3, <2>4, <2>6, <2>8
<1>2. CASE Crash(n)
  <2>1. UNCHANGED <<status, host, stuck>> /\ up' = up \ {n}
    BY <1>2 DEF Crash
  <2>2. ASSUME NEW j \in Jobs
        PROVE  IF Working(j) /\ work[j].on = n THEN work'[j] = NoWork ELSE work'[j] = work[j]
    BY <1>2, <2>2 DEF Crash
  <2>3. ASSUME NEW h \in Handlers
        PROVE  IF request[h] # Idle /\ request[h].on = n THEN request'[h] = Idle
               ELSE request'[h] = request[h]
    BY <1>2, <2>3 DEF Crash
  <2>4. Hosted'
    BY <2>1, <2>2 DEF JobsInv, Hosted, Working
  <2>5. Served'
    BY <2>1, <2>3 DEF JobsInv, Served
  <2>6. Begun'
    BY <2>1, <2>2 DEF JobsInv, Begun, Working
  <2>7. Leaving'
    BY <2>1, <2>2 DEF JobsInv, Leaving, Told, Over, NoWork
  <2>8. NoOrphanJobs'
    BY <2>1, <2>2 DEF JobsInv, NoOrphanJobs, Active, Working, Hosted
  <2> QED
    BY <2>4, <2>5, <2>6, <2>7, <2>8
<1> QED
  BY <1>1, <1>2

LEMMA StepJobs ==
  ASSUME JobsInv, [Next]_vars
  PROVE  JobsInv'
<1>1. Typed'
  BY StepTypes DEF JobsInv
<1>2. ASSUME UNCHANGED <<status, work, host, stuck, up>>, Served'
      PROVE  JobsInv'
  BY <1>1, <1>2 DEF JobsInv, Hosted, Begun, Leaving, NoOrphanJobs, Working, Told, Over, Active
<1>3. ASSUME NEW h \in Handlers, Reading(h) \/ Abort(h)
      PROVE  JobsInv'
  <2>1. UNCHANGED <<status, work, host, stuck, up>>
    BY <1>3 DEF Reading, GetLocations, FillCache, FetchMissing, Abort, jobs
  <2>2. ASSUME NEW n \in RunsOn[h], NEW k \in Wanted[h], GetLocations(h, n, k)
        PROVE  /\ \A i \in Handlers \ {h} : request'[i] = request[i]
               /\ request'[h].on = n /\ n \in up
    BY <2>2 DEF GetLocations, Start, JobsInv, Typed, TypeOK
  <2>3. ASSUME FillCache(h) \/ Abort(h)
        PROVE  request' = [request EXCEPT ![h] = Idle]
    BY <2>3 DEF FillCache, Abort, Finish
  <2>4. ASSUME NEW list, FetchMissing(h, list)
        PROVE  /\ \A i \in Handlers \ {h} : request'[i] = request[i]
               /\ request'[h].on = request[h].on /\ request[h].op = "fetch"
    BY <2>4 DEF FetchMissing, Continue, JobsInv, Typed, TypeOK
  <2>5. Served'
    BY <1>3, <2>1, <2>2, <2>3, <2>4 DEF Reading, JobsInv, Served, Typed, TypeOK, Idle
  <2> QED
    BY <1>2, <2>1, <2>5
<1>4. ASSUME NEW h \in Handlers, NEW n \in RunsOn[h], NEW plan \in Plans[h], StartSync(h, n, plan)
      PROVE  JobsInv'
  <2>1. UNCHANGED <<status, work, host, stuck, up>>
    BY <1>4 DEF StartSync, jobs
  <2>2. Served'
    BY <1>4, <2>1 DEF StartSync, Start, JobsInv, Typed, TypeOK, Served
  <2> QED
    BY <1>2, <2>1, <2>2
<1>5. CASE UNCHANGED <<status, work, host, stuck, up, request>>
  BY <1>2, <1>5 DEF JobsInv, Served
<1>6. ASSUME NEW k \in Keys, ExpireCache(k)
      PROVE  JobsInv'
  BY <1>5, <1>6 DEF ExpireCache, jobs
<1>7. CASE UNCHANGED vars
  BY <1>5, <1>7 DEF vars, jobs
<1>8. CASE Hosted' /\ Served' /\ Begun' /\ Leaving' /\ NoOrphanJobs'
  BY <1>1, <1>8 DEF JobsInv
<1> QED
  BY <1>3, <1>4, <1>6, <1>7, <1>8, SyncingLeavesNone, CreateLeavesNone,
     CreateFailsLeavesNone, InstanceLeavesNone DEF Next

LEMMA JobsHold == Spec => []JobsInv
<1>1. Init => JobsInv
  BY InitTypes, InitJobs DEF JobsInv
<1> QED
  BY <1>1, StepJobs, PTL DEF Spec

\* An active row without a goroutine was left by an update or insertion that
\* failed or by an instance that is down, wherever instances end and start again
\* (service.go:42).
THEOREM NoneIsOrphaned == Spec => []NoOrphanJobs
  BY JobsHold, PTL DEF JobsInv

\* A job that is over and has no goroutine left stays as it ended, whatever
\* instances start later (service.go:42, :309).
THEOREM EndsOnce == Spec => FinishedForGood
<1>1. ASSUME JobsInv, [Next]_vars, NEW j \in Jobs, Settled(j)
      PROVE  status'[j] = status[j] /\ ~Working(j)'
  <2>1. ASSUME NEW i \in Jobs, Syncing(i)
        PROVE  status'[j] = status[j] /\ ~Working(j)'
    <3>1. i # j
      BY <1>1, <2>1, JobMoves, WorkTypes DEF JobsInv, Typed, GoesOn, Looks, Settled
    <3>2. work'[j] = work[j]
      BY <1>1, <2>1, <3>1, JobMoves DEF JobsInv, Typed, GoesOn, Looks, Ends, MovesTo
    <3> QED
      BY <1>1, <2>1, <3>1, <3>2, SyncingTells DEF Settled, Working
  <2>2. ASSUME NEW h \in Handlers, NEW i \in Jobs, CreateSyncJob(h, i) \/ CreateSyncJobFails(h, i)
        PROVE  status'[j] = status[j] /\ ~Working(j)'
    <3>1. i # j
      BY <1>1, <2>2, LocationSyncAssumption DEF CreateSyncJob, CreateSyncJobFails, Unused, Settled, Over
    <3> QED
      BY <1>1, <2>2, <3>1 DEF CreateSyncJob, CreateSyncJobFails, Settled, Working, JobsInv, Typed, TypeOK
  <2>3. ASSUME NEW n \in Instances, StartInstance(n) \/ Crash(n)
        PROVE  status'[j] = status[j] /\ ~Working(j)'
    BY <1>1, <2>3 DEF StartInstance, Crash, Recovered, Settled, Working, Active, Over, JobsInv, Typed, TypeOK
  <2>4. CASE UNCHANGED <<status, work>>
    BY <1>1, <2>4 DEF Settled, Working
  <2> QED
    BY <1>1, <2>1, <2>2, <2>3, <2>4
       DEF Next, Reading, GetLocations, FillCache, FetchMissing, Abort, StartSync, ExpireCache, vars, jobs
<1>2. JobsInv /\ [Next]_vars =>
        [\A j \in Jobs : Settled(j) => status'[j] = status[j] /\ ~Working(j)']_vars
  BY <1>1
<1> QED
  BY <1>2, JobsHold, PTL DEF Spec, FinishedForGood

-----------------------------------------------------------------------------
(* Cached lists.                                                           *)

\* What a reader that nobody has written behind holds is what its table shows.
Fresh(h) ==
  LET r == request[h]
  IN  /\ r.op = "fetch" => table[r.key] = {}
      /\ r.op \in {"fill", "publish"} => r.list = table[r.key]

ReadersFresh == \A h \in Handlers \ late : Fresh(h)

CacheInv == Typed /\ ReadersFresh /\ CacheUpToDate

\* A job or a reader has still to touch the key of list k.
JobTouches(j, k) == At(j, "delete") /\ Due(j) = k
ReaderTouches(h, k) == request[h].op = "publish" /\ request[h].key = k

LEMMA TouchedIsUnpublished ==
  ASSUME NEW k
  PROVE  Unpublished(k) <=> \/ \E j \in Jobs : JobTouches(j, k)
                            \/ \E h \in Handlers : ReaderTouches(h, k)
  BY DEF Unpublished, JobTouches, ReaderTouches

LEMMA InitCache == Init => ReadersFresh /\ CacheUpToDate
  BY DEF Init, ReadersFresh, Fresh, Idle, CacheUpToDate

\* What was inserted where there was nothing is what the table shows.
LEMMA UpsertIntoEmpty ==
  ASSUME NEW list
  PROVE  Upserted({}, list) = list
  BY DEF Upserted

LEMMA ReadingKeepsCache ==
  ASSUME CacheInv, NEW h \in Handlers, Reading(h)
  PROVE  ReadersFresh' /\ CacheUpToDate'
<1> DEFINE r == request[h]
<1>1. ASSUME NEW n \in RunsOn[h], NEW k \in Wanted[h], GetLocations(h, n, k)
      PROVE  ReadersFresh' /\ CacheUpToDate'
  <2>1. UNCHANGED <<table, cache, work, late, tainted>> /\ r = Idle
    BY <1>1 DEF GetLocations, tables, jobs, Start
  <2>2. /\ \A i \in Handlers \ {h} : request'[i] = request[i]
        /\ table[k] = {} => request'[h] = [op |-> "fetch", on |-> n, key |-> k]
        /\ table[k] # {} => request'[h] = [op |-> "fill", on |-> n, key |-> k, list |-> table[k]]
    BY <1>1 DEF GetLocations, Start, CacheInv, Typed, TypeOK
  <2>3. Fresh(h)'
    BY <2>1, <2>2 DEF Fresh
  <2>4. ReadersFresh'
    BY <2>1, <2>2, <2>3 DEF CacheInv, ReadersFresh, Fresh
  <2>5. ASSUME NEW l, Unpublished(l)
        PROVE  Unpublished(l)'
    <3>1. \A i \in Handlers : ReaderTouches(i, l) => ReaderTouches(i, l)'
      BY <2>1, <2>2 DEF ReaderTouches, Idle
    <3>2. \A j \in Jobs : JobTouches(j, l) => JobTouches(j, l)'
      BY <2>1 DEF JobTouches, At, Due
    <3> QED
      BY <2>5, <3>1, <3>2 DEF Unpublished, JobTouches, ReaderTouches
  <2> QED
    BY <2>1, <2>4, <2>5 DEF CacheInv, CacheUpToDate
<1>2. CASE FillCache(h)
  <2>1. /\ UNCHANGED <<table, work>> /\ r.op \in {"fill", "publish"} /\ r.key \in Keys
        /\ cache' = [cache EXCEPT ![r.key] = r.list]
        /\ tainted' = IF h \in late THEN tainted \cup {r.key} ELSE tainted \ {r.key}
        /\ request' = [request EXCEPT ![h] = Idle] /\ late' = late \ {h}
    BY <1>2, RequestTypes DEF FillCache, Finish, jobs, CacheInv, Typed
  <2>2. ReadersFresh'
    BY <2>1 DEF CacheInv, ReadersFresh, Fresh, Idle, Typed, TypeOK
  <2>3. cache'[r.key] = table'[r.key] \/ r.key \in tainted'
    BY <2>1 DEF CacheInv, ReadersFresh, Fresh, Typed, TypeOK
  <2>4. ASSUME NEW l \in Keys \ {r.key}
        PROVE  /\ cache'[l] = cache[l] /\ (l \in tainted => l \in tainted')
               /\ Unpublished(l) => Unpublished(l)'
    <3>1. \A i \in Handlers : ReaderTouches(i, l) => ReaderTouches(i, l)'
      BY <2>1 DEF ReaderTouches, CacheInv, Typed, TypeOK
    <3>2. \A j \in Jobs : JobTouches(j, l) => JobTouches(j, l)'
      BY <2>1 DEF JobTouches, At, Due
    <3>3. Unpublished(l) => Unpublished(l)'
      BY <3>1, <3>2 DEF Unpublished, JobTouches, ReaderTouches
    <3> QED
      BY <2>1, <3>3 DEF CacheInv, Typed, TypeOK
  <2> QED
    BY <2>1, <2>2, <2>3, <2>4 DEF CacheInv, CacheUpToDate
<1>3. ASSUME r.op = "fetch", NEW list \in Answers[r.key], FetchMissing(h, list)
      PROVE  ReadersFresh' /\ CacheUpToDate'
  <2> DEFINE k == r.key
             w == [op |-> "publish", on |-> r.on, key |-> k, list |-> list]
  <2>1. /\ UNCHANGED <<cache, work, tainted>> /\ k \in Keys
        /\ table' = [table EXCEPT ![k] = Upserted(@, list)]
        /\ request' = [request EXCEPT ![h] = w]
        /\ late' = late \cup (Holding(k) \ {h})
    BY <1>3, RequestTypes DEF FetchMissing, Continue, jobs, CacheInv, Typed
  <2>2. /\ table'[k] = Upserted(table[k], list)
        /\ \A l \in Keys \ {k} : table'[l] = table[l]
        /\ request'[h] = w /\ \A i \in Handlers \ {h} : request'[i] = request[i]
    BY <2>1 DEF CacheInv, Typed, TypeOK
  <2>3. w.op = "publish" /\ w.key = k /\ w.list = list
    OBVIOUS
  <2>4. h \notin late' => Fresh(h)'
    <3>1. h \notin late' => table[k] = {}
      BY <1>3, <2>1 DEF CacheInv, ReadersFresh, Fresh
    <3>2. h \notin late' => table'[k] = list
      BY <2>2, <3>1, UpsertIntoEmpty
    <3> QED
      BY <2>2, <2>3, <3>2 DEF Fresh
  <2>5. ASSUME NEW i \in Handlers \ {h}, i \notin late'
        PROVE  Fresh(i)'
    <3>1. Fresh(i) /\ i \notin Holding(k)
      BY <2>1, <2>5 DEF CacheInv, ReadersFresh
    <3>2. request[i].op \in {"fetch", "fill", "publish"} => request[i].key \in Keys \ {k}
      BY <3>1, RequestTypes DEF Holding, CacheInv, Typed
    <3> QED
      BY <2>2, <3>1, <3>2 DEF Fresh
  <2>6. ReadersFresh'
    BY <2>4, <2>5 DEF ReadersFresh
  <2>7. Unpublished(k)'
    BY <2>2, <2>3 DEF Unpublished
  <2>8. ASSUME NEW l, Unpublished(l)
        PROVE  Unpublished(l)'
    <3>1. \A i \in Handlers : ReaderTouches(i, l) => ReaderTouches(i, l)'
      BY <1>3, <2>2 DEF ReaderTouches
    <3>2. \A j \in Jobs : JobTouches(j, l) => JobTouches(j, l)'
      BY <2>1 DEF JobTouches, At, Due
    <3> QED
      BY <2>8, <3>1, <3>2 DEF Unpublished, JobTouches, ReaderTouches
  <2> QED
    BY <2>1, <2>2, <2>6, <2>7, <2>8 DEF CacheInv, CacheUpToDate
<1> QED
  BY <1>1, <1>2, <1>3 DEF Reading

\* A reader that ends without touching the key it has written leaves the key
\* as it is only if the key is absent, or counts as tainted.
LEMMA AbortKeepsCache ==
  ASSUME CacheInv, NEW h \in Handlers, Abort(h)
  PROVE  ReadersFresh' /\ CacheUpToDate'
<1>1. /\ UNCHANGED <<table, cache, work>>
      /\ tainted' = tainted \cup Cached(Unfilled({h}))
      /\ late' = late \ {h} /\ request'[h] = Idle
      /\ \A i \in Handlers \ {h} : request'[i] = request[i]
  BY DEF Abort, Finish, tables, jobs, CacheInv, Typed, TypeOK
<1>2. ReadersFresh'
  BY <1>1 DEF CacheInv, ReadersFresh, Fresh, Idle
<1>3. ASSUME NEW l \in Keys, Unpublished(l)
      PROVE  Unpublished(l)' \/ cache[l] = Nil \/ l \in tainted'
  <2>1. CASE ReaderTouches(h, l)
    BY <1>1, <2>1 DEF ReaderTouches, Unfilled, Cached
  <2>2. ASSUME NEW i \in Handlers \ {h}, ReaderTouches(i, l)
        PROVE  Unpublished(l)'
    BY <1>1, <2>2 DEF ReaderTouches, Unpublished
  <2>3. ASSUME NEW j \in Jobs, JobTouches(j, l)
        PROVE  Unpublished(l)'
    BY <1>1, <2>3 DEF JobTouches, Unpublished, At, Due
  <2> QED
    BY <1>3, <2>1, <2>2, <2>3, TouchedIsUnpublished
<1> QED
  BY <1>1, <1>2, <1>3 DEF CacheInv, CacheUpToDate

\* Steps that touch neither the rows nor the keys, and no goroutine that has
\* still to touch one.
LEMMA QuietKeepsCache ==
  ASSUME CacheInv, UNCHANGED <<table, cache, tainted>>,
         \A h \in Handlers : request'[h] = Idle \/ (h \in late' <=> h \in late),
         \A h \in Handlers : request'[h] = request[h] \/
            (request[h].op \notin {"publish"} /\ request'[h].op \notin {"fetch", "fill", "publish"}),
         \A j \in Jobs : work'[j] = work[j] \/ work[j].at # "delete"
  PROVE  ReadersFresh' /\ CacheUpToDate'
<1>1. ReadersFresh'
  BY DEF CacheInv, ReadersFresh, Fresh, Idle
<1>2. ASSUME NEW l, Unpublished(l)
      PROVE  Unpublished(l)'
  <2>1. \A i \in Handlers : ReaderTouches(i, l) => ReaderTouches(i, l)'
    BY DEF ReaderTouches
  <2>2. \A j \in Jobs : JobTouches(j, l) => JobTouches(j, l)'
    BY DEF JobTouches, At, Due
  <2> QED
    BY <1>2, <2>1, <2>2 DEF Unpublished, JobTouches, ReaderTouches
<1> QED
  BY <1>1, <1>2 DEF CacheInv, CacheUpToDate

LEMMA SyncingKeepsCache ==
  ASSUME CacheInv, NEW j \in Jobs, Syncing(j)
  PROVE  ReadersFresh' /\ CacheUpToDate'
<1>1. /\ request' = request
      /\ \A i \in Jobs \ {j} : work'[i] = work[i]
  <2>1. request' = request
    BY DEF Syncing, TakeFlag, MarkRunning, Report, SkipEmpty, SyncFails, UpsertList, DropCached,
           DropAll, Complete, MarkFailed, Leave
  <2> QED
    BY <2>1, JobMoves DEF GoesOn, Looks, Ends, MovesTo, CacheInv, Typed
<1>2. ASSUME NEW l, Unpublished(l), ~JobTouches(j, l)
      PROVE  Unpublished(l)'
  <2>1. \A i \in Handlers : ReaderTouches(i, l) => ReaderTouches(i, l)'
    BY <1>1 DEF ReaderTouches
  <2>2. \A i \in Jobs : JobTouches(i, l) => JobTouches(i, l)'
    BY <1>1, <1>2 DEF JobTouches, At, Due
  <2> QED
    BY <1>2, <2>1, <2>2 DEF Unpublished, JobTouches, ReaderTouches
<1>3. ASSUME NEW list \in Answers[Due(j)], UpsertList(j, list)
      PROVE  ReadersFresh' /\ CacheUpToDate'
  <2>1. PICK k \in Keys : k = Due(j) /\ work[j].at = "fetch"
    BY <1>3, DueIsKey DEF UpsertList, At, CacheInv, Typed
  <2>2. /\ UNCHANGED <<cache, tainted>> /\ late' = late \cup Holding(k)
        /\ table' = [table EXCEPT ![k] = Upserted(@, list)] /\ Goto(j, "delete")
    BY <1>3, <2>1 DEF UpsertList
  <2>3. MovesTo(j, "delete", work[j].plan.todo)
    BY <2>1, <2>2, GotoMoves DEF Stages, CacheInv, Typed
  <2>4. JobTouches(j, k)'
    BY <2>1, <2>3 DEF JobTouches, MovesTo, At, Due
  <2>5. \A l \in Keys \ {k} : table'[l] = table[l]
    BY <2>2 DEF CacheInv, Typed, TypeOK
  <2>6. ASSUME NEW i \in Handlers, i \notin late'
        PROVE  Fresh(i)'
    <3>1. Fresh(i) /\ i \notin Holding(k)
      BY <2>2, <2>6 DEF CacheInv, ReadersFresh
    <3>2. request[i].op \in {"fetch", "fill", "publish"} => request[i].key \in Keys \ {k}
      BY <3>1, RequestTypes DEF Holding, CacheInv, Typed
    <3> QED
      BY <1>1, <2>5, <3>1, <3>2 DEF Fresh
  <2>7. ReadersFresh'
    BY <2>6 DEF ReadersFresh
  <2>8. Unpublished(k)'
    BY <2>4 DEF Unpublished, JobTouches
  <2>9. \A l \in Keys : Unpublished(l) => Unpublished(l)'
    BY <1>2, <2>1 DEF JobTouches, At
  <2> QED
    BY <2>2, <2>5, <2>7, <2>8, <2>9 DEF CacheInv, CacheUpToDate
<1>4. CASE DropCached(j)
  <2> DEFINE k == Due(j)
  <2>1. k \in Keys
    BY <1>4, DueIsKey DEF DropCached, At, CacheInv, Typed
  <2>2. /\ UNCHANGED <<table, late>>
        /\ \/ cache' = [cache EXCEPT ![k] = Nil] /\ tainted' = tainted \ {k}
           \/ tainted' = tainted \cup Cached({k}) /\ UNCHANGED cache
    BY <1>4 DEF DropCached
  <2>3. \A l \in Keys \ {k} : ~JobTouches(j, l)
    BY DEF JobTouches
  <2> HIDE DEF k
  <2>4. cache'[k] = Nil \/ k \in tainted'
    BY <2>1, <2>2 DEF Cached, CacheInv, Typed, TypeOK
  <2>5. \A l \in Keys \ {k} : cache'[l] = cache[l] /\ (l \in tainted => l \in tainted')
    BY <2>1, <2>2 DEF CacheInv, Typed, TypeOK
  <2>6. \A l \in Keys \ {k} : Unpublished(l) => Unpublished(l)'
    BY <1>2, <2>3
  <2>7. CacheUpToDate'
    BY <2>2, <2>4, <2>5, <2>6 DEF CacheInv, CacheUpToDate
  <2>8. ReadersFresh'
    BY <1>1, <2>2 DEF CacheInv, ReadersFresh, Fresh
  <2> QED
    BY <2>7, <2>8
<1>5. CASE UNCHANGED <<table, late>> /\ work[j].at # "delete"
             /\ (cache' = [k \in Keys |-> Nil] \/ UNCHANGED <<cache, tainted>>)
  <2>1. ReadersFresh'
    BY <1>1, <1>5 DEF CacheInv, ReadersFresh, Fresh
  <2>2. \A l \in Keys : Unpublished(l) => Unpublished(l)'
    BY <1>2, <1>5 DEF JobTouches, At
  <2> QED
    BY <1>5, <2>1, <2>2 DEF CacheInv, CacheUpToDate
<1> QED
  BY <1>3, <1>4, <1>5
     DEF Syncing, TakeFlag, MarkRunning, Report, SkipEmpty, SyncFails, DropAll, Complete, MarkFailed,
         Leave, At, tables

LEMMA CrashKeepsCache ==
  ASSUME CacheInv, NEW n \in Instances, Crash(n)
  PROVE  ReadersFresh' /\ CacheUpToDate'
<1> DEFINE lost == {j \in Jobs : Working(j) /\ work[j].on = n}
           gone == {h \in Handlers : request[h] # Idle /\ request[h].on = n}
           cut == {Due(j) : j \in {i \in lost : At(i, "delete")}}
<1>1. /\ UNCHANGED <<table, cache>> /\ late' = late \ gone
      /\ tainted' = tainted \cup Cached(Unfilled(gone) \cup cut)
      /\ \A h \in Handlers : request'[h] = IF h \in gone THEN Idle ELSE request[h]
      /\ \A j \in Jobs : j \notin lost => work'[j] = work[j]
  BY DEF Crash, tables
<1>2. \A j \in lost : \A l : JobTouches(j, l) => l \in cut
  BY DEF JobTouches
<1>3. \A h \in gone : \A l : ReaderTouches(h, l) => l \in Unfilled(gone)
  BY DEF ReaderTouches, Unfilled
<1> HIDE DEF lost, gone, cut
<1>4. ReadersFresh'
  BY <1>1 DEF CacheInv, ReadersFresh, Fresh, Idle
<1>5. ASSUME NEW l \in Keys, Unpublished(l)
      PROVE  Unpublished(l)' \/ cache[l] = Nil \/ l \in tainted'
  <2>1. ASSUME NEW j \in Jobs, JobTouches(j, l)
        PROVE  Unpublished(l)' \/ cache[l] = Nil \/ l \in tainted'
    <3>1. CASE j \in lost
      BY <1>1, <1>2, <2>1, <3>1 DEF Cached
    <3>2. CASE j \notin lost
      BY <1>1, <2>1, <3>2 DEF JobTouches, Unpublished, At, Due
    <3> QED
      BY <3>1, <3>2
  <2>2. ASSUME NEW h \in Handlers, ReaderTouches(h, l)
        PROVE  Unpublished(l)' \/ cache[l] = Nil \/ l \in tainted'
    <3>1. CASE h \in gone
      BY <1>1, <1>3, <2>2, <3>1 DEF Cached
    <3>2. CASE h \notin gone
      BY <1>1, <2>2, <3>2 DEF ReaderTouches, Unpublished
    <3> QED
      BY <3>1, <3>2
  <2> QED
    BY <1>5, <2>1, <2>2, TouchedIsUnpublished
<1> QED
  BY <1>1, <1>4, <1>5 DEF CacheInv, CacheUpToDate

LEMMA StepCache ==
  ASSUME JobsInv, CacheInv, [Next]_vars
  PROVE  CacheInv'
<1>1. Typed' /\ TypeOK
  BY StepTypes DEF CacheInv, Typed
<1>2. ASSUME NEW h \in Handlers, NEW n \in RunsOn[h], NEW plan \in Plans[h], StartSync(h, n, plan)
      PROVE  ReadersFresh' /\ CacheUpToDate'
  <2>1. /\ UNCHANGED <<table, cache, tainted, late, work>> /\ request[h].op = "idle"
        /\ request'[h].op = "create" /\ \A i \in Handlers \ {h} : request'[i] = request[i]
    BY <1>1, <1>2 DEF StartSync, Start, Idle, tables, jobs, TypeOK
  <2> QED
    BY <2>1, QuietKeepsCache
<1>3. ASSUME NEW h \in Handlers, NEW j \in Jobs, CreateSyncJob(h, j)
      PROVE  ReadersFresh' /\ CacheUpToDate'
  <2>1. /\ UNCHANGED <<table, cache, tainted>> /\ request[h].op = "create"
        /\ late' = late \ {h} /\ request'[h] = Idle
        /\ \A i \in Handlers \ {h} : request'[i] = request[i]
    BY <1>1, <1>3 DEF CreateSyncJob, Finish, tables, TypeOK
  <2>2. work[j].at # "delete" /\ \A i \in Jobs \ {j} : work'[i] = work[i]
    BY <1>1, <1>3 DEF CreateSyncJob, Unused, JobsInv, Begun, Working, NoWork, TypeOK
  <2>3. Idle.op = "idle"
    BY DEF Idle
  <2> QED
    BY <2>1, <2>2, <2>3, QuietKeepsCache
<1>8. ASSUME NEW h \in Handlers, NEW j \in Jobs, CreateSyncJobFails(h, j)
      PROVE  ReadersFresh' /\ CacheUpToDate'
  <2>1. /\ UNCHANGED <<table, cache, tainted, work>> /\ request[h].op = "create"
        /\ late' = late \ {h} /\ request'[h] = Idle
        /\ \A i \in Handlers \ {h} : request'[i] = request[i]
    BY <1>1, <1>8 DEF CreateSyncJobFails, Finish, tables, TypeOK
  <2>2. Idle.op = "idle"
    BY DEF Idle
  <2> QED
    BY <2>1, <2>2, QuietKeepsCache
<1>4. ASSUME NEW n \in Instances, StartInstance(n)
      PROVE  ReadersFresh' /\ CacheUpToDate'
  BY <1>4, QuietKeepsCache DEF StartInstance, tables
<1>5. ASSUME NEW k \in Keys, ExpireCache(k)
      PROVE  ReadersFresh' /\ CacheUpToDate'
  <2>1. /\ UNCHANGED <<table, work, request, late>>
        /\ cache' = [cache EXCEPT ![k] = Nil] /\ tainted' = tainted \ {k}
    BY <1>5 DEF ExpireCache, jobs
  <2>2. ReadersFresh'
    BY <2>1 DEF CacheInv, ReadersFresh, Fresh
  <2>3. \A l : Unpublished(l) => Unpublished(l)'
    BY <2>1 DEF Unpublished, At, Due
  <2>4. \A l \in Keys : cache'[l] = Nil \/ (cache'[l] = cache[l] /\ l # k)
    BY <1>1, <2>1 DEF TypeOK
  <2> QED
    BY <2>1, <2>2, <2>3, <2>4 DEF CacheInv, CacheUpToDate
<1>6. CASE UNCHANGED vars
  BY <1>1, <1>6, QuietKeepsCache DEF vars, tables, jobs, CacheInv
<1>7. CASE ReadersFresh' /\ CacheUpToDate'
  BY <1>1, <1>7 DEF CacheInv
<1> QED
  BY <1>2, <1>3, <1>4, <1>5, <1>6, <1>7, <1>8, ReadingKeepsCache, AbortKeepsCache, SyncingKeepsCache,
     CrashKeepsCache DEF Next

\* A cached list shows the rows of its table unless whoever wrote them has
\* still to touch the key or could not, or a reader cached what it had read
\* before (service.go:63), for any number of readers, jobs and instances.
THEOREM CacheShowsTable == Spec => []CacheUpToDate
<1>1. Init => CacheInv
  BY InitTypes, InitCache DEF CacheInv
<1>2. JobsInv /\ CacheInv /\ [Next]_vars => CacheInv'
  BY StepCache
<1>3. CacheInv => CacheUpToDate
  BY DEF CacheInv
<1> QED
  BY <1>1, <1>2, <1>3, JobsHold, PTL DEF Spec

=============================================================================
