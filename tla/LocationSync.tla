------------------------------ MODULE LocationSync ------------------------------
(***************************************************************************)
(* Provinces, cities, districts and villages: the lists readers get from   *)
(* Redis, from the tables or from the location service, and the background *)
(* jobs that synchronise the tables and drop the cached lists.             *)
(*                                                                         *)
(* The tables and Redis are shared; a job lives in the memory of the       *)
(* service instance that started it and dies with it.  A list is named by  *)
(* the key it is cached under and holds the rows under one parent.  What   *)
(* the location service answers is any of Answers, another one each time.  *)
(***************************************************************************)
EXTENDS Naturals, FiniteSets

CONSTANTS
  Keys,       \* cached lists
  Rank,       \* the place of a list in the order in which a full sync goes through them
  Under,      \* the lists below a list
  Entries,    \* rows [code, name]
  Tables,     \* what the tables start with
  Answers,    \* what the location service may answer for a list
  RunsOn,     \* instances each handler may run on
  Wanted,     \* lists each handler may be asked for
  Plans,      \* syncs each handler may be asked for
  Jobs,       \* ids of sync jobs
  Instances,  \* processes of the service
  Handlers,   \* goroutines serving requests
  Nil

Lists == SUBSET Entries

\* A full sync goes through all lists, a scoped one through a single list.
Full == [full |-> TRUE, todo |-> Keys]
Scoped(k) == [full |-> FALSE, todo |-> {k}]
Plan == [full: BOOLEAN, todo: SUBSET Keys]

First(lists) == CHOOSE k \in lists : \A l \in lists : Rank[k] <= Rank[l]

ASSUME LocationSyncAssumption ==
  /\ \A e \in Entries : DOMAIN e = {"code", "name"}
  /\ Keys # {} /\ Rank \in [Keys -> Nat] /\ \A k, l \in Keys : Rank[k] = Rank[l] => k = l
  /\ Under \in [Keys -> SUBSET Keys]
  /\ Answers \in [Keys -> SUBSET Lists] /\ Tables \subseteq [Keys -> Lists]
  /\ RunsOn \in [Handlers -> SUBSET Instances] /\ Wanted \in [Handlers -> SUBSET Keys]
  /\ Plans \in [Handlers -> SUBSET ({Full} \cup {Scoped(k) : k \in Keys})]
  /\ Nil \notin Instances \cup {"queued", "running", "completed", "failed"}

VARIABLES
  table,    \* the rows of each list
  cache,    \* location:...; Nil when the key is absent
  status,   \* location_sync_jobs.status; Nil before the insertion
  up,       \* instances that run
  syncing,  \* instances whose syncing flag is set
  work,     \* the goroutine of a job
  request,  \* what each handler holds between two round trips
  host,     \* history: the instance a job was started on
  stuck,    \* history: jobs without a goroutine because an update or the insertion
            \* reported an error
  late,     \* history: handlers whose list was written by somebody else
  tainted   \* history: cached lists somebody failed to drop or filled late

tables == <<table, cache>>
jobs == <<status, work, syncing, host, stuck>>
vars == <<tables, jobs, up, request, late, tainted>>

Idle == [op |-> "idle"]
NoWork == [at |-> "none"]

Stages == {"start", "refused", "mark", "report", "fetch", "delete", "clear", "finish", "failing", "leave"}

Start(h, r) == request[h] = Idle /\ request' = [request EXCEPT ![h] = r]
Continue(h, r) == request' = [request EXCEPT ![h] = r]
Finish(h) == request' = [request EXCEPT ![h] = Idle] /\ late' = late \ {h}

Active(j) == status[j] \in {"queued", "running"}
Over(j) == status[j] \in {"completed", "failed"}
Working(j) == work[j] # NoWork

\* INSERT ... ON CONFLICT (code) DO UPDATE: rows that are gone upstream stay.
Upserted(old, new) == {e \in old : \A f \in new : f.code # e.code} \cup new

\* The handlers that have read list k and have not cached it yet.
Holding(k) ==
  {h \in Handlers : request[h].op \in {"fetch", "fill", "publish"} /\ request[h].key = k}

-----------------------------------------------------------------------------
(* Readers: GetProvince, GetCity, GetDistrict and GetVillage.              *)

\* A cached list is the answer and nothing else happens; an unreadable key
\* counts as a missing one.  An empty table is filled from the location service.
GetLocations(h, n, k) ==
  /\ n \in up
  /\ Start(h, IF table[k] = {} THEN [op |-> "fetch", on |-> n, key |-> k]
              ELSE [op |-> "fill", on |-> n, key |-> k, list |-> table[k]])
  /\ UNCHANGED <<tables, jobs, up, late, tainted>>

\* What was fetched is stored, and cached without reading the table again.  An
\* empty list is refused by the insertion.
FetchMissing(h, list) ==
  LET k == request[h].key
  IN  /\ request[h].op = "fetch" /\ list \in Answers[k] \ {{}}
      /\ table' = [table EXCEPT ![k] = Upserted(@, list)]
      /\ Continue(h, [op |-> "publish", on |-> request[h].on, key |-> k, list |-> list])
      /\ late' = late \cup (Holding(k) \ {h})
      /\ UNCHANGED <<cache, jobs, up, tainted>>

FillCache(h) ==
  LET r == request[h]
  IN  /\ r.op \in {"fill", "publish"}
      /\ cache' = [cache EXCEPT ![r.key] = r.list]
      /\ tainted' = IF h \in late THEN tainted \cup {r.key} ELSE tainted \ {r.key}
      /\ Finish(h)
      /\ UNCHANGED <<table, jobs, up>>

Cached(S) == {k \in S : cache[k] # Nil}

\* Lists that were written by requests that end before they cache them.
Unfilled(H) == {request[h].key : h \in {i \in H : request[i].op = "publish"}}

\* A query, fetch, insertion or SET fails, or the request is canceled.
Abort(h) ==
  /\ request[h] # Idle
  /\ tainted' = tainted \cup Cached(Unfilled({h}))
  /\ Finish(h)
  /\ UNCHANGED <<tables, jobs, up>>

ExpireCache(k) ==
  /\ cache[k] # Nil
  /\ cache' = [cache EXCEPT ![k] = Nil] /\ tainted' = tainted \ {k}
  /\ UNCHANGED <<table, jobs, up, request, late>>

-----------------------------------------------------------------------------
(* Starting a job.                                                         *)

\* GetActiveSyncJob.
StartSync(h, n, plan) ==
  /\ n \in up /\ \A j \in Jobs : ~Active(j)
  /\ Start(h, [op |-> "create", on |-> n, plan |-> plan])
  /\ UNCHANGED <<tables, jobs, up, late, tainted>>

\* Ids are random UUIDs; which of the unused ones is drawn makes no difference.
Unused(j) == status[j] = Nil /\ j = CHOOSE i \in Jobs : status[i] = Nil

CreateSyncJob(h, j) ==
  LET r == request[h]
  IN  /\ r.op = "create" /\ Unused(j)
      /\ status' = [status EXCEPT ![j] = "queued"]
      /\ host' = [host EXCEPT ![j] = r.on]
      /\ work' = [work EXCEPT ![j] = [at |-> "start", on |-> r.on, plan |-> r.plan]]
      /\ Finish(h)
      /\ UNCHANGED <<tables, syncing, stuck, up, tainted>>

\* The row is there, but the insertion returned an error: no goroutine starts.
CreateSyncJobFails(h, j) ==
  LET r == request[h]
  IN  /\ r.op = "create" /\ Unused(j)
      /\ status' = [status EXCEPT ![j] = "queued"]
      /\ host' = [host EXCEPT ![j] = r.on]
      /\ stuck' = stuck \cup {j}
      /\ Finish(h)
      /\ UNCHANGED <<tables, syncing, work, up, tainted>>

-----------------------------------------------------------------------------
(* runSyncJob.                                                             *)

At(j, stage) == work[j].at = stage
Goto(j, stage) == work' = [work EXCEPT ![j].at = stage]
Due(j) == First(work[j].plan.todo)

\* The goroutine ends; a deferred call clears the flag it has set.
Return(j) ==
  IF At(j, "refused") THEN work' = [work EXCEPT ![j] = NoWork] ELSE Goto(j, "leave")

Leave(j) ==
  /\ At(j, "leave")
  /\ work' = [work EXCEPT ![j] = NoWork] /\ syncing' = syncing \ {work[j].on}
  /\ UNCHANGED <<tables, status, host, stuck, up, request, late, tainted>>

\* Mutant: the flag is set without being looked at.
TakeFlagStoring(j) ==
  /\ At(j, "start") /\ syncing' = syncing \cup {work[j].on} /\ Goto(j, "mark")
  /\ UNCHANGED <<tables, status, host, stuck, up, request, late, tainted>>

\* CompareAndSwap.
TakeFlag(j) ==
  LET n == work[j].on
  IN  /\ At(j, "start")
      /\ syncing' = syncing \cup {n}
      /\ Goto(j, IF n \in syncing THEN "refused" ELSE "mark")
      /\ UNCHANGED <<tables, status, host, stuck, up, request, late, tainted>>

\* Every update saves the whole row, whatever its status has become.  If the
\* goroutine ends without it, only a restart makes the row inactive.
Saved(j, s) == status' = [status EXCEPT ![j] = s] /\ UNCHANGED stuck
Unsaved(j) == stuck' = stuck \cup {j} /\ UNCHANGED status

MarkRunning(j) ==
  /\ At(j, "mark")
  /\ \/ Saved(j, "running") /\ Goto(j, "report")
     \/ Unsaved(j) /\ Return(j)
  /\ UNCHANGED <<tables, syncing, host, up, request, late, tainted>>

\* The progress before a list; an error is logged.  (Villages are reported
\* with the city they lie in.)
Report(j) ==
  /\ At(j, "report")
  /\ Saved(j, "running") \/ UNCHANGED <<status, stuck>>
  /\ Goto(j, IF work[j].plan.todo = {} THEN "clear" ELSE "fetch")
  /\ UNCHANGED <<tables, syncing, host, up, request, late, tainted>>

\* A full sync passes over an empty list and all below it; provinces and the
\* list of a scoped sync must not be empty.
SkipEmpty(j) ==
  LET k == Due(j)
  IN  /\ At(j, "fetch") /\ work[j].plan.full /\ k # First(Keys) /\ {} \in Answers[k]
      /\ work' = [work EXCEPT ![j].at = "report",
                              ![j].plan.todo = @ \ ({k} \cup Under[k])]
      /\ UNCHANGED <<tables, status, syncing, host, stuck, up, request, late, tainted>>

UpsertList(j, list) ==
  LET k == Due(j)
  IN  /\ At(j, "fetch") /\ list \in Answers[k] \ {{}}
      /\ table' = [table EXCEPT ![k] = Upserted(@, list)]
      /\ late' = late \cup Holding(k)
      /\ Goto(j, "delete")
      /\ UNCHANGED <<cache, status, syncing, host, stuck, up, request, tainted>>

\* The location service or the insertion fails: sync returns the error.
SyncFails(j) ==
  /\ At(j, "fetch") /\ Goto(j, "failing")
  /\ UNCHANGED <<tables, status, syncing, host, stuck, up, request, late, tainted>>

\* Mutant: only a full sync drops what is cached.
DropCachedByFull(j) ==
  LET k == Due(j)
  IN  /\ At(j, "delete")
      /\ \/ cache' = [cache EXCEPT ![k] = IF work[j].plan.full THEN Nil ELSE @] /\ tainted' = tainted \ {k}
         \/ tainted' = tainted \cup Cached({k}) /\ UNCHANGED cache
      /\ work' = [work EXCEPT ![j].at = IF work[j].plan.full THEN "report" ELSE "finish",
                              ![j].plan.todo = @ \ {k}]
      /\ UNCHANGED <<table, status, syncing, host, stuck, up, request, late>>

\* DeleteKeys; a failed SCAN or DEL is logged.
DropCached(j) ==
  LET k == Due(j)
  IN  /\ At(j, "delete")
      /\ \/ cache' = [cache EXCEPT ![k] = Nil] /\ tainted' = tainted \ {k}
         \/ tainted' = tainted \cup Cached({k}) /\ UNCHANGED cache
      /\ work' = [work EXCEPT ![j].at = IF work[j].plan.full THEN "report" ELSE "finish",
                              ![j].plan.todo = @ \ {k}]
      /\ UNCHANGED <<table, status, syncing, host, stuck, up, request, late>>

\* A full sync drops every cached list in the end.
DropAll(j) ==
  /\ At(j, "clear") /\ Goto(j, "finish")
  /\ \/ cache' = [k \in Keys |-> Nil] /\ tainted' = {}
     \/ UNCHANGED <<cache, tainted>>
  /\ UNCHANGED <<table, status, syncing, host, stuck, up, request, late>>

Complete(j) ==
  /\ At(j, "finish")
  /\ Saved(j, "completed") \/ Unsaved(j)
  /\ Return(j)
  /\ UNCHANGED <<tables, syncing, host, up, request, late, tainted>>

\* Mutant: the row gets a status that GetActiveSyncJob does not know.
MarkFailedMisspelt(j) ==
  /\ work[j].at \in {"failing", "refused"}
  /\ Saved(j, "error") \/ Unsaved(j)
  /\ Return(j)
  /\ UNCHANGED <<tables, syncing, host, up, request, late, tainted>>

\* Mutant: a sync that fails just returns.
MarkFailedNot(j) ==
  /\ work[j].at \in {"failing", "refused"}
  /\ Return(j)
  /\ UNCHANGED <<tables, status, stuck, syncing, host, up, request, late, tainted>>

\* markSyncJobFailed.
MarkFailed(j) ==
  /\ work[j].at \in {"failing", "refused"}
  /\ Saved(j, "failed") \/ Unsaved(j)
  /\ Return(j)
  /\ UNCHANGED <<tables, syncing, host, up, request, late, tainted>>

-----------------------------------------------------------------------------
(* Instances.                                                              *)

\* Mutant: only jobs that already ran are given up.
RecoveredRunning(j) == status[j] = "running"

\* Mutant: every job is marked as failed.
RecoveredAny(j) == status[j] # Nil

\* FailActiveSyncJobs, by whichever instance starts.
Recovered(j) == Active(j)

\* NewLocationService, before the first request; a failed update is logged.
StartInstance(n) ==
  /\ n \notin up /\ up' = up \cup {n}
  /\ \/ /\ status' = [j \in Jobs |-> IF Recovered(j) THEN "failed" ELSE status[j]]
        /\ UNCHANGED stuck
     \/ /\ stuck' = stuck \cup {j \in Jobs : Active(j) /\ ~Working(j)}
        /\ UNCHANGED status
  /\ UNCHANGED <<tables, work, syncing, host, request, late, tainted>>

\* A process ends with its goroutines, between any two of their steps.
Crash(n) ==
  LET lost == {j \in Jobs : Working(j) /\ work[j].on = n}
      gone == {h \in Handlers : request[h] # Idle /\ request[h].on = n}
  IN  /\ n \in up /\ up' = up \ {n}
      /\ work' = [j \in Jobs |-> IF j \in lost THEN NoWork ELSE work[j]]
      /\ syncing' = syncing \ {n}
      /\ request' = [h \in Handlers |-> IF h \in gone THEN Idle ELSE request[h]]
      /\ late' = late \ gone
      /\ tainted' = tainted \cup Cached(Unfilled(gone) \cup {Due(j) : j \in {i \in lost : At(i, "delete")}})
      /\ UNCHANGED <<tables, status, host, stuck>>

Init ==
  /\ table \in Tables /\ cache = [k \in Keys |-> Nil]
  /\ status = [j \in Jobs |-> Nil] /\ work = [j \in Jobs |-> NoWork]
  /\ up = {} /\ syncing = {} /\ request = [h \in Handlers |-> Idle]
  /\ host = [j \in Jobs |-> Nil] /\ stuck = {} /\ late = {} /\ tainted = {}

Reading(h) ==
  \/ \E n \in RunsOn[h], k \in Wanted[h] : GetLocations(h, n, k)
  \/ FillCache(h)
  \/ request[h].op = "fetch" /\ \E list \in Answers[request[h].key] : FetchMissing(h, list)

Syncing(j) ==
  \/ TakeFlag(j) \/ MarkRunning(j) \/ Report(j) \/ SkipEmpty(j) \/ SyncFails(j)
  \/ At(j, "fetch") /\ \E list \in Answers[Due(j)] : UpsertList(j, list)
  \/ DropCached(j) \/ DropAll(j) \/ Complete(j) \/ MarkFailed(j) \/ Leave(j)

Next ==
  \/ \E h \in Handlers :
       \/ Reading(h) \/ Abort(h)
       \/ \E n \in RunsOn[h], plan \in Plans[h] : StartSync(h, n, plan)
       \/ \E j \in Jobs : CreateSyncJob(h, j) \/ CreateSyncJobFails(h, j)
  \/ \E j \in Jobs : Syncing(j)
  \/ \E n \in Instances : StartInstance(n) \/ Crash(n)
  \/ \E k \in Keys : ExpireCache(k)

Spec == Init /\ [][Next]_vars

\* Goroutines are scheduled, the HTTP client gives up after its timeout and
\* queries return; nothing makes an instance start again.
FairSpec == Spec /\ \A j \in Jobs : WF_vars(Syncing(j))

-----------------------------------------------------------------------------
(* Properties.                                                             *)

Requests ==
  {Idle}
  \cup [op: {"fetch"}, on: Instances, key: Keys]
  \cup [op: {"fill", "publish"}, on: Instances, key: Keys, list: Lists]
  \cup [op: {"create"}, on: Instances, plan: Plan]

\* Every table, key, job and request has the shape the code gives it.
TypeOK ==
  /\ table \in [Keys -> Lists] /\ cache \in [Keys -> {Nil} \cup Lists]
  /\ status \in [Jobs -> {Nil, "queued", "running", "completed", "failed"}]
  /\ work \in [Jobs -> {NoWork} \cup [at: Stages, on: Instances, plan: Plan]]
  /\ up \subseteq Instances /\ syncing \subseteq Instances
  /\ request \in [Handlers -> Requests]
  /\ host \in [Jobs -> Instances \cup {Nil}]
  /\ stuck \subseteq Jobs /\ late \subseteq Handlers /\ tainted \subseteq Keys

\* Two goroutines of one instance never synchronise at the same time, though
\* two requests may both have found no active job (service.go:192).
InSync(j) == Working(j) /\ work[j].at \notin {"start", "refused"}

SyncsExclude ==
  \A i, j \in Jobs : i # j /\ InSync(i) /\ InSync(j) => work[i].on # work[j].on

\* An active row without a goroutine, which blocks every later sync, was left
\* by an update or insertion that failed or by an instance that is down: whatever a crash
\* interrupted is over once its instance runs again (service.go:42).
NoOrphanJobs ==
  \A j \in Jobs : Active(j) => Working(j) \/ j \in stuck \/ host[j] \notin up

\* A job that is over and has no goroutine left stays as it ended
\* (service.go:42, :309).
Settled(j) == Over(j) /\ ~Working(j)

FinishedForGood ==
  [][\A j \in Jobs : Settled(j) => status'[j] = status[j] /\ ~Working(j)']_vars

\* A cached list shows the rows of its table unless the job or the reader that
\* wrote them has still to touch the key, could not, or a reader cached what
\* it had read before somebody else wrote (service.go:63).
Unpublished(k) ==
  \/ \E j \in Jobs : At(j, "delete") /\ Due(j) = k
  \/ \E h \in Handlers : request[h].op = "publish" /\ request[h].key = k

CacheUpToDate ==
  \A k \in Keys : cache[k] \in {Nil, table[k]} \/ k \in tainted \/ Unpublished(k)

\* Every job comes to an end, unless its instance is down or its row could not
\* be updated or was inserted with an error (service.go:309, :215).
JobsEnd ==
  \A j \in Jobs : Active(j) ~> ~Active(j) \/ j \in stuck \/ host[j] \notin up

=============================================================================
