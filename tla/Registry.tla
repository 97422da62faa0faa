------------------------------ MODULE Registry ------------------------------
(***************************************************************************)
(* The tenant policy registry of the data plane: policy/registry.go.       *)
(*                                                                         *)
(* Request goroutines ask for the policy of a tenant.  A hit in the LRU    *)
(* cache is served at once; the misses of one tenant are coalesced by      *)
(* singleflight, and their leader hands a job to a fixed pool of load      *)
(* workers and waits for the answer or for LoadTimeout.  Beside the        *)
(* requests, ReloadTenant is called by the timers of the file watcher and  *)
(* reads the disk outside the pool.                                        *)
(*                                                                         *)
(* A TenantPolicy is a heap object, because ReloadTenant overwrites one in *)
(* place while requests hold pointers to it.  Objects and jobs that are no *)
(* longer referenced are collected at once, so that their names can be     *)
(* used again.                                                             *)
(***************************************************************************)
EXTENDS Integers, Sequences, FiniteSets

CONSTANTS
    Tenants,     \* tenant ids greater than 0
    NoTenant,    \* any tenant id the code rejects (tenantID <= 0)
    Requests,    \* request goroutines that call the registry
    NoReq,
    Workers,     \* loader goroutines, RegistryConfig.LoadWorkers of them
    Reloads,     \* timer goroutines that call ReloadTenant
    CacheSize,   \* RegistryConfig.CacheSize: LRU limit and loadCh capacity
    MaxObjs,     \* bound: TenantPolicy objects alive at one time
    MaxJobs,     \* bound: load jobs alive at one time
    MaxVersion,  \* bound: versions of one tenant's policy.db
    MayClose     \* whether Close may be called

\* withDefaults makes the two limits positive.
ASSUME CacheSizeAssumption == CacheSize \in Nat \ {0}
ASSUME BoundsAssumption ==
    MaxObjs \in Nat /\ MaxJobs \in Nat /\ MaxVersion \in Nat /\ MayClose \in BOOLEAN
\* Enough names of objects that no load ever waits for one.
ASSUME ObjsAssumption ==
    MaxObjs >= CacheSize + Cardinality(Requests) + Cardinality(Workers) + 2 * Cardinality(Reloads)
ASSUME NoTenantAssumption == NoTenant \notin Tenants
ASSUME NoReqAssumption == NoReq \notin Requests

VARIABLES
    disk,     \* tenant -> its policy.db
    heap,     \* TenantPolicy objects: whose policy, and which version of it
    cache,    \* tenant -> object of its LRU entry, or NoObj
    lru,      \* tenants of the LRU list, front first
    loadCh,   \* buffered channel of jobs
    sendq,    \* helper goroutines blocked on a full loadCh, in arrival order
    helpers,  \* helper goroutines that have not sent yet, by their job
    job,      \* jobs, each with its one-place result channel
    flight,   \* singleflight: tenant -> the leading request, or NoReq
    req,      \* the call each request goroutine is in
    worker,   \* the job each load worker is at
    reload,   \* the ReloadTenant call each timer goroutine is in
    status    \* whether Close was called, or a panic ended the process

vars == <<disk, heap, cache, lru, loadCh, sendq, helpers, job, flight, req,
          worker, reload, status>>

-----------------------------------------------------------------------------
(* Types *)

Objs == 1 .. MaxObjs
NoObj == 0
Jobs == 1 .. MaxJobs
NoJob == 0
Versions == 0 .. MaxVersion

File == [ver : Versions, state : {"absent", "corrupt", "ok"}]
Policy == [owner : Tenants \cup {NoTenant}, ver : Versions]
Freed == [owner |-> NoTenant, ver |-> 0]

LoadErrors == {"none", "notfound", "load"}
Errors == LoadErrors \cup {"timeout", "panic"}

Job == [tenant : Tenants \cup {NoTenant}, done : BOOLEAN,
        obj : Objs \cup {NoObj}, err : LoadErrors]
FreeJob == [tenant |-> NoTenant, done |-> FALSE, obj |-> NoObj, err |-> "none"]
NewJob(t) == [FreeJob EXCEPT !.tenant = t]

Leading == {"lead", "send", "wait"}
Call == [pc : {"idle", "miss", "follow", "have", "fail"} \cup Leading,
         tenant : Tenants \cup {NoTenant}, job : Jobs \cup {NoJob},
         obj : Objs \cup {NoObj}, err : Errors]
IdleCall == [pc |-> "idle", tenant |-> NoTenant, job |-> NoJob,
             obj |-> NoObj, err |-> "none"]

WorkerState == [pc : {"idle", "load", "loaded", "reply", "exited"},
                job : Jobs \cup {NoJob}, obj : Objs \cup {NoObj}, err : LoadErrors]
IdleWorker == [pc |-> "idle", job |-> NoJob, obj |-> NoObj, err |-> "none"]

ReloadState == [pc : {"idle", "read", "loaded", "swap", "insert"},
                tenant : Tenants \cup {NoTenant},
                next : Objs \cup {NoObj}, target : Objs \cup {NoObj}]
IdleReload == [pc |-> "idle", tenant |-> NoTenant, next |-> NoObj, target |-> NoObj]

Elems(s) == {s[i] : i \in 1 .. Len(s)}

TypeOK ==
    /\ disk \in [Tenants -> File]
    /\ heap \in [Objs -> Policy]
    /\ cache \in [Tenants -> Objs \cup {NoObj}]
    /\ lru \in Seq(Tenants)
    /\ loadCh \in Seq(Jobs) /\ Len(loadCh) <= CacheSize
    /\ sendq \in Seq(Jobs)
    /\ helpers \in SUBSET Jobs
    /\ job \in [Jobs -> Job]
    /\ flight \in [Tenants -> Requests \cup {NoReq}]
    /\ req \in [Requests -> Call]
    /\ worker \in [Workers -> WorkerState]
    /\ reload \in [Reloads -> ReloadState]
    /\ status \in {"open", "closed", "crashed"}

-----------------------------------------------------------------------------
(* References and collection *)

UsedJobs == Elems(loadCh) \cup Elems(sendq) \cup helpers
            \cup {worker[w].job : w \in Workers} \cup {req[r].job : r \in Requests}

LiveObjs == {cache[t] : t \in Tenants} \cup {req[r].obj : r \in Requests}
            \cup {worker[w].obj : w \in Workers} \cup {job[j].obj : j \in Jobs}
            \cup {reload[k].next : k \in Reloads} \cup {reload[k].target : k \in Reloads}

\* The jobs become jb and the objects h, less those nothing refers to any more.
JobsAre(jb) == job' = [j \in Jobs |-> IF j \in UsedJobs' THEN jb[j] ELSE FreeJob]
HeapIs(h) == heap' = [o \in Objs |-> IF o \in LiveObjs' THEN h[o] ELSE Freed]

\* Names of objects and of jobs carry no meaning: a new one takes the least free name.
FreshObj(o) == /\ o \in Objs \ LiveObjs
               /\ \A p \in Objs \ LiveObjs : o <= p
FreshJob(j) == /\ j \in Jobs \ UsedJobs
               /\ \A i \in Jobs \ UsedJobs : j <= i

\* Bound: a call starts only while a job name is left for it, so that no call already
\* under way ever waits for one.
RoomForCall ==
    Cardinality(UsedJobs \ {NoJob})
    + Cardinality({r \in Requests : req[r].pc \in {"miss", "follow", "lead", "send"}}) < MaxJobs

-----------------------------------------------------------------------------
(* The LRU list and the cache map: container/list and getCached, insert *)

\* list.MoveToFront for an element of the list.
MoveToFront(s, x) ==
    LET at == CHOOSE i \in 1 .. Len(s) : s[i] = x
    IN  [i \in 1 .. Len(s) |-> IF i = 1 THEN x ELSE IF i <= at THEN s[i - 1] ELSE s[i]]

\* list.PushFront.
PushFront(s, x) == [i \in 1 .. Len(s) + 1 |-> IF i = 1 THEN x ELSE s[i - 1]]

\* Mutant: the loop removes list elements and leaves them in the map.
EvictedForgotten(s) == {}

\* The tenants the eviction loop of insert removes from the back of list s.
Evicted(s) == {s[i] : i \in CacheSize + 1 .. Len(s)}

\* The list that is left when the loop ends.
Kept(s) == [i \in 1 .. (IF Len(s) > CacheSize THEN CacheSize ELSE Len(s)) |-> s[i]]

\* Mutant: a hit does not refresh the entry.
TouchForgotten(t) == UNCHANGED lru

\* getCached on a hit.  A miss changes nothing.
Touch(t) == lru' = MoveToFront(lru, t)

\* insert: replace the pointer of an existing entry, or add one and evict from the back.
insert(t, o) ==
    IF cache[t] # NoObj
    THEN /\ cache' = [cache EXCEPT ![t] = o]
         /\ Touch(t)
    ELSE LET pushed == PushFront(lru, t)
         IN  /\ lru' = Kept(pushed)
             /\ cache' = [x \in Tenants |-> IF x \in Evicted(pushed) THEN NoObj
                                            ELSE IF x = t THEN o ELSE cache[x]]

\* loadFromDisk: why a load of t fails now, or "none".
LoadError(t) == CASE disk[t].state = "absent" -> "notfound"
                  [] disk[t].state = "corrupt" -> "load"
                  [] disk[t].state = "ok" -> "none"

\* The policy a successful load of t builds now.
DiskPolicy(t) == [owner |-> t, ver |-> disk[t].ver]

-----------------------------------------------------------------------------
(* Requests: TenantPolicyFor, loadTenant, Decide *)

\* The call of r ends with policy o or with error e; the goroutine still holds the result.
Result(t, o, e) == [pc |-> IF e = "none" THEN "have" ELSE "fail", tenant |-> t,
                    job |-> NoJob, obj |-> o, err |-> e]

\* Mutant: the key stays in the group after the flight.
DeliverKeepsKey(t, o, e) ==
    /\ req' = [x \in Requests |->
                 IF x = flight[t] \/ (req[x].pc = "follow" /\ req[x].tenant = t)
                 THEN Result(t, o, e) ELSE req[x]]
    /\ UNCHANGED flight

\* The function of group.Do returned: its leader and everyone who joined it get the
\* result, and the key is free for the next caller.
Deliver(t, o, e) ==
    /\ req' = [x \in Requests |->
                 IF x = flight[t] \/ (req[x].pc = "follow" /\ req[x].tenant = t)
                 THEN Result(t, o, e) ELSE req[x]]
    /\ flight' = [flight EXCEPT ![t] = NoReq]

\* TenantPolicyFor with an id the code rejects.
TenantPolicyForInvalid(r) ==
    /\ req[r].pc = "idle"
    /\ req' = [req EXCEPT ![r] = Result(NoTenant, NoObj, "notfound")]
    /\ UNCHANGED <<disk, heap, cache, lru, loadCh, sendq, helpers, job, flight,
                   worker, reload, status>>

TenantPolicyFor(r, t) ==
    /\ req[r].pc = "idle"
    /\ RoomForCall
    /\ IF cache[t] # NoObj
       THEN /\ Touch(t)
            /\ req' = [req EXCEPT ![r] = Result(t, cache[t], "none")]
       ELSE /\ req' = [req EXCEPT ![r] = [IdleCall EXCEPT !.pc = "miss", !.tenant = t]]
            /\ UNCHANGED lru
    /\ UNCHANGED <<disk, heap, cache, loadCh, sendq, helpers, job, flight, worker,
                   reload, status>>

\* group.Do: lead the load of the tenant, or wait for whoever leads it.
GroupDo(r) ==
    LET t == req[r].tenant
    IN  /\ req[r].pc = "miss"
        /\ IF flight[t] = NoReq
           THEN /\ flight' = [flight EXCEPT ![t] = r]
                /\ req' = [req EXCEPT ![r].pc = "lead"]
           ELSE /\ req' = [req EXCEPT ![r].pc = "follow"]
                /\ UNCHANGED flight
        /\ UNCHANGED <<disk, heap, cache, lru, loadCh, sendq, helpers, job, worker,
                       reload, status>>

\* The leader looks into the cache again before it asks for a load.
SecondLook(r) ==
    LET t == req[r].tenant
    IN  /\ req[r].pc = "lead"
        /\ IF cache[t] # NoObj
           THEN /\ Touch(t)
                /\ Deliver(t, cache[t], "none")
           ELSE /\ req' = [req EXCEPT ![r].pc = "send"]
                /\ UNCHANGED <<lru, flight>>
        /\ UNCHANGED <<disk, heap, cache, loadCh, sendq, helpers, job, worker,
                       reload, status>>

\* Mutant: the default branch of the select drops the job.
SendJobDropped(r) ==
    /\ req[r].pc = "send"
    /\ status = "open"
    /\ \E j \in Jobs :
         /\ FreshJob(j)
         /\ req' = [req EXCEPT ![r].pc = "wait", ![r].job = j]
         /\ loadCh' = IF Len(loadCh) < CacheSize THEN Append(loadCh, j) ELSE loadCh
         /\ UNCHANGED <<sendq, helpers, worker>>
         /\ JobsAre([job EXCEPT ![j] = NewJob(req[r].tenant)])
    /\ UNCHANGED <<disk, heap, cache, lru, flight, reload, status>>

\* The non-blocking send of the job: into the buffer, or left to a helper goroutine.
SendJob(r) ==
    /\ req[r].pc = "send"
    /\ status = "open"
    /\ \E j \in Jobs :
         /\ FreshJob(j)
         /\ req' = [req EXCEPT ![r].pc = "wait", ![r].job = j]
         /\ IF Len(loadCh) < CacheSize
            THEN loadCh' = Append(loadCh, j) /\ UNCHANGED helpers
            ELSE helpers' = helpers \cup {j} /\ UNCHANGED loadCh
         /\ UNCHANGED sendq
         /\ UNCHANGED worker
         /\ JobsAre([job EXCEPT ![j] = NewJob(req[r].tenant)])
    /\ UNCHANGED <<disk, heap, cache, lru, flight, reload, status>>

\* A send on the closed channel panics in the leader, and singleflight panics in
\* everyone who joined it; net/http recovers each of them.
SendOnClosed(r) ==
    /\ req[r].pc = "send"
    /\ status = "closed"
    /\ Deliver(req[r].tenant, NoObj, "panic")
    /\ UNCHANGED <<disk, heap, cache, lru, loadCh, sendq, helpers, job, worker,
                   reload, status>>

\* The answer of the worker is in the result channel.
TakeAnswer(r) ==
    LET j == req[r].job
    IN  /\ req[r].pc = "wait"
        /\ job[j].done
        /\ Deliver(req[r].tenant, job[j].obj, job[j].err)
        /\ UNCHANGED <<disk, cache, lru, loadCh, sendq, helpers, worker, reload, status>>
        /\ JobsAre(job)
        /\ HeapIs(heap)

\* Mutant: the clock of the timeout starts when a worker takes the job.
LoadTimeoutOnceTaken(r) ==
    /\ req[r].pc = "wait"
    /\ \E w \in Workers : worker[w].job = req[r].job
    /\ Deliver(req[r].tenant, NoObj, "timeout")
    /\ UNCHANGED <<disk, cache, lru, loadCh, sendq, helpers, worker, reload, status>>
    /\ JobsAre(job)
    /\ HeapIs(heap)

\* Mutant: a leader that gives up answers its own job, in the channel made for the worker.
LoadTimeoutAnswers(r) ==
    /\ req[r].pc = "wait"
    /\ Deliver(req[r].tenant, NoObj, "timeout")
    /\ UNCHANGED <<disk, cache, lru, loadCh, sendq, helpers, worker, reload, status>>
    /\ JobsAre([job EXCEPT ![req[r].job].done = TRUE, ![req[r].job].err = "timeout"])
    /\ HeapIs(heap)

\* LoadTimeout: the leader gives up on the job, which stays wherever it is.
LoadTimeout(r) ==
    /\ req[r].pc = "wait"
    /\ Deliver(req[r].tenant, NoObj, "timeout")
    /\ UNCHANGED <<disk, cache, lru, loadCh, sendq, helpers, worker, reload, status>>
    /\ JobsAre(job)
    /\ HeapIs(heap)

\* Decide evaluates the policy it holds, or reports the error, and the call is over.
Decide(r) ==
    /\ req[r].pc \in {"have", "fail"}
    /\ req' = [req EXCEPT ![r] = IdleCall]
    /\ UNCHANGED <<disk, cache, lru, loadCh, sendq, helpers, job, flight, worker,
                   reload, status>>
    /\ HeapIs(heap)

-----------------------------------------------------------------------------
(* Load workers and the helper goroutines of a saturated queue *)

\* The helper goroutine runs: it sends, or blocks behind the earlier ones.
HelperSend(j) ==
    /\ j \in helpers
    /\ status = "open"
    /\ helpers' = helpers \ {j}
    /\ IF Len(loadCh) < CacheSize
       THEN loadCh' = Append(loadCh, j) /\ UNCHANGED sendq
       ELSE sendq' = Append(sendq, j) /\ UNCHANGED loadCh
    /\ UNCHANGED <<disk, heap, cache, lru, job, flight, req, worker, reload, status>>

\* A helper whose send meets the closed channel panics outside any recover.
HelperPanic ==
    /\ helpers # {} \/ sendq # <<>>
    /\ status = "closed"
    /\ status' = "crashed"
    /\ UNCHANGED <<disk, heap, cache, lru, loadCh, sendq, helpers, job, flight, req,
                   worker, reload>>

\* A worker receives the oldest job; the first blocked sender gets the free place.
WorkerTake(w) ==
    /\ worker[w].pc = "idle"
    /\ loadCh # <<>>
    /\ worker' = [worker EXCEPT ![w] = [IdleWorker EXCEPT !.pc = "load", !.job = Head(loadCh)]]
    /\ IF sendq = <<>> \/ status = "closed"
       THEN loadCh' = Tail(loadCh) /\ UNCHANGED sendq
       ELSE loadCh' = Append(Tail(loadCh), Head(sendq)) /\ sendq' = Tail(sendq)
    /\ UNCHANGED <<disk, heap, cache, lru, helpers, job, flight, req, reload, status>>

\* loadFromDisk in a worker.
WorkerLoad(w) ==
    LET t == job[worker[w].job].tenant
        e == LoadError(t)
    IN  /\ worker[w].pc = "load"
        /\ \/ /\ e = "none"
              /\ \E o \in Objs :
                   /\ FreshObj(o)
                   /\ worker' = [worker EXCEPT ![w].pc = "loaded", ![w].obj = o]
                   /\ UNCHANGED <<cache, job, req, reload>>
                   /\ HeapIs([heap EXCEPT ![o] = DiskPolicy(t)])
           \/ /\ e # "none"
              /\ worker' = [worker EXCEPT ![w].pc = "reply", ![w].err = e]
              /\ UNCHANGED <<heap, cache, job, req, reload>>
        /\ UNCHANGED <<disk, lru, loadCh, sendq, helpers, flight, status>>

\* Mutant: an entry that is there already is kept, and the loaded policy still answered.
WorkerInsertIfAbsent(w) ==
    LET t == job[worker[w].job].tenant
    IN  /\ worker[w].pc = "loaded"
        /\ IF cache[t] # NoObj THEN UNCHANGED <<cache, lru>> ELSE insert(t, worker[w].obj)
        /\ worker' = [worker EXCEPT ![w].pc = "reply"]
        /\ UNCHANGED <<disk, loadCh, sendq, helpers, job, flight, req, reload, status>>
        /\ HeapIs(heap)

WorkerInsert(w) ==
    /\ worker[w].pc = "loaded"
    /\ insert(job[worker[w].job].tenant, worker[w].obj)
    /\ worker' = [worker EXCEPT ![w].pc = "reply"]
    /\ UNCHANGED <<disk, loadCh, sendq, helpers, job, flight, req, reload, status>>
    /\ HeapIs(heap)

\* Mutant: a failed load ends the worker's loop.
WorkerReplyStopsOnError(w) ==
    /\ worker[w].pc = "reply"
    /\ worker' = [worker EXCEPT ![w] = [IdleWorker EXCEPT
                     !.pc = IF worker[w].err = "none" THEN "idle" ELSE "exited"]]
    /\ UNCHANGED <<disk, cache, lru, loadCh, sendq, helpers, flight, req, reload, status>>
    /\ JobsAre([job EXCEPT ![worker[w].job].done = TRUE, ![worker[w].job].obj = worker[w].obj,
                           ![worker[w].job].err = worker[w].err])
    /\ HeapIs(heap)

\* The result channel has room for the one answer, so the worker never blocks here.
WorkerReply(w) ==
    /\ worker[w].pc = "reply"
    /\ worker' = [worker EXCEPT ![w] = IdleWorker]
    /\ UNCHANGED <<disk, cache, lru, loadCh, sendq, helpers, flight, req, reload, status>>
    /\ JobsAre([job EXCEPT ![worker[w].job].done = TRUE, ![worker[w].job].obj = worker[w].obj,
                           ![worker[w].job].err = worker[w].err])
    /\ HeapIs(heap)

\* Mutant: a plain receive in the loop, which yields zero jobs for ever after Close.
WorkerExitSpins(w) ==
    /\ worker[w].pc = "idle"
    /\ status = "closed"
    /\ loadCh = <<>>
    /\ UNCHANGED vars

\* The range loop ends once the closed channel is drained.
WorkerExit(w) ==
    /\ worker[w].pc = "idle"
    /\ status = "closed"
    /\ loadCh = <<>>
    /\ worker' = [worker EXCEPT ![w].pc = "exited"]
    /\ UNCHANGED <<disk, heap, cache, lru, loadCh, sendq, helpers, job, flight, req,
                   reload, status>>

-----------------------------------------------------------------------------
(* ReloadTenant *)

ReloadTenant(k, t) ==
    /\ reload[k].pc = "idle"
    /\ reload' = [reload EXCEPT ![k].pc = "read", ![k].tenant = t]
    /\ UNCHANGED <<disk, heap, cache, lru, loadCh, sendq, helpers, job, flight, req,
                   worker, status>>

ReloadLoad(k) ==
    LET t == reload[k].tenant
    IN  /\ reload[k].pc = "read"
        /\ \/ /\ LoadError(t) = "none"
              /\ \E o \in Objs :
                   /\ FreshObj(o)
                   /\ reload' = [reload EXCEPT ![k].pc = "loaded", ![k].next = o]
                   /\ UNCHANGED <<cache, job, req, worker>>
                   /\ HeapIs([heap EXCEPT ![o] = DiskPolicy(t)])
           \/ /\ LoadError(t) # "none"
              /\ reload' = [reload EXCEPT ![k] = IdleReload]
              /\ UNCHANGED <<heap, cache, job, req, worker>>
        /\ UNCHANGED <<disk, lru, loadCh, sendq, helpers, flight, status>>

\* Mutant: the reload takes the front entry of the list for the tenant's own.
ReloadLookupFront(k) ==
    /\ reload[k].pc = "loaded"
    /\ reload' = [reload EXCEPT ![k].pc = IF lru # <<>> THEN "swap" ELSE "insert",
                                ![k].target = IF lru # <<>> THEN cache[lru[1]] ELSE NoObj]
    /\ UNCHANGED <<disk, heap, cache, lru, loadCh, sendq, helpers, job, flight, req,
                   worker, status>>

\* The entry is looked up under the lock and its policy pointer read after the unlock.
\* An entry's pointer changes only while the entry is in the cache, so the read pairs
\* with a lookup at the same moment, or just before the entry is evicted.
ReloadLookup(k) ==
    LET t == reload[k].tenant
    IN  /\ reload[k].pc = "loaded"
        /\ reload' = [reload EXCEPT ![k].pc = IF cache[t] # NoObj THEN "swap" ELSE "insert",
                                    ![k].target = cache[t]]
        /\ UNCHANGED <<disk, heap, cache, lru, loadCh, sendq, helpers, job, flight, req,
                       worker, status>>

\* TenantPolicy.Swap, in place: also in an object that is no longer cached.
ReloadSwap(k) ==
    /\ reload[k].pc = "swap"
    /\ reload' = [reload EXCEPT ![k] = IdleReload]
    /\ UNCHANGED <<disk, cache, lru, loadCh, sendq, helpers, job, flight, req, worker, status>>
    /\ HeapIs([heap EXCEPT ![reload[k].target] = heap[reload[k].next]])

ReloadInsert(k) ==
    /\ reload[k].pc = "insert"
    /\ insert(reload[k].tenant, reload[k].next)
    /\ reload' = [reload EXCEPT ![k] = IdleReload]
    /\ UNCHANGED <<disk, loadCh, sendq, helpers, job, flight, req, worker, status>>
    /\ HeapIs(heap)

-----------------------------------------------------------------------------
(* Close, and the control plane's changes of policy.db *)

Close ==
    /\ MayClose
    /\ status = "open"
    /\ status' = "closed"
    /\ UNCHANGED <<disk, heap, cache, lru, loadCh, sendq, helpers, job, flight, req,
                   worker, reload>>

\* A new policy.db is renamed into place.  One the loader cannot read is possible too.
Publish(t) ==
    /\ disk[t].ver < MaxVersion
    /\ \E s \in {"ok", "corrupt"} : disk' = [disk EXCEPT ![t] = [ver |-> @.ver + 1, state |-> s]]
    /\ UNCHANGED <<heap, cache, lru, loadCh, sendq, helpers, job, flight, req, worker,
                   reload, status>>

Unpublish(t) ==
    /\ disk[t].state # "absent"
    /\ disk' = [disk EXCEPT ![t].state = "absent"]
    /\ UNCHANGED <<heap, cache, lru, loadCh, sendq, helpers, job, flight, req, worker,
                   reload, status>>

-----------------------------------------------------------------------------
Init ==
    /\ disk \in [Tenants -> {[ver |-> 0, state |-> "absent"], [ver |-> 0, state |-> "ok"]}]
    /\ heap = [o \in Objs |-> Freed]
    /\ cache = [t \in Tenants |-> NoObj]
    /\ lru = <<>>
    /\ loadCh = <<>>
    /\ sendq = <<>>
    /\ helpers = {}
    /\ job = [j \in Jobs |-> FreeJob]
    /\ flight = [t \in Tenants |-> NoReq]
    /\ req = [r \in Requests |-> IdleCall]
    /\ worker = [w \in Workers |-> IdleWorker]
    /\ reload = [k \in Reloads |-> IdleReload]
    /\ status = "open"

RequestStep(r) ==
    \/ GroupDo(r) \/ SecondLook(r) \/ SendJob(r) \/ SendOnClosed(r)
    \/ TakeAnswer(r) \/ LoadTimeout(r) \/ Decide(r)

\* The worker's steps other than the load from disk.
WorkerQuiet(w) == WorkerTake(w) \/ WorkerInsert(w) \/ WorkerReply(w) \/ WorkerExit(w)

\* The reload's steps after its load from disk.
ReloadQuiet(k) == ReloadLookup(k) \/ ReloadSwap(k) \/ ReloadInsert(k)

\* What requests, workers and Close do without the disk.
ServeNext ==
    \/ \E r \in Requests : \/ TenantPolicyForInvalid(r)
                           \/ \E t \in Tenants : TenantPolicyFor(r, t)
                           \/ RequestStep(r)
    \/ \E w \in Workers : WorkerQuiet(w)
    \/ \E j \in Jobs : HelperSend(j)
    \/ HelperPanic
    \/ Close

Next ==
    /\ status # "crashed"
    /\ \/ ServeNext
       \/ \E w \in Workers : WorkerLoad(w)
       \/ \E k \in Reloads : ReloadLoad(k) \/ ReloadQuiet(k)
       \/ \E k \in Reloads, t \in Tenants : ReloadTenant(k, t)
       \/ \E t \in Tenants : Publish(t) \/ Unpublish(t)

Spec == Init /\ [][Next]_vars

\* Goroutines of requests run and LoadTimeout expires; workers and helpers run, except that
\* a load from disk may hang for ever.
Fairness ==
    /\ \A r \in Requests : WF_vars(RequestStep(r) /\ status # "crashed")
    /\ \A w \in Workers : WF_vars(WorkerQuiet(w) /\ status # "crashed")
    /\ \A j \in Jobs : WF_vars(HelperSend(j))
    /\ WF_vars(HelperPanic)

FairSpec == Spec /\ Fairness

-----------------------------------------------------------------------------
(* Properties *)

\* What the pc of each goroutine says about the job and the objects it holds.  Needed to
\* show TypeOK: a load needs a tenant, and an answer without error has a policy.
JobsHaveTenants == \A j \in UsedJobs \ {NoJob} : job[j].tenant \in Tenants

AnswersHavePolicy == \A j \in Jobs : job[j].done /\ job[j].err = "none" => job[j].obj # NoObj

CallOK(r) ==
    /\ req[r].pc \in {"miss", "follow", "have"} \cup Leading => req[r].tenant \in Tenants
    /\ req[r].pc = "wait" <=> req[r].job # NoJob
    /\ req[r].pc = "have" => req[r].obj # NoObj

WorkerOK(w) ==
    /\ worker[w].pc \in {"load", "loaded", "reply"} <=> worker[w].job # NoJob
    /\ worker[w].pc = "loaded" => worker[w].obj # NoObj
    /\ worker[w].pc = "reply" /\ worker[w].err = "none" => worker[w].obj # NoObj
    /\ worker[w].pc \in {"idle", "load", "exited"} => worker[w].obj = NoObj

ReloadOK(k) ==
    /\ reload[k].pc # "idle" => reload[k].tenant \in Tenants
    /\ reload[k].pc \in {"loaded", "swap", "insert"} <=> reload[k].next # NoObj
    /\ reload[k].pc = "swap" <=> reload[k].target # NoObj

WellFormed ==
    /\ JobsHaveTenants
    /\ AnswersHavePolicy
    /\ \A r \in Requests : CallOK(r)
    /\ \A w \in Workers : WorkerOK(w)
    /\ \A k \in Reloads : ReloadOK(k)

\* insert, getCached: the map and the LRU list hold the same tenants, each once, and
\* never more than CacheSize of them, whichever of workers, requests and timers ran.
CacheConsistent ==
    /\ Len(lru) <= CacheSize
    /\ \A i, j \in 1 .. Len(lru) : lru[i] = lru[j] => i = j
    /\ {t \in Tenants : cache[t] # NoObj} = Elems(lru)

\* A leader waits for a job of its own tenant.
WaitsForOwnTenant ==
    \A r \in Requests : req[r].pc = "wait" => job[req[r].job].tenant = req[r].tenant

\* A pointer to a policy held for tenant t, wherever it is on its way, points to an
\* object with the policy of t: also when Swap overwrites an object that is shared, and
\* when an answer arrives after its leader has timed out.
TenantIsolation ==
    /\ \A t \in Tenants : cache[t] # NoObj => heap[cache[t]].owner = t
    /\ \A r \in Requests : req[r].pc = "have" =>
          req[r].tenant \in Tenants /\ heap[req[r].obj].owner = req[r].tenant
    /\ \A w \in Workers : worker[w].obj # NoObj =>
          heap[worker[w].obj].owner = job[worker[w].job].tenant
    /\ \A j \in Jobs : job[j].obj # NoObj => heap[job[j].obj].owner = job[j].tenant
    /\ \A k \in Reloads : reload[k].next # NoObj =>
          heap[reload[k].next].owner = reload[k].tenant
    /\ \A k \in Reloads : reload[k].target # NoObj =>
          heap[reload[k].target].owner = reload[k].tenant

\* loadTenant: a tenant's misses have one leader at a time, the key of the group names
\* it, and nobody waits for a flight that has ended.
SingleFlight ==
    /\ \A r \in Requests : req[r].pc \in Leading => flight[req[r].tenant] = r
    /\ \A r \in Requests : req[r].pc = "follow" => flight[req[r].tenant] # NoReq
    /\ \A t \in Tenants : flight[t] # NoReq =>
          req[flight[t]].pc \in Leading /\ req[flight[t]].tenant = t

\* How many places hold job j: the queue, its blocked senders, the helpers, the workers.
Places(j) ==
    Cardinality({i \in 1 .. Len(loadCh) : loadCh[i] = j})
    + Cardinality({i \in 1 .. Len(sendq) : sendq[i] = j})
    + (IF j \in helpers THEN 1 ELSE 0)
    + Cardinality({w \in Workers : worker[w].job = j})

\* loadTenant, loadWorker: the job a leader waits for is for its own tenant, and is at
\* exactly one place until it is answered and at none afterwards: never lost when the
\* queue is saturated, never loaded twice.
NoLostJob ==
    \A r \in Requests : req[r].pc = "wait" =>
        LET j == req[r].job
        IN  /\ job[j].tenant = req[r].tenant
            /\ Places(j) = (IF job[j].done THEN 0 ELSE 1)

\* TenantPolicyFor returns: a leader by its timeout at the latest, a follower with its
\* leader, even when every worker hangs in a load for ever.
EveryCallReturns ==
    \A r \in Requests : req[r].pc # "idle" ~> (req[r].pc = "idle" \/ status = "crashed")

\* The load from disk that worker w is in never ends.
Hangs(w) == <>[](worker[w].pc = "load")

\* loadTenant, loadWorker: the jobs that saturated the queue, those given up by their
\* leaders too, are all taken unless every worker hangs: no sender is overtaken for ever.
NoJobStarves ==
    \A j \in Jobs : j \in helpers \cup Elems(sendq) \cup Elems(loadCh) ~>
        \/ j \notin helpers \cup Elems(sendq) \cup Elems(loadCh)
        \/ status = "crashed"
        \/ \A w \in Workers : Hangs(w)

\* Close: a worker drains the channel and stops unless it hangs in a load, or a helper's
\* panic ends everything.
WorkersExit ==
    \A w \in Workers :
        status = "closed" ~> (status = "crashed" \/ worker[w].pc = "exited" \/ Hangs(w))
=============================================================================
