--------------------------- MODULE RegistryProofs ---------------------------
(***************************************************************************)
(* Theorems about the registry, for every number of tenants, requests,     *)
(* workers and timers and for every CacheSize: its types, the cache, whose *)
(* policy a pointer leads to, how misses are coalesced, where their jobs   *)
(* are, what the cache keeps, and that the registry implements             *)
(* PolicyService.                                                          *)
(***************************************************************************)
EXTENDS RegistryService, RegistryLRU, FiniteSetTheorems, TLAPS

-----------------------------------------------------------------------------
(* Sequences *)

\* The elements of a job queue are jobs.
LEMMA ElemsType ==
    ASSUME NEW S, NEW s \in Seq(S)
    PROVE  Elems(s) \subseteq S
BY DEF Elems

\* A send adds its job to the queue.
LEMMA ElemsAppend ==
    ASSUME NEW S, NEW s \in Seq(S), NEW x \in S
    PROVE  /\ Append(s, x) \in Seq(S)
           /\ Elems(Append(s, x)) = Elems(s) \cup {x}
<1>1. /\ Append(s, x) \in Seq(S)
      /\ Len(Append(s, x)) = Len(s) + 1
      /\ \A i \in 1 .. Len(s) : Append(s, x)[i] = s[i]
      /\ Append(s, x)[Len(s) + 1] = x
      /\ Len(s) \in Nat
  OBVIOUS
<1>2. 1 .. Len(s) + 1 = (1 .. Len(s)) \cup {Len(s) + 1}
  BY <1>1
<1>3. QED
  BY <1>1, <1>2 DEF Elems

\* A receive takes the head of the queue and leaves the others.
LEMMA ElemsTail ==
    ASSUME NEW S, NEW s \in Seq(S), s # << >>
    PROVE  /\ Tail(s) \in Seq(S)
           /\ Len(Tail(s)) = Len(s) - 1
           /\ Head(s) \in S
           /\ Head(s) \in Elems(s)
           /\ Elems(Tail(s)) \subseteq Elems(s)
<1>1. /\ Tail(s) \in Seq(S)
      /\ Len(s) \in Nat \ {0}
      /\ Len(Tail(s)) = Len(s) - 1
      /\ Head(s) = s[1]
      /\ \A i \in 1 .. Len(s) - 1 : Tail(s)[i] = s[i + 1]
  OBVIOUS
<1>2. QED
  BY <1>1 DEF Elems

-----------------------------------------------------------------------------
(* The LRU list *)

\* MoveToFront permutes the list.
LEMMA MoveToFrontProps ==
    ASSUME NEW S, NEW s \in Seq(S), NEW x \in Elems(s),
           \A i, j \in 1 .. Len(s) : s[i] = s[j] => i = j
    PROVE  /\ MoveToFront(s, x) \in Seq(S)
           /\ Len(MoveToFront(s, x)) = Len(s)
           /\ Elems(MoveToFront(s, x)) = Elems(s)
           /\ \A i, j \in 1 .. Len(s) : MoveToFront(s, x)[i] = MoveToFront(s, x)[j] => i = j
<1> DEFINE at == CHOOSE i \in 1 .. Len(s) : s[i] = x
           m == MoveToFront(s, x)
<1>1. at \in 1 .. Len(s) /\ s[at] = x
  BY DEF Elems
<1>2. Len(s) \in Nat
  OBVIOUS
<1>3. m = [i \in 1 .. Len(s) |-> IF i = 1 THEN x ELSE IF i <= at THEN s[i - 1] ELSE s[i]]
  BY DEF MoveToFront
<1> HIDE DEF at, m
<1>4. x \in S
  BY <1>1
<1>5. \A i \in 1 .. Len(s) : m[i] \in S
  BY <1>1, <1>2, <1>3, <1>4
<1>6. m \in Seq(S) /\ Len(m) = Len(s)
  BY <1>2, <1>3, <1>5
<1>7. \A i \in 1 .. Len(s) : m[i] \in Elems(s)
  BY <1>1, <1>2, <1>3 DEF Elems
<1>8. ASSUME NEW i \in 1 .. Len(s)
      PROVE  s[i] \in Elems(m)
  <2>1. CASE i = at
    <3>1. m[1] = s[i] /\ 1 \in 1 .. Len(m)
      BY <1>1, <1>2, <1>3, <1>6, <2>1
    <3>2. QED
      BY <3>1 DEF Elems
  <2>2. CASE i < at
    <3>1. m[i + 1] = s[i] /\ i + 1 \in 1 .. Len(m)
      BY <1>1, <1>2, <1>3, <1>6, <2>2
    <3>2. QED
      BY <3>1 DEF Elems
  <2>3. CASE i > at
    <3>1. m[i] = s[i] /\ i \in 1 .. Len(m)
      BY <1>1, <1>2, <1>3, <1>6, <2>3
    <3>2. QED
      BY <3>1 DEF Elems
  <2>4. QED
    BY <1>1, <1>2, <2>1, <2>2, <2>3
<1>9. Elems(m) = Elems(s)
  <2>1. \A y \in Elems(m) : y \in Elems(s)
    <3> SUFFICES ASSUME NEW i \in 1 .. Len(m) PROVE m[i] \in Elems(s)
      BY Zenon DEF Elems
    <3> QED
      BY <1>6, <1>7
  <2>2. \A y \in Elems(s) : y \in Elems(m)
    <3> SUFFICES ASSUME NEW i \in 1 .. Len(s) PROVE s[i] \in Elems(m)
      BY Zenon DEF Elems
    <3> QED
      BY <1>8
  <2>3. QED
    BY <2>1, <2>2, Zenon
<1>10. ASSUME NEW i \in 1 .. Len(s), NEW j \in 1 .. Len(s), m[i] = m[j]
       PROVE  i = j
  <2> DEFINE from(n) == IF n = 1 THEN at ELSE IF n <= at THEN n - 1 ELSE n
  <2>1. \A n \in 1 .. Len(s) : from(n) \in 1 .. Len(s) /\ m[n] = s[from(n)]
    BY <1>1, <1>2, <1>3
  <2>2. from(i) = from(j)
    BY <1>10, <2>1
  <2>3. QED
    BY <1>1, <1>2, <2>2
<1>11. QED
  BY <1>6, <1>9, <1>10 DEF m

\* A new entry, and the eviction of the entries that are too many: the list keeps its
\* shape, holds x, and has lost exactly the evicted tenants.
LEMMA PushAndEvict ==
    ASSUME NEW S, NEW s \in Seq(S), NEW x \in S, x \notin Elems(s),
           \A i, j \in 1 .. Len(s) : s[i] = s[j] => i = j
    PROVE  LET p == PushFront(s, x)
               k == Kept(p)
           IN  /\ k \in Seq(S)
               /\ Len(k) <= CacheSize
               /\ x \in Elems(k)
               /\ x \notin Evicted(p)
               /\ Elems(k) = (Elems(s) \cup {x}) \ Evicted(p)
               /\ \A i, j \in 1 .. Len(k) : k[i] = k[j] => i = j
<1> DEFINE p == PushFront(s, x)
           k == Kept(p)
           n == IF Len(p) > CacheSize THEN CacheSize ELSE Len(p)
<1>1. Len(s) \in Nat /\ CacheSize \in Nat \ {0}
  BY CacheSizeAssumption
<1>2. p = [i \in 1 .. Len(s) + 1 |-> IF i = 1 THEN x ELSE s[i - 1]]
  BY DEF PushFront
<1> HIDE DEF p
<1>3. p \in Seq(S) /\ Len(p) = Len(s) + 1
  BY <1>1, <1>2
<1>4. \A i, j \in 1 .. Len(p) : p[i] = p[j] => i = j
  BY <1>1, <1>2, <1>3 DEF Elems
<1>5. Elems(p) = Elems(s) \cup {x}
  <2>1. \A i \in 1 .. Len(p) : p[i] \in Elems(s) \cup {x}
    BY <1>1, <1>2, <1>3 DEF Elems
  <2>2. \A i \in 1 .. Len(s) : i + 1 \in 1 .. Len(p) /\ p[i + 1] = s[i]
    BY <1>1, <1>2, <1>3
  <2>3. 1 \in 1 .. Len(p) /\ p[1] = x
    BY <1>1, <1>2, <1>3
  <2>4. \A y \in Elems(p) : y \in Elems(s) \cup {x}
    BY <2>1, Zenon DEF Elems
  <2>5. \A y \in Elems(s) : y \in Elems(p)
    <3> SUFFICES ASSUME NEW i \in 1 .. Len(s) PROVE s[i] \in Elems(p)
      BY Zenon DEF Elems
    <3> QED
      BY <2>2 DEF Elems
  <2>6. x \in Elems(p)
    BY <2>3 DEF Elems
  <2>7. QED
    BY <2>4, <2>5, <2>6, Zenon
<1>6. n \in 1 .. Len(p) /\ n <= CacheSize
  BY <1>1, <1>3
<1>7. k = [i \in 1 .. n |-> p[i]]
  BY DEF Kept
<1>8. Evicted(p) = {p[i] : i \in n + 1 .. Len(p)}
  BY <1>1, <1>3 DEF Evicted
<1> HIDE DEF n, k
<1>9. k \in Seq(S) /\ Len(k) = n
  BY <1>3, <1>6, <1>7
<1>10. \A i, j \in 1 .. Len(k) : k[i] = k[j] => i = j
  BY <1>3, <1>4, <1>6, <1>7, <1>9
<1>11. x \in Elems(k)
  <2>1. 1 \in 1 .. Len(k) /\ k[1] = x
    BY <1>1, <1>2, <1>3, <1>6, <1>7, <1>9
  <2>2. QED
    BY <2>1 DEF Elems
<1>12. Elems(k) = Elems(p) \ Evicted(p)
  <2>1. Elems(k) = {p[i] : i \in 1 .. n}
    BY <1>6, <1>7, <1>9 DEF Elems
  <2>2. \A i \in 1 .. n, j \in n + 1 .. Len(p) : p[i] # p[j]
    BY <1>3, <1>4, <1>6
  <2>3. \A i \in 1 .. Len(p) : i \in 1 .. n \/ i \in n + 1 .. Len(p)
    BY <1>3, <1>6
  <2>4. \A i \in 1 .. n : i \in 1 .. Len(p)
    BY <1>3, <1>6
  <2>5. \A y \in Elems(k) : y \in Elems(p) /\ y \notin Evicted(p)
    <3> SUFFICES ASSUME NEW i \in 1 .. n PROVE p[i] \in Elems(p) /\ p[i] \notin Evicted(p)
      BY <2>1, Zenon
    <3>1. p[i] \in Elems(p)
      BY <2>4, Zenon DEF Elems
    <3>2. p[i] \notin Evicted(p)
      BY <1>8, <2>2, Zenon
    <3>3. QED
      BY <3>1, <3>2
  <2>6. \A y \in Elems(p) : y \in Evicted(p) \/ y \in Elems(k)
    <3> SUFFICES ASSUME NEW i \in 1 .. Len(p) PROVE p[i] \in Evicted(p) \/ p[i] \in Elems(k)
      BY Zenon DEF Elems
    <3> QED
      BY <1>8, <2>1, <2>3, Zenon
  <2>7. QED
    BY <2>5, <2>6, Zenon
<1>13. QED
  BY <1>5, <1>6, <1>9, <1>10, <1>11, <1>12 DEF p, k
-----------------------------------------------------------------------------
(* Type correctness *)

\* Idle and free records are of their types.
LEMMA ConstantTypes ==
    /\ NoObj \notin Objs /\ NoJob \notin Jobs
    /\ Freed \in Policy
    /\ FreeJob \in Job
    /\ IdleCall \in Call
    /\ IdleWorker \in WorkerState
    /\ IdleReload \in ReloadState
BY BoundsAssumption DEF NoObj, Objs, NoJob, Jobs, Freed, Policy, FreeJob, Job, IdleCall, Call,
   IdleWorker, WorkerState, IdleReload, ReloadState, Versions, LoadErrors, Errors, Leading

\* A result of TenantPolicyFor is a call record.
LEMMA ResultType ==
    ASSUME NEW t \in Tenants \cup {NoTenant}, NEW o \in Objs \cup {NoObj}, NEW e \in Errors
    PROVE  Result(t, o, e) \in Call
BY DEF Result, Call, Errors, LoadErrors, Leading

\* A load fails with a load error or builds a policy.
LEMMA LoadErrorType ==
    ASSUME TypeOK, NEW t \in Tenants
    PROVE  LoadError(t) \in LoadErrors /\ DiskPolicy(t) \in Policy
BY DEF TypeOK, LoadError, LoadErrors, File, DiskPolicy, Policy

\* Delivering a result keeps the types.
LEMMA DeliverType ==
    ASSUME TypeOK, NEW t \in Tenants, NEW o \in Objs \cup {NoObj}, NEW e \in Errors,
           Deliver(t, o, e)
    PROVE  req' \in [Requests -> Call] /\ flight' \in [Tenants -> Requests \cup {NoReq}]
BY ResultType DEF TypeOK, Deliver

\* Collection keeps the types.
LEMMA CollectType ==
    /\ \A jb \in [Jobs -> Job] : JobsAre(jb) => job' \in [Jobs -> Job]
    /\ \A h \in [Objs -> Policy] : HeapIs(h) => heap' \in [Objs -> Policy]
BY ConstantTypes DEF JobsAre, HeapIs

\* Moving to the front keeps the type of the list.
LEMMA TouchType ==
    ASSUME TypeOK, NEW t \in Tenants, Touch(t)
    PROVE  lru' \in Seq(Tenants)
<1>1. lru \in Seq(Tenants) /\ Len(lru) \in Nat
  BY DEF TypeOK
<1>2. \A i \in 1 .. Len(lru) : lru'[i] \in Tenants
  BY <1>1 DEF Touch, MoveToFront
<1>3. lru' = [i \in 1 .. Len(lru) |-> lru'[i]]
  BY DEF Touch, MoveToFront
<1>4. QED
  BY <1>1, <1>2, <1>3

\* insert keeps the types of the cache and of the list.
LEMMA InsertType ==
    ASSUME TypeOK, NEW t \in Tenants, NEW o \in Objs \cup {NoObj}, insert(t, o)
    PROVE  cache' \in [Tenants -> Objs \cup {NoObj}] /\ lru' \in Seq(Tenants)
<1>1. CASE cache[t] # NoObj
  BY <1>1, TouchType DEF insert, TypeOK
<1>2. CASE cache[t] = NoObj
  <2> DEFINE p == PushFront(lru, t)
  <2>1. lru \in Seq(Tenants) /\ Len(lru) \in Nat
    BY DEF TypeOK
  <2>2. p = [i \in 1 .. Len(lru) + 1 |-> IF i = 1 THEN t ELSE lru[i - 1]]
    BY DEF PushFront
  <2>3. p \in Seq(Tenants)
    BY <2>1, <2>2
  <2>4. lru' = Kept(p) /\ cache' \in [Tenants -> Objs \cup {NoObj}]
    BY <1>2 DEF insert, TypeOK
  <2> HIDE DEF p
  <2>5. Kept(p) \in Seq(Tenants)
    BY <2>3, CacheSizeAssumption DEF Kept
  <2>6. QED
    BY <2>4, <2>5
<1>3. QED
  BY <1>1, <1>2

\* Changing only the pc of a call keeps the type.
LEMMA CallPcType ==
    ASSUME TypeOK, NEW r \in Requests,
           NEW pc \in {"idle", "miss", "follow", "have", "fail"} \cup Leading
    PROVE  [req EXCEPT ![r].pc = pc] \in [Requests -> Call]
<1>1. [req[r] EXCEPT !.pc = pc] \in Call
  BY DEF TypeOK, Call
<1>2. QED
  BY <1>1 DEF TypeOK

\* The same for the changes of several calls.
LEMMA CallPcsType ==
    ASSUME TypeOK, NEW r \in Requests
    PROVE  /\ [req EXCEPT ![r].pc = "lead"] \in [Requests -> Call]
           /\ [req EXCEPT ![r].pc = "follow"] \in [Requests -> Call]
           /\ [req EXCEPT ![r].pc = "send"] \in [Requests -> Call]
<1>1. {"lead", "follow", "send"} \subseteq {"idle", "miss", "follow", "have", "fail"} \cup Leading
  BY DEF Leading
<1>2. \A pc \in {"lead", "follow", "send"} : [req EXCEPT ![r].pc = pc] \in [Requests -> Call]
  BY <1>1, CallPcType
<1>3. QED
  BY <1>2

\* A send into a channel with room, and a receive, keep within the capacity.
LEMMA QueueType ==
    ASSUME TypeOK
    PROVE  /\ \A j \in Jobs : /\ Append(loadCh, j) \in Seq(Jobs)
                              /\ Len(loadCh) < CacheSize => Len(Append(loadCh, j)) <= CacheSize
                              /\ Append(sendq, j) \in Seq(Jobs)
           /\ loadCh # <<>> => /\ Head(loadCh) \in Jobs
                              /\ Tail(loadCh) \in Seq(Jobs)
                              /\ Len(Tail(loadCh)) < CacheSize
                              /\ \A j \in Jobs : /\ Append(Tail(loadCh), j) \in Seq(Jobs)
                                                 /\ Len(Append(Tail(loadCh), j)) <= CacheSize
           /\ sendq # <<>> => Head(sendq) \in Jobs /\ Tail(sendq) \in Seq(Jobs)
<1>1. /\ loadCh \in Seq(Jobs) /\ Len(loadCh) <= CacheSize /\ Len(loadCh) \in Nat
      /\ sendq \in Seq(Jobs)
  BY DEF TypeOK
<1>2. \A s \in Seq(Jobs) : \A j \in Jobs : Append(s, j) \in Seq(Jobs) /\ Len(Append(s, j)) = Len(s) + 1
  OBVIOUS
<1>3. \A s \in Seq(Jobs) : s # <<>> =>
        Head(s) \in Jobs /\ Tail(s) \in Seq(Jobs) /\ Len(Tail(s)) = Len(s) - 1
  BY ElemsTail
<1>4. loadCh # <<>> => Head(loadCh) \in Jobs /\ Tail(loadCh) \in Seq(Jobs) /\ Len(Tail(loadCh)) = Len(loadCh) - 1
  BY <1>1, <1>3
<1>5. loadCh # <<>> => \A j \in Jobs : Append(Tail(loadCh), j) \in Seq(Jobs) /\ Len(Append(Tail(loadCh), j)) = Len(loadCh)
  BY <1>1, <1>2, <1>4
<1>6. QED
  BY <1>1, <1>2, <1>3, <1>4, <1>5, CacheSizeAssumption

\* Whatever refers to a job refers to a job name.
LEMMA UsedJobsType == TypeOK => UsedJobs \subseteq Jobs \cup {NoJob}
<1> SUFFICES ASSUME TypeOK PROVE UsedJobs \subseteq Jobs \cup {NoJob}
  OBVIOUS
<1>1. Elems(loadCh) \subseteq Jobs /\ Elems(sendq) \subseteq Jobs
  BY ElemsType DEF TypeOK
<1>2. QED
  BY <1>1 DEF TypeOK, UsedJobs, Call, WorkerState

\* The registry NewRegistry makes is well-formed.
LEMMA TypeInit == Init => TypeOK /\ WellFormed
<1> SUFFICES ASSUME Init PROVE TypeOK /\ WellFormed
  OBVIOUS
<1>1. TypeOK
  BY ConstantTypes, BoundsAssumption, CacheSizeAssumption DEF Init, TypeOK, File, Versions
<1>2. UsedJobs \subseteq {NoJob}
  BY DEF Init, UsedJobs, Elems, IdleCall, IdleWorker
<1>3. WellFormed
  BY <1>2 DEF Init, WellFormed, JobsHaveTenants, AnswersHavePolicy, CallOK, WorkerOK, ReloadOK, FreeJob, IdleCall, IdleWorker, IdleReload, Leading
<1>4. QED
  BY <1>1, <1>3

\* Every step keeps the types.
LEMMA TypeStep == TypeOK /\ WellFormed /\ [Next]_vars => TypeOK'
<1> SUFFICES ASSUME TypeOK, WellFormed, [Next]_vars PROVE TypeOK'
  OBVIOUS
<1> USE ConstantTypes
<1>1. ASSUME NEW r \in Requests, TenantPolicyForInvalid(r) PROVE TypeOK'
  <2>1. Result(NoTenant, NoObj, "notfound") \in Call
    BY ResultType DEF Errors, LoadErrors
  <2>2. QED
    BY <1>1, <2>1 DEF TenantPolicyForInvalid, TypeOK
<1>2. ASSUME NEW r \in Requests, NEW t \in Tenants, TenantPolicyFor(r, t) PROVE TypeOK'
  <2>1. CASE cache[t] # NoObj
    <3>1. Result(t, cache[t], "none") \in Call
      BY ResultType DEF TypeOK, Errors, LoadErrors
    <3>2. lru' \in Seq(Tenants)
      BY <1>2, <2>1, TouchType DEF TenantPolicyFor
    <3>3. QED
      BY <1>2, <2>1, <3>1, <3>2 DEF TenantPolicyFor, TypeOK
  <2>2. CASE cache[t] = NoObj
    <3>1. [IdleCall EXCEPT !.pc = "miss", !.tenant = t] \in Call
      BY DEF Call
    <3>2. QED
      BY <1>2, <2>2, <3>1 DEF TenantPolicyFor, TypeOK
  <2>3. QED
    BY <2>1, <2>2
<1>3. ASSUME NEW r \in Requests, GroupDo(r) PROVE TypeOK'
  <2>1. req' \in [Requests -> Call]
    BY <1>3, CallPcsType, Zenon DEF GroupDo
  <2>2. flight' \in [Tenants -> Requests \cup {NoReq}]
    BY <1>3 DEF GroupDo, TypeOK
  <2>3. QED
    BY <1>3, <2>1, <2>2 DEF GroupDo, TypeOK
<1>4. ASSUME NEW r \in Requests, SecondLook(r) PROVE TypeOK'
  <2> DEFINE t == req[r].tenant
  <2>1. t \in Tenants
    BY <1>4 DEF SecondLook, WellFormed, CallOK, Leading
  <2>2. CASE cache[t] # NoObj
    <3>1. lru' \in Seq(Tenants)
      BY <1>4, <2>1, <2>2, TouchType DEF SecondLook
    <3>2. req' \in [Requests -> Call] /\ flight' \in [Tenants -> Requests \cup {NoReq}]
      BY <1>4, <2>1, <2>2, DeliverType DEF SecondLook, TypeOK, Errors, LoadErrors
    <3>3. QED
      BY <1>4, <3>1, <3>2 DEF SecondLook, TypeOK
  <2>3. CASE cache[t] = NoObj
    <3>1. req' \in [Requests -> Call]
      BY <1>4, <2>3, CallPcsType DEF SecondLook
    <3>2. QED
      BY <1>4, <2>3, <3>1 DEF SecondLook, TypeOK
  <2>4. QED
    BY <2>2, <2>3
<1>5. ASSUME NEW r \in Requests, SendJob(r) PROVE TypeOK'
  <2>1. PICK j \in Jobs :
          /\ req' = [req EXCEPT ![r].pc = "wait", ![r].job = j]
          /\ IF Len(loadCh) < CacheSize
             THEN loadCh' = Append(loadCh, j) /\ UNCHANGED helpers
             ELSE helpers' = helpers \cup {j} /\ UNCHANGED loadCh
          /\ UNCHANGED <<sendq, worker>>
          /\ JobsAre([job EXCEPT ![j] = NewJob(req[r].tenant)])
    BY <1>5 DEF SendJob
  <2>2. req' \in [Requests -> Call]
    BY <2>1, ZenonT(40) DEF TypeOK, Call, Leading
  <2>3. job' \in [Jobs -> Job]
    <3>1. [job EXCEPT ![j] = NewJob(req[r].tenant)] \in [Jobs -> Job]
      BY DEF TypeOK, Job, Call, NewJob, FreeJob
    <3>2. QED
      BY <2>1, <3>1, CollectType
  <2>4. /\ loadCh' \in Seq(Jobs) /\ Len(loadCh') <= CacheSize
        /\ helpers' \in SUBSET Jobs
    <3>1. CASE Len(loadCh) < CacheSize
      <4>1. loadCh' = Append(loadCh, j) /\ helpers' = helpers
        BY <2>1, <3>1
      <4>2. QED
        BY <3>1, <4>1, QueueType DEF TypeOK
    <3>2. CASE ~(Len(loadCh) < CacheSize)
      <4>1. loadCh' = loadCh /\ helpers' = helpers \cup {j}
        BY <2>1, <3>2
      <4>2. QED
        BY <4>1 DEF TypeOK
    <3>3. QED
      BY <3>1, <3>2
  <2>5. QED
    BY <1>5, <2>1, <2>2, <2>3, <2>4 DEF SendJob, TypeOK
<1>6. ASSUME NEW r \in Requests, SendOnClosed(r) PROVE TypeOK'
  <2>1. req' \in [Requests -> Call] /\ flight' \in [Tenants -> Requests \cup {NoReq}]
    BY <1>6, DeliverType DEF SendOnClosed, WellFormed, CallOK, Leading, Errors
  <2>2. QED
    BY <1>6, <2>1 DEF SendOnClosed, TypeOK
<1>7. ASSUME NEW r \in Requests, TakeAnswer(r) PROVE TypeOK'
  <2>1. req[r].tenant \in Tenants /\ req[r].job \in Jobs
    BY <1>7 DEF TakeAnswer, WellFormed, CallOK, Leading, TypeOK, Call
  <2>2. job[req[r].job].obj \in Objs \cup {NoObj} /\ job[req[r].job].err \in Errors
    BY <2>1 DEF TypeOK, Job, Errors
  <2>3. req' \in [Requests -> Call] /\ flight' \in [Tenants -> Requests \cup {NoReq}]
    BY <1>7, <2>1, <2>2, DeliverType DEF TakeAnswer
  <2>4. job' \in [Jobs -> Job] /\ heap' \in [Objs -> Policy]
    BY <1>7, CollectType DEF TakeAnswer, TypeOK
  <2>5. QED
    BY <1>7, <2>3, <2>4 DEF TakeAnswer, TypeOK
<1>8. ASSUME NEW r \in Requests, LoadTimeout(r) PROVE TypeOK'
  <2>1. req' \in [Requests -> Call] /\ flight' \in [Tenants -> Requests \cup {NoReq}]
    BY <1>8, DeliverType DEF LoadTimeout, WellFormed, CallOK, Leading, Errors
  <2>2. job' \in [Jobs -> Job] /\ heap' \in [Objs -> Policy]
    BY <1>8, CollectType DEF LoadTimeout, TypeOK
  <2>3. QED
    BY <1>8, <2>1, <2>2 DEF LoadTimeout, TypeOK
<1>9. ASSUME NEW r \in Requests, Decide(r) PROVE TypeOK'
  <2>1. heap' \in [Objs -> Policy]
    BY <1>9, CollectType DEF Decide, TypeOK
  <2>2. QED
    BY <1>9, <2>1 DEF Decide, TypeOK
<1>10. ASSUME NEW j \in Jobs, HelperSend(j) PROVE TypeOK'
  <2>1. /\ loadCh' \in Seq(Jobs) /\ Len(loadCh') <= CacheSize
        /\ sendq' \in Seq(Jobs)
        /\ helpers' \in SUBSET Jobs
    <3>1. CASE Len(loadCh) < CacheSize
      <4>1. loadCh' = Append(loadCh, j) /\ sendq' = sendq /\ helpers' = helpers \ {j}
        BY <1>10, <3>1 DEF HelperSend
      <4>2. QED
        BY <3>1, <4>1, QueueType DEF TypeOK
    <3>2. CASE ~(Len(loadCh) < CacheSize)
      <4>1. loadCh' = loadCh /\ sendq' = Append(sendq, j) /\ helpers' = helpers \ {j}
        BY <1>10, <3>2 DEF HelperSend
      <4>2. QED
        BY <4>1, QueueType DEF TypeOK
    <3>3. QED
      BY <3>1, <3>2
  <2>2. QED
    BY <1>10, <2>1 DEF HelperSend, TypeOK
<1>11. ASSUME HelperPanic \/ Close PROVE TypeOK'
  BY <1>11 DEF HelperPanic, Close, TypeOK
<1>12. ASSUME NEW w \in Workers, WorkerTake(w) PROVE TypeOK'
  <2>1. Head(loadCh) \in Jobs
    BY <1>12, QueueType DEF WorkerTake
  <2>2. worker' \in [Workers -> WorkerState]
    <3>1. [IdleWorker EXCEPT !.pc = "load", !.job = Head(loadCh)] \in WorkerState
      BY <2>1 DEF WorkerState
    <3>2. QED
      BY <1>12, <3>1 DEF WorkerTake, TypeOK
  <2>3. /\ loadCh' \in Seq(Jobs) /\ Len(loadCh') <= CacheSize
        /\ sendq' \in Seq(Jobs)
    <3>1. CASE sendq = <<>> \/ status = "closed"
      <4>1. loadCh # <<>> /\ loadCh' = Tail(loadCh) /\ sendq' = sendq
        BY <1>12, <3>1 DEF WorkerTake
      <4>2. Tail(loadCh) \in Seq(Jobs) /\ Len(Tail(loadCh)) < CacheSize
        BY <4>1, QueueType
      <4>3. Len(Tail(loadCh)) \in Nat
        BY <4>2
      <4>4. QED
        BY <4>1, <4>2, <4>3, CacheSizeAssumption DEF TypeOK
    <3>2. CASE ~(sendq = <<>> \/ status = "closed")
      <4>1. loadCh # <<>> /\ loadCh' = Append(Tail(loadCh), Head(sendq)) /\ sendq' = Tail(sendq)
        BY <1>12, <3>2 DEF WorkerTake
      <4>2. Head(sendq) \in Jobs /\ Tail(sendq) \in Seq(Jobs)
        BY <3>2, QueueType
      <4>3. QED
        BY <4>1, <4>2, QueueType
    <3>3. QED
      BY <3>1, <3>2
  <2>4. QED
    BY <1>12, <2>2, <2>3 DEF WorkerTake, TypeOK
<1>13. ASSUME NEW w \in Workers, WorkerLoad(w) PROVE TypeOK'
  <2> DEFINE t == job[worker[w].job].tenant
  <2>1. worker[w].job \in Jobs /\ t \in Tenants
    BY <1>13 DEF WorkerLoad, WellFormed, WorkerOK, JobsHaveTenants, TypeOK, WorkerState, UsedJobs
  <2>2. LoadError(t) \in LoadErrors /\ DiskPolicy(t) \in Policy
    BY <2>1, LoadErrorType
  <2>3. CASE LoadError(t) = "none"
    <3>1. PICK o \in Objs :
            /\ worker' = [worker EXCEPT ![w].pc = "loaded", ![w].obj = o]
            /\ UNCHANGED <<cache, job, req, reload>>
            /\ HeapIs([heap EXCEPT ![o] = DiskPolicy(t)])
      BY <1>13, <2>3 DEF WorkerLoad
    <3>2. worker' \in [Workers -> WorkerState]
      BY <3>1, ZenonT(40) DEF TypeOK, WorkerState
    <3>3. heap' \in [Objs -> Policy]
      <4>1. [heap EXCEPT ![o] = DiskPolicy(t)] \in [Objs -> Policy]
        BY <2>2 DEF TypeOK
      <4>2. QED
        BY <3>1, <4>1, CollectType
    <3>4. QED
      BY <1>13, <3>1, <3>2, <3>3 DEF WorkerLoad, TypeOK
  <2>4. CASE LoadError(t) # "none"
    <3>1. worker' \in [Workers -> WorkerState]
      <4>1. [worker[w] EXCEPT !.pc = "reply", !.err = LoadError(t)] \in WorkerState
        BY <2>2 DEF TypeOK, WorkerState
      <4>2. worker' = [worker EXCEPT ![w] = [worker[w] EXCEPT !.pc = "reply", !.err = LoadError(t)]]
        BY <1>13, <2>4 DEF WorkerLoad, TypeOK, WorkerState
      <4>3. QED
        BY <4>1, <4>2 DEF TypeOK
    <3>2. QED
      BY <1>13, <2>4, <3>1 DEF WorkerLoad, TypeOK
  <2>5. QED
    BY <2>3, <2>4
<1>14. ASSUME NEW w \in Workers, WorkerInsert(w) PROVE TypeOK'
  <2>1. job[worker[w].job].tenant \in Tenants /\ worker[w].obj \in Objs \cup {NoObj}
    BY <1>14 DEF WorkerInsert, WellFormed, WorkerOK, JobsHaveTenants, TypeOK, WorkerState, UsedJobs
  <2>2. cache' \in [Tenants -> Objs \cup {NoObj}] /\ lru' \in Seq(Tenants)
    BY <1>14, <2>1, InsertType DEF WorkerInsert
  <2>3. worker' \in [Workers -> WorkerState]
    BY <1>14 DEF WorkerInsert, TypeOK, WorkerState
  <2>4. heap' \in [Objs -> Policy]
    BY <1>14, CollectType DEF WorkerInsert, TypeOK
  <2>5. QED
    BY <1>14, <2>2, <2>3, <2>4 DEF WorkerInsert, TypeOK
<1>15. ASSUME NEW w \in Workers, WorkerReply(w) PROVE TypeOK'
  <2>1. worker' \in [Workers -> WorkerState]
    BY <1>15 DEF WorkerReply, TypeOK
  <2>2. job' \in [Jobs -> Job]
    <3>1. [job EXCEPT ![worker[w].job].done = TRUE, ![worker[w].job].obj = worker[w].obj,
                      ![worker[w].job].err = worker[w].err] \in [Jobs -> Job]
      <4> DEFINE j == worker[w].job
      <4>1. ASSUME j \in Jobs
            PROVE  [job[j] EXCEPT !.done = TRUE, !.obj = worker[w].obj, !.err = worker[w].err] \in Job
        BY <4>1 DEF TypeOK, Job, WorkerState
      <4>2. j \in Jobs
        BY <1>15 DEF WorkerReply, WellFormed, WorkerOK, TypeOK, WorkerState
      <4>3. QED
        BY <4>1, <4>2 DEF TypeOK
    <3>2. QED
      BY <1>15, <3>1, CollectType DEF WorkerReply
  <2>3. heap' \in [Objs -> Policy]
    BY <1>15, CollectType DEF WorkerReply, TypeOK
  <2>4. QED
    BY <1>15, <2>1, <2>2, <2>3 DEF WorkerReply, TypeOK
<1>16. ASSUME NEW w \in Workers, WorkerExit(w) PROVE TypeOK'
  <2>1. worker' \in [Workers -> WorkerState]
    BY <1>16 DEF WorkerExit, TypeOK, WorkerState
  <2>2. QED
    BY <1>16, <2>1 DEF WorkerExit, TypeOK
<1>17. ASSUME NEW k \in Reloads, NEW t \in Tenants, ReloadTenant(k, t) PROVE TypeOK'
  <2>1. reload' \in [Reloads -> ReloadState]
    BY <1>17 DEF ReloadTenant, TypeOK, ReloadState
  <2>2. QED
    BY <1>17, <2>1 DEF ReloadTenant, TypeOK
<1>18. ASSUME NEW k \in Reloads, ReloadLoad(k) PROVE TypeOK'
  <2> DEFINE t == reload[k].tenant
  <2>1. t \in Tenants
    BY <1>18 DEF ReloadLoad, WellFormed, ReloadOK
  <2>2. DiskPolicy(t) \in Policy
    BY <2>1, LoadErrorType
  <2>3. CASE LoadError(t) = "none"
    <3>1. PICK o \in Objs :
            /\ reload' = [reload EXCEPT ![k].pc = "loaded", ![k].next = o]
            /\ UNCHANGED <<cache, job, req, worker>>
            /\ HeapIs([heap EXCEPT ![o] = DiskPolicy(t)])
      BY <1>18, <2>3 DEF ReloadLoad
    <3>2. reload' \in [Reloads -> ReloadState]
      BY <3>1, ZenonT(40) DEF TypeOK, ReloadState
    <3>3. heap' \in [Objs -> Policy]
      <4>1. [heap EXCEPT ![o] = DiskPolicy(t)] \in [Objs -> Policy]
        BY <2>2 DEF TypeOK
      <4>2. QED
        BY <3>1, <4>1, CollectType
    <3>4. QED
      BY <1>18, <3>1, <3>2, <3>3 DEF ReloadLoad, TypeOK
  <2>4. CASE LoadError(t) # "none"
    <3>1. reload' \in [Reloads -> ReloadState]
      BY <1>18, <2>4 DEF ReloadLoad, TypeOK
    <3>2. UNCHANGED <<disk, heap, cache, lru, loadCh, sendq, helpers, job, flight, req, worker, status>>
      BY <1>18, <2>4 DEF ReloadLoad
    <3>3. QED
      BY <3>1, <3>2 DEF TypeOK
  <2>5. QED
    BY <2>3, <2>4
<1>19. ASSUME NEW k \in Reloads, ReloadLookup(k) PROVE TypeOK'
  <2>1. reload' \in [Reloads -> ReloadState]
    <3> DEFINE t == reload[k].tenant
               pc == IF cache[t] # NoObj THEN "swap" ELSE "insert"
    <3>1. cache[t] \in Objs \cup {NoObj} /\ pc \in {"swap", "insert"}
      BY <1>19 DEF ReloadLookup, WellFormed, ReloadOK, TypeOK
    <3>2. reload' = [reload EXCEPT ![k].pc = pc, ![k].target = cache[t]]
      BY <1>19 DEF ReloadLookup
    <3> HIDE DEF pc
    <3>3. [reload[k] EXCEPT !.pc = pc, !.target = cache[t]] \in ReloadState
      BY <3>1 DEF TypeOK, ReloadState
    <3>4. QED
      BY <3>2, <3>3 DEF TypeOK
  <2>2. QED
    BY <1>19, <2>1 DEF ReloadLookup, TypeOK
<1>20. ASSUME NEW k \in Reloads, ReloadSwap(k) PROVE TypeOK'
  <2>1. [heap EXCEPT ![reload[k].target] = heap[reload[k].next]] \in [Objs -> Policy]
    BY <1>20 DEF ReloadSwap, WellFormed, ReloadOK, TypeOK, ReloadState
  <2>2. heap' \in [Objs -> Policy]
    BY <1>20, <2>1, CollectType DEF ReloadSwap
  <2>3. QED
    BY <1>20, <2>2 DEF ReloadSwap, TypeOK
<1>21. ASSUME NEW k \in Reloads, ReloadInsert(k) PROVE TypeOK'
  <2>1. reload[k].tenant \in Tenants /\ reload[k].next \in Objs \cup {NoObj}
    BY <1>21 DEF ReloadInsert, WellFormed, ReloadOK, TypeOK, ReloadState
  <2>2. cache' \in [Tenants -> Objs \cup {NoObj}] /\ lru' \in Seq(Tenants)
    BY <1>21, <2>1, InsertType DEF ReloadInsert
  <2>3. heap' \in [Objs -> Policy]
    BY <1>21, CollectType DEF ReloadInsert, TypeOK
  <2>4. QED
    BY <1>21, <2>2, <2>3 DEF ReloadInsert, TypeOK
<1>22. ASSUME NEW t \in Tenants, Publish(t) \/ Unpublish(t) PROVE TypeOK'
  <2>1. disk' \in [Tenants -> File]
    <3>1. CASE Publish(t)
      <4>1. PICK s \in {"ok", "corrupt"} :
              disk' = [disk EXCEPT ![t] = [ver |-> disk[t].ver + 1, state |-> s]]
        BY <3>1 DEF Publish
      <4>2. [ver |-> disk[t].ver + 1, state |-> s] \in File
        BY <3>1, BoundsAssumption DEF Publish, TypeOK, File, Versions
      <4>3. QED
        BY <4>1, <4>2 DEF TypeOK
    <3>2. CASE Unpublish(t)
      <4>1. [disk[t] EXCEPT !.state = "absent"] \in File
        BY DEF TypeOK, File
      <4>2. QED
        BY <3>2, <4>1 DEF Unpublish, TypeOK
    <3>3. QED
      BY <1>22, <3>1, <3>2
  <2>2. QED
    BY <1>22, <2>1 DEF Publish, Unpublish, TypeOK
<1>23. CASE UNCHANGED vars
  BY <1>23 DEF vars, TypeOK
<1>24. QED
  BY <1>1, <1>2, <1>3, <1>4, <1>5, <1>6, <1>7, <1>8, <1>9, <1>10, <1>11, <1>12, <1>13, <1>14,
     <1>15, <1>16, <1>17, <1>18, <1>19, <1>20, <1>21, <1>22, <1>23
     DEF Next, ServeNext, RequestStep, WorkerQuiet, ReloadQuiet
-----------------------------------------------------------------------------
(* What the goroutines hold *)

\* Jobs in use after a step, from what the step did to each place.
LEMMA UsedAfter ==
    ASSUME NEW S,
           Elems(loadCh') \subseteq S, Elems(sendq') \subseteq S, helpers' \subseteq S,
           \A w \in Workers : worker'[w].job \in S,
           \A r \in Requests : req'[r].job \in S
    PROVE  UsedJobs' \subseteq S
BY DEF UsedJobs

\* Collected jobs keep their tenants.
LEMMA KeepTenants ==
    ASSUME TypeOK', NEW jb, JobsAre(jb),
           \A j \in UsedJobs' \ {NoJob} : jb[j].tenant \in Tenants
    PROVE  JobsHaveTenants'
<1>1. (UsedJobs \subseteq Jobs \cup {NoJob})'
  BY UsedJobsType, PTL
<1>2. QED
  BY <1>1 DEF JobsAre, JobsHaveTenants

\* A step that delivers a result only takes jobs away from requests.
LEMMA DeliverCalls ==
    ASSUME TypeOK, \A r \in Requests : CallOK(r), NEW t \in Tenants,
           NEW o \in Objs \cup {NoObj}, NEW e \in Errors, e = "none" => o # NoObj,
           Deliver(t, o, e)
    PROVE  /\ \A r \in Requests : CallOK(r)'
           /\ \A r \in Requests : req'[r].job \in {req[r].job, NoJob}
<1> SUFFICES ASSUME NEW r \in Requests
             PROVE  CallOK(r)' /\ req'[r].job \in {req[r].job, NoJob}
  OBVIOUS
<1>1. CASE req'[r] = req[r]
  BY <1>1 DEF CallOK
<1>2. CASE req'[r] = Result(t, o, e)
  BY <1>2 DEF CallOK, Result, Leading
<1>3. QED
  BY <1>1, <1>2 DEF Deliver, TypeOK

\* A step that changes no job, and no place a job can be at, keeps the facts about jobs.
LEMMA JobsUnchanged ==
    ASSUME WellFormed, UNCHANGED <<job, loadCh, sendq, helpers>>,
           \A w \in Workers : worker'[w].job \in {worker[w].job, NoJob},
           \A r \in Requests : req'[r].job \in {req[r].job, NoJob}
    PROVE  JobsHaveTenants' /\ AnswersHavePolicy'
<1>1. UsedJobs' \subseteq UsedJobs \cup {NoJob}
  BY UsedAfter DEF UsedJobs
<1>2. QED
  BY <1>1 DEF WellFormed, JobsHaveTenants, AnswersHavePolicy

\* Every step keeps what the goroutines' pcs say about what they hold.
LEMMA WellFormedStep == TypeOK /\ TypeOK' /\ WellFormed /\ [Next]_vars => WellFormed'
<1> SUFFICES ASSUME TypeOK, TypeOK', WellFormed, [Next]_vars PROVE WellFormed'
  OBVIOUS
<1> USE ConstantTypes
<1>1. ASSUME NEW r \in Requests, TenantPolicyForInvalid(r) PROVE WellFormed'
  <2>1. req' = [req EXCEPT ![r] = Result(NoTenant, NoObj, "notfound")]
    BY <1>1 DEF TenantPolicyForInvalid
  <2>2. \A x \in Requests : CallOK(x)' /\ req'[x].job \in {req[x].job, NoJob}
    BY <2>1 DEF TypeOK, WellFormed, CallOK, Result, Leading
  <2>3. QED
    BY <1>1, <2>2, JobsUnchanged DEF TenantPolicyForInvalid, WellFormed, WorkerOK, ReloadOK
<1>2. ASSUME NEW r \in Requests, NEW t \in Tenants, TenantPolicyFor(r, t) PROVE WellFormed'
  <2>1. \A x \in Requests \ {r} : req'[x] = req[x]
    BY <1>2 DEF TenantPolicyFor, TypeOK
  <2>2. \/ req'[r] = Result(t, cache[t], "none") /\ cache[t] # NoObj
        \/ req'[r] = [IdleCall EXCEPT !.pc = "miss", !.tenant = t]
    BY <1>2 DEF TenantPolicyFor, TypeOK
  <2>3. CallOK(r)' /\ req'[r].job = NoJob
    <3>1. CASE req'[r] = Result(t, cache[t], "none") /\ cache[t] # NoObj
      BY <3>1 DEF CallOK, Result, Leading
    <3>2. CASE req'[r] = [IdleCall EXCEPT !.pc = "miss", !.tenant = t]
      <4>1. req'[r].pc = "miss" /\ req'[r].tenant = t /\ req'[r].job = NoJob
        BY <3>2 DEF IdleCall
      <4>2. QED
        BY <4>1 DEF CallOK, Leading
    <3>3. QED
      BY <2>2, <3>1, <3>2
  <2>4. \A x \in Requests : CallOK(x)' /\ req'[x].job \in {req[x].job, NoJob}
    BY <2>1, <2>3 DEF WellFormed, CallOK
  <2>5. QED
    BY <1>2, <2>4, JobsUnchanged DEF TenantPolicyFor, WellFormed, WorkerOK, ReloadOK
<1>3. ASSUME NEW r \in Requests, GroupDo(r) PROVE WellFormed'
  <2>1. \A x \in Requests \ {r} : req'[x] = req[x]
    BY <1>3 DEF GroupDo, TypeOK
  <2>2. \/ req'[r] = [req[r] EXCEPT !.pc = "lead"]
        \/ req'[r] = [req[r] EXCEPT !.pc = "follow"]
    BY <1>3 DEF GroupDo, TypeOK
  <2>3. CallOK(r)' /\ req'[r].job = req[r].job
    BY <1>3, <2>2 DEF GroupDo, TypeOK, Call, WellFormed, CallOK, Leading
  <2>4. \A x \in Requests : CallOK(x)' /\ req'[x].job \in {req[x].job, NoJob}
    BY <2>1, <2>3 DEF WellFormed, CallOK
  <2>5. QED
    BY <1>3, <2>4, JobsUnchanged DEF GroupDo, WellFormed, WorkerOK, ReloadOK
<1>4. ASSUME NEW r \in Requests, SecondLook(r) PROVE WellFormed'
  <2> DEFINE t == req[r].tenant
  <2>1. t \in Tenants /\ cache[t] \in Objs \cup {NoObj}
    BY <1>4 DEF SecondLook, WellFormed, CallOK, Leading, TypeOK
  <2>2. \A x \in Requests : CallOK(x)' /\ req'[x].job \in {req[x].job, NoJob}
    <3>1. CASE cache[t] # NoObj
      <4>1. Deliver(t, cache[t], "none")
        BY <1>4, <3>1 DEF SecondLook
      <4>2. QED
        BY <2>1, <3>1, <4>1, DeliverCalls DEF WellFormed, Errors, LoadErrors
    <3>2. CASE cache[t] = NoObj
      <4>1. req' = [req EXCEPT ![r].pc = "send"]
        BY <1>4, <3>2 DEF SecondLook
      <4>2. QED
        BY <1>4, <4>1 DEF SecondLook, TypeOK, Call, WellFormed, CallOK, Leading
    <3>3. QED
      BY <3>1, <3>2
  <2>3. QED
    BY <1>4, <2>2, JobsUnchanged DEF SecondLook, WellFormed, WorkerOK, ReloadOK
<1>5. ASSUME NEW r \in Requests, SendJob(r) PROVE WellFormed'
  <2>1. PICK j \in Jobs :
          /\ FreshJob(j)
          /\ req' = [req EXCEPT ![r].pc = "wait", ![r].job = j]
          /\ IF Len(loadCh) < CacheSize
             THEN loadCh' = Append(loadCh, j) /\ UNCHANGED helpers
             ELSE helpers' = helpers \cup {j} /\ UNCHANGED loadCh
          /\ UNCHANGED <<sendq, worker>>
          /\ JobsAre([job EXCEPT ![j] = NewJob(req[r].tenant)])
    BY <1>5 DEF SendJob
  <2> DEFINE jb == [job EXCEPT ![j] = NewJob(req[r].tenant)]
  <2>2. req[r].tenant \in Tenants
    BY <1>5 DEF SendJob, WellFormed, CallOK, Leading
  <2>3. \A x \in Requests : CallOK(x)' /\ req'[x].job \in {req[x].job, j}
    BY <1>5, <2>1, <2>2 DEF SendJob, TypeOK, Call, WellFormed, CallOK, Leading
  <2>4. UsedJobs' \subseteq UsedJobs \cup {j}
    <3>1. Elems(loadCh') \subseteq UsedJobs \cup {j} /\ helpers' \subseteq UsedJobs \cup {j}
      <4>1. Elems(Append(loadCh, j)) = Elems(loadCh) \cup {j}
        BY ElemsAppend DEF TypeOK
      <4>2. \/ loadCh' = Append(loadCh, j) /\ helpers' = helpers
            \/ loadCh' = loadCh /\ helpers' = helpers \cup {j}
        BY <2>1
      <4>3. QED
        BY <4>1, <4>2 DEF UsedJobs
    <3>2. /\ Elems(sendq') \subseteq UsedJobs \cup {j}
          /\ \A w \in Workers : worker'[w].job \in UsedJobs \cup {j}
          /\ \A x \in Requests : req'[x].job \in UsedJobs \cup {j}
      BY <2>1, <2>3 DEF UsedJobs
    <3>3. QED
      BY <3>1, <3>2, UsedAfter
  <2>5. \A i \in UsedJobs' \ {NoJob} : jb[i].tenant \in Tenants
    BY <2>2, <2>4, UsedJobsType DEF WellFormed, JobsHaveTenants, TypeOK, NewJob, FreeJob
  <2>6. JobsHaveTenants'
    BY <2>1, <2>5, KeepTenants
  <2>7. \A i \in Jobs : jb[i] = job[i] \/ ~jb[i].done
    BY DEF TypeOK, NewJob, FreeJob
  <2>8. AnswersHavePolicy'
    BY <2>1, <2>7 DEF JobsAre, WellFormed, AnswersHavePolicy, FreeJob
  <2>9. QED
    BY <1>5, <2>1, <2>3, <2>6, <2>8 DEF SendJob, WellFormed, WorkerOK, ReloadOK
<1>6. ASSUME NEW r \in Requests, SendOnClosed(r) PROVE WellFormed'
  <2>1. \A x \in Requests : CallOK(x)' /\ req'[x].job \in {req[x].job, NoJob}
    BY <1>6, DeliverCalls DEF SendOnClosed, WellFormed, CallOK, Leading, Errors
  <2>2. QED
    BY <1>6, <2>1, JobsUnchanged DEF SendOnClosed, WellFormed, WorkerOK, ReloadOK
<1>7. ASSUME NEW r \in Requests, TakeAnswer(r) \/ LoadTimeout(r) PROVE WellFormed'
  <2>1. req[r].tenant \in Tenants /\ req[r].job \in Jobs
    BY <1>7 DEF TakeAnswer, LoadTimeout, WellFormed, CallOK, Leading, TypeOK, Call
  <2>2. \A x \in Requests : CallOK(x)' /\ req'[x].job \in {req[x].job, NoJob}
    <3>1. CASE TakeAnswer(r)
      <4> DEFINE a == job[req[r].job]
      <4>1. a \in Job /\ a.done
        BY <2>1, <3>1 DEF TypeOK, TakeAnswer
      <4>2. a.obj \in Objs \cup {NoObj} /\ a.err \in Errors
        BY <4>1 DEF Job, Errors
      <4>3. a.err = "none" => a.obj # NoObj
        BY <2>1, <4>1 DEF WellFormed, AnswersHavePolicy
      <4>4. Deliver(req[r].tenant, a.obj, a.err)
        BY <3>1 DEF TakeAnswer
      <4> HIDE DEF a
      <4>5. QED
        BY <2>1, <4>2, <4>3, <4>4, DeliverCalls DEF WellFormed
    <3>2. CASE LoadTimeout(r)
      BY <2>1, <3>2, DeliverCalls DEF LoadTimeout, WellFormed, Errors
    <3>3. QED
      BY <1>7, <3>1, <3>2
  <2>3. JobsAre(job) /\ UNCHANGED <<loadCh, sendq, helpers, worker, reload>>
    BY <1>7 DEF TakeAnswer, LoadTimeout
  <2>4. UsedJobs' \subseteq UsedJobs \cup {NoJob}
    BY <2>2, <2>3, UsedAfter DEF UsedJobs
  <2>5. JobsHaveTenants'
    BY <2>3, <2>4, KeepTenants DEF WellFormed, JobsHaveTenants
  <2>6. AnswersHavePolicy'
    BY <2>3 DEF JobsAre, WellFormed, AnswersHavePolicy, FreeJob
  <2>7. QED
    BY <2>2, <2>3, <2>5, <2>6 DEF WellFormed, WorkerOK, ReloadOK
<1>8. ASSUME NEW r \in Requests, Decide(r) PROVE WellFormed'
  <2>1. \A x \in Requests : CallOK(x)' /\ req'[x].job \in {req[x].job, NoJob}
    BY <1>8 DEF Decide, TypeOK, WellFormed, CallOK, IdleCall, Leading
  <2>2. QED
    BY <1>8, <2>1, JobsUnchanged DEF Decide, WellFormed, WorkerOK, ReloadOK
<1>9. ASSUME NEW j \in Jobs, HelperSend(j) PROVE WellFormed'
  <2>1. UsedJobs' \subseteq UsedJobs
    <3>1. /\ Elems(loadCh') \subseteq UsedJobs
          /\ Elems(sendq') \subseteq UsedJobs
          /\ helpers' \subseteq UsedJobs
      <4>1. /\ Elems(Append(loadCh, j)) = Elems(loadCh) \cup {j}
            /\ Elems(Append(sendq, j)) = Elems(sendq) \cup {j}
        BY ElemsAppend DEF TypeOK
      <4>2. /\ \/ loadCh' = Append(loadCh, j) /\ sendq' = sendq
               \/ loadCh' = loadCh /\ sendq' = Append(sendq, j)
            /\ j \in helpers
            /\ helpers' = helpers \ {j}
        BY <1>9 DEF HelperSend
      <4>3. QED
        BY <4>1, <4>2 DEF UsedJobs
    <3>2. /\ \A w \in Workers : worker'[w].job \in UsedJobs
          /\ \A x \in Requests : req'[x].job \in UsedJobs
      BY <1>9 DEF HelperSend, UsedJobs
    <3>3. QED
      BY <3>1, <3>2, UsedAfter
  <2>2. QED
    BY <1>9, <2>1 DEF HelperSend, WellFormed, JobsHaveTenants, AnswersHavePolicy, CallOK,
       WorkerOK, ReloadOK
<1>10. ASSUME HelperPanic \/ Close PROVE WellFormed'
  BY <1>10 DEF HelperPanic, Close, WellFormed, JobsHaveTenants, AnswersHavePolicy, CallOK,
     WorkerOK, ReloadOK, UsedJobs
<1>11. ASSUME NEW w \in Workers, WorkerTake(w) PROVE WellFormed'
  <2>1. Head(loadCh) \in Jobs /\ Head(loadCh) \in UsedJobs /\ Elems(Tail(loadCh)) \subseteq UsedJobs
    BY <1>11, ElemsTail DEF WorkerTake, TypeOK, UsedJobs
  <2>2. worker' = [worker EXCEPT ![w] = [IdleWorker EXCEPT !.pc = "load", !.job = Head(loadCh)]]
    BY <1>11 DEF WorkerTake
  <2>3. \A v \in Workers : WorkerOK(v)' /\ worker'[v].job \in UsedJobs
    BY <2>1, <2>2 DEF TypeOK, WellFormed, WorkerOK, IdleWorker, UsedJobs
  <2>4. Elems(loadCh') \subseteq UsedJobs /\ Elems(sendq') \subseteq UsedJobs
    <3>1. CASE sendq = <<>> \/ status = "closed"
      BY <1>11, <2>1, <3>1 DEF WorkerTake, UsedJobs
    <3>2. CASE ~(sendq = <<>> \/ status = "closed")
      <4>1. loadCh' = Append(Tail(loadCh), Head(sendq)) /\ sendq' = Tail(sendq)
        BY <1>11, <3>2 DEF WorkerTake
      <4>2. /\ Head(sendq) \in Jobs /\ Head(sendq) \in Elems(sendq)
            /\ Elems(Tail(sendq)) \subseteq Elems(sendq)
        BY <3>2, ElemsTail DEF TypeOK
      <4>3. Elems(loadCh') = Elems(Tail(loadCh)) \cup {Head(sendq)}
        BY <1>11, <4>1, <4>2, QueueType, ElemsAppend DEF WorkerTake
      <4>4. QED
        BY <2>1, <4>1, <4>2, <4>3 DEF UsedJobs
    <3>3. QED
      BY <3>1, <3>2
  <2>5. UsedJobs' \subseteq UsedJobs
    <3>1. helpers' \subseteq UsedJobs /\ \A x \in Requests : req'[x].job \in UsedJobs
      BY <1>11 DEF WorkerTake, UsedJobs
    <3>2. QED
      BY <2>3, <2>4, <3>1, UsedAfter
  <2>6. QED
    BY <1>11, <2>3, <2>5 DEF WorkerTake, WellFormed, JobsHaveTenants, AnswersHavePolicy, CallOK,
       ReloadOK
<1>12. ASSUME NEW w \in Workers, WorkerLoad(w) PROVE WellFormed'
  <2> DEFINE t == job[worker[w].job].tenant
  <2>1. \/ \E o \in Objs : worker' = [worker EXCEPT ![w].pc = "loaded", ![w].obj = o]
        \/ /\ LoadError(t) # "none"
           /\ worker' = [worker EXCEPT ![w].pc = "reply", ![w].err = LoadError(t)]
    BY <1>12 DEF WorkerLoad
  <2>2. \A v \in Workers : WorkerOK(v)' /\ worker'[v].job = worker[v].job
    <3>1. \A v \in Workers \ {w} : worker'[v] = worker[v]
      BY <2>1 DEF TypeOK
    <3>2. \/ \E o \in Objs : worker'[w] = [worker[w] EXCEPT !.pc = "loaded", !.obj = o]
          \/ /\ LoadError(t) # "none"
             /\ worker'[w] = [worker[w] EXCEPT !.pc = "reply", !.err = LoadError(t)]
      BY <2>1 DEF TypeOK
    <3>3. worker[w].pc = "load" /\ worker[w] \in WorkerState
      BY <1>12 DEF WorkerLoad, TypeOK
    <3>4. WorkerOK(w)' /\ worker'[w].job = worker[w].job
      BY <3>2, <3>3 DEF WorkerState, WellFormed, WorkerOK
    <3>5. QED
      BY <3>1, <3>4 DEF WellFormed, WorkerOK
  <2>3. UNCHANGED <<req, reload, job, loadCh, sendq, helpers>>
    BY <1>12 DEF WorkerLoad
  <2>4. QED
    BY <2>2, <2>3, JobsUnchanged DEF WellFormed, CallOK, ReloadOK
<1>13. ASSUME NEW w \in Workers, WorkerInsert(w) \/ WorkerExit(w) PROVE WellFormed'
  <2>1. \A v \in Workers : WorkerOK(v)' /\ worker'[v].job = worker[v].job
    <3>1. \/ worker[w].pc = "loaded" /\ worker' = [worker EXCEPT ![w].pc = "reply"]
          \/ worker[w].pc = "idle" /\ worker' = [worker EXCEPT ![w].pc = "exited"]
      BY <1>13 DEF WorkerInsert, WorkerExit
    <3>2. \A v \in Workers \ {w} : worker'[v] = worker[v]
      BY <3>1 DEF TypeOK
    <3>3. \/ worker[w].pc = "loaded" /\ worker'[w] = [worker[w] EXCEPT !.pc = "reply"]
          \/ worker[w].pc = "idle" /\ worker'[w] = [worker[w] EXCEPT !.pc = "exited"]
      BY <3>1 DEF TypeOK
    <3>4. WorkerOK(w)' /\ worker'[w].job = worker[w].job
      BY <3>3 DEF TypeOK, WorkerState, WellFormed, WorkerOK
    <3>5. QED
      BY <3>2, <3>4 DEF WellFormed, WorkerOK
  <2>2. UNCHANGED <<req, reload, job, loadCh, sendq, helpers>>
    BY <1>13 DEF WorkerInsert, WorkerExit
  <2>3. QED
    BY <2>1, <2>2, JobsUnchanged DEF WellFormed, CallOK, ReloadOK
<1>14. ASSUME NEW w \in Workers, WorkerReply(w) PROVE WellFormed'
  <2> DEFINE j == worker[w].job
             jb == [job EXCEPT ![j].done = TRUE, ![j].obj = worker[w].obj, ![j].err = worker[w].err]
  <2>1. j \in Jobs /\ j \in UsedJobs
    BY <1>14 DEF WorkerReply, WellFormed, WorkerOK, TypeOK, WorkerState, UsedJobs
  <2>2. \A i \in Jobs : jb[i].tenant = job[i].tenant
    BY DEF TypeOK, Job
  <2>3. \A v \in Workers : WorkerOK(v)' /\ worker'[v].job \in {worker[v].job, NoJob}
    BY <1>14 DEF WorkerReply, TypeOK, WellFormed, WorkerOK, IdleWorker
  <2>4. UNCHANGED <<req, reload, loadCh, sendq, helpers>> /\ JobsAre(jb)
    BY <1>14 DEF WorkerReply
  <2>5. UsedJobs' \subseteq UsedJobs \cup {NoJob}
    BY <2>3, <2>4, UsedAfter DEF UsedJobs
  <2>6. AnswersHavePolicy'
    <3>1. \A i \in Jobs : jb[i].done /\ jb[i].err = "none" => jb[i].obj # NoObj
      BY <1>14, <2>1 DEF WorkerReply, TypeOK, Job, WellFormed, WorkerOK, AnswersHavePolicy
    <3>2. QED
      BY <2>4, <3>1 DEF JobsAre, AnswersHavePolicy, FreeJob
  <2> HIDE DEF jb
  <2>7. JobsHaveTenants'
    BY <2>2, <2>4, <2>5, UsedJobsType, KeepTenants DEF WellFormed, JobsHaveTenants
  <2>8. QED
    BY <2>3, <2>4, <2>6, <2>7 DEF WellFormed, CallOK, ReloadOK
<1>15. ASSUME NEW k \in Reloads,
              \/ ReloadLoad(k) \/ ReloadLookup(k) \/ ReloadSwap(k) \/ ReloadInsert(k)
              \/ \E t \in Tenants : ReloadTenant(k, t)
       PROVE  WellFormed'
  <2>1. UNCHANGED <<req, worker, job, loadCh, sendq, helpers>>
    BY <1>15 DEF ReloadLoad, ReloadLookup, ReloadSwap, ReloadInsert, ReloadTenant
  <2>2. \A x \in Reloads \ {k} : reload'[x] = reload[x]
    BY <1>15 DEF ReloadLoad, ReloadLookup, ReloadSwap, ReloadInsert, ReloadTenant, TypeOK
  <2>3. ReloadOK(k)'
    <3>1. CASE reload'[k] = IdleReload
      BY <3>1 DEF ReloadOK, IdleReload
    <3>2. CASE \E t \in Tenants : ReloadTenant(k, t)
      BY <3>2 DEF ReloadTenant, TypeOK, ReloadState, WellFormed, ReloadOK
    <3>3. CASE ReloadLoad(k) /\ reload'[k] # IdleReload
      <4>1. PICK o \in Objs : reload' = [reload EXCEPT ![k].pc = "loaded", ![k].next = o]
        BY <3>3 DEF ReloadLoad, TypeOK
      <4>2. reload'[k] = [reload[k] EXCEPT !.pc = "loaded", !.next = o] /\ o # NoObj
        BY <4>1 DEF TypeOK
      <4>3. reload[k].pc = "read" /\ reload[k] \in ReloadState
        BY <3>3 DEF ReloadLoad, TypeOK
      <4>4. QED
        BY <4>2, <4>3 DEF ReloadState, WellFormed, ReloadOK
    <3>4. CASE ReloadLookup(k)
      <4> DEFINE t == reload[k].tenant
                 pc == IF cache[t] # NoObj THEN "swap" ELSE "insert"
      <4>1. reload'[k] = [reload[k] EXCEPT !.pc = pc, !.target = cache[t]]
        BY <3>4 DEF ReloadLookup, TypeOK
      <4>2. reload[k].pc = "loaded" /\ reload[k] \in ReloadState
        BY <3>4 DEF ReloadLookup, TypeOK
      <4>3. QED
        BY <4>1, <4>2 DEF ReloadState, WellFormed, ReloadOK
    <3>5. CASE ReloadSwap(k) \/ ReloadInsert(k)
      BY <3>1, <3>5 DEF ReloadSwap, ReloadInsert, TypeOK
    <3>6. QED
      BY <1>15, <3>1, <3>2, <3>3, <3>4, <3>5
  <2>4. \A x \in Reloads : ReloadOK(x)'
    BY <2>2, <2>3 DEF WellFormed, ReloadOK
  <2>5. QED
    BY <2>1, <2>4, JobsUnchanged DEF WellFormed, CallOK, WorkerOK
<1>16. ASSUME NEW t \in Tenants, Publish(t) \/ Unpublish(t) PROVE WellFormed'
  <2>1. UNCHANGED <<req, worker, reload, job, loadCh, sendq, helpers>>
    BY <1>16 DEF Publish, Unpublish
  <2>2. QED
    BY <2>1, JobsUnchanged DEF WellFormed, CallOK, WorkerOK, ReloadOK
<1>17. CASE UNCHANGED vars
  <2>1. UNCHANGED <<req, worker, reload, job, loadCh, sendq, helpers>>
    BY <1>17 DEF vars
  <2>2. QED
    BY <2>1, JobsUnchanged DEF WellFormed, CallOK, WorkerOK, ReloadOK
<1>18. QED
  BY <1>1, <1>2, <1>3, <1>4, <1>5, <1>6, <1>7, <1>8, <1>9, <1>10, <1>11, <1>12, <1>13, <1>14,
     <1>15, <1>16, <1>17
     DEF Next, ServeNext, RequestStep, WorkerQuiet, ReloadQuiet

\* TypeOK holds in every state; WellFormed is what makes it inductive.
THEOREM TypeCorrect == Spec => [](TypeOK /\ WellFormed)
<1>1. Init => TypeOK /\ WellFormed
  BY TypeInit
<1>2. TypeOK /\ WellFormed /\ [Next]_vars => (TypeOK /\ WellFormed)'
  BY TypeStep, WellFormedStep
<1>3. QED
  BY <1>1, <1>2, PTL DEF Spec
-----------------------------------------------------------------------------
(* The cache *)

\* A hit permutes the list and leaves the map alone.
LEMMA TouchCache ==
    ASSUME TypeOK, CacheConsistent, NEW t \in Tenants, cache[t] # NoObj,
           Touch(t), UNCHANGED cache
    PROVE  CacheConsistent'
<1>1. t \in Elems(lru) /\ lru \in Seq(Tenants)
  BY DEF CacheConsistent, TypeOK
<1>2. \A i, j \in 1 .. Len(lru) : lru[i] = lru[j] => i = j
  BY DEF CacheConsistent
<1>3. /\ Len(lru') = Len(lru)
      /\ Elems(lru') = Elems(lru)
      /\ \A i, j \in 1 .. Len(lru) : lru'[i] = lru'[j] => i = j
  BY <1>1, <1>2, MoveToFrontProps DEF Touch
<1>4. QED
  BY <1>3 DEF CacheConsistent

\* insert adds a tenant to map and list together, and evicts from both together.
LEMMA InsertCache ==
    ASSUME TypeOK, CacheConsistent, NEW t \in Tenants, NEW o \in Objs, insert(t, o)
    PROVE  CacheConsistent'
<1>1. lru \in Seq(Tenants) /\ cache \in [Tenants -> Objs \cup {NoObj}] /\ NoObj \notin Objs
  BY ConstantTypes DEF TypeOK
<1>2. \A i, j \in 1 .. Len(lru) : lru[i] = lru[j] => i = j
  BY DEF CacheConsistent
<1>3. CASE cache[t] # NoObj
  <2>1. t \in Elems(lru)
    BY <1>3 DEF CacheConsistent
  <2>2. /\ Len(lru') = Len(lru)
        /\ Elems(lru') = Elems(lru)
        /\ \A i, j \in 1 .. Len(lru) : lru'[i] = lru'[j] => i = j
    BY <1>1, <1>2, <1>3, <2>1, MoveToFrontProps DEF insert, Touch
  <2>3. \A x \in Tenants : cache'[x] # NoObj <=> cache[x] # NoObj
    BY <1>1, <1>3 DEF insert
  <2>4. QED
    BY <2>2, <2>3 DEF CacheConsistent
<1>4. CASE cache[t] = NoObj
  <2> DEFINE p == PushFront(lru, t)
  <2>1. t \notin Elems(lru)
    BY <1>4 DEF CacheConsistent
  <2>2. /\ lru' = Kept(p)
        /\ cache' = [x \in Tenants |-> IF x \in Evicted(p) THEN NoObj
                                       ELSE IF x = t THEN o ELSE cache[x]]
    BY <1>4 DEF insert
  <2>3. /\ Len(lru') <= CacheSize
        /\ t \notin Evicted(p)
        /\ Elems(lru') = (Elems(lru) \cup {t}) \ Evicted(p)
        /\ \A i, j \in 1 .. Len(lru') : lru'[i] = lru'[j] => i = j
    BY <1>1, <1>2, <2>1, <2>2, PushAndEvict
  <2> HIDE DEF p
  <2>4. \A x \in Tenants : cache'[x] # NoObj <=> x \in (Elems(lru) \cup {t}) \ Evicted(p)
    BY <1>1, <2>2, <2>3 DEF CacheConsistent
  <2>5. Elems(lru) \subseteq Tenants
    BY <1>1, ElemsType
  <2>6. {x \in Tenants : cache'[x] # NoObj} = Elems(lru')
    BY <2>3, <2>4, <2>5
  <2>7. QED
    BY <2>3, <2>6 DEF CacheConsistent
<1>5. QED
  BY <1>3, <1>4

\* Every step keeps map and list in agreement: only hits and inserts touch them.
LEMMA CacheStep ==
    TypeOK /\ WellFormed /\ CacheConsistent /\ [Next]_vars => CacheConsistent'
<1> SUFFICES ASSUME TypeOK, WellFormed, CacheConsistent, [Next]_vars PROVE CacheConsistent'
  OBVIOUS
<1>1. CASE UNCHANGED <<cache, lru>>
  BY <1>1 DEF CacheConsistent
<1>2. ASSUME NEW r \in Requests, NEW t \in Tenants, TenantPolicyFor(r, t) PROVE CacheConsistent'
  BY <1>1, <1>2, TouchCache DEF TenantPolicyFor
<1>3. ASSUME NEW r \in Requests, SecondLook(r) PROVE CacheConsistent'
  <2>1. req[r].tenant \in Tenants
    BY <1>3 DEF SecondLook, WellFormed, CallOK, Leading
  <2>2. QED
    BY <1>1, <1>3, <2>1, TouchCache DEF SecondLook
<1>4. ASSUME NEW w \in Workers, WorkerInsert(w) PROVE CacheConsistent'
  <2>1. job[worker[w].job].tenant \in Tenants /\ worker[w].obj \in Objs
    BY <1>4 DEF WorkerInsert, WellFormed, WorkerOK, JobsHaveTenants, TypeOK, WorkerState, UsedJobs
  <2>2. QED
    BY <1>4, <2>1, InsertCache DEF WorkerInsert
<1>5. ASSUME NEW k \in Reloads, ReloadInsert(k) PROVE CacheConsistent'
  <2>1. reload[k].tenant \in Tenants /\ reload[k].next \in Objs
    BY <1>5 DEF ReloadInsert, WellFormed, ReloadOK, TypeOK, ReloadState
  <2>2. QED
    BY <1>5, <2>1, InsertCache DEF ReloadInsert
<1>6. ASSUME NEW r \in Requests,
             \/ TenantPolicyForInvalid(r) \/ GroupDo(r) \/ SendJob(r) \/ SendOnClosed(r)
             \/ TakeAnswer(r) \/ LoadTimeout(r) \/ Decide(r)
      PROVE  UNCHANGED <<cache, lru>>
  BY <1>6 DEF TenantPolicyForInvalid, GroupDo, SendJob, SendOnClosed, TakeAnswer, LoadTimeout, Decide
<1>7. ASSUME NEW w \in Workers,
             WorkerTake(w) \/ WorkerLoad(w) \/ WorkerReply(w) \/ WorkerExit(w)
      PROVE  UNCHANGED <<cache, lru>>
  BY <1>7 DEF WorkerTake, WorkerLoad, WorkerReply, WorkerExit
<1>8. ASSUME NEW k \in Reloads,
             \/ ReloadLoad(k) \/ ReloadLookup(k) \/ ReloadSwap(k)
             \/ \E t \in Tenants : ReloadTenant(k, t)
      PROVE  UNCHANGED <<cache, lru>>
  BY <1>8 DEF ReloadTenant, ReloadLoad, ReloadLookup, ReloadSwap
<1>9. ASSUME \/ HelperPanic \/ Close \/ \E j \in Jobs : HelperSend(j)
             \/ \E t \in Tenants : Publish(t) \/ Unpublish(t)
             \/ UNCHANGED vars
      PROVE  UNCHANGED <<cache, lru>>
  BY <1>9 DEF HelperPanic, Close, HelperSend, Publish, Unpublish, vars
<1>10. QED
  BY <1>1, <1>2, <1>3, <1>4, <1>5, <1>6, <1>7, <1>8, <1>9
     DEF Next, ServeNext, RequestStep, WorkerQuiet, ReloadQuiet

\* Map and LRU list agree and stay within CacheSize, for every CacheSize and any number
\* of workers, requests and timers.
THEOREM CacheIsConsistent == Spec => []CacheConsistent
<1>1. Init => CacheConsistent
  BY CacheSizeAssumption DEF Init, CacheConsistent, Elems
<1>2. TypeOK /\ WellFormed /\ CacheConsistent /\ [Next]_vars => CacheConsistent'
  BY CacheStep
<1>3. QED
  BY <1>1, <1>2, TypeCorrect, PTL DEF Spec

\* insert serves the policy from now on: a new entry is never the one that is evicted.
LEMMA InsertServes ==
    ASSUME TypeOK, CacheConsistent, NEW t \in Tenants, NEW o, insert(t, o)
    PROVE  /\ cache'[t] = o
           /\ \A u \in Tenants \ {t} : cache'[u] \in {cache[u], NoObj}
<1>1. lru \in Seq(Tenants) /\ cache \in [Tenants -> Objs \cup {NoObj}]
  BY DEF TypeOK
<1>2. CASE cache[t] # NoObj
  BY <1>1, <1>2 DEF insert
<1>3. CASE cache[t] = NoObj
  <2>1. PICK p : p = PushFront(lru, t)
    OBVIOUS
  <2>2. t \notin Elems(lru)
    BY <1>3 DEF CacheConsistent
  <2>3. t \notin Evicted(p)
    BY <1>1, <2>1, <2>2, PushAndEvict DEF CacheConsistent
  <2>4. cache' = [x \in Tenants |-> IF x \in Evicted(p) THEN NoObj
                                    ELSE IF x = t THEN o ELSE cache[x]]
    BY <1>3, <2>1 DEF insert
  <2>5. QED
    BY <2>3, <2>4
<1>4. QED
  BY <1>2, <1>3

-----------------------------------------------------------------------------
(* Isolation of tenants *)

\* TenantIsolation for given heap and pointers.
Points(h, c, q, wk, jb, rl) ==
    /\ \A t \in Tenants : c[t] # NoObj => h[c[t]].owner = t
    /\ \A r \in Requests : q[r].pc = "have" => h[q[r].obj].owner = q[r].tenant
    /\ \A w \in Workers : wk[w].obj # NoObj => h[wk[w].obj].owner = jb[wk[w].job].tenant
    /\ \A j \in Jobs : jb[j].obj # NoObj => h[jb[j].obj].owner = jb[j].tenant
    /\ \A k \in Reloads : rl[k].next # NoObj => h[rl[k].next].owner = rl[k].tenant
    /\ \A k \in Reloads : rl[k].target # NoObj => h[rl[k].target].owner = rl[k].tenant

\* It is enough to look at the heap before the collection: what the pointers reach is
\* alive and survives it.
LEMMA IsolationAfter ==
    ASSUME TypeOK', WellFormed', NEW h,
           \A o \in Objs : o \in LiveObjs' => heap'[o] = h[o],
           Points(h, cache', req', worker', job', reload')
    PROVE  TenantIsolation'
<1>1. \A t \in Tenants : cache'[t] # NoObj => heap'[cache'[t]] = h[cache'[t]]
  BY DEF TypeOK, LiveObjs
<1>2. \A r \in Requests : req'[r].pc = "have" =>
        req'[r].tenant \in Tenants /\ heap'[req'[r].obj] = h[req'[r].obj]
  BY DEF TypeOK, Call, WellFormed, CallOK, LiveObjs
<1>3. \A w \in Workers : worker'[w].obj # NoObj => heap'[worker'[w].obj] = h[worker'[w].obj]
  BY DEF TypeOK, WorkerState, LiveObjs
<1>4. \A j \in Jobs : job'[j].obj # NoObj => heap'[job'[j].obj] = h[job'[j].obj]
  BY DEF TypeOK, Job, LiveObjs
<1>5. \A k \in Reloads : reload'[k].next # NoObj => heap'[reload'[k].next] = h[reload'[k].next]
  BY DEF TypeOK, ReloadState, LiveObjs
<1>6. \A k \in Reloads : reload'[k].target # NoObj =>
        heap'[reload'[k].target] = h[reload'[k].target]
  BY DEF TypeOK, ReloadState, LiveObjs
<1>7. QED
  BY <1>1, <1>2, <1>3, <1>4, <1>5, <1>6 DEF TenantIsolation, Points

\* A collection, or no change at all, keeps what is alive.
LEMMA HeapAfter ==
    /\ \A h : HeapIs(h) => \A o \in Objs : o \in LiveObjs' => heap'[o] = h[o]
    /\ UNCHANGED heap => \A o \in Objs : o \in LiveObjs' => heap'[o] = heap[o]
BY DEF HeapIs

\* A new object changes nothing for the pointers there are.
LEMMA PointsFresh ==
    ASSUME TypeOK, WellFormed, TenantIsolation, NEW o, FreshObj(o), NEW p
    PROVE  Points([heap EXCEPT ![o] = p], cache, req, worker, job, reload)
<1> DEFINE h == [heap EXCEPT ![o] = p]
<1>1. \A x \in Objs : x \in LiveObjs => h[x] = heap[x]
  BY DEF TypeOK, FreshObj
<1> HIDE DEF h
<1>2. \A t \in Tenants : cache[t] # NoObj => h[cache[t]] = heap[cache[t]]
  BY <1>1 DEF TypeOK, LiveObjs
<1>3. \A r \in Requests : req[r].pc = "have" => h[req[r].obj] = heap[req[r].obj]
  BY <1>1 DEF TypeOK, Call, WellFormed, CallOK, LiveObjs
<1>4. \A w \in Workers : worker[w].obj # NoObj => h[worker[w].obj] = heap[worker[w].obj]
  BY <1>1 DEF TypeOK, WorkerState, LiveObjs
<1>5. \A j \in Jobs : job[j].obj # NoObj => h[job[j].obj] = heap[job[j].obj]
  BY <1>1 DEF TypeOK, Job, LiveObjs
<1>6. \A k \in Reloads : reload[k].next # NoObj => h[reload[k].next] = heap[reload[k].next]
  BY <1>1 DEF TypeOK, ReloadState, LiveObjs
<1>7. \A k \in Reloads : reload[k].target # NoObj => h[reload[k].target] = heap[reload[k].target]
  BY <1>1 DEF TypeOK, ReloadState, LiveObjs
<1>8. Points(h, cache, req, worker, job, reload)
  BY <1>2, <1>3, <1>4, <1>5, <1>6, <1>7 DEF TenantIsolation, Points
<1>9. QED
  BY <1>8 DEF h

\* A delivery hands the policy of the tenant to calls of that tenant.
LEMMA PointsDeliver ==
    ASSUME TypeOK, TenantIsolation, NEW t \in Tenants, NEW o, NEW e, Deliver(t, o, e),
           e = "none" => heap[o].owner = t
    PROVE  \A r \in Requests : req'[r].pc = "have" => heap[req'[r].obj].owner = req'[r].tenant
<1> SUFFICES ASSUME NEW r \in Requests, req'[r].pc = "have"
             PROVE  heap[req'[r].obj].owner = req'[r].tenant
  OBVIOUS
<1>1. req'[r] = req[r] \/ req'[r] = Result(t, o, e)
  BY DEF Deliver
<1>2. CASE req'[r] = req[r]
  BY <1>2 DEF TenantIsolation
<1>3. CASE req'[r] = Result(t, o, e)
  BY <1>3 DEF Result
<1>4. QED
  BY <1>1, <1>2, <1>3

\* insert(t, o) leaves every cached pointer where it belongs.
LEMMA PointsInsert ==
    ASSUME TypeOK, TenantIsolation, NEW t \in Tenants, NEW o, insert(t, o), heap[o].owner = t
    PROVE  \A x \in Tenants : cache'[x] # NoObj => heap[cache'[x]].owner = x
<1>1. \A x \in Tenants : cache'[x] \in {NoObj, cache[x]} \/ (x = t /\ cache'[x] = o)
  BY DEF insert, TypeOK
<1>2. QED
  BY <1>1 DEF TenantIsolation

\* Collected jobs keep what they were: no job is given a policy or a tenant.
LEMMA JobsKeep ==
    ASSUME TypeOK', NEW jb, JobsAre(jb)
    PROVE  /\ \A j \in Jobs : job'[j].obj # NoObj => job'[j] = jb[j]
           /\ \A w \in Workers : worker'[w].job # NoJob => job'[worker'[w].job] = jb[worker'[w].job]
           /\ \A r \in Requests : req'[r].job # NoJob => job'[req'[r].job] = jb[req'[r].job]
<1>1. \A j \in Jobs : j \in UsedJobs' => job'[j] = jb[j]
  BY DEF JobsAre
<1>2. \A j \in Jobs : j \notin UsedJobs' => job'[j] = FreeJob
  BY DEF JobsAre
<1>3. \A w \in Workers : worker'[w].job # NoJob => worker'[w].job \in Jobs /\ worker'[w].job \in UsedJobs'
  BY DEF TypeOK, WorkerState, UsedJobs
<1>4. \A r \in Requests : req'[r].job # NoJob => req'[r].job \in Jobs /\ req'[r].job \in UsedJobs'
  BY DEF TypeOK, Call, UsedJobs
<1>5. QED
  BY <1>1, <1>2, <1>3, <1>4 DEF FreeJob

IsolationInv == TenantIsolation /\ WaitsForOwnTenant

\* Every step leaves each pointer at a policy of the tenant it is held for.
LEMMA IsolationStep ==
    /\ TypeOK /\ WellFormed /\ IsolationInv /\ [Next]_vars /\ TypeOK' /\ WellFormed'
    => IsolationInv'
<1> SUFFICES ASSUME TypeOK, WellFormed, TenantIsolation, WaitsForOwnTenant, [Next]_vars,
                    TypeOK', WellFormed'
             PROVE  TenantIsolation' /\ WaitsForOwnTenant'
  BY DEF IsolationInv
<1> USE ConstantTypes
<1>0. Points(heap, cache, req, worker, job, reload)
  BY DEF TenantIsolation, Points
<1>1. ASSUME NEW r \in Requests,
             \/ TenantPolicyForInvalid(r) \/ \E t \in Tenants : TenantPolicyFor(r, t)
             \/ GroupDo(r) \/ SecondLook(r) \/ SendOnClosed(r) \/ Decide(r)
      PROVE  TenantIsolation' /\ WaitsForOwnTenant'
  <2>1. UNCHANGED <<cache, worker, job, reload>>
    BY <1>1 DEF TenantPolicyForInvalid, TenantPolicyFor, GroupDo, SecondLook, SendOnClosed, Decide
  <2>2. \A o \in Objs : o \in LiveObjs' => heap'[o] = heap[o]
    BY <1>1, HeapAfter DEF TenantPolicyForInvalid, TenantPolicyFor, GroupDo, SecondLook,
       SendOnClosed, Decide
  <2>3. \A x \in Requests : req'[x].pc = "have" => heap[req'[x].obj].owner = req'[x].tenant
    <3>1. CASE TenantPolicyForInvalid(r)
      BY <3>1 DEF TenantPolicyForInvalid, TypeOK, TenantIsolation, Result
    <3>2. ASSUME NEW t \in Tenants, TenantPolicyFor(r, t)
          PROVE  \A x \in Requests : req'[x].pc = "have" => heap[req'[x].obj].owner = req'[x].tenant
      <4>1. \A x \in Requests \ {r} : req'[x] = req[x]
        BY <3>2 DEF TenantPolicyFor, TypeOK
      <4>2. \/ req'[r] = Result(t, cache[t], "none") /\ cache[t] # NoObj
            \/ req'[r] = [IdleCall EXCEPT !.pc = "miss", !.tenant = t]
        BY <3>2 DEF TenantPolicyFor, TypeOK
      <4>3. req'[r].pc = "have" => heap[req'[r].obj].owner = req'[r].tenant
        <5>1. CASE req'[r] = Result(t, cache[t], "none") /\ cache[t] # NoObj
          BY <5>1 DEF TenantIsolation, Result
        <5>2. CASE req'[r] = [IdleCall EXCEPT !.pc = "miss", !.tenant = t]
          <6>1. req'[r].pc = "miss"
            BY <5>2 DEF IdleCall
          <6>2. QED
            BY <6>1
        <5>3. QED
          BY <4>2, <5>1, <5>2
      <4>4. QED
        BY <4>1, <4>3 DEF TenantIsolation
    <3>3. CASE GroupDo(r)
      BY <3>3 DEF GroupDo, TypeOK, Call, TenantIsolation
    <3>4. CASE SecondLook(r)
      <4> DEFINE t == req[r].tenant
      <4>1. t \in Tenants
        BY <3>4 DEF SecondLook, WellFormed, CallOK, Leading
      <4>2. CASE cache[t] # NoObj
        BY <3>4, <4>1, <4>2, PointsDeliver DEF SecondLook, TenantIsolation
      <4>3. CASE cache[t] = NoObj
        BY <3>4, <4>3 DEF SecondLook, TypeOK, Call, TenantIsolation
      <4>4. QED
        BY <4>2, <4>3
    <3>5. CASE SendOnClosed(r)
      <4>1. req[r].tenant \in Tenants
        BY <3>5 DEF SendOnClosed, WellFormed, CallOK, Leading
      <4>2. QED
        BY <3>5, <4>1, PointsDeliver DEF SendOnClosed
    <3>6. CASE Decide(r)
      BY <3>6 DEF Decide, TypeOK, TenantIsolation, IdleCall
    <3>7. QED
      BY <1>1, <3>1, <3>2, <3>3, <3>4, <3>5, <3>6
  <2>4. Points(heap, cache', req', worker', job', reload')
    BY <1>0, <2>1, <2>3 DEF Points
  <2>5. TenantIsolation'
    BY <2>2, <2>4, IsolationAfter
  <2>6. \A x \in Requests : req'[x].pc = "wait" => req'[x] = req[x]
    <3>1. CASE TenantPolicyForInvalid(r) \/ Decide(r)
      BY <3>1 DEF TenantPolicyForInvalid, Decide, Result, IdleCall, TypeOK
    <3>2. CASE \E t \in Tenants : TenantPolicyFor(r, t)
      <4>1. \A x \in Requests \ {r} : req'[x] = req[x]
        BY <3>2 DEF TenantPolicyFor, TypeOK
      <4>2. PICK t \in Tenants :
              \/ req'[r] = Result(t, cache[t], "none")
              \/ req'[r] = [IdleCall EXCEPT !.pc = "miss", !.tenant = t]
        BY <3>2 DEF TenantPolicyFor, TypeOK
      <4>3. req'[r].pc # "wait"
        <5>1. Result(t, cache[t], "none").pc = "have"
          BY DEF Result
        <5>2. [IdleCall EXCEPT !.pc = "miss", !.tenant = t].pc = "miss"
          BY DEF IdleCall
        <5>3. QED
          BY <4>2, <5>1, <5>2
      <4>4. QED
        BY <4>1, <4>3
    <3>3. CASE GroupDo(r)
      BY <3>3 DEF GroupDo, TypeOK, Call
    <3>4. CASE SecondLook(r)
      <4>1. \/ req' = [req EXCEPT ![r].pc = "send"]
            \/ Deliver(req[r].tenant, cache[req[r].tenant], "none")
        BY <3>4 DEF SecondLook
      <4>2. QED
        BY <4>1 DEF Deliver, Result, TypeOK, Call
    <3>5. CASE SendOnClosed(r)
      BY <3>5 DEF SendOnClosed, Deliver, Result
    <3>6. QED
      BY <1>1, <3>1, <3>2, <3>3, <3>4, <3>5
  <2>7. QED
    BY <2>1, <2>5, <2>6 DEF WaitsForOwnTenant
<1>2. ASSUME NEW r \in Requests, SendJob(r) PROVE TenantIsolation' /\ WaitsForOwnTenant'
  <2>1. PICK j \in Jobs :
          /\ FreshJob(j)
          /\ req' = [req EXCEPT ![r].pc = "wait", ![r].job = j]
          /\ UNCHANGED worker
          /\ JobsAre([job EXCEPT ![j] = NewJob(req[r].tenant)])
    BY <1>2 DEF SendJob
  <2> DEFINE jb == [job EXCEPT ![j] = NewJob(req[r].tenant)]
  <2>2. UNCHANGED <<cache, reload, heap>>
    BY <1>2 DEF SendJob
  <2>3. jb[j] = NewJob(req[r].tenant) /\ \A i \in Jobs \ {j} : jb[i] = job[i]
    BY DEF TypeOK
  <2>4. JobsAre(jb)
    BY <2>1
  <2> HIDE DEF jb
  <2>5. \A i \in Jobs : job'[i].obj # NoObj => job'[i] = job[i]
    <3>1. NewJob(req[r].tenant).obj = NoObj
      BY DEF NewJob, FreeJob
    <3>2. QED
      BY <2>3, <2>4, <3>1, JobsKeep
  <2>6. \A w \in Workers : worker'[w].obj # NoObj => job'[worker'[w].job] = job[worker'[w].job]
    <3>1. \A w \in Workers : worker[w].obj # NoObj =>
            worker[w].job \in Jobs \ {j} /\ worker[w].job # NoJob
      BY <2>1, ZenonT(40) DEF TypeOK, WorkerState, WellFormed, WorkerOK, FreshJob, UsedJobs
    <3>2. QED
      BY <2>1, <2>3, <2>4, <3>1, JobsKeep
  <2>7. \A x \in Requests : req'[x].pc = "have" => req'[x] = req[x]
    BY <2>1 DEF TypeOK, Call
  <2>8. Points(heap, cache', req', worker', job', reload')
    <3>1. \A i \in Jobs : job'[i].obj # NoObj => heap[job'[i].obj].owner = job'[i].tenant
      BY <2>5 DEF TenantIsolation
    <3>2. \A w \in Workers : worker'[w].obj # NoObj =>
            heap[worker'[w].obj].owner = job'[worker'[w].job].tenant
      BY <2>1, <2>6 DEF TenantIsolation
    <3>3. \A x \in Requests : req'[x].pc = "have" => heap[req'[x].obj].owner = req'[x].tenant
      BY <2>7 DEF TenantIsolation
    <3>4. QED
      BY <1>0, <2>2, <3>1, <3>2, <3>3 DEF Points
  <2>9. TenantIsolation'
    BY <2>2, <2>8, HeapAfter, IsolationAfter
  <2>10. WaitsForOwnTenant'
    <3> SUFFICES ASSUME NEW x \in Requests, req'[x].pc = "wait"
                 PROVE  job'[req'[x].job].tenant = req'[x].tenant
      BY DEF WaitsForOwnTenant
    <3>1. req'[x].job # NoJob /\ job'[req'[x].job] = jb[req'[x].job]
      BY <2>4, JobsKeep DEF WellFormed, CallOK
    <3>2. CASE x = r
      <4>1. req'[x].job = j /\ req'[x].tenant = req[r].tenant
        BY <2>1, <3>2 DEF TypeOK, Call
      <4>2. QED
        BY <2>3, <3>1, <4>1 DEF NewJob, FreeJob
    <3>3. CASE x # r
      <4>1. req'[x] = req[x]
        BY <2>1, <3>3 DEF TypeOK
      <4>2. req[x].job \in Jobs \ {j}
        BY <2>1, <3>1, <4>1 DEF TypeOK, Call, FreshJob, UsedJobs
      <4>3. QED
        BY <2>3, <3>1, <4>1, <4>2 DEF WaitsForOwnTenant
    <3>4. QED
      BY <3>2, <3>3
  <2>11. QED
    BY <2>9, <2>10
<1>3. ASSUME NEW r \in Requests, TakeAnswer(r) \/ LoadTimeout(r)
      PROVE  TenantIsolation' /\ WaitsForOwnTenant'
  <2>1. UNCHANGED <<cache, worker, reload>> /\ JobsAre(job) /\ HeapIs(heap)
    BY <1>3 DEF TakeAnswer, LoadTimeout
  <2>2. req[r].tenant \in Tenants /\ req[r].job \in Jobs
    BY <1>3 DEF TakeAnswer, LoadTimeout, WellFormed, CallOK, Leading, TypeOK, Call
  <2>3. PICK o, e : /\ Deliver(req[r].tenant, o, e)
                    /\ e = "none" => heap[o].owner = req[r].tenant
    <3>1. CASE TakeAnswer(r)
      <4> DEFINE a == job[req[r].job]
      <4>1. a.done /\ Deliver(req[r].tenant, a.obj, a.err) /\ req[r].pc = "wait"
        BY <3>1 DEF TakeAnswer
      <4>2. a.err = "none" => a.obj # NoObj
        BY <2>2, <4>1 DEF WellFormed, AnswersHavePolicy
      <4>3. a.tenant = req[r].tenant
        BY <4>1 DEF WaitsForOwnTenant
      <4>4. a.err = "none" => heap[a.obj].owner = req[r].tenant
        BY <2>2, <4>2, <4>3 DEF TenantIsolation
      <4>5. QED
        BY <4>1, <4>4
    <3>2. CASE LoadTimeout(r)
      <4>1. Deliver(req[r].tenant, NoObj, "timeout")
        BY <3>2 DEF LoadTimeout
      <4>2. QED
        BY <4>1
    <3>3. QED
      BY <1>3, <3>1, <3>2
  <2>4. \A x \in Requests : req'[x].pc = "have" => heap[req'[x].obj].owner = req'[x].tenant
    BY <2>2, <2>3, PointsDeliver
  <2>5. /\ \A i \in Jobs : job'[i].obj # NoObj => job'[i] = job[i]
        /\ \A w \in Workers : worker'[w].job # NoJob => job'[worker'[w].job] = job[worker'[w].job]
        /\ \A x \in Requests : req'[x].job # NoJob => job'[req'[x].job] = job[req'[x].job]
    BY <2>1, JobsKeep
  <2>6. \A w \in Workers : worker[w].obj # NoObj => worker[w].job # NoJob
    BY DEF WellFormed, WorkerOK, TypeOK, WorkerState
  <2>7. Points(heap, cache', req', worker', job', reload')
    BY <1>0, <2>1, <2>4, <2>5, <2>6 DEF Points
  <2>8. TenantIsolation'
    BY <2>1, <2>7, HeapAfter, IsolationAfter
  <2>9. \A x \in Requests : req'[x].pc = "wait" => req'[x] = req[x] /\ req'[x].job # NoJob
    BY <2>3 DEF Deliver, Result, WellFormed, CallOK
  <2>10. WaitsForOwnTenant'
    BY <2>5, <2>9 DEF WaitsForOwnTenant
  <2>11. QED
    BY <2>8, <2>10
<1>4. ASSUME NEW w \in Workers, WorkerTake(w) PROVE TenantIsolation' /\ WaitsForOwnTenant'
  <2>1. UNCHANGED <<heap, cache, req, job, reload>>
    BY <1>4 DEF WorkerTake
  <2>2. worker' = [worker EXCEPT ![w] = [IdleWorker EXCEPT !.pc = "load", !.job = Head(loadCh)]]
    BY <1>4 DEF WorkerTake
  <2>3. \A v \in Workers : worker'[v].obj # NoObj => worker'[v] = worker[v]
    BY <2>2 DEF TypeOK, IdleWorker
  <2>4. Points(heap, cache', req', worker', job', reload')
    BY <1>0, <2>1, <2>3 DEF Points
  <2>5. QED
    BY <2>1, <2>4, HeapAfter, IsolationAfter DEF WaitsForOwnTenant
<1>5. ASSUME NEW w \in Workers, WorkerLoad(w) PROVE TenantIsolation' /\ WaitsForOwnTenant'
  <2> DEFINE t == job[worker[w].job].tenant
  <2>1. UNCHANGED <<cache, req, job, reload>>
    BY <1>5 DEF WorkerLoad
  <2>2. CASE LoadError(t) = "none"
    <3>1. PICK o \in Objs :
            /\ FreshObj(o)
            /\ worker' = [worker EXCEPT ![w].pc = "loaded", ![w].obj = o]
            /\ HeapIs([heap EXCEPT ![o] = DiskPolicy(t)])
      BY <1>5, <2>2 DEF WorkerLoad
    <3> DEFINE h == [heap EXCEPT ![o] = DiskPolicy(t)]
    <3>2. Points(h, cache, req, worker, job, reload)
      BY <3>1, PointsFresh
    <3>3. h[o].owner = t
      BY DEF TypeOK, DiskPolicy
    <3>4. HeapIs(h)
      BY <3>1
    <3> HIDE DEF h
    <3>5. /\ worker'[w].obj = o /\ worker'[w].job = worker[w].job
          /\ \A v \in Workers \ {w} : worker'[v] = worker[v]
      BY <3>1 DEF TypeOK, WorkerState
    <3>6. Points(h, cache', req', worker', job', reload')
      BY <2>1, <3>2, <3>3, <3>5 DEF Points
    <3>7. QED
      BY <2>1, <3>4, <3>6, HeapAfter, IsolationAfter DEF WaitsForOwnTenant
  <2>3. CASE LoadError(t) # "none"
    <3>1. UNCHANGED heap /\ worker' = [worker EXCEPT ![w].pc = "reply", ![w].err = LoadError(t)]
      BY <1>5, <2>3 DEF WorkerLoad
    <3>2. \A v \in Workers : worker'[v].obj = worker[v].obj /\ worker'[v].job = worker[v].job
      BY <3>1 DEF TypeOK, WorkerState
    <3>3. Points(heap, cache', req', worker', job', reload')
      BY <1>0, <2>1, <3>2 DEF Points
    <3>4. QED
      BY <2>1, <3>1, <3>3, HeapAfter, IsolationAfter DEF WaitsForOwnTenant
  <2>4. QED
    BY <2>2, <2>3
<1>6. ASSUME NEW w \in Workers, WorkerInsert(w) PROVE TenantIsolation' /\ WaitsForOwnTenant'
  <2> DEFINE t == job[worker[w].job].tenant
  <2>1. UNCHANGED <<req, job, reload>> /\ HeapIs(heap) /\ insert(t, worker[w].obj)
    BY <1>6 DEF WorkerInsert
  <2>2. t \in Tenants /\ worker[w].obj # NoObj
    BY <1>6 DEF WorkerInsert, WellFormed, WorkerOK, JobsHaveTenants, UsedJobs
  <2>3. heap[worker[w].obj].owner = t
    BY <2>2 DEF TenantIsolation
  <2>4. \A x \in Tenants : cache'[x] # NoObj => heap[cache'[x]].owner = x
    BY <2>1, <2>2, <2>3, PointsInsert
  <2>5. \A v \in Workers : worker'[v].obj = worker[v].obj /\ worker'[v].job = worker[v].job
    BY <1>6 DEF WorkerInsert, TypeOK, WorkerState
  <2>6. Points(heap, cache', req', worker', job', reload')
    BY <1>0, <2>1, <2>4, <2>5 DEF Points
  <2>7. QED
    BY <2>1, <2>6, HeapAfter, IsolationAfter DEF WaitsForOwnTenant
<1>7. ASSUME NEW w \in Workers, WorkerReply(w) PROVE TenantIsolation' /\ WaitsForOwnTenant'
  <2> DEFINE j == worker[w].job
             jb == [job EXCEPT ![j].done = TRUE, ![j].obj = worker[w].obj, ![j].err = worker[w].err]
  <2>1. UNCHANGED <<cache, req, reload>> /\ HeapIs(heap) /\ JobsAre(jb)
    BY <1>7 DEF WorkerReply
  <2>2. j \in Jobs
    BY <1>7 DEF WorkerReply, WellFormed, WorkerOK, TypeOK, WorkerState
  <2>3. /\ \A i \in Jobs : jb[i].tenant = job[i].tenant
        /\ \A i \in Jobs \ {j} : jb[i] = job[i]
        /\ jb[j].obj = worker[w].obj
    BY <2>2 DEF TypeOK, Job
  <2> HIDE DEF jb
  <2>4. \A i \in Jobs : jb[i].obj # NoObj => heap[jb[i].obj].owner = jb[i].tenant
    BY <2>2, <2>3 DEF TenantIsolation
  <2>5. \A v \in Workers : worker'[v].obj # NoObj =>
          worker'[v] = worker[v] /\ worker'[v].job # NoJob /\ worker'[v].job \in Jobs
    BY <1>7 DEF WorkerReply, TypeOK, WorkerState, WellFormed, WorkerOK, IdleWorker
  <2>6. /\ \A i \in Jobs : job'[i].obj # NoObj => job'[i] = jb[i]
        /\ \A v \in Workers : worker'[v].job # NoJob => job'[worker'[v].job] = jb[worker'[v].job]
        /\ \A r \in Requests : req'[r].job # NoJob => job'[req'[r].job] = jb[req'[r].job]
    BY <2>1, JobsKeep
  <2>7. Points(heap, cache', req', worker', job', reload')
    <3>1. \A i \in Jobs : job'[i].obj # NoObj => heap[job'[i].obj].owner = job'[i].tenant
      BY <2>4, <2>6
    <3>2. \A v \in Workers : worker'[v].obj # NoObj =>
            heap[worker'[v].obj].owner = job'[worker'[v].job].tenant
      BY <2>3, <2>5, <2>6 DEF TenantIsolation
    <3>3. QED
      BY <1>0, <2>1, <3>1, <3>2 DEF Points
  <2>8. TenantIsolation'
    BY <2>1, <2>7, HeapAfter, IsolationAfter
  <2>9. \A r \in Requests : req'[r].pc = "wait" => req'[r].job \in Jobs /\ req'[r].job # NoJob
    BY DEF WellFormed, CallOK, TypeOK, Call
  <2>10. WaitsForOwnTenant'
    BY <2>1, <2>3, <2>6, <2>9 DEF WaitsForOwnTenant
  <2>11. QED
    BY <2>8, <2>10
<1>8. ASSUME NEW k \in Reloads, ReloadLoad(k) PROVE TenantIsolation' /\ WaitsForOwnTenant'
  <2> DEFINE t == reload[k].tenant
  <2>1. UNCHANGED <<cache, req, job, worker>>
    BY <1>8 DEF ReloadLoad
  <2>2. CASE LoadError(t) = "none"
    <3>1. PICK o \in Objs :
            /\ FreshObj(o)
            /\ reload' = [reload EXCEPT ![k].pc = "loaded", ![k].next = o]
            /\ HeapIs([heap EXCEPT ![o] = DiskPolicy(t)])
      BY <1>8, <2>2 DEF ReloadLoad
    <3> DEFINE h == [heap EXCEPT ![o] = DiskPolicy(t)]
    <3>2. Points(h, cache, req, worker, job, reload)
      BY <3>1, PointsFresh
    <3>3. h[o].owner = t
      BY DEF TypeOK, DiskPolicy
    <3>4. HeapIs(h)
      BY <3>1
    <3> HIDE DEF h
    <3>5. /\ reload'[k].next = o /\ reload'[k].tenant = t /\ reload'[k].target = reload[k].target
          /\ \A x \in Reloads \ {k} : reload'[x] = reload[x]
      BY <3>1 DEF TypeOK, ReloadState
    <3>6. Points(h, cache', req', worker', job', reload')
      BY <2>1, <3>2, <3>3, <3>5 DEF Points
    <3>7. QED
      BY <2>1, <3>4, <3>6, HeapAfter, IsolationAfter DEF WaitsForOwnTenant
  <2>3. CASE LoadError(t) # "none"
    <3>1. UNCHANGED heap /\ reload' = [reload EXCEPT ![k] = IdleReload]
      BY <1>8, <2>3 DEF ReloadLoad
    <3>2. \A x \in Reloads : reload'[x] \in {reload[x], IdleReload}
      BY <3>1 DEF TypeOK
    <3>3. Points(heap, cache', req', worker', job', reload')
      BY <1>0, <2>1, <3>2 DEF Points, IdleReload
    <3>4. QED
      BY <2>1, <3>1, <3>3, HeapAfter, IsolationAfter DEF WaitsForOwnTenant
  <2>4. QED
    BY <2>2, <2>3
<1>9. ASSUME NEW k \in Reloads, ReloadLookup(k) \/ \E t \in Tenants : ReloadTenant(k, t)
      PROVE  TenantIsolation' /\ WaitsForOwnTenant'
  <2>1. UNCHANGED <<heap, cache, req, job, worker>>
    BY <1>9 DEF ReloadLookup, ReloadTenant
  <2>2. \A x \in Reloads \ {k} : reload'[x] = reload[x]
    BY <1>9 DEF ReloadLookup, ReloadTenant, TypeOK
  <2>3. \/ /\ reload'[k].next = NoObj /\ reload'[k].target = NoObj
        \/ /\ reload'[k].next = reload[k].next
           /\ reload'[k].tenant = reload[k].tenant
           /\ reload'[k].target = cache[reload[k].tenant]
           /\ reload[k].tenant \in Tenants
    <3>1. CASE ReloadLookup(k)
      BY <3>1 DEF ReloadLookup, TypeOK, ReloadState, WellFormed, ReloadOK
    <3>2. CASE \E t \in Tenants : ReloadTenant(k, t)
      BY <3>2 DEF ReloadTenant, TypeOK, ReloadState, WellFormed, ReloadOK
    <3>3. QED
      BY <1>9, <3>1, <3>2
  <2>4. Points(heap, cache', req', worker', job', reload')
    BY <1>0, <2>1, <2>2, <2>3 DEF Points
  <2>5. QED
    BY <2>1, <2>4, HeapAfter, IsolationAfter DEF WaitsForOwnTenant
<1>10. ASSUME NEW k \in Reloads, ReloadSwap(k) PROVE TenantIsolation' /\ WaitsForOwnTenant'
  <2> DEFINE h == [heap EXCEPT ![reload[k].target] = heap[reload[k].next]]
  <2>1. UNCHANGED <<cache, req, job, worker>> /\ HeapIs(h)
    BY <1>10 DEF ReloadSwap
  <2>2. /\ heap[reload[k].next].owner = reload[k].tenant
        /\ heap[reload[k].target].owner = reload[k].tenant
    BY <1>10 DEF ReloadSwap, WellFormed, ReloadOK, TenantIsolation
  <2>3. \A o \in Objs : h[o].owner = heap[o].owner
    BY <2>2 DEF TypeOK
  <2> HIDE DEF h
  <2>4. \A x \in Reloads : reload'[x] \in {reload[x], IdleReload}
    BY <1>10 DEF ReloadSwap, TypeOK
  <2>5. Points(h, cache', req', worker', job', reload')
    <3>1. \A t \in Tenants : cache[t] # NoObj => cache[t] \in Objs
      BY DEF TypeOK
    <3>2. \A r \in Requests : req[r].pc = "have" => req[r].obj \in Objs
      BY DEF TypeOK, Call, WellFormed, CallOK
    <3>3. \A w \in Workers : worker[w].obj # NoObj => worker[w].obj \in Objs
      BY DEF TypeOK, WorkerState
    <3>4. \A j \in Jobs : job[j].obj # NoObj => job[j].obj \in Objs
      BY DEF TypeOK, Job
    <3>5. \A x \in Reloads : /\ reload[x].next # NoObj => reload[x].next \in Objs
                             /\ reload[x].target # NoObj => reload[x].target \in Objs
      BY DEF TypeOK, ReloadState
    <3>6. IdleReload.next = NoObj /\ IdleReload.target = NoObj
      BY DEF IdleReload
    <3>7. /\ \A t \in Tenants : cache'[t] # NoObj => h[cache'[t]].owner = t
          /\ \A r \in Requests : req'[r].pc = "have" => h[req'[r].obj].owner = req'[r].tenant
      BY <2>1, <2>3, <3>1, <3>2 DEF TenantIsolation
    <3>8. /\ \A w \in Workers : worker'[w].obj # NoObj =>
               h[worker'[w].obj].owner = job'[worker'[w].job].tenant
          /\ \A j \in Jobs : job'[j].obj # NoObj => h[job'[j].obj].owner = job'[j].tenant
      BY <2>1, <2>3, <3>3, <3>4 DEF TenantIsolation
    <3>9. ASSUME NEW x \in Reloads
          PROVE  /\ reload'[x].next # NoObj => h[reload'[x].next].owner = reload'[x].tenant
                 /\ reload'[x].target # NoObj => h[reload'[x].target].owner = reload'[x].tenant
      <4>1. CASE reload'[x] = IdleReload
        BY <3>6, <4>1
      <4>2. CASE reload'[x] = reload[x]
        <5>1. /\ reload[x].next # NoObj => heap[reload[x].next].owner = reload[x].tenant
              /\ reload[x].target # NoObj => heap[reload[x].target].owner = reload[x].tenant
          BY DEF TenantIsolation
        <5>2. reload[x].next # NoObj => h[reload[x].next].owner = heap[reload[x].next].owner
          BY <2>3, <3>5, Zenon
        <5>3. reload[x].target # NoObj => h[reload[x].target].owner = heap[reload[x].target].owner
          BY <2>3, <3>5, Zenon
        <5>4. /\ reload[x].next # NoObj => h[reload[x].next].owner = reload[x].tenant
              /\ reload[x].target # NoObj => h[reload[x].target].owner = reload[x].tenant
          BY <5>1, <5>2, <5>3, Zenon
        <5>5. QED
          BY <4>2, <5>4
      <4>3. QED
        BY <2>4, <4>1, <4>2
    <3>10. QED
      BY <3>7, <3>8, <3>9 DEF Points
  <2>6. QED
    BY <2>1, <2>5, HeapAfter, IsolationAfter DEF WaitsForOwnTenant
<1>11. ASSUME NEW k \in Reloads, ReloadInsert(k) PROVE TenantIsolation' /\ WaitsForOwnTenant'
  <2>1. /\ UNCHANGED <<req, job, worker>> /\ HeapIs(heap)
        /\ insert(reload[k].tenant, reload[k].next)
    BY <1>11 DEF ReloadInsert
  <2>2. reload[k].tenant \in Tenants /\ heap[reload[k].next].owner = reload[k].tenant
    BY <1>11 DEF ReloadInsert, WellFormed, ReloadOK, TenantIsolation
  <2>3. \A x \in Tenants : cache'[x] # NoObj => heap[cache'[x]].owner = x
    BY <2>1, <2>2, PointsInsert
  <2>4. \A x \in Reloads : reload'[x] \in {reload[x], IdleReload}
    BY <1>11 DEF ReloadInsert, TypeOK
  <2>5. Points(heap, cache', req', worker', job', reload')
    BY <1>0, <2>1, <2>3, <2>4 DEF Points, IdleReload
  <2>6. QED
    BY <2>1, <2>5, HeapAfter, IsolationAfter DEF WaitsForOwnTenant
<1>12. ASSUME \/ HelperPanic \/ Close \/ \E j \in Jobs : HelperSend(j)
              \/ \E w \in Workers : WorkerExit(w)
              \/ \E t \in Tenants : Publish(t) \/ Unpublish(t)
              \/ UNCHANGED vars
       PROVE  TenantIsolation' /\ WaitsForOwnTenant'
  <2>1. UNCHANGED <<heap, cache, req, job, reload>>
    BY <1>12 DEF HelperPanic, Close, HelperSend, WorkerExit, Publish, Unpublish, vars
  <2>2. \A v \in Workers : worker'[v].obj = worker[v].obj /\ worker'[v].job = worker[v].job
    BY <1>12 DEF HelperPanic, Close, HelperSend, WorkerExit, Publish, Unpublish, vars, TypeOK,
       WorkerState
  <2>3. Points(heap, cache', req', worker', job', reload')
    BY <1>0, <2>1, <2>2 DEF Points
  <2>4. QED
    BY <2>1, <2>3, HeapAfter, IsolationAfter DEF WaitsForOwnTenant
<1>13. QED
  BY <1>1, <1>2, <1>3, <1>4, <1>5, <1>6, <1>7, <1>8, <1>9, <1>10, <1>11, <1>12
     DEF Next, ServeNext, RequestStep, WorkerQuiet, ReloadQuiet

\* No call is ever given, and no goroutine ever installs, a policy of another tenant:
\* coalescing, late answers, in-place swaps and evictions included.
THEOREM TenantsAreIsolated == Spec => []TenantIsolation
<1>1. Init => IsolationInv
  BY DEF Init, IsolationInv, TenantIsolation, WaitsForOwnTenant, IdleCall, IdleWorker,
     IdleReload, FreeJob
<1>2. /\ TypeOK /\ WellFormed /\ IsolationInv /\ [Next]_vars /\ TypeOK' /\ WellFormed'
      => IsolationInv'
  BY IsolationStep
<1>3. IsolationInv => TenantIsolation
  BY DEF IsolationInv
<1>4. QED
  BY <1>1, <1>2, <1>3, TypeCorrect, PTL DEF Spec

-----------------------------------------------------------------------------
(* Coalesced misses *)

\* The end of a flight takes its key, its leader and everyone who joined it.
LEMMA FlightDeliver ==
    ASSUME TypeOK, WellFormed, SingleFlight, NEW t \in Tenants, NEW o, NEW e, Deliver(t, o, e)
    PROVE  SingleFlight'
<1>1. /\ flight \in [Tenants -> Requests \cup {NoReq}]
      /\ flight' = [flight EXCEPT ![t] = NoReq]
      /\ \A x \in Requests :
           IF x = flight[t] \/ (req[x].pc = "follow" /\ req[x].tenant = t)
           THEN req'[x] = Result(t, o, e) ELSE req'[x] = req[x]
  BY DEF TypeOK, Deliver
<1>2. Result(t, o, e).pc \notin Leading \cup {"follow"}
  BY DEF Result, Leading
<1>3. ASSUME NEW x \in Requests, req'[x].pc \in Leading \cup {"follow"}
      PROVE  /\ req'[x] = req[x] /\ x # flight[t] /\ req[x].tenant \in Tenants
             /\ ~(req[x].pc = "follow" /\ req[x].tenant = t)
  BY <1>1, <1>2, <1>3 DEF WellFormed, CallOK
<1>4. ASSUME NEW x \in Requests, req'[x].pc \in Leading
      PROVE  flight'[req'[x].tenant] = x
  BY <1>1, <1>3, <1>4 DEF SingleFlight
<1>5. ASSUME NEW x \in Requests, req'[x].pc = "follow"
      PROVE  flight'[req'[x].tenant] # NoReq
  BY <1>1, <1>3, <1>5 DEF SingleFlight
<1>6. ASSUME NEW u \in Tenants, flight'[u] # NoReq
      PROVE  req'[flight'[u]].pc \in Leading /\ req'[flight'[u]].tenant = u
  <2>1. u # t /\ flight'[u] = flight[u] /\ flight[u] \in Requests
    BY <1>1, <1>6
  <2>2. req[flight[u]].pc \in Leading /\ req[flight[u]].tenant = u
    BY <1>6, <2>1 DEF SingleFlight
  <2>3. flight[u] # flight[t]
    BY <2>1, <2>2, NoReqAssumption DEF SingleFlight
  <2>4. QED
    BY <1>1, <2>1, <2>2, <2>3
<1>7. QED
  BY <1>4, <1>5, <1>6 DEF SingleFlight

\* A call that neither leads nor follows, before and after, is no part of a flight.
LEMMA FlightOthers ==
    ASSUME TypeOK, SingleFlight, UNCHANGED flight, NEW r \in Requests,
           \A x \in Requests \ {r} : req'[x] = req[x],
           req[r].pc \notin Leading, req'[r].pc \notin Leading \cup {"follow"}
    PROVE  SingleFlight'
<1>1. \A t \in Tenants : flight[t] # NoReq => flight[t] \in Requests \ {r}
  BY DEF SingleFlight, TypeOK
<1>2. QED
  BY <1>1 DEF SingleFlight, Leading

\* A leader that goes on leading.
LEMMA FlightLeader ==
    ASSUME TypeOK, SingleFlight, UNCHANGED flight, NEW r \in Requests,
           \A x \in Requests \ {r} : req'[x] = req[x],
           req[r].pc \in Leading, req'[r].pc \in Leading, req'[r].tenant = req[r].tenant
    PROVE  SingleFlight'
<1>1. \A t \in Tenants : flight[t] # NoReq => flight[t] \in Requests
  BY DEF TypeOK
<1>2. \A x \in Requests : /\ req'[x].tenant = req[x].tenant
                          /\ req'[x].pc \in Leading <=> req[x].pc \in Leading
                          /\ req'[x].pc = "follow" => req[x].pc = "follow"
  BY DEF Leading
<1>3. QED
  BY <1>1, <1>2 DEF SingleFlight

LEMMA FlightStep ==
    TypeOK /\ WellFormed /\ SingleFlight /\ [Next]_vars => SingleFlight'
<1> SUFFICES ASSUME TypeOK, WellFormed, SingleFlight, [Next]_vars PROVE SingleFlight'
  OBVIOUS
<1>1. CASE UNCHANGED <<flight, req>>
  BY <1>1 DEF SingleFlight
<1>2. ASSUME NEW r \in Requests, TenantPolicyForInvalid(r) PROVE SingleFlight'
  <2>1. req' = [req EXCEPT ![r] = Result(NoTenant, NoObj, "notfound")] /\ req[r].pc = "idle"
        /\ UNCHANGED flight
    BY <1>2 DEF TenantPolicyForInvalid
  <2>2. req'[r].pc = "fail" /\ \A x \in Requests \ {r} : req'[x] = req[x]
    BY <2>1 DEF TypeOK, Result
  <2>3. QED
    BY <2>1, <2>2, FlightOthers DEF Leading
<1>3. ASSUME NEW r \in Requests, NEW t \in Tenants, TenantPolicyFor(r, t) PROVE SingleFlight'
  <2>1. req[r].pc = "idle" /\ UNCHANGED flight
    BY <1>3 DEF TenantPolicyFor
  <2>2. req'[r].pc \in {"have", "miss"} /\ \A x \in Requests \ {r} : req'[x] = req[x]
    <3>1. req \in [Requests -> Call]
      BY DEF TypeOK
    <3>2. CASE cache[t] # NoObj
      BY <1>3, <3>1, <3>2 DEF TenantPolicyFor, Result
    <3>3. CASE cache[t] = NoObj
      BY <1>3, <3>1, <3>3 DEF TenantPolicyFor, IdleCall
    <3>4. QED
      BY <3>2, <3>3
  <2>3. QED
    BY <2>1, <2>2, FlightOthers DEF Leading
<1>4. ASSUME NEW r \in Requests, GroupDo(r) PROVE SingleFlight'
  <2>1. PICK t \in Tenants : t = req[r].tenant
    BY <1>4 DEF GroupDo, WellFormed, CallOK
  <2>2. req[r].pc = "miss" /\ \A x \in Requests \ {r} : req'[x] = req[x]
    BY <1>4 DEF GroupDo, TypeOK
  <2>3. \A u \in Tenants : flight[u] # NoReq => flight[u] \in Requests \ {r}
    <3>1. flight \in [Tenants -> Requests \cup {NoReq}]
      BY DEF TypeOK
    <3>2. QED
      BY <2>2, <3>1 DEF SingleFlight, Leading
  <2>4. CASE flight[t] = NoReq
    <3>1. /\ flight' = [flight EXCEPT ![t] = r]
          /\ req'[r].pc = "lead" /\ req'[r].tenant = t
      BY <1>4, <2>1, <2>4 DEF GroupDo, TypeOK, Call
    <3>2. \A u \in Tenants : flight'[u] = IF u = t THEN r ELSE flight[u]
      BY <3>1 DEF TypeOK
    <3>3. \A x \in Requests : req[x].pc \in Leading \cup {"follow"} => req[x].tenant \in Tenants
      BY DEF WellFormed, CallOK
    <3>4. \A x \in Requests \ {r} : req[x].pc \in Leading => req[x].tenant # t
      BY <2>4, NoReqAssumption DEF SingleFlight
    <3>5. QED
      BY <2>2, <2>3, <3>1, <3>2, <3>3, <3>4, NoReqAssumption DEF SingleFlight, Leading
  <2>5. CASE flight[t] # NoReq
    <3>1. UNCHANGED flight /\ req'[r].pc = "follow" /\ req'[r].tenant = t
      BY <1>4, <2>1, <2>5 DEF GroupDo, TypeOK, Call
    <3>2. QED
      BY <2>2, <2>3, <2>5, <3>1 DEF SingleFlight, Leading
  <2>6. QED
    BY <2>4, <2>5
<1>5. ASSUME NEW r \in Requests, SecondLook(r) PROVE SingleFlight'
  <2>1. PICK t \in Tenants : t = req[r].tenant
    BY <1>5 DEF SecondLook, WellFormed, CallOK, Leading
  <2>2. CASE cache[t] # NoObj
    <3>1. PICK o : Deliver(t, o, "none")
      BY <1>5, <2>1, <2>2 DEF SecondLook
    <3>2. QED
      BY <3>1, FlightDeliver
  <2>3. CASE cache[t] = NoObj
    <3>1. /\ UNCHANGED flight /\ req[r].pc = "lead" /\ req'[r].pc = "send"
          /\ req'[r].tenant = req[r].tenant
          /\ \A x \in Requests \ {r} : req'[x] = req[x]
      BY <1>5, <2>1, <2>3 DEF SecondLook, TypeOK, Call
    <3>2. QED
      BY <3>1, FlightLeader DEF Leading
  <2>4. QED
    BY <2>2, <2>3
<1>6. ASSUME NEW r \in Requests, SendJob(r) PROVE SingleFlight'
  <2>1. /\ UNCHANGED flight /\ req[r].pc = "send" /\ req'[r].pc = "wait"
        /\ req'[r].tenant = req[r].tenant
        /\ \A x \in Requests \ {r} : req'[x] = req[x]
    BY <1>6 DEF SendJob, TypeOK, Call
  <2>2. QED
    BY <2>1, FlightLeader DEF Leading
<1>7. ASSUME NEW r \in Requests, SendOnClosed(r) \/ TakeAnswer(r) \/ LoadTimeout(r)
      PROVE  SingleFlight'
  <2>1. PICK t \in Tenants : t = req[r].tenant
    BY <1>7 DEF SendOnClosed, TakeAnswer, LoadTimeout, WellFormed, CallOK, Leading
  <2>2. PICK o, e : Deliver(t, o, e)
    BY <1>7, <2>1 DEF SendOnClosed, TakeAnswer, LoadTimeout
  <2>3. QED
    BY <2>2, FlightDeliver
<1>8. ASSUME NEW r \in Requests, Decide(r) PROVE SingleFlight'
  <2>1. req' = [req EXCEPT ![r] = IdleCall] /\ req[r].pc \in {"have", "fail"} /\ UNCHANGED flight
    BY <1>8 DEF Decide
  <2>2. req'[r].pc = "idle" /\ \A x \in Requests \ {r} : req'[x] = req[x]
    BY <2>1 DEF TypeOK, IdleCall
  <2>3. QED
    BY <2>1, <2>2, FlightOthers DEF Leading
<1>9. ASSUME \/ HelperPanic \/ Close \/ \E j \in Jobs : HelperSend(j)
             \/ \E w \in Workers : WorkerQuiet(w) \/ WorkerLoad(w)
             \/ \E k \in Reloads : ReloadLoad(k) \/ ReloadQuiet(k) \/ \E t \in Tenants : ReloadTenant(k, t)
             \/ \E t \in Tenants : Publish(t) \/ Unpublish(t)
             \/ UNCHANGED vars
      PROVE  UNCHANGED <<flight, req>>
  BY <1>9 DEF HelperPanic, Close, HelperSend, WorkerQuiet, WorkerTake, WorkerLoad, WorkerInsert,
     WorkerReply, WorkerExit, ReloadLoad, ReloadQuiet, ReloadLookup, ReloadSwap, ReloadInsert,
     ReloadTenant, Publish, Unpublish, vars
<1>10. QED
  BY <1>1, <1>2, <1>3, <1>4, <1>5, <1>6, <1>7, <1>8, <1>9 DEF Next, ServeNext, RequestStep

\* group.Do: one leader for the misses of a tenant, and nobody left waiting for a flight
\* that has ended, whichever of answers, timeouts and panics ended it.
THEOREM OneFlightPerTenant == Spec => []SingleFlight
<1>1. Init => SingleFlight
  BY DEF Init, SingleFlight, IdleCall, Leading
<1>2. QED
  BY <1>1, FlightStep, TypeCorrect, PTL DEF Spec
-----------------------------------------------------------------------------
(* The jobs *)

\* No job is twice in a queue.
Once(s) == \A i, j \in 1 .. Len(s) : s[i] = s[j] => i = j

TakenJobs == {worker[w].job : w \in Workers} \ {NoJob}

\* A job has been sent and not been answered.
UnderWay == Elems(loadCh) \cup Elems(sendq) \cup helpers \cup TakenJobs

\* The places a job can be at exclude each other.
PlacesApart ==
    /\ Once(loadCh) /\ Once(sendq)
    /\ Elems(loadCh) \cap Elems(sendq) = {}
    /\ Elems(loadCh) \cap helpers = {}
    /\ Elems(sendq) \cap helpers = {}
    /\ TakenJobs \cap (Elems(loadCh) \cup Elems(sendq) \cup helpers) = {}
    /\ \A v, w \in Workers : worker[v].job = worker[w].job => v = w \/ worker[v].job = NoJob

\* What is under way is not answered, and what a leader waits for is one or the other.
AnswersOnce ==
    /\ \A j \in UnderWay : ~job[j].done
    /\ \A r \in Requests : req[r].pc = "wait" => job[req[r].job].done \/ req[r].job \in UnderWay

JobInv == PlacesApart /\ AnswersOnce

LEMMA OnceAppend ==
    ASSUME NEW S, NEW s \in Seq(S), NEW x \in S, x \notin Elems(s), Once(s)
    PROVE  Once(Append(s, x))
<1>1. /\ Len(Append(s, x)) = Len(s) + 1 /\ Len(s) \in Nat
      /\ \A i \in 1 .. Len(s) : Append(s, x)[i] = s[i]
      /\ Append(s, x)[Len(s) + 1] = x
  OBVIOUS
<1>2. QED
  BY <1>1 DEF Once, Elems

LEMMA OnceTail ==
    ASSUME NEW S, NEW s \in Seq(S), s # <<>>, Once(s)
    PROVE  /\ Once(Tail(s)) /\ Tail(s) \in Seq(S) /\ Head(s) \in S
           /\ Elems(Tail(s)) = Elems(s) \ {Head(s)} /\ Head(s) \in Elems(s)
<1>1. /\ Tail(s) \in Seq(S)
      /\ Len(s) \in Nat \ {0}
      /\ Len(Tail(s)) = Len(s) - 1
      /\ Head(s) = s[1] /\ Head(s) \in S
      /\ \A i \in 1 .. Len(s) - 1 : Tail(s)[i] = s[i + 1]
  OBVIOUS
<1>2. Once(Tail(s))
  BY <1>1 DEF Once
<1>3. \A y \in Elems(Tail(s)) : y \in Elems(s) \ {Head(s)}
  BY <1>1 DEF Elems, Once
<1>4. \A y \in Elems(s) \ {Head(s)} : y \in Elems(Tail(s))
  <2> SUFFICES ASSUME NEW i \in 1 .. Len(s), s[i] # Head(s) PROVE s[i] \in Elems(Tail(s))
    BY Zenon DEF Elems
  <2>1. i - 1 \in 1 .. Len(Tail(s)) /\ Tail(s)[i - 1] = s[i]
    BY <1>1
  <2>2. QED
    BY <2>1 DEF Elems
<1>5. Head(s) \in Elems(s)
  BY <1>1 DEF Elems
<1>6. QED
  BY <1>1, <1>2, <1>3, <1>4, <1>5

\* Whatever is under way is a job in use.
LEMMA UnderWayUsed == TypeOK => UnderWay \subseteq UsedJobs /\ UnderWay \subseteq Jobs
<1> SUFFICES ASSUME TypeOK PROVE UnderWay \subseteq UsedJobs /\ UnderWay \subseteq Jobs
  OBVIOUS
<1>1. UnderWay \subseteq UsedJobs
  BY DEF UnderWay, TakenJobs, UsedJobs
<1>2. NoJob \notin Elems(loadCh) /\ NoJob \notin Elems(sendq) /\ NoJob \notin helpers
  BY ElemsType, ConstantTypes DEF TypeOK
<1>3. QED
  BY <1>1, <1>2, UsedJobsType DEF UnderWay, TakenJobs

\* A step that leaves every job where it is and as it is.
LEMMA JobsStay ==
    ASSUME TypeOK, TypeOK', WellFormed', JobInv, UNCHANGED <<loadCh, sendq, helpers>>,
           \A w \in Workers : worker'[w].job = worker[w].job,
           \A j \in UsedJobs' : j \in Jobs => job'[j].done = job[j].done,
           \A r \in Requests : req'[r].pc = "wait" => req[r].pc = "wait" /\ req'[r].job = req[r].job
    PROVE  JobInv'
<1>1. TakenJobs' = TakenJobs
  BY DEF TakenJobs
<1>2. PlacesApart'
  BY <1>1 DEF JobInv, PlacesApart, Once
<1>3. UnderWay' = UnderWay
  BY <1>1 DEF UnderWay
<1>4. (UnderWay \subseteq UsedJobs /\ UnderWay \subseteq Jobs)'
  BY UnderWayUsed, PTL
<1>5. \A r \in Requests : req'[r].pc = "wait" => req'[r].job \in UsedJobs' /\ req'[r].job \in Jobs
  BY DEF UsedJobs, WellFormed, CallOK, TypeOK, Call
<1>6. AnswersOnce'
  BY <1>3, <1>4, <1>5 DEF JobInv, AnswersOnce
<1>7. QED
  BY <1>2, <1>6 DEF JobInv
\* The queues, as far as the proofs need their types.
LEMMA QueuesAre ==
    ASSUME TypeOK
    PROVE  /\ loadCh \in Seq(Jobs) /\ sendq \in Seq(Jobs) /\ helpers \subseteq Jobs
           /\ Elems(loadCh) \subseteq Jobs /\ Elems(sendq) \subseteq Jobs
           /\ worker \in [Workers -> WorkerState] /\ req \in [Requests -> Call]
           /\ job \in [Jobs -> Job]
BY ElemsType DEF TypeOK

LEMMA SendJobJobs ==
    ASSUME TypeOK, WellFormed, TypeOK', JobInv, NEW r \in Requests, SendJob(r)
    PROVE  JobInv'
<1>1. PICK j \in Jobs :
        /\ FreshJob(j)
        /\ req' = [req EXCEPT ![r].pc = "wait", ![r].job = j]
        /\ IF Len(loadCh) < CacheSize
           THEN loadCh' = Append(loadCh, j) /\ UNCHANGED helpers
           ELSE helpers' = helpers \cup {j} /\ UNCHANGED loadCh
        /\ UNCHANGED <<sendq, worker>>
        /\ JobsAre([job EXCEPT ![j] = NewJob(req[r].tenant)])
  BY DEF SendJob
<1>2. PICK jb : jb = [job EXCEPT ![j] = NewJob(req[r].tenant)]
  OBVIOUS
<1>3. j \notin UsedJobs /\ j \notin UnderWay
  BY <1>1, UnderWayUsed DEF FreshJob
<1>4. j \notin Elems(loadCh) /\ j \notin Elems(sendq) /\ j \notin helpers /\ j \notin TakenJobs
  BY <1>3 DEF UnderWay
<1>5. TakenJobs' = TakenJobs /\ Elems(sendq') = Elems(sendq)
  BY <1>1 DEF TakenJobs
<1>6. PlacesApart' /\ UnderWay' = UnderWay \cup {j}
  <2>1. CASE Len(loadCh) < CacheSize
    <3>1. loadCh' = Append(loadCh, j) /\ UNCHANGED helpers
      BY <1>1, <2>1
    <3>2. Elems(loadCh') = Elems(loadCh) \cup {j} /\ Once(loadCh')
      BY <1>4, <3>1, ElemsAppend, OnceAppend, QueuesAre DEF JobInv, PlacesApart
    <3>3. PlacesApart'
      BY <1>1, <1>4, <1>5, <3>1, <3>2 DEF JobInv, PlacesApart
    <3>4. QED
      BY <1>5, <3>1, <3>2, <3>3 DEF UnderWay
  <2>2. CASE ~(Len(loadCh) < CacheSize)
    <3>1. helpers' = helpers \cup {j} /\ UNCHANGED loadCh
      BY <1>1, <2>2
    <3>2. PlacesApart'
      BY <1>1, <1>4, <1>5, <3>1 DEF JobInv, PlacesApart
    <3>3. QED
      BY <1>5, <3>1, <3>2 DEF UnderWay
  <2>3. QED
    BY <2>1, <2>2
<1>7. /\ req'[r].job = j
      /\ \A x \in Requests \ {r} : req'[x] = req[x]
  BY <1>1, QueuesAre DEF Call
<1>8. /\ ~jb[j].done
      /\ \A i \in Jobs \ {j} : jb[i] = job[i]
  BY <1>2, QueuesAre DEF NewJob, FreeJob
<1>9. \A i \in Jobs : i \in UsedJobs' => job'[i] = jb[i]
  BY <1>1, <1>2 DEF JobsAre
<1>10. (UnderWay \subseteq UsedJobs /\ UnderWay \subseteq Jobs)'
  BY UnderWayUsed, PTL
<1>11. \A i \in UnderWay' : ~job'[i].done
  BY <1>6, <1>8, <1>9, <1>10 DEF JobInv, AnswersOnce
<1>12. ASSUME NEW x \in Requests, req'[x].pc = "wait"
       PROVE  job'[req'[x].job].done \/ req'[x].job \in UnderWay'
  <2>1. CASE x = r
    BY <1>6, <1>7, <2>1
  <2>2. CASE x # r
    <3>1. req'[x] = req[x] /\ req[x].pc = "wait"
      BY <1>7, <1>12, <2>2
    <3>2. req[x].job \in Jobs /\ req[x].job \in UsedJobs /\ req'[x].job \in UsedJobs'
      BY <3>1, QueuesAre DEF WellFormed, CallOK, Call, UsedJobs
    <3>3. job'[req[x].job] = job[req[x].job]
      BY <1>3, <1>8, <1>9, <3>1, <3>2
    <3>4. QED
      BY <1>6, <3>1, <3>3 DEF JobInv, AnswersOnce
  <2>3. QED
    BY <2>1, <2>2
<1>13. QED
  BY <1>6, <1>11, <1>12 DEF JobInv, AnswersOnce

\* A step that moves a job from one place to another.
LEMMA JobMoves ==
    ASSUME JobInv, PlacesApart', UnderWay' = UnderWay, UNCHANGED <<job, req>>
    PROVE  JobInv'
BY DEF JobInv, AnswersOnce

LEMMA HelperSendJobs ==
    ASSUME TypeOK, JobInv, NEW j \in Jobs, HelperSend(j)
    PROVE  JobInv'
<1>1. /\ j \in helpers /\ helpers' = helpers \ {j}
      /\ UNCHANGED <<job, req, worker>>
  BY DEF HelperSend
<1>2. TakenJobs' = TakenJobs
  BY <1>1 DEF TakenJobs
<1>3. j \notin Elems(loadCh) /\ j \notin Elems(sendq) /\ j \notin TakenJobs
  BY <1>1 DEF JobInv, PlacesApart
<1>4. PlacesApart' /\ UnderWay' = UnderWay
  <2>1. CASE Len(loadCh) < CacheSize
    <3>1. loadCh' = Append(loadCh, j) /\ UNCHANGED sendq
      BY <2>1 DEF HelperSend
    <3>2. Elems(loadCh') = Elems(loadCh) \cup {j} /\ Once(loadCh')
      BY <1>3, <3>1, ElemsAppend, OnceAppend, QueuesAre DEF JobInv, PlacesApart
    <3>3. PlacesApart'
      BY <1>1, <1>2, <1>3, <3>1, <3>2 DEF JobInv, PlacesApart
    <3>4. QED
      BY <1>1, <1>2, <3>1, <3>2, <3>3 DEF UnderWay
  <2>2. CASE ~(Len(loadCh) < CacheSize)
    <3>1. sendq' = Append(sendq, j) /\ UNCHANGED loadCh
      BY <2>2 DEF HelperSend
    <3>2. Elems(sendq') = Elems(sendq) \cup {j} /\ Once(sendq')
      BY <1>3, <3>1, ElemsAppend, OnceAppend, QueuesAre DEF JobInv, PlacesApart
    <3>3. PlacesApart'
      BY <1>1, <1>2, <1>3, <3>1, <3>2 DEF JobInv, PlacesApart
    <3>4. QED
      BY <1>1, <1>2, <3>1, <3>2, <3>3 DEF UnderWay
  <2>3. QED
    BY <2>1, <2>2
<1>5. QED
  BY <1>1, <1>4, JobMoves

LEMMA WorkerTakeJobs ==
    ASSUME TypeOK, WellFormed, JobInv, NEW w \in Workers, WorkerTake(w)
    PROVE  JobInv'
<1>1. /\ worker[w].pc = "idle" /\ loadCh # <<>>
      /\ worker' = [worker EXCEPT ![w] = [IdleWorker EXCEPT !.pc = "load", !.job = Head(loadCh)]]
      /\ UNCHANGED <<job, req, helpers>>
  BY DEF WorkerTake
<1>2. PICK j : j = Head(loadCh)
  OBVIOUS
<1>3. /\ Once(Tail(loadCh)) /\ Tail(loadCh) \in Seq(Jobs) /\ j \in Jobs
      /\ Elems(Tail(loadCh)) = Elems(loadCh) \ {j} /\ j \in Elems(loadCh)
  BY <1>1, <1>2, OnceTail, QueuesAre DEF JobInv, PlacesApart
<1>4. worker[w].job = NoJob /\ worker'[w].job = j /\ j # NoJob
  BY <1>1, <1>2, <1>3, QueuesAre, ConstantTypes DEF WellFormed, WorkerOK
<1>5. \A v \in Workers \ {w} : worker'[v] = worker[v]
  BY <1>1, QueuesAre
<1>6. TakenJobs' = TakenJobs \cup {j}
  BY <1>4, <1>5 DEF TakenJobs
<1>7. j \notin TakenJobs /\ j \notin Elems(sendq) /\ j \notin helpers
  BY <1>3 DEF JobInv, PlacesApart
<1>8. \A u, v \in Workers : worker'[u].job = worker'[v].job => u = v \/ worker'[u].job = NoJob
  <2>1. \A v \in Workers \ {w} : worker[v].job # j
    BY <1>4, <1>7 DEF TakenJobs
  <2>2. QED
    BY <1>4, <1>5, <2>1 DEF JobInv, PlacesApart
<1>9. PlacesApart' /\ UnderWay' = UnderWay
  <2>1. CASE sendq = <<>> \/ status = "closed"
    <3>1. loadCh' = Tail(loadCh) /\ UNCHANGED sendq
      BY <2>1 DEF WorkerTake
    <3>2. PlacesApart'
      BY <1>1, <1>3, <1>6, <1>7, <1>8, <3>1 DEF JobInv, PlacesApart
    <3>3. QED
      BY <1>1, <1>3, <1>6, <3>1, <3>2 DEF UnderWay
  <2>2. CASE ~(sendq = <<>> \/ status = "closed")
    <3>1. PICK i : i = Head(sendq)
      OBVIOUS
    <3>2. loadCh' = Append(Tail(loadCh), i) /\ sendq' = Tail(sendq)
      BY <2>2, <3>1 DEF WorkerTake
    <3>3. /\ Once(sendq') /\ i \in Jobs
          /\ Elems(sendq') = Elems(sendq) \ {i} /\ i \in Elems(sendq)
      BY <2>2, <3>1, <3>2, OnceTail, QueuesAre DEF JobInv, PlacesApart
    <3>4. i \notin Elems(loadCh) /\ i \notin helpers /\ i \notin TakenJobs /\ i # j
      BY <1>7, <3>3 DEF JobInv, PlacesApart
    <3>5. Elems(loadCh') = (Elems(loadCh) \ {j}) \cup {i} /\ Once(loadCh')
      <4>1. PICK s \in Seq(Jobs) : s = Tail(loadCh)
        BY <1>3
      <4>2. i \notin Elems(s) /\ Once(s) /\ Elems(s) = Elems(loadCh) \ {j}
        BY <1>3, <3>4, <4>1
      <4>3. Elems(Append(s, i)) = Elems(s) \cup {i} /\ Once(Append(s, i))
        BY <3>3, <4>2, ElemsAppend, OnceAppend
      <4>4. loadCh' = Append(s, i)
        BY <3>2, <4>1
      <4>5. QED
        BY <4>2, <4>3, <4>4
    <3>6. PlacesApart'
      BY <1>1, <1>3, <1>6, <1>7, <1>8, <3>3, <3>4, <3>5 DEF JobInv, PlacesApart
    <3>7. QED
      BY <1>1, <1>3, <1>6, <3>3, <3>5, <3>6 DEF UnderWay
  <2>3. QED
    BY <2>1, <2>2
<1>10. QED
  BY <1>1, <1>9, JobMoves

LEMMA WorkerReplyJobs ==
    ASSUME TypeOK, WellFormed, TypeOK', JobInv, NEW w \in Workers, WorkerReply(w)
    PROVE  JobInv'
<1>1. PICK j \in Jobs : j = worker[w].job /\ j # NoJob
  BY ConstantTypes, QueuesAre DEF WorkerReply, WellFormed, WorkerOK, WorkerState
<1>2. PICK jb : jb = [job EXCEPT ![j].done = TRUE, ![j].obj = worker[w].obj,
                                 ![j].err = worker[w].err]
  OBVIOUS
<1>3. /\ worker' = [worker EXCEPT ![w] = IdleWorker]
      /\ UNCHANGED <<loadCh, sendq, helpers, req>>
      /\ JobsAre(jb)
  BY <1>1, <1>2 DEF WorkerReply
<1>4. worker'[w].job = NoJob /\ \A v \in Workers \ {w} : worker'[v] = worker[v]
  BY <1>3, QueuesAre DEF IdleWorker
<1>5. TakenJobs' = TakenJobs \ {j}
  BY <1>1, <1>4 DEF TakenJobs, JobInv, PlacesApart
<1>6. PlacesApart'
  BY <1>3, <1>4, <1>5 DEF JobInv, PlacesApart
<1>7. j \in TakenJobs
  BY <1>1 DEF TakenJobs
<1>8. UnderWay' = UnderWay \ {j}
  BY <1>3, <1>5, <1>7 DEF UnderWay, JobInv, PlacesApart
<1>9. jb[j].done /\ \A i \in Jobs \ {j} : jb[i] = job[i]
  BY <1>1, <1>2, QueuesAre DEF Job
<1>10. \A i \in Jobs : i \in UsedJobs' => job'[i] = jb[i]
  BY <1>3 DEF JobsAre
<1>11. (UnderWay \subseteq UsedJobs /\ UnderWay \subseteq Jobs)'
  BY UnderWayUsed, PTL
<1>12. \A i \in UnderWay' : ~job'[i].done
  BY <1>8, <1>9, <1>10, <1>11 DEF JobInv, AnswersOnce
<1>13. ASSUME NEW r \in Requests, req'[r].pc = "wait"
       PROVE  job'[req'[r].job].done \/ req'[r].job \in UnderWay'
  <2>1. req'[r] = req[r] /\ req[r].job \in Jobs /\ req'[r].job \in UsedJobs'
    BY <1>3, <1>13, QueuesAre DEF WellFormed, CallOK, Call, UsedJobs
  <2>2. QED
    BY <1>3, <1>8, <1>9, <1>10, <1>13, <2>1 DEF JobInv, AnswersOnce
<1>14. QED
  BY <1>6, <1>12, <1>13 DEF JobInv, AnswersOnce
\* Only SendJob makes a call wait for a job.
LEMMA NoNewJob ==
    ASSUME TypeOK, NEW r \in Requests,
           \/ TenantPolicyForInvalid(r) \/ GroupDo(r) \/ SecondLook(r)
           \/ SendOnClosed(r) \/ Decide(r)
           \/ \E t \in Tenants : TenantPolicyFor(r, t)
    PROVE  \A x \in Requests : req'[x].pc = "wait" => req'[x] = req[x]
<1>1. CASE TenantPolicyForInvalid(r)
  BY <1>1, QueuesAre DEF TenantPolicyForInvalid, Result
<1>2. CASE GroupDo(r)
  BY <1>2, QueuesAre DEF GroupDo, Call
<1>3. CASE SecondLook(r)
  BY <1>3, QueuesAre DEF SecondLook, Call, Deliver, Result
<1>4. CASE SendOnClosed(r)
  BY <1>4, QueuesAre DEF SendOnClosed, Deliver, Result
<1>5. CASE Decide(r)
  BY <1>5, QueuesAre DEF Decide, IdleCall
<1>6. ASSUME NEW t \in Tenants, TenantPolicyFor(r, t)
      PROVE  \A x \in Requests : req'[x].pc = "wait" => req'[x] = req[x]
  <2>1. \/ req' = [req EXCEPT ![r] = Result(t, cache[t], "none")]
        \/ req' = [req EXCEPT ![r] = [IdleCall EXCEPT !.pc = "miss", !.tenant = t]]
    BY <1>6, Zenon DEF TenantPolicyFor
  <2>2. /\ Result(t, cache[t], "none").pc # "wait"
        /\ [IdleCall EXCEPT !.pc = "miss", !.tenant = t].pc # "wait"
    BY DEF Result, IdleCall
  <2>3. PICK c : req' = [req EXCEPT ![r] = c] /\ c.pc # "wait"
    BY <2>1, <2>2, Zenon
  <2>4. req \in [Requests -> Call]
    BY QueuesAre
  <2>5. \A x \in Requests : req'[x] = IF x = r THEN c ELSE req[x]
    BY <2>3, <2>4, Zenon
  <2>6. QED
    BY <2>3, <2>5, Zenon
<1>7. QED
  BY <1>1, <1>2, <1>3, <1>4, <1>5, <1>6

LEMMA JobStep ==
    /\ TypeOK /\ WellFormed /\ JobInv /\ [Next]_vars /\ TypeOK' /\ WellFormed'
    => JobInv'
<1> SUFFICES ASSUME TypeOK, WellFormed, JobInv, [Next]_vars, TypeOK', WellFormed'
             PROVE  JobInv'
  OBVIOUS
<1>1. ASSUME NEW r \in Requests, \/ TenantPolicyForInvalid(r) \/ GroupDo(r) \/ SecondLook(r)
                                 \/ SendOnClosed(r) \/ Decide(r)
                                 \/ \E t \in Tenants : TenantPolicyFor(r, t)
      PROVE  JobInv'
  <2>1. UNCHANGED <<loadCh, sendq, helpers, worker, job>>
    BY <1>1 DEF TenantPolicyForInvalid, GroupDo, SecondLook, SendOnClosed, Decide, TenantPolicyFor
  <2>2. \A x \in Requests : req'[x].pc = "wait" => req'[x] = req[x]
    BY <1>1, NoNewJob
  <2>3. QED
    BY <2>1, <2>2, JobsStay
<1>2. ASSUME NEW r \in Requests, TakeAnswer(r) \/ LoadTimeout(r) PROVE JobInv'
  <2>1. UNCHANGED <<loadCh, sendq, helpers, worker>> /\ JobsAre(job)
    BY <1>2 DEF TakeAnswer, LoadTimeout
  <2>2. \A x \in Requests : req'[x].pc = "wait" => req'[x] = req[x]
    BY <1>2, QueuesAre, SMTT(30) DEF TakeAnswer, LoadTimeout, Deliver, Result
  <2>3. \A j \in UsedJobs' : j \in Jobs => job'[j].done = job[j].done
    BY <2>1 DEF JobsAre
  <2>4. QED
    BY <2>1, <2>2, <2>3, JobsStay
<1>3. ASSUME NEW w \in Workers, WorkerLoad(w) \/ WorkerInsert(w) \/ WorkerExit(w) PROVE JobInv'
  <2>1. UNCHANGED <<loadCh, sendq, helpers, job, req>>
    BY <1>3 DEF WorkerLoad, WorkerInsert, WorkerExit
  <2>2. \A v \in Workers : worker'[v].job = worker[v].job
    <3>1. CASE WorkerLoad(w)
      <4>1. \/ \E o \in Objs : worker' = [worker EXCEPT ![w].pc = "loaded", ![w].obj = o]
            \/ \E e : worker' = [worker EXCEPT ![w].pc = "reply", ![w].err = e]
        BY <3>1 DEF WorkerLoad
      <4>2. ASSUME NEW o, worker' = [worker EXCEPT ![w].pc = "loaded", ![w].obj = o]
            PROVE  \A v \in Workers : worker'[v].job = worker[v].job
        BY <4>2, QueuesAre DEF WorkerState
      <4>3. ASSUME NEW e, worker' = [worker EXCEPT ![w].pc = "reply", ![w].err = e]
            PROVE  \A v \in Workers : worker'[v].job = worker[v].job
        BY <4>3, QueuesAre DEF WorkerState
      <4>4. QED
        BY <4>1, <4>2, <4>3
    <3>2. CASE WorkerInsert(w)
      BY <3>2, QueuesAre DEF WorkerInsert, WorkerState
    <3>3. CASE WorkerExit(w)
      BY <3>3, QueuesAre DEF WorkerExit, WorkerState
    <3>4. QED
      BY <1>3, <3>1, <3>2, <3>3
  <2>3. QED
    BY <2>1, <2>2, JobsStay
<1>4. ASSUME \/ HelperPanic \/ Close
             \/ \E k \in Reloads : ReloadLoad(k) \/ ReloadQuiet(k) \/ \E t \in Tenants : ReloadTenant(k, t)
             \/ \E t \in Tenants : Publish(t) \/ Unpublish(t)
             \/ UNCHANGED vars
      PROVE  JobInv'
  <2>1. UNCHANGED <<loadCh, sendq, helpers, job, req, worker>>
    BY <1>4 DEF HelperPanic, Close, ReloadLoad, ReloadQuiet, ReloadLookup, ReloadSwap,
       ReloadInsert, ReloadTenant, Publish, Unpublish, vars
  <2>2. QED
    BY <2>1, JobsStay
<1>5. QED
  BY <1>1, <1>2, <1>3, <1>4, SendJobJobs, HelperSendJobs, WorkerTakeJobs, WorkerReplyJobs
     DEF Next, ServeNext, RequestStep, WorkerQuiet

\* What holds a job once, or not at all, counts one or none.
LEMMA CountOnce ==
    ASSUME NEW S, \A x, y \in S : x = y
    PROVE  Cardinality(S) = IF S = {} THEN 0 ELSE 1
<1>1. CASE S = {}
  BY <1>1, FS_EmptySet
<1>2. CASE S # {}
  <2>1. PICK x : S = {x}
    BY <1>2
  <2>2. QED
    BY <2>1, FS_Singleton
<1>3. QED
  BY <1>1, <1>2

\* Under JobInv a job is at one place while it is under way, and at none otherwise.
LEMMA CountPlaces ==
    ASSUME TypeOK, JobInv, NEW j \in Jobs
    PROVE  Places(j) = IF j \in UnderWay THEN 1 ELSE 0
<1>1. Cardinality({i \in 1 .. Len(loadCh) : loadCh[i] = j}) = IF j \in Elems(loadCh) THEN 1 ELSE 0
  <2>1. PICK S : S = {i \in 1 .. Len(loadCh) : loadCh[i] = j}
    OBVIOUS
  <2>2. \A x, y \in S : x = y
    BY <2>1 DEF JobInv, PlacesApart, Once
  <2>3. S = {} <=> j \notin Elems(loadCh)
    BY <2>1 DEF Elems
  <2>4. QED
    BY <2>1, <2>2, <2>3, CountOnce
<1>2. Cardinality({i \in 1 .. Len(sendq) : sendq[i] = j}) = IF j \in Elems(sendq) THEN 1 ELSE 0
  <2>1. PICK S : S = {i \in 1 .. Len(sendq) : sendq[i] = j}
    OBVIOUS
  <2>2. \A x, y \in S : x = y
    BY <2>1 DEF JobInv, PlacesApart, Once
  <2>3. S = {} <=> j \notin Elems(sendq)
    BY <2>1 DEF Elems
  <2>4. QED
    BY <2>1, <2>2, <2>3, CountOnce
<1>3. Cardinality({w \in Workers : worker[w].job = j}) = IF j \in TakenJobs THEN 1 ELSE 0
  <2>1. PICK S : S = {w \in Workers : worker[w].job = j}
    OBVIOUS
  <2>2. j # NoJob
    BY ConstantTypes
  <2>3. \A x, y \in S : x = y
    BY <2>1, <2>2 DEF JobInv, PlacesApart
  <2>4. S = {} <=> j \notin TakenJobs
    BY <2>1, <2>2 DEF TakenJobs
  <2>5. QED
    BY <2>1, <2>3, <2>4, CountOnce
<1>4. QED
  BY <1>1, <1>2, <1>3 DEF Places, UnderWay, JobInv, PlacesApart

\* loadTenant, loadWorker: a job is sent once, taken once and answered once, for any number
\* of workers and any capacity of the queue.
THEOREM NoJobIsLost == Spec => []NoLostJob
<1>1. Init => JobInv
  BY DEF Init, JobInv, PlacesApart, AnswersOnce, Once, UnderWay, TakenJobs, Elems, IdleCall,
     IdleWorker
<1>2. Init => IsolationInv
  BY DEF Init, IsolationInv, TenantIsolation, WaitsForOwnTenant, IdleCall, IdleWorker,
     IdleReload, FreeJob
<1>3. TypeOK /\ WellFormed /\ JobInv /\ IsolationInv => NoLostJob
  <2> SUFFICES ASSUME TypeOK, WellFormed, JobInv, IsolationInv,
                      NEW r \in Requests, req[r].pc = "wait"
               PROVE  /\ job[req[r].job].tenant = req[r].tenant
                      /\ Places(req[r].job) = (IF job[req[r].job].done THEN 0 ELSE 1)
    BY DEF NoLostJob
  <2>1. PICK j \in Jobs : j = req[r].job
    BY QueuesAre DEF WellFormed, CallOK, Call
  <2>2. j \in UnderWay <=> ~job[j].done
    BY <2>1 DEF JobInv, AnswersOnce
  <2>3. Places(j) = IF j \in UnderWay THEN 1 ELSE 0
    BY CountPlaces
  <2>4. QED
    BY <2>1, <2>2, <2>3 DEF IsolationInv, WaitsForOwnTenant
<1>4. QED
  BY <1>1, <1>2, <1>3, JobStep, IsolationStep, TypeCorrect, PTL DEF Spec
-----------------------------------------------------------------------------
(* The registry implements PolicyService *)

\* A failed load, and a call that has no answer, hold no policy.
CallsClean ==
    /\ \A r \in Requests : /\ req[r].pc = "idle" => req[r] = IdleCall
                           /\ req[r].pc # "have" => req[r].obj = NoObj
    /\ \A w \in Workers : /\ worker[w].pc \in {"load", "loaded"} => worker[w].err = "none"
                          /\ worker[w].pc = "reply" /\ worker[w].err # "none" =>
                               worker[w].obj = NoObj
    /\ \A j \in Jobs : job[j].done /\ job[j].err # "none" => job[j].obj = NoObj

\* A waiting call has been offered what its tenant's entry is.
EntryIsOffered ==
    \A r \in Requests : Waits(r) /\ cache[req[r].tenant] # NoObj =>
        cache[req[r].tenant] \in offered[r]

\* A call that joined a flight has been offered all that the leader was.
FollowersAreOffered ==
    \A r \in Requests : req[r].pc = "follow" => offered[flight[req[r].tenant]] \subseteq offered[r]

\* The answer to a leader's job is one that it was offered, once the worker has cached it.
AnswerIsOffered ==
    /\ \A r \in Requests, w \in Workers :
          /\ req[r].pc = "wait" /\ worker[w].job = req[r].job
          /\ worker[w].pc = "reply" /\ worker[w].err = "none"
          => worker[w].obj \in offered[r]
    /\ \A r \in Requests :
          req[r].pc = "wait" /\ job[req[r].job].done /\ job[req[r].job].err = "none" =>
             job[req[r].job].obj \in offered[r]

OfferedInv == EntryIsOffered /\ FollowersAreOffered /\ AnswerIsOffered

\* A delivery without a policy is a failure, and the other way round.
LEMMA CleanDeliver ==
    ASSUME TypeOK, CallsClean, NEW t \in Tenants, NEW o, NEW e, e # "none" => o = NoObj,
           Deliver(t, o, e)
    PROVE  \A r \in Requests : /\ req'[r].pc = "idle" => req'[r] = IdleCall
                               /\ req'[r].pc # "have" => req'[r].obj = NoObj
<1> SUFFICES ASSUME NEW r \in Requests
             PROVE  /\ req'[r].pc = "idle" => req'[r] = IdleCall
                    /\ req'[r].pc # "have" => req'[r].obj = NoObj
  OBVIOUS
<1>1. CASE req'[r] = req[r]
  BY <1>1 DEF CallsClean
<1>2. CASE req'[r] = Result(t, o, e)
  BY <1>2 DEF Result
<1>3. QED
  BY <1>1, <1>2, QueuesAre DEF Deliver

\* A step of one call that gives it no policy.
LEMMA CleanCall ==
    ASSUME CallsClean, NEW r \in Requests, \A x \in Requests \ {r} : req'[x] = req[x],
           req'[r].pc = "idle" => req'[r] = IdleCall,
           req'[r].pc # "have" => req'[r].obj = NoObj,
           UNCHANGED <<worker, job>>
    PROVE  CallsClean'
BY DEF CallsClean

LEMMA CleanStep ==
    TypeOK /\ WellFormed /\ CallsClean /\ [Next]_vars => CallsClean'
<1> SUFFICES ASSUME TypeOK, WellFormed, CallsClean, [Next]_vars PROVE CallsClean'
  OBVIOUS
<1>1. ASSUME NEW r \in Requests, TenantPolicyForInvalid(r) PROVE CallsClean'
  <2>1. /\ req'[r] = Result(NoTenant, NoObj, "notfound") /\ UNCHANGED <<worker, job>>
        /\ \A x \in Requests \ {r} : req'[x] = req[x]
    BY <1>1, QueuesAre DEF TenantPolicyForInvalid
  <2>2. QED
    BY <2>1, CleanCall DEF Result
<1>2. ASSUME NEW r \in Requests, NEW t \in Tenants, TenantPolicyFor(r, t) PROVE CallsClean'
  <2>1. UNCHANGED <<worker, job>> /\ \A x \in Requests \ {r} : req'[x] = req[x]
    BY <1>2, QueuesAre DEF TenantPolicyFor
  <2>2. CASE cache[t] # NoObj
    <3>1. req'[r] = Result(t, cache[t], "none")
      BY <1>2, <2>2, QueuesAre DEF TenantPolicyFor
    <3>2. QED
      BY <2>1, <3>1, CleanCall DEF Result
  <2>3. CASE cache[t] = NoObj
    <3>1. req'[r] = [IdleCall EXCEPT !.pc = "miss", !.tenant = t]
      BY <1>2, <2>3, QueuesAre DEF TenantPolicyFor
    <3>2. QED
      BY <2>1, <3>1, CleanCall DEF IdleCall
  <2>4. QED
    BY <2>2, <2>3
<1>3. ASSUME NEW r \in Requests, NEW s \in {"lead", "follow", "send"},
             req' = [req EXCEPT ![r].pc = s], req[r].pc \in {"miss", "lead"},
             UNCHANGED <<worker, job>>
      PROVE  CallsClean'
  <2>1. /\ req'[r].pc = s /\ req'[r].obj = req[r].obj
        /\ \A x \in Requests \ {r} : req'[x] = req[x]
    BY <1>3, QueuesAre DEF Call
  <2>2. req[r].obj = NoObj
    BY <1>3 DEF CallsClean
  <2>3. QED
    BY <1>3, <2>1, <2>2, CleanCall
<1>4. ASSUME NEW r \in Requests, GroupDo(r) PROVE CallsClean'
  BY <1>3, <1>4 DEF GroupDo
<1>5. ASSUME NEW r \in Requests, NEW o, NEW e, e # "none" => o = NoObj,
             req[r].pc \in Leading, Deliver(req[r].tenant, o, e), UNCHANGED worker,
             UNCHANGED job \/ JobsAre(job)
      PROVE  CallsClean'
  <2>1. PICK t \in Tenants : t = req[r].tenant
    BY <1>5 DEF WellFormed, CallOK
  <2>2. \A x \in Requests : /\ req'[x].pc = "idle" => req'[x] = IdleCall
                            /\ req'[x].pc # "have" => req'[x].obj = NoObj
    BY <1>5, <2>1, CleanDeliver
  <2>3. \A j \in Jobs : job'[j] = job[j] \/ job'[j] = FreeJob
    BY <1>5 DEF JobsAre
  <2>4. QED
    BY <1>5, <2>2, <2>3 DEF CallsClean, FreeJob
<1>6. ASSUME NEW r \in Requests, SecondLook(r) PROVE CallsClean'
  BY <1>3, <1>5, <1>6 DEF SecondLook, Leading
<1>7. ASSUME NEW r \in Requests, SendOnClosed(r) \/ LoadTimeout(r) PROVE CallsClean'
  BY <1>5, <1>7 DEF SendOnClosed, LoadTimeout, Leading
<1>8. ASSUME NEW r \in Requests, TakeAnswer(r) PROVE CallsClean'
  <2>1. req[r].job \in Jobs
    BY <1>8, QueuesAre DEF TakeAnswer, WellFormed, CallOK, Call
  <2>2. job[req[r].job].err # "none" => job[req[r].job].obj = NoObj
    BY <1>8, <2>1 DEF TakeAnswer, CallsClean
  <2>3. QED
    BY <1>5, <1>8, <2>2 DEF TakeAnswer, Leading
<1>9. ASSUME NEW r \in Requests, SendJob(r) PROVE CallsClean'
  <2>1. PICK j \in Jobs : /\ req' = [req EXCEPT ![r].pc = "wait", ![r].job = j]
                          /\ JobsAre([job EXCEPT ![j] = NewJob(req[r].tenant)])
                          /\ UNCHANGED worker /\ req[r].pc = "send"
    BY <1>9 DEF SendJob
  <2>2. /\ req'[r].pc = "wait" /\ req'[r].obj = req[r].obj
        /\ \A x \in Requests \ {r} : req'[x] = req[x]
    BY <2>1, QueuesAre DEF Call
  <2>3. \A i \in Jobs : job'[i] = job[i] \/ job'[i] = FreeJob \/ job'[i] = NewJob(req[r].tenant)
    BY <2>1, QueuesAre DEF JobsAre
  <2>4. \A i \in Jobs : job'[i].done => job'[i] = job[i]
    BY <2>3 DEF FreeJob, NewJob
  <2>5. QED
    BY <2>1, <2>2, <2>4 DEF CallsClean
<1>10. ASSUME NEW r \in Requests, Decide(r) PROVE CallsClean'
  <2>1. /\ req'[r] = IdleCall /\ UNCHANGED <<worker, job>>
        /\ \A x \in Requests \ {r} : req'[x] = req[x]
    BY <1>10, QueuesAre DEF Decide
  <2>2. QED
    BY <2>1, CleanCall DEF IdleCall
<1>11. ASSUME NEW w \in Workers, UNCHANGED <<req, job>>,
              \A v \in Workers \ {w} : worker'[v] = worker[v],
              worker'[w].pc \in {"load", "loaded"} => worker'[w].err = "none",
              worker'[w].pc = "reply" /\ worker'[w].err # "none" => worker'[w].obj = NoObj
       PROVE  CallsClean'
  BY <1>11 DEF CallsClean
<1>12. ASSUME NEW w \in Workers, WorkerTake(w) PROVE CallsClean'
  <2>1. /\ worker'[w].err = "none" /\ UNCHANGED <<req, job>>
        /\ \A v \in Workers \ {w} : worker'[v] = worker[v]
    BY <1>12, QueuesAre DEF WorkerTake, IdleWorker
  <2>2. QED
    BY <1>11, <2>1
<1>13. ASSUME NEW w \in Workers, WorkerLoad(w) PROVE CallsClean'
  <2>1. worker[w].pc = "load" /\ worker[w].err = "none" /\ worker[w].obj = NoObj
        /\ UNCHANGED <<req, job>>
    BY <1>13 DEF WorkerLoad, CallsClean, WellFormed, WorkerOK
  <2>2. ASSUME NEW o, worker' = [worker EXCEPT ![w].pc = "loaded", ![w].obj = o] PROVE CallsClean'
    <3>1. /\ worker'[w].pc = "loaded" /\ worker'[w].err = "none"
          /\ \A v \in Workers \ {w} : worker'[v] = worker[v]
      BY <2>1, <2>2, QueuesAre DEF WorkerState
    <3>2. QED
      BY <1>11, <2>1, <3>1
  <2>3. ASSUME NEW e, worker' = [worker EXCEPT ![w].pc = "reply", ![w].err = e] PROVE CallsClean'
    <3>1. /\ worker'[w].pc = "reply" /\ worker'[w].obj = NoObj
          /\ \A v \in Workers \ {w} : worker'[v] = worker[v]
      BY <2>1, <2>3, QueuesAre DEF WorkerState
    <3>2. QED
      BY <1>11, <2>1, <3>1
  <2>4. QED
    BY <1>13, <2>2, <2>3 DEF WorkerLoad
<1>14. ASSUME NEW w \in Workers, WorkerInsert(w) PROVE CallsClean'
  <2>1. worker[w].pc = "loaded" /\ worker[w].err = "none" /\ UNCHANGED <<req, job>>
    BY <1>14 DEF WorkerInsert, CallsClean
  <2>2. /\ worker'[w].pc = "reply" /\ worker'[w].err = "none"
        /\ \A v \in Workers \ {w} : worker'[v] = worker[v]
    BY <1>14, <2>1, QueuesAre DEF WorkerInsert, WorkerState
  <2>3. QED
    BY <1>11, <2>1, <2>2
<1>15. ASSUME NEW w \in Workers, WorkerExit(w) PROVE CallsClean'
  <2>1. /\ worker'[w].pc = "exited" /\ UNCHANGED <<req, job>>
        /\ \A v \in Workers \ {w} : worker'[v] = worker[v]
    BY <1>15, QueuesAre DEF WorkerExit, WorkerState
  <2>2. QED
    BY <1>11, <2>1
<1>16. ASSUME NEW w \in Workers, WorkerReply(w) PROVE CallsClean'
  <2>1. PICK j \in Jobs : j = worker[w].job
    BY <1>16, QueuesAre DEF WorkerReply, WellFormed, WorkerOK, WorkerState
  <2>2. PICK jb : jb = [job EXCEPT ![j].done = TRUE, ![j].obj = worker[w].obj,
                                   ![j].err = worker[w].err]
    OBVIOUS
  <2>3. /\ worker' = [worker EXCEPT ![w] = IdleWorker] /\ UNCHANGED req
        /\ JobsAre(jb) /\ worker[w].pc = "reply"
    BY <1>16, <2>1, <2>2 DEF WorkerReply
  <2>4. \A i \in Jobs \ {j} : jb[i] = job[i]
    BY <2>2, QueuesAre
  <2>5. jb[j].obj = worker[w].obj /\ jb[j].err = worker[w].err
    BY <2>2, QueuesAre DEF Job
  <2>6. \A i \in Jobs : jb[i].done /\ jb[i].err # "none" => jb[i].obj = NoObj
    BY <2>3, <2>4, <2>5 DEF CallsClean
  <2>7. \A i \in Jobs : job'[i] = jb[i] \/ job'[i] = FreeJob
    BY <2>3 DEF JobsAre
  <2>8. \A v \in Workers : worker'[v] = worker[v] \/ worker'[v] = IdleWorker
    BY <2>3, QueuesAre
  <2>9. QED
    BY <2>3, <2>6, <2>7, <2>8 DEF CallsClean, FreeJob, IdleWorker
<1>17. ASSUME \/ HelperPanic \/ Close \/ \E j \in Jobs : HelperSend(j)
              \/ \E k \in Reloads : ReloadLoad(k) \/ ReloadQuiet(k) \/ \E t \in Tenants : ReloadTenant(k, t)
              \/ \E t \in Tenants : Publish(t) \/ Unpublish(t)
              \/ UNCHANGED vars
       PROVE  CallsClean'
  <2>1. UNCHANGED <<req, worker, job>>
    BY <1>17 DEF HelperPanic, Close, HelperSend, ReloadLoad, ReloadQuiet, ReloadLookup,
       ReloadSwap, ReloadInsert, ReloadTenant, Publish, Unpublish, vars
  <2>2. QED
    BY <2>1 DEF CallsClean
<1>18. QED
  BY <1>1, <1>2, <1>4, <1>6, <1>7, <1>8, <1>9, <1>10, <1>12, <1>13, <1>14, <1>15, <1>16, <1>17
     DEF Next, ServeNext, RequestStep, WorkerQuiet
\* What a call was offered stays offered while it waits and something refers to it.
LEMMA StillOffered ==
    ASSUME OfferedNext, NEW r \in Requests, Waits(r), Waits(r)', NEW o \in offered[r],
           o \in LiveObjs', o # NoObj
    PROVE  o \in offered'[r]
BY DEF OfferedNext, Before

\* The entry of the tenant is offered in every step.
LEMMA EntryStep ==
    ASSUME TypeOK', WellFormed', OfferedNext
    PROVE  EntryIsOffered'
<1> SUFFICES ASSUME NEW r \in Requests, Waits(r)', cache'[req'[r].tenant] # NoObj
             PROVE  cache'[req'[r].tenant] \in offered'[r]
  BY DEF EntryIsOffered
<1>1. req'[r].tenant \in Tenants
  BY DEF Waits, WellFormed, CallOK
<1>2. cache'[req'[r].tenant] \in LiveObjs'
  BY <1>1 DEF LiveObjs
<1>3. QED
  BY <1>2 DEF OfferedNext

\* A call joins a flight by GroupDo only, and the flight goes on as long as it follows.
FollowsOn ==
    \A r \in Requests : req'[r].pc = "follow" =>
        /\ req[r].pc \in {"miss", "follow"}
        /\ req'[r].tenant = req[r].tenant
        /\ flight'[req[r].tenant] = flight[req[r].tenant]

LEMMA FollowsDeliver ==
    ASSUME TypeOK, WellFormed, NEW t \in Tenants, NEW o, NEW e, Deliver(t, o, e)
    PROVE  FollowsOn
<1> SUFFICES ASSUME NEW r \in Requests, req'[r].pc = "follow"
             PROVE  /\ req[r].pc = "follow" /\ req'[r].tenant = req[r].tenant
                    /\ flight'[req[r].tenant] = flight[req[r].tenant]
  BY DEF FollowsOn
<1>1. Result(t, o, e).pc # "follow"
  BY DEF Result
<1>2. req'[r] = req[r] /\ ~(req[r].pc = "follow" /\ req[r].tenant = t)
  BY <1>1 DEF Deliver
<1>3. req[r].tenant \in Tenants
  BY <1>2 DEF WellFormed, CallOK
<1>4. QED
  BY <1>2, <1>3 DEF Deliver, TypeOK

LEMMA FollowsStep ==
    TypeOK /\ WellFormed /\ SingleFlight /\ [Next]_vars => FollowsOn
<1> SUFFICES ASSUME TypeOK, WellFormed, SingleFlight, [Next]_vars PROVE FollowsOn
  OBVIOUS
<1>1. ASSUME NEW r \in Requests, TenantPolicyForInvalid(r) PROVE FollowsOn
  <2>1. req' = [req EXCEPT ![r] = Result(NoTenant, NoObj, "notfound")] /\ UNCHANGED flight
    BY <1>1 DEF TenantPolicyForInvalid
  <2>2. QED
    BY <2>1, QueuesAre DEF FollowsOn, Result
<1>2. ASSUME NEW r \in Requests, NEW t \in Tenants, TenantPolicyFor(r, t) PROVE FollowsOn
  <2>1. /\ \A x \in Requests \ {r} : req'[x] = req[x]
        /\ req'[r].pc # "follow" /\ UNCHANGED flight
    <3>1. CASE cache[t] # NoObj
      BY <1>2, <3>1, QueuesAre DEF TenantPolicyFor, Result
    <3>2. CASE cache[t] = NoObj
      BY <1>2, <3>2, QueuesAre DEF TenantPolicyFor, IdleCall
    <3>3. QED
      BY <3>1, <3>2
  <2>2. QED
    BY <2>1 DEF FollowsOn
<1>3. ASSUME NEW r \in Requests, GroupDo(r) PROVE FollowsOn
  <2>1. PICK t \in Tenants : t = req[r].tenant
    BY <1>3 DEF GroupDo, WellFormed, CallOK
  <2>2. CASE flight[t] = NoReq
    <3>1. /\ flight' = [flight EXCEPT ![t] = r] /\ req'[r].pc = "lead"
          /\ \A x \in Requests \ {r} : req'[x] = req[x]
      BY <1>3, <2>1, <2>2, QueuesAre DEF GroupDo, Call
    <3>2. ASSUME NEW x \in Requests, req'[x].pc = "follow"
          PROVE  /\ req[x].pc = "follow" /\ req'[x].tenant = req[x].tenant
                 /\ req[x].tenant \in Tenants \ {t}
      BY <2>2, <3>1, <3>2 DEF WellFormed, CallOK, SingleFlight
    <3>3. QED
      BY <2>2, <3>1, <3>2 DEF FollowsOn, TypeOK
  <2>3. CASE flight[t] # NoReq
    <3>1. /\ UNCHANGED flight /\ req[r].pc = "miss" /\ req'[r].tenant = req[r].tenant
          /\ \A x \in Requests \ {r} : req'[x] = req[x]
      BY <1>3, <2>1, <2>3, QueuesAre DEF GroupDo, Call
    <3>2. QED
      BY <3>1 DEF FollowsOn
  <2>4. QED
    BY <2>2, <2>3
<1>4. ASSUME NEW r \in Requests, NEW o, NEW e, req[r].pc \in Leading,
             Deliver(req[r].tenant, o, e)
      PROVE  FollowsOn
  <2>1. PICK t \in Tenants : t = req[r].tenant
    BY <1>4 DEF WellFormed, CallOK
  <2>2. QED
    BY <1>4, <2>1, FollowsDeliver
<1>5. ASSUME NEW r \in Requests, SecondLook(r) PROVE FollowsOn
  <2>1. CASE cache[req[r].tenant] # NoObj
    BY <1>4, <1>5, <2>1 DEF SecondLook, Leading
  <2>2. CASE cache[req[r].tenant] = NoObj
    <3>1. UNCHANGED flight /\ req'[r].pc = "send" /\ \A x \in Requests \ {r} : req'[x] = req[x]
      BY <1>5, <2>2, QueuesAre DEF SecondLook, Call
    <3>2. QED
      BY <3>1 DEF FollowsOn
  <2>3. QED
    BY <2>1, <2>2
<1>6. ASSUME NEW r \in Requests, SendOnClosed(r) \/ LoadTimeout(r) \/ TakeAnswer(r) PROVE FollowsOn
  BY <1>4, <1>6 DEF SendOnClosed, LoadTimeout, TakeAnswer, Leading
<1>7. ASSUME NEW r \in Requests, SendJob(r) PROVE FollowsOn
  <2>1. UNCHANGED flight /\ req'[r].pc = "wait" /\ \A x \in Requests \ {r} : req'[x] = req[x]
    BY <1>7, QueuesAre DEF SendJob, Call
  <2>2. QED
    BY <2>1 DEF FollowsOn
<1>8. ASSUME NEW r \in Requests, Decide(r) PROVE FollowsOn
  <2>1. UNCHANGED flight /\ req'[r].pc = "idle" /\ \A x \in Requests \ {r} : req'[x] = req[x]
    BY <1>8, QueuesAre DEF Decide, IdleCall
  <2>2. QED
    BY <2>1 DEF FollowsOn
<1>9. ASSUME \/ HelperPanic \/ Close \/ \E j \in Jobs : HelperSend(j)
             \/ \E w \in Workers : WorkerQuiet(w) \/ WorkerLoad(w)
             \/ \E k \in Reloads : ReloadLoad(k) \/ ReloadQuiet(k) \/ \E t \in Tenants : ReloadTenant(k, t)
             \/ \E t \in Tenants : Publish(t) \/ Unpublish(t)
             \/ UNCHANGED vars
      PROVE  FollowsOn
  <2>1. UNCHANGED <<flight, req>>
    BY <1>9 DEF HelperPanic, Close, HelperSend, WorkerQuiet, WorkerTake, WorkerLoad, WorkerInsert,
       WorkerReply, WorkerExit, ReloadLoad, ReloadQuiet, ReloadLookup, ReloadSwap, ReloadInsert,
       ReloadTenant, Publish, Unpublish, vars
  <2>2. QED
    BY <2>1 DEF FollowsOn
<1>10. QED
  BY <1>1, <1>2, <1>3, <1>5, <1>6, <1>7, <1>8, <1>9 DEF Next, ServeNext, RequestStep

\* A call is offered all that the leader it follows is.
LEMMA FollowersStep ==
    ASSUME TypeOK, WellFormed, SingleFlight, FollowersAreOffered, FollowsOn,
           TypeOK', WellFormed', SingleFlight', OfferedNext
    PROVE  FollowersAreOffered'
<1> SUFFICES ASSUME NEW r \in Requests, req'[r].pc = "follow"
             PROVE  offered'[flight'[req'[r].tenant]] \subseteq offered'[r]
  BY DEF FollowersAreOffered
<1>1. PICK t \in Tenants : t = req'[r].tenant
  BY DEF WellFormed, CallOK
<1>2. req[r].pc \in {"miss", "follow"} /\ req[r].tenant = t /\ flight'[t] = flight[t]
  BY <1>1 DEF FollowsOn
<1>3. PICK q \in Requests : q = flight[t]
  BY <1>1, <1>2 DEF SingleFlight, TypeOK
<1>4. /\ req[q].pc \in Leading /\ req[q].tenant = t
      /\ req'[q].pc \in Leading /\ req'[q].tenant = t
  BY <1>1, <1>2, <1>3, NoReqAssumption DEF SingleFlight
<1>5. Before(q) = offered[q]
  BY <1>4 DEF Before, Waits, Leading
<1>6. offered[q] \subseteq Before(r)
  <2>1. CASE req[r].pc = "follow"
    BY <1>2, <1>3, <2>1 DEF Before, Waits, FollowersAreOffered
  <2>2. CASE req[r].pc = "miss"
    BY <1>2, <1>3, <2>2 DEF Before
  <2>3. QED
    BY <1>2, <2>1, <2>2
<1>7. Waits(q)' /\ Waits(r)'
  BY <1>4 DEF Waits
<1>8. /\ offered'[q] = (offered[q] \cup {cache'[t]}) \cap (LiveObjs' \ {NoObj})
      /\ offered'[r] = (Before(r) \cup {cache'[t]}) \cap (LiveObjs' \ {NoObj})
  BY <1>1, <1>4, <1>5, <1>7 DEF OfferedNext
<1>9. QED
  BY <1>1, <1>2, <1>3, <1>6, <1>8
\* A step that answers nobody and sends no job.
LEMMA AnswerQuiet ==
    ASSUME TypeOK', WellFormed', AnswerIsOffered, OfferedNext,
           \A r \in Requests : req'[r].pc = "wait" => req'[r] = req[r],
           \A w \in Workers : worker'[w].pc = "reply" /\ worker'[w].err = "none" =>
                                worker'[w] = worker[w],
           \A j \in UsedJobs' : j \in Jobs => job'[j] = job[j]
    PROVE  AnswerIsOffered'
<1>1. ASSUME NEW r \in Requests, NEW w \in Workers, req'[r].pc = "wait",
             worker'[w].job = req'[r].job, worker'[w].pc = "reply", worker'[w].err = "none"
      PROVE  worker'[w].obj \in offered'[r]
  <2>1. req'[r] = req[r] /\ worker'[w] = worker[w]
    BY <1>1
  <2>2. worker[w].obj \in offered[r]
    BY <1>1, <2>1 DEF AnswerIsOffered
  <2>3. worker'[w].obj \in LiveObjs' /\ worker'[w].obj # NoObj
    BY <1>1 DEF LiveObjs, WellFormed, WorkerOK
  <2>4. Waits(r) /\ Waits(r)'
    BY <1>1, <2>1 DEF Waits, Leading
  <2>5. QED
    BY <2>1, <2>2, <2>3, <2>4, StillOffered
<1>2. ASSUME NEW r \in Requests, req'[r].pc = "wait", job'[req'[r].job].done,
             job'[req'[r].job].err = "none"
      PROVE  job'[req'[r].job].obj \in offered'[r]
  <2>1. PICK j \in Jobs : j = req'[r].job
    BY <1>2 DEF TypeOK, Call, WellFormed, CallOK
  <2>2. j \in UsedJobs'
    BY <2>1 DEF UsedJobs
  <2>3. req'[r] = req[r] /\ job'[j] = job[j]
    BY <1>2, <2>1, <2>2
  <2>4. job[j].obj \in offered[r]
    BY <1>2, <2>1, <2>3 DEF AnswerIsOffered
  <2>5. job'[j].obj \in LiveObjs' /\ job'[j].obj # NoObj
    BY <1>2, <2>1 DEF LiveObjs, WellFormed, AnswersHavePolicy
  <2>6. Waits(r) /\ Waits(r)'
    BY <1>2, <2>3 DEF Waits, Leading
  <2>7. QED
    BY <2>1, <2>3, <2>4, <2>5, <2>6, StillOffered
<1>3. QED
  BY <1>1, <1>2 DEF AnswerIsOffered

\* The job of a new leader has no answer yet.
LEMMA AnswerSend ==
    ASSUME TypeOK, TypeOK', WellFormed, WellFormed', AnswerIsOffered, OfferedNext,
           NEW r \in Requests, SendJob(r)
    PROVE  AnswerIsOffered'
<1>1. PICK j \in Jobs :
        /\ j \notin UsedJobs
        /\ req' = [req EXCEPT ![r].pc = "wait", ![r].job = j]
        /\ UNCHANGED worker
        /\ JobsAre([job EXCEPT ![j] = NewJob(req[r].tenant)])
  BY DEF SendJob, FreshJob
<1>2. PICK jb : jb = [job EXCEPT ![j] = NewJob(req[r].tenant)]
  OBVIOUS
<1>3. ~jb[j].done /\ \A i \in Jobs \ {j} : jb[i] = job[i]
  BY <1>2, QueuesAre DEF NewJob, FreeJob
<1>4. \A i \in Jobs : i \in UsedJobs' => job'[i] = jb[i]
  BY <1>1, <1>2 DEF JobsAre
<1>5. req'[r].job = j /\ \A x \in Requests \ {r} : req'[x] = req[x]
  BY <1>1, QueuesAre DEF Call
<1>6. \A w \in Workers : worker[w].job # j
  BY <1>1 DEF UsedJobs
<1>7. \A x \in Requests \ {r} : req[x].job # j
  BY <1>1 DEF UsedJobs
<1>8. ASSUME NEW x \in Requests, NEW w \in Workers, req'[x].pc = "wait",
             worker'[w].job = req'[x].job, worker'[w].pc = "reply", worker'[w].err = "none"
      PROVE  worker'[w].obj \in offered'[x]
  <2>1. x # r /\ req'[x] = req[x] /\ worker'[w] = worker[w]
    BY <1>1, <1>5, <1>6, <1>8
  <2>2. worker[w].obj \in offered[x]
    BY <1>8, <2>1 DEF AnswerIsOffered
  <2>3. worker'[w].obj \in LiveObjs' /\ worker'[w].obj # NoObj
    BY <1>8 DEF LiveObjs, WellFormed, WorkerOK
  <2>4. Waits(x) /\ Waits(x)'
    BY <1>8, <2>1 DEF Waits, Leading
  <2>5. QED
    BY <2>1, <2>2, <2>3, <2>4, StillOffered
<1>9. ASSUME NEW x \in Requests, req'[x].pc = "wait", job'[req'[x].job].done,
             job'[req'[x].job].err = "none"
      PROVE  job'[req'[x].job].obj \in offered'[x]
  <2>1. PICK i \in Jobs : i = req'[x].job
    BY <1>9 DEF TypeOK, Call, WellFormed, CallOK
  <2>2. job'[i] = jb[i]
    <3>1. i \in UsedJobs'
      BY <2>1 DEF UsedJobs
    <3>2. QED
      BY <1>4, <3>1
  <2>3. i # j /\ x # r
    BY <1>3, <1>5, <1>9, <2>1, <2>2
  <2>4. req'[x] = req[x] /\ job'[i] = job[i]
    BY <1>3, <1>5, <2>2, <2>3
  <2>5. job[i].obj \in offered[x]
    BY <1>9, <2>1, <2>4 DEF AnswerIsOffered
  <2>6. job'[i].obj \in LiveObjs' /\ job'[i].obj # NoObj
    BY <1>9, <2>1 DEF LiveObjs, WellFormed, AnswersHavePolicy
  <2>7. Waits(x) /\ Waits(x)'
    BY <1>9, <2>4 DEF Waits, Leading
  <2>8. QED
    BY <2>1, <2>4, <2>5, <2>6, <2>7, StillOffered
<1>10. QED
  BY <1>8, <1>9 DEF AnswerIsOffered

\* A worker caches what it loaded before it answers, so that the leader is offered it.
LEMMA AnswerInsert ==
    ASSUME TypeOK, TypeOK', WellFormed, WellFormed', CacheConsistent, IsolationInv,
           AnswerIsOffered, EntryIsOffered', OfferedNext, NEW w \in Workers, WorkerInsert(w)
    PROVE  AnswerIsOffered'
<1>1. PICK j \in Jobs : j = worker[w].job
  BY QueuesAre DEF WorkerInsert, WellFormed, WorkerOK, WorkerState
<1>2. PICK t \in Tenants : t = job[j].tenant
  BY <1>1, ConstantTypes DEF WellFormed, JobsHaveTenants, UsedJobs
<1>3. /\ insert(t, worker[w].obj) /\ UNCHANGED <<job, req>> /\ worker[w].pc = "loaded"
      /\ worker' = [worker EXCEPT ![w].pc = "reply"]
  BY <1>1, <1>2 DEF WorkerInsert
<1>4. worker[w].obj # NoObj
  BY <1>3 DEF WellFormed, WorkerOK
<1>5. cache'[t] = worker[w].obj
  BY <1>2, <1>3, InsertServes
<1>6. /\ worker'[w].obj = worker[w].obj /\ worker'[w].job = j
      /\ \A v \in Workers \ {w} : worker'[v] = worker[v]
  BY <1>1, <1>3, QueuesAre DEF WorkerState
<1>7. ASSUME NEW r \in Requests, NEW v \in Workers, req'[r].pc = "wait",
             worker'[v].job = req'[r].job, worker'[v].pc = "reply", worker'[v].err = "none"
      PROVE  worker'[v].obj \in offered'[r]
  <2>1. Waits(r) /\ Waits(r)' /\ req'[r] = req[r]
    BY <1>3, <1>7 DEF Waits, Leading
  <2>2. CASE v = w
    <3>1. req[r].tenant = t
      BY <1>2, <1>6, <1>7, <2>1, <2>2 DEF IsolationInv, WaitsForOwnTenant
    <3>2. QED
      BY <1>4, <1>5, <1>6, <2>1, <2>2, <3>1 DEF EntryIsOffered
  <2>3. CASE v # w
    <3>1. worker[v].obj \in offered[r]
      BY <1>6, <1>7, <2>1, <2>3 DEF AnswerIsOffered
    <3>2. worker'[v].obj \in LiveObjs' /\ worker'[v].obj # NoObj
      BY <1>7 DEF LiveObjs, WellFormed, WorkerOK
    <3>3. QED
      BY <1>6, <2>1, <2>3, <3>1, <3>2, StillOffered
  <2>4. QED
    BY <2>2, <2>3
<1>8. ASSUME NEW r \in Requests, req'[r].pc = "wait", job'[req'[r].job].done,
             job'[req'[r].job].err = "none"
      PROVE  job'[req'[r].job].obj \in offered'[r]
  <2>1. PICK i \in Jobs : i = req'[r].job
    BY <1>8 DEF TypeOK, Call, WellFormed, CallOK
  <2>2. req'[r] = req[r] /\ job'[i] = job[i]
    BY <1>3
  <2>3. job[i].obj \in offered[r]
    BY <1>8, <2>1, <2>2 DEF AnswerIsOffered
  <2>4. job'[i].obj \in LiveObjs' /\ job'[i].obj # NoObj
    BY <1>8, <2>1 DEF LiveObjs, WellFormed, AnswersHavePolicy
  <2>5. Waits(r) /\ Waits(r)'
    BY <1>8, <2>2 DEF Waits, Leading
  <2>6. QED
    BY <2>1, <2>2, <2>3, <2>4, <2>5, StillOffered
<1>9. QED
  BY <1>7, <1>8 DEF AnswerIsOffered

\* The answer of a worker is what it has cached.
LEMMA AnswerReply ==
    ASSUME TypeOK, TypeOK', WellFormed, WellFormed', AnswerIsOffered, OfferedNext,
           NEW w \in Workers, WorkerReply(w)
    PROVE  AnswerIsOffered'
<1>1. PICK j \in Jobs : j = worker[w].job
  BY QueuesAre DEF WorkerReply, WellFormed, WorkerOK, WorkerState
<1>2. PICK jb : jb = [job EXCEPT ![j].done = TRUE, ![j].obj = worker[w].obj,
                                 ![j].err = worker[w].err]
  OBVIOUS
<1>3. /\ worker' = [worker EXCEPT ![w] = IdleWorker] /\ UNCHANGED req
      /\ JobsAre(jb) /\ worker[w].pc = "reply"
  BY <1>1, <1>2 DEF WorkerReply
<1>4. /\ \A i \in Jobs \ {j} : jb[i] = job[i]
      /\ jb[j].obj = worker[w].obj /\ jb[j].err = worker[w].err
  BY <1>2, QueuesAre DEF Job
<1>5. \A i \in Jobs : i \in UsedJobs' => job'[i] = jb[i]
  BY <1>3 DEF JobsAre
<1>6. \A v \in Workers : worker'[v] = worker[v] \/ worker'[v].pc = "idle"
  BY <1>3, QueuesAre DEF IdleWorker
<1>7. ASSUME NEW r \in Requests, NEW v \in Workers, req'[r].pc = "wait",
             worker'[v].job = req'[r].job, worker'[v].pc = "reply", worker'[v].err = "none"
      PROVE  worker'[v].obj \in offered'[r]
  <2>1. req'[r] = req[r] /\ worker'[v] = worker[v]
    BY <1>3, <1>6, <1>7
  <2>2. worker[v].obj \in offered[r]
    BY <1>7, <2>1 DEF AnswerIsOffered
  <2>3. worker'[v].obj \in LiveObjs' /\ worker'[v].obj # NoObj
    BY <1>7 DEF LiveObjs, WellFormed, WorkerOK
  <2>4. Waits(r) /\ Waits(r)'
    BY <1>7, <2>1 DEF Waits, Leading
  <2>5. QED
    BY <2>1, <2>2, <2>3, <2>4, StillOffered
<1>8. ASSUME NEW r \in Requests, req'[r].pc = "wait", job'[req'[r].job].done,
             job'[req'[r].job].err = "none"
      PROVE  job'[req'[r].job].obj \in offered'[r]
  <2>1. PICK i \in Jobs : i = req'[r].job
    BY <1>8 DEF TypeOK, Call, WellFormed, CallOK
  <2>2. i \in UsedJobs'
    BY <2>1 DEF UsedJobs
  <2>3. req'[r] = req[r] /\ job'[i] = jb[i]
    BY <1>3, <1>5, <2>2
  <2>4. jb[i].obj \in offered[r]
    <3>1. CASE i = j
      <4>1. /\ req[r].pc = "wait" /\ worker[w].job = req[r].job
            /\ worker[w].pc = "reply" /\ worker[w].err = "none"
        BY <1>1, <1>3, <1>4, <1>8, <2>1, <2>3, <3>1
      <4>2. worker[w].obj \in offered[r]
        BY <4>1 DEF AnswerIsOffered
      <4>3. QED
        BY <1>4, <3>1, <4>2
    <3>2. CASE i # j
      BY <1>4, <1>8, <2>1, <2>3, <3>2 DEF AnswerIsOffered
    <3>3. QED
      BY <3>1, <3>2
  <2>5. job'[i].obj \in LiveObjs' /\ job'[i].obj # NoObj
    BY <1>8, <2>1 DEF LiveObjs, WellFormed, AnswersHavePolicy
  <2>6. Waits(r) /\ Waits(r)'
    BY <1>8, <2>3 DEF Waits, Leading
  <2>7. QED
    BY <2>1, <2>3, <2>4, <2>5, <2>6, StillOffered
<1>9. QED
  BY <1>7, <1>8 DEF AnswerIsOffered

\* Every step keeps the answers among what was offered.
LEMMA AnswerStep ==
    ASSUME TypeOK, TypeOK', WellFormed, WellFormed', CacheConsistent, IsolationInv,
           AnswerIsOffered, EntryIsOffered', OfferedNext, [Next]_vars
    PROVE  AnswerIsOffered'
<1>1. ASSUME NEW r \in Requests, \/ TenantPolicyForInvalid(r) \/ GroupDo(r) \/ SecondLook(r)
                                 \/ SendOnClosed(r) \/ Decide(r)
                                 \/ \E t \in Tenants : TenantPolicyFor(r, t)
      PROVE  AnswerIsOffered'
  <2>1. UNCHANGED <<worker, job>>
    BY <1>1 DEF TenantPolicyForInvalid, GroupDo, SecondLook, SendOnClosed, Decide, TenantPolicyFor
  <2>2. \A x \in Requests : req'[x].pc = "wait" => req'[x] = req[x]
    BY <1>1, NoNewJob
  <2>3. QED
    BY <2>1, <2>2, AnswerQuiet
<1>2. ASSUME NEW r \in Requests, TakeAnswer(r) \/ LoadTimeout(r) PROVE AnswerIsOffered'
  <2>1. UNCHANGED worker /\ JobsAre(job)
    BY <1>2 DEF TakeAnswer, LoadTimeout
  <2>2. \A x \in Requests : req'[x].pc = "wait" => req'[x] = req[x]
    BY <1>2, QueuesAre, SMTT(30) DEF TakeAnswer, LoadTimeout, Deliver, Result
  <2>3. \A j \in UsedJobs' : j \in Jobs => job'[j] = job[j]
    BY <2>1 DEF JobsAre
  <2>4. QED
    BY <2>1, <2>2, <2>3, AnswerQuiet
<1>3. ASSUME NEW w \in Workers, UNCHANGED <<req, job>>,
             \A v \in Workers \ {w} : worker'[v] = worker[v],
             worker'[w].pc # "reply" \/ worker'[w].err # "none"
      PROVE  AnswerIsOffered'
  BY <1>3, AnswerQuiet
<1>4. ASSUME NEW w \in Workers, WorkerTake(w) PROVE AnswerIsOffered'
  <2>1. /\ worker'[w].pc = "load" /\ UNCHANGED <<req, job>>
        /\ \A v \in Workers \ {w} : worker'[v] = worker[v]
    BY <1>4, QueuesAre DEF WorkerTake, IdleWorker
  <2>2. QED
    BY <1>3, <2>1
<1>5. ASSUME NEW w \in Workers, WorkerLoad(w) PROVE AnswerIsOffered'
  <2>1. UNCHANGED <<req, job>>
    BY <1>5 DEF WorkerLoad
  <2>2. ASSUME NEW o, worker' = [worker EXCEPT ![w].pc = "loaded", ![w].obj = o]
        PROVE  AnswerIsOffered'
    <3>1. worker'[w].pc = "loaded" /\ \A v \in Workers \ {w} : worker'[v] = worker[v]
      BY <2>2, QueuesAre DEF WorkerState
    <3>2. QED
      BY <1>3, <2>1, <3>1
  <2>3. ASSUME NEW e, e # "none", worker' = [worker EXCEPT ![w].pc = "reply", ![w].err = e]
        PROVE  AnswerIsOffered'
    <3>1. worker'[w].err # "none" /\ \A v \in Workers \ {w} : worker'[v] = worker[v]
      BY <2>3, QueuesAre DEF WorkerState
    <3>2. QED
      BY <1>3, <2>1, <3>1
  <2>4. QED
    BY <1>5, <2>2, <2>3 DEF WorkerLoad
<1>6. ASSUME NEW w \in Workers, WorkerExit(w) PROVE AnswerIsOffered'
  <2>1. /\ worker'[w].pc = "exited" /\ UNCHANGED <<req, job>>
        /\ \A v \in Workers \ {w} : worker'[v] = worker[v]
    BY <1>6, QueuesAre DEF WorkerExit, WorkerState
  <2>2. QED
    BY <1>3, <2>1
<1>7. ASSUME \/ HelperPanic \/ Close \/ \E j \in Jobs : HelperSend(j)
             \/ \E k \in Reloads : ReloadLoad(k) \/ ReloadQuiet(k) \/ \E t \in Tenants : ReloadTenant(k, t)
             \/ \E t \in Tenants : Publish(t) \/ Unpublish(t)
             \/ UNCHANGED vars
      PROVE  AnswerIsOffered'
  <2>1. UNCHANGED <<req, worker, job>>
    BY <1>7 DEF HelperPanic, Close, HelperSend, ReloadLoad, ReloadQuiet, ReloadLookup,
       ReloadSwap, ReloadInsert, ReloadTenant, Publish, Unpublish, vars
  <2>2. QED
    BY <2>1, AnswerQuiet
<1>8. QED
  BY <1>1, <1>2, <1>4, <1>5, <1>6, <1>7, AnswerSend, AnswerInsert, AnswerReply
     DEF Next, ServeNext, RequestStep, WorkerQuiet
-----------------------------------------------------------------------------
(* The steps of the registry as steps of the service *)

\* What a call looks like to the service.
AbstractCalls ==
    \A r \in Requests :
        /\ req[r].pc = "idle" => AbstractCall(r) = Service!NoCall
        /\ Waits(r) => AbstractCall(r) = Service!Asked(req[r].tenant)
        /\ req[r].pc = "have" => AbstractCall(r) = Service!Got(req[r].tenant, req[r].obj)
        /\ req[r].pc = "fail" => AbstractCall(r) = Service!Failed(req[r].tenant)

LEMMA CallsMap == TypeOK /\ CallsClean => AbstractCalls
<1> SUFFICES ASSUME TypeOK, CallsClean, NEW r \in Requests
             PROVE  /\ req[r].pc = "idle" => AbstractCall(r) = Service!NoCall
                    /\ Waits(r) => AbstractCall(r) = Service!Asked(req[r].tenant)
                    /\ req[r].pc = "have" => AbstractCall(r) = Service!Got(req[r].tenant, req[r].obj)
                    /\ req[r].pc = "fail" => AbstractCall(r) = Service!Failed(req[r].tenant)
  BY DEF AbstractCalls
<1>1. /\ req[r].pc = "idle" => req[r].tenant = NoTenant /\ req[r].obj = NoObj
      /\ req[r].pc # "have" => req[r].obj = NoObj
  BY DEF CallsClean, IdleCall
<1>2. req[r].pc = "idle" => AbstractCall(r) = Service!NoCall
  BY <1>1 DEF AbstractCall, Waits, Leading, Service!NoCall
<1>3. Waits(r) => AbstractCall(r) = Service!Asked(req[r].tenant)
  BY <1>1 DEF AbstractCall, Waits, Leading, Service!Asked
<1>4. req[r].pc = "have" => AbstractCall(r) = Service!Got(req[r].tenant, req[r].obj)
  BY DEF AbstractCall, Waits, Leading, Service!Got
<1>5. req[r].pc = "fail" => AbstractCall(r) = Service!Failed(req[r].tenant)
  BY <1>1 DEF AbstractCall, Waits, Leading, Service!Failed
<1>6. QED
  BY <1>2, <1>3, <1>4, <1>5

\* A call that does not change looks the same.
LEMMA SameCall ==
    ASSUME NEW r \in Requests, req'[r] = req[r]
    PROVE  AbstractCall(r)' = AbstractCall(r)
BY DEF AbstractCall, Waits

\* A call that goes on waiting for its tenant, and joins nobody, is offered no more.
LEMMA Keeps ==
    ASSUME OfferedInv, OfferedNext, UNCHANGED cache, NEW r \in Requests,
           Waits(r)' => /\ Waits(r) /\ req'[r].tenant = req[r].tenant
                        /\ req[r].pc # "miss" \/ req'[r].pc # "follow"
    PROVE  offered'[r] \subseteq offered[r]
<1>1. CASE ~Waits(r)'
  BY <1>1 DEF OfferedNext
<1>2. CASE Waits(r)'
  <2>1. Before(r) = offered[r]
    BY <1>2 DEF Before
  <2>2. cache'[req'[r].tenant] \in offered[r] \cup {NoObj}
    BY <1>2 DEF OfferedInv, EntryIsOffered
  <2>3. offered'[r] = (Before(r) \cup {cache'[req'[r].tenant]}) \cap (LiveObjs' \ {NoObj})
    BY <1>2 DEF OfferedNext
  <2>4. QED
    BY <2>1, <2>2, <2>3
<1>3. QED
  BY <1>1, <1>2

\* A step the service does not see.
LEMMA ForgetMaps ==
    ASSUME UNCHANGED cache, \A r \in Requests : AbstractCall(r)' = AbstractCall(r),
           \A r \in Requests : offered'[r] \subseteq offered[r]
    PROVE  Service!ServiceNext
<1>1. Service!Forget
  BY DEF Service!Forget, Service!Forgetting
<1>2. QED
  BY <1>1 DEF Service!ServiceNext

\* A step of one call.
LEMMA OneCall ==
    ASSUME NEW r \in Requests, NEW c, AbstractCall(r)' = c,
           \A x \in Requests \ {r} : req'[x] = req[x]
    PROVE  [x \in Requests |-> AbstractCall(x)]'
              = [[x \in Requests |-> AbstractCall(x)] EXCEPT ![r] = c]
<1>1. \A x \in Requests \ {r} : AbstractCall(x)' = AbstractCall(x)
  BY SameCall
<1>2. QED
  BY <1>1

\* Everybody in the flight of t gets the policy or the error.
LEMMA DeliverMaps ==
    ASSUME TypeOK, WellFormed, SingleFlight, OfferedInv, OfferedNext, AbstractCalls, AbstractCalls',
           UNCHANGED cache, NEW r \in Requests, NEW t \in Tenants, NEW o, NEW e,
           req[r].pc \in Leading, req[r].tenant = t, Deliver(t, o, e),
           e = "none" => o \in Objs /\ o \in offered[r],
           e # "none" => o = NoObj
    PROVE  Service!ServiceNext
<1> DEFINE rs == {x \in Requests : x = flight[t] \/ (req[x].pc = "follow" /\ req[x].tenant = t)}
<1>1. flight[t] = r /\ rs \in SUBSET Requests /\ r \in rs
  BY DEF SingleFlight
<1>2. \A x \in rs : /\ AbstractCall(x) = Service!Asked(t) /\ req'[x] = Result(t, o, e)
                     /\ req[x].pc \in {"follow"} \cup Leading /\ req[x].tenant = t
  <2> SUFFICES ASSUME NEW x \in rs
               PROVE  /\ AbstractCall(x) = Service!Asked(t) /\ req'[x] = Result(t, o, e)
                      /\ req[x].pc \in {"follow"} \cup Leading /\ req[x].tenant = t
    OBVIOUS
  <2>1. x \in Requests /\ req[x].pc \in {"follow"} \cup Leading /\ req[x].tenant = t
    BY <1>1
  <2>2. req'[x] = Result(t, o, e)
    BY <2>1 DEF Deliver
  <2>3. QED
    BY <2>1, <2>2 DEF AbstractCalls, Waits
<1>3. \A x \in Requests \ rs : req'[x] = req[x]
  BY DEF Deliver
<1>4. \A x \in Requests \ rs : AbstractCall(x)' = AbstractCall(x)
  BY <1>3, SameCall
<1>5. \A x \in Requests : offered'[x] \subseteq offered[x]
  <2> SUFFICES ASSUME NEW x \in Requests
               PROVE  offered'[x] \subseteq offered[x]
    OBVIOUS
  <2>1. CASE x \in rs
    <3>1. ~Waits(x)'
      BY <1>2, <2>1 DEF Waits, Leading, Result
    <3>2. QED
      BY <3>1, Keeps
  <2>2. CASE x \notin rs
    <3>1. req'[x] = req[x]
      BY <1>3, <2>2
    <3>2. Waits(x)' = Waits(x)
      BY <3>1 DEF Waits
    <3>3. QED
      BY <3>1, <3>2, Keeps
  <2>3. QED
    BY <2>1, <2>2
<1>6. CASE e = "none"
  <2>1. \A x \in rs : AbstractCall(x)' = Service!Got(t, o)
    <3> SUFFICES ASSUME NEW x \in rs PROVE AbstractCall(x)' = Service!Got(t, o)
      OBVIOUS
    <3>1. x \in Requests /\ req'[x].pc = "have" /\ req'[x].tenant = t /\ req'[x].obj = o
      BY <1>2, <1>6 DEF Result
    <3>2. QED
      BY <3>1 DEF AbstractCalls, Service!Got
  <2>2. \A x \in rs : o \in offered[x]
    BY <1>1, <1>6 DEF OfferedInv, FollowersAreOffered
  <2>3. rs \subseteq Service!Asking(t)
    BY <1>2 DEF Service!Asking
  <2>4. [x \in Requests |-> AbstractCall(x)]'
          = [x \in Requests |-> IF x \in rs THEN Service!Got(t, o)
                                ELSE [y \in Requests |-> AbstractCall(y)][x]]
    BY <1>4, <2>1
  <2>5. Service!Answer(t, rs, o)
    BY <1>5, <2>2, <2>3, <2>4 DEF Service!Answer, Service!Forgetting
  <2>6. QED
    BY <1>1, <1>6, <2>5 DEF Service!ServiceNext
<1>7. CASE e # "none"
  <2>1. \A x \in rs : AbstractCall(x)' = Service!Failed(t)
    <3> SUFFICES ASSUME NEW x \in rs PROVE AbstractCall(x)' = Service!Failed(t)
      OBVIOUS
    <3>1. x \in Requests /\ req'[x].pc = "fail" /\ req'[x].tenant = t
      BY <1>2, <1>7 DEF Result
    <3>2. QED
      BY <3>1 DEF AbstractCalls, Service!Failed
  <2>2. rs \subseteq Service!Asking(t)
    BY <1>2 DEF Service!Asking
  <2>3. [x \in Requests |-> AbstractCall(x)]'
          = [x \in Requests |-> IF x \in rs THEN Service!Failed(t)
                                ELSE [y \in Requests |-> AbstractCall(y)][x]]
    BY <1>4, <2>1
  <2>4. Service!Fail(t, rs)
    BY <1>5, <2>2, <2>3 DEF Service!Fail, Service!Forgetting
  <2>5. QED
    BY <1>1, <2>4 DEF Service!ServiceNext
<1>8. QED
  BY <1>6, <1>7

\* The cache has room for what it serves.
LEMMA ServedFit ==
    ASSUME TypeOK, CacheConsistent
    PROVE  Cardinality({u \in Tenants : cache[u] # NoObj}) <= CacheSize
<1>1. lru \in Seq(Tenants) /\ Len(lru) \in Nat /\ DOMAIN lru = 1 .. Len(lru)
  BY DEF TypeOK
<1>2. lru \in Surjection(1 .. Len(lru), Elems(lru))
  BY <1>1 DEF Surjection, Elems
<1>3. PICK n \in Nat : n = Len(lru)
  BY <1>1
<1>4. PICK S : S = Elems(lru)
  OBVIOUS
<1>5. ExistsSurjection(1 .. n, S)
  BY <1>2, <1>3, <1>4 DEF ExistsSurjection
<1>6. Cardinality(S) <= n
  BY <1>5, FS_SurjCardinalityBound
<1>7. Cardinality(S) \in Nat
  BY <1>5, FS_NatSurjection, FS_CardinalityType
<1>8. {u \in Tenants : cache[u] # NoObj} = S /\ n <= CacheSize
  BY <1>3, <1>4 DEF CacheConsistent
<1>9. QED
  BY <1>6, <1>7, <1>8, CacheSizeAssumption

\* A worker or a reload serves a policy from now on.
LEMMA InstallMaps ==
    ASSUME TypeOK, TypeOK', WellFormed, CacheConsistent, CacheConsistent', OfferedInv, OfferedNext,
           AbstractCalls, UNCHANGED req, NEW t \in Tenants, NEW o \in Objs, insert(t, o)
    PROVE  Service!ServiceNext
<1>1. /\ cache'[t] = o
      /\ \A u \in Tenants \ {t} : cache'[u] \in {cache[u], NoObj}
  BY InsertServes
<1>2. cache' \in [Tenants -> Objs \cup {NoObj}]
  BY DEF TypeOK
<1>3. Cardinality({u \in Tenants : cache'[u] # NoObj}) <= CacheSize
  <2>1. (Cardinality({u \in Tenants : cache[u] # NoObj}) <= CacheSize)'
    BY ServedFit, PTL
  <2>2. QED
    BY <2>1
<1>4. [x \in Requests |-> AbstractCall(x)]' = [x \in Requests |-> AbstractCall(x)]
  BY SameCall
<1>5. ASSUME NEW r \in Requests
      PROVE  offered'[r] \subseteq IF r \in Service!Asking(t) THEN offered[r] \cup {o} ELSE offered[r]
  <2>1. req'[r] = req[r] /\ Waits(r)' = Waits(r)
    BY DEF Waits
  <2>2. CASE ~Waits(r)
    BY <2>1, <2>2 DEF OfferedNext
  <2>3. CASE Waits(r)
    <3>1. PICK u \in Tenants : u = req[r].tenant
      BY <2>3 DEF WellFormed, CallOK, Waits
    <3>2. offered'[r] \subseteq (offered[r] \cup {cache'[u]}) \ {NoObj}
      BY <2>1, <2>3, <3>1 DEF OfferedNext, Before
    <3>3. CASE u = t
      <4>1. r \in Service!Asking(t)
        BY <2>3, <3>1, <3>3 DEF Service!Asking, AbstractCalls
      <4>2. QED
        BY <1>1, <3>2, <3>3, <4>1
    <3>4. CASE u # t
      <4>1. cache'[u] \in offered[r] \cup {NoObj}
        BY <1>1, <2>3, <3>1, <3>4 DEF OfferedInv, EntryIsOffered
      <4>2. offered'[r] \subseteq offered[r]
        BY <3>2, <4>1
      <4>3. QED
        BY <4>2
    <3>5. QED
      BY <3>3, <3>4
  <2>4. QED
    BY <2>2, <2>3
<1>6. Service!Install(t, o)
  <2>1. Service!Cardinality({u \in Tenants : cache'[u] # NoObj}) <= CacheSize
    BY <1>3 DEF Service!Cardinality, Cardinality
  <2>2. \A r \in Requests :
           offered'[r] \subseteq IF r \in Service!Asking(t) THEN offered[r] \cup {o} ELSE offered[r]
    BY <1>5
  <2>3. UNCHANGED [r \in Requests |-> AbstractCall(r)]
    BY <1>4
  <2>4. QED
    BY <1>1, <1>2, <2>1, <2>2, <2>3, Zenon DEF Service!Install
<1>7. QED
  BY <1>6 DEF Service!ServiceNext

\* The offers of a call that does not change, while the cache does not.
LEMMA OthersKeep ==
    ASSUME OfferedInv, OfferedNext, UNCHANGED cache, NEW x \in Requests, req'[x] = req[x]
    PROVE  offered'[x] \subseteq offered[x]
<1>1. Waits(x)' = Waits(x)
  BY DEF Waits
<1>2. QED
  BY <1>1, Keeps

\* A step that touches neither the cache nor what a call looks like.
LEMMA QuietMaps ==
    ASSUME OfferedInv, OfferedNext, UNCHANGED <<cache, req>>
    PROVE  Service!ServiceNext
BY SameCall, OthersKeep, ForgetMaps

\* A call goes on waiting.
LEMMA WaitMaps ==
    ASSUME OfferedInv, OfferedNext, AbstractCalls, AbstractCalls', UNCHANGED cache,
           NEW r \in Requests, \A x \in Requests \ {r} : req'[x] = req[x],
           Waits(r), Waits(r)', req'[r].tenant = req[r].tenant,
           req[r].pc # "miss" \/ req'[r].pc # "follow"
    PROVE  Service!ServiceNext
<1>1. AbstractCall(r)' = AbstractCall(r)
  BY DEF AbstractCalls, Service!Asked
<1>2. offered'[r] \subseteq offered[r]
  BY Keeps
<1>3. QED
  BY <1>1, <1>2, SameCall, OthersKeep, ForgetMaps

\* A call begins or ends; what others were offered stays.
LEMMA InvalidMaps ==
    ASSUME TypeOK, OfferedInv, OfferedNext, AbstractCalls, AbstractCalls',
           NEW r \in Requests, TenantPolicyForInvalid(r)
    PROVE  Service!ServiceNext
<1>1. /\ req'[r] = Result(NoTenant, NoObj, "notfound") /\ UNCHANGED cache /\ req[r].pc = "idle"
      /\ \A x \in Requests \ {r} : req'[x] = req[x]
  BY QueuesAre DEF TenantPolicyForInvalid
<1>2. req'[r].pc = "fail" /\ req'[r].tenant = NoTenant
  BY <1>1 DEF Result
<1>3. AbstractCall(r) = Service!NoCall /\ AbstractCall(r)' = Service!Failed(NoTenant)
  BY <1>1, <1>2 DEF AbstractCalls, Service!Failed
<1>4. ~Waits(r)'
  BY <1>2 DEF Waits, Leading
<1>5. \A x \in Requests : offered'[x] \subseteq offered[x]
  BY <1>1, <1>4, Keeps, OthersKeep
<1>6. Service!Refuse(r)
  BY <1>1, <1>3, <1>5, OneCall DEF Service!Refuse, Service!Forgetting
<1>7. QED
  BY <1>6 DEF Service!ServiceNext

LEMMA AskMaps ==
    ASSUME TypeOK, OfferedInv, OfferedNext, AbstractCalls, AbstractCalls',
           NEW r \in Requests, NEW t \in Tenants, TenantPolicyFor(r, t)
    PROVE  Service!ServiceNext
<1>1. /\ UNCHANGED cache /\ req[r].pc = "idle"
      /\ \A x \in Requests \ {r} : req'[x] = req[x]
  BY QueuesAre DEF TenantPolicyFor
<1>2. AbstractCall(r) = Service!NoCall
  BY <1>1 DEF AbstractCalls
<1>3. \A x \in Requests \ {r} : offered'[x] \subseteq offered[x]
  BY <1>1, OthersKeep
<1>4. CASE cache[t] # NoObj
  <2>1. req'[r] = Result(t, cache[t], "none")
    BY <1>4, QueuesAre DEF TenantPolicyFor
  <2>2. req'[r].pc = "have" /\ req'[r].tenant = t /\ req'[r].obj = cache[t]
    BY <2>1 DEF Result
  <2>3. AbstractCall(r)' = Service!Got(t, cache[t])
    BY <2>2 DEF AbstractCalls, Service!Got
  <2>4. ~Waits(r)'
    BY <2>2 DEF Waits, Leading
  <2>5. \A x \in Requests : offered'[x] \subseteq offered[x]
    BY <1>1, <1>3, <2>4, Keeps
  <2>6. Service!Hit(r, t)
    <3>1. PICK c : c = Service!Got(t, cache[t])
      OBVIOUS
    <3>2. [x \in Requests |-> AbstractCall(x)]'
            = [[x \in Requests |-> AbstractCall(x)] EXCEPT ![r] = c]
      BY <1>1, <2>3, <3>1, OneCall
    <3>3. QED
      BY <1>1, <1>2, <1>4, <2>5, <3>1, <3>2 DEF Service!Hit, Service!Forgetting
  <2>7. QED
    BY <2>6 DEF Service!ServiceNext
<1>5. CASE cache[t] = NoObj
  <2>1. req'[r] = [IdleCall EXCEPT !.pc = "miss", !.tenant = t]
    BY <1>5, QueuesAre DEF TenantPolicyFor
  <2>2. req'[r].pc = "miss" /\ req'[r].tenant = t
    BY <2>1 DEF IdleCall
  <2>3. Waits(r)' /\ ~Waits(r)
    BY <1>1, <2>2 DEF Waits, Leading
  <2>4. AbstractCall(r)' = Service!Asked(t)
    BY <2>2, <2>3 DEF AbstractCalls, Service!Asked
  <2>5. offered'[r] \subseteq Service!Served(t)
    BY <1>1, <2>2, <2>3 DEF OfferedNext, Before, Service!Served
  <2>6. \A x \in Requests : offered'[x] \subseteq IF x = r THEN Service!Served(t) ELSE offered[x]
    BY <1>3, <2>5
  <2>7. Service!Ask(r, t)
    BY <1>1, <1>2, <2>4, <2>6, OneCall DEF Service!Ask
  <2>8. QED
    BY <2>7 DEF Service!ServiceNext
<1>6. QED
  BY <1>4, <1>5

\* A call that leads a new flight is offered no more; one that joins is offered what its
\* leader was.
LEMMA GroupMaps ==
    ASSUME TypeOK, WellFormed, SingleFlight, OfferedInv, OfferedNext, AbstractCalls, AbstractCalls',
           NEW r \in Requests, GroupDo(r)
    PROVE  Service!ServiceNext
<1>1. PICK t \in Tenants : t = req[r].tenant
  BY DEF GroupDo, WellFormed, CallOK
<1>2. UNCHANGED cache /\ req[r].pc = "miss" /\ Waits(r)
  BY DEF GroupDo, Waits
<1>3. CASE flight[t] = NoReq
  <2>1. /\ req'[r].pc = "lead" /\ req'[r].tenant = t
        /\ \A x \in Requests \ {r} : req'[x] = req[x]
    BY <1>1, <1>3, QueuesAre DEF GroupDo, Call
  <2>2. Waits(r)'
    BY <2>1 DEF Waits, Leading
  <2>3. QED
    BY <1>1, <1>2, <2>1, <2>2, WaitMaps
<1>4. CASE flight[t] # NoReq
  <2>1. /\ req'[r].pc = "follow" /\ req'[r].tenant = t
        /\ \A x \in Requests \ {r} : req'[x] = req[x]
    BY <1>1, <1>4, QueuesAre DEF GroupDo, Call
  <2>2. PICK q \in Requests : q = flight[t]
    BY <1>4 DEF TypeOK
  <2>3. Waits(q) /\ req[q].tenant = t
    BY <1>4, <2>2 DEF SingleFlight, Waits
  <2>4. r \in Service!Asking(t) /\ q \in Service!Asking(t)
    BY <1>1, <1>2, <2>3 DEF Service!Asking, AbstractCalls
  <2>5. Waits(r)'
    BY <2>1 DEF Waits
  <2>6. AbstractCall(r)' = AbstractCall(r)
    BY <1>1, <1>2, <2>1, <2>5 DEF AbstractCalls, Service!Asked
  <2>7. \A x \in Requests : AbstractCall(x)' = AbstractCall(x)
    BY <2>1, <2>6, SameCall
  <2>8. offered'[r] \subseteq offered[r] \cup offered[q]
    <3>1. Before(r) = offered[r] \cup offered[q]
      BY <1>1, <1>2, <2>1, <2>2 DEF Before
    <3>2. offered'[r] = (Before(r) \cup {cache[t]}) \cap (LiveObjs' \ {NoObj})
      BY <1>2, <2>1, <2>5 DEF OfferedNext
    <3>3. cache[t] # NoObj => cache[t] \in offered[r]
      BY <1>1, <1>2 DEF OfferedInv, EntryIsOffered
    <3>4. QED
      BY <3>1, <3>2, <3>3
  <2>9. \A x \in Requests :
           offered'[x] \subseteq IF x = r THEN offered[r] \cup offered[q] ELSE offered[x]
    BY <1>2, <2>1, <2>8, OthersKeep
  <2>10. Service!Join(r, t)
    BY <1>2, <2>4, <2>7, <2>9 DEF Service!Join
  <2>11. QED
    BY <2>10 DEF Service!ServiceNext
<1>5. QED
  BY <1>3, <1>4

LEMMA DecideMaps ==
    ASSUME TypeOK, OfferedInv, OfferedNext, AbstractCalls, AbstractCalls',
           NEW r \in Requests, Decide(r)
    PROVE  Service!ServiceNext
<1>1. /\ req'[r] = IdleCall /\ UNCHANGED cache /\ req[r].pc \in {"have", "fail"}
      /\ \A x \in Requests \ {r} : req'[x] = req[x]
  BY QueuesAre DEF Decide
<1>2. AbstractCall(r).state \in {"got", "failed"}
  BY <1>1 DEF AbstractCalls, Service!Got, Service!Failed
<1>3. req'[r].pc = "idle"
  BY <1>1 DEF IdleCall
<1>4. AbstractCall(r)' = Service!NoCall /\ ~Waits(r)'
  BY <1>3 DEF AbstractCalls, Waits, Leading, Service!NoCall
<1>5. \A x \in Requests : offered'[x] \subseteq offered[x]
  BY <1>1, <1>4, Keeps, OthersKeep
<1>6. Service!Return(r)
  BY <1>1, <1>2, <1>4, <1>5, OneCall DEF Service!Return, Service!Forgetting
<1>7. QED
  BY <1>6 DEF Service!ServiceNext

\* Every step of the registry is one of the service.
LEMMA ServiceStep ==
    ASSUME TypeOK, TypeOK', WellFormed, CacheConsistent, CacheConsistent', SingleFlight,
           CallsClean, OfferedInv, OfferedNext, AbstractCalls, AbstractCalls', Next
    PROVE  Service!ServiceNext
<1>1. ASSUME NEW r \in Requests, SecondLook(r) PROVE Service!ServiceNext
  <2>1. PICK t \in Tenants : t = req[r].tenant
    BY <1>1 DEF SecondLook, WellFormed, CallOK, Leading
  <2>2. UNCHANGED cache /\ req[r].pc \in Leading /\ Waits(r) /\ req[r].pc = "lead"
    BY <1>1 DEF SecondLook, Waits, Leading
  <2>3. CASE cache[t] # NoObj
    <3>1. PICK o : o = cache[t]
      OBVIOUS
    <3>2. Deliver(t, o, "none")
      BY <1>1, <2>1, <2>3, <3>1 DEF SecondLook
    <3>3. o \in Objs /\ o \in offered[r]
      BY <2>1, <2>2, <2>3, <3>1 DEF OfferedInv, EntryIsOffered, TypeOK
    <3>4. QED
      BY <2>1, <2>2, <3>2, <3>3, DeliverMaps
  <2>4. CASE cache[t] = NoObj
    <3>1. /\ req'[r].pc = "send" /\ req'[r].tenant = req[r].tenant
          /\ \A x \in Requests \ {r} : req'[x] = req[x]
      BY <1>1, <2>1, <2>4, QueuesAre DEF SecondLook, Call
    <3>2. Waits(r)'
      BY <3>1 DEF Waits, Leading
    <3>3. QED
      BY <2>2, <3>1, <3>2, WaitMaps
  <2>5. QED
    BY <2>3, <2>4
<1>2. ASSUME NEW r \in Requests, SendJob(r) PROVE Service!ServiceNext
  <2>1. /\ req'[r].pc = "wait" /\ req'[r].tenant = req[r].tenant
        /\ UNCHANGED cache /\ req[r].pc = "send"
        /\ \A x \in Requests \ {r} : req'[x] = req[x]
    BY <1>2, QueuesAre DEF SendJob, Call
  <2>2. Waits(r) /\ Waits(r)'
    BY <2>1 DEF Waits, Leading
  <2>3. QED
    BY <2>1, <2>2, WaitMaps
<1>3. ASSUME NEW r \in Requests, NEW e \in {"panic", "timeout"}, UNCHANGED cache,
             req[r].pc \in Leading, Deliver(req[r].tenant, NoObj, e)
      PROVE  Service!ServiceNext
  <2>1. PICK t \in Tenants : t = req[r].tenant
    BY <1>3 DEF WellFormed, CallOK
  <2>2. QED
    BY <1>3, <2>1, DeliverMaps
<1>4. ASSUME NEW r \in Requests, SendOnClosed(r) PROVE Service!ServiceNext
  BY <1>3, <1>4 DEF SendOnClosed, Leading
<1>5. ASSUME NEW r \in Requests, LoadTimeout(r) PROVE Service!ServiceNext
  BY <1>3, <1>5 DEF LoadTimeout, Leading
<1>6. ASSUME NEW r \in Requests, TakeAnswer(r) PROVE Service!ServiceNext
  <2>1. PICK t \in Tenants : t = req[r].tenant
    BY <1>6 DEF TakeAnswer, WellFormed, CallOK, Leading
  <2>2. PICK j \in Jobs : j = req[r].job
    BY <1>6, QueuesAre DEF TakeAnswer, WellFormed, CallOK, Call
  <2>3. PICK o, e : o = job[j].obj /\ e = job[j].err
    OBVIOUS
  <2>4. /\ Deliver(t, o, e) /\ UNCHANGED cache /\ req[r].pc \in Leading /\ req[r].pc = "wait"
        /\ job[j].done
    BY <1>6, <2>1, <2>2, <2>3 DEF TakeAnswer, Leading
  <2>5. e = "none" => o \in offered[r] /\ o \in Objs
    BY <2>2, <2>3, <2>4, QueuesAre DEF OfferedInv, AnswerIsOffered, WellFormed, AnswersHavePolicy, Job
  <2>6. e # "none" => o = NoObj
    BY <2>3, <2>4 DEF CallsClean
  <2>7. QED
    BY <2>1, <2>4, <2>5, <2>6, DeliverMaps
<1>7. ASSUME NEW w \in Workers, WorkerInsert(w) PROVE Service!ServiceNext
  <2>1. PICK j \in Jobs : j = worker[w].job
    BY <1>7, QueuesAre DEF WorkerInsert, WellFormed, WorkerOK, WorkerState
  <2>2. PICK t \in Tenants : t = job[j].tenant
    BY <2>1, ConstantTypes DEF WellFormed, JobsHaveTenants, UsedJobs
  <2>3. PICK o \in Objs : o = worker[w].obj
    BY <1>7, QueuesAre DEF WorkerInsert, WellFormed, WorkerOK, WorkerState
  <2>4. insert(t, o) /\ UNCHANGED req
    BY <1>7, <2>1, <2>2, <2>3 DEF WorkerInsert
  <2>5. QED
    BY <2>4, InstallMaps
<1>8. ASSUME NEW k \in Reloads, ReloadInsert(k) PROVE Service!ServiceNext
  <2>1. PICK t \in Tenants : t = reload[k].tenant
    BY <1>8 DEF ReloadInsert, WellFormed, ReloadOK
  <2>2. PICK o \in Objs : o = reload[k].next
    BY <1>8 DEF ReloadInsert, WellFormed, ReloadOK, TypeOK, ReloadState
  <2>3. insert(t, o) /\ UNCHANGED req
    BY <1>8, <2>1, <2>2 DEF ReloadInsert
  <2>4. QED
    BY <2>3, InstallMaps
<1>9. ASSUME \/ HelperPanic \/ Close \/ \E j \in Jobs : HelperSend(j)
             \/ \E w \in Workers : WorkerTake(w) \/ WorkerLoad(w) \/ WorkerReply(w) \/ WorkerExit(w)
             \/ \E k \in Reloads : \/ ReloadLoad(k) \/ ReloadLookup(k) \/ ReloadSwap(k)
                                    \/ \E t \in Tenants : ReloadTenant(k, t)
             \/ \E t \in Tenants : Publish(t) \/ Unpublish(t)
      PROVE  Service!ServiceNext
  <2>1. UNCHANGED <<cache, req>>
    BY <1>9 DEF HelperPanic, Close, HelperSend, WorkerTake, WorkerLoad, WorkerReply, WorkerExit,
       ReloadLoad, ReloadLookup, ReloadSwap, ReloadTenant, Publish, Unpublish
  <2>2. QED
    BY <2>1, QuietMaps
<1>10. QED
  BY <1>1, <1>2, <1>4, <1>5, <1>6, <1>7, <1>8, <1>9, InvalidMaps, AskMaps, GroupMaps, DecideMaps
     DEF Next, ServeNext, RequestStep, WorkerQuiet, ReloadQuiet

\* OfferedInv is inductive beside the invariants of the registry.
LEMMA OfferedStep ==
    ASSUME TypeOK, TypeOK', WellFormed, WellFormed', CacheConsistent, IsolationInv,
           SingleFlight, SingleFlight', OfferedInv, [Next /\ OfferedNext]_<<vars, offered>>
    PROVE  OfferedInv'
<1>1. CASE Next /\ OfferedNext
  <2>1. EntryIsOffered'
    BY <1>1, EntryStep
  <2>2. FollowersAreOffered'
    BY <1>1, FollowsStep, FollowersStep DEF OfferedInv
  <2>3. AnswerIsOffered'
    BY <1>1, <2>1, AnswerStep DEF OfferedInv
  <2>4. QED
    BY <2>1, <2>2, <2>3 DEF OfferedInv
<1>2. CASE UNCHANGED <<vars, offered>>
  BY <1>2 DEF vars, OfferedInv, EntryIsOffered, FollowersAreOffered, AnswerIsOffered, Waits
<1>3. QED
  BY <1>1, <1>2

\* Before the first call the service is as it begins.
LEMMA ServiceStarts ==
    ASSUME OfferedInit
    PROVE  Service!ServiceInit /\ SingleFlight /\ CallsClean /\ OfferedInv
<1>1. /\ req = [r \in Requests |-> IdleCall] /\ cache = [t \in Tenants |-> NoObj]
      /\ offered = [r \in Requests |-> {}] /\ flight = [t \in Tenants |-> NoReq]
      /\ worker = [w \in Workers |-> IdleWorker] /\ job = [j \in Jobs |-> FreeJob]
  BY DEF OfferedInit, Init
<1>2. CallsClean
  BY <1>1 DEF CallsClean, IdleCall, IdleWorker, FreeJob
<1>3. \A r \in Requests : req[r].pc = "idle" /\ ~Waits(r)
  BY <1>1 DEF IdleCall, Waits, Leading
<1>4. \A r \in Requests : AbstractCall(r) = Service!NoCall
  <2>1. AbstractCalls
    BY <1>2, TypeInit, CallsMap DEF OfferedInit
  <2>2. QED
    BY <1>3, <2>1 DEF AbstractCalls
<1>5. Service!ServiceInit
  BY <1>1, <1>4 DEF Service!ServiceInit
<1>6. SingleFlight
  BY <1>1, <1>3 DEF SingleFlight, Leading
<1>7. OfferedInv
  BY <1>3 DEF OfferedInv, EntryIsOffered, FollowersAreOffered, AnswerIsOffered
<1>8. QED
  BY <1>2, <1>5, <1>6, <1>7

\* registry.go implements PolicyService for any number of tenants, requests, workers and
\* reloads and any cache size: a call is answered with a policy the cache served for its
\* tenant during the call, or during the flight it joined, or it fails.
THEOREM RegistryImplementsService == OfferedSpec => ImplementsService
<1> DEFINE Inv == /\ TypeOK /\ WellFormed /\ CacheConsistent /\ IsolationInv /\ SingleFlight
                  /\ CallsClean /\ OfferedInv
<1>1. OfferedInit => Inv /\ Service!ServiceInit
  <2> SUFFICES ASSUME OfferedInit PROVE Inv /\ Service!ServiceInit
    OBVIOUS
  <2>1. Init
    BY DEF OfferedInit
  <2>2. CacheConsistent
    BY <2>1, CacheSizeAssumption DEF Init, CacheConsistent, Elems
  <2>3. IsolationInv
    BY <2>1 DEF Init, IsolationInv, TenantIsolation, WaitsForOwnTenant, IdleCall, IdleWorker,
       IdleReload, FreeJob
  <2>4. QED
    BY <2>1, <2>2, <2>3, TypeInit, ServiceStarts
<1>2. Inv /\ [Next /\ OfferedNext]_<<vars, offered>> => Inv'
  <2> SUFFICES ASSUME Inv, [Next /\ OfferedNext]_<<vars, offered>> PROVE Inv'
    OBVIOUS
  <2>1. [Next]_vars
    OBVIOUS
  <2>2. TypeOK' /\ WellFormed'
    BY <2>1, TypeStep, WellFormedStep
  <2>3. CacheConsistent' /\ IsolationInv' /\ SingleFlight' /\ CallsClean'
    BY <2>1, <2>2, CacheStep, IsolationStep, FlightStep, CleanStep
  <2>4. OfferedInv'
    BY <2>2, <2>3, OfferedStep
  <2>5. QED
    BY <2>2, <2>3, <2>4
<1>3. Inv /\ Inv' /\ [Next /\ OfferedNext]_<<vars, offered>>
        => [Service!ServiceNext]_(Service!serviceVars)
  <2> SUFFICES ASSUME Inv, Inv', [Next /\ OfferedNext]_<<vars, offered>>
               PROVE  [Service!ServiceNext]_(Service!serviceVars)
    OBVIOUS
  <2>1. AbstractCalls
    BY CallsMap
  <2>2. AbstractCalls'
    BY CallsMap, PTL
  <2>3. CASE Next /\ OfferedNext
    BY <2>1, <2>2, <2>3, ServiceStep
  <2>4. CASE UNCHANGED <<vars, offered>>
    <3>1. UNCHANGED <<cache, req, offered>>
      BY <2>4 DEF vars
    <3>2. \A r \in Requests : AbstractCall(r)' = AbstractCall(r)
      BY <3>1, SameCall
    <3>3. QED
      BY <3>1, <3>2 DEF Service!serviceVars
  <2>5. QED
    BY <2>3, <2>4
<1>4. QED
  BY <1>1, <1>2, <1>3, PTL DEF OfferedSpec, ImplementsService, Service!ServiceSpec
-----------------------------------------------------------------------------
(* What is kept in the cache *)

\* A move to the front keeps the others in order, behind x.
LEMMA MoveKeepsOrder ==
    ASSUME NEW S, NEW s \in Seq(S), NEW x \in Elems(s), Once(s),
           NEW i \in 1 .. Len(s), NEW j \in 1 .. Len(s), i < j
    PROVE  LET m == MoveToFront(s, x)
           IN  \/ m[i] = x /\ m[j] \in Elems(s) \ {x}
               \/ \E a, b \in 1 .. Len(s) : a < b /\ s[a] = m[i] /\ s[b] = m[j] /\ s[b] # x
<1> DEFINE at == CHOOSE n \in 1 .. Len(s) : s[n] = x
           m == MoveToFront(s, x)
           from(n) == IF n <= at THEN n - 1 ELSE n
<1>1. at \in 1 .. Len(s) /\ s[at] = x
  BY DEF Elems
<1>2. m = [n \in 1 .. Len(s) |-> IF n = 1 THEN x ELSE IF n <= at THEN s[n - 1] ELSE s[n]]
  BY DEF MoveToFront
<1> HIDE DEF at, m
<1>3. Len(s) \in Nat
  OBVIOUS
<1>4. from(j) \in 1 .. Len(s) /\ m[j] = s[from(j)] /\ from(j) # at
  BY <1>1, <1>2, <1>3
<1>5. m[j] # x
  BY <1>1, <1>4 DEF Once
<1>6. CASE i = 1
  BY <1>2, <1>4, <1>5, <1>6 DEF m, Elems
<1>7. CASE i # 1
  <2>1. from(i) \in 1 .. Len(s) /\ m[i] = s[from(i)] /\ from(i) < from(j)
    BY <1>1, <1>2, <1>3, <1>7
  <2>2. QED
    BY <1>4, <1>5, <2>1 DEF m
<1>8. QED
  BY <1>6, <1>7

\* A new entry is in front, the others keep their order, and what is evicted was behind
\* everything that is kept.
LEMMA PushKeepsOrder ==
    ASSUME NEW S, NEW s \in Seq(S), NEW x \in S, x \notin Elems(s)
    PROVE  LET p == PushFront(s, x)
               k == Kept(p)
           IN  /\ Len(k) = (IF Len(s) < CacheSize THEN Len(s) + 1 ELSE CacheSize)
               /\ \A i, j \in 1 .. Len(k) : i < j =>
                    \/ k[i] = x /\ k[j] \in Elems(s)
                    \/ \E a, b \in 1 .. Len(s) : a < b /\ s[a] = k[i] /\ s[b] = k[j]
               /\ Evicted(p) # {} => Len(s) >= CacheSize
               /\ \A u \in Evicted(p), i \in 1 .. Len(k) :
                    /\ u \in Elems(s)
                    /\ k[i] = x \/ \E a, b \in 1 .. Len(s) : a < b /\ s[a] = k[i] /\ s[b] = u
<1> DEFINE p == PushFront(s, x)
           k == Kept(p)
<1>1. Len(s) \in Nat /\ CacheSize \in Nat \ {0}
  BY CacheSizeAssumption
<1>2. p = [i \in 1 .. Len(s) + 1 |-> IF i = 1 THEN x ELSE s[i - 1]]
  BY DEF PushFront
<1>3. k = [i \in 1 .. (IF Len(p) > CacheSize THEN CacheSize ELSE Len(p)) |-> p[i]]
  BY DEF Kept
<1>4. Evicted(p) = {p[i] : i \in CacheSize + 1 .. Len(p)}
  BY DEF Evicted
<1> HIDE DEF p, k
<1>5. p \in Seq(S) /\ Len(p) = Len(s) + 1
  BY <1>1, <1>2
<1>6. Len(k) = (IF Len(s) < CacheSize THEN Len(s) + 1 ELSE CacheSize)
  BY <1>1, <1>3, <1>5
<1>7. \A i \in 1 .. Len(k) : i \in 1 .. Len(p) /\ k[i] = p[i]
  BY <1>1, <1>3, <1>5, <1>6
<1>8. ASSUME NEW i \in 1 .. Len(p), NEW j \in 1 .. Len(p), i < j
      PROVE  /\ p[j] \in Elems(s)
             /\ p[i] = x \/ \E a, b \in 1 .. Len(s) : a < b /\ s[a] = p[i] /\ s[b] = p[j]
  <2>1. j - 1 \in 1 .. Len(s) /\ p[j] = s[j - 1]
    BY <1>1, <1>2, <1>5, <1>8
  <2>2. CASE i = 1
    BY <1>2, <1>5, <2>1, <2>2 DEF Elems
  <2>3. CASE i # 1
    <3>1. i - 1 \in 1 .. Len(s) /\ p[i] = s[i - 1] /\ i - 1 < j - 1
      BY <1>1, <1>2, <1>5, <1>8, <2>3
    <3>2. QED
      BY <2>1, <3>1 DEF Elems
  <2>4. QED
    BY <2>2, <2>3
<1>9. \A u \in Evicted(p) : \E j \in 1 .. Len(p) : p[j] = u /\ \A i \in 1 .. Len(k) : i < j
  BY <1>1, <1>4, <1>5, <1>6
<1>10. ASSUME NEW i \in 1 .. Len(k), NEW j \in 1 .. Len(k), i < j
       PROVE  \/ k[i] = x /\ k[j] \in Elems(s)
              \/ \E a, b \in 1 .. Len(s) : a < b /\ s[a] = k[i] /\ s[b] = k[j]
  BY <1>7, <1>8, <1>10
<1>11. ASSUME NEW u \in Evicted(p), NEW i \in 1 .. Len(k)
       PROVE  /\ u \in Elems(s)
              /\ k[i] = x \/ \E a, b \in 1 .. Len(s) : a < b /\ s[a] = k[i] /\ s[b] = u
  <2>1. PICK j \in 1 .. Len(p) : p[j] = u /\ i < j
    BY <1>9
  <2>2. QED
    BY <1>7, <1>8, <2>1
<1>12. Evicted(p) # {} => Len(s) >= CacheSize
  BY <1>1, <1>4, <1>5
<1>13. QED
  BY <1>6, <1>10, <1>11, <1>12 DEF p, k

\* A use of t makes t later than every other tenant and changes no other order.
LEMMA UseOrders ==
    ASSUME Record, NEW t, UsedNow = {t}
    PROVE  /\ used' = used \cup {t}
           /\ \A u \in used \ {t} : <<t, u>> \in later'
           /\ \A a, b : <<a, b>> \in later /\ b # t => <<a, b>> \in later'
BY DEF Record

\* getCached on a hit.
LEMMA TouchKeepsRecent ==
    ASSUME TypeOK, CacheConsistent, KeepsMostRecent, Record, NEW t \in Tenants, UsedNow = {t},
           cache[t] # NoObj, Touch(t)
    PROVE  KeepsMostRecent'
<1>1. lru \in Seq(Tenants) /\ t \in Elems(lru) /\ Once(lru)
  BY DEF TypeOK, CacheConsistent, Once
<1>2. lru' = MoveToFront(lru, t)
  BY DEF Touch
<1>3. Len(lru') = Len(lru) /\ Elems(lru') = Elems(lru)
  BY <1>1, <1>2, MoveToFrontProps DEF Once
<1>4. Elems(lru)' = Elems(lru)
  BY <1>3 DEF Elems
<1>5. ASSUME NEW i \in 1 .. Len(lru), NEW j \in 1 .. Len(lru), i < j
      PROVE  <<lru'[i], lru'[j]>> \in later'
  <2>1. \/ lru'[i] = t /\ lru'[j] \in Elems(lru) \ {t}
        \/ \E a, b \in 1 .. Len(lru) : a < b /\ lru[a] = lru'[i] /\ lru[b] = lru'[j] /\ lru[b] # t
    BY <1>1, <1>2, <1>5, MoveKeepsOrder
  <2>2. QED
    BY <2>1, UseOrders DEF KeepsMostRecent
<1>6. used' = used
  BY <1>1, UseOrders DEF KeepsMostRecent
<1>7. ASSUME NEW u \in used \ Elems(lru), NEW x \in Elems(lru)
      PROVE  Len(lru) = CacheSize /\ <<x, u>> \in later'
  BY <1>1, <1>7, UseOrders DEF KeepsMostRecent
<1>8. ASSUME NEW u \in used \ Elems(lru)
      PROVE  Len(lru) = CacheSize
  BY <1>8 DEF KeepsMostRecent
<1>9. QED
  BY <1>3, <1>4, <1>5, <1>6, <1>7, <1>8 DEF KeepsMostRecent

\* insert.
LEMMA InsertKeepsRecent ==
    ASSUME TypeOK, CacheConsistent, KeepsMostRecent, Record, NEW t \in Tenants, UsedNow = {t},
           NEW o, insert(t, o)
    PROVE  KeepsMostRecent'
<1>1. CASE cache[t] # NoObj
  BY <1>1, TouchKeepsRecent DEF insert
<1>2. CASE cache[t] = NoObj
  <2>1. lru \in Seq(Tenants) /\ t \notin Elems(lru) /\ Len(lru) <= CacheSize /\ Once(lru)
    BY <1>2 DEF TypeOK, CacheConsistent, Once
  <2>2. PICK p : p = PushFront(lru, t)
    OBVIOUS
  <2>3. lru' = Kept(p)
    BY <1>2, <2>2 DEF insert
  <2>4. Elems(lru)' = Elems(lru')
    BY DEF Elems
  <2>5. Elems(lru') = (Elems(lru) \cup {t}) \ Evicted(p) /\ t \in Elems(lru')
    BY <2>1, <2>2, <2>3, PushAndEvict DEF Once
  <2>6. /\ Len(lru') = (IF Len(lru) < CacheSize THEN Len(lru) + 1 ELSE CacheSize)
        /\ \A i, j \in 1 .. Len(lru') : i < j =>
             \/ lru'[i] = t /\ lru'[j] \in Elems(lru)
             \/ \E a, b \in 1 .. Len(lru) : a < b /\ lru[a] = lru'[i] /\ lru[b] = lru'[j]
        /\ Evicted(p) # {} => Len(lru) >= CacheSize
        /\ \A u \in Evicted(p), i \in 1 .. Len(lru') :
             /\ u \in Elems(lru)
             /\ \/ lru'[i] = t
                \/ \E a, b \in 1 .. Len(lru) : a < b /\ lru[a] = lru'[i] /\ lru[b] = u
    BY <2>1, <2>2, <2>3, PushKeepsOrder
  <2>7. \A a, b \in 1 .. Len(lru) : a < b => <<lru[a], lru[b]>> \in later'
    BY <2>1, UseOrders DEF KeepsMostRecent, Elems
  <2>8. \A u \in Elems(lru) : <<t, u>> \in later'
    BY <2>1, UseOrders DEF KeepsMostRecent
  <2>9. \A i, j \in 1 .. Len(lru') : i < j => <<lru'[i], lru'[j]>> \in later'
    BY <2>6, <2>7, <2>8, SMTT(30)
  <2>10. Elems(lru') \subseteq used'
    BY <2>5, UseOrders DEF KeepsMostRecent
  <2>11. ASSUME NEW u \in used' \ Elems(lru')
         PROVE  Len(lru') = CacheSize /\ \A x \in Elems(lru') : <<x, u>> \in later'
    <3>1. u \in used /\ u # t
      BY <2>5, <2>11, UseOrders
    <3>2. CASE u \notin Elems(lru)
      <4>1. Len(lru) = CacheSize /\ \A x \in Elems(lru) : <<x, u>> \in later
        BY <3>1, <3>2 DEF KeepsMostRecent
      <4>2. Len(lru') = CacheSize
        BY <2>6, <4>1, CacheSizeAssumption
      <4>3. \A x \in Elems(lru) \cup {t} : <<x, u>> \in later'
        BY <3>1, <4>1, UseOrders
      <4>4. QED
        BY <2>5, <4>2, <4>3
    <3>3. CASE u \in Elems(lru)
      <4>1. u \in Evicted(p)
        BY <2>5, <2>11, <3>3
      <4>2. \A i \in 1 .. Len(lru') : <<lru'[i], u>> \in later'
        BY <2>6, <2>7, <2>8, <4>1
      <4>3. Len(lru') = CacheSize
        BY <2>1, <2>6, <4>1, CacheSizeAssumption
      <4>4. QED
        BY <4>2, <4>3 DEF Elems
    <3>4. QED
      BY <3>2, <3>3
  <2>12. QED
    BY <2>4, <2>9, <2>10, <2>11 DEF KeepsMostRecent
<1>3. QED
  BY <1>1, <1>2

\* A request finds its tenant in the cache.
Hits(r) == req[r].pc \in {"idle", "lead"} /\ req'[r].pc = "have"
\* A worker, or a reload, inserts.
Inserts(w) == worker[w].pc = "loaded" /\ worker'[w].pc = "reply"
Reinserts(k) == reload[k].pc = "insert" /\ reload'[k].pc = "idle"

LEMMA UsedNowIs ==
    UsedNow = {req'[r].tenant : r \in {r \in Requests : Hits(r)}}
              \cup {job[worker[w].job].tenant : w \in {w \in Workers : Inserts(w)}}
              \cup {reload[k].tenant : k \in {k \in Reloads : Reinserts(k)}}
BY DEF UsedNow, Hits, Inserts, Reinserts

\* A step that uses nothing and leaves the list alone.
LEMMA UnusedKeepsRecent ==
    ASSUME KeepsMostRecent, Record, UNCHANGED lru,
           \A r \in Requests : ~Hits(r), \A w \in Workers : ~Inserts(w),
           \A k \in Reloads : ~Reinserts(k)
    PROVE  KeepsMostRecent'
<1>1. UsedNow = {}
  BY UsedNowIs
<1>2. used' = used
  BY <1>1 DEF Record
<1>3. \A a, b : <<a, b>> \in later => <<a, b>> \in later'
  BY <1>1 DEF Record
<1>4. Elems(lru)' = Elems(lru)
  BY DEF Elems
<1>5. QED
  BY <1>2, <1>3, <1>4 DEF KeepsMostRecent

LEMMA IdleSteps ==
    /\ UNCHANGED req => \A r \in Requests : ~Hits(r)
    /\ UNCHANGED worker => \A w \in Workers : ~Inserts(w)
    /\ UNCHANGED reload => \A k \in Reloads : ~Reinserts(k)
BY DEF Hits, Inserts, Reinserts

\* The end of a flight whose leader is past its second look is a hit of nobody.
LEMMA DeliverHitsNobody ==
    ASSUME TypeOK, SingleFlight, NEW r \in Requests, req[r].pc \in {"send", "wait"},
           NEW o, NEW e, Deliver(req[r].tenant, o, e)
    PROVE  \A x \in Requests : ~Hits(x)
<1>1. flight[req[r].tenant] = r
  BY DEF SingleFlight, Leading
<1>2. ASSUME NEW x \in Requests, Hits(x) PROVE FALSE
  <2>1. x # r /\ req[x].pc # "follow"
    BY <1>2 DEF Hits
  <2>2. req'[x] = req[x]
    BY <1>1, <2>1 DEF Deliver
  <2>3. QED
    BY <1>2, <2>2 DEF Hits
<1>3. QED
  BY <1>2

\* Every step keeps the most recently used tenants cached, in order.
LEMMA RecentStep ==
    ASSUME TypeOK, WellFormed, CacheConsistent, SingleFlight, KeepsMostRecent,
           [LRUNext]_<<vars, used, later>>
    PROVE  KeepsMostRecent'
<1>0. CASE UNCHANGED <<vars, used, later>>
  <2>1. UNCHANGED <<lru, used, later>>
    BY <1>0 DEF vars
  <2>2. Elems(lru)' = Elems(lru)
    BY <2>1 DEF Elems
  <2>3. QED
    BY <2>1, <2>2 DEF KeepsMostRecent
<1> SUFFICES ASSUME Next, Record PROVE KeepsMostRecent'
  BY <1>0 DEF LRUNext
<1>1. req \in [Requests -> Call] /\ worker \in [Workers -> WorkerState]
      /\ reload \in [Reloads -> ReloadState]
  BY DEF TypeOK
<1>2. ASSUME NEW r \in Requests, NEW t \in Tenants, TenantPolicyFor(r, t) PROVE KeepsMostRecent'
  <2>1. UNCHANGED <<worker, reload>> /\ \A x \in Requests \ {r} : req'[x] = req[x]
    BY <1>1, <1>2 DEF TenantPolicyFor
  <2>2. \A x \in Requests \ {r} : ~Hits(x)
    BY <2>1 DEF Hits
  <2>3. CASE cache[t] # NoObj
    <3>1. req'[r].pc = "have" /\ req'[r].tenant = t /\ req[r].pc = "idle" /\ Touch(t)
      BY <1>1, <1>2, <2>3 DEF TenantPolicyFor, Result
    <3>2. UsedNow = {t}
      BY <2>1, <2>2, <3>1, UsedNowIs, IdleSteps DEF Hits
    <3>3. QED
      BY <2>3, <3>1, <3>2, TouchKeepsRecent
  <2>4. CASE cache[t] = NoObj
    <3>1. req'[r].pc = "miss" /\ UNCHANGED lru
      BY <1>1, <1>2, <2>4 DEF TenantPolicyFor, IdleCall
    <3>2. QED
      BY <2>1, <2>2, <3>1, UnusedKeepsRecent, IdleSteps DEF Hits
  <2>5. QED
    BY <2>3, <2>4
<1>3. ASSUME NEW r \in Requests, SecondLook(r) PROVE KeepsMostRecent'
  <2> DEFINE t == req[r].tenant
  <2>1. t \in Tenants /\ flight[t] = r /\ req[r].pc = "lead" /\ UNCHANGED <<worker, reload>>
    BY <1>3 DEF SecondLook, WellFormed, CallOK, Leading, SingleFlight
  <2>2. CASE cache[t] # NoObj
    <3>1. Touch(t) /\ Deliver(t, cache[t], "none")
      BY <1>3, <2>2 DEF SecondLook
    <3>2. req'[r].pc = "have" /\ req'[r].tenant = t
      BY <1>1, <2>1, <3>1 DEF Deliver, Result
    <3>3. \A x \in Requests \ {r} : ~Hits(x)
      BY <1>1, <2>1, <3>1 DEF Deliver, Hits
    <3>4. UsedNow = {t}
      BY <2>1, <3>2, <3>3, UsedNowIs, IdleSteps DEF Hits
    <3>5. QED
      BY <2>1, <2>2, <3>1, <3>4, TouchKeepsRecent
  <2>3. CASE cache[t] = NoObj
    <3>1. req' = [req EXCEPT ![r].pc = "send"] /\ UNCHANGED lru
      BY <1>3, <2>3 DEF SecondLook
    <3>2. \A x \in Requests : ~Hits(x)
      BY <1>1, <3>1 DEF Hits
    <3>3. QED
      BY <2>1, <3>1, <3>2, UnusedKeepsRecent, IdleSteps
  <2>4. QED
    BY <2>2, <2>3
<1>4. ASSUME NEW w \in Workers, WorkerInsert(w) PROVE KeepsMostRecent'
  <2> DEFINE t == job[worker[w].job].tenant
  <2>1. t \in Tenants
    BY <1>4 DEF WorkerInsert, WellFormed, WorkerOK, JobsHaveTenants, TypeOK, WorkerState, UsedJobs
  <2>2. insert(t, worker[w].obj) /\ UNCHANGED <<req, reload>> /\ worker[w].pc = "loaded"
        /\ worker' = [worker EXCEPT ![w].pc = "reply"]
    BY <1>4 DEF WorkerInsert
  <2>3. Inserts(w) /\ \A v \in Workers \ {w} : ~Inserts(v)
    BY <1>1, <2>2 DEF Inserts
  <2>4. UsedNow = {t}
    BY <2>2, <2>3, UsedNowIs, IdleSteps
  <2>5. QED
    BY <2>1, <2>2, <2>4, InsertKeepsRecent
<1>5. ASSUME NEW k \in Reloads, ReloadInsert(k) PROVE KeepsMostRecent'
  <2> DEFINE t == reload[k].tenant
  <2>1. t \in Tenants
    BY <1>5 DEF ReloadInsert, WellFormed, ReloadOK
  <2>2. insert(t, reload[k].next) /\ UNCHANGED <<req, worker>> /\ reload[k].pc = "insert"
        /\ reload' = [reload EXCEPT ![k] = IdleReload]
    BY <1>5 DEF ReloadInsert
  <2>3. Reinserts(k) /\ \A l \in Reloads \ {k} : ~Reinserts(l)
    BY <1>1, <2>2 DEF Reinserts, IdleReload
  <2>4. UsedNow = {t}
    BY <2>2, <2>3, UsedNowIs, IdleSteps
  <2>5. QED
    BY <2>1, <2>2, <2>4, InsertKeepsRecent
<1>6. ASSUME NEW r \in Requests,
             TenantPolicyForInvalid(r) \/ GroupDo(r) \/ SendJob(r) \/ Decide(r)
      PROVE  KeepsMostRecent'
  <2>1. UNCHANGED <<lru, worker, reload>> /\ \A x \in Requests \ {r} : req'[x] = req[x]
    BY <1>1, <1>6 DEF TenantPolicyForInvalid, GroupDo, SendJob, Decide
  <2>2. req'[r].pc # "have"
    <3>1. CASE TenantPolicyForInvalid(r)
      BY <1>1, <3>1 DEF TenantPolicyForInvalid, Result
    <3>2. CASE GroupDo(r)
      <4>1. req' = [req EXCEPT ![r].pc = "lead"] \/ req' = [req EXCEPT ![r].pc = "follow"]
        BY <3>2 DEF GroupDo
      <4>2. req'[r].pc \in {"lead", "follow"}
        BY <1>1, <4>1 DEF Call
      <4>3. QED
        BY <4>2
    <3>3. CASE SendJob(r)
      <4>1. PICK j \in Jobs : req' = [req EXCEPT ![r].pc = "wait", ![r].job = j]
        BY <3>3 DEF SendJob
      <4>2. QED
        BY <1>1, <4>1
    <3>4. CASE Decide(r)
      BY <1>1, <3>4 DEF Decide, IdleCall
    <3>5. QED
      BY <1>6, <3>1, <3>2, <3>3, <3>4
  <2>3. \A x \in Requests : ~Hits(x)
    BY <2>1, <2>2 DEF Hits
  <2>4. QED
    BY <2>1, <2>3, UnusedKeepsRecent, IdleSteps
<1>7. ASSUME NEW r \in Requests, SendOnClosed(r) \/ TakeAnswer(r) \/ LoadTimeout(r)
      PROVE  KeepsMostRecent'
  <2>1. UNCHANGED <<lru, worker, reload>> /\ req[r].pc \in {"send", "wait"}
    BY <1>7 DEF SendOnClosed, TakeAnswer, LoadTimeout
  <2>2. PICK o, e : Deliver(req[r].tenant, o, e)
    BY <1>7 DEF SendOnClosed, TakeAnswer, LoadTimeout
  <2>3. \A x \in Requests : ~Hits(x)
    BY <2>1, <2>2, DeliverHitsNobody
  <2>4. QED
    BY <2>1, <2>3, UnusedKeepsRecent, IdleSteps
<1>8. ASSUME NEW w \in Workers, WorkerTake(w) \/ WorkerLoad(w) \/ WorkerReply(w) \/ WorkerExit(w)
      PROVE  KeepsMostRecent'
  <2>1. UNCHANGED <<lru, req, reload>> /\ worker[w].pc # "loaded"
    BY <1>8 DEF WorkerTake, WorkerLoad, WorkerReply, WorkerExit
  <2>2. \A v \in Workers \ {w} : worker'[v] = worker[v]
    BY <1>1, <1>8 DEF WorkerTake, WorkerLoad, WorkerReply, WorkerExit
  <2>3. \A v \in Workers : ~Inserts(v)
    BY <2>1, <2>2 DEF Inserts
  <2>4. QED
    BY <2>1, <2>3, UnusedKeepsRecent, IdleSteps
<1>9. ASSUME NEW k \in Reloads,
             \/ ReloadLoad(k) \/ ReloadLookup(k) \/ ReloadSwap(k)
             \/ \E t \in Tenants : ReloadTenant(k, t)
      PROVE  KeepsMostRecent'
  <2>1. UNCHANGED <<lru, req, worker>> /\ reload[k].pc # "insert"
    BY <1>9 DEF ReloadTenant, ReloadLoad, ReloadLookup, ReloadSwap
  <2>2. \A l \in Reloads \ {k} : reload'[l] = reload[l]
    BY <1>1, <1>9 DEF ReloadTenant, ReloadLoad, ReloadLookup, ReloadSwap
  <2>3. \A l \in Reloads : ~Reinserts(l)
    BY <2>1, <2>2 DEF Reinserts
  <2>4. QED
    BY <2>1, <2>3, UnusedKeepsRecent, IdleSteps
<1>10. ASSUME \/ HelperPanic \/ Close \/ \E j \in Jobs : HelperSend(j)
              \/ \E t \in Tenants : Publish(t) \/ Unpublish(t)
       PROVE  KeepsMostRecent'
  <2>1. UNCHANGED <<lru, req, worker, reload>>
    BY <1>10 DEF HelperPanic, Close, HelperSend, Publish, Unpublish
  <2>2. QED
    BY <2>1, UnusedKeepsRecent, IdleSteps
<1>11. QED
  BY <1>2, <1>3, <1>4, <1>5, <1>6, <1>7, <1>8, <1>9, <1>10
     DEF Next, ServeNext, RequestStep, WorkerQuiet, ReloadQuiet

\* getCached, insert: for every CacheSize and however hits, cold loads and reload inserts
\* of any number of goroutines interleave, the cache holds the most recently used tenants
\* and the list has them in that order, so what is evicted is the least recently used.
THEOREM EvictsLeastRecent == LRUSpec => []KeepsMostRecent
<1> DEFINE Inv == TypeOK /\ WellFormed /\ CacheConsistent /\ SingleFlight /\ KeepsMostRecent
<1>1. LRUInit => Inv
  <2> SUFFICES ASSUME LRUInit PROVE Inv
    OBVIOUS
  <2>1. Init /\ used = {} /\ later = {} /\ lru = <<>>
    BY DEF LRUInit, Init
  <2>2. CacheConsistent
    BY <2>1, CacheSizeAssumption DEF Init, CacheConsistent, Elems
  <2>3. SingleFlight
    BY <2>1 DEF Init, SingleFlight, IdleCall, Leading
  <2>4. KeepsMostRecent
    BY <2>1 DEF KeepsMostRecent, Elems
  <2>5. QED
    BY <2>1, <2>2, <2>3, <2>4, TypeInit
<1>2. Inv /\ [LRUNext]_<<vars, used, later>> => Inv'
  <2> SUFFICES ASSUME Inv, [LRUNext]_<<vars, used, later>> PROVE Inv'
    OBVIOUS
  <2>1. [Next]_vars
    BY DEF LRUNext
  <2>2. TypeOK' /\ WellFormed' /\ CacheConsistent' /\ SingleFlight'
    BY <2>1, TypeStep, WellFormedStep, CacheStep, FlightStep
  <2>3. QED
    BY <2>2, RecentStep
<1>3. QED
  BY <1>1, <1>2, PTL DEF LRUSpec

=============================================================================
