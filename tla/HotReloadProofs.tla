-------------------------- MODULE HotReloadProofs ---------------------------
(***************************************************************************)
(* Theorems about the registry and its watcher, for any number of tenants, *)
(* requests, workers and timers.                                           *)
(***************************************************************************)
EXTENDS HotReload, RegistryProofs

\* Worker w, or reload k, has read a policy of t and not installed it yet.
WorkerHas(w, t) == worker[w].pc = "loaded" /\ job[worker[w].job].tenant = t
ReloadHas(k, t) == reload[k].pc \in {"loaded", "swap", "insert"} /\ reload[k].tenant = t

\* The loop watches only directories that exist.
EventsOfDirs == \A i \in 1 .. Len(events) : events[i].tenant \in dirs

\* A change that raised an event is on its way to a read: as the event, as a timer, or as a
\* reload that has not read yet.
FileQueued(t) == \E i \in 1 .. Len(events) : events[i].kind = "file" /\ events[i].tenant = t
AboutToRead(t) == \E k \in Reloads : reload[k].pc = "read" /\ reload[k].tenant = t
Awaited(t) == FileQueued(t) \/ W!TimersOf(t) # {} \/ AboutToRead(t)

ChangeAwaited ==
    running => \A t \in Tenants : seen[t] # disk[t].ver /\ t \notin missed => Awaited(t)

SeenNotAhead == \A t \in Tenants : seen[t] <= disk[t].ver

\* Reads of t that did not overlap: one at most is not installed yet, and the object a
\* reload is about to overwrite is the cached one, unless that was evicted.
Apart(t) ==
    /\ \A v, w \in Workers : WorkerHas(v, t) /\ WorkerHas(w, t) => v = w
    /\ \A k, l \in Reloads : ReloadHas(k, t) /\ ReloadHas(l, t) => k = l
    /\ \A w \in Workers, k \in Reloads : ~(WorkerHas(w, t) /\ ReloadHas(k, t))
    /\ \A k \in Reloads : reload[k].pc = "swap" /\ reload[k].tenant = t =>
          cache[t] \in {reload[k].target, NoObj}

\* Version v of the policy of t is on its way to the cache, or there.
Serves(t, v) ==
    /\ \A w \in Workers : WorkerHas(w, t) => heap[worker[w].obj].ver = v
    /\ \A k \in Reloads : ReloadHas(k, t) => heap[reload[k].next].ver = v
    /\ Installing(t) = {} /\ cache[t] # NoObj => heap[cache[t]].ver = v

\* The latest read of t was of what policy.db holds now, and alone.
Current(t) == t \notin overlapped /\ seen[t] = disk[t].ver /\ disk[t].state = "ok"

ReadsGood(t) == (t \notin overlapped => Apart(t)) /\ (Current(t) => Serves(t, seen[t]))

HotInv ==
    EventsOfDirs /\ ChangeAwaited /\ SeenNotAhead /\ \A t \in Tenants : ReadsGood(t)

-----------------------------------------------------------------------------
(* The watcher *)

LEMMA QueueTail ==
    ASSUME NEW S, NEW s \in Seq(S), s # <<>>
    PROVE  /\ Head(s) = s[1] /\ Head(s) \in S /\ 1 \in 1 .. Len(s)
           /\ Tail(s) \in Seq(S) /\ Len(Tail(s)) = Len(s) - 1
           /\ \A i \in 1 .. Len(Tail(s)) : i + 1 \in 1 .. Len(s) /\ Tail(s)[i] = s[i + 1]
OBVIOUS

LEMMA QueueAppend ==
    ASSUME NEW S, NEW s \in Seq(S), NEW e \in S
    PROVE  /\ Append(s, e) \in Seq(S) /\ Len(Append(s, e)) = Len(s) + 1
           /\ \A i \in 1 .. Len(s) : Append(s, e)[i] = s[i]
           /\ Append(s, e)[Len(s) + 1] = e
OBVIOUS

\* What a timer is, with or without a callback to run.
LEMMA TimerIs ==
    ASSUME W!WatcherTypeOK, NEW k \in Reloads
    PROVE  \/ timer[k] = W!IdleTimer /\ timer[k].pc = "free"
           \/ /\ timer[k].tenant \in Tenants /\ timer[k].pc \in {"armed", "fired"}
              /\ timer[k] = W!Timer(timer[k].pc, timer[k].tenant)
<1>1. timer[k] \in {W!IdleTimer} \cup {W!Timer(pc, t) : pc \in {"armed", "fired"}, t \in Tenants}
  BY DEF W!WatcherTypeOK
<1>2. CASE timer[k] = W!IdleTimer
  BY <1>2 DEF W!IdleTimer
<1>3. ASSUME NEW pc \in {"armed", "fired"}, NEW t \in Tenants, timer[k] = W!Timer(pc, t)
      PROVE  /\ timer[k].tenant \in Tenants /\ timer[k].pc \in {"armed", "fired"}
             /\ timer[k] = W!Timer(timer[k].pc, timer[k].tenant)
  BY <1>3 DEF W!Timer
<1>4. QED
  BY <1>1, <1>2, <1>3

\* The parts of the watcher's invariant that a step may disturb: the queue, and the timers
\* with the map that names them.
EventsOK == events \in Seq(W!Event) /\ Len(events) <= EventCap /\ EventsOfDirs
TimersOK ==
    /\ timer \in [Reloads -> {W!IdleTimer} \cup {W!Timer(pc, t) : pc \in {"armed", "fired"}, t \in Tenants}]
    /\ pending \in [Tenants -> Reloads \cup {NoTimer}]
    /\ running \in BOOLEAN
    /\ running => \A t \in Tenants : pending[t] # NoTimer => pending[t] \in W!TimersOf(t)
DirsOK == dirs \subseteq Tenants /\ watched \subseteq dirs

LEMMA WatcherParts == W!WatcherTypeOK /\ EventsOfDirs <=> EventsOK /\ TimersOK /\ DirsOK
BY DEF W!WatcherTypeOK, EventsOK, TimersOK, DirsOK

LEMMA NotifyOK ==
    ASSUME EventsOK, DirsOK, NEW t \in dirs', NEW kind \in {"dir", "file", "other"},
           NEW b, b => Len(events) < EventCap, W!Notify(kind, t, b), dirs' = dirs \cup {t},
           t \in Tenants
    PROVE  EventsOK'
<1>1. PICK e : e = [kind |-> kind, tenant |-> t]
  OBVIOUS
<1>2. e \in W!Event /\ e.tenant = t
  BY <1>1 DEF W!Event
<1>3. CASE b
  <2>1. events' = Append(events, e) /\ Len(events) < EventCap
    BY <1>1, <1>3 DEF W!Notify
  <2>2. events' \in Seq(W!Event) /\ Len(events') <= EventCap
    BY <1>2, <2>1, QueueAppend, EventCapAssumption DEF EventsOK
  <2>3. \A i \in 1 .. Len(events') : events'[i].tenant \in dirs'
    BY <1>2, <2>1 DEF EventsOK, EventsOfDirs
  <2>4. QED
    BY <2>2, <2>3 DEF EventsOK, EventsOfDirs
<1>4. CASE ~b
  BY <1>4 DEF W!Notify, EventsOK, EventsOfDirs
<1>5. QED
  BY <1>3, <1>4

LEMMA TakeEventOK ==
    ASSUME EventsOK, events # <<>>, events' = Tail(events), UNCHANGED dirs
    PROVE  EventsOK' /\ Head(events).tenant \in dirs /\ Head(events) \in W!Event
<1>1. /\ Head(events) = events[1] /\ Head(events) \in W!Event /\ 1 \in 1 .. Len(events)
      /\ events' \in Seq(W!Event) /\ Len(events') = Len(events) - 1
      /\ \A i \in 1 .. Len(events') : i + 1 \in 1 .. Len(events) /\ events'[i] = events[i + 1]
  BY QueueTail DEF EventsOK
<1>2. Len(events) \in Nat
  BY DEF EventsOK
<1>3. Len(events') <= EventCap
  BY <1>1, <1>2, EventCapAssumption DEF EventsOK
<1>4. QED
  BY <1>1, <1>3 DEF EventsOK, EventsOfDirs

\* schedule keeps the timers of other tenants and leaves its own tenant one.
LEMMA ScheduleOK ==
    ASSUME TimersOK, running, UNCHANGED running, NEW t \in Tenants, NEW k \in Reloads,
           W!schedule(t, k)
    PROVE  TimersOK' /\ \A u \in Tenants : W!TimersOf(u) # {} \/ u = t => W!TimersOf(u)' # {}
<1> DEFINE tm == IF pending[t] # NoTimer THEN W!Stopped(timer, pending[t]) ELSE timer
           Kinds == {W!IdleTimer} \cup {W!Timer(pc, u) : pc \in {"armed", "fired"}, u \in Tenants}
<1>1. /\ timer[k].pc = "free" /\ timer' = [tm EXCEPT ![k] = W!Timer("armed", t)]
      /\ pending' = [pending EXCEPT ![t] = k]
  BY DEF W!schedule
<1>2. tm \in [Reloads -> Kinds] /\ \A l \in Reloads : l # pending[t] => tm[l] = timer[l]
  BY DEF TimersOK, W!Stopped
<1>3. W!Timer("armed", t) \in Kinds /\ W!Timer("armed", t).pc = "armed" /\ W!Timer("armed", t).tenant = t
  BY DEF W!Timer
<1>4. timer' \in [Reloads -> Kinds] /\ pending' \in [Tenants -> Reloads \cup {NoTimer}]
  BY <1>1, <1>2, <1>3 DEF TimersOK
<1>5. \A l \in Reloads : l # pending[t] /\ l # k => timer'[l] = timer[l]
  BY <1>1, <1>2
<1>6. timer'[k].pc # "free" /\ timer'[k].tenant = t
  BY <1>1, <1>2, <1>3
<1>7. pending[t] # NoTimer => pending[t] \in W!TimersOf(t)
  BY DEF TimersOK
<1>8. \A u \in Tenants \ {t} : \A l \in W!TimersOf(u) : l \in (W!TimersOf(u))'
  <2> SUFFICES ASSUME NEW u \in Tenants \ {t}, NEW l \in W!TimersOf(u)
               PROVE  l \in (W!TimersOf(u))'
    OBVIOUS
  <2>1. l \in Reloads /\ timer[l].pc # "free" /\ timer[l].tenant = u
    BY DEF W!TimersOf
  <2>2. l # k
    BY <1>1, <2>1
  <2>3. l # pending[t]
    BY <1>7, <2>1, NoTimerAssumption DEF W!TimersOf
  <2>4. QED
    BY <1>5, <2>1, <2>2, <2>3 DEF W!TimersOf
<1>9. k \in (W!TimersOf(t))'
  BY <1>6 DEF W!TimersOf
<1>10. \A u \in Tenants : pending'[u] # NoTimer => pending'[u] \in (W!TimersOf(u))'
  <2> SUFFICES ASSUME NEW u \in Tenants, pending'[u] # NoTimer
               PROVE  pending'[u] \in (W!TimersOf(u))'
    OBVIOUS
  <2>1. CASE u = t
    BY <1>1, <1>9, <2>1 DEF TimersOK
  <2>2. CASE u # t
    BY <1>1, <1>8, <2>2 DEF TimersOK
  <2>3. QED
    BY <2>1, <2>2
<1>11. TimersOK'
  BY <1>4, <1>10 DEF TimersOK
<1>12. QED
  BY <1>8, <1>9, <1>11

\* An expired timer is still one of its tenant's, and so are all others.
LEMMA FireOK ==
    ASSUME TimersOK, NEW k \in Reloads, W!Fire(k)
    PROVE  TimersOK' /\ \A u \in Tenants : (W!TimersOf(u))' = W!TimersOf(u)
<1> DEFINE Kinds == {W!IdleTimer} \cup {W!Timer(pc, u) : pc \in {"armed", "fired"}, u \in Tenants}
<1>1. timer \in [Reloads -> Kinds] /\ UNCHANGED <<pending, running>> /\ timer[k].pc = "armed"
  BY DEF TimersOK, W!Fire
<1>2. PICK u \in Tenants : timer[k] = W!Timer("armed", u)
  BY <1>1 DEF W!Timer, W!IdleTimer
<1>3. timer' = [timer EXCEPT ![k] = W!Timer("fired", u)]
  <2>1. timer' = [timer EXCEPT ![k] = [timer[k] EXCEPT !.pc = "fired"]]
    BY <1>1 DEF W!Fire
  <2>2. [W!Timer("armed", u) EXCEPT !.pc = "fired"] = W!Timer("fired", u)
    BY DEF W!Timer
  <2>3. QED
    BY <1>2, <2>1, <2>2
<1>4. timer' \in [Reloads -> Kinds]
  BY <1>1, <1>3
<1>5. /\ timer'[k].pc = "fired" /\ timer'[k].tenant = u /\ timer[k].tenant = u
      /\ \A l \in Reloads \ {k} : timer'[l] = timer[l]
  BY <1>1, <1>2, <1>3 DEF W!Timer
<1>6. \A v \in Tenants : (W!TimersOf(v))' = W!TimersOf(v)
  BY <1>1, <1>5 DEF W!TimersOf
<1>7. QED
  BY <1>1, <1>4, <1>6 DEF TimersOK

\* The callback takes its timer, and the map's entry of its tenant, and no other.
LEMMA CallbackOK ==
    ASSUME TimersOK, NEW k \in Reloads, W!Callback(k)
    PROVE  /\ TimersOK' /\ timer[k].tenant \in Tenants
           /\ \A u \in Tenants : u # timer[k].tenant => (W!TimersOf(u))' = W!TimersOf(u)
<1> DEFINE Kinds == {W!IdleTimer} \cup {W!Timer(pc, u) : pc \in {"armed", "fired"}, u \in Tenants}
<1>1. timer \in [Reloads -> Kinds] /\ UNCHANGED running /\ timer[k].pc = "fired"
  BY DEF TimersOK, W!Callback
<1>2. PICK u \in Tenants : timer[k].tenant = u
  BY <1>1 DEF W!Timer, W!IdleTimer
<1>3. timer' = [timer EXCEPT ![k] = W!IdleTimer] /\ pending' = [pending EXCEPT ![u] = NoTimer]
  BY <1>2 DEF W!Callback
<1>4. /\ timer' \in [Reloads -> Kinds] /\ timer'[k].pc = "free"
      /\ \A l \in Reloads \ {k} : timer'[l] = timer[l]
  BY <1>1, <1>3 DEF W!IdleTimer
<1>5. \A v \in Tenants : v # u => (W!TimersOf(v))' = W!TimersOf(v)
  BY <1>1, <1>2, <1>4 DEF W!TimersOf
<1>6. pending' \in [Tenants -> Reloads \cup {NoTimer}]
  BY <1>3 DEF TimersOK
<1>7. running' => \A v \in Tenants : pending'[v] # NoTimer => pending'[v] \in (W!TimersOf(v))'
  BY <1>1, <1>3, <1>5 DEF TimersOK
<1>8. QED
  BY <1>1, <1>2, <1>4, <1>5, <1>6, <1>7 DEF TimersOK

LEMMA CancelOK ==
    ASSUME TimersOK, W!Cancel
    PROVE  TimersOK'
<1> DEFINE Kinds == {W!IdleTimer} \cup {W!Timer(pc, u) : pc \in {"armed", "fired"}, u \in Tenants}
<1>1. timer \in [Reloads -> Kinds]
  BY DEF TimersOK
<1>2. \A k \in Reloads : W!Stopped(timer, k)[k] \in Kinds
  BY <1>1 DEF W!Stopped
<1>3. timer' \in [Reloads -> Kinds]
  BY <1>1, <1>2 DEF W!Cancel
<1>4. ~running' /\ running' \in BOOLEAN /\ UNCHANGED pending
  BY DEF W!Cancel
<1>5. pending' \in [Tenants -> Reloads \cup {NoTimer}]
  BY <1>4 DEF TimersOK
<1>6. QED
  BY <1>3, <1>4, <1>5 DEF TimersOK

\* A step of registry and watcher is one of the registry, or leaves it alone.
LEMMA HotIsNext == TimersOK /\ [HotNext]_hotVars => [Next]_vars
<1> SUFFICES ASSUME TimersOK, [HotNext]_hotVars PROVE [Next]_vars
  OBVIOUS
<1>1. ASSUME HotNext PROVE [Next]_vars
  <2>0. status # "crashed"
    BY <1>1 DEF HotNext
  <2>1. CASE ServeStep
    BY <2>0, <2>1 DEF ServeStep, Next
  <2>2. ASSUME NEW w \in Workers, ColdRead(w) PROVE Next
    BY <2>0, <2>2 DEF ColdRead, Next
  <2>3. ASSUME NEW k \in Reloads, ReloadRead(k) \/ ReloadInstall(k) PROVE Next
    BY <2>0, <2>3 DEF ReloadRead, ReloadInstall, Next
  <2>4. ASSUME NEW k \in Reloads, TimerCallback(k) PROVE Next
    <3>1. timer[k].tenant \in Tenants
      BY <2>4, CallbackOK DEF TimerCallback
    <3>2. QED
      BY <2>0, <2>4, <3>1 DEF TimerCallback, Next
  <2>5. ASSUME NEW t \in Tenants, ChangePolicy(t) \/ RemovePolicy(t) PROVE Next
    BY <2>0, <2>5 DEF ChangePolicy, RemovePolicy, Next
  <2>6. ASSUME \/ HandleEvent \/ Cancel \/ \E k \in Reloads : Fire(k)
               \/ \E t \in Tenants : MakeDir(t)
        PROVE  UNCHANGED vars
    BY <2>6 DEF HandleEvent, Cancel, Fire, MakeDir
  <2>7. QED
    BY <1>1, <2>1, <2>2, <2>3, <2>4, <2>5, <2>6 DEF HotNext
<1>2. CASE UNCHANGED hotVars
  BY <1>2 DEF hotVars
<1>3. QED
  BY <1>1, <1>2

LEMMA WatcherStep ==
    ASSUME TypeOK, EventsOK, TimersOK, DirsOK, [HotNext]_hotVars
    PROVE  EventsOK' /\ TimersOK' /\ DirsOK'
<1>1. ASSUME UNCHANGED watcherVars PROVE EventsOK' /\ TimersOK' /\ DirsOK'
  BY <1>1 DEF watcherVars, EventsOK, EventsOfDirs, TimersOK, DirsOK, W!TimersOf
<1>2. ASSUME NEW t \in Tenants, W!MakeDir(t) PROVE EventsOK' /\ TimersOK' /\ DirsOK'
  <2>1. dirs' = dirs \cup {t} /\ W!Notify("dir", t, Len(events) < EventCap)
    BY <1>2 DEF W!MakeDir
  <2>2. EventsOK'
    BY <2>1, NotifyOK
  <2>3. QED
    BY <1>2, <2>1, <2>2 DEF W!MakeDir, TimersOK, DirsOK, W!TimersOf
<1>3. ASSUME NEW t \in Tenants, NEW kind \in {"file", "other"}, W!FileChanged(t, kind)
      PROVE  EventsOK' /\ TimersOK' /\ DirsOK'
  <2>1. t \in dirs /\ dirs' = dirs \cup {t} /\ W!Notify(kind, t, W!Reported(t))
    BY <1>3 DEF W!FileChanged
  <2>2. EventsOK'
    BY <2>1, NotifyOK DEF W!Reported
  <2>3. QED
    BY <1>3, <2>1, <2>2 DEF W!FileChanged, TimersOK, DirsOK, W!TimersOf
<1>4. ASSUME W!HandleDir PROVE EventsOK' /\ TimersOK' /\ DirsOK'
  <2>1. /\ events # <<>> /\ events' = Tail(events) /\ UNCHANGED <<dirs, timer, pending, running>>
        /\ watched' \in {watched, watched \cup {Head(events).tenant}}
    BY <1>4 DEF W!HandleDir
  <2>2. EventsOK' /\ Head(events).tenant \in dirs
    BY <2>1, TakeEventOK
  <2>3. QED
    BY <2>1, <2>2 DEF TimersOK, DirsOK, W!TimersOf
<1>5. ASSUME W!HandleOther PROVE EventsOK' /\ TimersOK' /\ DirsOK'
  BY <1>5, TakeEventOK DEF W!HandleOther, TimersOK, DirsOK, W!TimersOf
<1>6. ASSUME NEW k \in Reloads, W!HandleFile(k) PROVE EventsOK' /\ TimersOK' /\ DirsOK'
  <2>1. /\ events # <<>> /\ events' = Tail(events) /\ UNCHANGED <<dirs, watched, running>>
        /\ running /\ W!schedule(Head(events).tenant, k)
    BY <1>6 DEF W!HandleFile
  <2>2. EventsOK' /\ Head(events).tenant \in dirs
    BY <2>1, TakeEventOK
  <2>3. PICK t \in Tenants : t = Head(events).tenant
    BY <2>2 DEF DirsOK
  <2>4. TimersOK'
    BY <2>1, <2>3, ScheduleOK
  <2>5. QED
    BY <2>1, <2>2, <2>4 DEF DirsOK
<1>7. ASSUME NEW k \in Reloads, W!Fire(k) PROVE EventsOK' /\ TimersOK' /\ DirsOK'
  BY <1>7, FireOK DEF W!Fire, EventsOK, EventsOfDirs, DirsOK
<1>8. ASSUME NEW k \in Reloads, W!Callback(k) PROVE EventsOK' /\ TimersOK' /\ DirsOK'
  BY <1>8, CallbackOK DEF W!Callback, EventsOK, EventsOfDirs, DirsOK
<1>9. ASSUME W!Cancel PROVE EventsOK' /\ TimersOK' /\ DirsOK'
  BY <1>9, CancelOK DEF W!Cancel, EventsOK, EventsOfDirs, DirsOK
<1>10. ASSUME \/ ServeStep \/ \E w \in Workers : ColdRead(w)
              \/ \E k \in Reloads : ReloadRead(k) \/ ReloadInstall(k)
              \/ UNCHANGED hotVars
       PROVE  UNCHANGED watcherVars
  BY <1>10 DEF ServeStep, ColdRead, ReloadRead, ReloadInstall, hotVars
<1>11. QED
  BY <1>1, <1>2, <1>3, <1>4, <1>5, <1>6, <1>7, <1>8, <1>9, <1>10
     DEF HotNext, MakeDir, ChangePolicy, RemovePolicy, HandleEvent, Fire, TimerCallback, Cancel

\* Whose policy.db a step reads.
LEMMA ReadTenant ==
    ASSUME TypeOK, WellFormed
    PROVE  /\ \A w \in Workers : WorkerLoad(w) => job[worker[w].job].tenant \in Tenants
           /\ \A k \in Reloads : ReloadLoad(k) => reload[k].tenant \in Tenants
<1>1. ASSUME NEW w \in Workers, WorkerLoad(w) PROVE job[worker[w].job].tenant \in Tenants
  <2>1. worker[w].job \in UsedJobs \ {NoJob}
    BY <1>1 DEF WorkerLoad, UsedJobs, WellFormed, WorkerOK
  <2>2. QED
    BY <2>1 DEF WellFormed, JobsHaveTenants
<1>2. QED
  BY <1>1 DEF ReloadLoad, WellFormed, ReloadOK

HistoryOK ==
    seen \in [Tenants -> Versions] /\ missed \subseteq Tenants /\ overlapped \subseteq Tenants

LEMMA HistoryStep ==
    ASSUME TypeOK, WellFormed, HistoryOK, [HotNext]_hotVars
    PROVE  HistoryOK'
<1>1. ASSUME NEW t \in Tenants, NoteRead(t) PROVE HistoryOK'
  <2>1. disk[t].ver \in Versions
    BY DEF TypeOK, File
  <2>2. QED
    BY <1>1, <2>1 DEF NoteRead, HistoryOK
<1>2. ASSUME NEW w \in Workers, ColdRead(w) PROVE HistoryOK'
  <2>1. PICK t \in Tenants : t = job[worker[w].job].tenant
    BY <1>2, ReadTenant DEF ColdRead
  <2>2. QED
    BY <1>1, <1>2, <2>1 DEF ColdRead
<1>3. ASSUME NEW k \in Reloads, ReloadRead(k) PROVE HistoryOK'
  <2>1. PICK t \in Tenants : t = reload[k].tenant
    BY <1>3, ReadTenant DEF ReloadRead
  <2>2. QED
    BY <1>1, <1>3, <2>1 DEF ReloadRead
<1>4. ASSUME NEW t \in Tenants, ChangePolicy(t) PROVE HistoryOK'
  BY <1>4 DEF ChangePolicy, HistoryOK
<1>5. ASSUME \/ ServeStep \/ HandleEvent \/ Cancel \/ UNCHANGED hotVars
             \/ \E k \in Reloads : ReloadInstall(k) \/ Fire(k) \/ TimerCallback(k)
             \/ \E t \in Tenants : MakeDir(t) \/ RemovePolicy(t)
      PROVE  HistoryOK'
  <2>1. UNCHANGED history
    BY <1>5 DEF ServeStep, HandleEvent, Cancel, hotVars, ReloadInstall, Fire, TimerCallback,
       MakeDir, RemovePolicy
  <2>2. QED
    BY <2>1 DEF history, HistoryOK
<1>6. QED
  BY <1>2, <1>3, <1>4, <1>5 DEF HotNext

-----------------------------------------------------------------------------
(* A reported change is on its way to a read *)

\* What the steps other than the control plane's leave alone.
LEMMA DiskAndReloads ==
    /\ ServeStep => UNCHANGED <<disk, reload>>
    /\ \A w \in Workers : ColdRead(w) => UNCHANGED <<disk, reload>>
    /\ \A k \in Reloads : ReloadRead(k) \/ ReloadInstall(k) \/ TimerCallback(k) => UNCHANGED disk
<1>1. ASSUME ServeNext PROVE UNCHANGED <<disk, reload>>
  <2>1. ASSUME NEW r \in Requests, \/ TenantPolicyForInvalid(r) \/ GroupDo(r) \/ SecondLook(r)
                                   \/ \E t \in Tenants : TenantPolicyFor(r, t)
        PROVE  UNCHANGED <<disk, reload>>
    BY <2>1 DEF TenantPolicyForInvalid, GroupDo, SecondLook, TenantPolicyFor
  <2>2. ASSUME NEW r \in Requests, \/ SendJob(r) \/ SendOnClosed(r) \/ TakeAnswer(r)
                                   \/ LoadTimeout(r) \/ Decide(r)
        PROVE  UNCHANGED <<disk, reload>>
    BY <2>2 DEF SendJob, SendOnClosed, TakeAnswer, LoadTimeout, Decide
  <2>3. ASSUME NEW w \in Workers, WorkerQuiet(w) PROVE UNCHANGED <<disk, reload>>
    BY <2>3 DEF WorkerQuiet, WorkerTake, WorkerInsert, WorkerReply, WorkerExit
  <2>4. ASSUME HelperPanic \/ Close \/ \E j \in Jobs : HelperSend(j) PROVE UNCHANGED <<disk, reload>>
    BY <2>4 DEF HelperPanic, Close, HelperSend
  <2>5. QED
    BY <1>1, <2>1, <2>2, <2>3, <2>4 DEF ServeNext, RequestStep
<1>2. QED
  BY <1>1 DEF ServeStep, ColdRead, WorkerLoad, ReloadRead, ReloadLoad, ReloadInstall, ReloadQuiet,
     ReloadLookup, ReloadSwap, ReloadInsert, TimerCallback, ReloadTenant

LEMMA QueuedStays ==
    ASSUME EventsOK, NEW t, FileQueued(t), NEW u \in Tenants, NEW kind \in {"dir", "file", "other"},
           NEW b, W!Notify(kind, u, b)
    PROVE  FileQueued(t)'
<1>1. PICK e \in W!Event : e = [kind |-> kind, tenant |-> u]
  BY DEF W!Event
<1>2. CASE b
  <2>1. events' = Append(events, e) /\ events \in Seq(W!Event)
    BY <1>1, <1>2 DEF W!Notify, EventsOK
  <2>2. /\ Len(events') = Len(events) + 1 /\ Len(events) \in Nat
        /\ \A i \in 1 .. Len(events) : events'[i] = events[i]
    BY <2>1, QueueAppend
  <2>3. QED
    BY <2>2 DEF FileQueued
<1>3. CASE ~b
  BY <1>3 DEF W!Notify, FileQueued
<1>4. QED
  BY <1>2, <1>3

LEMMA QueuedTail ==
    ASSUME EventsOK, events # <<>>, events' = Tail(events), NEW t, FileQueued(t),
           Head(events).kind # "file" \/ Head(events).tenant # t
    PROVE  FileQueued(t)'
<1>1. events \in Seq(W!Event)
  BY DEF EventsOK
<1>2. PICK i \in 1 .. Len(events) : events[i].kind = "file" /\ events[i].tenant = t
  BY DEF FileQueued
<1>3. i # 1
  BY <1>1, <1>2
<1>4. /\ i - 1 \in 1 .. Len(events') /\ events'[i - 1] = events[i]
  BY <1>1, <1>2, <1>3
<1>5. QED
  BY <1>2, <1>4 DEF FileQueued

LEMMA AwaitedStep ==
    ASSUME TypeOK, WellFormed, EventsOK, TimersOK, DirsOK, HistoryOK, ChangeAwaited,
           [HotNext]_hotVars
    PROVE  ChangeAwaited'
<1> SUFFICES ASSUME running', NEW t \in Tenants, seen'[t] # disk'[t].ver, t \notin missed'
             PROVE  Awaited(t)'
  BY DEF ChangeAwaited
<1>0. running /\ seen[t] # disk[t].ver /\ t \notin missed => Awaited(t)
  BY DEF ChangeAwaited
<1>1. ASSUME UNCHANGED watcherVars, UNCHANGED <<disk, history>>,
             \A k \in Reloads : reload[k].pc = "read" => reload'[k] = reload[k]
      PROVE  Awaited(t)'
  <2>1. Awaited(t)
    BY <1>0, <1>1 DEF watcherVars, history
  <2>2. FileQueued(t) => FileQueued(t)'
    BY <1>1 DEF FileQueued, watcherVars
  <2>3. W!TimersOf(t)' = W!TimersOf(t)
    BY <1>1 DEF W!TimersOf, watcherVars
  <2>4. AboutToRead(t) => AboutToRead(t)'
    BY <1>1 DEF AboutToRead
  <2>5. QED
    BY <2>1, <2>2, <2>3, <2>4 DEF Awaited
<1>2. CASE ServeStep
  <2>1. UNCHANGED <<disk, reload>> /\ UNCHANGED <<watcherVars, history>>
    BY <1>2, DiskAndReloads DEF ServeStep
  <2>2. QED
    BY <1>1, <2>1
<1>3. ASSUME NEW u \in Tenants, NoteRead(u), UNCHANGED disk
      PROVE  u # t /\ seen[t] # disk[t].ver /\ t \notin missed
  BY <1>3 DEF NoteRead, HistoryOK
<1>4. ASSUME NEW w \in Workers, ColdRead(w) PROVE Awaited(t)'
  <2>1. UNCHANGED <<disk, reload>> /\ UNCHANGED watcherVars
    BY <1>4, DiskAndReloads DEF ColdRead
  <2>2. PICK u \in Tenants : u = job[worker[w].job].tenant
    BY <1>4, ReadTenant DEF ColdRead
  <2>3. running /\ seen[t] # disk[t].ver /\ t \notin missed
    BY <1>3, <1>4, <2>1, <2>2 DEF ColdRead, watcherVars
  <2>4. QED
    BY <1>0, <2>1, <2>3 DEF Awaited, FileQueued, AboutToRead, W!TimersOf, watcherVars
<1>5. ASSUME NEW k \in Reloads, ReloadRead(k) PROVE Awaited(t)'
  <2>1. UNCHANGED disk /\ UNCHANGED watcherVars
    BY <1>5, DiskAndReloads DEF ReloadRead
  <2>2. PICK u \in Tenants : u = reload[k].tenant
    BY <1>5, ReadTenant DEF ReloadRead
  <2>3. running /\ seen[t] # disk[t].ver /\ t \notin missed /\ u # t
    BY <1>3, <1>5, <2>1, <2>2 DEF ReloadRead, watcherVars
  <2>4. \A l \in Reloads \ {k} : reload'[l] = reload[l]
    BY <1>5 DEF ReloadRead, ReloadLoad, TypeOK
  <2>5. AboutToRead(t) => AboutToRead(t)'
    BY <2>2, <2>3, <2>4 DEF AboutToRead
  <2>6. FileQueued(t) => FileQueued(t)'
    BY <2>1 DEF FileQueued, watcherVars
  <2>7. W!TimersOf(t)' = W!TimersOf(t)
    BY <2>1 DEF W!TimersOf, watcherVars
  <2>8. QED
    BY <1>0, <2>3, <2>5, <2>6, <2>7 DEF Awaited
<1>6. ASSUME NEW k \in Reloads, ReloadInstall(k) PROVE Awaited(t)'
  <2>1. UNCHANGED disk /\ UNCHANGED <<watcherVars, history>>
    BY <1>6, DiskAndReloads DEF ReloadInstall
  <2>2. reload[k].pc # "read" /\ \A l \in Reloads \ {k} : reload'[l] = reload[l]
    BY <1>6 DEF ReloadInstall, ReloadQuiet, ReloadLookup, ReloadSwap, ReloadInsert, TypeOK
  <2>3. QED
    BY <1>1, <2>1, <2>2
<1>7. ASSUME NEW u \in Tenants, MakeDir(u) PROVE Awaited(t)'
  <2>1. /\ W!Notify("dir", u, Len(events) < EventCap) /\ UNCHANGED <<timer, running>>
        /\ UNCHANGED <<disk, reload, seen, missed>>
    BY <1>7 DEF MakeDir, W!MakeDir, vars, history
  <2>2. FileQueued(t) => FileQueued(t)'
    BY <2>1, QueuedStays
  <2>3. QED
    BY <1>0, <2>1, <2>2 DEF Awaited, AboutToRead, W!TimersOf
<1>8. ASSUME NEW u \in Tenants, NEW kind \in {"file", "other"}, W!FileChanged(u, kind),
             UNCHANGED <<reload, seen>>, disk'[t].ver = disk[t].ver, t \notin missed
      PROVE  Awaited(t)'
  <2>1. W!Notify(kind, u, W!Reported(u)) /\ UNCHANGED <<timer, running>>
    BY <1>8 DEF W!FileChanged
  <2>2. FileQueued(t) => FileQueued(t)'
    BY <2>1, QueuedStays
  <2>3. QED
    BY <1>0, <1>8, <2>1, <2>2 DEF Awaited, AboutToRead, W!TimersOf
<1>9. ASSUME NEW u \in Tenants, ChangePolicy(u) PROVE Awaited(t)'
  <2>1. /\ Publish(u) /\ W!FileChanged(u, "file") /\ UNCHANGED <<reload, seen>>
        /\ missed' = IF W!Reported(u) THEN missed \ {u} ELSE missed \cup {u}
    BY <1>9 DEF ChangePolicy, Publish
  <2>2. CASE u = t
    <3>1. W!Reported(t)
      BY <2>1, <2>2
    <3>2. PICK e \in W!Event : e = [kind |-> "file", tenant |-> t]
      BY DEF W!Event
    <3>3. events' = Append(events, e) /\ events \in Seq(W!Event)
      BY <2>1, <2>2, <3>1, <3>2 DEF W!FileChanged, W!Notify, EventsOK
    <3>4. /\ Len(events') = Len(events) + 1 /\ Len(events) \in Nat
          /\ events'[Len(events) + 1] = e
      BY <3>3, QueueAppend
    <3>5. FileQueued(t)'
      BY <3>2, <3>4 DEF FileQueued
    <3>6. QED
      BY <3>5 DEF Awaited
  <2>3. CASE u # t
    <3>1. disk'[t] = disk[t]
      BY <2>1, <2>3 DEF Publish, TypeOK
    <3>2. QED
      BY <1>8, <2>1, <2>3, <3>1
  <2>4. QED
    BY <2>2, <2>3
<1>10. ASSUME NEW u \in Tenants, RemovePolicy(u) PROVE Awaited(t)'
  <2>1. disk'[t].ver = disk[t].ver
    BY <1>10 DEF RemovePolicy, Unpublish, TypeOK, File
  <2>2. W!FileChanged(u, "other") /\ UNCHANGED <<reload, seen, missed>>
    BY <1>10 DEF RemovePolicy, Unpublish, history
  <2>3. QED
    BY <1>8, <2>1, <2>2
<1>11. CASE HandleEvent
  <2>1. UNCHANGED <<disk, reload, seen, missed>>
    BY <1>11 DEF HandleEvent, vars, history
  <2>2. AboutToRead(t)' = AboutToRead(t)
    BY <2>1 DEF AboutToRead
  <2>3. CASE W!HandleDir \/ W!HandleOther
    <3>1. /\ events # <<>> /\ events' = Tail(events) /\ Head(events).kind # "file"
          /\ UNCHANGED <<timer, running>>
      BY <2>3 DEF W!HandleDir, W!HandleOther
    <3>2. FileQueued(t) => FileQueued(t)'
      BY <3>1, QueuedTail
    <3>3. QED
      BY <1>0, <2>1, <2>2, <3>1, <3>2 DEF Awaited, W!TimersOf
  <2>4. ASSUME NEW k \in Reloads, W!HandleFile(k) PROVE Awaited(t)'
    <3>1. /\ events # <<>> /\ events' = Tail(events) /\ UNCHANGED <<dirs, running>>
          /\ running /\ W!schedule(Head(events).tenant, k)
      BY <2>4 DEF W!HandleFile
    <3>2. PICK u \in Tenants : u = Head(events).tenant
      BY <3>1, TakeEventOK DEF DirsOK
    <3>3. W!TimersOf(t) # {} \/ u = t => W!TimersOf(t)' # {}
      BY <3>1, <3>2, ScheduleOK
    <3>4. u # t /\ FileQueued(t) => FileQueued(t)'
      BY <3>1, <3>2, QueuedTail
    <3>5. QED
      BY <1>0, <2>1, <2>2, <3>1, <3>3, <3>4 DEF Awaited
  <2>5. QED
    BY <1>11, <2>3, <2>4 DEF HandleEvent
<1>12. ASSUME NEW k \in Reloads, Fire(k) PROVE Awaited(t)'
  <2>1. W!TimersOf(t)' = W!TimersOf(t)
    BY <1>12, FireOK DEF Fire
  <2>2. UNCHANGED <<disk, reload, seen, missed, events, running>>
    BY <1>12 DEF Fire, W!Fire, vars, history
  <2>3. QED
    BY <1>0, <2>1, <2>2 DEF Awaited, FileQueued, AboutToRead
<1>13. ASSUME NEW k \in Reloads, TimerCallback(k) PROVE Awaited(t)'
  <2>1. PICK u \in Tenants : u = timer[k].tenant
    BY <1>13, CallbackOK DEF TimerCallback
  <2>2. /\ UNCHANGED <<disk, seen, missed, events, running>> /\ reload[k].pc = "idle"
        /\ reload' = [reload EXCEPT ![k].pc = "read", ![k].tenant = u]
    BY <1>13, <2>1 DEF TimerCallback, W!Callback, ReloadTenant, history
  <2>3. /\ reload'[k].pc = "read" /\ reload'[k].tenant = u
        /\ \A l \in Reloads \ {k} : reload'[l] = reload[l]
    BY <2>2 DEF TypeOK, ReloadState
  <2>4. CASE u = t
    BY <2>3, <2>4 DEF Awaited, AboutToRead
  <2>5. CASE u # t
    <3>1. W!TimersOf(t)' = W!TimersOf(t)
      BY <1>13, <2>1, <2>5, CallbackOK DEF TimerCallback
    <3>2. AboutToRead(t) => AboutToRead(t)'
      BY <2>2, <2>3 DEF AboutToRead
    <3>3. FileQueued(t) => FileQueued(t)'
      BY <2>2 DEF FileQueued
    <3>4. QED
      BY <1>0, <2>2, <3>1, <3>2, <3>3 DEF Awaited
  <2>6. QED
    BY <2>4, <2>5
<1>14. CASE Cancel
  BY <1>14 DEF Cancel, W!Cancel
<1>15. CASE UNCHANGED hotVars
  BY <1>1, <1>15 DEF hotVars, vars
<1>16. QED
  BY <1>2, <1>4, <1>5, <1>6, <1>7, <1>9, <1>10, <1>11, <1>12, <1>13, <1>14, <1>15 DEF HotNext

\* Versions of policy.db only grow, and what was read is one it has had.
LEMMA SeenStep ==
    ASSUME TypeOK, WellFormed, HistoryOK, SeenNotAhead, [HotNext]_hotVars
    PROVE  SeenNotAhead'
<1>0. \A t \in Tenants : seen[t] \in Nat /\ disk[t].ver \in Nat
  BY DEF HistoryOK, TypeOK, File, Versions
<1>1. ASSUME NEW t \in Tenants, NoteRead(t), UNCHANGED disk PROVE SeenNotAhead'
  BY <1>0, <1>1 DEF NoteRead, HistoryOK, SeenNotAhead
<1>2. ASSUME NEW w \in Workers, ColdRead(w) PROVE SeenNotAhead'
  <2>1. PICK t \in Tenants : t = job[worker[w].job].tenant
    BY <1>2, ReadTenant DEF ColdRead
  <2>2. QED
    BY <1>1, <1>2, <2>1, DiskAndReloads DEF ColdRead
<1>3. ASSUME NEW k \in Reloads, ReloadRead(k) PROVE SeenNotAhead'
  <2>1. PICK t \in Tenants : t = reload[k].tenant
    BY <1>3, ReadTenant DEF ReloadRead
  <2>2. QED
    BY <1>1, <1>3, <2>1, DiskAndReloads DEF ReloadRead
<1>4. ASSUME NEW t \in Tenants, ChangePolicy(t) \/ RemovePolicy(t) PROVE SeenNotAhead'
  <2>1. UNCHANGED seen
    BY <1>4 DEF ChangePolicy, RemovePolicy, history
  <2>2. \A u \in Tenants : disk'[u].ver \in {disk[u].ver, disk[u].ver + 1}
    <3>1. disk \in [Tenants -> File]
      BY DEF TypeOK
    <3>2. ASSUME NEW s \in {"ok", "corrupt"}, NEW v, v = disk[t].ver + 1,
                 disk' = [disk EXCEPT ![t] = [ver |-> v, state |-> s]]
          PROVE  \A u \in Tenants : disk'[u].ver \in {disk[u].ver, disk[u].ver + 1}
      BY <3>1, <3>2
    <3>3. ASSUME disk' = [disk EXCEPT ![t].state = "absent"]
          PROVE  \A u \in Tenants : disk'[u].ver \in {disk[u].ver, disk[u].ver + 1}
      BY <3>1, <3>3 DEF File
    <3>4. QED
      BY <1>4, <3>2, <3>3 DEF ChangePolicy, RemovePolicy, Publish, Unpublish
  <2>3. QED
    BY <1>0, <2>1, <2>2 DEF SeenNotAhead
<1>5. ASSUME \/ ServeStep \/ HandleEvent \/ Cancel \/ UNCHANGED hotVars
             \/ \E k \in Reloads : ReloadInstall(k) \/ Fire(k) \/ TimerCallback(k)
             \/ \E t \in Tenants : MakeDir(t)
      PROVE  SeenNotAhead'
  <2>1. UNCHANGED seen
    BY <1>5 DEF ServeStep, HandleEvent, Cancel, hotVars, ReloadInstall, Fire, TimerCallback,
       MakeDir, history
  <2>2. UNCHANGED disk
    BY <1>5, DiskAndReloads DEF HandleEvent, Cancel, hotVars, Fire, MakeDir, vars
  <2>3. QED
    BY <2>1, <2>2 DEF SeenNotAhead
<1>6. QED
  BY <1>2, <1>3, <1>4, <1>5 DEF HotNext

-----------------------------------------------------------------------------
(* Reads that do not overlap are installed in order *)

\* A step that neither reads nor installs a policy of t.
Quiet(t) ==
    /\ \A w \in Workers : /\ WorkerHas(w, t)' <=> WorkerHas(w, t)
                          /\ WorkerHas(w, t) => worker'[w] = worker[w]
    /\ \A k \in Reloads : /\ ReloadHas(k, t)' <=> ReloadHas(k, t)
                          /\ ReloadHas(k, t) => reload'[k] = reload[k]
    /\ cache'[t] \in {cache[t], NoObj}
    /\ \A o \in Objs : o \in LiveObjs /\ o \in LiveObjs' /\ heap[o].owner = t =>
          heap'[o] = heap[o]

LEMMA InstallingIs ==
    ASSUME NEW t
    PROVE  Installing(t) = {} <=> /\ \A w \in Workers : ~WorkerHas(w, t)
                                  /\ \A k \in Reloads : ~ReloadHas(k, t)
BY DEF Installing, WorkerHas, ReloadHas

\* The objects that are on their way to the cache of t, or there.
LEMMA HeldFor ==
    ASSUME TypeOK, WellFormed, TenantIsolation, NEW t \in Tenants
    PROVE  /\ \A w \in Workers : WorkerHas(w, t) =>
                 /\ worker[w].obj \in Objs /\ worker[w].obj \in LiveObjs
                 /\ heap[worker[w].obj].owner = t
           /\ \A k \in Reloads : ReloadHas(k, t) =>
                 /\ reload[k].next \in Objs /\ reload[k].next \in LiveObjs
                 /\ heap[reload[k].next].owner = t
           /\ cache[t] # NoObj =>
                 cache[t] \in Objs /\ cache[t] \in LiveObjs /\ heap[cache[t]].owner = t
<1>1. ASSUME NEW w \in Workers, WorkerHas(w, t)
      PROVE  /\ worker[w].obj \in Objs /\ worker[w].obj \in LiveObjs
             /\ heap[worker[w].obj].owner = t
  <2>1. worker[w].obj # NoObj /\ worker[w].obj \in Objs \cup {NoObj}
    BY <1>1 DEF WorkerHas, WellFormed, WorkerOK, TypeOK, WorkerState
  <2>2. QED
    BY <1>1, <2>1 DEF WorkerHas, TenantIsolation, LiveObjs
<1>2. ASSUME NEW k \in Reloads, ReloadHas(k, t)
      PROVE  /\ reload[k].next \in Objs /\ reload[k].next \in LiveObjs
             /\ heap[reload[k].next].owner = t
  <2>1. reload[k].next # NoObj /\ reload[k].next \in Objs \cup {NoObj}
    BY <1>2 DEF ReloadHas, WellFormed, ReloadOK, TypeOK, ReloadState
  <2>2. QED
    BY <1>2, <2>1 DEF ReloadHas, TenantIsolation, LiveObjs
<1>3. cache[t] # NoObj =>
        cache[t] \in Objs /\ cache[t] \in LiveObjs /\ heap[cache[t]].owner = t
  BY DEF TypeOK, TenantIsolation, LiveObjs
<1>4. QED
  BY <1>1, <1>2, <1>3

LEMMA QuietKeeps ==
    ASSUME TypeOK, TypeOK', WellFormed, WellFormed', TenantIsolation, NEW t \in Tenants, Quiet(t)
    PROVE  /\ Apart(t) => Apart(t)'
           /\ \A v : Serves(t, v) => Serves(t, v)'
<1>1. ASSUME Apart(t) PROVE Apart(t)'
  <2>1. /\ \A v, w \in Workers : WorkerHas(v, t)' /\ WorkerHas(w, t)' => v = w
        /\ \A k, l \in Reloads : ReloadHas(k, t)' /\ ReloadHas(l, t)' => k = l
        /\ \A w \in Workers, k \in Reloads : ~(WorkerHas(w, t)' /\ ReloadHas(k, t)')
    BY <1>1 DEF Apart, Quiet
  <2>2. ASSUME NEW k \in Reloads, reload'[k].pc = "swap", reload'[k].tenant = t
        PROVE  cache'[t] \in {reload'[k].target, NoObj}
    <3>1. ReloadHas(k, t)'
      BY <2>2 DEF ReloadHas
    <3>2. reload'[k] = reload[k]
      BY <3>1 DEF Quiet
    <3>3. cache[t] \in {reload[k].target, NoObj}
      BY <1>1, <2>2, <3>2 DEF Apart
    <3>4. QED
      BY <3>2, <3>3 DEF Quiet
  <2>3. QED
    BY <2>1, <2>2 DEF Apart
<1>2. ASSUME NEW v, Serves(t, v) PROVE Serves(t, v)'
  <2>1. ASSUME NEW w \in Workers, WorkerHas(w, t)' PROVE heap'[worker'[w].obj].ver = v
    <3>1. WorkerHas(w, t) /\ worker'[w] = worker[w]
      BY <2>1 DEF Quiet
    <3>2. worker[w].obj \in LiveObjs'
      BY <3>1 DEF LiveObjs
    <3>3. heap'[worker[w].obj] = heap[worker[w].obj]
      BY <3>1, <3>2, HeldFor DEF Quiet
    <3>4. QED
      BY <1>2, <3>1, <3>3 DEF Serves
  <2>2. ASSUME NEW k \in Reloads, ReloadHas(k, t)' PROVE heap'[reload'[k].next].ver = v
    <3>1. ReloadHas(k, t) /\ reload'[k] = reload[k]
      BY <2>2 DEF Quiet
    <3>2. reload[k].next \in LiveObjs'
      BY <3>1 DEF LiveObjs
    <3>3. heap'[reload[k].next] = heap[reload[k].next]
      BY <3>1, <3>2, HeldFor DEF Quiet
    <3>4. QED
      BY <1>2, <3>1, <3>3 DEF Serves
  <2>3. ASSUME Installing(t)' = {}, cache'[t] # NoObj PROVE heap'[cache'[t]].ver = v
    <3>1. (Installing(t) = {} <=> /\ \A w \in Workers : ~WorkerHas(w, t)
                                  /\ \A k \in Reloads : ~ReloadHas(k, t))'
      BY InstallingIs, PTL
    <3>2. Installing(t) = {}
      BY <2>3, <3>1, InstallingIs DEF Quiet
    <3>3. cache'[t] = cache[t] /\ cache[t] \in LiveObjs'
      BY <2>3 DEF Quiet, LiveObjs
    <3>4. heap'[cache[t]] = heap[cache[t]]
      BY <2>3, <3>3, HeldFor DEF Quiet
    <3>5. QED
      BY <1>2, <2>3, <3>2, <3>3, <3>4 DEF Serves
  <2>4. QED
    BY <2>1, <2>2, <2>3 DEF Serves
<1>3. QED
  BY <1>1, <1>2

\* A quiet step that makes no earlier read the latest one again.
LEMMA QuietGood ==
    ASSUME TypeOK, TypeOK', WellFormed, WellFormed', TenantIsolation, NEW t \in Tenants, Quiet(t),
           ReadsGood(t), t \notin overlapped' => t \notin overlapped,
           Current(t)' => Current(t) /\ seen'[t] = seen[t]
    PROVE  ReadsGood(t)'
BY QuietKeeps DEF ReadsGood

\* What has to be shown of a step for it to be quiet.
LEMMA QuietBy ==
    ASSUME NEW t \in Tenants,
           \A w \in Workers : \/ ~WorkerHas(w, t) /\ ~WorkerHas(w, t)'
                             \/ /\ worker'[w] = worker[w]
                                /\ worker[w].pc = "loaded" =>
                                     job'[worker[w].job].tenant = job[worker[w].job].tenant,
           \A k \in Reloads : \/ ~ReloadHas(k, t) /\ ~ReloadHas(k, t)'
                             \/ reload'[k] = reload[k],
           cache'[t] \in {cache[t], NoObj},
           \A o \in Objs : o \in LiveObjs /\ o \in LiveObjs' /\ heap[o].owner = t => heap'[o] = heap[o]
    PROVE  Quiet(t)
<1>1. ASSUME NEW w \in Workers
      PROVE  /\ WorkerHas(w, t)' <=> WorkerHas(w, t)
             /\ WorkerHas(w, t) => worker'[w] = worker[w]
  BY DEF WorkerHas
<1>2. ASSUME NEW k \in Reloads
      PROVE  /\ ReloadHas(k, t)' <=> ReloadHas(k, t)
             /\ ReloadHas(k, t) => reload'[k] = reload[k]
  BY DEF ReloadHas
<1>3. QED
  BY <1>1, <1>2 DEF Quiet

\* The job of a worker that goes on with it survives the collection.
LEMMA LoadedJob ==
    ASSUME TypeOK', WellFormed, NEW jb, JobsAre(jb), NEW w \in Workers, worker'[w] = worker[w],
           worker[w].pc = "loaded"
    PROVE  /\ job'[worker[w].job] = jb[worker[w].job]
           /\ worker[w].job \in Jobs /\ worker[w].job \in UsedJobs
<1>1. worker[w].job # NoJob
  BY DEF WellFormed, WorkerOK
<1>2. job'[worker[w].job] = jb[worker[w].job]
  BY <1>1, JobsKeep
<1>3. worker'[w].job \in Jobs
  BY <1>1 DEF TypeOK, WorkerState
<1>4. QED
  BY <1>2, <1>3 DEF UsedJobs

\* Requests and helpers touch neither cache nor what is being installed.
LEMMA RequestQuiet ==
    ASSUME TypeOK, TypeOK', WellFormed, NEW t \in Tenants, NEW r \in Requests,
           \/ TenantPolicyForInvalid(r) \/ \E u \in Tenants : TenantPolicyFor(r, u)
           \/ RequestStep(r)
    PROVE  Quiet(t)
<1>1. UNCHANGED <<cache, worker, reload>>
  <2>1. ASSUME NEW u \in Tenants, TenantPolicyFor(r, u) PROVE UNCHANGED <<cache, worker, reload>>
    BY <2>1 DEF TenantPolicyFor
  <2>2. ASSUME \/ TenantPolicyForInvalid(r) \/ GroupDo(r) \/ SecondLook(r) \/ SendJob(r)
        PROVE  UNCHANGED <<cache, worker, reload>>
    BY <2>2 DEF TenantPolicyForInvalid, GroupDo, SecondLook, SendJob
  <2>3. ASSUME \/ SendOnClosed(r) \/ TakeAnswer(r) \/ LoadTimeout(r) \/ Decide(r)
        PROVE  UNCHANGED <<cache, worker, reload>>
    BY <2>3 DEF SendOnClosed, TakeAnswer, LoadTimeout, Decide
  <2>4. QED
    BY <2>1, <2>2, <2>3 DEF RequestStep
<1>2. \A o \in Objs : o \in LiveObjs' => heap'[o] = heap[o]
  <2>1. ASSUME NEW u \in Tenants, TenantPolicyFor(r, u) PROVE UNCHANGED heap
    BY <2>1 DEF TenantPolicyFor
  <2>2. ASSUME \/ TenantPolicyForInvalid(r) \/ GroupDo(r) \/ SecondLook(r) \/ SendJob(r) \/ SendOnClosed(r)
        PROVE  UNCHANGED heap
    BY <2>2 DEF TenantPolicyForInvalid, GroupDo, SecondLook, SendJob, SendOnClosed
  <2>3. ASSUME \/ TakeAnswer(r) \/ LoadTimeout(r) \/ Decide(r) PROVE HeapIs(heap)
    BY <2>3 DEF TakeAnswer, LoadTimeout, Decide
  <2>4. QED
    BY <2>1, <2>2, <2>3, HeapAfter DEF RequestStep
<1>3. ASSUME NEW w \in Workers, worker[w].pc = "loaded"
      PROVE  job'[worker[w].job].tenant = job[worker[w].job].tenant
  <2>1. worker'[w] = worker[w]
    BY <1>1
  <2>2. CASE SendJob(r)
    <3>1. PICK j \in Jobs : j \notin UsedJobs /\ JobsAre([job EXCEPT ![j] = NewJob(req[r].tenant)])
      BY <2>2 DEF SendJob, FreshJob
    <3>2. PICK jb : jb = [job EXCEPT ![j] = NewJob(req[r].tenant)]
      OBVIOUS
    <3>3. /\ job'[worker[w].job] = jb[worker[w].job]
          /\ worker[w].job \in Jobs /\ worker[w].job \in UsedJobs
      BY <1>3, <2>1, <3>1, <3>2, LoadedJob
    <3>4. QED
      BY <3>1, <3>2, <3>3 DEF TypeOK
  <2>3. CASE TakeAnswer(r) \/ LoadTimeout(r)
    <3>1. JobsAre(job)
      BY <2>3 DEF TakeAnswer, LoadTimeout
    <3>2. job'[worker[w].job] = job[worker[w].job]
      BY <1>3, <2>1, <3>1, LoadedJob
    <3>3. QED
      BY <3>2
  <2>4. ASSUME NEW u \in Tenants, TenantPolicyFor(r, u) PROVE UNCHANGED job
    BY <2>4 DEF TenantPolicyFor
  <2>5. ASSUME \/ TenantPolicyForInvalid(r) \/ GroupDo(r) \/ SecondLook(r) \/ SendOnClosed(r)
               \/ Decide(r)
        PROVE  UNCHANGED job
    BY <2>5 DEF TenantPolicyForInvalid, GroupDo, SecondLook, SendOnClosed, Decide
  <2>6. QED
    BY <2>2, <2>3, <2>4, <2>5 DEF RequestStep
<1>4. QED
  BY <1>1, <1>2, <1>3, QuietBy

\* A step of worker w that is none of its load or insert of t.
LEMMA WorkerStepQuiet ==
    ASSUME NEW t \in Tenants, NEW w \in Workers, ~WorkerHas(w, t), ~WorkerHas(w, t)',
           \A v \in Workers \ {w} : worker'[v] = worker[v],
           \A v \in Workers \ {w} : worker[v].pc = "loaded" =>
              job'[worker[v].job].tenant = job[worker[v].job].tenant,
           UNCHANGED reload, cache'[t] \in {cache[t], NoObj},
           \A o \in Objs : o \in LiveObjs /\ o \in LiveObjs' => heap'[o] = heap[o]
    PROVE  Quiet(t)
BY QuietBy

LEMMA WorkerQuietQuiet ==
    ASSUME TypeOK, TypeOK', WellFormed, CacheConsistent, NEW t \in Tenants, NEW w \in Workers,
           WorkerQuiet(w), WorkerInsert(w) => job[worker[w].job].tenant # t
    PROVE  Quiet(t)
<1>0. worker \in [Workers -> WorkerState]
  BY DEF TypeOK
<1>1. CASE WorkerTake(w)
  <2>1. /\ worker[w].pc = "idle" /\ worker'[w].pc = "load"
        /\ \A v \in Workers \ {w} : worker'[v] = worker[v]
        /\ UNCHANGED <<heap, cache, job, reload>>
    BY <1>0, <1>1 DEF WorkerTake, IdleWorker
  <2>2. ~WorkerHas(w, t) /\ ~WorkerHas(w, t)'
    BY <2>1 DEF WorkerHas
  <2>3. QED
    BY <2>1, <2>2, WorkerStepQuiet
<1>2. CASE WorkerExit(w)
  <2>1. /\ worker[w].pc = "idle" /\ worker'[w].pc = "exited"
        /\ \A v \in Workers \ {w} : worker'[v] = worker[v]
        /\ UNCHANGED <<heap, cache, job, reload>>
    BY <1>0, <1>2 DEF WorkerExit, WorkerState
  <2>2. ~WorkerHas(w, t) /\ ~WorkerHas(w, t)'
    BY <2>1 DEF WorkerHas
  <2>3. QED
    BY <2>1, <2>2, WorkerStepQuiet
<1>3. CASE WorkerReply(w)
  <2>1. PICK j \in Jobs : j = worker[w].job
    BY <1>0, <1>3 DEF WorkerReply, WellFormed, WorkerOK, WorkerState
  <2>2. PICK jb : jb = [job EXCEPT ![j].done = TRUE, ![j].obj = worker[w].obj,
                                   ![j].err = worker[w].err]
    OBVIOUS
  <2>3. /\ worker[w].pc = "reply" /\ worker'[w].pc = "idle"
        /\ \A v \in Workers \ {w} : worker'[v] = worker[v]
        /\ UNCHANGED <<cache, reload>> /\ JobsAre(jb) /\ HeapIs(heap)
    BY <1>0, <1>3, <2>1, <2>2 DEF WorkerReply, IdleWorker
  <2>4. ~WorkerHas(w, t) /\ ~WorkerHas(w, t)'
    BY <2>3 DEF WorkerHas
  <2>5. \A i \in Jobs : jb[i].tenant = job[i].tenant
    BY <2>2 DEF TypeOK, Job
  <2>6. ASSUME NEW v \in Workers \ {w}, worker[v].pc = "loaded"
        PROVE  job'[worker[v].job].tenant = job[worker[v].job].tenant
    <3>1. job'[worker[v].job] = jb[worker[v].job] /\ worker[v].job \in Jobs
      BY <2>3, <2>6, LoadedJob
    <3>2. QED
      BY <2>5, <3>1
  <2>7. QED
    BY <2>3, <2>4, <2>6, HeapAfter, WorkerStepQuiet
<1>4. CASE WorkerInsert(w)
  <2>1. PICK j \in Jobs : j = worker[w].job
    BY <1>0, <1>4 DEF WorkerInsert, WellFormed, WorkerOK, WorkerState
  <2>2. PICK u \in Tenants : u = job[j].tenant
    BY <2>1, ConstantTypes DEF WellFormed, JobsHaveTenants, UsedJobs
  <2>3. /\ insert(u, worker[w].obj) /\ UNCHANGED <<job, reload>> /\ HeapIs(heap)
        /\ worker' = [worker EXCEPT ![w].pc = "reply"]
    BY <1>4, <2>1, <2>2 DEF WorkerInsert
  <2>4. u # t
    BY <1>4, <2>1, <2>2
  <2>5. cache'[t] \in {cache[t], NoObj}
    BY <2>3, <2>4, InsertServes
  <2>6. worker'[w].pc = "reply" /\ \A v \in Workers \ {w} : worker'[v] = worker[v]
    BY <1>0, <2>3 DEF WorkerState
  <2>7. ~WorkerHas(w, t) /\ ~WorkerHas(w, t)'
    BY <2>1, <2>2, <2>4, <2>6 DEF WorkerHas
  <2>8. QED
    BY <2>3, <2>5, <2>6, <2>7, HeapAfter, WorkerStepQuiet
<1>5. QED
  BY <1>1, <1>2, <1>3, <1>4 DEF WorkerQuiet

LEMMA ServeQuiet ==
    ASSUME TypeOK, TypeOK', WellFormed, CacheConsistent, NEW t \in Tenants, ServeNext,
           \A w \in Workers : WorkerInsert(w) => job[worker[w].job].tenant # t
    PROVE  Quiet(t)
<1>1. ASSUME HelperPanic \/ Close \/ \E j \in Jobs : HelperSend(j) PROVE Quiet(t)
  <2>1. UNCHANGED <<heap, cache, job, worker, reload>>
    BY <1>1 DEF HelperPanic, Close, HelperSend
  <2>2. QED
    BY <2>1, QuietBy
<1>2. QED
  BY <1>1, RequestQuiet, WorkerQuietQuiet DEF ServeNext

\* A read is quiet for other tenants, and one that fails for its own.
LEMMA WorkerLoadQuiet ==
    ASSUME TypeOK, NEW t \in Tenants, NEW w \in Workers, WorkerLoad(w),
           job[worker[w].job].tenant # t \/ LoadError(t) # "none"
    PROVE  Quiet(t)
<1>0. worker \in [Workers -> WorkerState] /\ worker[w].pc = "load" /\ UNCHANGED <<cache, job, reload>>
  BY DEF TypeOK, WorkerLoad
<1>1. PICK u : u = job[worker[w].job].tenant
  OBVIOUS
<1>2. ASSUME NEW o \in Objs, LoadError(u) = "none", FreshObj(o),
             worker' = [worker EXCEPT ![w].pc = "loaded", ![w].obj = o],
             HeapIs([heap EXCEPT ![o] = DiskPolicy(u)])
      PROVE  Quiet(t)
  <2>1. u # t
    BY <1>1, <1>2
  <2>2. worker'[w].job = worker[w].job /\ \A v \in Workers \ {w} : worker'[v] = worker[v]
    BY <1>0, <1>2 DEF WorkerState
  <2>3. ~WorkerHas(w, t) /\ ~WorkerHas(w, t)'
    BY <1>0, <1>1, <2>1, <2>2 DEF WorkerHas
  <2>4. \A x \in Objs : x \in LiveObjs /\ x \in LiveObjs' => heap'[x] = heap[x]
    BY <1>2, HeapAfter DEF TypeOK, FreshObj
  <2>5. QED
    BY <1>0, <2>2, <2>3, <2>4, WorkerStepQuiet
<1>3. ASSUME NEW e, worker' = [worker EXCEPT ![w].pc = "reply", ![w].err = e], UNCHANGED heap
      PROVE  Quiet(t)
  <2>1. worker'[w].pc = "reply" /\ \A v \in Workers \ {w} : worker'[v] = worker[v]
    BY <1>0, <1>3 DEF WorkerState
  <2>2. ~WorkerHas(w, t) /\ ~WorkerHas(w, t)'
    BY <1>0, <2>1 DEF WorkerHas
  <2>3. QED
    BY <1>0, <1>3, <2>1, <2>2, WorkerStepQuiet
<1>4. QED
  BY <1>1, <1>2, <1>3 DEF WorkerLoad

\* A step of reload k that is none of its read or install of t.
LEMMA ReloadStepQuiet ==
    ASSUME NEW t \in Tenants, NEW k \in Reloads, ~ReloadHas(k, t), ~ReloadHas(k, t)',
           \A l \in Reloads \ {k} : reload'[l] = reload[l], UNCHANGED <<worker, job>>,
           cache'[t] \in {cache[t], NoObj},
           \A o \in Objs : o \in LiveObjs /\ o \in LiveObjs' /\ heap[o].owner = t => heap'[o] = heap[o]
    PROVE  Quiet(t)
BY QuietBy

LEMMA ReloadLoadQuiet ==
    ASSUME TypeOK, NEW t \in Tenants, NEW k \in Reloads, ReloadLoad(k),
           reload[k].tenant # t \/ LoadError(t) # "none"
    PROVE  Quiet(t)
<1>0. reload \in [Reloads -> ReloadState] /\ reload[k].pc = "read" /\ UNCHANGED <<cache, job, worker>>
  BY DEF TypeOK, ReloadLoad
<1>1. PICK u : u = reload[k].tenant
  OBVIOUS
<1>2. ASSUME NEW o \in Objs, LoadError(u) = "none", FreshObj(o),
             reload' = [reload EXCEPT ![k].pc = "loaded", ![k].next = o],
             HeapIs([heap EXCEPT ![o] = DiskPolicy(u)])
      PROVE  Quiet(t)
  <2>1. u # t
    BY <1>1, <1>2
  <2>2. reload'[k].tenant = u /\ \A l \in Reloads \ {k} : reload'[l] = reload[l]
    BY <1>0, <1>1, <1>2 DEF ReloadState
  <2>3. ~ReloadHas(k, t) /\ ~ReloadHas(k, t)'
    BY <1>1, <2>1, <2>2 DEF ReloadHas
  <2>4. \A x \in Objs : x \in LiveObjs /\ x \in LiveObjs' => heap'[x] = heap[x]
    BY <1>2, HeapAfter DEF TypeOK, FreshObj
  <2>5. QED
    BY <1>0, <2>2, <2>3, <2>4, ReloadStepQuiet
<1>3. ASSUME reload' = [reload EXCEPT ![k] = IdleReload], UNCHANGED heap PROVE Quiet(t)
  <2>1. reload'[k].pc = "idle" /\ \A l \in Reloads \ {k} : reload'[l] = reload[l]
    BY <1>0, <1>3 DEF IdleReload
  <2>2. ~ReloadHas(k, t) /\ ~ReloadHas(k, t)'
    BY <1>0, <2>1 DEF ReloadHas
  <2>3. QED
    BY <1>0, <1>3, <2>1, <2>2, ReloadStepQuiet
<1>4. QED
  BY <1>1, <1>2, <1>3 DEF ReloadLoad

LEMMA ReloadTenantQuiet ==
    ASSUME TypeOK, NEW t \in Tenants, NEW k \in Reloads, NEW u, ReloadTenant(k, u)
    PROVE  Quiet(t)
<1>1. /\ reload[k].pc = "idle" /\ reload'[k].pc = "read"
      /\ \A l \in Reloads \ {k} : reload'[l] = reload[l]
      /\ UNCHANGED <<heap, cache, worker, job>>
  BY DEF ReloadTenant, TypeOK, ReloadState
<1>2. ~ReloadHas(k, t) /\ ~ReloadHas(k, t)'
  BY <1>1 DEF ReloadHas
<1>3. QED
  BY <1>1, <1>2, ReloadStepQuiet

\* A reload installs for its own tenant only; the object it overwrites is its tenant's.
LEMMA ReloadQuietQuiet ==
    ASSUME TypeOK, WellFormed, CacheConsistent, TenantIsolation, NEW t \in Tenants,
           NEW k \in Reloads, ReloadQuiet(k), reload[k].tenant # t
    PROVE  Quiet(t)
<1>0. reload \in [Reloads -> ReloadState] /\ UNCHANGED <<worker, job>> /\ ~ReloadHas(k, t)
  BY DEF TypeOK, ReloadQuiet, ReloadLookup, ReloadSwap, ReloadInsert, ReloadHas
<1>1. CASE ReloadLookup(k)
  <2>1. PICK p, q : reload' = [reload EXCEPT ![k].pc = p, ![k].target = q]
    BY <1>1 DEF ReloadLookup
  <2>2. reload'[k].tenant = reload[k].tenant /\ \A l \in Reloads \ {k} : reload'[l] = reload[l]
    BY <1>0, <2>1 DEF ReloadState
  <2>3. ~ReloadHas(k, t)' /\ UNCHANGED <<heap, cache>>
    BY <1>1, <2>2 DEF ReloadHas, ReloadLookup
  <2>4. QED
    BY <1>0, <2>2, <2>3, ReloadStepQuiet
<1>2. ASSUME reload' = [reload EXCEPT ![k] = IdleReload]
      PROVE  ~ReloadHas(k, t)' /\ \A l \in Reloads \ {k} : reload'[l] = reload[l]
  BY <1>0, <1>2 DEF IdleReload, ReloadHas
<1>3. CASE ReloadSwap(k)
  <2>1. PICK x : x = reload[k].target
    OBVIOUS
  <2>2. /\ reload' = [reload EXCEPT ![k] = IdleReload] /\ UNCHANGED cache
        /\ HeapIs([heap EXCEPT ![x] = heap[reload[k].next]])
    BY <1>3, <2>1 DEF ReloadSwap
  <2>3. heap[x].owner # t
    BY <1>3, <2>1 DEF ReloadSwap, WellFormed, ReloadOK, TenantIsolation
  <2>4. \A o \in Objs : o \in LiveObjs /\ o \in LiveObjs' /\ heap[o].owner = t => heap'[o] = heap[o]
    BY <2>2, <2>3, HeapAfter DEF TypeOK
  <2>5. QED
    BY <1>0, <1>2, <2>2, <2>4, ReloadStepQuiet
<1>4. CASE ReloadInsert(k)
  <2>1. PICK u \in Tenants : u = reload[k].tenant
    BY <1>4 DEF ReloadInsert, WellFormed, ReloadOK
  <2>2. /\ reload' = [reload EXCEPT ![k] = IdleReload] /\ insert(u, reload[k].next)
        /\ HeapIs(heap)
    BY <1>4, <2>1 DEF ReloadInsert
  <2>3. cache'[t] \in {cache[t], NoObj}
    BY <2>1, <2>2, InsertServes
  <2>4. QED
    BY <1>0, <1>2, <2>2, <2>3, HeapAfter, ReloadStepQuiet
<1>5. QED
  BY <1>1, <1>3, <1>4 DEF ReloadQuiet

\* A read of t that finds nothing of t on its way to the cache is the only one there.
LEMMA WorkerReads ==
    ASSUME TypeOK, TypeOK', NEW t \in Tenants, NEW w \in Workers, WorkerLoad(w),
           t = job[worker[w].job].tenant, LoadError(t) = "none", NoteRead(t), HistoryOK
    PROVE  ReadsGood(t)'
<1>0. worker \in [Workers -> WorkerState] /\ UNCHANGED <<cache, job, reload>>
  BY DEF TypeOK, WorkerLoad
<1>1. PICK o \in Objs : /\ worker' = [worker EXCEPT ![w].pc = "loaded", ![w].obj = o]
                        /\ HeapIs([heap EXCEPT ![o] = DiskPolicy(t)])
  BY DEF WorkerLoad
<1>2. /\ worker'[w].pc = "loaded" /\ worker'[w].obj = o /\ worker'[w].job = worker[w].job
      /\ \A v \in Workers \ {w} : worker'[v] = worker[v]
  BY <1>0, <1>1 DEF WorkerState
<1>3. seen'[t] = disk[t].ver
  BY DEF NoteRead, HistoryOK
<1>4. heap'[o].ver = seen'[t]
  <2>1. o \in LiveObjs'
    BY <1>2 DEF LiveObjs
  <2>2. PICK h : h = [heap EXCEPT ![o] = DiskPolicy(t)]
    OBVIOUS
  <2>3. h[o] = DiskPolicy(t)
    BY <2>2 DEF TypeOK
  <2>4. heap'[o] = h[o]
    BY <1>1, <2>1, <2>2, HeapAfter
  <2>5. QED
    BY <1>3, <2>3, <2>4 DEF DiskPolicy
<1>5. SUFFICES ASSUME t \notin overlapped' PROVE Apart(t)' /\ Serves(t, seen[t])'
  BY DEF ReadsGood, Current
<1>6. (\A v \in Workers : ~WorkerHas(v, t)) /\ (\A k \in Reloads : ~ReloadHas(k, t))
  <2>1. Installing(t) = {}
    BY <1>5 DEF NoteRead
  <2>2. QED
    BY <2>1, InstallingIs
<1>7. /\ \A v \in Workers : WorkerHas(v, t)' => v = w
      /\ \A k \in Reloads : ~ReloadHas(k, t)'
      /\ WorkerHas(w, t)'
  BY <1>0, <1>2, <1>6 DEF WorkerHas, ReloadHas
<1>8. Apart(t)'
  BY <1>7 DEF Apart, ReloadHas
<1>9. Installing(t)' # {}
  BY <1>7 DEF Installing, WorkerHas
<1>10. QED
  BY <1>2, <1>4, <1>7, <1>8, <1>9 DEF Serves

LEMMA ReloadReads ==
    ASSUME TypeOK, TypeOK', NEW t \in Tenants, NEW k \in Reloads, ReloadLoad(k),
           t = reload[k].tenant, LoadError(t) = "none", NoteRead(t), HistoryOK
    PROVE  ReadsGood(t)'
<1>0. reload \in [Reloads -> ReloadState] /\ UNCHANGED <<cache, job, worker>>
  BY DEF TypeOK, ReloadLoad
<1>1. PICK o \in Objs : /\ reload' = [reload EXCEPT ![k].pc = "loaded", ![k].next = o]
                        /\ HeapIs([heap EXCEPT ![o] = DiskPolicy(t)])
  BY DEF ReloadLoad
<1>2. /\ reload'[k].pc = "loaded" /\ reload'[k].next = o /\ reload'[k].tenant = t
      /\ \A l \in Reloads \ {k} : reload'[l] = reload[l]
  BY <1>0, <1>1 DEF ReloadState
<1>3. seen'[t] = disk[t].ver
  BY DEF NoteRead, HistoryOK
<1>4. heap'[o].ver = seen'[t]
  <2>1. o \in LiveObjs'
    BY <1>2 DEF LiveObjs
  <2>2. PICK h : h = [heap EXCEPT ![o] = DiskPolicy(t)]
    OBVIOUS
  <2>3. h[o] = DiskPolicy(t)
    BY <2>2 DEF TypeOK
  <2>4. heap'[o] = h[o]
    BY <1>1, <2>1, <2>2, HeapAfter
  <2>5. QED
    BY <1>3, <2>3, <2>4 DEF DiskPolicy
<1>5. SUFFICES ASSUME t \notin overlapped' PROVE Apart(t)' /\ Serves(t, seen[t])'
  BY DEF ReadsGood, Current
<1>6. (\A v \in Workers : ~WorkerHas(v, t)) /\ (\A l \in Reloads : ~ReloadHas(l, t))
  <2>1. Installing(t) = {}
    BY <1>5 DEF NoteRead
  <2>2. QED
    BY <2>1, InstallingIs
<1>7. /\ \A v \in Workers : ~WorkerHas(v, t)'
      /\ \A l \in Reloads : ReloadHas(l, t)' => l = k
      /\ ReloadHas(k, t)' /\ reload'[k].pc # "swap"
  BY <1>0, <1>2, <1>6 DEF WorkerHas, ReloadHas
<1>8. Apart(t)'
  BY <1>7 DEF Apart, ReloadHas
<1>9. Installing(t)' # {}
  BY <1>7 DEF Installing, ReloadHas
<1>10. QED
  BY <1>2, <1>4, <1>7, <1>8, <1>9 DEF Serves

\* What a worker or a reload inserts is served, and nothing else of t is on its way.
LEMMA InsertGood ==
    ASSUME TypeOK, TypeOK', CacheConsistent, NEW t \in Tenants, NEW o \in Objs, insert(t, o),
           HeapIs(heap), UNCHANGED <<disk, seen, overlapped>>,
           \A w \in Workers : ~WorkerHas(w, t)' \/ t \in overlapped,
           \A k \in Reloads : ~ReloadHas(k, t)' \/ t \in overlapped,
           Current(t) => heap[o].ver = seen[t]
    PROVE  ReadsGood(t)'
<1>1. cache'[t] = o
  BY InsertServes
<1>2. heap'[o] = heap[o]
  <2>1. o \in LiveObjs'
    BY <1>1 DEF LiveObjs
  <2>2. QED
    BY <2>1, HeapAfter
<1>3. SUFFICES ASSUME t \notin overlapped PROVE Apart(t)' /\ (Current(t)' => Serves(t, seen[t])')
  BY DEF ReadsGood, Current
<1>4. Apart(t)'
  BY <1>3 DEF Apart, ReloadHas
<1>5. Current(t)' => Current(t)
  BY DEF Current
<1>6. QED
  BY <1>1, <1>2, <1>3, <1>4, <1>5 DEF Serves

LEMMA WorkerInsertGood ==
    ASSUME TypeOK, TypeOK', WellFormed, CacheConsistent, NEW t \in Tenants, ReadsGood(t),
           NEW w \in Workers, WorkerInsert(w), job[worker[w].job].tenant = t,
           UNCHANGED <<seen, overlapped>>
    PROVE  ReadsGood(t)'
<1>0. worker \in [Workers -> WorkerState] /\ UNCHANGED <<disk, job, reload>>
  BY DEF TypeOK, WorkerInsert
<1>1. WorkerHas(w, t)
  BY DEF WorkerHas, WorkerInsert
<1>2. PICK o \in Objs : o = worker[w].obj
  BY <1>0 DEF WorkerInsert, WellFormed, WorkerOK, WorkerState
<1>3. insert(t, o) /\ HeapIs(heap) /\ worker' = [worker EXCEPT ![w].pc = "reply"]
  BY <1>2 DEF WorkerInsert
<1>4. worker'[w].pc = "reply" /\ \A v \in Workers \ {w} : worker'[v] = worker[v]
  BY <1>0, <1>3 DEF WorkerState
<1>5. \A v \in Workers : ~WorkerHas(v, t)' \/ t \in overlapped
  BY <1>0, <1>1, <1>4 DEF ReadsGood, Apart, WorkerHas
<1>6. \A k \in Reloads : ~ReloadHas(k, t)' \/ t \in overlapped
  BY <1>0, <1>1 DEF ReadsGood, Apart, ReloadHas
<1>7. Current(t) => heap[o].ver = seen[t]
  BY <1>1, <1>2 DEF ReadsGood, Serves
<1>8. QED
  BY <1>0, <1>3, <1>5, <1>6, <1>7, InsertGood

LEMMA ReloadInsertGood ==
    ASSUME TypeOK, TypeOK', WellFormed, CacheConsistent, NEW t \in Tenants, ReadsGood(t),
           NEW k \in Reloads, ReloadInsert(k), reload[k].tenant = t,
           UNCHANGED <<seen, overlapped>>
    PROVE  ReadsGood(t)'
<1>0. reload \in [Reloads -> ReloadState] /\ UNCHANGED <<disk, job, worker>>
  BY DEF TypeOK, ReloadInsert
<1>1. ReloadHas(k, t)
  BY DEF ReloadHas, ReloadInsert
<1>2. PICK o \in Objs : o = reload[k].next
  BY <1>0 DEF ReloadInsert, WellFormed, ReloadOK, ReloadState
<1>3. insert(t, o) /\ HeapIs(heap) /\ reload' = [reload EXCEPT ![k] = IdleReload]
  BY <1>2 DEF ReloadInsert
<1>4. reload'[k].pc = "idle" /\ \A l \in Reloads \ {k} : reload'[l] = reload[l]
  BY <1>0, <1>3 DEF IdleReload
<1>5. \A v \in Workers : ~WorkerHas(v, t)' \/ t \in overlapped
  BY <1>0, <1>1 DEF ReadsGood, Apart, WorkerHas
<1>6. \A l \in Reloads : ~ReloadHas(l, t)' \/ t \in overlapped
  BY <1>0, <1>1, <1>4 DEF ReadsGood, Apart, ReloadHas
<1>7. Current(t) => heap[o].ver = seen[t]
  BY <1>1, <1>2 DEF ReadsGood, Serves
<1>8. QED
  BY <1>0, <1>3, <1>5, <1>6, <1>7, InsertGood

\* The entry a reload finds is the one it will overwrite.
LEMMA ReloadLookupGood ==
    ASSUME TypeOK, NEW t \in Tenants, ReadsGood(t), NEW k \in Reloads, ReloadLookup(k),
           reload[k].tenant = t, UNCHANGED <<seen, overlapped>>
    PROVE  ReadsGood(t)'
<1>0. /\ reload \in [Reloads -> ReloadState] /\ UNCHANGED <<disk, heap, cache, job, worker>>
      /\ reload[k].pc = "loaded"
  BY DEF TypeOK, ReloadLookup
<1>1. PICK p \in {"swap", "insert"} : reload' = [reload EXCEPT ![k].pc = p, ![k].target = cache[t]]
  BY DEF ReloadLookup
<1>2. /\ reload'[k].pc = p /\ reload'[k].target = cache[t] /\ reload'[k].tenant = t
      /\ reload'[k].next = reload[k].next
      /\ \A l \in Reloads \ {k} : reload'[l] = reload[l]
  BY <1>0, <1>1 DEF ReloadState
<1>3. /\ \A w \in Workers : WorkerHas(w, t)' <=> WorkerHas(w, t)
      /\ \A l \in Reloads : ReloadHas(l, t)' <=> ReloadHas(l, t)
      /\ ReloadHas(k, t)
  BY <1>0, <1>2 DEF WorkerHas, ReloadHas
<1>4. t \notin overlapped => Apart(t)'
  BY <1>0, <1>2, <1>3 DEF ReadsGood, Apart
<1>5. Current(t) => Serves(t, seen[t])'
  <2>1. Installing(t)' # {}
    BY <1>2 DEF Installing
  <2>2. QED
    BY <1>0, <1>2, <1>3, <2>1 DEF ReadsGood, Serves
<1>6. Current(t)' => Current(t)
  BY <1>0 DEF Current
<1>7. QED
  BY <1>4, <1>5, <1>6 DEF ReadsGood

\* The swap gives the cached object what was read, unless the entry was evicted.
LEMMA ReloadSwapGood ==
    ASSUME TypeOK, TypeOK', WellFormed, NEW t \in Tenants, ReadsGood(t), NEW k \in Reloads,
           ReloadSwap(k), reload[k].tenant = t, UNCHANGED <<seen, overlapped>>
    PROVE  ReadsGood(t)'
<1>0. /\ reload \in [Reloads -> ReloadState] /\ UNCHANGED <<disk, cache, job, worker>>
      /\ reload[k].pc = "swap"
  BY DEF TypeOK, ReloadSwap
<1>1. PICK x \in Objs : x = reload[k].target
  BY <1>0 DEF WellFormed, ReloadOK, ReloadState
<1>2. PICK h : h = [heap EXCEPT ![x] = heap[reload[k].next]]
  OBVIOUS
<1>3. HeapIs(h) /\ reload' = [reload EXCEPT ![k] = IdleReload]
  BY <1>1, <1>2 DEF ReloadSwap
<1>4. reload'[k].pc = "idle" /\ \A l \in Reloads \ {k} : reload'[l] = reload[l]
  BY <1>0, <1>3 DEF IdleReload
<1>5. ReloadHas(k, t)
  BY <1>0 DEF ReloadHas
<1>6. SUFFICES ASSUME t \notin overlapped PROVE Apart(t)' /\ (Current(t)' => Serves(t, seen[t])')
  BY DEF ReadsGood, Current
<1>7. /\ \A w \in Workers : ~WorkerHas(w, t)'
      /\ \A l \in Reloads : ~ReloadHas(l, t)'
  BY <1>0, <1>4, <1>5, <1>6 DEF ReadsGood, Apart, WorkerHas, ReloadHas
<1>8. Apart(t)'
  BY <1>7 DEF Apart, ReloadHas
<1>9. ASSUME Current(t)', cache'[t] # NoObj PROVE heap'[cache'[t]].ver = seen'[t]
  <2>1. cache'[t] = x
    BY <1>0, <1>1, <1>6, <1>9 DEF ReadsGood, Apart
  <2>2. heap'[x] = h[x]
    BY <1>3, <2>1, HeapAfter DEF LiveObjs
  <2>3. h[x] = heap[reload[k].next]
    BY <1>2 DEF TypeOK
  <2>4. heap[reload[k].next].ver = seen[t]
    BY <1>0, <1>5, <1>9 DEF ReadsGood, Serves, Current
  <2>5. QED
    BY <2>1, <2>2, <2>3, <2>4
<1>10. QED
  BY <1>7, <1>8, <1>9 DEF Serves

\* A step that is quiet for t and leaves its history and policy.db alone.
LEMMA ReadsStep ==
    ASSUME TypeOK, TypeOK', WellFormed, WellFormed', CacheConsistent, TenantIsolation, HistoryOK,
           SeenNotAhead, TimersOK, NEW t \in Tenants, ReadsGood(t), [HotNext]_hotVars
    PROVE  ReadsGood(t)'
<1>1. ASSUME Quiet(t), UNCHANGED <<disk, history>> PROVE ReadsGood(t)'
  BY <1>1, QuietGood DEF history, Current
<1>2. CASE ServeStep
  <2>1. UNCHANGED <<disk, history>> /\ UNCHANGED <<seen, overlapped>> /\ ServeNext
    BY <1>2, DiskAndReloads DEF ServeStep, history
  <2>2. ASSUME NEW w \in Workers, WorkerInsert(w), job[worker[w].job].tenant = t
        PROVE  ReadsGood(t)'
    BY <2>1, <2>2, WorkerInsertGood
  <2>3. CASE \A w \in Workers : WorkerInsert(w) => job[worker[w].job].tenant # t
    BY <1>1, <2>1, <2>3, ServeQuiet
  <2>4. QED
    BY <2>2, <2>3
<1>3. ASSUME NEW u \in Tenants, NoteRead(u), UNCHANGED disk, Quiet(t), u # t \/ LoadError(t) # "none"
      PROVE  ReadsGood(t)'
  <2>1. CASE u # t
    <3>1. seen'[t] = seen[t] /\ (t \in overlapped' <=> t \in overlapped)
      BY <1>3, <2>1 DEF NoteRead, HistoryOK
    <3>2. QED
      BY <1>3, <3>1, QuietGood DEF Current
  <2>2. CASE u = t
    <3>1. disk[t].state # "ok"
      BY <1>3, <2>2 DEF LoadError, TypeOK, File
    <3>2. UNCHANGED overlapped
      BY <1>3, <2>2 DEF NoteRead
    <3>3. QED
      BY <1>3, <3>1, <3>2, QuietGood DEF Current
  <2>3. QED
    BY <2>1, <2>2
<1>4. ASSUME NEW w \in Workers, ColdRead(w) PROVE ReadsGood(t)'
  <2>1. PICK u \in Tenants : u = job[worker[w].job].tenant
    BY <1>4, ReadTenant DEF ColdRead
  <2>2. WorkerLoad(w) /\ NoteRead(u) /\ UNCHANGED disk
    BY <1>4, <2>1, DiskAndReloads DEF ColdRead
  <2>3. CASE u # t \/ LoadError(t) # "none"
    BY <1>3, <2>1, <2>2, <2>3, WorkerLoadQuiet
  <2>4. CASE u = t /\ LoadError(t) = "none"
    BY <2>1, <2>2, <2>4, WorkerReads
  <2>5. QED
    BY <2>3, <2>4
<1>5. ASSUME NEW k \in Reloads, ReloadRead(k) PROVE ReadsGood(t)'
  <2>1. PICK u \in Tenants : u = reload[k].tenant
    BY <1>5, ReadTenant DEF ReloadRead
  <2>2. ReloadLoad(k) /\ NoteRead(u) /\ UNCHANGED disk
    BY <1>5, <2>1, DiskAndReloads DEF ReloadRead
  <2>3. CASE u # t \/ LoadError(t) # "none"
    BY <1>3, <2>1, <2>2, <2>3, ReloadLoadQuiet
  <2>4. CASE u = t /\ LoadError(t) = "none"
    BY <2>1, <2>2, <2>4, ReloadReads
  <2>5. QED
    BY <2>3, <2>4
<1>6. ASSUME NEW k \in Reloads, ReloadInstall(k) PROVE ReadsGood(t)'
  <2>1. UNCHANGED <<disk, history>> /\ UNCHANGED <<seen, overlapped>> /\ ReloadQuiet(k)
    BY <1>6, DiskAndReloads DEF ReloadInstall, history
  <2>2. CASE reload[k].tenant # t
    BY <1>1, <2>1, <2>2, ReloadQuietQuiet
  <2>3. CASE reload[k].tenant = t
    BY <2>1, <2>3, ReloadLookupGood, ReloadSwapGood, ReloadInsertGood DEF ReloadQuiet
  <2>4. QED
    BY <2>2, <2>3
<1>7. ASSUME NEW k \in Reloads, TimerCallback(k) PROVE ReadsGood(t)'
  <2>1. UNCHANGED <<disk, history>>
    BY <1>7, DiskAndReloads DEF TimerCallback
  <2>2. PICK u : u = timer[k].tenant
    OBVIOUS
  <2>3. ReloadTenant(k, u)
    BY <1>7, <2>2 DEF TimerCallback
  <2>4. QED
    BY <1>1, <2>1, <2>3, ReloadTenantQuiet
<1>8. ASSUME UNCHANGED <<heap, cache, job, worker, reload>> PROVE Quiet(t)
  BY <1>8, QuietBy
<1>9. ASSUME NEW u \in Tenants, ChangePolicy(u) \/ RemovePolicy(u) PROVE ReadsGood(t)'
  <2>1. /\ UNCHANGED <<heap, cache, job, worker, reload>> /\ UNCHANGED <<seen, overlapped>>
    BY <1>9 DEF ChangePolicy, RemovePolicy, Publish, Unpublish, history
  <2>2. Current(t)' => Current(t)
    <3>0. disk \in [Tenants -> File] /\ seen[t] \in Nat /\ disk[t].ver \in Nat /\ seen[t] <= disk[t].ver
      BY DEF TypeOK, File, HistoryOK, SeenNotAhead, Versions
    <3>1. ASSUME NEW s \in {"ok", "corrupt"}, NEW v, v = disk[u].ver + 1,
                 disk' = [disk EXCEPT ![u] = [ver |-> v, state |-> s]]
          PROVE  Current(t)' => Current(t)
      BY <2>1, <3>0, <3>1 DEF Current
    <3>2. ASSUME disk' = [disk EXCEPT ![u].state = "absent"] PROVE Current(t)' => Current(t)
      BY <2>1, <3>0, <3>2 DEF Current, File
    <3>3. QED
      BY <1>9, <3>1, <3>2 DEF ChangePolicy, RemovePolicy, Publish, Unpublish
  <2>3. QED
    BY <1>8, <2>1, <2>2, QuietGood
<1>10. ASSUME \/ HandleEvent \/ Cancel \/ \E k \in Reloads : Fire(k)
              \/ \E u \in Tenants : MakeDir(u) \/ UNCHANGED hotVars
       PROVE  ReadsGood(t)'
  <2>1. UNCHANGED <<heap, cache, job, worker, reload>> /\ UNCHANGED <<disk, history>>
    BY <1>10 DEF HandleEvent, Cancel, Fire, MakeDir, hotVars, vars
  <2>2. QED
    BY <1>1, <1>8, <2>1
<1>11. QED
  BY <1>2, <1>4, <1>5, <1>6, <1>7, <1>9, <1>10 DEF HotNext

-----------------------------------------------------------------------------
(* The theorems *)

LEMMA HotParts == HotTypeOK /\ EventsOfDirs <=> EventsOK /\ TimersOK /\ DirsOK /\ HistoryOK
BY WatcherParts DEF HotTypeOK, HistoryOK

LEMMA HotStarts ==
    ASSUME HotInit
    PROVE  HotTypeOK /\ HotInv
<1>0. /\ Init /\ W!WatcherInit /\ dirs \subseteq Tenants
      /\ seen = [t \in Tenants |-> disk[t].ver] /\ missed = {} /\ overlapped = {}
  BY DEF HotInit
<1>1. TypeOK /\ \A t \in Tenants : disk[t].ver \in Versions /\ disk[t].ver \in Nat
  BY <1>0, TypeInit DEF TypeOK, File, Versions
<1>2. HistoryOK /\ SeenNotAhead /\ \A t \in Tenants : seen[t] = disk[t].ver
  BY <1>0, <1>1 DEF HistoryOK, SeenNotAhead
<1>3. EventsOK /\ DirsOK
  BY <1>0, EventCapAssumption DEF W!WatcherInit, EventsOK, EventsOfDirs, DirsOK
<1>4. TimersOK
  BY <1>0 DEF W!WatcherInit, TimersOK
<1>5. ChangeAwaited
  BY <1>2 DEF ChangeAwaited
<1>6. ASSUME NEW t \in Tenants PROVE ReadsGood(t)
  <2>1. /\ \A w \in Workers : ~WorkerHas(w, t)
        /\ \A k \in Reloads : ~ReloadHas(k, t) /\ reload[k].pc # "swap"
        /\ cache[t] = NoObj
    BY <1>0 DEF Init, WorkerHas, ReloadHas, IdleWorker, IdleReload
  <2>2. QED
    BY <2>1 DEF ReadsGood, Apart, Serves
<1>7. QED
  BY <1>2, <1>3, <1>4, <1>5, <1>6, HotParts DEF HotInv, EventsOK

\* Beside a step of the registry the watcher and the history keep their invariants.
LEMMA HotStep ==
    ASSUME TypeOK, TypeOK', WellFormed, WellFormed', CacheConsistent, TenantIsolation,
           HotTypeOK, HotInv, [HotNext]_hotVars
    PROVE  HotTypeOK' /\ HotInv'
<1>1. EventsOK /\ TimersOK /\ DirsOK /\ HistoryOK
  BY HotParts DEF HotInv
<1>2. EventsOK' /\ TimersOK' /\ DirsOK' /\ HistoryOK'
  BY <1>1, WatcherStep, HistoryStep
<1>3. (HotTypeOK /\ EventsOfDirs)'
  BY <1>2, HotParts, PTL
<1>4. ChangeAwaited' /\ SeenNotAhead'
  BY <1>1, AwaitedStep, SeenStep DEF HotInv
<1>5. \A t \in Tenants : ReadsGood(t)'
  BY <1>1, ReadsStep DEF HotInv
<1>6. QED
  BY <1>3, <1>4, <1>5 DEF HotInv

\* watcher.go: the map never names a timer of another tenant or one that has run, the loop
\* never watches a directory that is not there, and the queue stays within its capacity.
THEOREM HotTypeCorrect == HotSpec => [](HotTypeOK /\ HotInv)
<1> DEFINE Inv == /\ TypeOK /\ WellFormed /\ CacheConsistent /\ IsolationInv
                  /\ HotTypeOK /\ HotInv
<1>1. HotInit => Inv
  <2> SUFFICES ASSUME HotInit PROVE Inv
    OBVIOUS
  <2>1. Init
    BY DEF HotInit
  <2>2. CacheConsistent
    BY <2>1, CacheSizeAssumption DEF Init, CacheConsistent, Elems
  <2>3. IsolationInv
    BY <2>1 DEF Init, IsolationInv, TenantIsolation, WaitsForOwnTenant, IdleCall, IdleWorker,
       IdleReload, FreeJob
  <2>4. QED
    BY <2>1, <2>2, <2>3, TypeInit, HotStarts
<1>2. Inv /\ [HotNext]_hotVars => Inv'
  <2> SUFFICES ASSUME Inv, [HotNext]_hotVars PROVE Inv'
    OBVIOUS
  <2>1. [Next]_vars
    BY HotIsNext, HotParts DEF HotInv
  <2>2. TypeOK' /\ WellFormed'
    BY <2>1, TypeStep, WellFormedStep
  <2>3. CacheConsistent' /\ IsolationInv'
    BY <2>1, <2>2, CacheStep, IsolationStep
  <2>4. HotTypeOK' /\ HotInv'
    BY <2>2, HotStep DEF IsolationInv
  <2>5. QED
    BY <2>2, <2>3, <2>4
<1>3. QED
  BY <1>1, <1>2, PTL DEF HotSpec

\* Watch, ReloadTenant, loadWorker: once all is quiet a cached policy is the one on disk,
\* unless the change raised no event or two reads of the tenant overlapped.
THEOREM CachedIsFresh == HotSpec => []FreshUnlessRace
<1>1. HotTypeOK /\ HotInv => FreshUnlessRace
  <2> SUFFICES ASSUME HotInv, NEW t \in Tenants, Settled(t), t \notin missed \cup overlapped,
                      cache[t] # NoObj, disk[t].state = "ok"
               PROVE  heap[cache[t]].ver = disk[t].ver
    BY DEF FreshUnlessRace, Fresh
  <2>1. ~Awaited(t) /\ running /\ Installing(t) = {}
    BY DEF Settled, Awaited, FileQueued, AboutToRead
  <2>2. seen[t] = disk[t].ver
    BY <2>1 DEF HotInv, ChangeAwaited
  <2>3. Serves(t, seen[t])
    BY <2>2 DEF HotInv, ReadsGood, Current
  <2>4. QED
    BY <2>1, <2>2, <2>3 DEF Serves
<1>2. QED
  BY <1>1, HotTypeCorrect, PTL

\* Watch, ReloadTenant: with its watcher the registry still does only what its own
\* specification allows: a step of the watcher, of a timer or of the control plane is a step
\* of the registry or none of its business, and ReloadTenant is called for tenants only.
THEOREM HotImplementsRegistry == HotSpec => Spec
<1>1. HotInit => Init
  BY DEF HotInit
<1>2. HotTypeOK /\ HotInv /\ [HotNext]_hotVars => [Next]_vars
  BY HotIsNext, HotParts DEF HotInv
<1>3. QED
  BY <1>1, <1>2, HotTypeCorrect, PTL DEF HotSpec, Spec

\* So what is proved of the registry holds while files change and timers fire: no tenant is
\* served another's policy, a tenant's misses have one leader, and no job is lost.
COROLLARY HotKeepsRegistry ==
    HotSpec => [](CacheConsistent /\ TenantIsolation /\ SingleFlight /\ NoLostJob)
BY HotImplementsRegistry, CacheIsConsistent, TenantsAreIsolated, OneFlightPerTenant,
   NoJobIsLost, PTL
=============================================================================
