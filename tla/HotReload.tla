----------------------------- MODULE HotReload ------------------------------
(***************************************************************************)
(* The registry and its file watcher together: a change of policy.db       *)
(* becomes an event, a debounce timer and a ReloadTenant, which races with *)
(* the cold loads of the workers.  A timer and the goroutine of its        *)
(* callback share one name, of the set Reloads.                            *)
(*                                                                         *)
(* Three history variables say what happened to the versions of a tenant's *)
(* policy.db; no action of the program reads them.                         *)
(***************************************************************************)
EXTENDS Registry

CONSTANTS NoTimer, EventCap

ASSUME NoTimerAssumption == NoTimer \notin Reloads
ASSUME EventCapAssumption == EventCap \in Nat \ {0}

VARIABLES dirs, watched, events, timer, pending, running

VARIABLES
    seen,        \* tenant -> version of policy.db that was last read
    missed,      \* tenants whose latest change raised no event and was not read since
    overlapped   \* tenants whose latest read began while an earlier one was not installed

W == INSTANCE Watcher WITH Timers <- Reloads

watcherVars == <<dirs, watched, events, timer, pending, running>>
history == <<seen, missed, overlapped>>
hotVars == <<vars, watcherVars, history>>

\* Goroutines that have read a policy of t and have not installed it yet.
Installing(t) ==
    {w \in Workers : worker[w].pc = "loaded" /\ job[worker[w].job].tenant = t}
    \cup {k \in Reloads : reload[k].pc \in {"loaded", "swap", "insert"} /\ reload[k].tenant = t}

\* A goroutine reads policy.db of t.
NoteRead(t) ==
    /\ seen' = [seen EXCEPT ![t] = disk[t].ver]
    /\ missed' = missed \ {t}
    /\ overlapped' = IF LoadError(t) # "none" THEN overlapped
                     ELSE IF Installing(t) # {} THEN overlapped \cup {t} ELSE overlapped \ {t}

-----------------------------------------------------------------------------
HotInit ==
    /\ Init
    /\ W!WatcherInit
    /\ dirs \in {d \in SUBSET Tenants : \A t \in Tenants : disk[t].state = "ok" => t \in d}
    /\ seen = [t \in Tenants |-> disk[t].ver]
    /\ missed = {}
    /\ overlapped = {}

ServeStep == ServeNext /\ UNCHANGED <<watcherVars, history>>

ColdRead(w) ==
    /\ WorkerLoad(w)
    /\ NoteRead(job[worker[w].job].tenant)
    /\ UNCHANGED watcherVars

ReloadRead(k) ==
    /\ ReloadLoad(k)
    /\ NoteRead(reload[k].tenant)
    /\ UNCHANGED watcherVars

ReloadInstall(k) == ReloadQuiet(k) /\ UNCHANGED <<watcherVars, history>>

\* The control plane's steps.
MakeDir(t) == W!MakeDir(t) /\ UNCHANGED <<vars, history>>

ChangePolicy(t) ==
    /\ Publish(t)
    /\ W!FileChanged(t, "file")
    /\ missed' = IF W!Reported(t) THEN missed \ {t} ELSE missed \cup {t}
    /\ UNCHANGED <<seen, overlapped>>

RemovePolicy(t) == Unpublish(t) /\ W!FileChanged(t, "other") /\ UNCHANGED history

\* The watcher's steps.
HandleEvent ==
    /\ W!HandleDir \/ W!HandleOther \/ \E k \in Reloads : reload[k].pc = "idle" /\ W!HandleFile(k)
    /\ UNCHANGED <<vars, history>>

Fire(k) == W!Fire(k) /\ UNCHANGED <<vars, history>>

TimerCallback(k) ==
    /\ W!Callback(k)
    /\ ReloadTenant(k, timer[k].tenant)
    /\ UNCHANGED history

Cancel == W!Cancel /\ UNCHANGED <<vars, history>>

HotNext ==
    /\ status # "crashed"
    /\ \/ ServeStep
       \/ \E w \in Workers : ColdRead(w)
       \/ \E k \in Reloads : ReloadRead(k) \/ ReloadInstall(k) \/ Fire(k) \/ TimerCallback(k)
       \/ \E t \in Tenants : MakeDir(t) \/ ChangePolicy(t) \/ RemovePolicy(t)
       \/ HandleEvent
       \/ Cancel

HotSpec == HotInit /\ [][HotNext]_hotVars

\* The event loop and the goroutines of expired timers run, timers expire, and the
\* disk answers a reload.
ReloadFairness ==
    /\ WF_hotVars(HandleEvent)
    /\ \A k \in Reloads : /\ WF_hotVars(Fire(k))
                          /\ WF_hotVars(TimerCallback(k))
                          /\ WF_hotVars(ReloadRead(k) \/ ReloadInstall(k))

HotFairSpec == HotSpec /\ ReloadFairness

-----------------------------------------------------------------------------
(* Properties *)

HotTypeOK ==
    /\ W!WatcherTypeOK
    /\ seen \in [Tenants -> Versions]
    /\ missed \subseteq Tenants
    /\ overlapped \subseteq Tenants

\* Nothing is under way that would still read or install a policy of t.
Settled(t) ==
    /\ running
    /\ Installing(t) = {}
    /\ W!TimersOf(t) = {}
    /\ \A k \in Reloads : reload[k].tenant # t
    /\ \A i \in 1 .. Len(events) : ~(events[i].kind = "file" /\ events[i].tenant = t)

Fresh(t) == cache[t] # NoObj /\ disk[t].state = "ok" => heap[cache[t]].ver = disk[t].ver

\* Watch, ReloadTenant, loadWorker: a cached policy can stay behind policy.db for two
\* reasons only, that the change raised no event, or that two reads of the tenant
\* overlapped and were installed in the wrong order.
FreshUnlessRace ==
    \A t \in Tenants : Settled(t) /\ t \notin missed \cup overlapped => Fresh(t)

\* Watch: a change that raised an event is read again, by the timer it ends up with at
\* the latest, whatever stops and restarts of the debounce come in between.
ChangeEventuallySeen ==
    \A t \in Tenants : seen[t] # disk[t].ver /\ t \notin missed ~>
                         (seen[t] = disk[t].ver \/ t \in missed \/ ~running)
=============================================================================
