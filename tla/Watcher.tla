------------------------------ MODULE Watcher -------------------------------
(***************************************************************************)
(* The file watcher of the policy directory: policy/watcher.go.            *)
(*                                                                         *)
(* Watch puts one fsnotify watch on the root directory; the event loop     *)
(* adds a watch for every directory it sees created, and arms a debounce   *)
(* timer for the tenant whose policy.db changed.  A timer's callback runs  *)
(* in a goroutine of its own and calls ReloadTenant.                       *)
(*                                                                         *)
(* fsnotify and the kernel queue behind it are external: directories are   *)
(* not watched recursively, events come in order, and an event that finds  *)
(* the queue full is dropped and reported as an error, which the loop only *)
(* logs.                                                                   *)
(***************************************************************************)
EXTENDS Integers, Sequences, FiniteSets

CONSTANTS
    Tenants,
    Timers,     \* bound: timers alive at one time, by name
    NoTimer,
    EventCap    \* capacity of the kernel's event queue

VARIABLES
    dirs,      \* tenants that have a directory
    watched,   \* tenants whose directory has a watch
    events,    \* queue of file system events
    timer,     \* the debounce timers
    pending,   \* tenant -> the timer the map holds for it, or NoTimer
    running    \* whether the event loop runs

watcherVars == <<dirs, watched, events, timer, pending, running>>

\* "dir": a directory was created in the root.  "file": policy.db was written, created or
\* renamed into place.  "other": what the loop passes over, a removed policy.db among it.
Event == [kind : {"dir", "file", "other"}, tenant : Tenants]

\* An armed timer has not expired; a fired one has a callback about to run.
IdleTimer == [pc |-> "free"]
Timer(pc, t) == [pc |-> pc, tenant |-> t]

\* Timers of tenant t that have a callback to run now or later.
TimersOf(t) == {k \in Timers : timer[k].pc # "free" /\ timer[k].tenant = t}

\* The types, and that the map names a timer of the tenant that has not run: nothing else
\* is ever stopped on behalf of a tenant.
WatcherTypeOK ==
    /\ dirs \subseteq Tenants
    /\ watched \subseteq dirs
    /\ events \in Seq(Event) /\ Len(events) <= EventCap
    /\ timer \in [Timers -> {IdleTimer} \cup {Timer(pc, t) : pc \in {"armed", "fired"}, t \in Tenants}]
    /\ pending \in [Tenants -> Timers \cup {NoTimer}]
    /\ running \in BOOLEAN
    /\ running => \A t \in Tenants : pending[t] # NoTimer => pending[t] \in TimersOf(t)

WatcherInit ==
    /\ watched = {}
    /\ events = <<>>
    /\ timer = [k \in Timers |-> IdleTimer]
    /\ pending = [t \in Tenants |-> NoTimer]
    /\ running = TRUE

-----------------------------------------------------------------------------
(* The file system *)

\* An event in a watched directory reaches the queue unless the queue is full.
Reported(t) == t \in watched /\ Len(events) < EventCap

Notify(kind, t, reported) ==
    events' = IF reported THEN Append(events, [kind |-> kind, tenant |-> t]) ELSE events

\* store_policy makes a tenant's directory, which the watch of the root reports.
MakeDir(t) ==
    /\ t \notin dirs
    /\ dirs' = dirs \cup {t}
    /\ Notify("dir", t, Len(events) < EventCap)
    /\ UNCHANGED <<watched, timer, pending, running>>

\* policy.db of t is replaced or removed.
FileChanged(t, kind) ==
    /\ t \in dirs
    /\ Notify(kind, t, Reported(t))
    /\ UNCHANGED <<dirs, watched, timer, pending, running>>

-----------------------------------------------------------------------------
(* The event loop *)

\* A created directory is watched from now on; what happened in it before is not seen.
\* The error of watcher.Add is dropped, and then the directory is never watched.
HandleDir ==
    /\ running
    /\ events # <<>>
    /\ Head(events).kind = "dir"
    /\ events' = Tail(events)
    /\ watched' \in {watched, watched \cup {Head(events).tenant}}
    /\ UNCHANGED <<dirs, timer, pending, running>>

HandleOther ==
    /\ running
    /\ events # <<>>
    /\ Head(events).kind = "other"
    /\ events' = Tail(events)
    /\ UNCHANGED <<dirs, watched, timer, pending, running>>

\* Timer.Stop: nothing happens to a timer that has fired.
Stopped(tm, k) == IF tm[k].pc = "armed" THEN [tm EXCEPT ![k] = IdleTimer] ELSE tm

\* Mutant: the pending timer is stopped and no new one is started.
scheduleStopsOnly(t, k) ==
    IF pending[t] # NoTimer
    THEN timer' = Stopped(timer, pending[t]) /\ UNCHANGED pending
    ELSE timer' = [timer EXCEPT ![k] = Timer("armed", t)] /\ pending' = [pending EXCEPT ![t] = k]

\* schedule: stop the timer the map holds for t and arm a new one, k.
schedule(t, k) ==
    LET tm == IF pending[t] # NoTimer THEN Stopped(timer, pending[t]) ELSE timer
    IN  /\ timer[k].pc = "free"
        /\ timer' = [tm EXCEPT ![k] = Timer("armed", t)]
        /\ pending' = [pending EXCEPT ![t] = k]

\* Mutant: the loop knows Write events only, and the renamed policy.db passes unseen.
HandleFileIgnored(k) ==
    /\ running
    /\ events # <<>>
    /\ Head(events).kind = "file"
    /\ events' = Tail(events)
    /\ UNCHANGED <<dirs, watched, timer, pending, running>>

HandleFile(k) ==
    /\ running
    /\ events # <<>>
    /\ Head(events).kind = "file"
    /\ events' = Tail(events)
    /\ schedule(Head(events).tenant, k)
    /\ UNCHANGED <<dirs, watched, running>>

\* ctx.Done: stop the timers of the map and leave the loop.
Cancel ==
    /\ running
    /\ running' = FALSE
    /\ timer' = [k \in Timers |-> IF \E t \in Tenants : pending[t] = k
                                  THEN Stopped(timer, k)[k] ELSE timer[k]]
    /\ UNCHANGED <<dirs, watched, events, pending>>

-----------------------------------------------------------------------------
(* The timers *)

\* 300 ms have passed: the callback has a goroutine, and Stop comes too late.
Fire(k) ==
    /\ timer[k].pc = "armed"
    /\ timer' = [timer EXCEPT ![k].pc = "fired"]
    /\ UNCHANGED <<dirs, watched, events, pending, running>>

\* Mutant: the callback does not delete the map's entry.
CallbackKeepsEntry(k) ==
    /\ timer[k].pc = "fired"
    /\ timer' = [timer EXCEPT ![k] = IdleTimer]
    /\ UNCHANGED <<dirs, watched, events, pending, running>>

\* The callback deletes the map's entry for its tenant, whichever timer that is, and
\* goes on to ReloadTenant.
Callback(k) ==
    /\ timer[k].pc = "fired"
    /\ pending' = [pending EXCEPT ![timer[k].tenant] = NoTimer]
    /\ timer' = [timer EXCEPT ![k] = IdleTimer]
    /\ UNCHANGED <<dirs, watched, events, running>>
=============================================================================
