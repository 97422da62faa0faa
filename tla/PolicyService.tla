--------------------------- MODULE PolicyService ----------------------------
(***************************************************************************)
(* What the tenant policy registry promises, without its queue, workers,   *)
(* flights and timers: a cache of one policy handle per tenant, and calls  *)
(* that ask for a tenant's policy.                                         *)
(*                                                                         *)
(* A call may be answered with any handle the cache served for its tenant  *)
(* since the call began, or since another call it joined began, and it may *)
(* fail.  It is never answered with anything else: not with a policy the   *)
(* cache never served, with one from before the call, or with the answer   *)
(* to a call that was given up.                                            *)
(***************************************************************************)
EXTENDS Integers, FiniteSets

CONSTANTS Tenants, NoTenant, Requests, Handles, NoHandle, CacheSize

VARIABLES
    entry,    \* tenant -> the handle that is served for it, or NoHandle
    call,     \* the call each request is in
    offered   \* request -> the handles its call may be answered with

serviceVars == <<entry, call, offered>>

NoCall == [state |-> "idle", tenant |-> NoTenant, got |-> NoHandle]
Asked(t) == [state |-> "asked", tenant |-> t, got |-> NoHandle]
Got(t, h) == [state |-> "got", tenant |-> t, got |-> h]
Failed(t) == [state |-> "failed", tenant |-> t, got |-> NoHandle]

Asking(t) == {r \in Requests : call[r] = Asked(t)}
Served(t) == {entry[t]} \ {NoHandle}

\* A handle nobody else holds may be forgotten at any time.
Forgetting == \A r \in Requests : offered'[r] \subseteq offered[r]

ServiceInit ==
    /\ entry = [t \in Tenants |-> NoHandle]
    /\ call = [r \in Requests |-> NoCall]
    /\ offered = [r \in Requests |-> {}]

\* A call finds its tenant's policy, or is left waiting.
Hit(r, t) ==
    /\ call[r] = NoCall /\ entry[t] # NoHandle
    /\ call' = [call EXCEPT ![r] = Got(t, entry[t])]
    /\ Forgetting
    /\ UNCHANGED entry

Ask(r, t) ==
    /\ call[r] = NoCall
    /\ call' = [call EXCEPT ![r] = Asked(t)]
    /\ \A q \in Requests : offered'[q] \subseteq IF q = r THEN Served(t) ELSE offered[q]
    /\ UNCHANGED entry

\* An id that is no tenant's.
Refuse(r) ==
    /\ call[r] = NoCall
    /\ call' = [call EXCEPT ![r] = Failed(NoTenant)]
    /\ Forgetting
    /\ UNCHANGED entry

\* A call is taken for the same as another one of its tenant.
Join(r, t) ==
    /\ r \in Asking(t)
    /\ \E q \in Asking(t) : \A x \in Requests :
          offered'[x] \subseteq IF x = r THEN offered[r] \cup offered[q] ELSE offered[x]
    /\ UNCHANGED <<entry, call>>

\* A handle is served for t from now on; other tenants may have to make room for it.
Install(t, h) ==
    /\ entry'[t] = h
    /\ entry' \in [Tenants -> Handles \cup {NoHandle}]
    /\ \A u \in Tenants \ {t} : entry'[u] \in {entry[u], NoHandle}
    /\ Cardinality({u \in Tenants : entry'[u] # NoHandle}) <= CacheSize
    /\ \A r \in Requests :
          offered'[r] \subseteq IF r \in Asking(t) THEN offered[r] \cup {h} ELSE offered[r]
    /\ UNCHANGED call

\* Calls of one tenant end together: with a handle all of them were offered, or not.
Answer(t, rs, h) ==
    /\ rs \subseteq Asking(t)
    /\ \A r \in rs : h \in offered[r]
    /\ call' = [r \in Requests |-> IF r \in rs THEN Got(t, h) ELSE call[r]]
    /\ Forgetting
    /\ UNCHANGED entry

Fail(t, rs) ==
    /\ rs \subseteq Asking(t)
    /\ call' = [r \in Requests |-> IF r \in rs THEN Failed(t) ELSE call[r]]
    /\ Forgetting
    /\ UNCHANGED entry

Return(r) ==
    /\ call[r].state \in {"got", "failed"}
    /\ call' = [call EXCEPT ![r] = NoCall]
    /\ Forgetting
    /\ UNCHANGED entry

Forget == Forgetting /\ UNCHANGED <<entry, call>>

ServiceNext ==
    \/ \E r \in Requests : Refuse(r) \/ Return(r)
    \/ \E r \in Requests, t \in Tenants : Hit(r, t) \/ Ask(r, t) \/ Join(r, t)
    \/ \E t \in Tenants, h \in Handles : Install(t, h)
    \/ \E t \in Tenants, rs \in SUBSET Requests : Fail(t, rs) \/ \E h \in Handles : Answer(t, rs, h)
    \/ Forget

ServiceSpec == ServiceInit /\ [][ServiceNext]_serviceVars
=============================================================================
