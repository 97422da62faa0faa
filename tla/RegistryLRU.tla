---------------------------- MODULE RegistryLRU -----------------------------
(***************************************************************************)
(* The registry's cache against the definition of a least-recently-used    *)
(* cache: which tenants have been used, and which of two was used later,   *)
(* is kept beside the registry and never forgotten.                        *)
(*                                                                         *)
(* A tenant is used when a request finds it in the cache and when a worker *)
(* or a reload inserts it.  A reload that swaps a policy in place does not *)
(* count as a use, in the code and here.                                   *)
(***************************************************************************)
EXTENDS Registry

VARIABLES
    used,   \* every tenant used so far
    later   \* <<t, u>>: the last use of t came after the last use of u

\* The tenants used by the current step, read off the steps of the goroutines.
UsedNow ==
    {req'[r].tenant : r \in {r \in Requests : /\ req[r].pc \in {"idle", "lead"}
                                              /\ req'[r].pc = "have"}}
    \cup {job[worker[w].job].tenant :
            w \in {w \in Workers : worker[w].pc = "loaded" /\ worker'[w].pc = "reply"}}
    \cup {reload[k].tenant :
            k \in {k \in Reloads : reload[k].pc = "insert" /\ reload'[k].pc = "idle"}}

Record ==
    /\ used' = used \cup UsedNow
    /\ later' = {p \in later : p[2] \notin UsedNow} \cup (UsedNow \X (used \ UsedNow))

LRUInit == Init /\ used = {} /\ later = {}
LRUNext == Next /\ Record
LRUSpec == LRUInit /\ [][LRUNext]_<<vars, used, later>>

\* getCached, insert: the list is in the order of the last uses, and a tenant that was
\* used and is not cached was evicted for a full list of tenants used later.  Hits, cold
\* loads and reload inserts of all goroutines count.
KeepsMostRecent ==
    /\ \A i, j \in 1 .. Len(lru) : i < j => <<lru[i], lru[j]>> \in later
    /\ Elems(lru) \subseteq used
    /\ \A u \in used \ Elems(lru) :
         Len(lru) = CacheSize /\ \A t \in Elems(lru) : <<t, u>> \in later
=============================================================================
