-------------------------- MODULE RegistryService ---------------------------
(***************************************************************************)
(* The registry implements PolicyService.  What a call was offered is a    *)
(* history variable beside the registry's own state; the rest of the       *)
(* mapping forgets the queue, the jobs, the workers and the reloads.       *)
(***************************************************************************)
EXTENDS Registry

VARIABLE offered

\* The call of r waits for a load.
Waits(r) == req[r].pc \in {"miss", "follow"} \cup Leading

\* What r was offered before this step: with the flight it joins, all that its leader was.
Before(r) ==
    (IF Waits(r) THEN offered[r] ELSE {})
    \cup (IF req[r].pc = "miss" /\ req'[r].pc = "follow" THEN offered[flight[req[r].tenant]]
          ELSE {})

OfferedNext ==
    offered' = [r \in Requests |->
                  IF Waits(r)' THEN (Before(r) \cup {cache'[req'[r].tenant]}) \cap (LiveObjs' \ {NoObj})
                  ELSE {}]

AbstractCall(r) ==
    [state |-> IF Waits(r) THEN "asked"
               ELSE CASE req[r].pc = "idle" -> "idle"
                      [] req[r].pc = "have" -> "got"
                      [] req[r].pc = "fail" -> "failed",
     tenant |-> req[r].tenant, got |-> req[r].obj]

Service == INSTANCE PolicyService WITH
    Handles <- Objs, NoHandle <- NoObj, entry <- cache,
    call <- [r \in Requests |-> AbstractCall(r)]

OfferedInit == Init /\ offered = [r \in Requests |-> {}]
OfferedSpec == OfferedInit /\ [][Next /\ OfferedNext]_<<vars, offered>>

\* TenantPolicyFor, loadTenant, loadWorker, ReloadTenant: a call is answered with a policy
\* the cache served for its tenant during the call or during the flight it joined; never
\* with one that was not cached, with an older one, or with a late answer to a leader that
\* timed out.
ImplementsService == Service!ServiceSpec
=============================================================================
