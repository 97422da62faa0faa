----------------------------- MODULE Lifecycle -----------------------------
(***************************************************************************)
(* The proxy's process from start to exit: main (cmd/proxy/main.go), the   *)
(* root CA's files (proxy/ca.go), Listen, Serve and Shutdown               *)
(* (proxy/server.go), and the leaf certificates of CertCache that its      *)
(* tunnels ask for.  The process may be killed between any two steps and   *)
(* is started again; SIGTERM may come at any time.                         *)
(*                                                                         *)
(* net/http is external: it tracks its connections as new or idle ("open") *)
(* and as active ("request").  Shutdown closes the listener and the open   *)
(* ones and waits for the active; a hijacked one is no longer tracked.     *)
(***************************************************************************)
EXTENDS CertCache

CONSTANT MaxPairs   \* bound: CA pairs that are generated

ASSUME MaxPairsAssumption == MaxPairs \in Nat \ {0}

VARIABLES
    cert, key,  \* the files of the root CA: NoFile, Torn, or the pair they belong to
    made,       \* CA pairs generated so far
    pc,         \* where main is
    ready,      \* the flag that /readyz reads
    port,       \* whether the listener is bound
    exit,       \* how the process ended last
    conn,       \* the connections
    halfDone    \* history: createCA ended last with a new certificate and the old key

lifeVars == <<cert, key, made, ca, pc, ready, port, exit, conn, halfDone, leafVars>>

Pairs == 1 .. MaxPairs
NoFile == 0
Torn == -1
NoCA == <<>>

LifeTypeOK ==
    /\ cert \in {NoFile, Torn} \cup Pairs /\ key \in {NoFile, Torn} \cup Pairs
    /\ made \in 0 .. MaxPairs
    /\ ca \in {NoCA} \cup (Pairs \X Pairs)
    /\ pc \in {"down", "ca", "certfile", "opened", "keyfile", "listen", "ready", "serve",
               "notify", "wait", "shutdown"}
    /\ ready \in BOOLEAN /\ port \in {"closed", "bound"}
    /\ exit \in {"none", "clean", "failed", "caError", "killed"}
    /\ conn \in [Conns -> {"none", "backlog", "open", "request", "tunnel"}]
    /\ halfDone \in BOOLEAN
    /\ pc \in {"listen", "ready", "serve", "notify", "wait", "shutdown"} <=> ca # NoCA
    /\ ready => pc \in {"serve", "notify", "wait", "shutdown"}
    /\ port = "bound" <=> pc \in {"ready", "serve", "notify", "wait"}
    /\ LeafTypeOK
    /\ \A c \in Conns : tls[c].pc # "none" => conn[c] = "tunnel"

-----------------------------------------------------------------------------
Files == UNCHANGED <<cert, key, made>>

\* The process is gone, and with it every connection and every cached leaf.
Dies(how) ==
    /\ pc' = "down"
    /\ exit' = how
    /\ ca' = NoCA
    /\ ready' = FALSE
    /\ port' = "closed"
    /\ conn' = [c \in Conns |-> "none"]
    /\ halfDone' = (halfDone \/ (pc = "opened" /\ key \in Pairs))
    /\ LeafGone

\* main goes on to its next step.
Goto(next) == pc' = next /\ UNCHANGED <<exit, conn, leafVars>>

Kept == UNCHANGED <<ready, port, halfDone>>

Start ==
    /\ pc = "down"
    /\ pc' = "ca"
    /\ exit' = "none"
    /\ UNCHANGED <<ca, conn, leafVars>> /\ Kept /\ Files

-----------------------------------------------------------------------------
(* LoadOrCreateCA *)

\* Mutant: a key that is missing is made anew.
loadCAFreshKey ==
    /\ pc = "ca" /\ cert # NoFile
    /\ IF cert \in Pairs /\ key \notin Pairs /\ made < MaxPairs
       THEN /\ ca' = <<cert, made + 1>>
            /\ key' = made + 1 /\ made' = made + 1
            /\ Goto("listen") /\ Kept
            /\ UNCHANGED cert
       ELSE IF cert \in Pairs /\ key \in Pairs
       THEN ca' = <<cert, key>> /\ Goto("listen") /\ Kept /\ Files
       ELSE Dies("caError") /\ Files

\* Both files are read and parsed; nothing compares them.
loadCA ==
    /\ pc = "ca" /\ cert # NoFile
    /\ IF cert \in Pairs /\ key \in Pairs
       THEN ca' = <<cert, key>> /\ Goto("listen") /\ Kept
       ELSE Dies("caError")
    /\ Files

\* createCA, on any error of os.Stat: a new pair; each file is opened, which truncates it,
\* and then written.
OpenCert ==
    /\ pc = "ca" /\ made < MaxPairs
    /\ made' = made + 1
    /\ cert' = Torn
    /\ Goto("certfile") /\ Kept
    /\ UNCHANGED <<key, ca>>

WriteCert ==
    /\ pc = "certfile"
    /\ cert' = made
    /\ Goto("opened") /\ Kept
    /\ UNCHANGED <<key, made, ca>>

OpenKey ==
    /\ pc = "opened"
    /\ key' = Torn
    /\ Goto("keyfile") /\ Kept
    /\ UNCHANGED <<cert, made, ca>>

WriteKey ==
    /\ pc = "keyfile"
    /\ key' = made
    /\ ca' = <<made, made>>
    /\ halfDone' = FALSE
    /\ Goto("listen")
    /\ UNCHANGED <<cert, made, ready, port>>

\* A file cannot be opened or written: main gives up.
CreateFails ==
    /\ pc \in {"ca", "certfile", "opened", "keyfile"}
    /\ Dies("failed")
    /\ Files

-----------------------------------------------------------------------------
(* Listen, Serve, Shutdown *)

Listen ==
    /\ pc = "listen"
    /\ \/ port' = "bound" /\ Goto("ready") /\ UNCHANGED <<ca, ready, halfDone>>
       \/ Dies("failed")
    /\ Files

SetReady ==
    /\ pc = "ready"
    /\ ready' = TRUE
    /\ Goto("serve")
    /\ UNCHANGED <<ca, port, halfDone>> /\ Files

\* Serve runs in a goroutine of its own from here on.
Serve ==
    /\ pc = "serve"
    /\ Goto("notify") /\ Kept
    /\ UNCHANGED ca /\ Files

\* From here on SIGTERM no longer kills the process.
Notify ==
    /\ pc = "notify"
    /\ Goto("wait") /\ Kept
    /\ UNCHANGED ca /\ Files

ServeFails ==
    /\ pc = "wait"
    /\ Dies("failed")
    /\ Files

\* Mutant: the listener stays open while the server drains.
SigtermKeepsListener ==
    /\ pc \notin {"down", "shutdown"}
    /\ \/ /\ pc = "wait"
          /\ pc' = "shutdown"
          /\ UNCHANGED <<ca, exit, conn, leafVars>> /\ Kept
       \/ pc # "wait" /\ Dies("killed")
    /\ Files

\* SIGTERM: Shutdown closes the listener, or there is no handler yet.
Sigterm ==
    /\ pc \notin {"down", "shutdown"}
    /\ \/ /\ pc = "wait"
          /\ pc' = "shutdown"
          /\ port' = "closed"
          /\ conn' = [c \in Conns |-> IF conn[c] = "backlog" THEN "none" ELSE conn[c]]
          /\ UNCHANGED <<ca, ready, exit, halfDone, leafVars>>
       \/ pc # "wait" /\ Dies("killed")
    /\ Files

\* Shutdown returns once no connection is tracked any more, and main with it.
Drained ==
    /\ pc = "shutdown"
    /\ \A c \in Conns : conn[c] \notin {"open", "request"}
    /\ Dies("clean")
    /\ Files

\* Mutant: the deadline is only noticed when nothing is in flight.
DrainTimeoutLate ==
    /\ pc = "shutdown"
    /\ \A c \in Conns : conn[c] = "none"
    /\ Dies("failed")
    /\ Files

\* 30 seconds have passed: log.Fatalf.
DrainTimeout ==
    /\ pc = "shutdown"
    /\ Dies("failed")
    /\ Files

Kill ==
    /\ pc # "down"
    /\ Dies("killed")
    /\ Files

-----------------------------------------------------------------------------
(* Connections *)

Process == UNCHANGED <<ca, pc, exit>> /\ Kept /\ Files
Becomes(c, state) == conn' = [conn EXCEPT ![c] = state] /\ Process /\ UNCHANGED leafVars

Connect(c) == port = "bound" /\ conn[c] = "none" /\ Becomes(c, "backlog")
Accept(c) == pc \in {"notify", "wait"} /\ conn[c] = "backlog" /\ Becomes(c, "open")
Request(c) == conn[c] = "open" /\ Becomes(c, "request")
Hijack(c) == conn[c] = "request" /\ Becomes(c, "tunnel")

\* A response, after which the connection is kept unless the server is shutting down.
Respond(c) == pc # "shutdown" /\ conn[c] = "request" /\ Becomes(c, "open")

\* The client of a hijacked connection says hello, for the target or for another name.
Handshake(c) ==
    /\ conn[c] = "tunnel"
    /\ \E sni \in SNIs \cup {NoName}, target \in Targets :
          GetCertificate(c, sni, target)
    /\ Process /\ UNCHANGED conn

ServeLeaf(c) == LeafStep(c) /\ Process /\ UNCHANGED conn

\* A connection ends, by either side, once it is not in a call to GetCertificate.
Finish(c) ==
    /\ conn[c] \in {"open", "request", "tunnel"} /\ tls[c].pc \in {"none", "served", "failed"}
    /\ conn' = [conn EXCEPT ![c] = "none"]
    /\ Forget(c)
    /\ Process

-----------------------------------------------------------------------------
\* Of the CA's files, both, one or none is provided.
LifeInit ==
    /\ cert \in {NoFile, 1} /\ key \in {NoFile, 1}
    /\ made = 1
    /\ ca = NoCA
    /\ pc = "down"
    /\ ready = FALSE
    /\ port = "closed"
    /\ exit = "none"
    /\ conn = [c \in Conns |-> "none"]
    /\ halfDone = FALSE
    /\ LeafInit

main ==
    \/ Start \/ loadCA \/ OpenCert \/ WriteCert \/ OpenKey \/ WriteKey \/ CreateFails
    \/ Listen \/ SetReady \/ Serve \/ Notify \/ ServeFails \/ Drained \/ DrainTimeout

LifeNext ==
    \/ main \/ Sigterm \/ Kill
    \/ \E c \in Conns : \/ Connect(c) \/ Accept(c) \/ Hijack(c) \/ Handshake(c)
                        \/ ServeLeaf(c) \/ Finish(c) \/ Request(c) \/ Respond(c)

\* The context's deadline passes, and Shutdown returns.
LifeSpec == LifeInit /\ [][LifeNext]_lifeVars /\ WF_lifeVars(Drained \/ DrainTimeout)

-----------------------------------------------------------------------------
(* Properties *)

\* LoadOrCreateCA: through kills and failures between any two steps, and restarts after them,
\* certificate and key in memory are the ones on disk, and belong together unless createCA
\* last ended between writing a certificate and opening a key file that was there before:
\* loadCA then takes the new certificate with the old key.
PairMatches ==
    ca # NoCA => cert = ca[1] /\ key = ca[2] /\ (ca[1] # ca[2] <=> halfDone)

\* getMITMCertificate, IssueForHost: a client is shown a leaf for the name it asked for,
\* signed by the CA whose certificate is on disk for clients to install, whichever cache
\* it is from, after whatever restarts and whatever pair they left.
LeafTrusted ==
    \A c \in Conns : tls[c].pc = "served" =>
        leaves[tls[c].leaf] = [host |-> tls[c].wanted, signer |-> <<cert, cert>>]

\* main: after SIGTERM the process ends, also when a request never does.
ShutdownEnds == pc = "shutdown" ~> pc = "down"
=============================================================================
