----------------------------- MODULE Revocation -----------------------------
(***************************************************************************)
(* The cache of upstream revocation verdicts: proxy/revocation.go.         *)
(*                                                                         *)
(* Every TLS handshake with an upstream looks its leaf certificate up; a   *)
(* live entry decides, and without one the stapled OCSP response does.  A  *)
(* certificate that stays unknown is accepted, and a goroutine asks the    *)
(* OCSP responder and then the CRLs.  Lookups and stores take the lock     *)
(* separately, so verdicts may be stored in another order than they were   *)
(* found in.                                                               *)
(*                                                                         *)
(* Upstreams, responders and distribution points are external.  A TTL is   *)
(* abstracted to an entry that may expire at any moment.                   *)
(***************************************************************************)
EXTENDS Integers, FiniteSets

CONSTANTS
    Certs,       \* upstream leaf certificates, by fingerprint
    Handshakes,  \* goroutines in verifyUpstreamConnection
    Refreshes,   \* bound: asyncRefreshRevocation goroutines alive at one time
    NoCert

ASSUME NoCertAssumption == NoCert \notin Certs
ASSUME HandshakesAssumption == IsFiniteSet(Handshakes) /\ IsFiniteSet(Refreshes)
ASSUME NamesAssumption == Handshakes \cap Refreshes = {}

VARIABLES
    cert,     \* certificate -> what chain and leaf offer to check it with
    revoked,  \* the certificates their CA has revoked
    up,       \* whether responders and distribution points can be reached
    entry,    \* upstreamRevocationCache
    hs,       \* the handshakes
    refresh   \* the refresh goroutines

VARIABLES     \* history: no step of the program reads these
    known,    \* certificates found revoked, whose verdict has not expired or been overrun
    older,    \* certificate -> evaluations under way when it was last found revoked
    misses    \* certificate -> lookups without a live entry since the last expiry

program == <<cert, revoked, up, entry, hs, refresh>>
history == <<known, older, misses>>
revVars == <<program, history>>

Verdicts == {"unknown", "good", "revoked"}
NoEntry == [status |-> "none", live |-> FALSE]
Idle == [pc |-> "idle", cert |-> NoCert, verdict |-> "unknown"]
MissCap == Cardinality(Handshakes) + 1

RevTypeOK ==
    /\ cert \in [Certs -> [issuer : BOOLEAN, staples : BOOLEAN, ocsp : BOOLEAN, crl : BOOLEAN]]
    /\ revoked \subseteq Certs
    /\ up \in BOOLEAN
    /\ entry \in [Certs -> [status : {"none"} \cup Verdicts, live : BOOLEAN]]
    /\ hs \in [Handshakes -> [pc : {"idle", "store", "accepted", "refused"},
                              cert : Certs \cup {NoCert}, verdict : Verdicts]]
    /\ refresh \in [Refreshes -> [pc : {"idle", "ocsp", "crl", "store"},
                                  cert : Certs \cup {NoCert}, verdict : Verdicts]]
    /\ known \subseteq Certs
    /\ older \in [Certs -> SUBSET (Handshakes \cup Refreshes)]
    /\ misses \in [Certs -> 0 .. MissCap]

-----------------------------------------------------------------------------
(* What the outside answers *)

\* evaluateConnectionRevocation: what a staple can say.  Without the issuer it is not
\* looked at, and an old good one may be sent after the revocation.
Stapled(c) ==
    IF ~cert[c].issuer \/ ~cert[c].staples THEN {"unknown"}
    ELSE {"unknown", "good"} \cup (IF c \in revoked THEN {"revoked"} ELSE {})

Answer(c) == IF c \in revoked THEN "revoked" ELSE "good"

\* Mutant: a failed fetch is handed on as a status of its own.
fetchOCSPRaw(c) == IF cert[c].ocsp /\ up THEN Answer(c) ELSE "failed"

\* fetchOCSPStatus: the leaf may name no responder.
fetchOCSPStatus(c) == IF cert[c].ocsp /\ up THEN Answer(c) ELSE "unknown"

\* fetchCRLStatus: the first list that can be read decides.
fetchCRLStatus(c) == IF cert[c].crl /\ up THEN Answer(c) ELSE "unknown"

-----------------------------------------------------------------------------
(* The cache, and what the history says of a store *)

\* Evaluations of c that have looked up and not stored yet.
UnderWay(c) == {h \in Handshakes : hs[h].pc = "store" /\ hs[h].cert = c}
               \cup {f \in Refreshes : refresh[f].cert = c}

NoteStore(c, verdict, by) ==
    /\ IF verdict = "revoked"
       THEN known' = known \cup {c} /\ older' = [older EXCEPT ![c] = UnderWay(c) \ {by}]
       ELSE IF by \in older[c]
       THEN known' = known \ {c} /\ older' = [older EXCEPT ![c] = {}]
       ELSE UNCHANGED <<known, older>>
    /\ UNCHANGED misses

\* Mutant: a verdict that is not definite is not cached.
cacheOnlyDefinite(c, verdict) ==
    entry' = IF verdict = "unknown" THEN entry
             ELSE [entry EXCEPT ![c] = [status |-> verdict, live |-> TRUE]]

\* cacheRevocationStatus: whatever is there is replaced.
cacheRevocationStatus(c, verdict) ==
    entry' = [entry EXCEPT ![c] = [status |-> verdict, live |-> TRUE]]

Free == {f \in Refreshes : refresh[f].pc = "idle"}

-----------------------------------------------------------------------------
(* verifyUpstreamConnection *)

\* Mutant: the staple is looked at before the cache.
verifyStapleFirst(h, c) ==
    /\ hs[h].pc = "idle"
    /\ Cardinality(Free) > Cardinality({g \in Handshakes : hs[g].pc = "store"})
    /\ \E s \in Stapled(c) :
         hs' = [hs EXCEPT ![h] =
             [pc |-> IF s = "unknown" /\ entry[c].live
                     THEN IF entry[c].status = "revoked" THEN "refused" ELSE "accepted"
                     ELSE "store",
              cert |-> c, verdict |-> s]]
    /\ misses' = IF entry[c].live \/ misses[c] = MissCap THEN misses
                 ELSE [misses EXCEPT ![c] = @ + 1]
    /\ UNCHANGED <<cert, revoked, up, entry, refresh, known, older>>

\* The lookup.  Bound: a miss leaves a goroutine's name for the refresh it may start.
\* crypto/tls has refused a server without a certificate before this is called.
verifyUpstreamConnection(h, c) ==
    /\ hs[h].pc = "idle"
    /\ IF entry[c].live
       THEN /\ hs' = [hs EXCEPT ![h].cert = c, ![h].pc =
                        IF entry[c].status = "revoked" THEN "refused" ELSE "accepted"]
            /\ UNCHANGED misses
       ELSE /\ Cardinality(Free) > Cardinality({g \in Handshakes : hs[g].pc = "store"})
            /\ \E s \in Stapled(c) :
                 hs' = [hs EXCEPT ![h] = [pc |-> "store", cert |-> c, verdict |-> s]]
            /\ misses' = [misses EXCEPT ![c] = IF @ < MissCap THEN @ + 1 ELSE @]
    /\ UNCHANGED <<cert, revoked, up, entry, refresh, known, older>>

\* Mutant: only a certificate seen for the first time is refreshed.
StartsRefreshOnce(c, verdict) ==
    verdict = "unknown" /\ cert[c].issuer /\ entry[c].status = "none"

StartsRefresh(c, verdict) == verdict = "unknown" /\ cert[c].issuer

\* The verdict is stored, and decides; an unknown one is left to a refresh.
StoreVerdict(h) ==
    LET c == hs[h].cert
        v == hs[h].verdict
    IN  /\ hs[h].pc = "store"
        /\ cacheRevocationStatus(c, v)
        /\ NoteStore(c, v, h)
        /\ hs' = [hs EXCEPT ![h] = [Idle EXCEPT !.cert = c, !.pc =
                                       IF v = "revoked" THEN "refused" ELSE "accepted"]]
        /\ IF StartsRefresh(c, v)
           THEN refresh' = [refresh EXCEPT ![CHOOSE f \in Free : TRUE] =
                              [pc |-> "ocsp", cert |-> c, verdict |-> v]]
           ELSE UNCHANGED refresh
        /\ UNCHANGED <<cert, revoked, up>>

\* The connection is closed; the next one is a new handshake.
Close(h) ==
    /\ hs[h].pc \in {"accepted", "refused"}
    /\ hs' = [hs EXCEPT ![h] = Idle]
    /\ UNCHANGED <<cert, revoked, up, entry, refresh, history>>

-----------------------------------------------------------------------------
(* asyncRefreshRevocation *)

FetchOCSP(f) ==
    LET v == fetchOCSPStatus(refresh[f].cert)
    IN  /\ refresh[f].pc = "ocsp"
        /\ refresh' = [refresh EXCEPT ![f].verdict = v,
                                      ![f].pc = IF v = "unknown" THEN "crl" ELSE "store"]
        /\ UNCHANGED <<cert, revoked, up, entry, hs, history>>

FetchCRL(f) ==
    /\ refresh[f].pc = "crl"
    /\ refresh' = [refresh EXCEPT ![f].verdict = fetchCRLStatus(refresh[f].cert),
                                  ![f].pc = "store"]
    /\ UNCHANGED <<cert, revoked, up, entry, hs, history>>

StoreRefresh(f) ==
    /\ refresh[f].pc = "store"
    /\ cacheRevocationStatus(refresh[f].cert, refresh[f].verdict)
    /\ NoteStore(refresh[f].cert, refresh[f].verdict, f)
    /\ refresh' = [refresh EXCEPT ![f] = Idle]
    /\ UNCHANGED <<cert, revoked, up, hs>>

-----------------------------------------------------------------------------
(* Time and the outside *)

Expire(c) ==
    /\ entry[c].live
    /\ entry' = [entry EXCEPT ![c].live = FALSE]
    /\ known' = known \ {c}
    /\ older' = [older EXCEPT ![c] = {}]
    /\ misses' = [misses EXCEPT ![c] = 0]
    /\ UNCHANGED <<cert, revoked, up, hs, refresh>>

Revoke(c) ==
    /\ c \notin revoked
    /\ revoked' = revoked \cup {c}
    /\ UNCHANGED <<cert, up, entry, hs, refresh, history>>

Network ==
    /\ up' = ~up
    /\ UNCHANGED <<cert, revoked, entry, hs, refresh, history>>

-----------------------------------------------------------------------------
RevInit ==
    /\ cert \in [Certs -> [issuer : BOOLEAN, staples : BOOLEAN, ocsp : BOOLEAN, crl : BOOLEAN]]
    /\ revoked = {}
    /\ up \in BOOLEAN
    /\ entry = [c \in Certs |-> NoEntry]
    /\ hs = [h \in Handshakes |-> Idle]
    /\ refresh = [f \in Refreshes |-> Idle]
    /\ known = {}
    /\ older = [c \in Certs |-> {}]
    /\ misses = [c \in Certs |-> 0]

RefreshStep(f) == FetchOCSP(f) \/ FetchCRL(f) \/ StoreRefresh(f)

RevNext ==
    \/ \E h \in Handshakes : \/ StoreVerdict(h) \/ Close(h)
                             \/ \E c \in Certs : verifyUpstreamConnection(h, c)
    \/ \E f \in Refreshes : RefreshStep(f)
    \/ \E c \in Certs : Expire(c) \/ Revoke(c)
    \/ Network

\* Goroutines run, each fetch ends by its client's timeout, and TTLs run out.
RevSpec ==
    /\ RevInit /\ [][RevNext]_revVars
    /\ \A h \in Handshakes : WF_revVars(StoreVerdict(h))
    /\ \A f \in Refreshes : WF_revVars(RefreshStep(f))
    /\ \A c \in Certs : WF_revVars(Expire(c))

-----------------------------------------------------------------------------
(* Properties *)

\* verifyUpstreamConnection, asyncRefreshRevocation: once a certificate was found revoked
\* its handshakes are refused until that verdict expires.  Only an evaluation that was
\* under way at that moment can store another verdict over it; none that began later does.
RefusedOnceKnown ==
    [][/\ \A c \in known' : entry'[c].status = "revoked" /\ entry'[c].live
       /\ \A h \in Handshakes : hs[h].pc = "idle" /\ hs'[h].pc = "accepted" =>
                                   hs'[h].cert \notin known]_revVars

\* cacheRevocationStatus: however many handshakes meet an expired entry at once, no more
\* of them evaluate, and start refreshes, than run concurrently.
HerdBounded == \A c \in Certs : misses[c] <= Cardinality(Handshakes)

\* A revocation is learned of only through a refresh when nothing is stapled.
Checkable(c) == cert[c].issuer /\ ~cert[c].staples /\ (cert[c].ocsp \/ cert[c].crl)

\* asyncRefreshRevocation: when the outside stays reachable and handshakes with a revoked
\* certificate go on, the proxy finds out, whatever verdict was cached before and in
\* whatever order the refreshes end.
LearnsOfRevocation ==
    \A c \in Certs :
        /\ Checkable(c)
        /\ <>[]up
        /\ []<><<\E h \in Handshakes : verifyUpstreamConnection(h, c)>>_revVars
        => (c \in revoked ~> c \in known)
=============================================================================
