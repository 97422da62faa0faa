----------------------------- MODULE CertCache ------------------------------
(***************************************************************************)
(* The leaf certificates a tunnel is intercepted with: GetCertificate and  *)
(* getMITMCertificate (proxy/server.go) and IssueForHost (proxy/ca.go).    *)
(*                                                                         *)
(* There are two caches, of the server and of the CA.  Each is looked up   *)
(* under a read lock and filled later under a write lock, so handshakes    *)
(* that miss at the same time each issue a leaf, and the caches may keep   *)
(* different ones.  Nothing leaves either cache.                           *)
(*                                                                         *)
(* Key generation and signing (crypto/x509) are external: they yield a     *)
(* leaf for the host under the CA's key, or an error; CreateCertificate    *)
(* refuses a key that is not that of the CA's certificate.                 *)
(***************************************************************************)
EXTENDS Integers, Sequences, FiniteSets

CONSTANTS
    Conns,      \* client connections
    Hosts,
    NoHost,
    MaxLeaves   \* bound: leaves issued by one process

ASSUME NoHostAssumption == NoHost \notin Hosts
ASSUME MaxLeavesAssumption == MaxLeaves \in Nat

VARIABLES
    ca,         \* the CertificateAuthority: the pair of its certificate and of its key
    leaves,     \* leaves issued so far: for which host, and under which CA
    caCache,    \* CertificateAuthority.Cache: host -> leaf
    mitmCache,  \* Server.mitmCertCache: host -> leaf
    tls,        \* the handshake of each connection
    settled     \* history: host -> what was cached when no handshake was issuing for it

leafVars == <<leaves, caCache, mitmCache, tls, settled>>

\* A name as it arrives: the SNI has no port, the target of CONNECT has one.
SNIs == Hosts \X {"bare"}
Targets == Hosts \X {"port"}
NoName == <<NoHost, "bare">>
stripPort(name) == name[1]

NoLeaf == 0
NoTLS == [pc |-> "none", host |-> NoHost, wanted |-> NoHost, leaf |-> NoLeaf]

LeafTypeOK ==
    /\ Len(leaves) <= MaxLeaves
    /\ \A i \in 1 .. Len(leaves) : leaves[i].host \in Hosts
    /\ caCache \in [Hosts -> 0 .. Len(leaves)]
    /\ mitmCache \in [Hosts -> 0 .. Len(leaves)]
    /\ tls \in [Conns -> [pc : {"none", "issue", "sign", "store", "served", "failed"},
                          host : Hosts \cup {NoHost}, wanted : Hosts \cup {NoHost},
                          leaf : 0 .. Len(leaves)]]
    /\ settled \in [Hosts -> 0 .. Len(leaves)]

\* Handshakes for host that have missed and not stored yet.
Issuing(host) ==
    {c \in Conns : tls[c].host = host /\ tls[c].pc \in {"issue", "sign", "store"}}

NoteSettled ==
    settled' = [h \in Hosts |-> IF settled[h] = NoLeaf /\ Issuing(h)' = {} THEN mitmCache'[h]
                                ELSE settled[h]]

-----------------------------------------------------------------------------
\* The name the client will look for: the one it sent, or else the one it connects to.
Wanted(sni, target) == IF sni = NoName THEN target[1] ELSE sni[1]

\* Mutant: the certificate is always for the target of the CONNECT.
certHostTarget(sni, target) == stripPort(target)

\* GetCertificate: the SNI, or the default host when the client sends none.
certHost(sni, target) == IF stripPort(sni) = NoHost THEN stripPort(target) ELSE stripPort(sni)

\* Mutant: the server keeps no cache and leaves it to the CA's.
GetCertificateFromCA(c, sni, target) ==
    /\ tls[c].pc = "none"
    /\ tls' = [tls EXCEPT ![c] = [NoTLS EXCEPT !.pc = "issue", !.host = certHost(sni, target),
                                             !.wanted = Wanted(sni, target)]]
    /\ UNCHANGED <<leaves, caCache, mitmCache>>
    /\ NoteSettled

\* GetCertificate, and getMITMCertificate up to its lookup.
GetCertificate(c, sni, target) ==
    LET host == certHost(sni, target)
    IN  /\ tls[c].pc = "none"
        /\ tls' = [tls EXCEPT ![c] =
              [pc |-> IF mitmCache[host] # NoLeaf THEN "served" ELSE "issue",
               host |-> host, wanted |-> Wanted(sni, target), leaf |-> mitmCache[host]]]
        /\ UNCHANGED <<leaves, caCache, mitmCache>>
        /\ NoteSettled

\* IssueForHost up to its lookup.
IssueForHost(c) ==
    LET cached == caCache[tls[c].host]
    IN  /\ tls[c].pc = "issue"
        /\ tls' = [tls EXCEPT ![c].pc = IF cached # NoLeaf THEN "store" ELSE "sign",
                              ![c].leaf = cached]
        /\ UNCHANGED <<leaves, caCache, mitmCache>>
        /\ NoteSettled

\* A leaf is generated, signed and cached.  Bound: MaxLeaves.
SignLeaf(c) ==
    /\ tls[c].pc = "sign"
    /\ ca[1] = ca[2] /\ Len(leaves) < MaxLeaves
    /\ leaves' = Append(leaves, [host |-> tls[c].host, signer |-> ca])
    /\ caCache' = [caCache EXCEPT ![tls[c].host] = Len(leaves')]
    /\ tls' = [tls EXCEPT ![c].pc = "store", ![c].leaf = Len(leaves')]
    /\ UNCHANGED mitmCache
    /\ NoteSettled

SignFails(c) ==
    /\ tls[c].pc = "sign"
    /\ tls' = [tls EXCEPT ![c].pc = "failed"]
    /\ UNCHANGED <<leaves, caCache, mitmCache>>
    /\ NoteSettled

\* The end of getMITMCertificate: whatever another handshake stored is replaced.
StorePair(c) ==
    /\ tls[c].pc = "store"
    /\ mitmCache' = [mitmCache EXCEPT ![tls[c].host] = tls[c].leaf]
    /\ tls' = [tls EXCEPT ![c].pc = "served"]
    /\ UNCHANGED <<leaves, caCache>>
    /\ NoteSettled

\* The connection is over, and its name free for another one.
Forget(c) ==
    /\ tls' = [tls EXCEPT ![c] = NoTLS]
    /\ UNCHANGED <<leaves, caCache, mitmCache, settled>>

\* New: nothing of this outlives the process.
NoLeaves == [h \in Hosts |-> NoLeaf]

LeafInit ==
    /\ leaves = <<>>
    /\ caCache = NoLeaves /\ mitmCache = NoLeaves /\ settled = NoLeaves
    /\ tls = [c \in Conns |-> NoTLS]

LeafGone ==
    /\ leaves' = <<>>
    /\ caCache' = NoLeaves /\ mitmCache' = NoLeaves /\ settled' = NoLeaves
    /\ tls' = [c \in Conns |-> NoTLS]

LeafStep(c) == IssueForHost(c) \/ SignLeaf(c) \/ SignFails(c) \/ StorePair(c)

-----------------------------------------------------------------------------
(* Properties *)

\* getMITMCertificate: once a host's leaf is cached and nobody is issuing for it, that is
\* the leaf every client is shown from then on, though the CA may have cached another.
OneLeafOnceSettled ==
    \A h \in Hosts : settled[h] # NoLeaf => mitmCache[h] = settled[h]
=============================================================================
