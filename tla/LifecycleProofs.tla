-------------------------- MODULE LifecycleProofs ---------------------------
(***************************************************************************)
(* Theorems about the process and its certificates, for any connections,   *)
(* hosts, and bounds on leaves and CA pairs.                               *)
(***************************************************************************)
EXTENDS Lifecycle, TLAPS

Leaf == [host : Hosts, signer : Pairs \X Pairs]

\* Every leaf of this process is signed by its CA, whose key is then that of its certificate.
SignedByCA ==
    /\ leaves \in Seq(Leaf)
    /\ \A i \in 1 .. Len(leaves) : leaves[i].signer = ca /\ ca[1] = ca[2]

\* A cached leaf is for the host it is cached under.
CachedForHost ==
    \A h \in Hosts : /\ caCache[h] # NoLeaf => leaves[caCache[h]].host = h
                     /\ mitmCache[h] # NoLeaf => leaves[mitmCache[h]].host = h

\* A handshake is for the name its client wants, and so is the leaf it holds.
HandshakeForWanted ==
    \A c \in Conns :
        /\ tls[c].pc # "none" => tls[c].host \in Hosts /\ tls[c].wanted = tls[c].host
        /\ tls[c].pc \in {"store", "served"} =>
             tls[c].leaf # NoLeaf /\ leaves[tls[c].leaf].host = tls[c].host

\* Once a host's leaf is settled nobody issues for that host again.
SettledForGood ==
    \A h \in Hosts : settled[h] # NoLeaf => mitmCache[h] = settled[h] /\ Issuing(h) = {}

LeafInv == SignedByCA /\ CachedForHost /\ HandshakeForWanted /\ SettledForGood

\* The files at each step of createCA: what was there before is of an older pair than the one
\* being made, and but for the moment in which a new certificate stands beside an old key,
\* certificate and key differ just when createCA last ended in that moment.
FilesInStep ==
    /\ cert \in Pairs => cert <= made
    /\ key \in Pairs => key <= made
    /\ pc = "certfile" => cert = Torn
    /\ pc \in {"opened", "keyfile"} => cert = made
    /\ pc \in {"certfile", "opened"} /\ key \in Pairs => key < made
    /\ pc = "keyfile" => key = Torn
    /\ pc \in {"certfile", "opened", "keyfile"} => made \in Pairs
    /\ pc # "opened" /\ cert \in Pairs /\ key \in Pairs => (cert # key <=> halfDone)

\* Without a CA there are no connections.
Running == ca = NoCA => \A c \in Conns : conn[c] = "none"

LifeInv == LeafInv /\ FilesInStep /\ Running /\ PairMatches

-----------------------------------------------------------------------------
(* The leaf caches *)

TLSPc == {"none", "issue", "sign", "store", "served", "failed"}

\* GetCertificate: the name that is looked up is the one the client will look for.
LEMMA CertHostIsWanted ==
    ASSUME NEW sni \in SNIs \cup {NoName}, NEW target \in Targets
    PROVE  certHost(sni, target) \in Hosts /\ Wanted(sni, target) = certHost(sni, target)
  <1>1. CASE sni \in SNIs
    <2>1. sni[1] \in Hosts
      BY <1>1 DEF SNIs
    <2>2. sni # NoName
      BY <2>1, NoHostAssumption DEF NoName
    <2> QED
      BY <2>1, <2>2, NoHostAssumption DEF certHost, Wanted, stripPort
  <1>2. CASE sni = NoName
    BY <1>2 DEF certHost, Wanted, stripPort, NoName, Targets
  <1> QED
    BY <1>1, <1>2

\* NoteSettled keeps what is settled when the step leaves the settled hosts alone.
LEMMA NoteSettledKeeps ==
    ASSUME LeafTypeOK, SettledForGood, NoteSettled,
           NEW n \in Nat, Len(leaves) \in Nat, Len(leaves) <= n,
           mitmCache' \in [Hosts -> 0 .. n],
           \A h \in Hosts : settled[h] # NoLeaf => mitmCache'[h] = mitmCache[h] /\ Issuing(h)' = {}
    PROVE  settled' \in [Hosts -> 0 .. n] /\ SettledForGood'
  <1>1. settled' = [h \in Hosts |-> IF settled[h] = NoLeaf /\ Issuing(h)' = {} THEN mitmCache'[h]
                                    ELSE settled[h]]
    BY DEF NoteSettled
  <1>2. \A h \in Hosts : settled[h] \in 0 .. n
    BY DEF LeafTypeOK
  <1>3. settled' \in [Hosts -> 0 .. n]
    BY <1>1, <1>2
  <1>4. ASSUME NEW h \in Hosts, settled'[h] # NoLeaf
        PROVE  mitmCache'[h] = settled'[h] /\ Issuing(h)' = {}
    <2>1. CASE settled[h] = NoLeaf
      BY <1>1, <1>4, <2>1
    <2>2. CASE settled[h] # NoLeaf
      BY <1>1, <2>2 DEF SettledForGood
    <2> QED
      BY <2>1, <2>2
  <1> QED
    BY <1>3, <1>4 DEF SettledForGood

\* A step of one handshake that signs nothing: what has to hold of its new state.
LEMMA HandshakeStep ==
    ASSUME LeafTypeOK, LeafInv, ca' = ca, leaves' = leaves, caCache' = caCache, NoteSettled,
           NEW c \in Conns, NEW t, tls' = [tls EXCEPT ![c] = t],
           t \in [pc : TLSPc, host : Hosts \cup {NoHost}, wanted : Hosts \cup {NoHost},
                  leaf : 0 .. Len(leaves)],
           t.pc # "none" => t.host \in Hosts /\ t.wanted = t.host,
           t.pc \in {"store", "served"} => t.leaf # NoLeaf /\ leaves[t.leaf].host = t.host,
           mitmCache' \in [Hosts -> 0 .. Len(leaves)],
           \A h \in Hosts : mitmCache'[h] # NoLeaf => leaves[mitmCache'[h]].host = h,
           \A h \in Hosts : settled[h] # NoLeaf =>
                /\ mitmCache'[h] = mitmCache[h]
                /\ t.host = h => t.pc \notin {"issue", "sign", "store"}
    PROVE  LeafTypeOK' /\ LeafInv'
  <1>0. Len(leaves) \in Nat
    BY DEF LeafInv, SignedByCA
  <1>1. /\ tls'[c] = t
        /\ \A d \in Conns : d # c => tls'[d] = tls[d]
    BY DEF LeafTypeOK
  <1>2. \A h \in Hosts : settled[h] # NoLeaf => mitmCache'[h] = mitmCache[h] /\ Issuing(h)' = {}
    <2> SUFFICES ASSUME NEW h \in Hosts, settled[h] # NoLeaf PROVE Issuing(h)' = {}
      OBVIOUS
    <2>1. \A d \in Conns : ~(tls[d].host = h /\ tls[d].pc \in {"issue", "sign", "store"})
      BY DEF LeafInv, SettledForGood, Issuing
    <2>2. \A d \in Conns : ~(tls'[d].host = h /\ tls'[d].pc \in {"issue", "sign", "store"})
      BY <1>1, <2>1
    <2> QED
      BY <2>2 DEF Issuing
  <1>3. settled' \in [Hosts -> 0 .. Len(leaves)] /\ SettledForGood'
    BY <1>0, <1>2, NoteSettledKeeps DEF LeafInv
  <1>4. LeafTypeOK'
    BY <1>3 DEF LeafTypeOK, TLSPc
  <1>5. SignedByCA' /\ CachedForHost'
    BY DEF LeafInv, SignedByCA, CachedForHost
  <1>6. HandshakeForWanted'
    BY <1>1 DEF LeafInv, HandshakeForWanted
  <1> QED
    BY <1>3, <1>4, <1>5, <1>6 DEF LeafInv

LEMMA GetCertificateKeeps ==
    ASSUME LeafTypeOK, LeafInv, ca' = ca, NEW c \in Conns,
           NEW sni \in SNIs \cup {NoName}, NEW target \in Targets,
           GetCertificate(c, sni, target)
    PROVE  LeafTypeOK' /\ LeafInv'
  <1> DEFINE host == certHost(sni, target)
  <1>1. PICK t : t = [pc |-> IF mitmCache[host] # NoLeaf THEN "served" ELSE "issue",
                      host |-> host, wanted |-> Wanted(sni, target), leaf |-> mitmCache[host]]
    OBVIOUS
  <1>2. /\ tls' = [tls EXCEPT ![c] = t]
        /\ UNCHANGED <<leaves, caCache, mitmCache>> /\ NoteSettled
    BY <1>1 DEF GetCertificate
  <1>3. host \in Hosts /\ Wanted(sni, target) = host
    BY CertHostIsWanted
  <1> HIDE DEF host
  <1>4. /\ t \in [pc : TLSPc, host : Hosts \cup {NoHost}, wanted : Hosts \cup {NoHost},
                  leaf : 0 .. Len(leaves)]
        /\ t.host = host /\ t.wanted = host /\ t.leaf = mitmCache[host]
        /\ t.pc = IF mitmCache[host] # NoLeaf THEN "served" ELSE "issue"
    BY <1>1, <1>3 DEF LeafTypeOK, TLSPc
  <1>5. t.pc \in {"store", "served"} => t.leaf # NoLeaf /\ leaves[t.leaf].host = t.host
    BY <1>3, <1>4 DEF LeafInv, CachedForHost
  <1>6. \A h \in Hosts : settled[h] # NoLeaf /\ t.host = h => t.pc \notin {"issue", "sign", "store"}
    BY <1>4 DEF LeafInv, SettledForGood
  <1>7. /\ mitmCache' \in [Hosts -> 0 .. Len(leaves)]
        /\ \A h \in Hosts : mitmCache'[h] # NoLeaf => leaves[mitmCache'[h]].host = h
    BY <1>2 DEF LeafTypeOK, LeafInv, CachedForHost
  <1> QED
    BY <1>2, <1>3, <1>4, <1>5, <1>6, <1>7, HandshakeStep

LEMMA IssueForHostKeeps ==
    ASSUME LeafTypeOK, LeafInv, ca' = ca, NEW c \in Conns, IssueForHost(c)
    PROVE  LeafTypeOK' /\ LeafInv'
  <1>1. PICK t : t = [tls[c] EXCEPT !.pc = IF caCache[tls[c].host] # NoLeaf THEN "store" ELSE "sign",
                                    !.leaf = caCache[tls[c].host]]
    OBVIOUS
  <1>2. /\ tls' = [tls EXCEPT ![c] = t]
        /\ UNCHANGED <<leaves, caCache, mitmCache>> /\ NoteSettled
        /\ tls[c].pc = "issue"
    BY <1>1 DEF IssueForHost, LeafTypeOK
  <1>3. tls[c].host \in Hosts /\ tls[c].wanted = tls[c].host
    BY <1>2 DEF LeafInv, HandshakeForWanted
  <1>4. /\ t \in [pc : TLSPc, host : Hosts \cup {NoHost}, wanted : Hosts \cup {NoHost},
                  leaf : 0 .. Len(leaves)]
        /\ t.host = tls[c].host /\ t.wanted = tls[c].wanted /\ t.leaf = caCache[tls[c].host]
        /\ t.pc = IF caCache[tls[c].host] # NoLeaf THEN "store" ELSE "sign"
    BY <1>1, <1>3 DEF LeafTypeOK, TLSPc
  <1>5. t.pc \in {"store", "served"} => t.leaf # NoLeaf /\ leaves[t.leaf].host = t.host
    BY <1>3, <1>4 DEF LeafInv, CachedForHost
  <1>6. \A h \in Hosts : settled[h] # NoLeaf =>
            /\ mitmCache'[h] = mitmCache[h]
            /\ t.host = h => t.pc \notin {"issue", "sign", "store"}
    <2>1. \A h \in Hosts : settled[h] # NoLeaf => tls[c].host # h
      BY <1>2 DEF LeafInv, SettledForGood, Issuing
    <2> QED
      BY <1>2, <1>4, <2>1
  <1>7. /\ mitmCache' \in [Hosts -> 0 .. Len(leaves)]
        /\ \A h \in Hosts : mitmCache'[h] # NoLeaf => leaves[mitmCache'[h]].host = h
    BY <1>2 DEF LeafTypeOK, LeafInv, CachedForHost
  <1>8. t.pc # "none" => t.host \in Hosts /\ t.wanted = t.host
    BY <1>3, <1>4
  <1> QED
    <2>1. /\ leaves' = leaves /\ caCache' = caCache /\ NoteSettled
          /\ tls' = [tls EXCEPT ![c] = t]
          /\ t \in [pc : TLSPc, host : Hosts \cup {NoHost}, wanted : Hosts \cup {NoHost},
                    leaf : 0 .. Len(leaves)]
      BY <1>2, <1>4
    <2> QED
      BY <2>1, <1>5, <1>6, <1>7, <1>8, HandshakeStep

LEMMA SignFailsKeeps ==
    ASSUME LeafTypeOK, LeafInv, ca' = ca, NEW c \in Conns, SignFails(c)
    PROVE  LeafTypeOK' /\ LeafInv'
  <1>1. PICK t : t = [tls[c] EXCEPT !.pc = "failed"]
    OBVIOUS
  <1>2. /\ tls' = [tls EXCEPT ![c] = t]
        /\ UNCHANGED <<leaves, caCache, mitmCache>> /\ NoteSettled
        /\ tls[c].pc = "sign"
    BY <1>1 DEF SignFails, LeafTypeOK
  <1>3. /\ t \in [pc : TLSPc, host : Hosts \cup {NoHost}, wanted : Hosts \cup {NoHost},
                  leaf : 0 .. Len(leaves)]
        /\ t.host = tls[c].host /\ t.wanted = tls[c].wanted /\ t.pc = "failed"
    BY <1>1 DEF LeafTypeOK, TLSPc
  <1>4. t.host \in Hosts /\ t.wanted = t.host
    BY <1>2, <1>3 DEF LeafInv, HandshakeForWanted
  <1>5. /\ mitmCache' \in [Hosts -> 0 .. Len(leaves)]
        /\ \A h \in Hosts : mitmCache'[h] # NoLeaf => leaves[mitmCache'[h]].host = h
    BY <1>2 DEF LeafTypeOK, LeafInv, CachedForHost
  <1> QED
    BY <1>2, <1>3, <1>4, <1>5, HandshakeStep

LEMMA StorePairKeeps ==
    ASSUME LeafTypeOK, LeafInv, ca' = ca, NEW c \in Conns, StorePair(c)
    PROVE  LeafTypeOK' /\ LeafInv'
  <1>1. PICK t : t = [tls[c] EXCEPT !.pc = "served"]
    OBVIOUS
  <1>2. /\ tls' = [tls EXCEPT ![c] = t]
        /\ mitmCache' = [mitmCache EXCEPT ![tls[c].host] = tls[c].leaf]
        /\ UNCHANGED <<leaves, caCache>> /\ NoteSettled
        /\ tls[c].pc = "store"
    BY <1>1 DEF StorePair, LeafTypeOK
  <1>3. /\ t \in [pc : TLSPc, host : Hosts \cup {NoHost}, wanted : Hosts \cup {NoHost},
                  leaf : 0 .. Len(leaves)]
        /\ t.host = tls[c].host /\ t.wanted = tls[c].wanted /\ t.leaf = tls[c].leaf
        /\ t.pc = "served"
        /\ tls[c].leaf \in 0 .. Len(leaves)
    BY <1>1 DEF LeafTypeOK, TLSPc
  <1>4. /\ tls[c].host \in Hosts /\ tls[c].wanted = tls[c].host
        /\ tls[c].leaf # NoLeaf /\ leaves[tls[c].leaf].host = tls[c].host
    BY <1>2 DEF LeafInv, HandshakeForWanted
  <1>5. mitmCache' \in [Hosts -> 0 .. Len(leaves)]
    BY <1>2, <1>3, <1>4 DEF LeafTypeOK
  <1>6. \A h \in Hosts : mitmCache'[h] # NoLeaf => leaves[mitmCache'[h]].host = h
    BY <1>2, <1>4 DEF LeafTypeOK, LeafInv, CachedForHost
  <1>7. \A h \in Hosts : settled[h] # NoLeaf => tls[c].host # h
    BY <1>2 DEF LeafInv, SettledForGood, Issuing
  <1>8. \A h \in Hosts : settled[h] # NoLeaf => mitmCache'[h] = mitmCache[h]
    BY <1>2, <1>7 DEF LeafTypeOK
  <1> QED
    BY <1>2, <1>3, <1>4, <1>5, <1>6, <1>7, <1>8, HandshakeStep

LEMMA SignLeafKeeps ==
    ASSUME LeafTypeOK, LeafInv, ca' = ca, ca \in Pairs \X Pairs, NEW c \in Conns, SignLeaf(c)
    PROVE  LeafTypeOK' /\ LeafInv'
  <1>0. PICK host, n : host = tls[c].host /\ n = Len(leaves) + 1
    OBVIOUS
  <1>1. /\ tls[c].pc = "sign" /\ ca[1] = ca[2] /\ Len(leaves) < MaxLeaves
        /\ leaves' = Append(leaves, [host |-> host, signer |-> ca])
        /\ leaves \in Seq(Leaf)
    BY <1>0 DEF SignLeaf, LeafInv, SignedByCA
  <1>2. host \in Hosts /\ tls[c].wanted = host
    BY <1>0, <1>1 DEF LeafInv, HandshakeForWanted
  <1>3. [host |-> host, signer |-> ca] \in Leaf
    BY <1>2 DEF Leaf
  <1>4. /\ leaves' \in Seq(Leaf) /\ Len(leaves) \in Nat /\ n \in Nat \ {0} /\ Len(leaves') = n
        /\ \A i \in 1 .. Len(leaves) : leaves'[i] = leaves[i]
        /\ leaves'[n] = [host |-> host, signer |-> ca]
    BY <1>0, <1>1, <1>3
  <1>5. /\ caCache' = [caCache EXCEPT ![host] = n]
        /\ tls' = [tls EXCEPT ![c].pc = "store", ![c].leaf = n]
        /\ mitmCache' = mitmCache /\ NoteSettled
    BY <1>0, <1>4 DEF SignLeaf
  <1>6. SignedByCA'
    <2>1. \A i \in 1 .. n : i = n \/ i \in 1 .. Len(leaves)
      BY <1>0, <1>4
    <2> QED
      BY <1>1, <1>4, <2>1 DEF SignedByCA, LeafInv
  <1>7. /\ tls'[c].pc = "store" /\ tls'[c].leaf = n /\ tls'[c].host = host /\ tls'[c].wanted = host
        /\ \A d \in Conns : d # c => tls'[d] = tls[d]
        /\ \A d \in Conns : tls[d].leaf \in 0 .. Len(leaves)
    BY <1>0, <1>2, <1>5 DEF LeafTypeOK
  <1>8. HandshakeForWanted'
    <2> SUFFICES ASSUME NEW d \in Conns
                 PROVE  /\ tls'[d].pc # "none" => tls'[d].host \in Hosts /\ tls'[d].wanted = tls'[d].host
                        /\ tls'[d].pc \in {"store", "served"} =>
                             tls'[d].leaf # NoLeaf /\ leaves'[tls'[d].leaf].host = tls'[d].host
      BY DEF HandshakeForWanted
    <2>1. CASE d = c
      BY <1>2, <1>4, <1>7, <2>1 DEF NoLeaf
    <2>2. CASE d # c
      <3>1. tls[d].leaf # NoLeaf => tls[d].leaf \in 1 .. Len(leaves)
        BY <1>4, <1>7 DEF NoLeaf
      <3> QED
        BY <1>4, <1>7, <2>2, <3>1 DEF LeafInv, HandshakeForWanted
    <2> QED
      BY <2>1, <2>2
  <1>9. CachedForHost'
    <2> SUFFICES ASSUME NEW h \in Hosts
                 PROVE  /\ caCache'[h] # NoLeaf => leaves'[caCache'[h]].host = h
                        /\ mitmCache'[h] # NoLeaf => leaves'[mitmCache'[h]].host = h
      BY DEF CachedForHost
    <2>1. caCache[h] \in 0 .. Len(leaves) /\ mitmCache[h] \in 0 .. Len(leaves)
      BY DEF LeafTypeOK
    <2>2. /\ caCache[h] # NoLeaf => leaves'[caCache[h]].host = h
          /\ mitmCache[h] # NoLeaf => leaves'[mitmCache[h]].host = h
      BY <1>4, <2>1 DEF LeafInv, CachedForHost, NoLeaf
    <2>3. caCache'[h] = IF h = host THEN n ELSE caCache[h]
      BY <1>5 DEF LeafTypeOK
    <2> QED
      BY <1>4, <1>5, <2>2, <2>3
  <1>10. mitmCache' \in [Hosts -> 0 .. n]
    <2>1. \A h \in Hosts : mitmCache[h] \in 0 .. n
      BY <1>0, <1>4 DEF LeafTypeOK
    <2> QED
      BY <1>5, <2>1 DEF LeafTypeOK
  <1>11. settled' \in [Hosts -> 0 .. n] /\ SettledForGood'
    <2>1. ASSUME NEW h \in Hosts, settled[h] # NoLeaf PROVE Issuing(h)' = {}
      <3>1. \A d \in Conns : ~(tls[d].host = h /\ tls[d].pc \in {"issue", "sign", "store"})
        BY <2>1 DEF LeafInv, SettledForGood, Issuing
      <3>2. host # h
        BY <1>0, <1>1, <3>1
      <3>3. \A d \in Conns : ~(tls'[d].host = h /\ tls'[d].pc \in {"issue", "sign", "store"})
        BY <1>7, <3>1, <3>2
      <3> QED
        BY <3>3 DEF Issuing
    <2>2. \A h \in Hosts : settled[h] # NoLeaf => mitmCache'[h] = mitmCache[h] /\ Issuing(h)' = {}
      BY <1>5, <2>1
    <2>3. n \in Nat /\ Len(leaves) <= n
      BY <1>0, <1>4
    <2> QED
      BY <1>4, <1>5, <1>10, <2>2, <2>3, NoteSettledKeeps DEF LeafInv
  <1>12. LeafTypeOK'
    <2>1. n <= MaxLeaves
      BY <1>0, <1>1, <1>4, MaxLeavesAssumption
    <2>0. n \in 0 .. n
      BY <1>4
    <2>2. caCache' \in [Hosts -> 0 .. n]
      <3>1. \A h \in Hosts : caCache[h] \in 0 .. n
        BY <1>0, <1>4 DEF LeafTypeOK
      <3> QED
        BY <1>5, <2>0, <3>1 DEF LeafTypeOK
    <2>3. tls' \in [Conns -> [pc : TLSPc, host : Hosts \cup {NoHost}, wanted : Hosts \cup {NoHost},
                             leaf : 0 .. n]]
      <3>1. tls \in [Conns -> [pc : TLSPc, host : Hosts \cup {NoHost}, wanted : Hosts \cup {NoHost},
                               leaf : 0 .. n]]
        <4>1. \A d \in Conns : tls[d] \in [pc : TLSPc, host : Hosts \cup {NoHost},
                                            wanted : Hosts \cup {NoHost}, leaf : 0 .. n]
          <5> SUFFICES ASSUME NEW d \in Conns
                       PROVE  tls[d] \in [pc : TLSPc, host : Hosts \cup {NoHost},
                                          wanted : Hosts \cup {NoHost}, leaf : 0 .. n]
            OBVIOUS
          <5>1. tls[d] \in [pc : TLSPc, host : Hosts \cup {NoHost},
                            wanted : Hosts \cup {NoHost}, leaf : 0 .. Len(leaves)]
            BY DEF LeafTypeOK, TLSPc
          <5>2. 0 .. Len(leaves) \subseteq 0 .. n
            BY <1>0, <1>4
          <5> QED
            BY <5>1, <5>2
        <4> QED
          BY <4>1 DEF LeafTypeOK
      <3> QED
        BY <1>5, <2>0, <3>1, ZenonT(40) DEF TLSPc
    <2>4. \A i \in 1 .. n : leaves'[i].host \in Hosts
      <3>1. \A i \in 1 .. n : leaves'[i] \in Leaf
        BY <1>4
      <3> QED
        BY <3>1 DEF Leaf
    <2> QED
      BY <1>4, <1>10, <1>11, <2>1, <2>2, <2>3, <2>4 DEF LeafTypeOK, TLSPc
  <1> QED
    BY <1>6, <1>8, <1>9, <1>11, <1>12 DEF LeafInv

LEMMA ForgetKeeps ==
    ASSUME LeafTypeOK, LeafInv, ca' = ca, NEW c \in Conns, Forget(c)
    PROVE  LeafTypeOK' /\ LeafInv'
  <1>1. /\ tls' = [tls EXCEPT ![c] = NoTLS]
        /\ UNCHANGED <<leaves, caCache, mitmCache, settled>>
    BY DEF Forget
  <1>2. NoTLS.pc = "none" /\ Len(leaves) \in Nat
    BY DEF NoTLS, LeafInv, SignedByCA
  <1>3. /\ tls'[c] = NoTLS
        /\ \A d \in Conns : d # c => tls'[d] = tls[d]
    BY <1>1 DEF LeafTypeOK
  <1>4. LeafTypeOK'
    BY <1>1, <1>2 DEF LeafTypeOK, NoTLS, NoLeaf
  <1>5. SignedByCA' /\ CachedForHost'
    BY <1>1 DEF SignedByCA, CachedForHost, LeafInv
  <1>6. HandshakeForWanted'
    BY <1>1, <1>2, <1>3 DEF HandshakeForWanted, LeafInv
  <1>7. SettledForGood'
    <2>1. \A h : Issuing(h)' \subseteq Issuing(h)
      BY <1>2, <1>3 DEF Issuing
    <2> QED
      BY <1>1, <2>1 DEF SettledForGood, LeafInv
  <1> QED
    BY <1>4, <1>5, <1>6, <1>7 DEF LeafInv

\* New: a process starts with nothing cached, and one that dies keeps nothing.
LEMMA EmptyCaches ==
    ASSUME leaves = <<>>, caCache = NoLeaves, mitmCache = NoLeaves, settled = NoLeaves,
           tls = [c \in Conns |-> NoTLS]
    PROVE  LeafTypeOK /\ LeafInv
  <1>1. leaves \in Seq(Leaf) /\ Len(leaves) = 0
    OBVIOUS
  <1>2. LeafTypeOK
    BY <1>1, MaxLeavesAssumption DEF LeafTypeOK, NoLeaves, NoLeaf, NoTLS
  <1>3. SignedByCA /\ CachedForHost /\ HandshakeForWanted /\ SettledForGood
    BY <1>1 DEF SignedByCA, CachedForHost, HandshakeForWanted, SettledForGood, NoLeaves, NoTLS
  <1> QED
    BY <1>2, <1>3 DEF LeafInv

LEMMA EmptiedCaches == LeafGone => LeafTypeOK' /\ LeafInv'
  <1> SUFFICES ASSUME LeafGone PROVE LeafTypeOK' /\ LeafInv'
    OBVIOUS
  <1>1. leaves' \in Seq(Leaf) /\ Len(leaves') = 0
    BY DEF LeafGone
  <1>2. LeafTypeOK'
    BY <1>1, MaxLeavesAssumption DEF LeafGone, LeafTypeOK, NoLeaves, NoLeaf, NoTLS
  <1>3. SignedByCA' /\ CachedForHost' /\ HandshakeForWanted' /\ SettledForGood'
    BY <1>1 DEF LeafGone, SignedByCA, CachedForHost, HandshakeForWanted, SettledForGood, NoLeaves, NoTLS
  <1> QED
    BY <1>2, <1>3 DEF LeafInv

LEMMA LeavesUnchanged ==
    ASSUME LeafTypeOK, LeafInv, UNCHANGED leafVars, ca' = ca \/ leaves = <<>>
    PROVE  LeafTypeOK' /\ LeafInv'
  <1>1. LeafTypeOK'
    BY DEF leafVars, LeafTypeOK
  <1>2. SignedByCA'
    BY DEF leafVars, SignedByCA, LeafInv
  <1>3. CachedForHost' /\ HandshakeForWanted' /\ SettledForGood'
    BY DEF leafVars, CachedForHost, HandshakeForWanted, SettledForGood, LeafInv, Issuing
  <1> QED
    BY <1>1, <1>2, <1>3 DEF LeafInv

-----------------------------------------------------------------------------
(* The process *)

\* The steps of main that have a CA, and those that have the listener.
HasCA == {"listen", "ready", "serve", "notify", "wait", "shutdown"}
HasPort == {"ready", "serve", "notify", "wait"}

LEMMA PairIsSomething == \A i, j : <<i, j>> # NoCA
  BY DEF NoCA

\* Without a CA nothing has been signed.
LEMMA NothingSigned ==
    ASSUME LeafInv, ca = NoCA PROVE leaves = <<>>
  <1>1. leaves \in Seq(Leaf) /\ Len(leaves) \in Nat
    BY DEF LeafInv, SignedByCA
  <1>2. ASSUME Len(leaves) # 0 PROVE FALSE
    <2>1. 1 \in 1 .. Len(leaves)
      BY <1>1, <1>2
    <2>2. leaves[1].signer = NoCA
      BY <2>1 DEF LeafInv, SignedByCA
    <2>3. leaves[1] \in Leaf
      BY <1>1, <2>1
    <2>4. leaves[1].signer \in Pairs \X Pairs
      BY <2>3 DEF Leaf
    <2>5. PICK i \in Pairs, j \in Pairs : leaves[1].signer = <<i, j>>
      BY <2>4
    <2> QED
      BY <2>2, <2>5, PairIsSomething
  <1> QED
    BY <1>1, <1>2

LEMMA LifeInitial == LifeInit => LifeTypeOK /\ LifeInv
  <1> SUFFICES ASSUME LifeInit PROVE LifeTypeOK /\ LifeInv
    OBVIOUS
  <1>1. LeafTypeOK /\ LeafInv
    BY EmptyCaches DEF LifeInit, LeafInit
  <1>2. tls = [c \in Conns |-> NoTLS] /\ NoTLS.pc = "none"
    BY DEF LifeInit, LeafInit, NoTLS
  <1>3. LifeTypeOK
    <2>1. /\ cert \in {NoFile} \cup Pairs /\ key \in {NoFile} \cup Pairs
          /\ made \in 0 .. MaxPairs
      BY MaxPairsAssumption DEF LifeInit, Pairs
    <2>2. \A c \in Conns : tls[c].pc = "none"
      BY <1>2
    <2>3. conn \in [Conns -> {"none", "backlog", "open", "request", "tunnel"}]
      BY DEF LifeInit
    <2> QED
      BY <1>1, <2>1, <2>2, <2>3 DEF LifeInit, LifeTypeOK
  <1>4. FilesInStep
    BY MaxPairsAssumption DEF LifeInit, FilesInStep, Pairs, NoFile
  <1>5. Running /\ PairMatches
    BY DEF LifeInit, Running, PairMatches
  <1> QED
    BY <1>1, <1>3, <1>4, <1>5 DEF LifeInv

\* However the process ends, what is left are files that are in step.
LEMMA DiesKeeps ==
    ASSUME LifeTypeOK, LifeInv, NEW how \in {"clean", "failed", "caError", "killed"},
           Dies(how), Files, pc # "down"
    PROVE  LifeTypeOK' /\ LifeInv'
  <1>1. LeafTypeOK' /\ LeafInv'
    BY EmptiedCaches DEF Dies
  <1>2. /\ pc' = "down" /\ exit' = how /\ ca' = NoCA /\ ready' = FALSE /\ port' = "closed"
        /\ conn' = [c \in Conns |-> "none"]
        /\ UNCHANGED <<cert, key, made>>
    BY DEF Dies, Files
  <1>3. halfDone' = (halfDone \/ (pc = "opened" /\ key \in Pairs)) /\ halfDone \in BOOLEAN
    BY DEF Dies, LifeTypeOK
  <1>4. halfDone' \in BOOLEAN
    BY <1>3, Zenon
  <1>5. \A c \in Conns : tls'[c].pc = "none"
    BY DEF Dies, LeafGone, NoTLS
  <1>6. LifeTypeOK'
    BY <1>1, <1>2, <1>4, <1>5 DEF LifeTypeOK
  <1>7. cert \in Pairs /\ key \in Pairs => (cert # key <=> halfDone')
    <2>1. CASE pc = "opened" /\ key \in Pairs
      <3>1. halfDone'
        BY <1>3, <2>1, Zenon
      <3>2. cert = made /\ key < made /\ made \in Pairs
        BY <2>1 DEF LifeInv, FilesInStep
      <3>3. cert # key
        BY <2>1, <3>2, MaxPairsAssumption DEF Pairs
      <3> QED
        BY <3>1, <3>3
    <2>2. CASE ~(pc = "opened" /\ key \in Pairs)
      <3>1. halfDone' = halfDone
        BY <1>3, <2>2, Zenon
      <3> QED
        BY <2>2, <3>1 DEF LifeInv, FilesInStep
    <2> QED
      BY <2>1, <2>2
  <1>8. FilesInStep' /\ PairMatches'
    BY <1>2, <1>7 DEF FilesInStep, PairMatches, LifeInv
  <1>9. Running'
    BY <1>2 DEF Running
  <1> QED
    BY <1>1, <1>6, <1>8, <1>9 DEF LifeInv

LEMMA StartKeeps ==
    ASSUME LifeTypeOK, LifeInv, Start PROVE LifeTypeOK' /\ LifeInv'
  <1>1. /\ pc = "down" /\ pc' = "ca" /\ exit' = "none"
        /\ UNCHANGED <<ca, conn, ready, port, halfDone, cert, key, made>> /\ UNCHANGED leafVars
    BY DEF Start, Files, Kept
  <1>2. ca = NoCA /\ ready = FALSE /\ port # "bound"
    BY <1>1 DEF LifeTypeOK
  <1>3. LeafTypeOK' /\ LeafInv'
    BY <1>1, LeavesUnchanged DEF LifeTypeOK, LifeInv
  <1>4. \A c \in Conns : tls'[c].pc = "none"
    <2>1. \A c \in Conns : conn[c] = "none"
      BY <1>2 DEF LifeInv, Running
    <2> QED
      BY <1>1, <2>1 DEF LifeTypeOK, leafVars
  <1>5. LifeTypeOK'
    BY <1>1, <1>2, <1>3, <1>4 DEF LifeTypeOK
  <1>6. FilesInStep' /\ PairMatches'
    BY <1>1, <1>2 DEF FilesInStep, PairMatches, LifeInv
  <1>7. Running'
    BY <1>1 DEF Running, LifeInv
  <1> QED
    BY <1>3, <1>5, <1>6, <1>7 DEF LifeInv

\* A step of main that goes on, and what has to hold of its files, CA, flag and listener.
LEMMA GotoKeeps ==
    ASSUME LifeTypeOK, LifeInv, pc # "down", NEW next, next # "down", Goto(next),
           next \in {"ca", "certfile", "opened", "keyfile", "listen", "ready", "serve",
                     "notify", "wait", "shutdown"},
           cert' \in {NoFile, Torn} \cup Pairs, key' \in {NoFile, Torn} \cup Pairs,
           made' \in 0 .. MaxPairs, halfDone' \in BOOLEAN,
           ca' \in {NoCA} \cup (Pairs \X Pairs), ready' \in BOOLEAN, port' \in {"closed", "bound"},
           next \in HasCA <=> ca' # NoCA,
           ready' => next \in {"serve", "notify", "wait", "shutdown"},
           port' = "bound" <=> next \in HasPort,
           ca' = ca \/ ca = NoCA,
           FilesInStep', PairMatches'
    PROVE  LifeTypeOK' /\ LifeInv'
  <1>1. pc' = next /\ UNCHANGED <<exit, conn>> /\ UNCHANGED leafVars
    BY DEF Goto
  <1>2. LeafTypeOK' /\ LeafInv'
    <2>1. ca' = ca \/ leaves = <<>>
      BY NothingSigned DEF LifeInv
    <2> QED
      BY <1>1, <2>1, LeavesUnchanged DEF LifeTypeOK, LifeInv
  <1>3. LifeTypeOK'
    <2>1. tls' = tls
      BY <1>1 DEF leafVars
    <2> QED
      BY <1>1, <1>2, <2>1 DEF LifeTypeOK, HasCA, HasPort
  <1>4. Running'
    BY <1>1 DEF Running, LifeInv
  <1> QED
    BY <1>2, <1>3, <1>4 DEF LifeInv

LEMMA loadCAKeeps ==
    ASSUME LifeTypeOK, LifeInv, loadCA PROVE LifeTypeOK' /\ LifeInv'
  <1>1. pc = "ca" /\ cert # NoFile /\ Files
    BY DEF loadCA
  <1>2. CASE cert \in Pairs /\ key \in Pairs
    <2>1. /\ ca' = <<cert, key>> /\ Goto("listen") /\ UNCHANGED <<ready, port, halfDone>>
          /\ UNCHANGED <<cert, key, made>>
      BY <1>2 DEF loadCA, Files, Kept
    <2>2. /\ ca = NoCA /\ ~ready /\ port = "closed" /\ ca' # NoCA /\ ca' \in Pairs \X Pairs
          /\ ready \in BOOLEAN /\ halfDone' \in BOOLEAN
      BY <1>1, <1>2, <2>1, PairIsSomething DEF LifeTypeOK
    <2>3. FilesInStep'
      BY <1>1, <2>1 DEF FilesInStep, Goto, LifeInv
    <2>4. PairMatches'
      BY <1>1, <1>2, <2>1 DEF PairMatches, FilesInStep, LifeInv
    <2>5. /\ cert' \in {NoFile, Torn} \cup Pairs /\ key' \in {NoFile, Torn} \cup Pairs
          /\ made' \in 0 .. MaxPairs
      BY <2>1 DEF LifeTypeOK
    <2> QED
      BY <1>1, <2>1, <2>2, <2>3, <2>4, <2>5, GotoKeeps DEF HasCA, HasPort
  <1>3. CASE ~(cert \in Pairs /\ key \in Pairs)
    BY <1>1, <1>3, DiesKeeps DEF loadCA
  <1> QED
    BY <1>2, <1>3

\* createCA, step by step.
LEMMA createCAKeeps ==
    ASSUME LifeTypeOK, LifeInv, OpenCert \/ WriteCert \/ OpenKey \/ WriteKey
    PROVE  LifeTypeOK' /\ LifeInv'
  <1>0. /\ cert \in {NoFile, Torn} \cup Pairs /\ key \in {NoFile, Torn} \cup Pairs
        /\ made \in 0 .. MaxPairs /\ ready \in BOOLEAN /\ halfDone \in BOOLEAN
        /\ Torn \notin Pairs /\ NoFile \notin Pairs /\ Torn # NoFile
    BY MaxPairsAssumption DEF LifeTypeOK, Pairs, Torn, NoFile
  <1>1. pc \in {"ca", "certfile", "opened", "keyfile"}
    BY DEF OpenCert, WriteCert, OpenKey, WriteKey
  <1>2. ca = NoCA /\ ~ready /\ port = "closed"
    BY <1>1 DEF LifeTypeOK
  <1>3. CASE OpenCert
    <2>1. /\ pc = "ca" /\ made < MaxPairs
          /\ made' = made + 1 /\ cert' = Torn /\ Goto("certfile") /\ pc' = "certfile"
          /\ UNCHANGED <<key, ca, ready, port, halfDone>>
      BY <1>3 DEF OpenCert, Goto, Kept
    <2>2. /\ made' \in Pairs /\ made' \in 0 .. MaxPairs
          /\ key \in Pairs => key <= made' /\ key < made'
      <3>1. key \in Pairs => key <= made
        BY DEF LifeInv, FilesInStep
      <3> QED
        BY <1>0, <2>1, <3>1, MaxPairsAssumption DEF Pairs
    <2>3. FilesInStep' /\ PairMatches'
      BY <1>0, <1>2, <2>1, <2>2 DEF FilesInStep, PairMatches, LifeInv
    <2> QED
      BY <1>0, <1>2, <2>1, <2>2, <2>3, GotoKeeps DEF HasCA, HasPort
  <1>4. CASE WriteCert
    <2>1. /\ pc = "certfile" /\ cert' = made /\ Goto("opened") /\ pc' = "opened"
          /\ UNCHANGED <<key, made, ca, ready, port, halfDone>>
      BY <1>4 DEF WriteCert, Goto, Kept
    <2>2. made \in Pairs /\ made <= made
      BY <1>0, <2>1 DEF FilesInStep, LifeInv
    <2>3. FilesInStep' /\ PairMatches'
      BY <1>0, <1>2, <2>1, <2>2 DEF FilesInStep, PairMatches, LifeInv
    <2> QED
      BY <1>0, <1>2, <2>1, <2>2, <2>3, GotoKeeps DEF HasCA, HasPort
  <1>5. CASE OpenKey
    <2>1. /\ pc = "opened" /\ key' = Torn /\ Goto("keyfile") /\ pc' = "keyfile"
          /\ UNCHANGED <<cert, made, ca, ready, port, halfDone>>
      BY <1>5 DEF OpenKey, Goto, Kept
    <2>2. made \in Pairs /\ cert = made
      BY <2>1 DEF FilesInStep, LifeInv
    <2>3. FilesInStep' /\ PairMatches'
      BY <1>0, <1>2, <2>1, <2>2 DEF FilesInStep, PairMatches, LifeInv
    <2> QED
      BY <1>0, <1>2, <2>1, <2>2, <2>3, GotoKeeps DEF HasCA, HasPort
  <1>6. CASE WriteKey
    <2>1. /\ pc = "keyfile" /\ key' = made /\ ca' = <<made, made>> /\ Goto("listen")
          /\ pc' = "listen" /\ UNCHANGED <<cert, made, ready, port>> /\ halfDone' = FALSE
      BY <1>6 DEF WriteKey, Goto
    <2>2. made \in Pairs /\ cert = made /\ made <= made
      BY <1>0, <2>1 DEF FilesInStep, LifeInv
    <2>3. ca' # NoCA /\ ca' \in Pairs \X Pairs
      BY <2>1, <2>2, PairIsSomething
    <2>4. FilesInStep' /\ PairMatches'
      BY <1>0, <2>1, <2>2 DEF FilesInStep, PairMatches
    <2> QED
      BY <1>0, <1>2, <2>1, <2>2, <2>3, <2>4, GotoKeeps DEF HasCA, HasPort
  <1> QED
    BY <1>3, <1>4, <1>5, <1>6

\* Listen, SetReady, Serve and Notify.
LEMMA ServingKeeps ==
    ASSUME LifeTypeOK, LifeInv, Listen \/ SetReady \/ Serve \/ Notify
    PROVE  LifeTypeOK' /\ LifeInv'
  <1>0. /\ cert \in {NoFile, Torn} \cup Pairs /\ key \in {NoFile, Torn} \cup Pairs
        /\ made \in 0 .. MaxPairs /\ ready \in BOOLEAN /\ port \in {"closed", "bound"}
        /\ halfDone \in BOOLEAN /\ UNCHANGED <<cert, key, made>>
    BY DEF LifeTypeOK, Listen, SetReady, Serve, Notify, Files
  <1>1. pc \in {"listen", "ready", "serve", "notify"}
    BY DEF Listen, SetReady, Serve, Notify
  <1>2. ca # NoCA /\ ca \in Pairs \X Pairs
    BY <1>1 DEF LifeTypeOK
  <1>3. ASSUME NEW next \in {"ready", "serve", "notify", "wait"}, Goto(next), ca' = ca, halfDone' = halfDone
        PROVE  FilesInStep' /\ PairMatches'
    BY <1>0, <1>1, <1>3 DEF FilesInStep, PairMatches, LifeInv, Goto
  <1>4. CASE Listen
    <2>1. CASE port' = "bound" /\ Goto("ready") /\ UNCHANGED <<ca, ready, halfDone>>
      <3>1. pc = "listen" /\ ~ready
        BY <1>4 DEF Listen, LifeTypeOK
      <3>2. FilesInStep' /\ PairMatches'
        BY <1>3, <2>1
      <3> QED
        BY <1>0, <1>2, <2>1, <3>1, <3>2, GotoKeeps DEF HasCA, HasPort
    <2>2. CASE Dies("failed")
      BY <1>1, <1>4, <2>2, DiesKeeps DEF Listen
    <2> QED
      BY <1>4, <2>1, <2>2 DEF Listen
  <1>5. CASE SetReady
    <2>1. pc = "ready" /\ ready' = TRUE /\ Goto("serve") /\ UNCHANGED <<ca, port, halfDone>>
      BY <1>5 DEF SetReady
    <2>2. port = "bound" /\ FilesInStep' /\ PairMatches'
      BY <1>3, <2>1 DEF LifeTypeOK
    <2> QED
      BY <1>0, <1>2, <2>1, <2>2, GotoKeeps DEF HasCA, HasPort
  <1>6. CASE Serve
    <2>1. pc = "serve" /\ Goto("notify") /\ UNCHANGED <<ca, ready, port, halfDone>>
      BY <1>6 DEF Serve, Kept
    <2>2. port = "bound" /\ FilesInStep' /\ PairMatches'
      BY <1>3, <2>1 DEF LifeTypeOK
    <2> QED
      BY <1>0, <1>2, <2>1, <2>2, GotoKeeps DEF HasCA, HasPort
  <1>7. CASE Notify
    <2>1. pc = "notify" /\ Goto("wait") /\ UNCHANGED <<ca, ready, port, halfDone>>
      BY <1>7 DEF Notify, Kept
    <2>2. port = "bound" /\ FilesInStep' /\ PairMatches'
      BY <1>3, <2>1 DEF LifeTypeOK
    <2> QED
      BY <1>0, <1>2, <2>1, <2>2, GotoKeeps DEF HasCA, HasPort
  <1> QED
    BY <1>4, <1>5, <1>6, <1>7

\* SIGTERM, Shutdown's two ends, and the other ways to die.
LEMMA StoppingKeeps ==
    ASSUME LifeTypeOK, LifeInv,
           CreateFails \/ ServeFails \/ Drained \/ DrainTimeout \/ Sigterm \/ Kill
    PROVE  LifeTypeOK' /\ LifeInv'
  <1>1. CASE CreateFails \/ ServeFails \/ Drained \/ DrainTimeout \/ Kill
    <2>1. pc # "down" /\ Files /\ (Dies("failed") \/ Dies("killed") \/ Dies("clean"))
      BY <1>1 DEF CreateFails, ServeFails, Drained, DrainTimeout, Kill
    <2> QED
      BY <2>1, DiesKeeps
  <1>2. CASE Sigterm
    <2>1. CASE pc # "wait" /\ Dies("killed")
      <3>1. pc # "down" /\ Files
        BY <1>2 DEF Sigterm
      <3> QED
        BY <2>1, <3>1, DiesKeeps
    <2>2. CASE ~(pc # "wait" /\ Dies("killed"))
      <3>1. /\ pc = "wait" /\ pc' = "shutdown" /\ port' = "closed"
            /\ conn' = [c \in Conns |-> IF conn[c] = "backlog" THEN "none" ELSE conn[c]]
            /\ UNCHANGED <<ca, ready, exit, halfDone, cert, key, made>> /\ UNCHANGED leafVars
        BY <1>2, <2>2 DEF Sigterm, Files
      <3>2. LeafTypeOK' /\ LeafInv'
        BY <3>1, LeavesUnchanged DEF LifeTypeOK, LifeInv
      <3>3. tls' = tls
        BY <3>1 DEF leafVars
      <3>4. LifeTypeOK'
        BY <3>1, <3>2, <3>3 DEF LifeTypeOK
      <3>5. FilesInStep' /\ PairMatches'
        BY <3>1 DEF FilesInStep, PairMatches, LifeInv
      <3>6. Running'
        BY <3>1 DEF Running, LifeInv
      <3> QED
        BY <3>2, <3>4, <3>5, <3>6 DEF LifeInv
    <2> QED
      BY <2>1, <2>2
  <1> QED
    BY <1>1, <1>2

\* A step of one connection: what has to hold of its new state.
LEMMA ConnKeeps ==
    ASSUME LifeTypeOK, LifeInv, NEW c \in Conns, NEW s \in {"none", "backlog", "open", "request", "tunnel"},
           Process, conn' = [conn EXCEPT ![c] = s], ca # NoCA, LeafTypeOK', LeafInv',
           \A d \in Conns : tls'[d].pc # "none" => conn'[d] = "tunnel"
    PROVE  LifeTypeOK' /\ LifeInv'
  <1>1. UNCHANGED <<ca, pc, ready, port, exit, halfDone, cert, key, made>>
    BY DEF Process, Files, Kept
  <1>2. LifeTypeOK'
    BY <1>1 DEF LifeTypeOK
  <1>3. FilesInStep' /\ PairMatches'
    BY <1>1 DEF FilesInStep, PairMatches, LifeInv
  <1>4. Running'
    BY <1>1 DEF Running
  <1> QED
    BY <1>2, <1>3, <1>4 DEF LifeInv

LEMMA ConnectionStep ==
    ASSUME LifeTypeOK, LifeInv, NEW c \in Conns,
           \/ Connect(c) \/ Accept(c) \/ Request(c) \/ Hijack(c) \/ Respond(c)
           \/ Handshake(c) \/ ServeLeaf(c) \/ Finish(c)
    PROVE  LifeTypeOK' /\ LifeInv'
  <1>0. LeafTypeOK /\ LeafInv /\ Process /\ ca' = ca
    BY DEF LifeTypeOK, LifeInv, Connect, Accept, Request, Hijack, Respond, Becomes, Handshake,
           ServeLeaf, Finish, Process
  <1>1. \A d \in Conns : tls[d].pc # "none" => conn[d] = "tunnel"
    BY DEF LifeTypeOK
  <1>2. \A d \in Conns : conn[d] # "none" => ca # NoCA
    BY DEF LifeInv, Running
  <1>3. CASE Connect(c) \/ Accept(c) \/ Request(c) \/ Hijack(c) \/ Respond(c)
    <2>1. PICK s \in {"backlog", "open", "request", "tunnel"} : conn' = [conn EXCEPT ![c] = s]
      BY <1>3 DEF Connect, Accept, Request, Hijack, Respond, Becomes
    <2>2. UNCHANGED leafVars /\ conn[c] # "tunnel"
      BY <1>3 DEF Connect, Accept, Request, Hijack, Respond, Becomes
    <2>3. ca # NoCA
      <3>1. CASE Connect(c)
        BY <3>1 DEF Connect, LifeTypeOK
      <3>2. CASE Accept(c) \/ Request(c) \/ Hijack(c) \/ Respond(c)
        BY <1>2, <3>2 DEF Accept, Request, Hijack, Respond
      <3> QED
        BY <1>3, <3>1, <3>2
    <2>4. LeafTypeOK' /\ LeafInv'
      BY <1>0, <2>2, LeavesUnchanged
    <2>5. \A d \in Conns : tls'[d].pc # "none" => conn'[d] = "tunnel"
      BY <1>1, <2>1, <2>2 DEF leafVars, LifeTypeOK
    <2> QED
      BY <1>0, <2>1, <2>3, <2>4, <2>5, ConnKeeps
  <1>4. CASE Finish(c)
    <2>1. conn' = [conn EXCEPT ![c] = "none"] /\ Forget(c) /\ ca # NoCA
      BY <1>2, <1>4 DEF Finish
    <2>2. LeafTypeOK' /\ LeafInv'
      BY <1>0, <2>1, ForgetKeeps
    <2>3. \A d \in Conns : tls'[d].pc # "none" => d # c /\ tls'[d] = tls[d]
      BY <2>1 DEF Forget, NoTLS, LifeTypeOK, LeafTypeOK
    <2>4. \A d \in Conns : tls'[d].pc # "none" => conn'[d] = "tunnel"
      BY <1>1, <2>1, <2>3 DEF LifeTypeOK
    <2> QED
      BY <1>0, <2>1, <2>2, <2>4, ConnKeeps
  <1>5. CASE Handshake(c) \/ ServeLeaf(c)
    <2>1. conn' = conn /\ conn[c] = "tunnel"
      <3>1. CASE Handshake(c)
        BY <3>1 DEF Handshake
      <3>2. CASE ServeLeaf(c)
        BY <1>1, <3>2 DEF ServeLeaf, LeafStep, IssueForHost, SignLeaf, SignFails, StorePair
      <3> QED
        BY <1>5, <3>1, <3>2
    <2>2. ca # NoCA /\ ca \in Pairs \X Pairs
      BY <1>2, <2>1 DEF LifeTypeOK
    <2>3. LeafTypeOK' /\ LeafInv'
      <3>1. CASE Handshake(c)
        BY <1>0, <3>1, GetCertificateKeeps DEF Handshake
      <3>2. CASE ServeLeaf(c)
        BY <1>0, <2>2, <3>2, IssueForHostKeeps, SignLeafKeeps, SignFailsKeeps, StorePairKeeps
        DEF ServeLeaf, LeafStep
      <3> QED
        BY <1>5, <3>1, <3>2
    <2>4. \A d \in Conns : d # c => tls'[d] = tls[d]
      <3>1. CASE Handshake(c)
        BY <3>1 DEF Handshake, GetCertificate, LifeTypeOK, LeafTypeOK
      <3>2. CASE ServeLeaf(c)
        BY <3>2 DEF ServeLeaf, LeafStep, IssueForHost, SignLeaf, SignFails, StorePair,
                    LifeTypeOK, LeafTypeOK
      <3> QED
        BY <1>5, <3>1, <3>2
    <2>5. \A d \in Conns : tls'[d].pc # "none" => conn'[d] = "tunnel"
      BY <1>1, <2>1, <2>4
    <2>6. conn' = [conn EXCEPT ![c] = "tunnel"]
      BY <2>1 DEF LifeTypeOK
    <2> QED
      BY <1>0, <2>2, <2>3, <2>5, <2>6, ConnKeeps
  <1> QED
    BY <1>3, <1>4, <1>5

LEMMA StutterKeeps ==
    ASSUME LifeTypeOK, LifeInv, UNCHANGED lifeVars
    PROVE  LifeTypeOK' /\ LifeInv'
  <1>1. /\ UNCHANGED <<cert, key, made, ca, pc, ready, port, exit, conn, halfDone, tls>>
        /\ UNCHANGED leafVars
    BY DEF lifeVars, leafVars
  <1>2. LeafTypeOK' /\ LeafInv'
    BY <1>1, LeavesUnchanged DEF LifeTypeOK, LifeInv
  <1>3. LifeTypeOK'
    BY <1>1, <1>2 DEF LifeTypeOK
  <1> QED
    BY <1>1, <1>2, <1>3
    DEF LifeInv, FilesInStep, Running, PairMatches

-----------------------------------------------------------------------------
(* Theorems *)

\* The process, its files and its certificates keep their types and stay in step, through
\* kills and restarts at any point.
THEOREM LifeTypeCorrect == LifeSpec => [](LifeTypeOK /\ LifeInv)
  <1>1. LifeTypeOK /\ LifeInv /\ [LifeNext]_lifeVars => LifeTypeOK' /\ LifeInv'
    BY StartKeeps, loadCAKeeps, createCAKeeps, ServingKeeps, StoppingKeeps, ConnectionStep,
       StutterKeeps
    DEF LifeNext, main
  <1> QED
    BY <1>1, LifeInitial, PTL DEF LifeSpec

\* LoadOrCreateCA: certificate and key in memory are the ones on disk, and of one pair unless
\* an earlier start was ended between a new certificate and an old key; for any number of
\* starts, kills and failures, and whichever of the files were there to begin with.
THEOREM CAPairMatches == LifeSpec => []PairMatches
  <1>1. LifeInv => PairMatches
    BY DEF LifeInv
  <1> QED
    BY <1>1, LifeTypeCorrect, PTL

\* getMITMCertificate, IssueForHost: a client is shown a leaf for the name it asked for,
\* signed by the CA on disk, for any number of connections, hosts and leaves.
THEOREM LeafIsTrusted == LifeSpec => []LeafTrusted
  <1>1. LifeTypeOK /\ LifeInv => LeafTrusted
    <2> SUFFICES ASSUME LifeTypeOK, LifeInv, NEW c \in Conns, tls[c].pc = "served"
                 PROVE  leaves[tls[c].leaf] = [host |-> tls[c].wanted, signer |-> <<cert, cert>>]
      BY DEF LeafTrusted
    <2>1. leaves \in Seq(Leaf) /\ Len(leaves) \in Nat
      BY DEF LifeInv, LeafInv, SignedByCA
    <2>2. /\ tls[c].leaf # NoLeaf /\ tls[c].wanted = tls[c].host
          /\ leaves[tls[c].leaf].host = tls[c].host
      BY DEF LifeInv, LeafInv, HandshakeForWanted
    <2>3. tls[c].leaf \in 1 .. Len(leaves)
      BY <2>1, <2>2 DEF LifeTypeOK, LeafTypeOK, NoLeaf
    <2>4. leaves[tls[c].leaf] \in Leaf /\ leaves[tls[c].leaf].signer = ca /\ ca[1] = ca[2]
      BY <2>1, <2>3 DEF LifeInv, LeafInv, SignedByCA
    <2>5. ca # NoCA /\ ca \in Pairs \X Pairs
      BY DEF LifeTypeOK, LifeInv, Running
    <2>6. ca = <<cert, cert>>
      BY <2>4, <2>5 DEF LifeInv, PairMatches
    <2> QED
      BY <2>2, <2>4, <2>6 DEF Leaf
  <1> QED
    BY <1>1, LifeTypeCorrect, PTL

\* getMITMCertificate: once a host's leaf is settled every client is shown that one.
THEOREM SettledLeafStays == LifeSpec => []OneLeafOnceSettled
  <1>1. LifeInv => OneLeafOnceSettled
    BY DEF LifeInv, LeafInv, SettledForGood, OneLeafOnceSettled
  <1> QED
    BY <1>1, LifeTypeCorrect, PTL
=============================================================================
