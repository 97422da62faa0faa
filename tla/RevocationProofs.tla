-------------------------- MODULE RevocationProofs --------------------------
(***************************************************************************)
(* Theorems about the upstream revocation cache, for any certificates and  *)
(* any number of handshakes and refreshes.                                 *)
(***************************************************************************)
EXTENDS Revocation, FiniteSetTheorems, TLAPS

\* Handshakes between lookup and store, of any certificate and of one.
Storing == {h \in Handshakes : hs[h].pc = "store"}
StoringOf(c) == {h \in Handshakes : hs[h].pc = "store" /\ hs[h].cert = c}

\* A goroutine that is at work has a certificate; an idle refresh has none.
HasCert ==
    /\ \A h \in Handshakes : hs[h].pc = "store" => hs[h].cert \in Certs
    /\ \A f \in Refreshes : refresh[f].pc # "idle" <=> refresh[f].cert \in Certs

\* Every handshake that may start a refresh finds a name for it.
RoomForRefresh == Cardinality(Storing) <= Cardinality(Free)

\* While a certificate is known to be revoked its entry says so, and whoever could still
\* store another verdict was at work when it became known.
KnownHolds ==
    \A c \in known : /\ entry[c].status = "revoked" /\ entry[c].live
                     /\ UnderWay(c) \subseteq older[c]

\* As long as an entry is dead, everyone who missed it is still about to store.
MissesAreStoring ==
    \A c \in Certs : ~entry[c].live => misses[c] <= Cardinality(StoringOf(c))

RevInv == HasCert /\ RoomForRefresh /\ KnownHolds /\ MissesAreStoring /\ HerdBounded

-----------------------------------------------------------------------------
(* Counting goroutines *)

LEMMA FiniteParts ==
    /\ IsFiniteSet(Storing) /\ Cardinality(Storing) \in Nat
    /\ IsFiniteSet(Free) /\ Cardinality(Free) \in Nat
    /\ \A c : /\ IsFiniteSet(StoringOf(c))
              /\ Cardinality(StoringOf(c)) \in Nat
              /\ Cardinality(StoringOf(c)) <= Cardinality(Handshakes)
    /\ Cardinality(Handshakes) \in Nat
  <1>1. Storing \subseteq Handshakes /\ Free \subseteq Refreshes
    BY DEF Storing, Free
  <1>2. \A c : StoringOf(c) \subseteq Handshakes
    BY DEF StoringOf
  <1> QED
    BY <1>1, <1>2, HandshakesAssumption, FS_Subset, FS_CardinalityType

\* One more or one less.
LEMMA OneMore ==
    ASSUME NEW S, IsFiniteSet(S), NEW x
    PROVE  /\ x \notin S => Cardinality(S \cup {x}) = Cardinality(S) + 1
           /\ x \in S => Cardinality(S \ {x}) = Cardinality(S) - 1
           /\ Cardinality(S \ {x}) >= Cardinality(S) - 1
  BY FS_AddElement, FS_RemoveElement, FS_CardinalityType

\* A handshake that has to store finds a name for the refresh it starts.
LEMMA NameForRefresh ==
    ASSUME RoomForRefresh, NEW h \in Handshakes, hs[h].pc = "store"
    PROVE  (CHOOSE f \in Free : TRUE) \in Free
  <1>1. h \in Storing
    BY DEF Storing
  <1>2. Cardinality(Storing) # 0
    BY <1>1, FiniteParts, FS_EmptySet
  <1>3. Free # {}
    BY <1>2, FiniteParts, FS_EmptySet DEF RoomForRefresh
  <1> QED
    BY <1>3

-----------------------------------------------------------------------------
(* Types *)

LEMMA AnswerTypes ==
    ASSUME NEW c \in Certs
    PROVE  /\ Stapled(c) \subseteq Verdicts
           /\ fetchOCSPStatus(c) \in Verdicts
           /\ fetchCRLStatus(c) \in Verdicts
  BY DEF Stapled, fetchOCSPStatus, fetchCRLStatus, Answer, Verdicts

LEMMA NoteStoreType ==
    ASSUME RevTypeOK, NEW c \in Certs, NEW v \in Verdicts, NEW by,
           NoteStore(c, v, by)
    PROVE  /\ known' \subseteq Certs
           /\ older' \in [Certs -> SUBSET (Handshakes \cup Refreshes)]
           /\ misses' = misses
  <1>1. UnderWay(c) \ {by} \subseteq Handshakes \cup Refreshes
    BY DEF UnderWay
  <1> QED
    BY <1>1 DEF RevTypeOK, NoteStore

LEMMA RevInitial == RevInit => RevTypeOK /\ RevInv
  <1> SUFFICES ASSUME RevInit PROVE RevTypeOK /\ RevInv
    OBVIOUS
  <1>1. RevTypeOK
    BY FiniteParts DEF RevInit, RevTypeOK, NoEntry, Idle, Verdicts, MissCap
  <1>2. HasCert
    BY NoCertAssumption DEF RevInit, HasCert, Idle
  <1>3. RoomForRefresh
    <2>1. Storing = {}
      BY DEF RevInit, Storing, Idle
    <2> QED
      BY <2>1, FS_EmptySet, FiniteParts DEF RoomForRefresh
  <1>4. KnownHolds
    BY DEF RevInit, KnownHolds
  <1>5. MissesAreStoring /\ HerdBounded
    BY FiniteParts DEF RevInit, MissesAreStoring, HerdBounded
  <1> QED
    BY <1>1, <1>2, <1>3, <1>4, <1>5 DEF RevInv

-----------------------------------------------------------------------------
(* One step of each kind *)

LEMMA LookupStep ==
    ASSUME RevTypeOK, RevInv, NEW h \in Handshakes, NEW c \in Certs,
           verifyUpstreamConnection(h, c)
    PROVE  RevTypeOK' /\ RevInv'
  <1> USE DEF RevInv
  <1>0. /\ UNCHANGED <<cert, revoked, up, entry, refresh, known, older>>
        /\ hs[h].pc = "idle"
        /\ entry[c].live \/ Cardinality(Free) > Cardinality(Storing)
        /\ Free' = Free
    BY DEF verifyUpstreamConnection, Storing, Free
  <1>1. CASE entry[c].live
    <2>1. /\ hs' = [hs EXCEPT ![h].cert = c, ![h].pc =
                        IF entry[c].status = "revoked" THEN "refused" ELSE "accepted"]
          /\ misses' = misses
      BY <1>1 DEF verifyUpstreamConnection
    <2>2. RevTypeOK'
      BY <1>0, <2>1 DEF RevTypeOK
    <2>3. /\ Storing' = Storing
          /\ \A d : StoringOf(d)' = StoringOf(d) /\ UnderWay(d)' = UnderWay(d)
      BY <1>0, <2>1 DEF RevTypeOK, Storing, StoringOf, UnderWay
    <2>4. HasCert'
      BY <1>0, <2>1 DEF HasCert, RevTypeOK
    <2> QED
      BY <1>0, <2>1, <2>2, <2>3, <2>4
      DEF RoomForRefresh, KnownHolds, MissesAreStoring, HerdBounded
  <1>2. CASE ~entry[c].live
    <2>1. PICK s \in Stapled(c) :
              hs' = [hs EXCEPT ![h] = [pc |-> "store", cert |-> c, verdict |-> s]]
      BY <1>2 DEF verifyUpstreamConnection
    <2>2. misses' = [misses EXCEPT ![c] = IF @ < MissCap THEN @ + 1 ELSE @]
      BY <1>2 DEF verifyUpstreamConnection
    <2>3. MissCap \in Nat
      BY FiniteParts DEF MissCap
    <2>4. RevTypeOK'
      BY <1>0, <2>1, <2>2, <2>3, AnswerTypes DEF RevTypeOK
    <2>5. /\ Storing' = Storing \cup {h} /\ h \notin Storing
          /\ StoringOf(c)' = StoringOf(c) \cup {h} /\ h \notin StoringOf(c)
          /\ \A d : d # c => StoringOf(d)' = StoringOf(d) /\ UnderWay(d)' = UnderWay(d)
      BY <1>0, <2>1 DEF RevTypeOK, Storing, StoringOf, UnderWay
    <2>6. HasCert'
      BY <1>0, <2>1 DEF HasCert, RevTypeOK
    <2>7. RoomForRefresh'
      <3>1. Cardinality(Storing') = Cardinality(Storing) + 1
        BY <2>5, FiniteParts, OneMore
      <3> QED
        BY <1>0, <1>2, <3>1, FiniteParts DEF RoomForRefresh
    <2>8. KnownHolds'
      BY <1>0, <1>2, <2>5 DEF KnownHolds
    <2>9. MissesAreStoring'
      <3>1. Cardinality(StoringOf(c)') = Cardinality(StoringOf(c)) + 1
        BY <2>5, FiniteParts, OneMore
      <3>2. misses[c] <= Cardinality(StoringOf(c)) /\ misses[c] \in Nat
        BY <1>2, <2>3 DEF MissesAreStoring, RevTypeOK
      <3>3. misses'[c] <= misses[c] + 1 /\ misses'[c] \in Nat
        BY <2>2, <2>3, <3>2 DEF RevTypeOK
      <3>4. misses'[c] <= Cardinality(StoringOf(c)')
        BY <3>1, <3>2, <3>3, FiniteParts
      <3>5. \A d \in Certs : d # c => misses'[d] = misses[d]
        BY <2>2 DEF RevTypeOK
      <3> QED
        BY <1>0, <2>5, <3>4, <3>5 DEF MissesAreStoring
    <2>10. HerdBounded'
      <3>1. \A d \in Certs : d # c => misses'[d] = misses[d]
        BY <2>2 DEF RevTypeOK
      <3>2. misses'[c] <= Cardinality(StoringOf(c)')
        BY <1>0, <1>2, <2>9 DEF MissesAreStoring
      <3>3. Cardinality(StoringOf(c)') \in Nat /\ Cardinality(StoringOf(c)') <= Cardinality(Handshakes)
        <4>1. StoringOf(c)' \subseteq Handshakes
          BY DEF StoringOf
        <4> QED
          BY <4>1, HandshakesAssumption, FS_Subset, FS_CardinalityType
      <3>4. misses'[c] \in Nat
        BY <2>3, <2>4 DEF RevTypeOK
      <3>5. misses'[c] <= Cardinality(Handshakes)
        BY <3>2, <3>3, <3>4, FiniteParts
      <3> QED
        BY <3>1, <3>5 DEF HerdBounded
    <2> QED
      BY <2>4, <2>6, <2>7, <2>8, <2>9, <2>10
  <1> QED
    BY <1>1, <1>2

\* What a store leaves of the certificates known to be revoked: `by' was at work on c, and
\* the others at work on c can only have grown in number when the verdict is not a
\* revocation.
LEMMA StoreKeepsKnown ==
    ASSUME RevTypeOK, KnownHolds, NEW c \in Certs, NEW v \in Verdicts, NEW by \in UnderWay(c),
           cacheRevocationStatus(c, v), NoteStore(c, v, by),
           v = "revoked" => UnderWay(c)' \subseteq UnderWay(c) \ {by},
           \A d \in Certs : d # c => UnderWay(d)' \subseteq UnderWay(d)
    PROVE  KnownHolds'
  <1>1. /\ entry'[c] = [status |-> v, live |-> TRUE]
        /\ \A d \in Certs : d # c => entry'[d] = entry[d]
    BY DEF cacheRevocationStatus, RevTypeOK
  <1>2. \A d \in Certs : d # c => older'[d] = older[d] /\ (d \in known' <=> d \in known)
    BY DEF NoteStore, RevTypeOK
  <1>3. known' \subseteq Certs
    BY NoteStoreType
  <1>4. ASSUME c \in known'
        PROVE  v = "revoked" /\ older'[c] = UnderWay(c) \ {by}
    <2>1. CASE v = "revoked"
      BY <2>1 DEF NoteStore, RevTypeOK
    <2>2. CASE v # "revoked"
      <3>1. by \notin older[c] /\ c \in known
        BY <1>4, <2>2 DEF NoteStore
      <3> QED
        BY <3>1 DEF KnownHolds
    <2> QED
      BY <2>1, <2>2
  <1>5. ASSUME NEW d \in known'
        PROVE  /\ entry'[d].status = "revoked" /\ entry'[d].live
               /\ UnderWay(d)' \subseteq older'[d]
    <2>1. CASE d = c
      BY <1>1, <1>4, <1>5, <2>1
    <2>2. CASE d # c
      BY <1>1, <1>2, <1>3, <1>5, <2>2 DEF KnownHolds
    <2> QED
      BY <2>1, <2>2
  <1> QED
    BY <1>5 DEF KnownHolds

LEMMA StoreVerdictStep ==
    ASSUME RevTypeOK, RevInv, NEW h \in Handshakes, StoreVerdict(h)
    PROVE  RevTypeOK' /\ RevInv'
  <1>a. PICK c \in Certs, v \in Verdicts : hs[h].cert = c /\ hs[h].verdict = v
    BY DEF StoreVerdict, RevTypeOK, RevInv, HasCert
  <1>b. PICK g : g = CHOOSE f \in Free : TRUE
    OBVIOUS
  <1>0. /\ hs[h].pc = "store"
        /\ cacheRevocationStatus(c, v) /\ NoteStore(c, v, h)
        /\ UNCHANGED <<cert, revoked, up>>
    BY <1>a, <1>b DEF StoreVerdict
  <1>1. g \in Free /\ g \in Refreshes /\ refresh[g].pc = "idle" /\ refresh[g].cert \notin Certs
    <2>1. g \in Free
      BY <1>a, <1>b, <1>0, NameForRefresh DEF RevInv
    <2> QED
      BY <2>1 DEF Free, RevInv, HasCert
  <1>2. hs' = [hs EXCEPT ![h] = [Idle EXCEPT !.cert = c, !.pc =
                                       IF v = "revoked" THEN "refused" ELSE "accepted"]]
    BY <1>a, <1>b DEF StoreVerdict
  <1>3. \/ refresh' = [refresh EXCEPT ![g] = [pc |-> "ocsp", cert |-> c, verdict |-> v]]
           /\ v = "unknown"
        \/ refresh' = refresh
    BY <1>a, <1>b DEF StoreVerdict, StartsRefresh
  <1>4. /\ entry' = [entry EXCEPT ![c] = [status |-> v, live |-> TRUE]]
        /\ misses' = misses
    BY <1>0 DEF cacheRevocationStatus, NoteStore
  <1>5. /\ hs'[h].pc # "store" /\ hs'[h].cert = c
        /\ \A k \in Handshakes : k # h => hs'[k] = hs[k]
    BY <1>2 DEF RevTypeOK, Idle
  <1>6. \A f \in Refreshes :
           \/ refresh'[f] = refresh[f]
           \/ f = g /\ v = "unknown" /\ refresh'[f].cert = c /\ refresh'[f].pc = "ocsp"
    <2>1. CASE refresh' = refresh
      BY <2>1
    <2>2. CASE /\ refresh' = [refresh EXCEPT ![g] = [pc |-> "ocsp", cert |-> c, verdict |-> v]]
               /\ v = "unknown"
      <3>1. DOMAIN refresh = Refreshes
        BY DEF RevTypeOK
      <3> QED
        BY <2>2, <3>1
    <2> QED
      BY <1>3, <2>1, <2>2
  <1>7. RevTypeOK'
    <2>1. [Idle EXCEPT !.cert = c, !.pc = IF v = "revoked" THEN "refused" ELSE "accepted"]
             \in [pc : {"idle", "store", "accepted", "refused"},
                  cert : Certs \cup {NoCert}, verdict : Verdicts]
      BY <1>0 DEF Idle, Verdicts
    <2>2. hs' \in [Handshakes -> [pc : {"idle", "store", "accepted", "refused"},
                                  cert : Certs \cup {NoCert}, verdict : Verdicts]]
      BY <1>2, <2>1 DEF RevTypeOK
    <2>3. refresh' \in [Refreshes -> [pc : {"idle", "ocsp", "crl", "store"},
                                      cert : Certs \cup {NoCert}, verdict : Verdicts]]
      <3>1. [pc |-> "ocsp", cert |-> c, verdict |-> v]
               \in [pc : {"idle", "ocsp", "crl", "store"},
                    cert : Certs \cup {NoCert}, verdict : Verdicts]
        BY <1>0
      <3> QED
        BY <1>1, <1>3, <3>1 DEF RevTypeOK
    <2>4. entry' \in [Certs -> [status : {"none"} \cup Verdicts, live : BOOLEAN]]
      BY <1>0, <1>4 DEF RevTypeOK
    <2> QED
      BY <1>0, <1>4, <2>2, <2>3, <2>4, NoteStoreType DEF RevTypeOK
  <1>8. /\ Storing' = Storing \ {h} /\ h \in Storing
        /\ \A d : d # c => StoringOf(d)' = StoringOf(d)
    BY <1>a, <1>b, <1>0, <1>5 DEF Storing, StoringOf
  <1>9. HasCert'
    BY <1>0, <1>1, <1>5, <1>6 DEF HasCert, RevInv
  <1>10. RoomForRefresh'
    <2>1. Cardinality(Storing') = Cardinality(Storing) - 1
      BY <1>8, FiniteParts, OneMore
    <2>2. Free' = Free \/ Free' = Free \ {g}
      BY <1>1, <1>3 DEF Free, RevTypeOK
    <2>3. Cardinality(Free') >= Cardinality(Free) - 1
      <3>1. CASE Free' = Free
        BY <3>1, FiniteParts
      <3>2. CASE Free' = Free \ {g}
        BY <3>2, FiniteParts, OneMore
      <3> QED
        BY <2>2, <3>1, <3>2
    <2>4. Cardinality(Free') \in Nat
      BY <2>2, FiniteParts, FS_RemoveElement, FS_CardinalityType
    <2> QED
      BY <2>1, <2>3, <2>4, FiniteParts DEF RoomForRefresh, RevInv
  <1>11. KnownHolds'
    <2>1. h \in UnderWay(c)
      BY <1>a, <1>b, <1>0 DEF UnderWay
    <2>2. v = "revoked" => UnderWay(c)' \subseteq UnderWay(c) \ {h}
      BY <1>5, <1>6, NamesAssumption DEF UnderWay
    <2>3. \A d \in Certs : d # c => UnderWay(d)' \subseteq UnderWay(d)
      BY <1>5, <1>6 DEF UnderWay
    <2> QED
      BY <1>0, <2>1, <2>2, <2>3, StoreKeepsKnown DEF RevInv
  <1>12. MissesAreStoring' /\ HerdBounded'
    <2>1. \A d \in Certs : ~entry'[d].live => d # c /\ ~entry[d].live
      BY <1>0, <1>4 DEF RevTypeOK
    <2> QED
      BY <1>4, <1>8, <2>1 DEF MissesAreStoring, HerdBounded, RevInv
  <1> QED
    BY <1>7, <1>9, <1>10, <1>11, <1>12 DEF RevInv

LEMMA StoreRefreshStep ==
    ASSUME RevTypeOK, RevInv, NEW f \in Refreshes, StoreRefresh(f)
    PROVE  RevTypeOK' /\ RevInv'
  <1>a. PICK c \in Certs, v \in Verdicts : refresh[f].cert = c /\ refresh[f].verdict = v
    BY DEF StoreRefresh, RevTypeOK, RevInv, HasCert
  <1>0. /\ refresh[f].pc = "store"
        /\ cacheRevocationStatus(c, v) /\ NoteStore(c, v, f)
        /\ refresh' = [refresh EXCEPT ![f] = Idle]
        /\ UNCHANGED <<cert, revoked, up, hs>>
    BY <1>a DEF StoreRefresh
  <1>1. /\ entry' = [entry EXCEPT ![c] = [status |-> v, live |-> TRUE]]
        /\ misses' = misses
    BY <1>0 DEF cacheRevocationStatus, NoteStore
  <1>2. /\ refresh'[f] = Idle
        /\ \A k \in Refreshes : k # f => refresh'[k] = refresh[k]
    BY <1>0 DEF RevTypeOK
  <1>3. Idle.pc = "idle" /\ Idle.cert = NoCert
    BY DEF Idle
  <1>4. RevTypeOK'
    <2>1. entry' \in [Certs -> [status : {"none"} \cup Verdicts, live : BOOLEAN]]
      BY <1>1 DEF RevTypeOK
    <2>2. refresh' \in [Refreshes -> [pc : {"idle", "ocsp", "crl", "store"},
                                      cert : Certs \cup {NoCert}, verdict : Verdicts]]
      BY <1>0 DEF RevTypeOK, Idle, Verdicts
    <2> QED
      BY <1>0, <1>1, <2>1, <2>2, NoteStoreType DEF RevTypeOK
  <1>5. HasCert'
    BY <1>0, <1>2, <1>3, NoCertAssumption DEF HasCert, RevInv
  <1>6. /\ Storing' = Storing
        /\ \A d : StoringOf(d)' = StoringOf(d)
    BY <1>0 DEF Storing, StoringOf
  <1>7. RoomForRefresh'
    <2>1. Free' = Free \cup {f} /\ f \notin Free
      BY <1>0, <1>2, <1>3 DEF Free
    <2>2. Cardinality(Free') = Cardinality(Free) + 1
      BY <2>1, FiniteParts, OneMore
    <2> QED
      BY <1>6, <2>2, FiniteParts DEF RoomForRefresh, RevInv
  <1>8. KnownHolds'
    <2>1. f \in UnderWay(c)
      BY <1>a DEF UnderWay
    <2>2. UnderWay(c)' \subseteq UnderWay(c) \ {f}
      BY <1>0, <1>2, <1>3, NamesAssumption, NoCertAssumption DEF UnderWay
    <2>3. \A d \in Certs : d # c => UnderWay(d)' \subseteq UnderWay(d)
      BY <1>0, <1>2, <1>3, NoCertAssumption DEF UnderWay
    <2> QED
      BY <1>0, <2>1, <2>2, <2>3, StoreKeepsKnown DEF RevInv
  <1>9. MissesAreStoring' /\ HerdBounded'
    <2>1. \A d \in Certs : ~entry'[d].live => ~entry[d].live
      BY <1>1 DEF RevTypeOK
    <2> QED
      BY <1>1, <1>6, <2>1 DEF MissesAreStoring, HerdBounded, RevInv
  <1> QED
    BY <1>4, <1>5, <1>7, <1>8, <1>9 DEF RevInv

\* A fetch changes neither the cache nor who is at work on what.
LEMMA FetchStep ==
    ASSUME RevTypeOK, RevInv, NEW f \in Refreshes, FetchOCSP(f) \/ FetchCRL(f)
    PROVE  RevTypeOK' /\ RevInv'
  <1>1. PICK c \in Certs : refresh[f].cert = c
    BY DEF FetchOCSP, FetchCRL, RevInv, HasCert
  <1>2. PICK v \in Verdicts, pc \in {"crl", "store"} :
            refresh' = [refresh EXCEPT ![f].verdict = v, ![f].pc = pc]
    <2>1. CASE FetchOCSP(f)
      BY <1>1, <2>1, AnswerTypes DEF FetchOCSP
    <2>2. CASE FetchCRL(f)
      BY <1>1, <2>2, AnswerTypes DEF FetchCRL
    <2> QED
      BY <2>1, <2>2
  <1>3. UNCHANGED <<cert, revoked, up, entry, hs, known, older, misses>>
    BY DEF FetchOCSP, FetchCRL, history
  <1>4. refresh[f].pc # "idle"
    BY DEF FetchOCSP, FetchCRL
  <1>5. /\ \A k \in Refreshes : refresh'[k].cert = refresh[k].cert
        /\ \A k \in Refreshes : refresh'[k].pc = "idle" <=> refresh[k].pc = "idle"
    BY <1>2, <1>4 DEF RevTypeOK
  <1>6. RevTypeOK'
    BY <1>2, <1>3, ZenonT(40) DEF RevTypeOK
  <1>7. /\ Storing' = Storing /\ Free' = Free
        /\ \A d : StoringOf(d)' = StoringOf(d) /\ UnderWay(d)' = UnderWay(d)
    BY <1>3, <1>5 DEF Storing, Free, StoringOf, UnderWay
  <1>8. HasCert'
    BY <1>3, <1>5 DEF HasCert, RevInv
  <1> QED
    BY <1>3, <1>6, <1>7, <1>8
    DEF RevInv, RoomForRefresh, KnownHolds, MissesAreStoring, HerdBounded

LEMMA CloseStep ==
    ASSUME RevTypeOK, RevInv, NEW h \in Handshakes, Close(h)
    PROVE  RevTypeOK' /\ RevInv'
  <1>1. /\ hs' = [hs EXCEPT ![h] = Idle]
        /\ hs[h].pc # "store" /\ Idle.pc # "store"
        /\ UNCHANGED <<cert, revoked, up, entry, refresh, known, older, misses>>
    BY DEF Close, history, Idle
  <1>2. RevTypeOK'
    BY <1>1 DEF RevTypeOK, Idle, Verdicts
  <1>3. /\ Storing' = Storing /\ Free' = Free
        /\ \A d : StoringOf(d)' = StoringOf(d) /\ UnderWay(d)' = UnderWay(d)
    BY <1>1 DEF Storing, Free, StoringOf, UnderWay, RevTypeOK
  <1>4. HasCert'
    BY <1>1 DEF HasCert, RevInv, RevTypeOK
  <1> QED
    BY <1>1, <1>2, <1>3, <1>4
    DEF RevInv, RoomForRefresh, KnownHolds, MissesAreStoring, HerdBounded

LEMMA ExpireStep ==
    ASSUME RevTypeOK, RevInv, NEW c \in Certs, Expire(c)
    PROVE  RevTypeOK' /\ RevInv'
  <1>1. /\ entry' = [entry EXCEPT ![c].live = FALSE]
        /\ known' = known \ {c}
        /\ older' = [older EXCEPT ![c] = {}]
        /\ misses' = [misses EXCEPT ![c] = 0]
        /\ UNCHANGED <<cert, revoked, up, hs, refresh>>
    BY DEF Expire
  <1>2. RevTypeOK'
    <2>1. MissCap \in Nat
      BY FiniteParts DEF MissCap
    <2>2. misses' \in [Certs -> 0 .. MissCap]
      BY <1>1, <2>1 DEF RevTypeOK
    <2>3. older' \in [Certs -> SUBSET (Handshakes \cup Refreshes)] /\ known' \subseteq Certs
      BY <1>1 DEF RevTypeOK
    <2>4. entry' \in [Certs -> [status : {"none"} \cup Verdicts, live : BOOLEAN]]
      BY <1>1, ZenonT(40) DEF RevTypeOK
    <2> QED
      BY <1>1, <2>2, <2>3, <2>4 DEF RevTypeOK
  <1>3. /\ Storing' = Storing /\ Free' = Free
        /\ \A d : StoringOf(d)' = StoringOf(d) /\ UnderWay(d)' = UnderWay(d)
    BY <1>1 DEF Storing, Free, StoringOf, UnderWay
  <1>4. \A d \in Certs : d # c => entry'[d] = entry[d] /\ misses'[d] = misses[d] /\ older'[d] = older[d]
    BY <1>1 DEF RevTypeOK
  <1>5. HasCert' /\ RoomForRefresh'
    BY <1>1, <1>3 DEF HasCert, RoomForRefresh, RevInv
  <1>6. KnownHolds'
    BY <1>1, <1>3, <1>4 DEF KnownHolds, RevInv, RevTypeOK
  <1>7. MissesAreStoring' /\ HerdBounded'
    <2>1. misses'[c] = 0
      BY <1>1 DEF RevTypeOK
    <2> QED
      BY <1>3, <1>4, <2>1, FiniteParts DEF MissesAreStoring, HerdBounded, RevInv
  <1> QED
    BY <1>2, <1>5, <1>6, <1>7 DEF RevInv

\* What the outside does, and stuttering, leave the proxy as it is.
LEMMA OutsideStep ==
    ASSUME RevTypeOK, RevInv,
           (\E c \in Certs : Revoke(c)) \/ Network \/ UNCHANGED revVars
    PROVE  RevTypeOK' /\ RevInv'
  <1>1. UNCHANGED <<cert, entry, hs, refresh, known, older, misses>>
    BY DEF Revoke, Network, revVars, program, history
  <1>2. revoked' \subseteq Certs /\ up' \in BOOLEAN
    BY DEF Revoke, Network, revVars, program, RevTypeOK
  <1>3. RevTypeOK'
    BY <1>1, <1>2 DEF RevTypeOK
  <1>4. /\ Storing' = Storing /\ Free' = Free
        /\ \A d : StoringOf(d)' = StoringOf(d) /\ UnderWay(d)' = UnderWay(d)
    BY <1>1 DEF Storing, Free, StoringOf, UnderWay
  <1> QED
    BY <1>1, <1>3, <1>4
    DEF RevInv, HasCert, RoomForRefresh, KnownHolds, MissesAreStoring, HerdBounded

LEMMA RevStep == RevTypeOK /\ RevInv /\ [RevNext]_revVars => RevTypeOK' /\ RevInv'
  <1> SUFFICES ASSUME RevTypeOK, RevInv, [RevNext]_revVars PROVE RevTypeOK' /\ RevInv'
    OBVIOUS
  <1>1. ASSUME NEW h \in Handshakes, NEW c \in Certs, verifyUpstreamConnection(h, c)
        PROVE  RevTypeOK' /\ RevInv'
    BY <1>1, LookupStep
  <1>2. ASSUME NEW h \in Handshakes, StoreVerdict(h) PROVE RevTypeOK' /\ RevInv'
    BY <1>2, StoreVerdictStep
  <1>3. ASSUME NEW h \in Handshakes, Close(h) PROVE RevTypeOK' /\ RevInv'
    BY <1>3, CloseStep
  <1>4. ASSUME NEW f \in Refreshes, FetchOCSP(f) \/ FetchCRL(f) PROVE RevTypeOK' /\ RevInv'
    BY <1>4, FetchStep
  <1>5. ASSUME NEW f \in Refreshes, StoreRefresh(f) PROVE RevTypeOK' /\ RevInv'
    BY <1>5, StoreRefreshStep
  <1>6. ASSUME NEW c \in Certs, Expire(c) PROVE RevTypeOK' /\ RevInv'
    BY <1>6, ExpireStep
  <1>7. CASE (\E c \in Certs : Revoke(c)) \/ Network \/ UNCHANGED revVars
    BY <1>7, OutsideStep
  <1> QED
    BY <1>1, <1>2, <1>3, <1>4, <1>5, <1>6, <1>7 DEF RevNext, RefreshStep

-----------------------------------------------------------------------------
(* Theorems *)

\* Revocation keeps its types, and what is known to be revoked, who may still overrun it,
\* and how many are at work on an entry stay in step.  The model's bound on refresh
\* goroutines is never hit: a handshake that must start one can.
THEOREM RevTypeCorrect == RevSpec => [](RevTypeOK /\ RevInv)
  BY RevInitial, RevStep, PTL DEF RevSpec

\* cacheRevocationStatus: an expired entry is evaluated at most once by each handshake
\* that runs at the time, for any number of handshakes and certificates.
THEOREM HerdIsBounded == RevSpec => []HerdBounded
  <1>1. RevInv => HerdBounded
    BY DEF RevInv
  <1> QED
    BY <1>1, RevTypeCorrect, PTL

\* verifyUpstreamConnection, asyncRefreshRevocation: a certificate found revoked is refused
\* until the verdict expires or an evaluation that was already under way overruns it.
THEOREM RevokedIsRefused == RevSpec => RefusedOnceKnown
  <1> DEFINE Refuses ==
                /\ \A c \in known' : entry'[c].status = "revoked" /\ entry'[c].live
                /\ \A h \in Handshakes : hs[h].pc = "idle" /\ hs'[h].pc = "accepted" =>
                                             hs'[h].cert \notin known
  <1>1. RevTypeOK /\ RevInv /\ RevTypeOK' /\ RevInv' /\ [RevNext]_revVars => [Refuses]_revVars
    <2> SUFFICES ASSUME RevTypeOK, RevInv, RevInv', RevNext
                 PROVE  Refuses
      BY DEF revVars
    <2>1. \A c \in known' : entry'[c].status = "revoked" /\ entry'[c].live
      BY DEF RevInv, KnownHolds
    <2>2. ASSUME NEW h \in Handshakes, hs[h].pc = "idle", hs'[h].pc = "accepted"
          PROVE  hs'[h].cert \notin known
      <3>1. ASSUME NEW g \in Handshakes, NEW c \in Certs, verifyUpstreamConnection(g, c)
            PROVE  hs'[h].cert \notin known
        <4>1. g = h
          BY <2>2, <3>1 DEF verifyUpstreamConnection, RevTypeOK
        <4>2. entry[c].live /\ entry[c].status # "revoked" /\ hs'[h].cert = c
          BY <2>2, <3>1, <4>1 DEF verifyUpstreamConnection, RevTypeOK
        <4> QED
          BY <4>2 DEF RevInv, KnownHolds
      <3>2. ASSUME NEW g \in Handshakes, StoreVerdict(g) PROVE FALSE
        <4>1. hs'[h] = hs[h] \/ g = h
          BY <3>2 DEF StoreVerdict, RevTypeOK
        <4> QED
          BY <2>2, <3>2, <4>1 DEF StoreVerdict
      <3>3. ASSUME NEW g \in Handshakes, Close(g) PROVE FALSE
        <4>1. hs'[h] = hs[h] \/ g = h
          BY <3>3 DEF Close, RevTypeOK
        <4> QED
          BY <2>2, <3>3, <4>1 DEF Close
      <3>4. ASSUME hs' = hs PROVE FALSE
        BY <2>2, <3>4
      <3>5. \/ \E g \in Handshakes : StoreVerdict(g) \/ Close(g)
            \/ \E g \in Handshakes, c \in Certs : verifyUpstreamConnection(g, c)
            \/ hs' = hs
        BY DEF RevNext, RefreshStep, FetchOCSP, FetchCRL, StoreRefresh, Expire, Revoke, Network
      <3> QED
        BY <3>1, <3>2, <3>3, <3>4, <3>5
    <2> QED
      BY <2>1, <2>2
  <1>2. RevSpec => [](RevTypeOK /\ RevInv)
    BY RevTypeCorrect
  <1> QED
    BY <1>1, <1>2, PTL DEF RevSpec, RefusedOnceKnown
=============================================================================
