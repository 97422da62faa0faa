-------------------------- MODULE PolicyStoreProofs --------------------------
(***************************************************************************)
(* Theorems about the control plane's store, for any number of uploads,    *)
(* documents, versions and database files.                                 *)
(***************************************************************************)
EXTENDS PolicyStore, FiniteSetTheorems, TLAPS

\* What an upload has at each step: a document, a version, an open database.
Held ==
    \A u \in Uploads :
        /\ up[u].pc # "idle" => up[u].doc \in Docs
        /\ up[u].pc \in Versioned \cup {"return"} => up[u].ver \in 1 .. MaxVersion
        /\ up[u].ino # NoFile <=> up[u].pc \in {"compile", "close"}

\* policy.db.tmp and policy.db are two files.
FilesApart == tmp # NoFile => tmp # db

\* What the history says of overlapping uploads.
OneAtATime ==
    /\ shared => raced
    /\ ~shared => \A u, v \in Uploads : up[u].pc \in Compiling /\ up[v].pc \in Compiling => u = v
    /\ ~raced => \A u, v \in Uploads : up[u].pc \in Versioned /\ up[v].pc \in Versioned => u = v

\* An upload that compiles alone finds its own document in policy.db.tmp.
CompileSound ==
    ~shared =>
        /\ AtomicSwap
        /\ \A u \in Uploads :
             /\ up[u].pc \in {"compile", "close"} => up[u].ino = tmp
             /\ up[u].pc = "close" => file[tmp].log = up[u].doc
             /\ up[u].pc \in {"verify", "replace"} =>
                  tmp # NoFile /\ file[tmp] = [main |-> up[u].doc, log |-> NoDoc]

\* A version that is held is above every version that was returned, and those that are
\* about to be returned differ.
VersionSound ==
    ~raced =>
        /\ VersionsDistinct
        /\ \A u \in Uploads : up[u].pc = "return" =>
             /\ \A i \in 1 .. Len(acks) : acks[i] # up[u].ver
             /\ \A v \in Uploads : up[v].pc = "return" /\ up[v].ver = up[u].ver => u = v
             /\ meta.state # "torn" => up[u].ver <= meta.ver
        /\ meta.state # "torn" => \A i \in 1 .. Len(acks) : acks[i] <= meta.ver
        /\ \A u \in Uploads : up[u].pc \in Versioned \ {"meta"} =>
             meta.state # "torn" /\ up[u].ver = meta.ver + 1
        /\ \A u \in Uploads : up[u].pc = "meta" =>
             /\ \A i \in 1 .. Len(acks) : acks[i] < up[u].ver
             /\ \A v \in Uploads : up[v].pc = "return" => up[v].ver < up[u].ver

\* policy.db is what the upload that swapped it last compiled.
MetaSound ==
    ~raced =>
        /\ meta.state = "ok" => /\ meta.ver <= swapped
                                /\ meta.ver = swapped => file[db].main = meta.doc
        /\ swapped # 0 => db # NoFile
        /\ \A u \in Uploads : up[u].pc \in {"truncate", "meta"} =>
             up[u].ver = swapped /\ file[db].main = up[u].doc

StoreInv == Held /\ FilesApart /\ OneAtATime /\ CompileSound /\ VersionSound /\ MetaSound

-----------------------------------------------------------------------------
(* What a step leaves alone *)

PCs == {"idle", "version", "return"} \cup Versioned
Thread == [pc : PCs, doc : Docs \cup {NoDoc}, ver : 0 .. MaxVersion,
           ino : Inodes \cup {NoFile}, mixed : BOOLEAN]

\* The other uploads are where they were, with what they had.
SameBut(u) ==
    \A v \in Uploads : v # u => /\ up'[v].pc = up[v].pc /\ up'[v].doc = up[v].doc
                               /\ up'[v].ver = up[v].ver /\ up'[v].ino = up[v].ino

LEMMA UpType == StoreTypeOK <=>
    /\ json \in Docs \cup {NoDoc}
    /\ tmp \in Inodes \cup {NoFile}
    /\ db \in Inodes \cup {NoFile}
    /\ file \in [Inodes -> [main : Docs \cup {NoDoc}, log : Docs \cup {NoDoc}]]
    /\ meta \in {NoMeta, TornMeta} \cup {MetaOf(v, d) : v \in 1 .. MaxVersion, d \in Docs}
    /\ up \in [Uploads -> Thread]
    /\ acks \in Seq(1 .. MaxVersion) /\ swapped \in 0 .. MaxVersion
    /\ shared \in BOOLEAN /\ raced \in BOOLEAN
  BY DEF StoreTypeOK, Thread, PCs

LEMMA NoFileApart == NoFile \notin Inodes
  BY DEF NoFile, Inodes

\* policy.meta.json is missing, torn, or holds a version and a document.
LEMMA MetaShape ==
    ASSUME StoreTypeOK
    PROVE  /\ meta.ver \in 0 .. MaxVersion
           /\ meta.state \in {"none", "torn", "ok"}
           /\ meta.state = "ok" => meta.ver \in 1 .. MaxVersion /\ meta.doc \in Docs
           /\ meta.state = "none" => meta.ver = 0
  <1>0. MaxVersion \in Nat \ {0}
    BY StoreBoundsAssumption
  <1>1. CASE meta \in {NoMeta, TornMeta}
    BY <1>0, <1>1 DEF NoMeta, TornMeta
  <1>2. CASE meta \in {MetaOf(v, d) : v \in 1 .. MaxVersion, d \in Docs}
    <2>1. PICK v \in 1 .. MaxVersion, d \in Docs : meta = MetaOf(v, d)
      BY <1>2
    <2>2. meta.state = "ok" /\ meta.ver = v /\ meta.doc = d
      BY <2>1 DEF MetaOf
    <2> QED
      BY <1>0, <2>2
  <1> QED
    BY <1>1, <1>2 DEF StoreTypeOK

\* In a set that does not hold two there are no two.
LEMMA NoTwo ==
    ASSUME NEW S, S \subseteq Uploads, ~(Cardinality(S) > 1), NEW u \in S, NEW v \in S
    PROVE  u = v
  <1> SUFFICES ASSUME u # v PROVE FALSE
    OBVIOUS
  <1>1. IsFiniteSet(S) /\ Cardinality(S) \in Nat
    BY InodesAssumption, FS_Subset, FS_CardinalityType
  <1>2. IsFiniteSet(S \ {u}) /\ Cardinality(S \ {u}) = Cardinality(S) - 1
    BY <1>1, FS_RemoveElement
  <1>3. v \in S \ {u}
    OBVIOUS
  <1>4. Cardinality(S \ {u}) # 0 /\ Cardinality(S \ {u}) \in Nat
    BY <1>2, <1>3, FS_EmptySet, FS_CardinalityType
  <1> QED
    BY <1>1, <1>2, <1>4

\* Of two sets of uploads the larger counts more.
LEMMA MoreAreMore ==
    ASSUME NEW S, NEW T, T \subseteq Uploads, S \subseteq T, Cardinality(S) > 1
    PROVE  Cardinality(T) > 1
  BY InodesAssumption, FS_Subset, FS_CardinalityType

LEMMA RecordKeeps ==
    ASSUME shared \in BOOLEAN, raced \in BOOLEAN, OneAtATime, Record
    PROVE  /\ OneAtATime' /\ shared' \in BOOLEAN /\ raced' \in BOOLEAN
           /\ shared => shared'
           /\ raced => raced'
  <1> DEFINE C == {u \in Uploads : up'[u].pc \in Compiling}
             V == {u \in Uploads : up'[u].pc \in Versioned}
  <1>1. C \subseteq V /\ V \subseteq Uploads /\ C \subseteq Uploads
    BY DEF Versioned
  <1>2. shared' = (shared \/ Cardinality(C) > 1) /\ raced' = (raced \/ Cardinality(V) > 1)
    BY DEF Record
  <1>3. ASSUME NEW u \in Uploads, NEW v \in Uploads, ~shared', u \in C, v \in C PROVE u = v
    BY <1>1, <1>2, <1>3, NoTwo
  <1>4. ASSUME NEW u \in Uploads, NEW v \in Uploads, ~raced', u \in V, v \in V PROVE u = v
    BY <1>1, <1>2, <1>4, NoTwo
  <1>5. Cardinality(C) > 1 => Cardinality(V) > 1
    BY <1>1, MoreAreMore
  <1>6. shared' => raced'
    BY <1>2, <1>5 DEF OneAtATime
  <1> QED
    BY <1>2, <1>3, <1>4, <1>6 DEF OneAtATime

\* Whoever compiles alone is the only one with a database open.
LEMMA AloneWithFile ==
    ASSUME StoreTypeOK, Held, OneAtATime, ~shared, NEW u \in Uploads, up[u].pc \in Compiling
    PROVE  \A v \in Uploads : v # u => up[v].ino = NoFile
  BY DEF Held, OneAtATime, Compiling

LEMMA HeldFrame ==
    ASSUME Held, NEW u \in Uploads, SameBut(u),
           up'[u].pc # "idle" => up'[u].doc \in Docs,
           up'[u].pc \in Versioned \cup {"return"} => up'[u].ver \in 1 .. MaxVersion,
           up'[u].ino # NoFile <=> up'[u].pc \in {"compile", "close"}
    PROVE  Held'
  BY DEF Held, SameBut

\* policy.db.tmp is left alone, and u does not work on it after the step.
LEMMA CompileFrame ==
    ASSUME CompileSound, shared => shared', NEW u \in Uploads, SameBut(u),
           UNCHANGED <<tmp, db, file>>, up'[u].pc \notin {"compile", "close", "verify", "replace"}
    PROVE  CompileSound'
  BY DEF CompileSound, AtomicSwap, SameBut

\* Versions are left alone.
LEMMA VersionFrame ==
    ASSUME VersionSound, raced => raced', NEW u \in Uploads, SameBut(u), UNCHANGED <<meta, acks>>,
           up'[u].pc \notin {"meta", "return"},
           up'[u].pc \in Versioned => /\ up[u].pc \in Versioned \ {"meta"}
                                     /\ up'[u].ver = up[u].ver
    PROVE  VersionSound'
  <1> SUFFICES ASSUME ~raced' PROVE VersionSound'
    BY DEF VersionSound
  <1>1. ~raced
    OBVIOUS
  <1>2. VersionsDistinct'
    BY <1>1 DEF VersionSound, VersionsDistinct
  <1>3. \A v \in Uploads : up'[v].pc \in {"meta", "return"} =>
            v # u /\ up[v].pc = up'[v].pc /\ up'[v].ver = up[v].ver
    BY DEF SameBut
  <1>4. \A v \in Uploads : up'[v].pc \in Versioned \ {"meta"} =>
            up[v].pc \in Versioned \ {"meta"} /\ up'[v].ver = up[v].ver
    BY DEF SameBut
  <1> QED
    BY <1>1, <1>2, <1>3, <1>4 DEF VersionSound

\* policy.db, policy.meta.json and what is known of the last swap are left alone.
LEMMA MetaFrame ==
    ASSUME StoreTypeOK, Held, MetaSound, raced => raced', NEW u \in Uploads, SameBut(u),
           UNCHANGED <<meta, swapped, db>>,
           ~raced /\ db # NoFile => file'[db].main = file[db].main,
           up'[u].pc \in {"truncate", "meta"} => /\ up[u].pc \in {"truncate", "meta"}
                                                /\ up'[u].ver = up[u].ver /\ up'[u].doc = up[u].doc
    PROVE  MetaSound'
  <1> SUFFICES ASSUME ~raced' PROVE MetaSound'
    BY DEF MetaSound
  <1>1. ~raced
    OBVIOUS
  <1>2. meta.state = "ok" => meta.ver # 0
    BY MetaShape
  <1>3. \A v \in Uploads : up'[v].pc \in {"truncate", "meta"} =>
            /\ up[v].pc \in {"truncate", "meta"}
            /\ up'[v].ver = up[v].ver /\ up'[v].doc = up[v].doc
    BY DEF SameBut
  <1>4. \A v \in Uploads : up[v].pc \in {"truncate", "meta"} => up[v].ver # 0
    BY DEF Held, Versioned
  <1> QED
    BY <1>1, <1>2, <1>3, <1>4 DEF MetaSound

LEMMA IdleShape ==
    /\ Idle \in Thread /\ Idle.pc = "idle" /\ Idle.ino = NoFile
    /\ "idle" \notin Versioned /\ "return" \notin Versioned /\ "version" \notin Versioned
    /\ {"truncate", "meta", "json"} \cup Compiling \subseteq Versioned
  BY StoreBoundsAssumption DEF Idle, Thread, PCs, Versioned, Compiling

LEMMA GotoEffect ==
    ASSUME StoreTypeOK, NEW u \in Uploads, NEW s \in PCs, Goto(u, s)
    PROVE  /\ up' \in [Uploads -> Thread] /\ SameBut(u)
           /\ up'[u].pc = s /\ up'[u].doc = up[u].doc
           /\ up'[u].ver = up[u].ver /\ up'[u].ino = up[u].ino
  <1>1. up \in [Uploads -> Thread]
    BY UpType
  <1>2. up' = [up EXCEPT ![u].pc = s]
    BY DEF Goto
  <1> QED
    BY <1>1, <1>2 DEF Thread, SameBut

LEMMA FailsEffect ==
    ASSUME StoreTypeOK, NEW u \in Uploads, Fails(u)
    PROVE  up' \in [Uploads -> Thread] /\ SameBut(u) /\ up'[u] = Idle
  <1>1. up \in [Uploads -> Thread]
    BY UpType
  <1>2. up' = [up EXCEPT ![u] = Idle]
    BY DEF Fails
  <1> QED
    BY <1>1, <1>2, IdleShape DEF SameBut

\* An upload goes on, or fails, and leaves the files, versions and policy.meta.json alone.
LEMMA QuietStep ==
    ASSUME StoreTypeOK, StoreInv, Record, NEW u \in Uploads, SameBut(u), up' \in [Uploads -> Thread],
           json' \in Docs \cup {NoDoc}, UNCHANGED <<tmp, db, file, meta, acks, swapped>>,
           up'[u].pc # "idle" => up'[u].doc \in Docs,
           up'[u].pc \notin {"compile", "close", "verify", "replace", "truncate", "meta", "return"},
           up'[u].ino = NoFile,
           up'[u].pc \in Versioned => /\ up[u].pc \in Versioned \ {"meta"}
                                     /\ up'[u].ver = up[u].ver
    PROVE  StoreTypeOK' /\ StoreInv'
  <1>1. /\ OneAtATime' /\ shared' \in BOOLEAN /\ raced' \in BOOLEAN
        /\ shared => shared'
        /\ raced => raced'
    BY RecordKeeps DEF StoreTypeOK, StoreInv
  <1>2. StoreTypeOK'
    BY <1>1 DEF StoreTypeOK, Thread, PCs
  <1>3. up'[u].pc \in Versioned \cup {"return"} => up'[u].ver \in 1 .. MaxVersion
    BY DEF StoreInv, Held
  <1>4. Held'
    BY <1>3, HeldFrame DEF StoreInv
  <1>5. FilesApart'
    BY DEF FilesApart, StoreInv
  <1>6. CompileSound'
    BY <1>1, CompileFrame DEF StoreInv
  <1>7. VersionSound'
    BY <1>1, VersionFrame DEF StoreInv
  <1>8. MetaSound'
    BY <1>1, MetaFrame DEF StoreInv
  <1> QED
    BY <1>1, <1>2, <1>4, <1>5, <1>6, <1>7, <1>8 DEF StoreInv

\* What an upload that fails leaves behind is in order, whatever it had done.
LEMMA FailsStep ==
    ASSUME StoreTypeOK, StoreInv, Record, NEW u \in Uploads, Fails(u),
           UNCHANGED <<json, tmp, db, file, meta, acks, swapped>>
    PROVE  StoreTypeOK' /\ StoreInv'
  <1>1. json' \in Docs \cup {NoDoc}
    BY DEF StoreTypeOK
  <1> QED
    BY <1>1, FailsEffect, IdleShape, QuietStep

LEMMA upload_policyStep ==
    ASSUME StoreTypeOK, StoreInv, Record, NEW u \in Uploads, NEW d \in Docs, upload_policy(u, d)
    PROVE  StoreTypeOK' /\ StoreInv'
  <1>1. PICK r : r = [Idle EXCEPT !.pc = "version", !.doc = d]
    OBVIOUS
  <1>2. r \in Thread /\ r.pc = "version" /\ r.doc = d /\ r.ino = NoFile
    BY <1>1, IdleShape DEF Thread, PCs
  <1>3. up' = [up EXCEPT ![u] = r] /\ UNCHANGED <<json, tmp, db, file, meta, acks, swapped>>
    BY <1>1 DEF upload_policy
  <1>4. up' \in [Uploads -> Thread] /\ SameBut(u) /\ up'[u] = r
    BY <1>2, <1>3, UpType DEF SameBut
  <1>5. json' \in Docs \cup {NoDoc}
    BY <1>3 DEF StoreTypeOK
  <1> QED
    BY <1>2, <1>3, <1>4, <1>5, IdleShape, QuietStep

LEMMA next_versionStep ==
    ASSUME StoreTypeOK, StoreInv, Record, NEW u \in Uploads, next_version(u)
    PROVE  StoreTypeOK' /\ StoreInv'
  <1>1. /\ up[u].pc = "version" /\ meta.ver < MaxVersion
        /\ UNCHANGED <<json, tmp, db, file, meta, acks, swapped>>
    BY DEF next_version, At
  <1>2. CASE meta.state = "torn"
    BY <1>1, <1>2, FailsStep DEF next_version
  <1>3. CASE meta.state # "torn"
    <2>1. up' = [up EXCEPT ![u].pc = "json", ![u].ver = meta.ver + 1]
      BY <1>3 DEF next_version
    <2>2. meta.ver \in 0 .. MaxVersion /\ meta.ver + 1 \in 1 .. MaxVersion
      BY <1>1, MetaShape, StoreBoundsAssumption
    <2>3. PICK n \in 0 .. MaxVersion : n = meta.ver + 1
      BY <2>2, StoreBoundsAssumption
    <2>4. /\ up' \in [Uploads -> Thread] /\ SameBut(u)
          /\ up'[u].pc = "json" /\ up'[u].ver = meta.ver + 1
          /\ up'[u].doc = up[u].doc /\ up'[u].ino = up[u].ino
      <3>1. up \in [Uploads -> Thread] /\ "json" \in PCs
        BY UpType DEF PCs, Versioned
      <3>2. up' = [up EXCEPT ![u].pc = "json", ![u].ver = n]
        BY <2>1, <2>3
      <3>3. up'[u] = [up[u] EXCEPT !.pc = "json", !.ver = n]
        BY <3>1, <3>2
      <3>4. up[u] \in Thread
        BY <3>1
      <3>5. up'[u] \in Thread
        BY <3>1, <3>3, <3>4 DEF Thread
      <3>6. /\ up'[u].pc = "json" /\ up'[u].ver = n
            /\ up'[u].doc = up[u].doc /\ up'[u].ino = up[u].ino
        BY <3>3, <3>4 DEF Thread
      <3>7. up' \in [Uploads -> Thread] /\ SameBut(u)
        BY <3>1, <3>2, <3>5 DEF SameBut
      <3> QED
        BY <2>3, <3>6, <3>7
    <2>5. /\ OneAtATime' /\ shared' \in BOOLEAN /\ raced' \in BOOLEAN
          /\ shared => shared'
          /\ raced => raced'
      BY RecordKeeps DEF StoreTypeOK, StoreInv
    <2>6. StoreTypeOK'
      BY <1>1, <2>4, <2>5 DEF StoreTypeOK, Thread, PCs
    <2>7. up[u].doc \in Docs /\ up[u].ino = NoFile
      BY <1>1 DEF StoreInv, Held
    <2>8. Held'
      BY <2>2, <2>4, <2>7, HeldFrame DEF StoreInv
    <2>9. FilesApart'
      BY <1>1 DEF FilesApart, StoreInv
    <2>10. CompileSound'
      BY <1>1, <2>4, <2>5, CompileFrame DEF StoreInv
    <2>11. VersionSound'
      <3> SUFFICES ASSUME ~raced' PROVE VersionSound'
        BY DEF VersionSound
      <3>1. ~raced
        BY <2>5
      <3>2. VersionsDistinct'
        BY <1>1, <3>1 DEF StoreInv, VersionSound, VersionsDistinct
      <3>3. \A v \in Uploads : up'[v].pc \in {"meta", "return"} =>
                up[v].pc = up'[v].pc /\ up'[v].ver = up[v].ver
        BY <2>4 DEF SameBut
      <3>4. \A v \in Uploads : up'[v].pc \in Versioned \ {"meta"} =>
                up'[v].ver = meta.ver + 1
        BY <2>4, <3>1 DEF SameBut, StoreInv, VersionSound
      <3> QED
        BY <1>1, <1>3, <3>1, <3>2, <3>3, <3>4 DEF StoreInv, VersionSound
    <2>12. MetaSound'
      BY <1>1, <2>4, <2>5, MetaFrame DEF StoreInv
    <2> QED
      BY <2>5, <2>6, <2>8, <2>9, <2>10, <2>11, <2>12 DEF StoreInv
  <1> QED
    BY <1>2, <1>3

LEMMA WriteJsonStep ==
    ASSUME StoreTypeOK, StoreInv, Record, NEW u \in Uploads, WriteJson(u)
    PROVE  StoreTypeOK' /\ StoreInv'
  <1>1. up[u].pc = "json" /\ UNCHANGED <<tmp, db, file, meta, acks, swapped>>
    BY DEF WriteJson, At
  <1>2. CASE json' = up[u].doc /\ Goto(u, "check")
    <2>1. up[u].doc \in Docs /\ up[u].ino = NoFile /\ "json" \in Versioned /\ "check" \in PCs
      BY <1>1 DEF StoreInv, Held, Versioned, Compiling, PCs
    <2> QED
      BY <1>1, <1>2, <2>1, GotoEffect, QuietStep
  <1>3. CASE json' = NoDoc /\ Fails(u)
    BY <1>1, <1>3, FailsEffect, IdleShape, QuietStep
  <1> QED
    BY <1>2, <1>3 DEF WriteJson

LEMMA CheckTmpStep ==
    ASSUME StoreTypeOK, StoreInv, Record, NEW u \in Uploads, CheckTmp(u)
    PROVE  StoreTypeOK' /\ StoreInv'
  <1>1. PICK s \in {"unlink", "connect"} : Goto(u, s)
    BY DEF CheckTmp
  <1>2. up[u].pc = "check" /\ UNCHANGED <<json, tmp, db, file, meta, acks, swapped>>
    BY DEF CheckTmp, At
  <1>3. /\ up[u].doc \in Docs /\ up[u].ino = NoFile /\ "check" \in Versioned /\ s \in PCs
        /\ json' \in Docs \cup {NoDoc}
    BY <1>2 DEF StoreInv, Held, Versioned, Compiling, PCs, StoreTypeOK
  <1> QED
    BY <1>1, <1>2, <1>3, GotoEffect, QuietStep

\* A step of the compile phase before the swap: what it has to leave of the files when no
\* other upload is in that phase.
LEMMA CompilePhase ==
    ASSUME StoreTypeOK, StoreInv, Record, NEW u \in Uploads, up[u].pc \in Compiling,
           SameBut(u), up' \in [Uploads -> Thread],
           UNCHANGED <<json, db, meta, acks, swapped>>,
           tmp' \in Inodes \cup {NoFile},
           file' \in [Inodes -> [main : Docs \cup {NoDoc}, log : Docs \cup {NoDoc}]],
           up'[u].pc \in Compiling \cup {"idle"},
           up'[u].pc \in Compiling => up'[u].doc = up[u].doc /\ up'[u].ver = up[u].ver,
           up'[u].ino # NoFile <=> up'[u].pc \in {"compile", "close"},
           FilesApart',
           ~shared =>
               /\ db # NoFile => file'[db] = file[db]
               /\ up'[u].pc \in {"compile", "close"} => up'[u].ino = tmp'
               /\ up'[u].pc = "close" => file'[tmp'].log = up[u].doc
               /\ up'[u].pc \in {"verify", "replace"} =>
                    tmp' # NoFile /\ file'[tmp'] = [main |-> up[u].doc, log |-> NoDoc]
    PROVE  StoreTypeOK' /\ StoreInv'
  <1>1. /\ OneAtATime' /\ shared' \in BOOLEAN /\ raced' \in BOOLEAN
        /\ shared => shared'
        /\ raced => raced'
    BY RecordKeeps DEF StoreTypeOK, StoreInv
  <1>2. StoreTypeOK'
    BY <1>1 DEF StoreTypeOK, Thread, PCs
  <1>3. /\ up[u].pc \in Versioned \ {"meta", "truncate", "json"} /\ up[u].pc \notin {"idle", "return"}
        /\ up[u].doc \in Docs /\ up[u].ver \in 1 .. MaxVersion
    BY DEF StoreInv, Held, Versioned, Compiling
  <1>4. Held'
    BY <1>3, HeldFrame, IdleShape DEF StoreInv, Compiling
  <1>5. CompileSound'
    <2> SUFFICES ASSUME ~shared' PROVE CompileSound'
      BY DEF CompileSound
    <2>1. ~shared /\ CompileSound /\ OneAtATime
      BY <1>1 DEF StoreInv
    <2>2. AtomicSwap'
      BY <2>1 DEF CompileSound, AtomicSwap
    <2>3. \A v \in Uploads : v # u => up'[v].pc \notin Compiling
      BY <2>1 DEF OneAtATime, SameBut
    <2>4. {"compile", "close", "verify", "replace"} \subseteq Compiling
      BY DEF Compiling
    <2> QED
      BY <2>1, <2>2, <2>3, <2>4 DEF CompileSound
  <1>6. up'[u].pc \notin {"meta", "return", "truncate"}
    BY DEF Compiling
  <1>7. VersionSound'
    BY <1>1, <1>3, <1>6, VersionFrame, IdleShape DEF StoreInv
  <1>8. MetaSound'
    <2>1. ~raced /\ db # NoFile => file'[db].main = file[db].main
      BY DEF StoreInv, OneAtATime
    <2> QED
      BY <1>1, <1>6, <2>1, MetaFrame DEF StoreInv
  <1> QED
    BY <1>1, <1>2, <1>4, <1>5, <1>7, <1>8 DEF StoreInv

LEMMA UnlinkTmpStep ==
    ASSUME StoreTypeOK, StoreInv, Record, NEW u \in Uploads, UnlinkTmp(u)
    PROVE  StoreTypeOK' /\ StoreInv'
  <1>1. /\ up[u].pc = "unlink" /\ tmp' = NoFile
        /\ UNCHANGED <<json, db, file, meta, acks, swapped>>
        /\ Fails(u) \/ Goto(u, "connect")
    BY DEF UnlinkTmp, At
  <1>2. "connect" \in PCs /\ "connect" \in Compiling /\ "unlink" \in Compiling /\ up[u].ino = NoFile
    BY <1>1 DEF PCs, Versioned, Compiling, StoreInv, Held
  <1>3. /\ up' \in [Uploads -> Thread] /\ SameBut(u) /\ up'[u].pc \in {"connect", "idle"}
        /\ up'[u].ino = NoFile
        /\ up'[u].pc = "connect" => up'[u].doc = up[u].doc /\ up'[u].ver = up[u].ver
    BY <1>1, <1>2, FailsEffect, GotoEffect, IdleShape
  <1>4. FilesApart'
    BY <1>1 DEF FilesApart
  <1>5. /\ file' \in [Inodes -> [main : Docs \cup {NoDoc}, log : Docs \cup {NoDoc}]]
        /\ tmp' \in Inodes \cup {NoFile}
    BY <1>1 DEF StoreTypeOK
  <1>6. up'[u].pc \in Compiling => up'[u].doc = up[u].doc /\ up'[u].ver = up[u].ver
    BY <1>3 DEF Compiling
  <1> QED
    BY <1>1, <1>2, <1>3, <1>4, <1>5, <1>6, CompilePhase

LEMMA ConnectStep ==
    ASSUME StoreTypeOK, StoreInv, Record, NEW u \in Uploads, Connect(u)
    PROVE  StoreTypeOK' /\ StoreInv'
  <1>1. up[u].pc = "connect" /\ UNCHANGED <<json, db, meta, acks, swapped>>
    BY DEF Connect, At
  <1>2. PICK i \in Inodes :
            /\ IF tmp = NoFile THEN FreshInode(i) ELSE i = tmp
            /\ file' = IF tmp = NoFile THEN [file EXCEPT ![i] = Empty] ELSE file
            /\ tmp' = i
            /\ up' = [up EXCEPT ![u].pc = "compile", ![u].ino = i]
    BY DEF Connect
  <1>3. i # db /\ i # NoFile
    BY <1>2, NoFileApart DEF FreshInode, InUse, StoreInv, FilesApart
  <1>4. FilesApart' /\ tmp' \in Inodes \cup {NoFile}
    BY <1>1, <1>2, <1>3 DEF FilesApart
  <1>5. /\ file' \in [Inodes -> [main : Docs \cup {NoDoc}, log : Docs \cup {NoDoc}]]
        /\ file'[db] = file[db] \/ db = NoFile
    <2>1. file \in [Inodes -> [main : Docs \cup {NoDoc}, log : Docs \cup {NoDoc}]]
      BY DEF StoreTypeOK
    <2>2. Empty \in [main : Docs \cup {NoDoc}, log : Docs \cup {NoDoc}]
      BY DEF Empty
    <2>3. db \in Inodes \cup {NoFile}
      BY DEF StoreTypeOK
    <2> QED
      BY <1>2, <1>3, <2>1, <2>2, <2>3
  <1>6. /\ up' \in [Uploads -> Thread] /\ SameBut(u)
        /\ up'[u].pc = "compile" /\ up'[u].ino = i
        /\ up'[u].doc = up[u].doc /\ up'[u].ver = up[u].ver
    <2>1. up \in [Uploads -> Thread] /\ "compile" \in PCs
      BY UpType DEF PCs, Versioned, Compiling
    <2> QED
      BY <1>2, <2>1 DEF Thread, SameBut
  <1>7. up[u].pc \in Compiling /\ up'[u].pc \in Compiling
    BY <1>1, <1>6 DEF Compiling
  <1> QED
    BY <1>1, <1>2, <1>3, <1>4, <1>5, <1>6, <1>7, CompilePhase

Database == [main : Docs \cup {NoDoc}, log : Docs \cup {NoDoc}]

\* Closing a connection touches one file; the last to close copies the log.
LEMMA ClosedShape ==
    ASSUME StoreTypeOK, NEW i \in Inodes, NEW others
    PROVE  /\ Closed(i, others) \in [Inodes -> Database]
           /\ \A j \in Inodes : j # i => Closed(i, others)[j] = file[j]
           /\ tmp = i /\ (\A v \in others : up[v].ino # i) =>
                Closed(i, others)[i] = [main |-> Content(i), log |-> NoDoc]
  <1>1. file \in [Inodes -> Database]
    BY DEF StoreTypeOK, Database
  <1>2. file[i] \in Database
    BY <1>1
  <1>3. Content(i) \in Docs \cup {NoDoc}
    BY <1>2 DEF Content, Database
  <1>4. [main |-> Content(i), log |-> NoDoc] \in Database
    BY <1>3 DEF Database
  <1>5. CASE tmp = i /\ (\A v \in others : up[v].ino # i)
    <2>1. Closed(i, others) = [file EXCEPT ![i] = [main |-> Content(i), log |-> NoDoc]]
      BY <1>5 DEF Closed
    <2> QED
      BY <1>1, <1>4, <2>1
  <1>6. CASE ~(tmp = i /\ (\A v \in others : up[v].ino # i))
    <2>1. Closed(i, others) = file
      BY <1>6 DEF Closed
    <2> QED
      BY <1>1, <1>6, <2>1
  <1> QED
    BY <1>5, <1>6

LEMMA compileStep ==
    ASSUME StoreTypeOK, StoreInv, Record, NEW u \in Uploads, compile_policy_to_sqlite(u)
    PROVE  StoreTypeOK' /\ StoreInv'
  <1>1. up[u].pc = "compile" /\ UNCHANGED <<json, tmp, db, meta, acks, swapped>>
    BY DEF compile_policy_to_sqlite, At
  <1>2. PICK i : i = up[u].ino
    OBVIOUS
  <1>3. i \in Inodes /\ up[u].doc \in Docs /\ up[u].pc \in Compiling
    <2>1. i \in Inodes \cup {NoFile}
      BY <1>2, UpType DEF Thread
    <2> QED
      BY <1>1, <1>2, <2>1 DEF StoreInv, Held, Compiling
  <1>4. ~shared => i = tmp /\ i # db
    BY <1>1, <1>2, <1>3, NoFileApart DEF StoreInv, CompileSound, FilesApart
  <1>5. /\ FilesApart' /\ tmp' \in Inodes \cup {NoFile}
        /\ db \in Inodes \cup {NoFile} /\ file \in [Inodes -> Database]
    BY <1>1 DEF FilesApart, StoreInv, StoreTypeOK, Database
  <1>6. CASE file' = [file EXCEPT ![up[u].ino].log = up[u].doc] /\ Goto(u, "close")
    <2>1. file' = [file EXCEPT ![i].log = up[u].doc]
      BY <1>2, <1>6
    <2>2. /\ file' \in [Inodes -> Database]
          /\ file'[i].log = up[u].doc
          /\ \A j \in Inodes : j # i => file'[j] = file[j]
      BY <1>3, <1>5, <2>1 DEF Database
    <2>3. "close" \in PCs /\ "close" \in Compiling
      BY DEF PCs, Versioned, Compiling
    <2>4. /\ up' \in [Uploads -> Thread] /\ SameBut(u)
          /\ up'[u].pc = "close" /\ up'[u].doc = up[u].doc
          /\ up'[u].ver = up[u].ver /\ up'[u].ino = i
      BY <1>2, <1>6, <2>3, GotoEffect
    <2> QED
      BY <1>1, <1>3, <1>4, <1>5, <2>2, <2>3, <2>4, NoFileApart, CompilePhase DEF Database
  <1>7. CASE file' = Closed(up[u].ino, Uploads \ {u}) /\ Fails(u)
    <2>1. /\ file' \in [Inodes -> Database]
          /\ \A j \in Inodes : j # i => file'[j] = file[j]
      <3>1. PICK o : o = Uploads \ {u}
        OBVIOUS
      <3>2. file' = Closed(i, o)
        BY <1>2, <1>7, <3>1
      <3> QED
        BY <1>3, <3>2, ClosedShape
    <2>2. up' \in [Uploads -> Thread] /\ SameBut(u) /\ up'[u] = Idle
      BY <1>7, FailsEffect
    <2>3. "idle" \notin Compiling
      BY DEF Compiling
    <2> QED
      BY <1>1, <1>3, <1>4, <1>5, <2>1, <2>2, <2>3, IdleShape, CompilePhase DEF Database
  <1> QED
    BY <1>6, <1>7 DEF compile_policy_to_sqlite

LEMMA CloseStep ==
    ASSUME StoreTypeOK, StoreInv, Record, NEW u \in Uploads, Close(u)
    PROVE  StoreTypeOK' /\ StoreInv'
  <1>1. /\ up[u].pc = "close" /\ UNCHANGED <<json, tmp, db, meta, acks, swapped>>
        /\ up' = [up EXCEPT ![u].pc = "verify", ![u].ino = NoFile]
    BY DEF Close, At
  <1>2. PICK i : i = up[u].ino
    OBVIOUS
  <1>3. i \in Inodes /\ up[u].doc \in Docs /\ up[u].pc \in Compiling
    <2>1. i \in Inodes \cup {NoFile}
      BY <1>2, UpType DEF Thread
    <2> QED
      BY <1>1, <1>2, <2>1 DEF StoreInv, Held, Compiling
  <1>4. file' = Closed(i, Uploads \ {u})
    BY <1>2 DEF Close
  <1>5. ~shared => i = tmp /\ i # db /\ file[i].log = up[u].doc
    BY <1>1, <1>2, <1>3, NoFileApart DEF StoreInv, CompileSound, FilesApart
  <1>6. /\ FilesApart' /\ tmp' \in Inodes \cup {NoFile} /\ db \in Inodes \cup {NoFile}
    BY <1>1 DEF FilesApart, StoreInv, StoreTypeOK
  <1>7. /\ file' \in [Inodes -> Database]
        /\ \A j \in Inodes : j # i => file'[j] = file[j]
    <2>1. PICK o : o = Uploads \ {u}
      OBVIOUS
    <2>2. file' = Closed(i, o)
      BY <1>4, <2>1
    <2> QED
      BY <1>3, <2>2, ClosedShape
  <1>8. ~shared => file'[i] = [main |-> up[u].doc, log |-> NoDoc]
    <2> SUFFICES ASSUME ~shared PROVE file'[i] = [main |-> up[u].doc, log |-> NoDoc]
      OBVIOUS
    <2>1. \A v \in Uploads \ {u} : up[v].ino # i
      BY <1>3, AloneWithFile, NoFileApart DEF StoreInv
    <2>2. Content(i) = up[u].doc
      BY <1>3, <1>5, NoDocAssumption DEF Content
    <2> QED
      BY <1>3, <1>4, <1>5, <2>1, <2>2, ClosedShape
  <1>9. /\ up' \in [Uploads -> Thread] /\ SameBut(u)
        /\ up'[u].pc = "verify" /\ up'[u].doc = up[u].doc
        /\ up'[u].ver = up[u].ver /\ up'[u].ino = NoFile
    <2>1. up \in [Uploads -> Thread] /\ "verify" \in PCs
      BY UpType DEF PCs, Versioned, Compiling
    <2> QED
      BY <1>1, <2>1 DEF Thread, SameBut
  <1>10. "verify" \in Compiling
    BY DEF Compiling
  <1> QED
    BY <1>1, <1>3, <1>5, <1>6, <1>7, <1>8, <1>9, <1>10, NoFileApart, CompilePhase DEF Database

LEMMA verifyStep ==
    ASSUME StoreTypeOK, StoreInv, Record, NEW u \in Uploads, verify_sqlite_schema(u)
    PROVE  StoreTypeOK' /\ StoreInv'
  <1>1. up[u].pc = "verify" /\ UNCHANGED <<json, db, meta, acks, swapped>>
    BY DEF verify_sqlite_schema, At
  <1>2. /\ up[u].pc \in Compiling /\ up[u].ino = NoFile /\ up[u].doc \in Docs
        /\ db \in Inodes \cup {NoFile} /\ file \in [Inodes -> Database]
        /\ tmp \in Inodes \cup {NoFile}
    BY <1>1 DEF Compiling, StoreInv, Held, StoreTypeOK, Database
  <1>3. "idle" \notin Compiling /\ "replace" \in Compiling /\ "replace" \in PCs
    BY DEF Compiling, PCs, Versioned
  <1>4. CASE tmp = NoFile
    <2>1. PICK i \in Inodes : FreshInode(i) /\ tmp' = i /\ file' = [file EXCEPT ![i] = Empty]
      BY <1>4 DEF verify_sqlite_schema
    <2>2. Fails(u)
      BY <1>4 DEF verify_sqlite_schema
    <2>3. up' \in [Uploads -> Thread] /\ SameBut(u) /\ up'[u] = Idle
      BY <2>2, FailsEffect
    <2>4. i # db
      BY <2>1 DEF FreshInode, InUse
    <2>5. /\ file' \in [Inodes -> Database]
          /\ \A j \in Inodes : j # i => file'[j] = file[j]
      BY <1>2, <2>1 DEF Database, Empty
    <2>6. FilesApart'
      BY <1>1, <2>1, <2>4 DEF FilesApart
    <2> QED
      BY <1>1, <1>2, <1>3, <2>1, <2>3, <2>4, <2>5, <2>6, IdleShape, CompilePhase DEF Database
  <1>5. CASE tmp # NoFile
    <2>0. PICK i \in Inodes : i = tmp
      BY <1>2, <1>5
    <2>1. /\ IF Content(i) = NoDoc THEN Fails(u) ELSE Goto(u, "replace")
          /\ file' = Closed(i, Uploads) /\ tmp' = i
      BY <1>5, <2>0 DEF verify_sqlite_schema
    <2>2. /\ file' \in [Inodes -> Database]
          /\ \A j \in Inodes : j # i => file'[j] = file[j]
      BY <2>1, ClosedShape
    <2>3. FilesApart' /\ i # db
      BY <1>1, <1>5, <2>0, <2>1 DEF FilesApart, StoreInv
    <2>4. ~shared => file'[i] = [main |-> up[u].doc, log |-> NoDoc]
      <3> SUFFICES ASSUME ~shared PROVE file'[i] = [main |-> up[u].doc, log |-> NoDoc]
        OBVIOUS
      <3>1. \A v \in Uploads : up[v].ino # i
        BY <1>2, AloneWithFile, NoFileApart DEF StoreInv
      <3>2. file[i] = [main |-> up[u].doc, log |-> NoDoc]
        BY <1>1, <2>0 DEF StoreInv, CompileSound
      <3>3. Content(i) = up[u].doc
        BY <3>2 DEF Content
      <3> QED
        BY <2>0, <2>1, <3>1, <3>3, ClosedShape
    <2>5. /\ up' \in [Uploads -> Thread] /\ SameBut(u) /\ up'[u].pc \in {"idle", "replace"}
          /\ up'[u].ino = NoFile
          /\ up'[u].pc = "replace" => up'[u].doc = up[u].doc /\ up'[u].ver = up[u].ver
      <3>1. CASE Fails(u)
        BY <3>1, FailsEffect, IdleShape
      <3>2. CASE Goto(u, "replace")
        BY <1>2, <1>3, <3>2, GotoEffect
      <3> QED
        BY <2>1, <3>1, <3>2
    <2> QED
      BY <1>1, <1>2, <1>3, <2>1, <2>2, <2>3, <2>4, <2>5, NoFileApart, CompilePhase DEF Database
  <1> QED
    BY <1>4, <1>5

LEMMA ReplaceStep ==
    ASSUME StoreTypeOK, StoreInv, Record, NEW u \in Uploads, Replace(u)
    PROVE  StoreTypeOK' /\ StoreInv'
  <1>1. /\ up[u].pc = "replace" /\ tmp' = NoFile
        /\ UNCHANGED <<json, file, meta, acks>>
    BY DEF Replace, At
  <1>2. CASE tmp = NoFile
    <2>1. Fails(u) /\ UNCHANGED <<db, swapped, tmp>>
      BY <1>1, <1>2 DEF Replace
    <2> QED
      BY <1>1, <2>1, FailsStep
  <1>3. CASE tmp # NoFile
    <2>1. Goto(u, "truncate") /\ db' = tmp /\ swapped' = up[u].ver
      BY <1>3 DEF Replace
    <2>2. /\ up' \in [Uploads -> Thread] /\ SameBut(u)
          /\ up'[u].pc = "truncate" /\ up'[u].doc = up[u].doc
          /\ up'[u].ver = up[u].ver /\ up'[u].ino = up[u].ino
      BY <2>1, GotoEffect DEF PCs, Versioned
    <2>3. /\ OneAtATime' /\ shared' \in BOOLEAN /\ raced' \in BOOLEAN
          /\ shared => shared'
          /\ raced => raced'
      BY RecordKeeps DEF StoreTypeOK, StoreInv
    <2>4. /\ up[u].doc \in Docs /\ up[u].ino = NoFile /\ up[u].ver \in 1 .. MaxVersion
          /\ "replace" \in Versioned \ {"meta"} /\ "replace" \in Compiling
          /\ tmp \in Inodes
      <3>1. "replace" \in Versioned \ {"meta"} /\ "replace" \in Compiling
        BY DEF Versioned, Compiling
      <3>2. up[u].doc \in Docs /\ up[u].ino = NoFile /\ up[u].ver \in 1 .. MaxVersion
        BY <1>1, <3>1 DEF StoreInv, Held
      <3> QED
        BY <1>3, <3>1, <3>2 DEF StoreTypeOK
    <2>5. StoreTypeOK'
      BY <1>1, <2>1, <2>2, <2>3, <2>4, StoreBoundsAssumption DEF StoreTypeOK, Thread, PCs
    <2>6. Held'
      BY <2>2, <2>4, HeldFrame DEF StoreInv
    <2>7. FilesApart'
      BY <1>1 DEF FilesApart
    <2>8. CompileSound'
      <3> SUFFICES ASSUME ~shared' PROVE CompileSound'
        BY DEF CompileSound
      <3>1. ~shared /\ CompileSound /\ OneAtATime
        BY <2>3 DEF StoreInv
      <3>2. file[tmp].main = up[u].doc
        <4>1. file[tmp] = [main |-> up[u].doc, log |-> NoDoc]
          BY <1>1, <3>1 DEF CompileSound
        <4> QED
          BY <4>1
      <3>3. AtomicSwap'
        BY <1>1, <2>1, <2>4, <3>2, NoDocAssumption DEF AtomicSwap
      <3>4. \A v \in Uploads : up'[v].pc \notin {"compile", "close", "verify", "replace"}
        BY <1>1, <2>2, <2>4, <3>1 DEF OneAtATime, SameBut, Compiling
      <3> QED
        BY <3>3, <3>4 DEF CompileSound
    <2>9. VersionSound'
      BY <1>1, <2>2, <2>3, <2>4, VersionFrame DEF StoreInv
    <2>10. MetaSound'
      <3> SUFFICES ASSUME ~raced' PROVE MetaSound'
        BY DEF MetaSound
      <3>1. ~raced /\ ~shared /\ VersionSound /\ CompileSound /\ OneAtATime
        BY <2>3 DEF StoreInv, OneAtATime
      <3>2. file[tmp].main = up[u].doc
        <4>1. file[tmp] = [main |-> up[u].doc, log |-> NoDoc]
          BY <1>1, <3>1 DEF CompileSound
        <4> QED
          BY <4>1
      <3>3. up[u].ver = meta.ver + 1 /\ meta.ver \in 0 .. MaxVersion
        BY <1>1, <2>4, <3>1, MetaShape DEF VersionSound
      <3>4. meta.ver < up[u].ver /\ meta.ver \in Nat /\ up[u].ver \in Nat
        BY <3>3, StoreBoundsAssumption
      <3>5. \A v \in Uploads : up'[v].pc \in {"truncate", "meta"} => v = u
        BY <1>1, <2>2, <2>4, <3>1 DEF OneAtATime, SameBut, Versioned
      <3> QED
        BY <1>1, <1>3, <2>1, <2>2, <3>2, <3>4, <3>5 DEF MetaSound
    <2> QED
      BY <2>3, <2>5, <2>6, <2>7, <2>8, <2>9, <2>10 DEF StoreInv
  <1> QED
    BY <1>2, <1>3

LEMMA TruncateMetaStep ==
    ASSUME StoreTypeOK, StoreInv, Record, NEW u \in Uploads, TruncateMeta(u)
    PROVE  StoreTypeOK' /\ StoreInv'
  <1>1. /\ up[u].pc = "truncate" /\ meta' = TornMeta
        /\ up' = [up EXCEPT ![u].pc = "meta", ![u].mixed = FALSE]
        /\ UNCHANGED <<json, tmp, db, file, acks, swapped>>
    BY DEF TruncateMeta, At
  <1>2. /\ up' \in [Uploads -> Thread] /\ SameBut(u)
        /\ up'[u].pc = "meta" /\ up'[u].doc = up[u].doc
        /\ up'[u].ver = up[u].ver /\ up'[u].ino = up[u].ino
    <2>1. up \in [Uploads -> Thread] /\ "meta" \in PCs
      BY UpType DEF PCs, Versioned
    <2> QED
      BY <1>1, <2>1 DEF Thread, SameBut
  <1>3. /\ OneAtATime' /\ shared' \in BOOLEAN /\ raced' \in BOOLEAN
        /\ shared => shared'
        /\ raced => raced'
    BY RecordKeeps DEF StoreTypeOK, StoreInv
  <1>4. /\ "truncate" \in Versioned \ {"meta"} /\ "meta" \in Versioned
        /\ up[u].doc \in Docs /\ up[u].ino = NoFile /\ up[u].ver \in 1 .. MaxVersion
    <2>1. "truncate" \in Versioned \ {"meta"} /\ "meta" \in Versioned
      BY DEF Versioned
    <2> QED
      BY <1>1, <2>1 DEF StoreInv, Held
  <1>5. StoreTypeOK'
    BY <1>1, <1>2, <1>3 DEF StoreTypeOK, Thread, PCs
  <1>6. Held' /\ FilesApart'
    BY <1>1, <1>2, <1>4, HeldFrame DEF StoreInv, FilesApart
  <1>7. CompileSound'
    BY <1>1, <1>2, <1>3, CompileFrame DEF StoreInv
  <1>8. TornMeta.state = "torn"
    BY DEF TornMeta
  <1>9. VersionSound'
    <2> SUFFICES ASSUME ~raced' PROVE VersionSound'
      BY DEF VersionSound
    <2>1. ~raced /\ VersionSound /\ OneAtATime
      BY <1>3 DEF StoreInv
    <2>2. VersionsDistinct'
      BY <1>1, <2>1 DEF VersionSound, VersionsDistinct
    <2>3. /\ meta.state # "torn" /\ up[u].ver = meta.ver + 1 /\ meta.ver \in Nat
      BY <1>1, <1>4, <2>1, MetaShape, StoreBoundsAssumption DEF VersionSound
    <2>4. \A v \in Uploads : up'[v].pc \in Versioned => v = u
      BY <1>1, <1>2, <1>4, <2>1 DEF OneAtATime, SameBut
    <2>5. \A v \in Uploads : up'[v].pc = "return" =>
              up[v].pc = "return" /\ up'[v].ver = up[v].ver /\ v # u
      BY <1>2 DEF SameBut
    <2>6. /\ \A i \in 1 .. Len(acks) : acks[i] <= meta.ver
          /\ \A v \in Uploads : up[v].pc = "return" => up[v].ver <= meta.ver
      BY <2>1, <2>3 DEF VersionSound
    <2>7. /\ \A i \in 1 .. Len(acks) : acks[i] \in Nat
          /\ \A v \in Uploads : up[v].ver \in Nat
      BY UpType, StoreBoundsAssumption DEF Thread
    <2>8. /\ \A i \in 1 .. Len(acks) : acks[i] < up[u].ver
          /\ \A v \in Uploads : up[v].pc = "return" => up[v].ver < up[u].ver
      BY <2>3, <2>6, <2>7
    <2> QED
      BY <1>1, <1>2, <1>4, <1>8, <2>1, <2>2, <2>4, <2>5, <2>8 DEF VersionSound
  <1>10. MetaSound'
    <2> SUFFICES ASSUME ~raced' PROVE MetaSound'
      BY DEF MetaSound
    <2>1. ~raced /\ MetaSound
      BY <1>3 DEF StoreInv
    <2>2. \A v \in Uploads : up'[v].pc \in {"truncate", "meta"} =>
              /\ up[v].pc \in {"truncate", "meta"}
              /\ up'[v].ver = up[v].ver /\ up'[v].doc = up[v].doc
      BY <1>1, <1>2 DEF SameBut
    <2> QED
      BY <1>1, <1>8, <2>1, <2>2 DEF MetaSound
  <1> QED
    BY <1>3, <1>5, <1>6, <1>7, <1>9, <1>10 DEF StoreInv

LEMMA WriteMetaStep ==
    ASSUME StoreTypeOK, StoreInv, Record, NEW u \in Uploads, WriteMeta(u)
    PROVE  StoreTypeOK' /\ StoreInv'
  <1>1. /\ up[u].pc = "meta"
        /\ meta' = MetaOf(up[u].ver, up[u].doc) \/ meta' = TornMeta
        /\ UNCHANGED <<json, tmp, db, file, acks, swapped>>
    BY DEF WriteMeta, At
  <1>2. /\ up' \in [Uploads -> Thread] /\ SameBut(u)
        /\ up'[u].pc = "return" /\ up'[u].doc = up[u].doc
        /\ up'[u].ver = up[u].ver /\ up'[u].ino = up[u].ino
    <2>1. up \in [Uploads -> Thread] /\ "return" \in PCs
      BY UpType DEF PCs
    <2>2. up' = [v \in Uploads |-> IF v = u THEN [up[u] EXCEPT !.pc = "return"]
                                   ELSE IF At(v, "meta") THEN [up[v] EXCEPT !.mixed = TRUE]
                                   ELSE up[v]]
      BY DEF WriteMeta, Wrote
    <2>3. \A v \in Uploads : /\ up[v] \in Thread
                             /\ [up[v] EXCEPT !.mixed = TRUE] \in Thread
                             /\ [up[v] EXCEPT !.pc = "return"] \in Thread
      BY <2>1 DEF Thread
    <2>4. \A v \in Uploads : v # u => up'[v] = [up[v] EXCEPT !.mixed = TRUE] \/ up'[v] = up[v]
      BY <2>2
    <2>5. SameBut(u)
      BY <2>3, <2>4 DEF SameBut, Thread
    <2>6. up'[u] = [up[u] EXCEPT !.pc = "return"]
      BY <2>2
    <2>7. up' \in [Uploads -> Thread]
      BY <2>2, <2>3
    <2> QED
      BY <2>3, <2>5, <2>6, <2>7 DEF Thread
  <1>3. /\ OneAtATime' /\ shared' \in BOOLEAN /\ raced' \in BOOLEAN
        /\ shared => shared'
        /\ raced => raced'
    BY RecordKeeps DEF StoreTypeOK, StoreInv
  <1>4. /\ "meta" \in Versioned /\ "return" \notin Versioned
        /\ up[u].doc \in Docs /\ up[u].ino = NoFile /\ up[u].ver \in 1 .. MaxVersion
    <2>1. "meta" \in Versioned /\ "return" \notin Versioned
      BY DEF Versioned, Compiling
    <2> QED
      BY <1>1, <2>1 DEF StoreInv, Held
  <1>5. StoreTypeOK'
    <2>1. meta' \in {NoMeta, TornMeta} \cup {MetaOf(v, d) : v \in 1 .. MaxVersion, d \in Docs}
      BY <1>1, <1>4
    <2> QED
      BY <1>1, <1>2, <1>3, <2>1 DEF StoreTypeOK, Thread, PCs
  <1>6. Held' /\ FilesApart'
    BY <1>1, <1>2, <1>4, HeldFrame DEF StoreInv, FilesApart
  <1>7. CompileSound'
    BY <1>1, <1>2, <1>3, CompileFrame DEF StoreInv
  <1>8. \/ meta'.state = "torn"
        \/ meta'.state = "ok" /\ meta'.ver = up[u].ver /\ meta'.doc = up[u].doc
    BY <1>1 DEF TornMeta, MetaOf
  <1>9. ~raced => \A v \in Uploads : up'[v].pc \notin Versioned
    BY <1>1, <1>2, <1>4 DEF StoreInv, OneAtATime, SameBut
  <1>10. VersionSound'
    <2> SUFFICES ASSUME ~raced' PROVE VersionSound'
      BY DEF VersionSound
    <2>1. ~raced /\ VersionSound
      BY <1>3 DEF StoreInv
    <2>2. VersionsDistinct'
      BY <1>1, <2>1 DEF VersionSound, VersionsDistinct
    <2>3. \A v \in Uploads : up'[v].pc = "return" =>
              v = u \/ (up[v].pc = "return" /\ up'[v].ver = up[v].ver /\ v # u)
      BY <1>2 DEF SameBut
    <2>4. /\ \A i \in 1 .. Len(acks) : acks[i] \in Nat
          /\ \A v \in Uploads : up[v].ver \in Nat
      BY UpType, StoreBoundsAssumption DEF Thread
    <2>5. /\ \A i \in 1 .. Len(acks) : acks[i] < up[u].ver
          /\ \A v \in Uploads : up[v].pc = "return" => up[v].ver < up[u].ver
      BY <1>1, <2>1 DEF VersionSound
    <2>6. /\ \A i \in 1 .. Len(acks) : acks[i] # up[u].ver /\ acks[i] <= up[u].ver
          /\ \A v \in Uploads : up[v].pc = "return" => up[v].ver # up[u].ver /\ up[v].ver <= up[u].ver
          /\ up[u].ver <= up[u].ver
      BY <2>4, <2>5
    <2>7. ASSUME NEW w \in Uploads, up'[w].pc = "return"
          PROVE  /\ \A i \in 1 .. Len(acks) : acks[i] # up'[w].ver
                 /\ \A v \in Uploads : up'[v].pc = "return" /\ up'[v].ver = up'[w].ver => w = v
                 /\ meta'.state # "torn" => up'[w].ver <= meta'.ver
      BY <1>2, <1>8, <2>1, <2>3, <2>6, <2>7 DEF VersionSound
    <2>8. meta'.state # "torn" => \A i \in 1 .. Len(acks) : acks[i] <= meta'.ver
      BY <1>8, <2>6
    <2>9. \A v \in Uploads : up'[v].pc # "meta" /\ up'[v].pc \notin Versioned
      BY <1>4, <1>9, <2>1
    <2> QED
      BY <1>1, <2>2, <2>7, <2>8, <2>9 DEF VersionSound
  <1>11. MetaSound'
    <2> SUFFICES ASSUME ~raced' PROVE MetaSound'
      BY DEF MetaSound
    <2>1. ~raced /\ MetaSound
      BY <1>3 DEF StoreInv
    <2>2. up[u].ver = swapped /\ file[db].main = up[u].doc
      BY <1>1, <2>1 DEF MetaSound
    <2>3. \A v \in Uploads : up'[v].pc \notin {"truncate", "meta"}
      BY <1>9, <2>1 DEF Versioned
    <2>4. swapped <= swapped
      BY StoreBoundsAssumption DEF StoreTypeOK
    <2> QED
      BY <1>1, <1>8, <2>1, <2>2, <2>3, <2>4 DEF MetaSound
  <1> QED
    BY <1>3, <1>5, <1>6, <1>7, <1>10, <1>11 DEF StoreInv

LEMMA WriteMetaFailsStep ==
    ASSUME StoreTypeOK, StoreInv, Record, NEW u \in Uploads, WriteMetaFails(u)
    PROVE  StoreTypeOK' /\ StoreInv'
  <1>1. /\ up[u].pc = "meta" /\ (meta' = TornMeta \/ meta' = meta)
        /\ UNCHANGED <<json, tmp, db, file, acks, swapped>>
    BY DEF WriteMetaFails, At
  <1>2. up' \in [Uploads -> Thread] /\ SameBut(u) /\ up'[u] = Idle
    <2>1. up \in [Uploads -> Thread]
      BY UpType
    <2>2. up' = [v \in Uploads |-> IF v = u THEN Idle
                                   ELSE IF At(v, "meta") THEN [up[v] EXCEPT !.mixed = TRUE]
                                   ELSE up[v]]
      BY DEF WriteMetaFails, Wrote
    <2>3. \A v \in Uploads : up[v] \in Thread /\ [up[v] EXCEPT !.mixed = TRUE] \in Thread
      BY <2>1 DEF Thread
    <2>4. \A v \in Uploads : v # u => up'[v] = [up[v] EXCEPT !.mixed = TRUE] \/ up'[v] = up[v]
      BY <2>2
    <2>5. SameBut(u)
      BY <2>3, <2>4 DEF SameBut, Thread
    <2>6. up' \in [Uploads -> Thread]
      BY <2>2, <2>3, IdleShape
    <2> QED
      BY <2>2, <2>5, <2>6
  <1>3. json' \in Docs \cup {NoDoc}
    BY <1>1 DEF StoreTypeOK
  <1>4. CASE meta' = meta
    BY <1>1, <1>2, <1>3, <1>4, IdleShape, QuietStep
  <1>5. CASE meta' = TornMeta
    <2>1. /\ OneAtATime' /\ shared' \in BOOLEAN /\ raced' \in BOOLEAN
          /\ shared => shared'
          /\ raced => raced'
      BY RecordKeeps DEF StoreTypeOK, StoreInv
    <2>2. StoreTypeOK'
      BY <1>1, <1>2, <1>5, <2>1 DEF StoreTypeOK, Thread, PCs
    <2>3. Held' /\ FilesApart'
      BY <1>1, <1>2, IdleShape, HeldFrame DEF StoreInv, FilesApart
    <2>4. CompileSound'
      BY <1>1, <1>2, <2>1, IdleShape, CompileFrame DEF StoreInv
    <2>5. TornMeta.state = "torn"
      BY DEF TornMeta
    <2>6. ~raced => \A v \in Uploads : up'[v].pc \notin Versioned
      BY <1>1, <1>2, IdleShape DEF StoreInv, OneAtATime, SameBut
    <2>7. VersionSound'
      <3> SUFFICES ASSUME ~raced' PROVE VersionSound'
        BY DEF VersionSound
      <3>1. ~raced /\ VersionSound
        BY <2>1 DEF StoreInv
      <3>2. VersionsDistinct'
        BY <1>1, <3>1 DEF VersionSound, VersionsDistinct
      <3>3. \A v \in Uploads : up'[v].pc = "return" =>
                v # u /\ up[v].pc = "return" /\ up'[v].ver = up[v].ver
        BY <1>2, IdleShape DEF SameBut
      <3> QED
        BY <1>1, <1>5, <2>5, <2>6, <3>1, <3>2, <3>3, IdleShape DEF VersionSound
    <2>8. MetaSound'
      <3> SUFFICES ASSUME ~raced' PROVE MetaSound'
        BY DEF MetaSound
      <3>1. ~raced /\ MetaSound
        BY <2>1 DEF StoreInv
      <3> QED
        BY <1>1, <1>5, <2>5, <2>6, <3>1, IdleShape DEF MetaSound
    <2> QED
      BY <2>1, <2>2, <2>3, <2>4, <2>7, <2>8 DEF StoreInv
  <1> QED
    BY <1>1, <1>4, <1>5

LEMMA ReturnStep ==
    ASSUME StoreTypeOK, StoreInv, Record, NEW u \in Uploads, Return(u)
    PROVE  StoreTypeOK' /\ StoreInv'
  <1>1. /\ up[u].pc = "return" /\ acks' = Append(acks, up[u].ver) /\ Fails(u)
        /\ UNCHANGED <<json, tmp, db, file, meta, swapped>>
    BY DEF Return, At, Fails
  <1>2. up' \in [Uploads -> Thread] /\ SameBut(u) /\ up'[u].pc = "idle" /\ up'[u].ino = NoFile
    BY <1>1, FailsEffect, IdleShape
  <1>3. /\ OneAtATime' /\ shared' \in BOOLEAN /\ raced' \in BOOLEAN
        /\ shared => shared'
        /\ raced => raced'
    BY RecordKeeps DEF StoreTypeOK, StoreInv
  <1>4. up[u].ver \in 1 .. MaxVersion
    BY <1>1 DEF StoreInv, Held
  <1>5. /\ acks' \in Seq(1 .. MaxVersion) /\ Len(acks) \in Nat /\ Len(acks') = Len(acks) + 1
        /\ \A i \in 1 .. Len(acks) : acks'[i] = acks[i]
        /\ acks'[Len(acks) + 1] = up[u].ver
    BY <1>1, <1>4 DEF StoreTypeOK
  <1>6. \A i \in 1 .. Len(acks') : \/ i \in 1 .. Len(acks) /\ acks'[i] = acks[i]
                                   \/ i = Len(acks) + 1 /\ acks'[i] = up[u].ver
    BY <1>5
  <1>7. StoreTypeOK'
    BY <1>1, <1>2, <1>3, <1>5 DEF StoreTypeOK, Thread, PCs
  <1>8. Held' /\ FilesApart'
    BY <1>1, <1>2, HeldFrame, IdleShape DEF StoreInv, FilesApart
  <1>9. CompileSound'
    BY <1>1, <1>2, <1>3, CompileFrame DEF StoreInv
  <1>10. MetaSound'
    BY <1>1, <1>2, <1>3, MetaFrame DEF StoreInv
  <1>11. VersionSound'
    <2> SUFFICES ASSUME ~raced' PROVE VersionSound'
      BY DEF VersionSound
    <2>1. ~raced /\ VersionSound
      BY <1>3 DEF StoreInv
    <2>2. \A i \in 1 .. Len(acks) : acks[i] # up[u].ver
      BY <1>1, <2>1 DEF VersionSound
    <2>3. VersionsDistinct'
      BY <1>6, <2>1, <2>2 DEF VersionSound, VersionsDistinct
    <2>4. \A v \in Uploads : up'[v].pc # "idle" => v # u /\ up'[v].pc = up[v].pc /\ up'[v].ver = up[v].ver
      BY <1>2 DEF SameBut
    <2>5. ASSUME NEW w \in Uploads, up'[w].pc = "return"
          PROVE  /\ \A i \in 1 .. Len(acks') : acks'[i] # up'[w].ver
                 /\ \A v \in Uploads : up'[v].pc = "return" /\ up'[v].ver = up'[w].ver => w = v
                 /\ meta'.state # "torn" => up'[w].ver <= meta'.ver
      <3>1. w # u /\ up[w].pc = "return" /\ up'[w].ver = up[w].ver
        BY <2>4, <2>5
      <3>2. up[w].ver # up[u].ver
        BY <1>1, <2>1, <3>1 DEF VersionSound
      <3> QED
        BY <1>1, <1>6, <2>1, <2>4, <3>1, <3>2 DEF VersionSound
    <2>6. meta'.state # "torn" => \A i \in 1 .. Len(acks') : acks'[i] <= meta'.ver
      BY <1>1, <1>6, <2>1 DEF VersionSound
    <2>7. \A v \in Uploads : up'[v].pc \in Versioned \ {"meta"} =>
             meta'.state # "torn" /\ up'[v].ver = meta'.ver + 1
      BY <1>1, <2>1, <2>4, IdleShape DEF VersionSound
    <2>8. \A w \in Uploads : up'[w].pc = "meta" =>
             /\ \A i \in 1 .. Len(acks') : acks'[i] < up'[w].ver
             /\ \A v \in Uploads : up'[v].pc = "return" => up'[v].ver < up'[w].ver
      BY <1>1, <1>6, <2>1, <2>4 DEF VersionSound
    <2> QED
      BY <2>3, <2>5, <2>6, <2>7, <2>8 DEF VersionSound
  <1> QED
    BY <1>3, <1>7, <1>8, <1>9, <1>10, <1>11 DEF StoreInv

LEMMA OSErrorStep ==
    ASSUME StoreTypeOK, StoreInv, Record, NEW u \in Uploads, OSError(u)
    PROVE  StoreTypeOK' /\ StoreInv'
  BY FailsStep DEF OSError

LEMMA CrashStep ==
    ASSUME StoreTypeOK, StoreInv, Record, Crash
    PROVE  StoreTypeOK' /\ StoreInv'
  <1>1. /\ up' = [u \in Uploads |-> Idle]
        /\ UNCHANGED <<json, tmp, db, file, meta, acks, swapped>>
    BY DEF Crash
  <1>2. /\ OneAtATime' /\ shared' \in BOOLEAN /\ raced' \in BOOLEAN
        /\ shared => shared'
        /\ raced => raced'
    BY RecordKeeps DEF StoreTypeOK, StoreInv
  <1>3. up' \in [Uploads -> Thread] /\ \A u \in Uploads : up'[u].pc = "idle" /\ up'[u].ino = NoFile
    BY <1>1, IdleShape
  <1>4. StoreTypeOK'
    BY <1>1, <1>2, <1>3 DEF StoreTypeOK, Thread, PCs
  <1>5. Held' /\ FilesApart'
    BY <1>1, <1>3, IdleShape DEF Held, FilesApart, StoreInv
  <1>6. CompileSound'
    BY <1>1, <1>2, <1>3 DEF CompileSound, AtomicSwap, StoreInv
  <1>7. VersionSound'
    BY <1>1, <1>2, <1>3, IdleShape DEF VersionSound, VersionsDistinct, StoreInv
  <1>8. MetaSound'
    BY <1>1, <1>2, <1>3 DEF MetaSound, StoreInv
  <1> QED
    BY <1>2, <1>4, <1>5, <1>6, <1>7, <1>8 DEF StoreInv

LEMMA StoreStutter ==
    ASSUME StoreTypeOK, StoreInv, UNCHANGED storeVars
    PROVE  StoreTypeOK' /\ StoreInv'
  <1> USE DEF storeVars
  <1>1. StoreTypeOK' /\ Held' /\ FilesApart' /\ OneAtATime'
    BY DEF StoreTypeOK, StoreInv, Held, FilesApart, OneAtATime
  <1>2. CompileSound' /\ VersionSound' /\ MetaSound'
    BY DEF StoreInv, CompileSound, AtomicSwap, VersionSound, VersionsDistinct, MetaSound
  <1> QED
    BY <1>1, <1>2 DEF StoreInv

LEMMA StoreInitial == StoreInit => StoreTypeOK /\ StoreInv
  <1> SUFFICES ASSUME StoreInit PROVE StoreTypeOK /\ StoreInv
    OBVIOUS
  <1>1. up \in [Uploads -> Thread] /\ \A u \in Uploads : up[u].pc = "idle" /\ up[u].ino = NoFile
    BY IdleShape DEF StoreInit
  <1>2. StoreTypeOK
    <2>1. acks \in Seq(1 .. MaxVersion) /\ swapped \in 0 .. MaxVersion
      BY StoreBoundsAssumption DEF StoreInit
    <2>2. file \in [Inodes -> [main : Docs \cup {NoDoc}, log : Docs \cup {NoDoc}]]
      BY DEF StoreInit, Empty
    <2>3. json \in Docs \cup {NoDoc} /\ tmp \in Inodes \cup {NoFile} /\ db \in Inodes \cup {NoFile}
      BY DEF StoreInit
    <2>4. meta \in {NoMeta, TornMeta} \cup {MetaOf(v, d) : v \in 1 .. MaxVersion, d \in Docs}
      BY DEF StoreInit
    <2>5. shared \in BOOLEAN /\ raced \in BOOLEAN
      BY DEF StoreInit
    <2> QED
      BY <1>1, <2>1, <2>2, <2>3, <2>4, <2>5, UpType
  <1>3. Held /\ FilesApart
    BY <1>1, IdleShape DEF StoreInit, Held, FilesApart
  <1>4. OneAtATime
    BY <1>1, IdleShape DEF StoreInit, OneAtATime, Compiling
  <1>5. CompileSound /\ VersionSound /\ MetaSound
    BY <1>1, IdleShape DEF StoreInit, CompileSound, AtomicSwap, VersionSound, VersionsDistinct,
                           MetaSound, NoMeta
  <1> QED
    BY <1>2, <1>3, <1>4, <1>5 DEF StoreInv

-----------------------------------------------------------------------------
(* Theorems *)

\* The store keeps its types and stays in order through failures and crashes at every
\* step, for any number of uploads.
THEOREM StoreTypeCorrect == StoreSpec => [](StoreTypeOK /\ StoreInv)
  <1>1. StoreTypeOK /\ StoreInv /\ [StoreNext]_storeVars => StoreTypeOK' /\ StoreInv'
    BY upload_policyStep, next_versionStep, WriteJsonStep, CheckTmpStep, UnlinkTmpStep,
       ConnectStep, compileStep, CloseStep, verifyStep, ReplaceStep, TruncateMetaStep,
       WriteMetaStep, WriteMetaFailsStep, OSErrorStep, ReturnStep, CrashStep, StoreStutter
    DEF StoreNext, UploadStep
  <1> QED
    BY <1>1, StoreInitial, PTL DEF StoreSpec

\* store_policy: whoever opens policy.db finds a complete policy, unless two uploads were
\* in the compile phase at one time.
THEOREM SwapIsAtomic == StoreSpec => []AtomicUnlessShared
  <1>1. StoreInv => AtomicUnlessShared
    BY DEF StoreInv, CompileSound, AtomicUnlessShared
  <1> QED
    BY <1>1, StoreTypeCorrect, PTL

\* next_version: no version is returned twice, unless two uploads held one at one time.
THEOREM VersionsAreDistinct == StoreSpec => []VersionsUnlessRaced
  <1>1. StoreInv => VersionsUnlessRaced
    BY DEF StoreInv, VersionSound, VersionsUnlessRaced
  <1> QED
    BY <1>1, StoreTypeCorrect, PTL

\* store_policy: policy.meta.json does not run ahead of policy.db, and describes it.
THEOREM MetaFollows == StoreSpec => []MetaNotAhead
  <1>1. StoreInv => MetaNotAhead
    BY DEF StoreInv, MetaSound, MetaNotAhead
  <1> QED
    BY <1>1, StoreTypeCorrect, PTL
=============================================================================
