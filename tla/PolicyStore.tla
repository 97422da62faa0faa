----------------------------- MODULE PolicyStore -----------------------------
(***************************************************************************)
(* The control plane's store of one tenant: upload_policy and store_policy *)
(* (controlplane/api/server.py, policy_compiler/storage.py, compiler.py).  *)
(*                                                                         *)
(* The server handles each POST in a thread of its own, nothing locks the  *)
(* tenant's directory, and all uploads compile into one policy.db.tmp.     *)
(* The process can crash between any two steps.                            *)
(*                                                                         *)
(* SQLite and the file system are external.  Names refer to inodes, and a  *)
(* connection keeps the inode it opened.  In WAL mode a commit goes to a   *)
(* log beside the file; the last connection to close copies it into the    *)
(* file, unless the name no longer leads to that file.  Whoever reads the  *)
(* file under another name does not see the log, and a log left beside a   *)
(* new, empty file is thrown away.                                         *)
(***************************************************************************)
EXTENDS Integers, Sequences, FiniteSets

CONSTANTS
    Uploads,     \* threads that handle a POST
    Docs,        \* valid policy documents
    NoDoc,       \* the content of an empty database
    MaxInodes,   \* bound: database files alive at one time
    MaxVersion,  \* bound: versions
    MayCrash     \* whether the process may crash

ASSUME StoreBoundsAssumption ==
    MaxInodes \in Nat /\ MaxVersion \in Nat \ {0} /\ MayCrash \in BOOLEAN
\* One database per thread, policy.db, policy.db.tmp, and one to create.
ASSUME InodesAssumption == IsFiniteSet(Uploads) /\ MaxInodes >= Cardinality(Uploads) + 3
ASSUME NoDocAssumption == NoDoc \notin Docs

VARIABLES
    json,    \* policy.json, or NoDoc when it is missing or cut short
    tmp,     \* inode of policy.db.tmp, or NoFile
    db,      \* inode of policy.db, or NoFile
    file,    \* inode -> what is in the database file, and in its log
    meta,    \* policy.meta.json
    up,      \* what each thread is at
    acks,    \* history: versions returned with 200, in order
    swapped, \* history: version held by the upload that last replaced policy.db
    shared,  \* history: two uploads were in the compile phase at one time
    raced    \* history: two uploads were between reading and writing the version

storeVars == <<json, tmp, db, file, meta, up, acks, swapped, shared, raced>>

Inodes == 1 .. MaxInodes
NoFile == 0
Empty == [main |-> NoDoc, log |-> NoDoc]

\* The states of policy.meta.json: missing, truncated, or written.
NoMeta == [state |-> "none", ver |-> 0, doc |-> NoDoc]
TornMeta == [state |-> "torn", ver |-> 0, doc |-> NoDoc]
MetaOf(v, d) == [state |-> "ok", ver |-> v, doc |-> d]

\* mixed: another thread finished policy.meta.json after this one had opened it.
Idle == [pc |-> "idle", doc |-> NoDoc, ver |-> 0, ino |-> NoFile, mixed |-> FALSE]

\* The phase that uses policy.db.tmp, and the one that a version number is held in.
Compiling == {"check", "unlink", "connect", "compile", "close", "verify", "replace"}
Versioned == {"json"} \cup Compiling \cup {"truncate", "meta"}

StoreTypeOK ==
    /\ json \in Docs \cup {NoDoc}
    /\ tmp \in Inodes \cup {NoFile}
    /\ db \in Inodes \cup {NoFile}
    /\ file \in [Inodes -> [main : Docs \cup {NoDoc}, log : Docs \cup {NoDoc}]]
    /\ meta \in {NoMeta, TornMeta} \cup {MetaOf(v, d) : v \in 1 .. MaxVersion, d \in Docs}
    /\ up \in [Uploads -> [pc : {"idle", "version", "return"} \cup Versioned,
                           doc : Docs \cup {NoDoc}, ver : 0 .. MaxVersion,
                           ino : Inodes \cup {NoFile}, mixed : BOOLEAN]]
    /\ acks \in Seq(1 .. MaxVersion) /\ swapped \in 0 .. MaxVersion
    /\ shared \in BOOLEAN /\ raced \in BOOLEAN

-----------------------------------------------------------------------------
(* Files *)

\* Inodes that a name or a connection leads to.
InUse == {tmp, db} \cup {up[u].ino : u \in Uploads}

FreshInode(i) == i \in Inodes \ InUse /\ \A j \in Inodes \ InUse : i <= j

\* The database as a connection to it sees it.
Content(i) == IF file[i].log # NoDoc THEN file[i].log ELSE file[i].main

\* A connection to inode i closes, beside those the uploads in others may have open.
Closed(i, others) ==
    IF tmp = i /\ (\A v \in others : up[v].ino # i)
    THEN [file EXCEPT ![i] = [main |-> Content(i), log |-> NoDoc]]
    ELSE file

At(u, pc) == up[u].pc = pc
Goto(u, pc) == up' = [up EXCEPT ![u].pc = pc]

\* An exception ends the upload: 400 for a ValueError, 500 for others.
Fails(u) == up' = [up EXCEPT ![u] = Idle]

-----------------------------------------------------------------------------
(* upload_policy and store_policy *)

\* A valid document has arrived.  An invalid one is refused before anything is touched.
upload_policy(u, d) ==
    /\ At(u, "idle")
    /\ Len(acks) < MaxVersion
    /\ up' = [up EXCEPT ![u] = [Idle EXCEPT !.pc = "version", !.doc = d]]
    /\ UNCHANGED <<json, tmp, db, file, meta, acks, swapped>>

\* Mutant: a policy.meta.json that cannot be read counts as missing.
next_versionForgiving(u) ==
    /\ At(u, "version")
    /\ meta.ver < MaxVersion
    /\ up' = [up EXCEPT ![u].pc = "json",
                        ![u].ver = IF meta.state = "ok" THEN meta.ver + 1 ELSE 1]
    /\ UNCHANGED <<json, tmp, db, file, meta, acks, swapped>>

\* Mutant: the first version is 0.
next_versionFromZero(u) ==
    /\ At(u, "version")
    /\ meta.ver < MaxVersion
    /\ IF meta.state = "torn"
       THEN Fails(u)
       ELSE up' = [up EXCEPT ![u].pc = "json",
                             ![u].ver = IF meta.state = "none" THEN 0 ELSE meta.ver + 1]
    /\ UNCHANGED <<json, tmp, db, file, meta, acks, swapped>>

\* json.load of a truncated policy.meta.json raises.
next_version(u) ==
    /\ At(u, "version")
    /\ meta.ver < MaxVersion
    /\ IF meta.state = "torn"
       THEN Fails(u)
       ELSE up' = [up EXCEPT ![u].pc = "json", ![u].ver = meta.ver + 1]
    /\ UNCHANGED <<json, tmp, db, file, meta, acks, swapped>>

\* write_text; when it fails, the file it has truncated stays behind.
WriteJson(u) ==
    /\ At(u, "json")
    /\ \/ json' = up[u].doc /\ Goto(u, "check")
       \/ json' = NoDoc /\ Fails(u)
    /\ UNCHANGED <<tmp, db, file, meta, acks, swapped>>

CheckTmp(u) ==
    /\ At(u, "check")
    /\ Goto(u, IF tmp # NoFile THEN "unlink" ELSE "connect")
    /\ UNCHANGED <<json, tmp, db, file, meta, acks, swapped>>

\* unlink raises when another upload has taken the file away since.
UnlinkTmp(u) ==
    /\ At(u, "unlink")
    /\ IF tmp = NoFile THEN Fails(u) ELSE Goto(u, "connect")
    /\ tmp' = NoFile
    /\ UNCHANGED <<json, db, file, meta, acks, swapped>>

\* sqlite3.connect opens policy.db.tmp, or creates it.
Connect(u) ==
    /\ At(u, "connect")
    /\ \E i \in Inodes :
         /\ IF tmp = NoFile THEN FreshInode(i) ELSE i = tmp
         /\ file' = IF tmp = NoFile THEN [file EXCEPT ![i] = Empty] ELSE file
         /\ tmp' = i
         /\ up' = [up EXCEPT ![u].pc = "compile", ![u].ino = i]
    /\ UNCHANGED <<json, db, meta, acks, swapped>>

\* One transaction replaces all rows.  It can fail, on a lock or a full disk.
compile_policy_to_sqlite(u) ==
    /\ At(u, "compile")
    /\ \/ /\ file' = [file EXCEPT ![up[u].ino].log = up[u].doc]
          /\ Goto(u, "close")
       \/ /\ file' = Closed(up[u].ino, Uploads \ {u})
          /\ Fails(u)
    /\ UNCHANGED <<json, tmp, db, meta, acks, swapped>>

\* Mutant: the connection is left to the garbage collector.
CloseForgotten(u) ==
    /\ At(u, "close")
    /\ Goto(u, "verify")
    /\ UNCHANGED <<json, tmp, db, file, meta, acks, swapped>>

Close(u) ==
    /\ At(u, "close")
    /\ file' = Closed(up[u].ino, Uploads \ {u})
    /\ up' = [up EXCEPT ![u].pc = "verify", ![u].ino = NoFile]
    /\ UNCHANGED <<json, tmp, db, meta, acks, swapped>>

\* Opens the file by its name again, whichever it is by now, and looks for the schema.
verify_sqlite_schema(u) ==
    /\ At(u, "verify")
    /\ \/ /\ tmp = NoFile
          /\ \E i \in Inodes : FreshInode(i) /\ tmp' = i /\ file' = [file EXCEPT ![i] = Empty]
          /\ Fails(u)
       \/ /\ tmp # NoFile
          /\ IF Content(tmp) = NoDoc THEN Fails(u) ELSE Goto(u, "replace")
          /\ file' = Closed(tmp, Uploads)
          /\ UNCHANGED tmp
    /\ UNCHANGED <<json, db, meta, acks, swapped>>

\* Mutant: the compiled file is verified and never renamed.
ReplaceForgotten(u) ==
    /\ At(u, "replace")
    /\ Goto(u, "truncate")
    /\ UNCHANGED <<json, tmp, db, file, meta, acks, swapped>>

\* os.replace renames whatever policy.db.tmp is now, and raises when there is none.
Replace(u) ==
    /\ At(u, "replace")
    /\ IF tmp = NoFile
       THEN Fails(u) /\ UNCHANGED <<db, swapped>>
       ELSE Goto(u, "truncate") /\ db' = tmp /\ swapped' = up[u].ver
    /\ tmp' = NoFile
    /\ UNCHANGED <<json, file, meta, acks>>

\* write_text truncates policy.meta.json first ...
TruncateMeta(u) ==
    /\ At(u, "truncate")
    /\ meta' = TornMeta
    /\ up' = [up EXCEPT ![u].pc = "meta", ![u].mixed = FALSE]
    /\ UNCHANGED <<json, tmp, db, file, acks, swapped>>

\* The threads that have policy.meta.json open when u is done with it, as r.
Wrote(u, r) ==
    up' = [v \in Uploads |-> IF v = u THEN r
                             ELSE IF At(v, "meta") THEN [up[v] EXCEPT !.mixed = TRUE]
                             ELSE up[v]]

\* ... and then writes from the start; over the text of another thread, something of
\* that text may be left behind it.
WriteMeta(u) ==
    /\ At(u, "meta")
    /\ meta' \in {MetaOf(up[u].ver, up[u].doc)} \cup (IF up[u].mixed THEN {TornMeta} ELSE {})
    /\ Wrote(u, [up[u] EXCEPT !.pc = "return"])
    /\ UNCHANGED <<json, tmp, db, file, acks, swapped>>

\* The write raises, with some of the text in the file or none.
WriteMetaFails(u) ==
    /\ At(u, "meta")
    /\ meta' \in {TornMeta, meta}
    /\ Wrote(u, Idle)
    /\ UNCHANGED <<json, tmp, db, file, acks, swapped>>

\* mkdir, open, unlink or rename raises, and has changed nothing.
OSError(u) ==
    /\ up[u].pc \in {"version", "json", "unlink", "replace", "truncate"}
    /\ Fails(u)
    /\ UNCHANGED <<json, tmp, db, file, meta, acks, swapped>>

Return(u) ==
    /\ At(u, "return")
    /\ acks' = Append(acks, up[u].ver)
    /\ up' = [up EXCEPT ![u] = Idle]
    /\ UNCHANGED <<json, tmp, db, file, meta, swapped>>

\* The process dies and is started again; the files stay as they are.
Crash ==
    /\ MayCrash
    /\ up' = [u \in Uploads |-> Idle]
    /\ UNCHANGED <<json, tmp, db, file, meta, acks, swapped>>

-----------------------------------------------------------------------------
StoreInit ==
    /\ json = NoDoc
    /\ tmp = NoFile
    /\ db = NoFile
    /\ file = [i \in Inodes |-> Empty]
    /\ meta = NoMeta
    /\ up = [u \in Uploads |-> Idle]
    /\ acks = <<>>
    /\ swapped = 0
    /\ shared = FALSE
    /\ raced = FALSE

UploadStep(u) ==
    \/ next_version(u) \/ WriteJson(u)
    \/ CheckTmp(u) \/ UnlinkTmp(u) \/ Connect(u)
    \/ compile_policy_to_sqlite(u) \/ Close(u) \/ verify_sqlite_schema(u) \/ Replace(u)
    \/ TruncateMeta(u) \/ WriteMeta(u) \/ WriteMetaFails(u) \/ OSError(u) \/ Return(u)

\* The two history variables of overlapping uploads.
Record ==
    /\ shared' = (shared \/ Cardinality({u \in Uploads : up'[u].pc \in Compiling}) > 1)
    /\ raced' = (raced \/ Cardinality({u \in Uploads : up'[u].pc \in Versioned}) > 1)

StoreNext ==
    /\ \/ \E u \in Uploads : UploadStep(u) \/ \E d \in Docs : upload_policy(u, d)
       \/ Crash
    /\ Record

StoreSpec == StoreInit /\ [][StoreNext]_storeVars

-----------------------------------------------------------------------------
(* Properties *)

\* "atomic DB swap": whoever opens policy.db finds a complete compiled policy.
AtomicSwap == db # NoFile => file[db].main # NoDoc

\* "increments by 1 on each POST": no two successful uploads return one version.
VersionsDistinct == \A i, j \in 1 .. Len(acks) : i # j => acks[i] # acks[j]

\* store_policy: the swap is atomic through crashes and failures at every step, of
\* uploads that overlap outside the compile phase too.
AtomicUnlessShared == shared \/ AtomicSwap

\* next_version: no version is returned twice, through crashes and failures at every step, as long
\* as uploads are not between reading and writing the version at one time.
VersionsUnlessRaced == raced \/ VersionsDistinct

\* store_policy: policy.meta.json, when complete, never runs ahead of policy.db, and
\* describes the compiled policy unless a later upload stopped right after the swap.
MetaNotAhead ==
    raced \/ (meta.state = "ok" =>
                /\ meta.ver <= swapped
                /\ meta.ver = swapped => file[db].main = meta.doc)
=============================================================================
