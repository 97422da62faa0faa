# A verification project for ZeroTrustForwardProxy

TLA+ models of the forward proxy (Go) and of its control plane (Python), model-checked
with TLC, and theorems about all of them, proved with TLAPS for every size of the
system. Every definition is
translated from the source; `PROJECT.json` names the lines under `map`. Documents and
comments are used only as the other side of a disagreement (see *Findings*).

## 1. The system

A client sends plain HTTP requests or `CONNECT` to the proxy. The proxy reads a tenant from
the bearer token, asks that tenant's policy whether the host may be reached, inspects bodies
for sensitive data, forwards, and writes an audit record. Policies are uploaded to the
control plane, which validates them, compiles each into `<policy_dir>/<tenant>/policy.db`,
and leaves it to the proxy's file watcher to notice.

```
 POST policy ──> PolicyStore ──rename──> policy.db ──event──> Watcher ──timer──┐
                (api, compiler)              │                                  │
                                             └──load── Registry <──ReloadTenant─┘
                                                         │  cache, workers
 client ──request/CONNECT──> Proxy ──Policy.Decide───────┘
                              │ MCP screen, DLP, audit
                              ├──MITM handshake──> CertCache <── CA files (Lifecycle)
                              └──TLS──> upstream, checked by Revocation
```

### Inventory

| Part | State it keeps | Operations | What makes it correct |
|---|---|---|---|
| Tenant policy registry, `policy/registry.go` | LRU map and list, singleflight group, job channel, worker pool | `TenantPolicyFor`, `loadTenant`, `loadWorker`, `insert`, `ReloadTenant`, `Close` | a tenant is only ever served its own policy; map and list agree and stay within the limit; jobs are not lost when the queue is full; every call returns |
| Directory watcher, `policy/watcher.go` | fsnotify watches, debounce timers | event loop, `schedule`, timer callback, cancel | a change that raised an event is reloaded in the end; what is cached is what is on disk |
| Request handlers, `proxy/server.go`, `proxy/https_interceptor.go` | per connection: the body reader, the decision, the audit record | `ServeHTTP`, `handleHTTP`, `handleHTTPS`, `evaluate` | nothing leaves without the tenant's permission; bodies arrive whole; audit says what happened |
| DLP inspector, `inspector/dlp.go` | none | `inspectAndPreserve` | reads at most the limit and puts it back |
| MCP detection, `proxy/mcp.go` | none | `extractMCPInfo` | refuses malformed calls, puts the body back when it could be read |
| Authentication, tenancy and tokens, `auth/`, `jwt/handler.go` | none | `ExtractAuthorizationnHeader`, `resolveTenantID`, `GenerateJWT`, `ValidateJWT` | no token speaks for a tenant it does not name, or after its time |
| Configuration, `config/config.go` | the settings of the process | `Load`, `finalizeConfig`, `applyEnvOverrides` | what the operator asked for is what runs, or an error says otherwise |
| Control plane store, `controlplane/api`, `policy_compiler/storage.py`, `compiler.py` | `policy.json`, `policy.db(.tmp)`, `policy.meta.json` | `upload_policy`, `store_policy` | the swap is atomic, versions are distinct, through crashes |
| Policy semantics, `validator.py`, `normalizer.py`, `policy/ast.go`, `load_db.go`, `tenant_decide.go`, `policy.go` | the document in its forms | normalise, validate, compile, load, decide | the decision is what the document says |
| Process lifecycle, `cmd/proxy/main.go`, root CA in `proxy/ca.go` | CA files, readiness, connections | start, `LoadOrCreateCA`, serve, signal, shutdown | the CA pair matches; a stop ends |
| Upstream revocation cache, `proxy/revocation.go` | verdicts with expiry | `verifyUpstreamConnection`, `asyncRefreshRevocation` | a certificate found revoked stays refused; a revocation is found out |
| Leaf certificates, `proxy/server.go`, `proxy/ca.go` | two caches | `getMITMCertificate`, `IssueForHost` | a client is shown a leaf for the name it asked for, by the CA it trusts |
| Metrics, logging, offline compiler, debug output, test client, manifests | - | - | not modelled, see section 8 |

The hard behaviour is in the concurrency of the first two (request goroutines, load workers,
helper goroutines of a saturated queue, timer goroutines and the event loop all meet in one
cache), in the unlocked files of the store, in the readers a request's body passes through,
in verdicts and leaves that are looked up under one lock and stored under another, and in
what happens between a stop signal and the exit. `PROJECT.json` lists each hazard
at its line with the properties that would catch it.

## 2. Modules and the code

| Module | Models | Composition |
|---|---|---|
| `Registry` | `registry.go` whole, with the disk as environment | base |
| `RegistryLRU` | the same, beside a history of which tenant was used later than which | extends `Registry` |
| `PolicyService` | what a caller of the registry may rely on | abstract, base |
| `RegistryService` | the registry implements `PolicyService` | extends `Registry`, instantiates `PolicyService` |
| `Watcher` | `watcher.go`, fsnotify and the kernel queue | base |
| `HotReload` | registry and watcher together | extends `Registry`, instantiates `Watcher` |
| `PolicyStore` | one tenant's uploads | base |
| `Proxy` | handlers, identity, MCP, DLP | base; the registry is what it serves |
| `PolicyEngine` | a document from upload to decision | base |
| `CertCache` | the two caches of leaf certificates | base |
| `Lifecycle` | process, CA files, connections | extends `CertCache` |
| `Revocation` | `revocation.go` whole, with upstreams and responders as environment | base |
| `Config` | `config.Load` as operators | base |
| `Identity` | start, tokens, the validator | extends `Config` |
| `RegistryProofs`, `HotReloadProofs`, `PolicyStoreProofs`, `ProxyProofs`, `PolicyEngineProofs`, `LifecycleProofs`, `RevocationProofs`, `IdentityProofs` | the theorems of section 5 | each extends the module it is named after; `RegistryProofs` also `RegistryService` and `RegistryLRU`, `HotReloadProofs` also `RegistryProofs` |
| `MC...` | the modules for TLC: symmetry sets, and the rules of `PolicyEngine` | |

**Registry.** A `TenantPolicy` is an object on a `heap`, because `ReloadTenant` overwrites
one in place (`Swap`) while requests hold pointers to it. `cache` is the map, `lru` the
`container/list`. A request goroutine goes idle → miss → (lead → send → wait, or follow) →
have or fail → idle; each arrow is one action (`TenantPolicyFor`, `GroupDo`, `SecondLook`,
`SendJob`, `TakeAnswer` or `LoadTimeout`, `Decide`). A full channel leaves the job to a
helper goroutine (`helpers`, then `sendq` once it blocks). A worker takes, loads, inserts and
replies. `ReloadTenant` reads, looks the entry up, and swaps or inserts, as separate steps
since it gives the lock up in between. A send on the channel that `Close` closed panics: in
a leader it is recovered by net/http, in a helper it ends the process (`"crashed"`). Jobs
and objects that nothing refers to are collected at once and their names reused; this
keeps the state finite without bounding the number of requests.

**Watcher, HotReload.** An event is queued only in a watched directory and only while the
kernel's queue has room. A timer is free, armed or fired; `Stop` has no effect on a fired one.
`HotReload` gives a timer and the goroutine of its callback one name, so `TimerCallback` is
both the callback and the start of `ReloadTenant`. Three history variables, which no action
reads, remember what was read (`seen`), which change raised no event (`missed`) and which
reads overlapped (`overlapped`).

**PolicyStore.** File names lead to inodes and an open connection keeps its inode, because
that is what makes a shared `policy.db.tmp` dangerous. In WAL mode a commit is in the log
until the last connection closes; `os.replace` moves the file alone. Every step that touches
a file is an action, any of them may fail or be followed by a crash, and the steps of two
uploads interleave freely: Flask runs each request in a thread and nothing locks.

**Proxy.** One record per connection. A body is a reader over chunks, plain or secret, that
ends cleanly or in an error; what is read from it is gone unless it is put back. Two readers
do that in turn: `extractMCPInfo`, which takes all of it and restores it only when reading
succeeded, and the inspector, which takes the first `MaxInspect`. An error can be one that
every later reader meets again, or that of a body cut short of its `Content-Length`, after
which net/http has seen EOF and later readers find a clean end. `evaluate` is three steps
(identity, policy, inspection), since the policy may change between them. A tunnel evaluates
twice, for the `CONNECT` and after the ClientHello, and then loops over its requests. The
registry is abstracted to what it serves per tenant: a set of blocked hosts or a failed load,
changing at any time; whether `policy.db` exists changes independently, as a cached policy
outlives its file.

**PolicyEngine.** Operators named after the functions: `normalize_policy_document`,
`validate_policy_document`, `compile_policy_to_sqlite`, `buildAST`, `matchesRule`, `Decide`,
and `EngineDecide` for the older engine of flat documents. `SliceStable` is the sort by its
result, the rules each once and in order, and the two loops of `Decide` are two searches. Ids
are strings of which only the order counts, and are numbers here. A regular expression is
represented by the host it matches, or by one of two that do not compile (in Go, or in
either language). An action is kept as it was spelled: upper case stands for any spelling
that is not all lower case, which the normaliser folds (`lower`) and the older engine
compares as it is. `NotAList` is a `destinations` field that is a string: the schema accepts
it for RTP rules, and `RuleRecord` drops it, as the ignored error of `json.Unmarshal` does.
The reference that decisions are compared with is a table of its own (`Terminal`,
`Inspection`, `Outcomes`), written from what the documents say an action means.

**Lifecycle.** Of the CA's two files both, one or none is there at the beginning. `createCA`
runs on any error of `os.Stat` on the certificate, and so also beside an old key or over a
pair; each file is opened, which truncates it, and then written, four steps with kills and
failures in between. The history variable `halfDone` remembers that the last `createCA` ended
after the new certificate and before it opened a key file that was there. Connections are in
the backlog, new or idle (`"open"`), active (`"request"`), or hijacked into a tunnel;
`Shutdown` closes the open ones, waits for the active and does not know the tunnels. A tunnel's
handshake asks `CertCache` for a leaf: look up in the server's cache, look up in the CA's, sign
and store there, store in the server's, each under a lock of its own, so that handshakes
interleave between any two. A leaf records the pair that signed it, and dies with the process,
while the CA's files stay.

**Revocation.** A handshake looks the certificate up, and if there is no live entry takes
what is stapled and stores it in a second step; a refresh is three steps, OCSP, CRL (only
when OCSP says nothing) and store. A TTL is an entry that may expire at any moment.
Certificates with and without issuer, staple, responder and distribution point are all
initial states; the certificate is revoked and the network comes and goes at any time. The
history variables `known`, `older` and `misses` remember what a correct cache would still
know, which evaluations were under way when it learned it, and how many lookups missed.

**Config, Identity.** `Load` is a function of the file (absent, unreadable, not YAML, with a
mistyped or an empty required field, or fine) and of the environment, up to the first
variable that does not parse. Three fields are kept, one for each way a field is checked.
`Start` takes what `Load` returned also when it returned an error, as `main` does. A token
is absent, forged or signed, with hours left that wrap as a `time.Duration` does.

**PolicyService.** A cache of a handle per tenant and calls that are asked, answered or
failed. A call may be given a handle only if the cache served it for the call's tenant after
the call began, or after the beginning of a call it was joined with. The second half is
needed: a follower can join a flight whose policy was already installed, and evicted again,
before it arrived, and is given that policy. `RegistryService` adds the history variable
`offered`, which is exactly this set, and maps away queue, jobs, workers, helpers and flights.

## 3. Runs that pass

| Run | Question | Instance |
|---|---|---|
| `registry_service` | Do a tenant's misses have one leader, and is a call answered only with what its tenant was served while it, or the call it joined, was waiting? `SingleFlight`, `ImplementsService` | 2 tenants for 1 entry, 2 requests, 2 workers, queue of 1; 0.2 million states |
| `registry_cache` | Do map and list agree and hold the most recently used tenants, and does every pointer lead to its tenant's policy, when cold loads, hits, reloads and evictions interleave? `KeepsMostRecent`, `CacheConsistent`, `TenantIsolation` | 3 tenants for 2 entries, a request, a worker and a reload; 0.35 million states |
| `registry_live` | Is a job at exactly one place until it is answered when the queue is saturated, does every call return although loads may hang for ever, is every queued job taken, and do workers stop after Close? `TypeOK`, `NoLostJob`, `EveryCallReturns`, `NoJobStarves`, `WorkersExit` | 1 tenant, 2 requests, 1 worker, queue of 1, Close at any time |
| `hot_reload` | When is a cached policy behind the disk, and is a change that raised an event read in the end? `HotTypeOK`, `FreshUnlessRace`, `ChangeEventuallySeen` | 2 timers, 2 changes, a cold load, event queue of 2; 0.1 million |
| `policy_store` | Is `policy.db` complete, are versions distinct, does the metadata not run ahead, as long as uploads do not share a phase? `StoreTypeOK`, `AtomicUnlessShared`, `VersionsUnlessRaced`, `MetaNotAhead` | 2 uploads, 2 documents, failures and crashes; 4.2 million |
| `proxy` | Is what leaves allowed, inspected and, unless its body was cut short, complete, and are denials and passed answers audited as such? `ProxyTypeOK`, `ForwardedWasAllowed`, `InspectedAndIntact`, `AuditMatchesAnswer` | 2 tenants, 2 hosts, both tenancy modes, bodies of 2 chunks, limit 1; 2.3 million |
| `policy_engine` | Is the decision what the document says, is a migrated flat document at least as strict as it was, and which accepted documents fail to load? `EngineTypeOK`, `DecisionMatchesDocument`, `LegacyPreserved`, `LoadFailsOnlyForSyntax` | every document of up to 2 rules; 0.5 million |
| `lifecycle` | When does the CA's pair match through kills, is every client shown a leaf for its name by the CA on disk, do the caches settle, and does a stop end? `LifeTypeOK`, `PairMatches`, `LeafTrusted`, `OneLeafOnceSettled`, `ShutdownEnds` | 3 connections, 2 hosts, 3 leaves, 3 CA pairs; 0.7 million |
| `revocation` | Can a revoked verdict be lost other than by expiry or to an evaluation that was under way, does an expired entry start no more evaluations than there are handshakes, and is a revocation learned of? `RevTypeOK`, `RefusedOnceKnown`, `HerdBounded`, `LearnsOfRevocation` | 1 certificate, 2 handshakes, 2 refreshes |
| `identity` | Whom is a request served as, and is the body inspected, under every file, environment and error of `Load`; is a token usable when it is issued? `IdTypeOK`, `ServedAsIntended`, `InspectionStaysOn`, `UsableWhenIssued` | all files and environments, 2 tenants, durations of -4 .. 3 hours; 0.4 million |

Each property of these runs has a mutant in `PROJECT.json`: a version of one definition with
a plausible bug (a dropped refresh, a forgotten reset, a swallowed error) under which TLC
finds the property violated.

### Bounds, and why they are enough

- *Registry.* One worker and a channel of one place are the smallest pool that saturates:
  with the jobs that timed-out leaders left behind (`MaxJobs` = 3) one job loads, one is
  queued and one is with a helper. Two tenants, two workers and one entry, in
  `registry_service`, let a policy be installed and evicted while its flight is on. Three tenants for
  two entries are the least for which a hit changes what is evicted. `MaxJobs` bounds the jobs alive at one time: a call is
  held back before it starts, never half-way. `MaxObjs` is large enough that no load waits
  for a name (`ObjsAssumption`). The theorems of section 5 hold for all sizes.
- *Hot reload.* Two timers are needed for a late callback that deletes its successor's
  entry; two changes for a burst that is debounced, or seen once and missed once. One tenant
  is enough, as timers, entries and files of different tenants share only the event queue,
  whose overflow happens with one tenant as well.
- *Store.* Races are between two uploads; a version counter of 2 shows a reused version.
- *Proxy.* One connection at a time (and a new one after it): connections share nothing but
  the policies, and those change at any step. Two chunks with a limit of one give a body
  that is inspected in part; two hosts give an SNI that differs from the `CONNECT`.
- *PolicyEngine.* An order between rules is a relation of two, and rules carry every
  combination of type, priority, id, patterns and action that the code tells apart.
- *Lifecycle.* Three connections can be in the backlog, a request and a tunnel at once, and
  three leaves let three handshakes for a host each sign one. Of three CA pairs one may be
  there at the beginning, one is left half written by a kill, and one is made after it.
- *Revocation.* Certificates share nothing, so there is one. A verdict is overrun by one
  other evaluation; `Refreshes` bounds the goroutines alive at one time, and a handshake
  that would miss is held back before its lookup when none is left for it.
- *Identity.* `Span` = 4 makes five hours overflow; the hours are 0 (for all that is
  ignored), 1 and 5.

Symmetry is used only in runs without liveness properties (the one `PROPERTY` among them,
`ImplementsService`, has no fairness in it) and only over names the code treats alike; in
`Proxy` tenants are excluded, since one is the default.

### Fairness

- `Fairness` of `Registry`: request goroutines run and `LoadTimeout` is a timer that
  expires; the Go scheduler runs workers and helpers. Nothing is assumed of a load from
  disk, which may hang: `EveryCallReturns` holds all the same, the other two properties say
  "unless the worker hangs for ever". Weak fairness suffices since blocked senders are
  served in order (Go's channel queue).
- `ReloadFairness`: the event loop and expired timers run, and the disk answers a reload.
- `Lifecycle`: the context of `Shutdown` has a deadline, so `Drained \/ DrainTimeout` is
  taken in the end. Requests are not assumed to finish.
- `Revocation`: handshakes and refreshes that have begun go on (each fetch has a client
  timeout of 10 seconds), and TTLs run out. That responders can be reached and that
  handshakes with the certificate go on are premises of `LearnsOfRevocation`, not fairness.

Deadlock is checked except where the program may really stop: after `Close` (or a panic)
in `registry_live`, and in `PolicyEngine`, whose pipeline handles one
document.

## 4. Findings

Each is a run whose single property says what a comment or document says, and which TLC
refutes. The quotations are in `PROJECT.json`.

| Run | Said | What the code does |
|---|---|---|
| `sni` | the policy is evaluated again with the SNI's host | `targetDomain` prefers the URL's host, which a `CONNECT` to `host:port` has, so the SNI is not judged |
| `tunnel_resync` | the loop reads one request from the stream | after a refusal for DLP the rest of the body is parsed as a request |

The models show further places where a document says more than the code does. They are
behaviours of the modules, and need no unlucky order of steps or are the exception that a
passing property spells out:

- "Whenever a tenant's policy.db file changes, reload that tenant's policy" (`watcher.go:14`):
  a cold load that read the old file can be installed after the reload (`registry.go:172`),
  and the old policy stays. `FreshUnlessRace` excepts the tenants whose reads overlapped.
- "Persist tenant policy artifacts with atomic DB swap" (`storage.py:1`): two uploads share
  `policy.db.tmp` (`storage.py:68`), and an empty database can be renamed into place.
  `AtomicUnlessShared` excepts them.
- Directories that exist at startup are never watched (`watcher.go:22`); this is one of the
  changes without event that `FreshUnlessRace` excepts.
- A late timer callback deletes the map's entry of its successor (`watcher.go:54`), which can
  then not be stopped: more than the last of several changes is processed.
- Two uploads can return one version (`storage.py:63`): the exception in `VersionsUnlessRaced`.
- After `LoadTimeout` the first job may still be queued when the tenant's next call queues a
  second (`registry.go:158`). There is one *leader* per tenant (`SingleFlight`), not one job.
- `ReloadTenant` loads outside the pool that is said to bound loads (`registry.go:211`).
- `evaluate` blocks on every error of `Decide` (`server.go:399`), also where the documents
  call the default fail-open. `ForwardedWasAllowed` rests on it.
- Requests inside a tunnel are inspected and not decided on (`https_interceptor.go:128`).
- On an RTP rule the inspection replaces the action (`tenant_decide.go:83`), and `evaluate`
  acts on `block` only (`server.go:402`), so a rule that inspects and says BLOCK lets the
  request through. `Dataplane/What.md:8` and `:53` say the terminal action is applied after
  the inspection, and `testdata/sample_policy_rtp.json:44-52` is such a rule.
  `DecisionMatchesDocument` excepts these rules (`ActionLost`); without the exception TLC
  finds it violated.
- An RTP rule whose `destinations` is a string passes the schema, loses the condition in an
  error that is ignored (`load_db.go:72`), and without other conditions matches every host:
  the other exception of `DecisionMatchesDocument` (`ListsOnly`).
- A flat `BLOCK` that is not in lower case was not a block to the older engine, which returns
  the action as written (`policy.go:209`) for `server.go:402` to compare, and is one after
  migration (`normalizer.py:24`); a `continue` ended its loop and now leads on to the next
  rule. `LegacyPreserved` says that the new pipeline denies all that the old one did and more
  only for these.
- A request whose body is cut short of its `Content-Length` is forwarded with an empty one
  (`mcp.go:66` consumes it, and the second read at `dlp.go:113` reports no error): the
  exception of `InspectedAndIntact`.
- A denied `CONNECT` has been answered 200 when it is audited as blocked
  (`https_interceptor.go:36`), and the 400 and 502 of a tunnel's loop are not audited.
- Rules of equal priority are ordered by id and not by their place in the document
  (`ast.go:58`): the premise of `LegacyPreserved`.
- `Shutdown` does not wait for hijacked connections (`main.go:184`), so a clean stop may cut
  tunnels, and a SIGTERM before `signal.Notify` (`main.go:166`) cuts everything.
- A kill after `createCA` has written a certificate (`ca.go:164`) and before it has opened a
  key file that was there (`ca.go:167`) leaves a pair that does not belong together. `loadCA`
  takes it, and the process starts and cannot sign a leaf: the exception of `PairMatches`.
- An error of `config.Load` is logged and the process goes on (`main.go:61`). With a file
  that cannot be read or parsed the environment is not applied at all, although it "always
  wins" (`config.go:145`), and a file with a mistyped field keeps an unchecked
  `max_inspect_body_bytes`. `ServedAsIntended` and `InspectionStaysOn` except these errors.
- A limit of 0 from the environment is not checked (`config.go:227`), and switches inspection
  off: the other exception of `InspectionStaysOn`.
- Large `JWT_ACCESS_EXPIRY_HOURS` overflow (`jwt/handler.go:28`), and tokens are born expired:
  the premise of `UsableWhenIssued`.
- A refresh that was under way when a certificate was found revoked may store its older
  verdict last (`revocation.go:119`): the exception of `RefusedOnceKnown`. Once the entry
  expires the certificate is accepted until a refresh is back (`revocation.go:69`).
- Handshakes for a new host at the same time each sign a leaf, and the two caches may keep
  different ones (`server.go:137`); `OneLeafOnceSettled` is about the one that is shown.
- With the certificate's file there and the key's not or torn, every start fails (`ca.go:72`).

## 5. What is proved

Thirty-four theorems, in eight modules, hold for any sets of tenants, requests, workers,
timers, uploads, connections, certificates, hosts and rules, for documents of any length and
for any limits. Each is checked by TLAPS to the last leaf. Thirty-two of them state one each
of the runs' properties, and these are all that are not liveness; the other two are about the
composition of registry and watcher.

| Module | Theorem | States |
|---|---|---|
| `RegistryProofs` | `TypeCorrect` | `Spec => [](TypeOK /\ WellFormed)` |
| | `CacheIsConsistent` | `Spec => []CacheConsistent` |
| | `TenantsAreIsolated` | `Spec => []TenantIsolation` |
| | `OneFlightPerTenant` | `Spec => []SingleFlight` |
| | `NoJobIsLost` | `Spec => []NoLostJob` |
| | `EvictsLeastRecent` | `LRUSpec => []KeepsMostRecent` |
| | `RegistryImplementsService` | `OfferedSpec => ImplementsService`, the refinement |
| `HotReloadProofs` | `HotTypeCorrect` | `HotSpec => [](HotTypeOK /\ HotInv)` |
| | `CachedIsFresh` | `HotSpec => []FreshUnlessRace` |
| | `HotImplementsRegistry` | `HotSpec => Spec`, a refinement |
| | `HotKeepsRegistry` | `HotSpec => [](CacheConsistent /\ TenantIsolation /\ SingleFlight /\ NoLostJob)` |
| `PolicyStoreProofs` | `StoreTypeCorrect` | `StoreSpec => [](StoreTypeOK /\ StoreInv)` |
| | `SwapIsAtomic` | `StoreSpec => []AtomicUnlessShared` |
| | `VersionsAreDistinct` | `StoreSpec => []VersionsUnlessRaced` |
| | `MetaFollows` | `StoreSpec => []MetaNotAhead` |
| `ProxyProofs` | `ProxyTypeCorrect` | `ProxySpec => [](ProxyTypeOK /\ ProxyInv)` |
| | `OnlyAllowedLeaves` | `ProxySpec => []ForwardedWasAllowed` |
| | `LeavesIntact` | `ProxySpec => []InspectedAndIntact` |
| | `AuditIsTrue` | `ProxySpec => []AuditMatchesAnswer` |
| `PolicyEngineProofs` | `EngineTypeCorrect` | `EngineSpec => []EngineTypeOK` |
| | `DecisionFollowsDocument` | `EngineSpec => []DecisionMatchesDocument` |
| | `LegacyKeepsDenials` | `EngineSpec => []LegacyPreserved` |
| | `AcceptedLoads` | `EngineSpec => []LoadFailsOnlyForSyntax` |
| `LifecycleProofs` | `LifeTypeCorrect` | `LifeSpec => [](LifeTypeOK /\ LifeInv)` |
| | `CAPairMatches` | `LifeSpec => []PairMatches` |
| | `LeafIsTrusted` | `LifeSpec => []LeafTrusted` |
| | `SettledLeafStays` | `LifeSpec => []OneLeafOnceSettled` |
| `RevocationProofs` | `RevTypeCorrect` | `RevSpec => [](RevTypeOK /\ RevInv)` |
| | `HerdIsBounded` | `RevSpec => []HerdBounded` |
| | `RevokedIsRefused` | `RevSpec => RefusedOnceKnown`, an action property |
| `IdentityProofs` | `IdTypeCorrect` | `IdSpec => [](IdTypeOK /\ Loaded)` |
| | `InspectionIsOn` | `IdSpec => []InspectionStaysOn` |
| | `ServesAsIntended` | `IdSpec => ServedAsIntended`, an action property |
| | `IssuedIsUsable` | `IdSpec => UsableWhenIssued`, an action property |

### Assumptions

Only the named `ASSUME`s of the modules, which TLC evaluates on every run: limits that the
code makes positive are positive (`CacheSize`, the default token life, `EventCap`); the
bounds are numbers, of any value; the names for "none" (`NoTenant`, `NoReq`, `NoTimer`,
`NoHost`, `NoDoc`, `NoCert`) are no members; handshakes, refreshes and uploads are finitely
many at a time, and refreshes and handshakes are different goroutines. The rules of
`PolicyEngine` are any set of well-typed rules, with ids and priorities that are numbers.
`InodesAssumption` says there is a name for every database that can be open at once, as a file system has.

### Registry

`TypeOK` is not inductive: a worker's load has a type only if its job has a
tenant, an answer without error needs an object. `WellFormed` adds what a goroutine's
position says about the job and objects it holds; the two together are inductive
(`TypeInit`, `TypeStep`, `WellFormedStep`, one step per action). `CacheConsistent` is
inductive above them. Its core are two lemmas on the list: `MoveToFrontProps`, that moving
an element permutes the list, and `PushAndEvict`, that pushing a new one and dropping
what is over the limit keeps it free of duplicates and removes from the map just what it
removes from the list. `TenantIsolation` talks of every pointer at once, since a pointer
travels from worker to cache to job to request; it needs `WaitsForOwnTenant`, that a leader
waits for a job of its own tenant, for the step where an answer becomes a result. Its
lemmas follow the ways a pointer comes to be: a fresh object (`PointsFresh`, which uses
that a fresh name is referred to by nobody), delivery to leader and followers
(`PointsDeliver`), insertion (`PointsInsert`), and the swap in place, where source and
target have the same owner. Collection (`HeapAfter`, `JobsKeep`) frees only what nothing
points to.

`SingleFlight` is inductive above the types. `NoLostJob` counts places, which no step
preserves alone: a leader that timed out leaves a job behind whose place still excludes the
others. `JobInv` speaks of every job: channel, blocked sends, helpers and workers are
pairwise apart and hold each job once (`PlacesApart`), and a job that is there is not
answered, while one that is waited for is there or answered (`AnswersOnce`).

`KeepsMostRecent` compares the list with a history, the relation `later`, that no list
operation computes. It is inductive above the cache's consistency: `MoveKeepsOrder` and `PushKeepsOrder` say
that a hit and an insert put one tenant in front, keep the others in order, and evict only
from a full list and only what is behind all that is kept. `SingleFlight` is needed to know
that the leader whose second look hits is the one call that used the tenant.

### The refinement

`RegistryImplementsService` maps the cache to the service's cache, a call to asked, answered
or failed, and `offered` to itself. `ServiceStep` takes the actions one by one: an insert is
the service's install, with or without an eviction (`InstallMaps`); a delivery answers
leader and followers at once (`DeliverMaps`); lookups, joins, timeouts, decisions and the
return to idle have a lemma each; all the rest changes nothing the service sees. The step that
needs an invariant is the delivery: the handle given must be one the service offered.
`OfferedInv` carries it there: a waiting call has been offered what its tenant's entry is, a
follower all that its leader was, and a job's answer, once the worker has installed it, is
among what its leader was offered. The last survives an eviction between install and reply,
which is why `offered` is a history and not the cache itself.

### Hot reload

`FreshUnlessRace` is about settled states only, and is far from inductive. `HotInv` says
where a change is while it is not yet read (`ChangeAwaited`: as an event, an armed or fired
timer, or a reload about to read), that nothing is read before it is written
(`SeenNotAhead`), and what a read that has not been installed can be (`ReadsGood`): unless
reads of the tenant overlapped there is at most one, a swap's target is still the cached
object unless that was evicted, and the object that is cached, or on its way there, has the
version last read. Stopping a timer is harmless because `schedule` starts another in the same step;
a late callback that deletes its successor's entry is harmless because the successor runs
all the same.

`HotImplementsRegistry` says that the composition adds no behaviour to the registry. It needs
`HotTypeOK`, since a fired timer must name a tenant for its callback to be a `ReloadTenant`.
`HotKeepsRegistry` then takes four properties of the registry over without proving them again.

### The store

Each of the three properties has its own part of `StoreInv` above `Held`, what an upload
has at each step. `CompileSound`: one that compiles alone finds its own document in its
database and, once closed, in `policy.db.tmp`, with the log emptied; this rests on
`FilesApart` and on fresh inodes being nobody's. `VersionSound`: without a race, a version
held is above all that were returned. `MetaSound`: `policy.db` is what the last swap
compiled. `OneAtATime` turns the histories `shared` and `raced` into the fact that at most
one upload is in the phase, which the other parts are used with. A crash empties all threads and keeps the files,
so every part is about files that a thread may have left behind.

### The proxy

`ProxyInv` is `Good` of every connection; connections share only policies, so a step of one
leaves the others good. `StageFits` ties each position to its stage, `DecidedForEntitled`
says a decision under way is for a tenant of the token, `WasAllowed` that a granted
decision stays recorded until the request leaves, `BodyKept` that what the two readers took
off the body was put back or, after an error that `extractMCPInfo` met, that all of it is
gone (`Emptied`), and `NotYetAudited` with `Audited` that the record is written once, at the
end of each path.

### The policy engine

`FromUpload` says that what each stage holds is what the earlier stages made of the document;
it is inductive because no step touches what an earlier one computed. The four properties
follow from it without another step of the specification, through lemmas on the operators.
`AcceptedRules` is what the validator leaves: no two rules of a type have one id, which is what makes
the order of `buildAST` total (`RecordsOfAType`). Rules are followed in two steps, to the row
in its table (`RowOfRule`) and to the record that is loaded from it (`RecordOfRule`), which
is the same rule when its conditions are lists. `SliceStableSorts` says what the sort returns,
each rule once and in order. It is proved by induction over the number of rules, in the form
the provers can use: the numbers are well-ordered (`LeastNat`), a smallest set of rules
that cannot be sorted would have a least rule (`LeastRule`), and putting that in front of a
sorted rest sorts it. The same least element serves the two loops of `Decide` (`InnerLoop`,
`DecideByRecords`), whose answer `DecideByRules` carries back from records to the rules of
the document and `DecisionByDocument` compares with the reference table. `LegacyPreserved`
rests on `MigratedRule`, that a migrated rule matches what the flat one matched and denies
what it denied, by the case of its action, and on `PrecedesAsymmetric`, that two rules cannot
both decide.

### Lifecycle and leaves

`FilesInStep` says what the two files hold at each step of `createCA`: what was there before
is of an older pair than the one being made, and certificate and key, when both are whole,
differ just when `createCA` last ended between the two (`halfDone`). `PairMatches` survives
kills because of it, a torn file never being loaded. `LeafTrusted` needs that all leaves of
the process, cached, held by a handshake or only signed, are of its CA, whose key is then
that of its certificate since a pair that does not match signs nothing (`SignedByCA`), and are
filed under the name they are for (`CachedForHost`, `HandshakeForWanted`).
`SettledForGood` says that when a host's leaf is settled no handshake for it is between its
lookup and its store.

### Revocation, identity

`RefusedOnceKnown` needs `KnownHolds`: a certificate in `known` has a live entry that says
revoked, and whoever could store another verdict is in `older`. `HerdBounded` needs
that everyone who missed a dead entry is still about to store (`MissesAreStoring`).
`Identity` needs only `Loaded`, that the process runs with what `Load` returned; the work is in
the lemmas on `Load`, which hold for every file and environment, and in the arithmetic of
the wrapping duration, for every `Span`.

## 6. What is only model-checked

- *Liveness* (`EveryCallReturns`, `NoJobStarves`, `WorkersExit`, `ChangeEventuallySeen`,
  `ShutdownEnds`, `LearnsOfRevocation`): the prover has no support for fairness.
- The two findings of section 4 are refuted by TLC.

## 7. Plan

In order, with what is done first:

1. `Registry`, its runs and first theorems. *Done.*
2. `Watcher` and the composition `HotReload`. *Done.*
3. `PolicyStore`, `Proxy`, `PolicyEngine`, `Lifecycle`. *Done.*
4. `CertCache` with `Lifecycle`, `Revocation`, `Config` and `Identity`. *Done.*
5. `PolicyService` and the refinement `RegistryService`. *Done.*
6. Theorems on the registry, the refinement and hot reload. *Done.*
7. Theorems on the store, the proxy, lifecycle, revocation and identity. *Done.*
8. Theorems on the policy engine, and that the composition with the watcher implements the
   registry. *Done.*

## 8. What is not modelled, and why

- *The helpers of `jwt`* that take a token from a request or a context are called by nothing
  in the repository. Signatures are external: a token is signed with the secret or not.
- *`Engine.Load`, `reload` and `Watch`* of `policy.yaml` (`policy.go`) are not called by `main`.
  `Watch` would not survive a rename of the file, whose event is neither Write nor Create.
- *Settings other than three* are handled by `Load` like one of the three.
- *How long a verdict or a leaf lives*: a response whose `NextUpdate` has passed is cached as
  good for 24 hours (`revocation.go:95`), and a cached leaf is never looked at for its
  `NotAfter` (`server.go:126`). Both are plain from the code, and depend on no order of steps.
- *Metrics, logging, dumps, debug output* are read by no control flow. Audit records are
  modelled.
- *The offline compiler* is a sequential command around the same validator and compiler.
- *The test client, the manifests* are not part of the proxy.
- *The block page, header copying and chunk framing* change nothing the
  properties look at. The two DLP expressions are abstracted to plain and secret chunks.
- *The size limit of a document in bytes* and the policy conditions that no code reads.
