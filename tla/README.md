# A verification project for VPS Graph

VPS Graph is an IntelliJ plugin. It scans a server over SSH, draws what it found
(containers, services, listeners, Caddy routes) as a graph in a tool window, keeps
a local history of snapshots per server, and shows what changed between two of
them. This directory holds TLA+ models of the program, the TLC runs that check
them, and theorems that TLAPS proves. Paths below are relative to the repository.

    tlc -workers 2 -config MCStoreShared.cfg MCSnapshotStore    # one run
    for m in SnapshotOrderTheorems SnapshotStoreProofs ChangesCaptureProofs ScanSessionProofs \
             GraphTheorems ChangesTheorems EvidenceProofs WorkspaceProofs; do tlapm $m.tla; done

## 1. Inventory

Core: `scanner-core/src/main/kotlin/.../core/`; plugin:
`intellij-plugin/src/main/kotlin/.../plugin/`; page: `graph-ui/src/`; helper:
`server-helper/`.

| component | state | operations | what makes it correct |
|---|---|---|---|
| Snapshot repository (`SnapshotRepository.kt`) | one directory per server: snapshot files, `index.json`; a static map of locks | `save`, `latest`, `listMetadata`, `load`, index recovery, retention | an atomic, bounded, deduplicated history that survives crashes, lost indexes and damaged files |
| Identities, persistence (`SnapshotPersistence.kt`) | `server-identities.json`, a lock per root | `resolve`, `captureContext`, `history`, `load` | one ID per connection; a capture is compared with its own predecessor |
| Changes (`ChangesOrchestrator.kt`) | `activeServerId`, `latest` (both volatile) | `capture`, `current`, `compare` | changes belong to the active server; two snapshots are compared only in time order |
| Scan coordinator (`HostScanCoordinator.kt`) | the active Future, executor and client, `graph` | `start`, `scan`, `emitStatus`, `dispose` | one scan at a time; every scan ends with an event; nothing after disposal |
| Bridge (`VpsGraphToolWindowFactory.kt`) | the JCEF query, the browser | the query handler, status scripts, disposal | every request is answered; a rejected scan is told from a failed one |
| Page (`App.tsx`, `ui-state.ts`) | scan state, session, graph, changes payload, loading flag | scan, disconnect, open and compare changes, receive events | an ended or disconnected scan never comes back; graph and changes agree |
| Host scanner, SSH executor (`HostScanner.kt`, `SshjExecutor.kt`) | a connection | fingerprint check, authentication, bounded commands | ends within its timeouts; closes what it opened |
| Helper parser (`DockerHelperParser.kt`) | none | decode the helper's JSON | a partial answer is marked as partial |
| Graph factory, resolvers (`HostDockerGraphFactory.kt`, `CaddyUpstreamResolver.kt`, `HostTargetResolver.kt`) | none | nodes, edges, route targets | an ambiguous match is never guessed |
| Projection, diff (`SnapshotProjection.kt`, `InfrastructureDiffEngine.kt`) | none | fingerprint, discovery quality, comparison and its evidence | a removal is confirmed only when discovery was complete |
| Server helper (`vpsgraph_docker_scan.py`) | one process, two drain threads per command | bounded commands, the discovery pipeline | output and time are bounded; one failing part does not hide the others |
| Navigation policy (`VpsGraphCefNavigationPolicy.kt`) | one flag | allow or block a URL | only the bundled page is shown |
| Views of the page (`App.tsx`, `resource-model.ts`, `graph-utils.ts`, `changes-model.ts`, `ChangesPage.tsx`, `ui-state.ts`) | section, selection, topology and its focus, inspected change | derive pages, counts, cards and a layout from a graph or a payload; navigate | nothing is claimed that discovery did not see; nothing of a comparison is dropped; no view refers to a graph that is gone |
| Remembered connection, bundled frontend, mock graph, install scripts, build | settings, constants | | set-up |

Interactions. The page sends JSON queries to the handler (`graphBridge`). A
scan request starts a pooled thread that scans, publishes `graph`, captures a
snapshot and emits status events; the events go through the EDT queue into the
browser as scripts, while the answers to queries go through the query's
callback. Capturing resolves the identity, reads `latest()`, and calls `save()`,
each under its own lock. Several tool windows (several projects) have
coordinators and repositories of their own on one directory.

Hard behaviours. Crashes and exceptions between two changes of the disk; two
windows on one server; a capture whose instant is taken before its lock; an
index that is stale, lost or foreign; damaged files; status events and replies
that overtake each other; a request that meets a scan in its last steps;
Disconnect and disposal during a scan; a capture that fails after the graph was
published; evidence that depends on how complete each discovery was; a bounded
command that races its timeout against its drain threads. `PROJECT.json`
("hazards") lists each at the line where it bites, with the properties that
would catch it.

## 2. The modules

    SnapshotOrder <- SnapshotHistory               the abstract history
    SnapshotOrder <- SnapshotStore <- MCSnapshotStore
                     SnapshotStore --History==--> SnapshotHistory   (refinement)
    SnapshotOrder <- ChangesCapture <- MCChangesCapture
    ScanSession   <- MCScanSession
    Resolvers <- HostDockerGraph <- InfrastructureDiff <- ChangesWire <- ChangesModel
                 HostDockerGraph <- ResourceModel <- GraphUtils <- Workspace <- MCWorkspace
                 ChangesModel, ResourceModel <- Evidence <- MCEvidence

    SnapshotOrder <- SnapshotOrderTheorems
    SnapshotStore,  SnapshotOrderTheorems <- SnapshotStoreProofs
    ChangesCapture, SnapshotOrderTheorems <- ChangesCaptureProofs
    ScanSession   <- ScanSessionProofs
    ResourceModel <- GraphTheorems;  ChangesModel, GraphTheorems <- ChangesTheorems
    Evidence,  ChangesTheorems <- EvidenceProofs
    Workspace, GraphTheorems   <- WorkspaceProofs

### SnapshotOrder

Snapshots as records (UUID `id`, capture instant `at`, content fingerprint
`fp`), the order of `metadataOrder` (`Newer`: later instant, ties by ID), the
newest element of a set (`First`) and what retention keeps (`Retained`).
Snapshots are sets, not lists: every list of the code is sorted by that order,
which `SnapshotOrderTheorems` proves to be a strict total order, so a set says
the same. Instants and IDs are natural numbers: the code only compares them.

### SnapshotStore: the repository of one server

`valid` and `corrupt` are the snapshot files that load and those that do not;
`index` is `index.json` (not `readable` when it is missing, oversized,
undecodable or of another server); `lock` is the holder of the server lock. The
locals of a call are `list` (the metadata list in memory), `pending` (the snapshot
`save` was given) and `doomed` (entries whose files are still to be deleted).

| action | code |
|---|---|
| `CallSave`, `CallRead` | a call, made before the lock is asked for; `SnapshotProjection.capture` takes instant and UUID here |
| `Enter`, `EnterMissing` | `withServerLock`, then `readOrRecoverIndex`; reads of a directory that does not exist return at once |
| `Recover`, `Prune`, `WriteIndex` | `recoverIndex`: keep the newest valid files, delete the others one by one, write the index |
| `SaveDuplicate`, `SaveFile` | the two outcomes of `save`; `SaveFile` goes on with `Prune` and `WriteIndex` |
| `ReadLatest`, `ReadList`, `Load` | the reads, with the repairs that `latest` and `load` start when a file is corrupt |
| `Fail` | an `IOException` or a failed `require` ends the call; `withLock` releases |
| `Crash`, `LoseIndex`, `DamageFile` | the IDE dies; the index is lost; a file is damaged or removed (at most `MaxFileDamage`) |

`atomicWrite` is one step, since its temporary file is never listed and the
rename replaces the target or leaves it.

`SnapshotHistory` is the abstract repository: a set `hist` of the retained
snapshots and one atomic step per call. `SnapshotStore` implements it with
`hist <- Retained(valid)` (property `Linearizable`): a save takes effect when
its file is written, and neither a crash, a failed write, a lost index nor a
recovery is visible.

### ChangesCapture: captures and comparisons of several windows

The repository is taken as the atomic history that `SnapshotStore` implements:
`hist[s]` for each server. `owner` is the server ID inside each snapshot,
`identities` the identity file and `idLock` its lock. Each window has a capture
(`scan`) on its scan thread, a comparison (`query`) in its query handler, the two
fields of `ChangesOrchestrator` (`active`, `latest`) and the last comparison its page
received (`reply`).

| action | code |
|---|---|
| `Resolve`, `Register` | `ServerIdentityStore.resolve`: look up, or take the lock and write a new ID |
| `ReadBaseline`, `Project`, `Save` | the three calls of `captureContext`, with other windows in between |
| `Activate`, `Show` | `capture`: `activeServerId`, then the payload with a look at the history, then `latest` |
| `CaptureFails` | any of these calls throws, before or after it took effect |
| `AskCompare`, `ListHistory`, `LoadPrevious`, `LoadCurrent`, `ShowComparison` | `compare`: the active server, the history, both snapshots, the payload |
| `Restart` | the IDE restarts; histories and identities stay |

Here a snapshot's content is one value and `Status` says which statuses a
comparison can have; what differs between two contents is in `InfrastructureDiff`.

### ScanSession: page, bridge, coordinator and orchestrator of one window

A graph, a payload and a list of snapshots are represented by the server they belong to.

| state | code |
|---|---|
| `scanState`, `connected`, `shown`, `payload`, `changesError`, `changesLoading` | state of `App.tsx`; `connected` is `hasSuccessfulGraph`, `shown` the server of the graph |
| `requests`, `comparing`, `inbox` | queries on their way, the comparison in computation, events and replies on their way back |
| `scans` | the scan threads accepted by `HostScanCoordinator.start`, with their position in `scan()`; the last one is `active` |
| `graph`, `activeServer`, `latest` | `HostScanCoordinator.graph`, and the two fields of `ChangesOrchestrator` |
| `window` | open, coordinator disposed, browser disposed |
| `epoch` | history variable: the number of Disconnects. A request carries the epoch it was made in |

The actions of the page are `RequestScan`, `RejectForm`, `OpenChanges`,
`CompareSnapshots`, `Disconnect` and `Deliver`; of the handler `HandleScan`,
`HandleChanges`, `HandleCompare`, `ReplyCompare`; of scan thread `n` `Begin`,
`Authenticated`, `Publish`, `Capture`, `CaptureFails`, `EmitConnected`,
`EmitError`, `Finish`, `Die`; and the two steps of disposal. `IsDone` is
`Future.isDone`, which is true of a cancelled Future whose thread still runs.
`Die` is an `Error`: `scan()` catches `Exception` only. `HandleScan` may also refuse
a request that no scan stands in the way of, as `SshTarget.create` does.

Two channels lead to the page. Status events are scripts queued by the EDT,
replies are callbacks of the query; each kind stays in order, and the code does
not say how the two kinds interleave. `OneBrowserThread = FALSE` lets them
overtake each other and lets scan threads run during a comparison;
`OneBrowserThread = TRUE` is the stricter platform where one thread serves all.

### From a scan to the Changes page: seven modules of functions and Evidence

The middle of the program computes: a discovery becomes a graph, the graph a
snapshot, two snapshots a comparison, the comparison a payload, JSON and cards.
Each step is a module of operators that keep the names of the code:

| module | code |
|---|---|
| `Resolvers` | `CaddyUpstreamResolver.resolve` and `select`, `HostTargetResolver.resolve`; a dial is parsed already |
| `HostDockerGraph` | `HostDockerGraphFactory.create` and `SnapshotProjection.content`. An id is a tuple that starts with the type; an edge is its own id. Metadata is kept where it is derived from more than one resource or is read again |
| `InfrastructureDiff` | `InfrastructureDiffEngine.compare`: statuses, changes of nodes, fields and relationships with their evidence, uncertainties, summary |
| `ChangesWire` | `ChangesOrchestrator.payload`; `encoded`, which leaves out defaults that no `EncodeDefault` protects, as an object with fewer keys; the `normalize...` functions of `changes-model.ts`, which reject an object or drop an entry |
| `ChangesModel` | the groups, cards, filters and search of the Changes page, `scanFeedback`, and what a click on a card opens |
| `ResourceModel` | `resourceModel` with its queries, what each page lists, `pageFor`, and the sentences for empty lists |
| `GraphUtils` | `deriveVisibleGraph`, `layoutVisibleGraph`, `toFlowGraph` |

`Evidence` puts them together. A world is what the server runs; an outcome is
how far the discovery of one scan got, as the helper reports it: the helper did
not run (`SCAN_FAILED`), some Caddy configurations were unreadable, the listing
of the services or of the listeners failed (`COMMAND_FAILED`) or lost some of its
records, a batch or only a line (`PARTIAL`), a process ended while its owner was
looked up. `Scan` takes any
world and outcome, compares with the scan before, and puts what comes out of
`payload`, `encoded` and `normalizeChangesResponse` on the page. The
properties compare the page with the worlds, which the program never sees:
confirmed changes and the targets of routes shown as resolved are those of a
complete scan (`Real`), a page whose own list says "none" is right, and what was
completely discovered is not missed. The target of a route shown as partial or ambiguous
is only one of those that a complete scan may find. Three other sentences say
"none" too readily (finding 6).
The clock of the workstation may go back between two scans, which
gives `INVALID_TIME_ORDER`.

### Workspace: what the user does with a graph

`ui` is the state of `App.tsx` that navigation reads and writes: section,
subsection, selected resource, inspected change, topology with its focus, and
which scan's graph is set. Each handler is a function on that state. `Click` is
any handler that an element of the current render would call; `LateClick` is one
of the last render that runs when a scan's result has been set and not yet
drawn, so that it reads the old graph and changes the new state. `Receive`,
`ScanFails` and `Disconnect` are those of the page in `ScanSession`, here with
what they reset of the views. `ScanSession` owns the protocol and
`Workspace` what the page makes of its results; `active` and `connected` mean
the same in both.

## 3. The runs

| run | instance | properties | shows |
|---|---|---|---|
| `store_shared` | 2 threads, limit 2, 4 captures, 2 contents, crashes, lost indexes, failures | `IInv`, `BoundedHistory`, `EvictOnlyOldest`, `Linearizable`, `LockReleased` | two windows on one server: what every interleaving of two calls leaves on disk after any step |
| `store_single` | 1 thread, limit 2, 5 captures, 1 damaged file | `IInv`, `BoundedHistory`, `NoConsecutiveDuplicates`, `LatestIsNewest`, `SavedIsListed` | a longer history with damage: `latest()` repairs what it finds, a reported save is listed |
| `store_damaged_eviction` | 1 thread, limit 2, 1 damaged file | violates `EvictOnlyOldest` | finding 1 |
| `store_two_windows` | 2 threads | violates `NoConsecutiveDuplicates` | finding 2 |
| `capture` | 2 windows, 2 connections, limit 2, 3 captures, 1 comparison, failures, restarts | `CaptureInv`, `PayloadOfOneServer`, `ForwardInTime`, `MissingOnlyIfEvicted` | one identity per connection; payloads that are about one server, run forwards in time and agree with the history beside them |
| `capture_deduplicated` | 2 windows, 1 connection | violates `NoChangeWhenDeduplicated` | finding 4 |
| `session` | 2 servers, 2 scans, 2 history requests, free interleaving, scans may die, fairness | `SessionInv`, `ActiveWhileOwed`, `GraphAgreement`, `NoRepopulation`, `ScanEnds`, `LoadingEnds` | Disconnect and the next scan are held back as long as anything of a scan is on its way; no endless scan or spinner |
| `session_wrong_server` | 2 servers, 2 scans, 1 history request | violates `ChangesOfShownServer` | finding 3 |
| `evidence` | 5 worlds, 2 scans, each failing in up to 2 places, lost processes | `ConfirmedNodesAreReal`, `ConfirmedRelationshipsAreReal`, `CompleteDiscoveryMissesNothing`, `EveryRecordShownOnce`, `CountsShown`, `FeedbackIsTrue`, `PageReadsWhatWasWritten`, `EmptyPageMeansNone`, `RouteTargetIsReal`, `AmbiguityIsShown` | evidence is sound and complete as far as discovery was, nothing is lost on the way to the page, and neither an empty page nor a route shown as resolved claims more than was seen |
| `evidence_quality` | the same worlds, 1 failure per scan | violates `QualityIsNoChange` | finding 5 |
| `evidence_empty` | 1 world, 2 scans, of which each may fail altogether | violates `EmptyMeansNone` | finding 6 |
| `workspace` | 5 scans of a server, all clicks | `TypeOK`, `TopologyUsable`, `PlacedApart`, `SelectionLands`, `EveryContainerOnce`, `TwoSourcesAgree`, `TopologyOnlyOnRequest`, `ChangesOpensClean` | selection, topology and pages fit the graph that is shown, also after a late click; metadata and edges tell the same |

The session runs set `CHECK_DEADLOCK FALSE`: once the window is closed and its
scans have ended nothing is left to happen. So do the evidence runs, which end
after the second scan. For every property of a passing run
`PROJECT.json` names a mutant of the code (a dropped lock, an index trusted by
its size, a recovery without retention, an event that is only logged...) that
violates it.

### Bounds

Eviction needs one snapshot over the limit, and the error that a crash leaves a
second one: with a limit of 2, 4 captures (5 where a file is damaged) show every
order of a save, an eviction and a recovery, also of two threads. Two contents are enough
for repeated and changed fingerprints; one damaged file is enough for each
repair. Two threads are enough for the lock: each call is a critical section.
In the passing runs captures are strictly ordered in time (`StrictClock`), which
makes the next instant and the next ID stand for all; ties and clocks that go
back are covered by the theorems, which hold for both settings. Two scans give one
that ends, fails or dies and one that a rejection, a Disconnect or a late event
of the first can meet, of the same server or another; two history requests can
both be under way during either. All numbers are constants of the models.

In `capture` three snapshots fill a history of two and evict one while a
comparison runs, or put two servers into one window; the run is reduced by the symmetry
of windows, connections, server IDs and contents, none of which the code tells
apart. UUIDs and instants are ordered, so they are not symmetric.

In `evidence` the worlds differ from the first one in each kind of resource and
relationship: a second replica that makes a route ambiguous and a container that
changes networks and ports (one world), a project that disappears with its route, a listener
that changes its owner, Caddy and a service that disappear. Two failures in each
of two scans let any pair of subsystems be incomplete before, after or both. The
comparison reads two snapshots and nothing older, so two scans are enough. In
`workspace` the state is finite and no action is bounded; the scans have projects
without containers in sight, empty lists, mounts of one container, a container
behind two domains and a server without Docker.

### Fairness

`SnapshotStore`: a thread inside the repository keeps running (`Fairness`, WF on
`Step`); nothing obliges callers to call or the environment to fail.
`ScanSession`: the handler and the page serve their queues, and a scan thread
goes on. The last is what the code's timeouts give: `SshjExecutor` bounds the
connection and every command, and the executor is closed in `finally`. Users, crashes
and disposal are under no fairness. `ScanEnds` exempts a scan that dies:
one ended by an `Error` sends no event and leaves the page active until the
window is reopened; no document claims otherwise. `ChangesCapture`, `Evidence`
and `Workspace` state no fairness: all their properties are about safety.

## 4. What disagrees with the documents

1. **A damaged file costs a valid snapshot** (`SnapshotRepository.kt:75`).
   Retention counts index entries, not files that load, so a damaged snapshot
   that is still listed takes a place and `save` deletes an older valid one.
   `PROJECT.md:1017`: one bad file cannot block other history;
   `RELEASE_HARDENING_R1.md:38`: valid snapshots only.
2. **Neighbours with one content** (`SnapshotRepository.kt:62`). Two windows
   that capture one server and save in the other order store a snapshot next to
   an older one with the same fingerprint. `PROJECT.md:1019`: identical
   consecutive fingerprints are deduplicated.
3. **Changes of another server** (`ChangesOrchestrator.kt:73`). When the capture
   of a newly scanned server fails, `activeServerId` and the page's payload stay
   with the previous server, and comparing its snapshots succeeds beside the new
   graph. `PROJECT.md:1070`: both snapshots belong to the active server.
4. **A deduplicated capture with changes** (`SnapshotPersistence.kt:33`).
   `latest()` and `save()` lock separately. When another window saves the same
   content in between, the capture is deduplicated against the new baseline and
   compared with the old one, or with none. `PROJECT.md:1066`: an identical
   live fingerprint is compared with the latest baseline and shows no changes.

5. **A modification that did not happen** (`InfrastructureDiffEngine.kt:117`).
   `fieldSubsystems` guards the host resolution of an upstream and the resolved
   services of a domain, not the summarized `resolution` of a domain, which is
   computed from the same listeners and owners. When the second scan finds the
   services only in part, the domain of an unchanged server is `MODIFIED` and
   `CONFIRMED`, from `HOST_SERVICE` to `HOST_LISTENER`, and counted.
   `PROJECT.md:1041`: discovery-quality transitions are context rather than
   resource changes.
6. **None where discovery failed** (`App.tsx:312`). The Explorer says "No domains"
   whenever the graph has none, also after the helper did not run, while the routing page
   says that it is unavailable. The Overview says "No Docker applications
   detected." beside standalone containers (`App.tsx:350`; the page of the
   applications, `:356`, does not), and the filter of the services "No services
   match the listening filter." when the listeners were not discovered (`:368`); with
   these lists alone the property is violated too. `PROJECT.md:1098`: provenance
   distinguishes an unavailable helper from Docker or Caddy that is genuinely absent.

Behaviour met while modelling that no document contradicts, and that the
properties are worded around:

- A process that ends between `ss` and the reading of its cgroup leaves its
  listener `UNRESOLVED` while discovery is `DISCOVERED`, so that the loss of its
  owner is confirmed (`vpsgraph_docker_scan.py:621`). `Raced` exempts it.
- A replacement card joins a removal with an addition whatever the evidence of
  each (`changes-model.ts:264`).
- `NO_CHANGES` after an equally incomplete scan is shown as no changes, so
  `FeedbackIsTrue` speaks of a complete older scan only; the detail on the page
  says that the fingerprints match (`changes-model.ts:187`).
- `topologyOpen` survives a rescan and closes with the next navigation; a late
  click can leave a selection or focus of the old graph, which every view takes
  for none (`App.tsx:185`).
- The inspected change may be of an older comparison than the payload that a
  running one replaces (`App.tsx:252`).
- A selected service without listeners, or proxy without routes, opens a page
  that does not list it under its first filter (`resource-model.ts:118`).
- The columns of the view `EVERYTHING` overlap (`graph-utils.ts:171`); the page
  only draws `OVERVIEW`.

## 5. The proofs

TLC checks the instances of section 3. What follows holds for every value of the
constants: any number of threads, windows, servers and scans, any UUIDs,
instants, contents and limits, any worlds and any failures of discovery. Each
safety property that a passing run checks is stated by a theorem here.

### What is assumed

Each assumption on a constant is an `ASSUME` of the module that declares it, which
TLC evaluates on every instance.

| assumption | why the code justifies it |
|---|---|
| `RetentionAssumption`: the limit is positive | the `require` of `SnapshotRepository.kt:53` |
| IDs and instants are numbers | UUIDs and instants are only compared and tested for equality |
| `WorldsAssumption`, `ScansAssumption`: what a server runs and a scan finds is finite, the ports, networks and mounts of a container too; container IDs, unit names, listener addresses and Caddy containers are unique; upstreams are lists | container IDs are Docker's; the parser applies `distinctBy` to the units and addresses, and bounds every list |
| `NoneAssumption`, `ServersAssumption`: `None` is none of the values it stands beside | it is Kotlin's and TypeScript's null |

Some theorems have a hypothesis, and a run shows that it is needed:

| hypothesis | theorems | without it |
|---|---|---|
| `MaxFileDamage = 0`: nobody but the repository damages its files | `EvictionIsSafe`, `StoreImplementsHistory` | `store_damaged_eviction` (finding 1) |
| `Captured`: one thread, and a clock that advances | `NeighboursDiffer`, `SavedStaysListed` | `store_two_windows` (finding 2) |

### The repository: `SnapshotStoreProofs`

| theorem | states | for |
|---|---|---|
| `TypeCorrect`, `InvariantHolds` | `TypeOK`, `IInv` | |
| `HistoryIsBounded` | `BoundedHistory` | |
| `EvictionIsSafe` | `EvictOnlyOldest` | no damage from outside |
| `LatestReturnsNewest` | `LatestIsNewest` | |
| `StoreImplementsHistory` | `Linearizable` | no damage from outside |
| `NeighboursDiffer` | `NoConsecutiveDuplicates` | one thread, advancing clock |
| `SavedStaysListed` | `SavedIsListed` | one thread, advancing clock |

`BoundedHistory` is not inductive: a call may be anywhere between a new file and
its evictions. `IInv` therefore says of every moment what the thread in
the lock knows. `LockInv`: only the holder of the lock has a list and a
plan. `IdentityInv`: a UUID names one snapshot wherever it is kept, so deleting by
ID deletes what was meant, and a snapshot that is not written yet has an ID of
its own. `BoundInv`: a thread that reads or recovers knows every valid file, and
each list respects the limit; this gives `BoundedHistory`. `EvictionInv`: while
nothing was damaged, kept entries have their files, doomed ones are older than a
full list; this gives `EvictOnlyOldest`. `store_shared` and `store_single` check
`IInv` as a whole.

For the refinement `CallInv` adds that a directory that does not exist has no
files, and that a save that has not written its file still has its snapshot. Each
step is then mapped by what it does to `Retained(valid)`: only `SaveFile` changes
it, and by exactly the abstract save; an eviction or the deletions of a recovery
touch what is not retained; everything else stutters. For one thread `OrderInv`
adds that a capture is newer than all that is known, so that a save puts it at the
head of the history (`ClockInv`), and that the list about to be written has what
was saved (`ListedInv`). All this rests on `SnapshotOrderTheorems`: `Newer` is a
strict total order, `First` and `Retained` return what they are for, and a full
set is left when anything is dropped.

### Captures of several windows: `ChangesCaptureProofs`

| theorem | states |
|---|---|
| `CaptureCorrect` | `CaptureIInv` |
| `OneIdentityPerConnection` | `CaptureInv` |
| `PayloadsOfOneServer` | `PayloadOfOneServer` |
| `ShownForwards` | `ForwardInTime` |
| `MissingIsEvicted` | `MissingOnlyIfEvicted` |

What a payload says was read some steps before, while other windows saved and
evicted. `CaptureIInv` follows a snapshot from where it is read to where it is
shown. `HistoryInv`: a history holds snapshots of its server. `KnownInv`: UUIDs tell
apart all that is stored or held by a call, and the clock is past them.
`RegisterInv`: who registers a connection has the lock, and nobody else registered
it since it looked. `ScanInv` and `QueryInv`: what a call holds is of the server
it works for, in time order, and is still stored or was dropped for a full
history of newer ones. `ActiveInv` and `PayloadInv` hand this over to what is shown.

### The protocol of the page: `ScanSessionProofs`

| theorem | states |
|---|---|
| `SessionCorrect` | `SessionIInv` |
| `OneScan` | `SessionInv` |
| `WaitsForItsScan` | `ActiveWhileOwed` |
| `SameGraph` | `GraphAgreement` |
| `NoLateGraph` | `NoRepopulation` |

A scan has one token, and `OneToken` says that it is in one place: a request on
its way, a running thread, or an ending on its way back, and that the ending is behind
all the other events of its scan. As long as the token is anywhere the page waits
(`WhileOwed`), which is why it cannot ask for another scan or disconnect; so
what is owed is of the present epoch (`OwnEpoch`), and a graph that was published
is shown or on its way (`GraphOnItsWay`). The proofs hold for both settings of
`OneBrowserThread`, for queues of any length and any number of scans.

### Graphs, comparisons, evidence: `GraphTheorems`, `ChangesTheorems`, `EvidenceProofs`

`GraphTheorems` says what `create` makes: which nodes and IDs, that an ID names one
node and tells its type, and for each relationship exactly which pairs it joins, so
that the parent of a container is its project and the route of a domain leads where
the resolver pointed. `ChangesTheorems` says what `compare` makes of two
snapshots: which changes with which evidence, the counts, and what the page keeps
of them.

| theorem | states |
|---|---|
| `PayloadIsRead` (`ChangesTheorems`) | serialized and normalized, a payload of any two snapshots is what it was |
| `EvidenceCorrect` | `EvidenceIInv` |
| `ReadAsWritten` | `PageReadsWhatWasWritten` |
| `ConfirmedNodes`, `ConfirmedRelationships` | `ConfirmedNodesAreReal`, `ConfirmedRelationshipsAreReal` |
| `NothingIsMissed` | `CompleteDiscoveryMissesNothing` |
| `EmptyListsAreTrue` | `EmptyPageMeansNone` |
| `FeedbackHolds` | `FeedbackIsTrue` |
| `CountsHold`, `RecordsAreShownOnce` | `CountsShown`, `EveryRecordShownOnce` |
| `AmbiguityHolds`, `RouteTargets` | `AmbiguityIsShown`, `RouteTargetIsReal` |

The evidence rests on two facts about one scan, each for nodes and for
relationships. What a scan found is real: its graph is part of the graph of a complete
scan of the same world. And where the subsystems that a type requires were complete,
all of that type was found. A confirmed addition then was found in the second
scan, so it is real, and not in the first, which was complete, so it was not
there; a removal is the mirror image. The exception is the owner of a listener
whose process ended during the scan (`Raced`), with which the theorem is stated.

The properties on counts need the sets of records to be finite, which follows
from finite worlds by the shape of the records, and each record to be on one
card, which follows from one label and one section per ID. For routes the
argument is that a resolver names a target only if it is the only match. It
chooses among the containers, which a scan finds all or not at all, or among the
owners of listeners that were all discovered, each with its owner; so the only
match of the scan is the only one in the world. A row that is not resolved
names what edges of the scan's graph lead to, and these are edges of a complete one.

### What the user does with a graph: `WorkspaceProofs`

| theorem | states |
|---|---|
| `WorkspaceCorrect`, `TypeCorrect` | `WorkspaceIInv`, `TypeOK` |
| `TopologyIsUsable` | `TopologyUsable` |
| `TopologyIsRequested`, `ChangesOpenClean` | `TopologyOnlyOnRequest`, `ChangesOpensClean` |
| `ContainersOnce`, `SelectionsLand`, `SourcesAgree` | `EveryContainerOnce`, `SelectionLands`, `TwoSourcesAgree` |
| `NodesPlacedApart` | `PlacedApart` |

`WorkspaceIInv` says where a focus can come from: a focus needs an open topology,
and what is selected beside it is drawn, because the selection is the focus or
was clicked on the canvas, and a late click that carries a focus of the last graph
into the new one leaves nothing of it selected. `Clicked` sums up what any
handler can make of a state, so that the step is proved once for all of them. The
theorems on the pages follow from `GraphTheorems`: a node is the only one of its ID,
and each query of the page runs along edges that join what they were made from.

The layout is proved for any number of nodes (`LayoutIs`). A `Panel` is a set of
positions, one for each of its nodes, apart, at some of the x; two panels with
different nodes and different x are one beside the other (`Beside`). The
columns of a view have different x, so only the one of the containers is hard: its
groups stand one below the other. That each group ends before the next one starts
is an induction over the groups, here over the set of the numbers for which it holds
(`AllNumbers`, `TopsGrow`), which the provers can instantiate. That no container is
drawn in two groups is that its parent is the one project its scan names
(`LayoutableIs`), and that no node is forgotten is that a view shows only the
types it has a column for (`DerivedIsPart`).

### What is only model-checked

- `LockReleased`, `ScanEnds` and `LoadingEnds`: liveness under fairness, which
  needs `ENABLED`.
- The six runs that show a disagreement: a counterexample is an instance.

## 6. What is not modelled

- Repository: size limits of files, the scan limit of 200 files (fewer than 150
  corrupt files are assumed), symbolic links, and the non-atomic rename on file
  systems without atomic moves.
- Session: the choice of a key file (a modal dialog of the handler), the mock
  graph and the remembered form at start, reloads of the page.
- Scan: SSH itself, host key checks, parsing. A scan is the order of its events
  (`ScanSession`) or the outcome of its discovery (`Evidence`), and the server
  does not change while it is scanned. The helper's `run_readonly_command`, its
  two drain threads and its limits are not modelled: their results are outcomes.
  Nor is the fallback of `systemd_service_for_cgroup` to an enclosing service: the
  cgroups of services do not nest.
- Comparison: the statuses `INCOMPATIBLE_SNAPSHOT_SCHEMA` and `INVALID_SNAPSHOT`
  (`InfrastructureDiffEngine.kt:5-11`), which no snapshot of this plugin's factory
  has: its schema is the current one, and IDs and edges are its own.
- Graph: metadata that copies one field of one resource, hashed ids, the
  normalisation of domain names, the parsing of dials.
- Views: search and its keyboard, panels, texts, themes, the onboarding guide,
  scrolling, the history list of the Changes page, and the order of lists.
- `DockerDiscovery` never yields `DOCKER_UNAVAILABLE`, and `MALFORMED_OUTPUT`
  of `ui-state.ts:113` is no status of the plugin: both are treated as the code does,
  and no outcome produces them.
- Captures: damaged snapshots and an unreadable identity file (each is a failure
  of the call), a clock that goes back between captures.
- Components with status `not_modelled` in `PROJECT.json`, with the reason there.

## 7. Plan

Every component with state of its own that the properties could reach is
modelled, or has its reason in section 6, and every safety property is proved. Should
the models be extended, what comes next is `run_readonly_command` with its threads,
the kill flag and the timeout, and the disposal of an SSH connection from another
thread.
