# TLA+ models of the universal-ontology query system

This directory holds TLA+ specifications of the concurrent and failure-prone parts of
this repository, the TLC configurations that check them on small instances, and theorems
about them whose proofs TLAPS checks for every value of the constants.

    cd tla
    tlc -config WaiterAwareSharedOperation.cfg WaiterAwareSharedOperation.tla
    tlapm WaiterAwareSharedOperationProofs.tla

`PROJECT.json` lists, in a form tools can read, the components, the runs, the source lines
each definition translates, one mutation of the code per property that the property
catches, the hazards and the theorems.

Paths below are relative to the root of the repository. *Query package* is
`packages/universal-ontology-query/src`, *server package*
`packages/universal-ontology-mcp-server`.

## 1. The system

Universal Ontology publishes ontologies and answers questions about them: over MCP (a
stdio server each user runs, a local HTTP server) and in the pages of its web site. The
query package reads *artifacts* (immutable files named by their SHA-256) from an origin,
keeps them in a cache directory that several processes share, and answers lexical questions
from indexes and structural ones by SPARQL in a worker thread. Scripts build the
artifacts and the website, qualify and publish them, install the servers on a developer's
machine, and decide which checks a revision has to pass.

    MCP tools ──► Node query module ──► lexical query module ──► shared operations
                        │                     (index cache)           │
                        │                                             ▼
                        └──► store execution ◄── worker     artifact repository
                               (main thread)     thread      │            │
                                                       channel state   HTTP reader
                                                             │
                                               artifact cache directory
                                            (leases, files, generations),
                                              shared by several processes

    sources ──► full builds ──► query artifacts, catalog ──► channel      (files in dist)
       │                                   │
       └──► qualification ──► receipt ──► gate ──► sealed copy ──► upload
    set-up ──► bundle of the server, host documents      changed paths ──► plan ──► gate
    bundle ──► platform archives, tarball ──► SBOMs, checksums ──► verified candidate

### Components

The status is that of `PROJECT.json`: *m* modelled, *p* partly (the note there says what is
left out), *n* not modelled.

| Component | | State | Operations | Hard behaviour | Correct when | Module |
|---|---|---|---|---|---|---|
| Shared in-flight operations (`createWaiterAwareSharedOperation.js`) | m | key → entry; waiter count, controller, promise | run, abort of a caller, settlement, cleanup | order of reactions; cancellations among joins | nobody's work is aborted by another's cancellation; abandoned work is forgotten; every waiter is answered | `WaiterAwareSharedOperation`, `CoalescedCalls` |
| Store execution and worker (`createOntologyStoreExecution.js`, `ontologyStoreWorker.cjs`) | m | FIFO, active request, worker, byte account; in the worker the loaded dataset | query, deadlines, abort, messages, worker death, close | late messages; timers that outlive a request; asynchronous termination | answered once, with its own rows; one worker; nothing stranded or leaked | `OntologyStoreExecution`, `StoreService` |
| Node query module (`createNodeOntologyQueryModule.js`) | m | pending count, reserved bytes, closed | select, admit, load, hand over, close | two accounts on both sides of awaits | the accounts agree; close ends every call | `NodeOntologyQueryModule` |
| Lexical query module (`createOntologyQueryModule.js`, `ontologyContextSearch.js`) | m | LRU of parsed indexes; cursors, references | select, search, resolve, page | an abandoned load completes after a fresh one; catalogs move; pages end anywhere | account covers entries; references, pages and ranks are stable | `OntologyIndexCache`, `SnapshotSelection`, `SearchPages`, `LexicalSearch` |
| RDF queries (`ontologyContextQueries.js`) | p | – | expand, connect | three limits on different levels | an answer says what it lacks | `OntologyContext` |
| Lease between processes (`persistentOntologyQueryArtifactCache.js`) | p | a directory, `owner.json`, times, renamed copies | acquire, heartbeat, verify, release, reclaim | no atomic compare-and-remove; crashes; time | one operation at a time; a dead owner does not block | `CacheLease` |
| Artifact files (same file) | p | the file of a digest | read, quarantine, install, evict | replacement between any two calls | corrupt bytes do not stay; racing installers succeed | `ImmutableArtifact` |
| Channel state (same file, `persistentHttpOntologyQueryArtifactRepository.js`) | p | generations, artifacts, recency | read, revalidate, install, prune, evict, fall back | crash at any step; a stale view | the last good state is kept; a start ends | `ChannelStateCache` |
| Release indexes (same two files) | m | in-flight populations | read, populate under a lease, evict | callers of different releases share bytes; eviction meanwhile | a failure can be explained; fetched once | `ReleaseIndexReads` |
| HTTP reader, page repository | p | one read | fetch, read the body, abort | deadline against answer, chunks and end | it ends; no body stays open; bytes are whole | `ArtifactHttpRead` |
| stdio server, its configuration | m | lazily built module, shutdown state | start, call, cancel, signal, close | shutdown during construction | closed once; every call answered; no setting ignored | `McpStdioServer`, `StdioConfiguration` |
| Local HTTP server (`runLocalOntologyMcpServer.js`) | p | bucket, permits, drain | admit, refill, read, drain, force | deadline against drain | permits exact; shutdown ends | `LocalMcpServer` |
| Tools and rendering | p | – | signals, fitting of results | – | see stdio server, pages, context | (those three) |
| Asset worker pool (`ontologyAssetWorkerPool.js`) | m | queues, tasks, threads | dispatch, result, error, exit, deadline | fail-fast with tasks under way | every task in one place; it settles | `OntologyAssetWorkerPool` |
| Full builds (`fullOntologyAssets.js`) | p | lock, receipt, outputs | capture, write, clean, seal, verify | crash between receipt and outputs; edits | the receipt is true | `FullOntologyBuild` |
| Query artifacts, channels | p | objects, catalog, channels | generate, bundle, stage | crash; a website build that copies meanwhile | what is published is complete | `QueryArtifactPublication` |
| Qualification and publication (`ontology_policy`, `upload_to_s3.py`) | p | receipt, `dist`, sealed copy | validate, gate, seal, upload | everything read one after the other | the upload is one website, qualified as a whole | `WebsitePublication` |
| Host set-up (`set_up_mcp_servers.py`, the bundle build) | p | lock, programs, records, host documents | stage, exchange, roll back, merge, install | a concurrent editor and builds; failure of any step | edits survive; what is installed is one product | `SetUpTransaction`, `HostConfigurationMerge`, `ServerInstallation`, `ApplicationBundle` |
| Release candidates (`scripts/distribution`) | p | release directory, runs of the archive build | build, link, pack, describe, sum, verify | runs and builds of the bundle at once; edits; all of it while one verifies | what is reported is there; a verified candidate is one product | `ReleaseCandidate`, `ApplicationBundle` |
| Pull-request checks | p | plan, jobs, records | plan, run, gate, reuse | narrow routes; runs repeated while read | green is earned; reuse is proved | `CheckPlan`, `QualificationReuse` |
| Website, WebMCP | p | registration, lazy resolver | register, call, hide, show | publication while a call runs | a call answers about its document | `DisplayedOntologyTool` |
| Cache directory initialization, index generation, schemas, limits and errors | n | – | checks, projections, parsers | – | – | – |
| Ontologies and vendored code | n | – | – | – | – | – |

The hazards these behaviours amount to are listed with the line at which each bites in
`PROJECT.json` ("hazards"), with the property that covers it or the reason none does.

## 2. The modules and the code

State and actions keep the source's names where possible. The granularity differs, for a
reason each: JavaScript of one thread interleaves only at the turns of its event loop, so a
step there is one uninterrupted piece of synchronous code or one promise reaction;
processes that share a directory interleave at file-system calls, so a step there is one
such call; where an algorithm is the subject, a step is one round of its loop, or the whole
of it.

`MCServices`, `MCQueries` and `MCOperations` run several components side by side. A
variable (`service`, `query`, `operation`) names the one that is active in a behaviour; the
others stay in one initial state. So each is explored by itself, as if by a run of its own,
with one configuration and one set of properties for all. What is proved about such
components is stated where their constants are still parameters: `Services` is the composition
that `MCServices` instantiates; `Operations`, which `MCOperations` extends, that of the builds,
the release candidate, the set-up transaction, the installation, the configuration and the
merge of documents; `Delivery` that of the
checks, their reuse, the website and its tool, which `MCQueries` extends beside
`SnapshotSelection`, `OntologyIndexCache`, `SearchPages`, `LexicalSearch` and `OntologyContext`. Components that
really interact are composed in their modules: `NodeOntologyQueryModule` over `OntologyStoreExecution`, `OntologyIndexCache` over `WaiterAwareSharedOperation`,
`ReleaseIndexReads` over `CoalescedCalls`, `ServerInstallation` and `ReleaseCandidate` over
`ApplicationBundle`.

In several modules an operator stands before another of the same parameters and is used by
nothing (`AdmitsOneMore` before `Admits`, `NoLock` before `LockIsFree`): the form the
definition would have with a plausible mistake. Substituting it must violate a property;
`PROJECT.json` lists one for each property, and the others were tried by hand where a
property is a conjunction.

### CoalescedCalls and StoreService

The abstract specifications; no code is translated by them. `CoalescedCalls` is what callers
of coalesced work are promised: work of a key is shared by the calls that joined it, `live`
while anybody waits, `abandoned` once nobody does, `finished` for good. `StoreService` is a
bounded first-come-first-served service that works for one request at a time, may lose its
worker at any moment, and answers each admitted request once.

### WaiterAwareSharedOperation

An *entry* of the registry is named by the call that created it.

| Model | Code |
|---|---|
| `registry`, `waiterCount`, `aborted` | `inFlightByKey`, `entry.waiterCount`, `entry.controller.signal.aborted` |
| `promise[e]` | `entry.promise`: `pending`, `settled`, and `cleaned` when the reaction that unregisters it has run |
| `RunCancelled`, `RunJoins`, `RunStarts` | `runSharedOperation` when the signal is aborted before, when an entry exists, when it does not |
| `RunStartsAndCancels` | the synchronous start of the operation aborts the caller's own signal |
| `HandleAbort`, `ReleaseWaiter` | `handleAbort`, `releaseWaiter` |
| `CleanupReaction`, `WaiterReaction` | the reactions of `entry.promise`, in the order in which they were attached |

Calls are one-shot; the result of an operation is not represented, success and failure are
treated alike by the registry.

### OntologyStoreExecution

A worker is named by the request that started it. `failing` is the request whose failure
waits for the termination of its worker; `mail[w]` is the queue of messages of worker `w`,
which outlives the worker, so that any message may come late.

| Model | Code |
|---|---|
| `QueryRefused`, `QueryAdmitted` | `query`: closed, aborted, over the queue or byte limit; otherwise enqueued |
| `Pump` | `pump`, which every handler below calls |
| `DeadlineOrAbort`, `QueryDeadline`, `Cancel` | the lifecycle timer and the abort listener; the query timer; `cancel` |
| `Message` | the worker's `message` handler with its stale-message guard |
| `WorkerDies`, `FailActive`, `WorkerTerminated` | the `error` and `exit` handlers, `failActive`, the continuation of `terminate()` |
| `Close`, `CloseResolves` | `close` |
| `WorkerLoads`, `WorkerStarts`, `WorkerReplies` | `ontologyStoreWorker.cjs`: load if another dataset is loaded, announce, query, reply |

A load may fail half-way: the partial store is the value `"partial"`, and the key of the
loaded dataset is cleared before a load as in the code. Left out: the store-loaded and
query-finished events, which change nothing but a listener's view; `new Worker` throwing.
Messages of dead workers are over-approximated (any that was posted may still arrive).
Refusal for the queue limit is a choice of the environment as well, since an aborted signal
refuses too, so bounds that never fill the queue lose nothing.

### NodeOntologyQueryModule

`stage[r]` is where a call of the module is: selecting, loading, handed over, ended; its
admission (`Admits`, `Reserve`) is `reserveCapacity` and comes before the datasets are
read, `Release` gives back on every path of the `finally`. `LifecycleAborts` is the joint
signal of caller, deadline and close; `ModuleClose` closes the execution as well. A read may
hang, but ends when its signal is aborted.

### SnapshotSelection, SearchPages, LexicalSearch, OntologyIndexCache

`SnapshotSelection`: `selectSnapshot` for a root, a graph or a list of releases; a reference
is the digest of what it selects; between the answer and the call that brings it back,
releases are appended or replaced. `SearchPages`: the loop that fills a page, one match a
step, with its limits on entities, bytes and candidates (`EntityDoesNotFit`,
`DefinitionDoesNotFit`, `CandidatesExhausted`), and the cursor `Cut`. `LexicalSearch`: texts
are sequences of one-letter words, so that equality, prefix and substring are those of
sequences; `Best` is the choice of an entity's candidate, `SearchEntities` and `ResolveLabel` the
two operations. `OntologyIndexCache`: `loadRuntimeIndex`, over the registry of shared loads;
after the read and after the digest a load pauses, and what is evicted and counted then is
`LoadCompletes`.

### OntologyContext

An edge is a connection the store has evidence of. `Expand` is one entity of
`queryOntologyContext`'s level loop, `Connect` `findOntologyConnections`, and the last part
`fitApplicationResult`, which drops detail, statements and nodes until the answer fits.
Two parts of an answer are not modelled: `completedExpansionDepth`, which names a level that has
not been completed when the limit on nodes stops an expansion early, and the truncation reason
`expression_limit`, which is added where class expressions are cut and takes no other away.

### ArtifactHttpRead and ReleaseIndexReads

One read over HTTP, in two adapters: the persistent repository's, with a deadline, and a
page's, which reads from its own origin, has none and leaves a refused body to the browser.
The origin answers anything, in pieces, or never. `ReleaseIndexReads`: what is not in the
cache is fetched by one population a process, under the lease of the digest, by one process
at a time; each caller judges the bytes against the release it asked for, and a read whose
bytes fit ends with `cache.prune`, in steps: `ListFiles` reads the directories, `LookUpFiles` looks
up what was listed, `Evict` removes one file at a time. A file that another read's eviction removes
between the first two fails the lookup, and with it a read that has its bytes already
(`QUERY_INDEX_UNAVAILABLE`); `overtaken` remembers those reads. Nobody publishes or prunes
channel states meanwhile; that is in `ChannelStateCache`.

### McpStdioServer, LocalMcpServer, StdioConfiguration

The SDK, node's HTTP server and the query module's `close()` are external: they answer or
hang as they like. `McpStdioServer`: the construction of the query module is one promise
that transports share; `Signalled` is the joint signal of a tool call. `LocalMcpServer`: a
token is `Scale` units, a tick earns `Refill`, so fractions are exact. The clock may go back. A
refusal announces `RetryAfter`, counted from the present clock (`promisedAt`), while the bucket
refills from its latest reading: if the clock has been turned back behind that reading, by `setBack`,
the client that retries when it was told to is refused, and may be for that much longer.
`StdioConfiguration`: the parsing loop as a fold over the arguments (any
number in the proofs, at most two in the run), then the environment; a value stands for the
texts an option treats alike.

### CacheLease

A lease directory is named by the call that made it; a call is one-shot. `lease` is the
directory that has the lease name, `detached[p]` the one `p` has renamed, `owner[d]` the
token in `d`; `age[d]` and `dirAge[d]` are the times since the modification of its
`owner.json`, which a heartbeat renews, and of the directory itself, which none renews, both capped
just above the threshold. `misled` is history: an observation has judged by the time of one
directory what was at the name after it.

Each action is one call of `acquireLease`, `heartbeatLease`, `tryReclaimStaleLease`,
`releaseLease` or `withLease`: mkdir, write of `owner.json`, verification, the two lstats of an
observation (`Observe` of the directory, which keeps what it has read in `seen` and `seenAge`, and
`ObserveOwner` of `owner.json`, with the judgement), detaching rename, judgement of what was
detached, removal or rename back. Renames have POSIX semantics: renaming back over a lease
that has been created meanwhile fails and leaves the detached directory where it is. The
retries on Windows' transient errors are not modelled. `Tick` is time, `Timely` says what
is assumed of it (section 4).

### ImmutableArtifact

A file is its inode: `name` is the inode the digest names, `corrupt` those with wrong bytes.
Readers and installers follow lstat, open and compare, read, and if the digest is wrong
identify, link into quarantine, compare, unlink; installers link their own file if the name is
free and start over if not, up to `Attempts` times; evictors list, check identity, unlink.
An inode number is not reused; managed files have the right owner and mode.

### ChannelStateCache

`gens` maps generation numbers to the version each state file refers to; a version has a
manifest and a catalog artifact. `artifacts` is ordered by recency. A process goes through
`initializeCatalogSnapshot`: list and visit generations, newest first, for the retained
state; ask the origin (not modified, fetched, unavailable, refused); install catalog and
manifest; assert them; under the lease assert again, list, link the next number, list and
prune all but the two newest complete states; release; then protect what the retained
states refer to and evict the least recently used of the rest while the cache is over its
limit; and fall back to the retained snapshot where the code does.

Merged: the reads of one state's two artifacts, the lstats of one listing, the lstat and
unlink of one eviction. Left out: release indexes (`ReleaseIndexReads`), quarantine (`ImmutableArtifact`), the
lease on the population of one artifact, and retries of a number that exists, which the lease
excludes. The lease is exclusive here and one left by a crashed process is reclaimed by a
contender; `CacheLease` shows how the code gets there and when exclusion fails.

### OntologyAssetWorkerPool, FullOntologyBuild, QueryArtifactPublication

The pool: `SizeBalancedQueues` is the scheduling, `Receive` the handlers of messages and
thread events in the order in which they were posted, `Finish` the single settlement. A thread
may exit, fail or hang at any task. A worker that exits with code 0 leaves its task active;
`StoppedSilently` names this case, in which the pool waits for the deadline, or for ever
without one.

`FullOntologyBuild`: a build takes the lock, discovers releases, captures their inputs
while observing what each import read, asserts that they have not changed, removes the
former receipt, writes, removes stale outputs its receipt owned, asserts, seals. It fails or crashes
anywhere; sources are edited; leftovers of a crash are removed by hand. The lock is named
after the output directory while the receipt is per report directory: the model has one
of each.

`QueryArtifactPublication`: objects are named by their content, so a writer of an existing
name compares; the catalog is renamed into place, after the sources have been read again.
The bundler of the website writes in any order. A generation that ends in the middle of a file
leaves it truncated under its name, and later generations refuse it until it is removed.
The `latest` alias is read before the capture of the same source; it is not modelled.

### WebsitePublication

`BeginRun` to `WriteReceipt` are `run_policy_validation` and `write_report`: policy,
registry, one source after the other, the validation, then the identities of authorities,
and the receipt, truncated and written. `LoadPolicy` to `VerifyFullBuilds` are the gate, which
is passed on `dist`, on the sealed copy, and on it again before the upload; `ListFile`,
`CopyFile`, `ListAgain` and `Seal` are the copy. Texts, policies and authorities only move
forward: the gate reads each source twice and the copy each file three times, so an edit
that is taken back in between could pass unseen. Because authorities and lock are
identified after the validation, a receipt may name newer ones than were used.

### SetUpTransaction, HostConfigurationMerge, ServerInstallation

`SetUpTransaction` replaces several files, one file-system call a step: render, stage, back
up or exchange, compare what was displaced, and on failure the rollback with its check and
restoring call, with an editor that saves or removes documents at any time. Calls may fail, and an
interrupt (a `KeyboardInterrupt`) may come where nothing handles it: between a replacement and its
record (`PublishInterrupted`) or in the rollback (`RollbackInterrupted`). It leaves those files to
themselves: they stay new, and their backups go. `abandoned` remembers them (section 4, 4). An
interrupt between the making of a backup and its record, which leaves a superfluous backup behind
and loses nothing, is not modelled.
`HostConfigurationMerge`: the line editor of the TOML document and the merge of the JSON one,
with a user who inserts lines between runs. The promise about the user's lines supposes markers
in pairs and no block inside another (`WellMarked`): behind a BEGIN marker without its END, the
second run takes what follows, up to the next END, for its own block and deletes it; an END alone
makes it refuse; and replacing a block deletes what the user has moved into it, another name's
block included. What an obsolete name owns is what the removals take in their order
(`Disowned`, folded over `Legacy`, which has two names as in the code): a block of the second name
inside a table of the first is removed with the table, and then a key behind it is the table's
as well. Where a table ends is given with a text: that the pattern for headers in
`set_up_mcp_servers.py` does not recognise one with a bracket inside a quoted key is not shown.

`ServerInstallation`: set-ups under the lock of the repository, beside builds of the bundle
that take no lock. The GitHub server is resolved, kept or downloaded; the bundle is checked
against its metadata, copied, compared again, recorded. One step each: the
hash of an installed program with its copy. Files are lost only while no set-up runs; a failed
build is one that takes no further step. The worker is published before the bundle (the
comment in the build says the bundle comes first); the model follows the code.

### ApplicationBundle and ReleaseCandidate

`ApplicationBundle` is one run of the bundle's build: it reads `package.json`, bundles the
application and the worker at two moments, and publishes worker, bundle and metadata with one
rename each, over whatever others have published. `ServerInstallation` and
`ReleaseCandidate` each instantiate it for their runs.

`ReleaseCandidate` has the runs of the archive build, which each download a runtime, build the
bundle, read it and then its static files, create an archive and link it under its name; a name
that is there is not replaced but compared. Beside them the maintainer packs the tarball,
generates (`ReadSources` to `WriteSums`) and verifies (`ReadSources`, `ReadMetadata`,
`RequireManifest` to `CheckSboms`), one command at a time, again and again. A content is named
by the state of the sources it comes from and stands for its digest; an archive is created
and compared with its plan in one step, since it is in a directory of the run's own. Assumed of
the maintainer: one command at a time, and archives are removed only between commands
(`RemoveArchive`). A file appears whole in the step that writes it, but its writing may be cut
off: a command that fails or is killed leaves any of the files it was writing in part
(`AssemblyFails`, `BeingWritten`), where they stay until a command writes them again. The two
SBOMs are written at once, the documents one after the other.

### CheckPlan and QualificationReuse

A path stands for its class. `CreateCheckPlan` is the plan, `IsCheckPlan` what is asserted of
it: the rules of its schema, which a generated validator checks (`IsSchemaPlan`), and two of the
selector's own. A run whose plan is refused has a red gate without any failed job, so
`RedHasAReason` says as well that no plan is refused. Packages by hand are asked for by a manual
dispatch only (the selector throws otherwise), which `CheckPlanAssumption` says of the events. `StartedJobs` the conditions of
the workflows, `Suites` what the jobs run, `Evaluate` the gate. `SelectionMonotone` compares
the plans of two revisions. `QualificationReuse`: the record of a pull request's run, and the
ten reads by which main's run admits it, while runs are repeated, cancelled and merged.
Languages of CodeQL and most fields of the evidence are left out.

### DisplayedOntologyTool

A page registers its tool when it is shown and withdraws it when it goes; the first call
loads the resolver, later ones share it, a failed load is forgotten. A race of
`searchOntologyEntities` in the browser without a search context is not modelled.

## 3. What is checked

| Run | Instance | Distinct states | Question |
|---|---|---|---|
| `WaiterAwareSharedOperation` | 4 calls, 2 keys | 338 000 | `WaiterCountExact`, `AwaitedNotAborted`, `RegistryExact`, `NoAbortAfterSettlement`; the refinement `AbstractSpec`; `WaitersAnswered` |
| `OntologyStoreExecution` | 3 requests, 2 datasets, queue of 2, 3 bytes | 66 000 | `UnsettledIsHeld` (no request is lost or settled twice, the account is exact), `OneAtATime`, `AnswersAreOwn` (rows and deadlines are a request's own); the refinement `ImplementsService`; `EventuallyAnswered` |
| `CacheLease` | 3 contenders, one may crash, or 3 beside what a crashed fourth has left | 501 500 | `ExclusiveUntilDisturbed`, `OwnershipKept`, `NothingLeftBehind`, `LiveLeaseNotReclaimed`; `NeverBlockedForGood` |
| `ChannelStateCache` | 2 processes started twice, one may crash, 2 versions, room for 3 artifacts | 527 000 | `GenerationsGrow`; `InitializationEnds` |
| `ChannelStateCache_alone` | 1 process started 4 times that may crash, 4 versions, room for 2 | 86 000 | `LastKnownGoodKept`, `TwoCompleteKept`, `RetainedStatesProtected` |
| `Services` | see below | 178 600 | `AccountsExact`, `ServersSafe`, `ReadsSafe`; `WorkEnds`, `ServersShutDown`, `ReadsEnd` |
| `Queries` | see below | 2 327 000 | `ReferencesAreSelections`, `PagesCoverOnce`, `RanksAreDeterministic`, `AnswersAreHonest`, `IndexCacheBounded`, `DeliverySafe` |
| `Operations` | see below | 2 892 000 | `CorruptionIsRepaired`, `RacesAreWon`, `HostSetUpSafe`, `BuildsSafe`, `ConfigurationsAreFaithful` |
| `CacheLease_overlap` | 4 contenders, no crash, one has long been at work | – | counterexample to `ExclusiveOperations` |
| `ChannelStateCache_lost` | 2 processes, no crash, 4 versions | – | counterexample to `LastKnownGoodKept` |
| `ChannelStateCache_unreadable` | 2 processes, no crash, room for everything | – | counterexample to `RetainedStateIsReadable` |
| `SetUpTransaction_edits` | 4 targets, an editor | – | counterexample to `EditsSurvive` |

The three composed runs, component by component. A property that joins several is false as
soon as one of them is.

| Run | Component | Instance | Property | What it says |
|---|---|---|---|---|
| `Services` | Node query module | 3 calls, 2 admitted, 4 bytes, queue of 1 | `AccountsExact`, `WorkEnds` | what is counted is what is held, an admitted request is not refused for capacity, nothing outlives close; every call ends, whoever hangs |
| | asset pool | 2 workers, 3 tasks of 2 sizes, with and without deadline | `AccountsExact`, `WorkEnds` | a task is in one place and counted once; the pool settles unless a thread stopped silently or hangs without a deadline |
| | stdio server | 2 connections | `ServersSafe`, `ServersShutDown` | an exit that is called graceful has closed everything; a shutdown reaches every call and connection |
| | local HTTP server | 3 requests, 1 at a time, bucket of 1 token, 2 ticks | `ServersSafe`, `ServersShutDown` | permits are exact, buckets never over their burst and true to the retry they announce but for a clock set back, queries cut before the close; shutdown ends |
| | HTTP read | up to 3 bytes, 2 allowed, both adapters | `ReadsSafe`, `ReadsEnd` | what a read reports happened, no timer or body is left; with a deadline it ends |
| | release indexes | 3 reads, 2 processes, 3 releases of 2 digests, room for 1 | `ReadsSafe`, `ReadsEnd` | a failure has a reason, another's eviction included; an index is fetched once until evicted; every read ends |
| `Queries` | snapshots | 3 releases, references to at most 2 | `ReferencesAreSelections` | a reference selects the same releases again, or nothing |
| | pages | rankings of up to 3 matches of 5 shapes, 2 budgets, 2 counts | `PagesCoverOnce` | the pages put together are the search |
| | lexical search | 8 candidates of 2 entities, 2 to an index | `RanksAreDeterministic` | independent of the order of releases; search and resolution agree |
| | context | stores of up to 3 of 7 edges over 4 entities, depth up to 2 | `AnswersAreHonest` | an answer without a reason for truncation is complete |
| | page tool | 2 calls, 2 versions, 2 loads | `DeliverySafe` | answers are of the page's document, failed loads are not shared, the tool goes with its page |
| | index cache | 3 calls, 3 indexes of 1, 2 and 4 bytes, budget 3 | `IndexCacheBounded` | the cached bytes fit, whatever ends in whatever order |
| | check plan | up to 2 changed paths of 19 classes, 3 kinds of event in 3 package modes | `DeliverySafe` | green is earned, red has a reason, more changes run more |
| | reuse | 2 runs, 2 attempts, 2 images, the base moves once | `DeliverySafe` | suites that main leaves out have passed on its tree in the newest run |
| | website | 2 modules, 3 artifacts, 1 qualification, 2 changes | `DeliverySafe` | what is uploaded was in `dist` at one time, and was qualified as a whole under the policy of the gate |
| `Operations` | artifact files | 2 readers, 2 installers of 2 attempts, 1 evictor | `CorruptionIsRepaired`, `RacesAreWon` | corrupt files lose their name; installers that race all succeed |
| | set-up transaction | 4 targets, 3 edits | `HostSetUpSafe` | edits survive but for the restoring call and an interrupt; all files change or none, but for conflicts and what an interrupt has abandoned |
| | document merge | 2 managed servers, 2 obsolete, texts of up to 2 pieces | `ConfigurationsAreFaithful` | servers are there, former names are not, the user's lines stay, a second run changes nothing |
| | installation | 2 set-ups, 1 build, 2 versions, 2 events | `HostSetUpSafe` | record, bundle and worker are one product; a record can be believed; nothing is taken back |
| | full builds | 2 builds of 1 release, 2 edits | `BuildsSafe` | a receipt describes the outputs and the sources they were made of |
| | query artifacts | 2 generators, a website build, a staging, 1 edit | `BuildsSafe` | a published catalog or channel names complete artifacts, as long as no website build has written there |
| | archives | 2 runs for one target, 2 versions, 1 edit or removal | `BuildsSafe` | an archive that is reported is there, whichever run has linked it |
| | candidate | 1 target, 2 versions, 1 edit or removal, commands repeated | `BuildsSafe` | a candidate that is verified is one product and what its SBOMs and checksums say |
| | configuration | up to 2 arguments and 2 variables | `ConfigurationsAreFaithful` | a setting takes effect or is refused |

**Why the bounds suffice.** Four calls over two keys give an entry with two waiters, a call
that comes after an abandoned entry and another key at the same time. Three requests give
one active, one queued and one refused or late, which is every combination of places that a
handler distinguishes; two datasets make a warm worker right for one request and wrong for
the next. Three contenders give one that crashes, one that reclaims and one that arrives in
between; the case of two reclaimers needs a fourth that has crashed before, which is the second
initial state; only then does a release find another's directory. In `CacheLease_overlap` the first has been at
work for longer than the threshold when the others begin: one is misled, one gets
the fresh lease that is detached, one the name that is free again. Two readers and two
installers race for reading, quarantine and link, and one eviction takes the name away; a
second attempt exercises the retry. Four versions and starts make a cache with two complete
states prune and evict twice over; a limit of one state makes every eviction a choice.

In `Services` one more call than is admitted gives a refusal beside work; two workers with
three tasks give one queue that a failure leaves unfinished; a bucket of one token over two
ticks is filled, emptied and refilled, and its clock may be turned back before a refusal and after; a body of one byte more than allowed is the first to
be refused; two of three reads share a process, and two releases share bytes of which one
does not fit. In `Queries` pages end before, inside and after an entity and a match; edges
with two ways and a cycle give a shortest path, a longer one and one cut by each limit; of the
three indexes two fit together and one alone does not. Two changed paths suffice to compare
plans, since a plan is a union over paths but for the narrow routes, which one further path leaves;
three classes of paths are left out of the run because another one of the same scopes is
there. The website needs two modules to be qualified apart, two artifacts for an activation,
and two changes for one that spoils what the other has prepared. In `Operations` four targets are
a program, its record and two documents, one of which did not exist; three edits can
hit before the check, between check and exchange, and after; two events give a release between the
set-ups and a loss or edit beside it. Two runs for one target race for a name with different
contents once the sources are edited; beside the commands one run is enough, because an archive
that is built again is what can differ from the tarball, and builds of the bundle follow one
another there: builds that overlap are in the archives and the installation. A file that is
there in part counts as the event of a candidate, so at most one is there, and no edit or removal
comes before it has been written again. Once a website build has written among the query artifacts
nothing is promised of them, and the generators stop there; a staging goes on.

Symmetry is used in `Queries` (releases, calls and images are interchangeable there) and where
only safety is checked. Deadlock is not checked where every call is one-shot and may come
to its end (the last state is a normal one).

### Fairness

- `WaiterAwareSharedOperation`: an operation that is awaited settles (operations have
  deadlines of their own) and microtasks run. Nothing is assumed of callers, and nothing of an
  aborted operation.
- `OntologyStoreExecution`: the lifecycle timer of an unanswered request fires,
  `terminate()` completes, the promise of `close` resolves. A worker may hang and a caller
  may do nothing.
- `CacheLease`: processes that have not crashed keep executing, retry and heartbeat timers fire,
  time passes. That contenders wait long enough to see a stale lease is not assumed:
  `GiveUp` (the retry deadline) is possible whenever `Retry` is.
- `ChannelStateCache`: a process runs on or crashes (its reads have deadlines), and the
  lease of a crashed process is reclaimed, which is what `NeverBlockedForGood` shows in
  `CacheLease`. The origin may be unavailable for ever, and nobody has to time out waiting for
  the lease.
- `Services`: timers fire (lifecycle, shutdown, pool and read deadlines), what was posted or
  rejected is delivered, `terminate()` completes; a read whose signal is aborted fails; a tool call
  that has been told to stop ends; a thread of the pool goes on, if only to hang; populations
  and reads of indexes go on. A worker, an origin, a caller, the SDK's clients may do
  nothing for ever.

`Queries` and `Operations` check safety only; what runs there ends or crashes at any point.

## 4. Disagreements between the code and its documents

Each is a run that TLC refutes; `PROJECT.json` quotes the documents.

1. **Overlapping lease operations** (`CacheLease_overlap`). An observation is two lookups, of
   the directory and of its `owner.json`; if the second finds none, the time of the first counts
   (lines 931 to 952 of the cache). Heartbeats renew only `owner.json`. So when a call that has worked
   for longer than the threshold releases between the two, the contender takes the lease for stale, and
   its rename detaches the fresh directory of whoever has made one since. It notices
   and renames it back, but in between the name is free and a third call acquires it: two operate, one
   of them finds its ownership lost, and a directory that cannot be renamed back is left behind. Nobody
   has crashed. After a crash the same comes of two reclaimers of one stale lease, of which the
   second detaches the directory the first has made. But for these two cases it cannot happen
   (`ExclusiveUntilDisturbed`, theorem `LeaseIsExclusive`), and neither removes the lease of a
   call at work (`LiveLeaseNotReclaimed`).
2. **An eviction may lose every complete state** (`ChannelStateCache_lost`). Eviction uses a
   protection set computed earlier and holds no lease; a state published meanwhile may refer to
   what it removes, while the publication prunes the older states. One process alone never
   loses its last state, whatever crash interrupts it (`ChannelStateCache_alone`).
3. **A start during another's pruning fails** (`ChannelStateCache_unreadable`). A
   generation unlinked between `readdir` and `lstat` is reported as an unsafe cache
   directory, outside the part that falls back.
4. **A rollback beside an editor loses an edit** (`SetUpTransaction_edits`). The rollback
   compares a destination and then renames the backup over it, or unlinks it; what is saved
   between the two is in no backup. There is one other exception, kept out of this run: the
   rollback catches what is no `Exception` as well (line 1978), but an interrupt between the
   exchange and its record (1937 and 1942), or in the rollback itself, leaves a document as published,
   names no conflict for it, and `finally` (2055 to 2070) removes what was displaced, an
   edit among it. Everywhere else edits survive (`SeenEditsSurvive`), and but for the files
   of such an interrupt all change or none (`AllOrNothing`); both are part of `HostSetUpSafe`.

Two more are stated beside the code they are about and have no run of their own
(`MCOperations` refutes both when its configuration names them): `OwnershipRetained`
(`FullOntologyBuild`), since the former receipt is removed before anything is written, so
that a build that fails loses the ownership of outputs it has not touched; and
`ChannelIsComplete` (`QueryArtifactPublication`), since a staging looks at catalog and indexes
but not at datasets, which a website build under way may still have to write.

`CacheLease` assumes `Timely`: a step between two file-system calls is short against the
30 s after which a lease is stale, and a heartbeat (every 5 s) comes at least once a tick. A
process suspended for longer may lose its lease, which the code notices at its next
heartbeat or release; the model does not cover that case, and `OwnershipKept` says that
without it, without a crash and without the misjudgement of item 1 no owner ever loses a lease.

## 5. What is proved

`tlapm` checks every theorem for all values of the constants. An invariant that a run checks is
seldom inductive, so each argument rests on a stronger one, a conjunction of parts that are
named and preserved separately.

**CollectionTheorems** holds the lemmas about collections that the others cite: what appending
to a queue, taking its head, removing from its middle and splitting it do to the set of its
elements; that a sum over a finite set does not depend on the order in which the library's
fold takes its elements (`SumAdd`, `SumRemove`, by a smallest counterexample, since the
induction theorems of the library cannot be instantiated); that a fold over a finite set
exists (`FoldExists`), so that its recursion may be unfolded; that a fold over a sequence
goes through the results for its first elements, one after the other (`LeftFoldExists`,
`LeftFoldChain`); and that functions are ordered by the first argument at which they differ
(`FunctionOrderIsStrict`).

**WaiterAwareSharedOperationProofs** (assumption: `NoEntry` is not a call). None of the
properties is inductive. `IInv` joins the type invariant, exact counts, exact registry and
no abort of awaited work with two facts about names: a call waits on an entry of its own key
(`ServedByOwnKey`), and an entry is registered under the key of the call that created it
(`RegisteredUnderOwnKey`), and with the life of an entry (`EntryLife`). They
are needed because an abandoned entry is unregistered by removing it wherever it is
registered: only a registry that holds each entry under its own key shows that this removes
one entry, and that a call which joins through a key waits for work of that key. The arithmetic of counts is in two lemmas on finite sets
(one waiter more, one fewer). From `IInv`: `TypeCorrect`, `WaitersAreCounted`,
`AwaitedWorkIsNotAborted`, `RegistryIsExact`, `NoOrphanWork` (work in flight has a waiter),
the action properties `CancellationStaysLocal` (a cancellation changes nothing another
waiter sees) and `SettledWorkIsNotAborted`, and `ImplementsCoalescedCalls`: the refinement,
with one step of the simulation per action. `InFlightIsAwaited` and `CancellationIsLocal` are
proved and not checked by a run of their own.

**OntologyStoreExecutionProofs** (assumptions: datasets and their bytes are given for each
request, the limits are numbers, `None` is no request). `StoreInv`: an admitted request has one place
(`Placed`), the account is the sum of its bytes (`Account`), an active request has a worker and
a failed one waits for its worker to stop (`Owned`); and what makes late messages harmless:
a thread executes over its request's dataset only and forgets the key before it loads another
(`ThreadsKnow`), and a message is about a request that has left the queue, with rows of its
dataset (`MailIsTrue`). It gives `StoreHoldsUnsettled`, `StoreOneAtATime`,
`StoreAnswersAreOwn`, the action property `StoreAnswersOnce`, and `StoreImplementsService`, the
refinement of `StoreService`.

**CacheLeaseProofs** (assumptions: who may crash is among the contenders, the threshold is a
positive number, `None` is not a contender). `TypeInv` adds to the types that a directory
has at most one name. `LiveInv` says what holds until the first crash or misled observation
(`NobodyReclaims`): a call from its mkdir to its releasing rename owns the directory that has the lease
name, its token is never old, and a contender between its two lookups has read an old
time only of a directory that has had its token since; hence nobody detaches anything.
`LeaseIsExclusive`, `OwnersStayOwners`
and `NothingIsLeftBehind` follow. The theorems are about every `MayCrash`: the condition is on
the behaviour so far, not on the constant. `LiveLeasesAreKept` is about crashes and misled
observations too: `FreshInv`
adds that the directory of a call that works is fresh, with its own token in it, under
whichever name, so that a reclaimer which has detached it by mistake judges it as it is and
removes nothing.

**ChannelStateCacheProofs** (assumptions: who may crash is among the processes, the origin may
publish a second version, `None` and `"abandoned"` are no processes). For any number of processes
`CacheInv` says that a process holds the lease if and only if it is between its second check and
its last unlink (`Critical`), that it then knows the manifest it installs, and, from its listing
on, a number greater than every generation; only the holder changes the generations, so that a
step of one process leaves the others sound (`MovedKeeps`). `NewGenerationsAreNewer` follows, and
that the repetition with another number is never needed. What survives pruning and eviction is
proved for a process that shares the cache with nobody (`Alone`: no two processes differ), with
any versions, limit and crashes, because it is false for two: the run `ChannelStateCache_lost` is
the counterexample. `AloneInv` adds that a listing is still true when it is used, the tally of
the pruning (the generations it has visited and spares are complete, as many as it has counted,
and a complete one is doomed only when two are spared), and what the eviction has guarded.
`EvictionSparesRetainedStates` and `PruningKeepsTwo` follow, and from both `LastKnownGoodIsKept`.

**ServicesProofs** (assumption: `ServicesAssumption`, the conjunction of those of the
components: limits and sizes are numbers, the module admits one request more than the queue of
its execution holds, the pool has at least one worker and no more than tasks). A step of the
composition is a step of one component (`OneServiceSteps`), so each has an invariant of its own:

- `ServersAreSafe`. `StdioInv`: once a shutdown has begun the lifecycle signal stays aborted,
  so that no query module is constructed behind a close. `PermitInv`: the holders of permits
  are the requests with an open response. `BucketInv`: the tokens of a bucket and the clock it was last refilled at are
  such that a retry which comes when it was told to, or as much later as the clock was behind,
  finds a token; the rounding up of `RetryAfter` is a lemma of integer arithmetic (`RoundedUp`).
- `ReadsAreSafe`. `ReadInv` relates timer, abort reason, body and outcome of one read.
  `IndexReadsInv`: a population is for the digest of the release its owner asked for, the holder
  of a lease is a population under way, and an index is stored, or being installed, at most
  once more than it has been evicted. A file that was listed, and is not yet looked up, is stored,
  or the read has been overtaken (`ListingsAreSound`).
- `AccountsAreExact`. For the query module, `NodeInv` takes the execution's own account
  (`ExecInv`, as above without threads), what each phase of a call says of the execution
  (`CallsPlaced`), that after close everything is cancelled, and that what is counted and
  reserved is the number and the sum over the calls between reservation and release (`HeldCounted`). The two
  accounts then agree by `SumRemove`, and an admitted call is never refused because the
  execution holds a subset of what the module holds. For the pool,
  the scheduling is shown to give every task to exactly one queue, for any sizes
  (`QueuesAreBalanced`), and `PoolInv` follows a task from its queue to its worker to the
  results or the failures; at the settlement everything is rendered, or something has failed
  and no worker is busy (`FinishEnds`).

**QueriesProofs** is about five parts of the query engine that `MCQueries` extends and about
the composition `Delivery`. For the query engine:

- `ReferencesSelectAgain` (assumption: finitely many releases). `SelectionInv` says that a
  reference which was handed out is a selection of the present catalog, and that one presented
  later is answered as `Reselect` says.
- `IndexCacheKeepsBudget` (assumptions: `NoEntry` is not a load, sizes are positive numbers).
  `IndexInv` says that a caller waits for a load of its own key, that the cache holds at most one
  load of each key and only loads that have ended, so that what an insertion takes out and evicts
  is what the account loses.
- `PagesAreComplete` (`PageAssumption`: sizes, counts and limits are numbers, and a page may read a
  candidate and hold a match; `Begin` and `End` are no cursors). `PagingInv`: what has been
  delivered is every item before the cursor (`DeliveredSoFar`), and together with the page that
  is being filled every item before the match that is read next (`PageSoFar`), in order. It
  is an invariant because of what the page resumes with (`Resumed`): the cursor names the
  definition to begin with only for the match it stands in. That a page ends where the next one
  begins then holds for every way to end one, and for a page that is lost. How many definitions
  fit (`Fitting`) is bounded by the lemma `SomeFit` and not otherwise needed: wherever
  a page is cut, nothing is lost.
- `RanksAreIndependent` (`LexicalAssumption`: what candidates, texts and selections are made of;
  labels have language tags). `LexicalInv` is short, since an answer is
  made in one step; the work is in what the order of the releases must not touch. Texts and the
  keys made of them are strictly and totally ordered (`TextOrderIsStrict`, `KeyOrderIsStrict`, both
  from `FunctionOrderIsStrict` in `CollectionTheorems`). Hence a least key exists, and of two least
  candidates of an entity the keys are equal, wherever they are (`SameBest`); a key names basis and
  entity and a label's key its text, so nothing else that is answered can differ. Entities have
  different keys, hence they can be enumerated in the order of their keys (`SortedExists`, by the number
  of keys below), each once. The basis comes first in a key (`FirstOfKeys`), so that exact labels
  are an initial segment of the ranking and, because a label that equals the text is among the candidates
  of its entity, those that a resolution finds (`ExactIsResolved`). That the releases listed
  once or twice, forwards or backwards, have the same candidates is read off the folds
  (`AllElements`, `DistinctElements`).
- `ContextAnswers` (`ContextAssumption`: depths are numbers, at least one path may be returned, and
  `None` is no request and no entity), for any graph, store, limits and direction. `ContextInv`:
  a context hangs together whatever limit it has met (`Coherent`), and while none has been met
  the search is where a breadth-first search would be (`Searching`): the frontier holds entities
  in the order of their distances, each exactly as far from the source as it says (`Exact`), and
  what has been visited has all its edges, or waits, or is as far away as the depth. A smallest
  counterexample over the levels shows that everything nearer than the frontier has then been
  visited and expanded (`ReachOfSearch`), so that an empty frontier means the whole
  neighbourhood (`SearchIsComplete`). Shortest paths lie in the neighbourhood
  (`ShortestPathsAreNear`), so that paths found in a complete context, and their absence, are
  facts about the store. What `Admit`, `Those`, `Near` and `EndOf` compute as folds is followed
  element by element (`LeftFoldChain` in `CollectionTheorems`).

`DeliveryIsSafe` (assumptions: those of the four components) joins the theorems about them, for
any interleaving:

- `ChecksAreEarned`. `CheckPlanInv` says that an unfinished consumer has a result only
  behind a plan, that one that succeeded was required and its jobs' suites have run, and that a
  required one is skipped only behind a failure (`ResultsInv`). The work is in
  lemmas about plans, for every set of changes: which scopes each of the three routes gives
  (`RouteScopes`, `BroadScopes`), that a changed suite is run by a job of the plan
  (`ChangedSuitesRun`), that the plan is accepted (`PlansAreAccepted`), that a consumer starts what
  its completion asks for (`PlansAreSound`), and that a further path takes nothing away
  (`MorePathsRunMore`), by cases over the routes of both plans.
- `ReuseIsEarned`. `ReuseInv`: a pass is of a tree and an image on which the suites have
  passed (`ProvenInv`); read by read, what main has found out about the chosen run is still so,
  or the run has been started again under a greater attempt (`ChosenInv`), which the last read
  notices.
- `UploadsAreHonest`. `WebsiteInv`: texts, outputs and authorities are numbers that only grow, so
  what is read twice and found equal was so in between. A receipt covers what was validated
  (`ReceiptInv`); between the two checks of a module its digest lies between the copy and the source
  (`GateInv`); and what was in `dist` when the first listing was complete lies between the
  two listings (`ListInv`). The argument does not depend on how many modules, artifacts and
  changes there are.
- `ToolIsOfItsPage`. `ToolInv`: a registered tool belongs to an admitted document (`PageInv`), a
  load that has not failed is the one that is kept (`LoadsInv`), and a call that waits has
  joined a load of its page (`JoinInv`).

**OperationsProofs** is about the artifact file, and about the builds, the host set-up and what is
configured, which `Operations` composes. For one artifact
file (assumptions: at least one attempt, distinct names) `StillCorrupt` says that the file a
call has found corrupt still is, unless the name has moved on; `WinnerStays` that a file linked
by an installer keeps the name if nothing is corrupt and nothing evicted. They give
`CorruptFilesLoseTheirName` and `InstallationRacesAreWon`; `ArtifactTypeCorrect` needs
`AttemptLeft`.

For the builds (assumptions: those of the two build modules, on which texts declare imports,
and that there is a text) `OutputsAreTrue`: `FullInv` says that while a build runs it has the
lock and no receipt exists, and what has been captured, rendered and written by then;
`PublicationInv` that what a run has written is whole, as long as no website build has written.
For the release candidate (assumption: `CandidateAssumption`, targets are no other kind of file)
`CandidatesAreTrue`, a part of `OutputsAreTrue`: `Found` says, check by check, that what the
verification has found is still so. It is inductive because during a verification nothing but
the archive build writes to the directory, and that replaces nothing: a step that only adds
names keeps every finding (`FindingsStay`) and every report (`ReportsStay`). A command that stops leaves files in part only of those it writes itself, so it touches no
archive (`AssemblyStepKeeps`). `PendingIsOwn` is what
the generation needs: it writes documents and SBOMs and never an archive that a run has
reported.

For the host set-up (assumption: `HostSetUpAssumption`; the destinations are distinct, which the
code checks before it replaces any, guarded documents are among them, and `Nobody` is not a
set-up) `HostSetUpIsSafe`, for any destinations, set-ups, builds and numbers of edits, releases
and losses. The transaction and the installation share no variable, and each has an invariant of
its own:

- `SetUpInv`. That no edit is lost (`EditsAreKept`) needs to know where one can be: at its
  destination, or set aside (`AsideIsKept`) by a stage that will compare, restore or
  keep it, or observed before the documents were rendered (`ObservedIsMerged`). That all
  files change or none does needs what each stage has done: how far the replacements have come
  (`Progressed`), that they are undone in the opposite order (`InOrder`), and that a backup is
  what was there before, or an edit, until it is restored (`ReplacedRestorable`,
  `PreparedRestorable`). The exceptions of `SeenEditsSurvive`: an edit between the check of
  a rollback and the restoring call is in `LastStage`; what an interrupt takes out of the record
  is abandoned (`InterruptFacts`), which each part of the invariant allows for.
- `InstallationInv`. A set-up that works holds the lock (`LockIsHeldByOne`), so nothing but its own
  steps and losses changes what is installed; what it has staged (`Staged`) is of a release at
  least as new as any promised one, and one product from the verification on; while it replaces the
  files one by one, those it has passed are the staged ones, and what it would restore
  satisfied the property (`Replacing`, `FormerIsSound`).

For what is configured, `ConfigurationsHold` joins two theorems about folds. Their invariants are
short, since each configuration and each setup is made in one step; the work is in lemmas that
follow a fold from element to element (`LeftFoldChain`, then an induction over a finite interval,
`UpToInduction`, by its least counterexample).

- `NothingIsIgnored` (`ConfigurationAssumption`: what arguments and variables are made of), for lists
  of arguments of any length. `IsRead` says what has been parsed after each argument: an option has a
  value exactly if an argument before has given it one, and one that still waits for its value
  was the last (`IsReadStep`). So a list that is accepted gives an option one value, which is
  the one that is used (`GivenIsParsed`, `SourceUsesAll`).
- `MergesAreFaithful` (`MergeAssumption`: what texts are made of; no name is both managed and
  obsolete, and none is the user's), for any texts, names and orders of names. A merge puts the
  block of a name in the place of a span (`Spliced`), and whatever is outside moves with
  its order (`Splices`). Blocks of other names are before the span or after it (`Apart`), hence what
  was between two markers stays there (`BetweenMoves`), the text stays well marked, the user's lines
  are the same sequence (`SpliceKeepsUserLines`), and a name that is in place (`Settled`: its block,
  and no key of another under its table) stays in place (`SettledMoves`), which is why
  the last merge spoils none before it. A text in which every name is in place is not changed by
  another run (`SettledStays`), nor has a removal anything left to take (`MigrateNothing`). A removal
  takes what the name owns and no marker of another (`DisownedPart`).

**Only model-checked.** Liveness under fairness and ENABLED are outside the prover:
`WaitersAnswered`, `EventuallyAnswered`, `NeverBlockedForGood`, `InitializationEnds`,
`WorkEnds`, `ServersShutDown`, `ReadsEnd`. Every invariant that a passing run checks is a theorem.

## 6. Plan

Done: everything that runs concurrently or survives a crash in the query package, the
servers, the builds, the set-up and the publication, as the table in section 1 says.

Left, most important first:

1. `prepareManualMcpRelease.js`: the draft release that is made of a qualified candidate, and
   its order with what GitHub holds.
2. `atomicOntologyWriter.js` and the conversions that use it, beside a website build.
3. Times in `CacheLease` beyond `Timely`: what a process that was suspended may still do.

## 7. Not modelled, and why

The contents of ontologies, queries and results (the properties do not depend on them);
formatting, logging and schemas; ownership, permission and mode checks of the cache directory
(they succeed or end the process before the protocols begin); the checks of URLs, headers and
paths (refusals without state); the projection of a release to an index, SHACL rules and
conversions (functions of documents, with external libraries); the formats
of archives and SBOMs and the scan of their texts (what they contain is compared), the draft
release (plan, 1) and the contract of the release workflow; the upload itself, whose effects lie in an external service;
`new Worker` or `postMessage` throwing in `pump` (the host cannot create threads; the
lifecycle timer still answers); suspended lease owners; retries on Windows' transient
errors; the rendering of pages; data and vendored code.
