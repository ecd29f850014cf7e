# Verification of GPT Tunnel Manager

TLA+ models of the parts of GPT Tunnel Manager whose correctness depends on the order
in which goroutines, timers, processes, files and the database act on each other, the
TLC runs that check them, and TLAPS proofs of what holds for every size of system.

The Manager is one Go process. It owns *downstream* MCP servers (child processes or HTTP
endpoints), indexes their tools into *generations* of a SQLite catalog, and routes tool
calls to them on behalf of an MCP client. Configuration is two JSON files
(`manager.json`, `servers.json`) and the operating system's secret store.

## 1. The system and its parts

| Part | State | Operations | Hard because |
|---|---|---|---|
| Routed lifecycle (`internal/routedlifecycle`) | per server: `entry`, `session`, `active`, `mutating`, `runtimeChanging`, `deleted`, idle timer, `op` token; `pending`; `closing` | Acquire, Release, AcquireTaskLease, Start, Stop, Restart, StartAlwaysOn, Prepare/Commit/AbortServerMutation, Close; watcher, maintainer and idle-timer goroutines | everything waits for `op` and rechecks afterwards; each error path restores flags by hand |
| Coordinator (`internal/v2state`) | `manager`, `servers`, `currentHash`, `initialized`, `ready` under one mutex | Initialize, SaveManager, SaveServers, PutSecret, DeleteSecret, Set/ClearOAuthCredentialIdentity, GenerationCurrent | several durable writes per call, any of which may fail or be the last before a crash |
| Tracker (`internal/routingstate`) | one SQLite row: routing revision, hash, preference revision | Reconcile, AdvanceRoutingRevision, Snapshot | load and store are separate statements on a row others write too |
| Routing preferences (`internal/routingprefs`) | profiles, rules, review states, `preference_revision` in the Tracker's row | PutRule, ConfirmRule, DeleteRule, Put/DeleteProfile, ReconcileTargets | optimistic conflict detection across callers |
| Catalog (`internal/catalog`) | generations, members, artifacts, enrichment batches, dirty partitions, continuations | CreateStaging, Put/Require..., Promote, ActiveCurrent, MarkDirty, Reset | a generation becomes active only when complete and current |
| Indexing and enrichment (`internal/indexing`, `internal/enrichment`) | staged generation, batches | Refresh, GetBatch, SubmitBatch, Commit, repair | long-running work over a routing state that changes beneath it |
| Execution router (`internal/executionrouter`, `executionhandle`) | none of its own; handles are signed claims | Execute | handle, generation, contract and lease may each be stale |
| MCP Manager (`internal/mcpmanager`) | tool registrations, task and resource continuations | MCP handlers | continuations outlive the call that made them |
| Downstream sessions (`internal/downstream`, `process`) | tool snapshot, contract flag, process | Connect, CallTool, refresh, Close | notifications race calls; processes exit on their own |
| Application (`internal/app`) | the assembled services, cached configs, tool observation | Start, Close, SaveServer, SaveManager, product updates | read-modify-write of shared configuration |
| Discovery and retrieval (`internal/discovery`, `retrieval`) | none of their own; they read generations, the tool cache and the preferences | Search, GetTool | a call is a dozen queries, between which everything may change; bounded candidate lists |
| Tunnel supervisor (`app/v2_product.go`, `tunnelclient`, `process`) | `mgrGen`, `mgrRuntime`, `mgrStatus`, `active.json`, the binaries | restartManagerTunnel, watch, retry, Install, Promote, Rollback | attempts supersede each other while they install and wait |
| Embedding runtime, self update, instance lock, logging | files, child process, lock | install, swap, takeover, rotate | I/O; not modelled |
| Desktop interface (`cmd/tunnel-manager`) | presentation | calls the parts above | not modelled |

Interactions. `Coordinator.SaveServers` calls `PrepareServerMutation`, writes the file,
calls `CommitServerMutation` and reconciles the hash; while it runs, routed calls acquire
leases, the watcher reacts to exits, idle timers fire and `Close` may begin. Changed tool
contracts observed by sessions advance the routing revision through the Tracker. Execute
and indexing decide by the hash whether a generation may be used.

Correctness, in one line each: a lease is counted exactly once and protects its runtime;
a server under reconfiguration is not used and a used one is not reconfigured; a runtime
is never duplicated, lost or left over; Always On servers come back and idle Managed ones
stop; the generation gate is open only for what is really persisted; revisions order
routing states; a published index is whole, current and replaced as a whole; a call runs
under the contract its handle was given for, and an answer tells the truth about whether
it ran; a task keeps its runtime and its identifier until it ends; a search misses nothing
relevant and is ordered by the rules of the revision it reports; the tunnel is the one the
settings ask for, and an acknowledged edit stays.

`PROJECT.json` lists the hazards with their lines and the properties aimed at each.

## 2. Modules

| Module | Models |
|---|---|
| `RoutedLifecycle` | `internal/routedlifecycle/service.go`, with the part of `Coordinator.SaveServers` and `V2App.Close` that drives it |
| `MCRoutedLifecycle` | its instances |
| `RoutedLifecycleProofs` | the theorems about `RoutedLifecycle` |
| `RoutingState` | `internal/v2state`, `internal/routingstate`, the revision check of `routingprefs`, the hash comparisons of `indexing`, `catalog` and `executionrouter` |
| `MCRoutingState` | its instances |
| `RoutingStateProofs` | the theorems about `RoutingState` |
| `Catalog` | `internal/catalog`, `indexing`, `enrichment`, the observation of tool lists (`app/v2_tool_observation.go`) and the router's invalidation |
| `IndexContract` | the abstract specification of what a published index is, which `Catalog` implements |
| `Execution` | `internal/executionrouter`, `executionhandle`, the session's tool list and CallTool in `downstream`, `app/v2_tool_observation.go` |
| `CallContract` | the abstract specification of what the executor tools promise of a call, which `Execution` implements |
| `Continuations` | the tasks of `mcpmanager/continuations.go`, `catalog/continuations.go`, their leases in `routedlifecycle` |
| `ManagerApp` | the Manager's settings, listener and tunnel: `app/v2_app.go`, `app/v2_product.go`, `tunnelclient`, `process` |
| `ServerConfig` | the server entries and their copies, the first start and the cutover: `app/v2_app.go`, `v2config/store.go` |
| `Discovery` | `internal/discovery`, the ranking of `retrieval`, `routingprefs`, the classes of `toolcontract` |
| `CatalogProofs`, `ExecutionProofs`, `ContinuationsProofs`, `ManagerAppProofs`, `ServerConfigProofs`, `DiscoveryProofs` | the theorems about each of these modules |
| `MCCatalog`, `MCExecution`, `MCContinuations`, `MCManagerApp`, `MCDiscovery` | their instances; `MCManagerApp` composes `ManagerApp` with `ServerConfig` |

Definitions marked `Mutant of X`, or named `X_Variant`, are deliberately wrong variants of X. They take part in
no specification; `PROJECT.json` says which property each one must break.

### RoutedLifecycle

*Granularity.* A serverState has two locks: `op`, a one-token channel held for a whole
start, stop, restart, idle stop or commit, and `mu`, held for short sections. A section
under `mu` is one step. Taking `op` is merged with the section that follows and returning
it with the last one. Closing and connecting a runtime are steps of their own, so
everything can happen around them.

*State.* `st[s]` has the fields of serverState (`op` names the holder). `sess[x]` is a
downstream runtime: live, exited or gone, the entry it was started from, whether its
contract changed, whether a watcher is on it. `act[a]` is where a goroutine stands, for
callers and for the background workers. `held[s]` is the runtime an idle stop, a commit
or Close has taken out and not yet closed. `mut`, `pending` and `servers` are the
SaveServers call, `Service.pending` and `Coordinator.servers`.

*Actions.* Callers: `Begin` (the checks before `op`), `GiveUp` (context cancelled),
`Refuse`, `AcquireReuse`, `AcquireColdStart`, `AcquireManualStopped`, `StartRunning`,
`StartCold`, `StopEnter`, `RestartEnter`, `CloseOld`, `ConnectOK`, `ConnectFail`,
`Discard`, `Install`, `Release`, `TaskExpires`, `ExpiryRelease`. Background:
`WatchDetach`/`WatchClose` (watchSession), `MaintainTry`/`MaintainExit`
(maintainAlwaysOn), `StartAlwaysOn`, `IdleFire`/`IdleDrop`/`IdleEarly`/`idleStop`/
`IdleFinish`. Mutation: `SaveServers`, `PrepareBegin`, `PrepareClaim`, `PrepareBusy`,
`PrepareDone`, `PersistFail`, `CommitBegin`, `CommitKeep`, `CommitDetach`,
`CommitFinish`, `CommitStartNew`, `ReconcileOK`, `ReconcileFail`. Shutdown: `AppCancel`,
`CloseBegin`, `CloseAbort`, `CloseDetach`, `CloseFinish`, `CloseDone`. Environment:
`Crash`, `ContractChange`.

*Abstractions.* `generation` and `idleSequence` only serve to recognise that the session
or timer a goroutine captured is no longer current; session identity decides the same,
as an identifier is reused only when nothing refers to it. Time is left out: an armed
timer may fire at any moment. An external HTTP server, which never reports an exit, and
an idle timeout of zero are the behaviours in which no crash happens and no timer fires.
Closing a runtime always ends it; the error it may return matters only to Restart.
PrepareServerMutation claims the affected servers in any order (the code sorts them);
its rollback and the abort are one step. `Workers` bounds the background goroutines:
when none is free, a further maintainer of a server is taken for one that already loops
on it, which does the same. The servers' tool snapshots are left out.

### RoutingState

A Coordinator call holds its mutex from beginning to end; `call.pc` is its stage:
`persist`, `load`, `reconcile`, `accept`. `disk` is what is durable besides the row:
both files and the secrets. The Tracker's load and store are separate steps under
`tracker.holder`, and preference transactions may fall between. A hash is the set that
holds its material (SHA-256 taken as injective), `{}` the empty string. The fingerprint
key does not change. `Crash` may happen at any step and loses what is not durable; a
staged generation is in the catalog and stays. SaveServers' answer `server_busy` changes
nothing here. A file is replaced by a rename, so a failed write leaves the old file; a
failed write of a secret may have happened; a failed deletion is reported as success by
the Linux and macOS stores. `Faults` contains `"locked"` when a secret that cannot be
read looks as if it did not exist, which those two stores do.

### Catalog and IndexContract

`indexing.Service.mu` serialises refresh, get_batch, submit, commit and clear: they are
one process, `ix`, whose steps are the code's transactions, and everything else falls
between them: an observer per server (`Observe`, `ReadEffective`, `ObserverMark`,
`ObserverAdvance`), the router's invalidation, a saved configuration, a crash, an error, a
corrupt database at start. A generation is a record of the rows that belong to it: its
sources, how far each tool's base index has come (`built`), attached guidance, enriched
vectors, tool batches with their answers, and the capability batch. Artifacts that may be
reused across generations are in `arts`. The routing hash is a function of the revision
here, which `RoutingState` justifies.

`IndexContract` has one variable, the published index, and says that it is whole, newer
than the one it replaces, and changed only as a whole. `Published` is the refinement
mapping. Two history variables name what the code does not repair: `flawed`, generations
whose population was cut off, or that were taken over empty after their capability batch
was made; and `lost`, servers with a change that was cached but recorded nowhere else
because of an error between the two writes, because it came before the index had a
baseline, because the list changed back before it was seen, or because a generation that is
still staged does not have the tool that is compared with the older active one
(`Unnoticed`). Both are documented below; the properties are about everything else.

### Execution and Continuations

`Execution` follows two calls from get_tool to their answers: `Mint`, the admission by
generation, epoch and hash, the lease (one step, see `RoutedLifecycle`), the comparison of
the session's tools with the generation, the last look of `Session.CallTool`, `callbackMu`,
the downstream call with its callbacks, and the answer with its outcome. A server either
announces changes of its list or not (`dynamic`). `ran`, `drift` and `heard` are history.

`CallContract` says what a client may rely on: a call is started at most once and never
after its answer, is answered at most once, is answered "completed" only if it was started,
and "not started" only if it was not, or is a task that could not be handed over. Its
variables are the calls that are started (`ran`), held as a task (`result`), over (`pc`)
and what was said of them (`outcome`); everything else `Execution` does is a stutter. That
the MCP SDK sends a request once is assumed, as `Execution` takes the SDK to be external.

`Continuations` has the operations on one task by concurrent requests, step by step where
`continuationService` takes or gives up its lock or calls out: creation with the task-held
lease (`proxyCreatedTask`), `ensureTaskLease`, the forwarded operation, `finishTask`, the
timers, `Close`, a crash and the start after it, which takes the leases again that it can.
`told`, `finished`, `missed` and `stillborn` are history: which identifiers a client
holds, for which finishTask was called, whose lease could not be had again at start, and
which were terminal already when they were mapped. The application's session wrapper does
not offer the task methods (see below): `aware` is both values.

### ManagerApp and ServerConfig

Every `go restartManagerTunnel` becomes the attempt named by the `mgrGen` it took. The
code compares generations for equality only, so a name nothing refers to any more is used
again; `MaxGen` bounds those in use at one time. `SaveManager` is prepare, write and
commit; the installer downloads, probes and promotes, and any of these may fail; a
process starts, comes up, exits on its own or is stopped. `exited` is the end of the
program, after which only processes go on. `restartManagerTunnel` looks at the context
before it takes `mgrMu`: `late` are the goroutines that saw it live and take the lock after
the shutdown was requested; it is chosen at that moment, which is the same because the check
cannot fail before. Users act, and the updater runs, once Start has succeeded (`Opened`),
whether or not a failed save has cleared `started`. One update by the user or the updater
is under way at a time, a bound of the model (installs by attempts come besides).

`cred` is the tunnel's key in the secret store. `KeyNotRead` is a `Get` that fails: on Linux
and macOS it looks like a missing key, which ends the attempt without a retry, on Windows
like any failed start. `PutSecretFails` leaves the key as it was, stored, or broken (the
write on Windows is not atomic), and nothing restarts the tunnel; `SecretCommand` is the
command line beside the running program. Which key is stored is not told apart. `unread`
is history: the supervisor's last attempt has not seen what the store holds, and no restart
followed.

`ServerConfig` has the four copies of the server entries and an edit as the sequence of
its writes to them. `kept` and `alone` are history: the last acknowledged edit of a server
that no other edit overlapped.

### Discovery

A call is a sequence of queries, each a step: the active generation, the profile, the
revision, the sources, one availability after the other, the indexes, and at last the
rules, with which it is ranked. The ranking is made of operators translated from the code:
the bounded searches, reciprocal rank fusion over five facets, evidence, coverage, and the
adjustment by the first effective rule that names a tool. Fractions are over one common
denominator, `Unit`, of which the assumption says only that every share is a whole number of
units; the instance takes the product of all that occur. An order is a set of pairs
(`ScoreOrder`, `RuleOrder`, `ResultOrder`), and `Sorted` is the sequence that follows it. What a text or a vector scores is part of the query, an input. Between the
queries rules and profiles are edited, tools disappear, come back and change, an index is
published or cleared, and the Tracker stores a row it read before (`rewound` remembers
that it overwrote a newer revision). `fits`, `relevant` and `used` are history for the
properties.

## 3. Runs

All runs use model values for identities and the bounds below. The number of distinct
states is in parentheses.

| Run | Instance | Checks |
|---|---|---|
| `lifecycle_use` (1.5 million) | 1 server, 2 callers, 1 worker, 2 runtimes; modes Managed, Manual, Always On; connect, close and save failures, crash, contract change | TypeOK, LeaseAccounting, OneRuntime, NoOrphanRuntime, MutationExcludesUse, SessionMatchesEntry, LeaseProtectsRuntime, EditExcludesUse |
| `lifecycle_delete` (1.1 million) | 2 servers, 1 caller, 1 worker, 2 runtimes; edits of both, deletion, failed saves and reconciliations, shutdown | DeletedHasNoRuntime, ReservationOwned, ClosedMeansStopped |
| `lifecycle_live` (26,000) | 1 server added at run time and edited, 1 worker, 2 runtimes; crash, connect failure, shutdown; fair | AlwaysOnMaintained, SaveReturns, CloseReturns |
| `lifecycle_idle` (3,900) | 1 Managed server, 2 callers, 2 runtimes; crash, connect failure; fair | ManagedIdleStops, OperationsReturn |
| `routing_gate` (2.0 million) | 1 embedding model with an operational setting, 4 server configurations, 1 secret, OAuth identity, 1 observer, 1 author; revisions up to 2; crash, disk, secret store and database failures | GateFailClosed, GateOpenIsDurable, RevisionOrdersHashes |
| `catalog_dirty` (1.0 million) | 1 server with 1 tool, 2 contracts, 1 answer, 2 generations; 2 changes of the list, a dropped session, a saved configuration, a clear, a corrupt file | OneOfEach, GuidanceFitsSource, ReadyMatchesSessions, PromotedFresh |
| `catalog_faults` (1.5 million) | 2 tools in 2 batches, 2 answers, 2 generations; 2 crashes or errors at any step | AttachedIsAnswered, and PublishesWhole: `Catalog` implements `IndexContract` |
| `execution_calls` (1.0 million) | 2 calls of 1 tool, 2 contracts of different class, 2 sessions, 2 generations; 1 fault of any kind; fair | RunsCheckedContract, CallbacksStayHome, NotStartedIsTrue, ClosingDrains, and AnsweredOnce: `Execution` implements `CallContract` |
| `continuations_tasks` (117,000) | 2 requests on 1 task; 2 faults of any kind; fair | TaskPinned, TaskReachable, TaskLeaseEnds |
| `app` (1.0 million) | 3 settings, 1 saver, 2 versions of tunnel-client, 2 generations in use, 2 events; 2 servers, 2 editors, 3 edits, 2 failures; fair | StatusTruthful, TunnelOwned, TunnelSettles, EditSurvives |
| `discovery_search` (567,000) | 3 tools, 16 queries, limits 1 and 2, 3 rules of which two share a slot, 1 profile, 2 edits, 1 change of the catalog | NothingRelevantMissed, RevisionNamesRules, ConflictsAreReviewed |
| `discovery_review` | the same with 1 edit | violates StaleRulesAreReviewed |

Why the bounds suffice. Two callers are the least that can hold a lease and race for
`op`, and two runtimes the least with which one can be replaced while the other still
ends. One server is enough where nothing couples servers; the only coupling is the
all-or-none reservation, and `lifecycle_delete` has two servers for it. Two revisions let
one routing state replace another while a failed call in between leaves the revision
where it was. `lifecycle_use` leaves out deletion together with Restart and
`reconcile` failures, and `lifecycle_live` has no callers: those combinations are exactly
the disagreements below. Deadlock is checked everywhere; after shutdown `Terminated`
stutters.

In `catalog_dirty` two contracts and two changes let a list change while its first change
is being indexed, and change back; in `catalog_faults` two batches are the least that can
be half answered, and two faults the least with which a repair fails too. `execution_calls`
needs the second call for `callbackMu`. `MCManagerApp` runs one of its two halves in a
behaviour while the other stands still (`half`): they share no variable. The manager's half
starts with port 1, and with a stored key where no tunnel-client is installed. In
`discovery_search` a candidate depth of 1 against 3 tools makes every cut happen; it starts
without preferences, or with two rules in conflict and one of the profile.
`CHECK_DEADLOCK FALSE` stands where the program may come to rest: bounds used up, no
request under way, or the program ended.

*Fairness* (`FairSpec`). A goroutine that holds `op` goes on, because connects and closes
have timeouts (weak fairness). Go serves the receivers that wait on a channel in order,
so a waiter for `op` gets it (strong fairness on entering). A server whose connects are
retried without end is assumed to connect at some time (strong fairness on `Connects`):
an assumption about the environment, without which Always On cannot be promised. Timers
fire. Callers, crashes, saves and the shutdown are never forced.

In `Execution` the goroutine of a request goes on once it has a lease, unless it waits for
the server or the client, of which nothing is assumed. In `Continuations` time passes and
timers fire. In `ManagerApp` every goroutine that can run does, and a process that was
signalled or killed ends; crashes, users and shutdown are never forced.

### Where the code and its documentation disagree

`discovery_review` is a run that TLC must find violated: nothing marks a rule for review
when a tool it names changes its contract (`ReconcileTargets` has no caller), and the rule
goes on ordering results by the tool's name.

The following were found with the models in the same way. They have no place among the
runs; for those with a `.cfg`, `tlc -config X.cfg M` shows the counterexample.

* `Lifecycle_restart_deleted.cfg`: Restart rechecks the busy flags but not `deleted` after
  waiting for `op` (`routedlifecycle/service.go:679`). If the server was deleted meanwhile
  it connects a runtime that Close does not know of.
* `Lifecycle_boot_retry.cfg`: an Always On server that cannot be started at boot is never
  tried again (`service.go:756`); only an exit, an edit or a caller brings it up.
* `Lifecycle_stolen_exit.cfg`: a caller that meets the crashed runtime before the watcher
  does takes it out (`service.go:225`); the watcher then does nothing, and if the caller's
  connect fails the Always On server stays down.
* `Lifecycle_stale_diff.cfg`: after a save whose reconciliation failed, the next save is
  compared with an old configuration (`v2state/coordinator.go:303`) and may change an entry
  under active leases.
* A crash, or an idle timeout, that falls into a prepared mutation which is then aborted:
  the watcher (`service.go:795`) and `idleStop` (`service.go:872`) leave the work to the
  commit, and `AbortServerMutation` does not take it up.
* `RoutingState_prefs.cfg`: the Tracker writes back the preference revision it read before
  (`routingstate/sqlite.go:49`); a preference edit in between loses its revision and a
  stale editor passes the conflict check.
* `RoutingState_admit.cfg`: Execute compares with the durable row, not with the
  Coordinator's gate (`executionrouter/router.go:161`), and routes by the old generation
  after a save whose reconciliation failed.
* `RoutingState_locked.cfg`: on Linux and macOS a locked secret is hashed as a missing one
  (`secrets/native_linux.go:7`) and the gate opens.
* `Catalog_partial.cfg`: a crash or a cancelled request in the middle of a refresh leaves
  a staging generation with part of the tools; get_batch and commit go on with it without
  another refresh (`indexing/dirty_reconciliation.go:173`), and the index is ready without
  the rest. `CONTEXT.md:65` speaks of a coherent view.
* A staging generation without sources that already has a capability batch is taken over
  (`dirty_reconciliation.go:127`), and its hierarchy is that of no tool.
* A change of a tool list is lost to the index when an error falls between the cache's
  transaction and the marker (`app/v2_tool_observation.go:206`); after the next restart
  only the cache knows of it.
* `ManagerApp_exit.cfg`: Close does not wait for an attempt that is starting tunnel-client
  (`app/v2_app.go:277`); the process may outlive the program. `docs/adr/0001` says that
  all runtimes stop when it exits.
* Two overlapping saves of the manager settings: the second compares with what it read
  before the first was applied (`app/v2_app.go:425`), and the tunnel is not restarted.
  `TunnelSettles` is checked with one saver.
* `ManagerApp_unread.cfg`: a stored key is not used. On Linux and macOS every failed `Get`
  is a missing secret (`secrets/native_linux.go:7`, `native_darwin.go:7`), so a locked keyring
  or the end of the 45 seconds leaves the tunnel in `needs_credential` without a retry
  (`app/v2_product.go:151`), with the message that no key is configured. `PutSecret` may
  store the key and then fail at the Tracker's snapshot (`v2state/coordinator.go:222`), and
  `SetManagerTunnelCredential` returns the error without a restart (`v2_product.go:339`).
  The `secret` command changes the key without the program's knowledge. `TunnelSettles`
  excepts the time until the next restart or successful read (`unread`).
* Overlapping edits of two servers lose one of them (`v2_app.go:548`).
* A SaveManager that fails at the listener leaves the operating system's settings changed
  and `started` false, and later saves no longer restart the listener.
* Rollback activates a version whose probe failed or whose file is broken
  (`tunnelclient/installer.go:376`); `TunnelSettles` excepts a broken active file, and a
  key file that a failed write on Windows left broken.
* The session wrapper of the application (`app/v2_tool_observation.go:66`) has none of the
  task and resource methods that `routedlifecycle/continuations.go:12` asks a session for,
  so task operations and resource reads always fail. `README.md:70` promises them.
* A task that is already terminal when it is created is mapped and can never be resolved
  (`mcpmanager/continuations.go:337`).
* A task whose lease cannot be had is answered `not_started`, retryable, although the tool
  ran (`continuations.go:147`); `NotStartedIsTrue` excepts it.
* A callback sent after its request ended reaches the next client
  (`downstream/downstream.go:357`, whose comment says that callbacks never cross-talk).
* A server that announces changes is sent the call although a change of the tool is known
  (`app/v2_tool_observation.go:135`).
* Search resolves the profile before it reads the revision, so that the profile it names
  may not exist at the revision it reports; and a clear between its first two queries gives
  an empty answer instead of `index_required` (`discovery/service.go:147`).
* A tool that shares the query's terms but is in no facet's first candidates is not found;
  `NothingRelevantMissed` promises the tools similar in some vector facet.

## 4. Proofs

Each component has a module of theorems that EXTENDS it; `tlapm M.tla` checks it. All
theorems are of the specification without fairness, so they hold of every behaviour, fair
or not. `PROJECT.json` lists them with the property of a run each one states.

### RoutingState

`RoutingStateProofs` proves, for every value of the constants:

* `TypeCorrect`: `Spec => []TypeOK`.
* `RevisionOrder`: `Spec => RevisionOrdersHashes`. The property is not inductive, as a
  store writes what was loaded earlier. `Tracked` strengthens it: while `Tracker.mu` is
  held the loaded hash and revision are those of the row (nobody else writes these
  columns), and the Coordinator holds it only at the stage `reconcile`.
* `GateIsFailClosed` and `GateIsDurable`, from the assumption `"locked" \notin Faults`.
  `GateInv` says along the stages of a call why an open gate is right: while a call that
  left the gate open is about to write, the gate must still be right, for the write may
  fail and the call return, and it must not be about to write a secret; from the reload
  on the gate is closed and the call's hash is that of what is persisted; at `accept` the
  row has it. The lemma `OtherSecret` is the reason why a secret no entry names may be
  written with the gate open, and needs `Coordinator.servers` to be what is on disk
  whenever the gate is open, which is part of `GateInv`.

### RoutedLifecycle

`RoutedLifecycleProofs` proves, for every set of servers, callers, workers, runtimes,
configurations and faults that satisfies `ConstantsAssumption` (the callers are finitely
many and are not workers):

* `TypeCorrect`: `Spec => []TypeOK`, together with `Placed`: whoever is doing something
  has a server, which the types of the records it builds from that server need.
* `LeasesAreCounted`, `MutationsExcludeUse` and `ChangingNeedsOp`: the invariants
  `LeaseAccounting`, `MutationExcludesUse` and `ChangingIsHeld`. None is inductive alone.
  `LeaseInv` adds who is who: a goroutine inside an operation holds `op` of its server
  (`OpHeld`); a raised `runtimeChanging` belongs to the holder of `op`, which is in Start,
  Stop or Restart if it is a goroutine of an operation (`ChangingOwned`, so that a failing
  Acquire, which returns `op` without lowering the flag, never finds it up); only callers
  hold leases, and a timer belongs to a lease (`LeaseShape`, so that the two releases of a
  task lease count once); nothing refers to a server that was never in the map
  (`KnownOnly`, so that a new record, with a count of zero, hides no lease); and a commit
  that holds `op` has already marked what it deletes (`CommitOwned`). The exclusion needs
  the exact count: the busy check of PrepareServerMutation reads `active`, and the theorem
  is about the goroutines.

  The argument has two kinds of step. One goroutine changes together with its server's
  record (`ActorStep`, with the cardinality argument in `CountStep`); or records change and
  no goroutine but a new maintainer does (`ServerStep`). Each action is shown to be one of
  them.

* `OneRuntimeEach` and `NoRuntimeIsLost`: `OneRuntime` and `NoOrphanRuntime`. The
  invariant `Own` says where the runtime of a server is: while `op` is free it is the
  session and nothing else; once `op` is taken there is no session, and the runtime, if
  any, is with the holder: in the goroutine's `x`, or in `held` if the holder is an idle
  stop, a commit or Close. The two properties are what `Own` implies for live runtimes. An
  exited runtime that the watcher has taken (`reap`) is owned by the watcher, who closes it
  after `op` was returned, so `Own` speaks only of runtimes not yet reaped. Each action is
  one of eight movements (`ActorTakes`, `ActorFrees`, `ActorReconnects`, `ActorConnects`,
  `ActorInstalls`, `ServerTakes`, `ServerFrees`, `WatcherMoves`), or moves nothing.
* `ReservationsEnd`: `ReservationOwned`. `Reserved` follows the reservation from
  PrepareServerMutation to `pending` to the commit and says that each of these only names
  reserved servers, so that what drops a reservation also drops the flag.
* `LeasesProtectRuntimes`: the action property `LeaseProtectsRuntime`. `LeaseKeeps` says
  that, until `closing`, a live runtime under a lease is the session of its server; a
  runtime is closed only by who has taken it out (`FreesTaken`), and then it is no session
  (`Own`). What takes a session out is excluded by the exact count (idle stop, Stop,
  Restart), by the reservation (commit), by the exit (watcher), or by the refusal to
  replace a changed contract under leases. `Closers` orders cancellation, `closing` and
  the steps of Close.
* `EditsExcludeUse` and `SessionsMatchEntries`: the action property `EditExcludesUse` and
  the invariant `SessionMatchesEntry`, from the hypothesis `"reconcile" \notin Faults`.
  `Diffed` says that, until `closing`, the configuration SaveServers compares with is that
  of the service, and that every server whose entry will change stays marked from the
  comparison to its commit; `Current` adds that a goroutine on its way to connect has the
  entry of now. The hypothesis is needed: after a failed reconciliation the comparison is
  with an old configuration. `Lifecycle_stale_diff.cfg` shows the first fail; the second
  fails in the same instance.
* `DeletedAreStopped` and `CloseStopsAll`: `DeletedHasNoRuntime` and `ClosedMeansStopped`,
  from the hypothesis `"restart" \notin Jobs`, with every fault. `Motion` says what any
  step may do to a session, to `held` and to a goroutine in an operation. From it follow
  `Gone` (a deleted server has no session and nobody in an operation on it) and `Quenched`
  (a server Close is done with has no runtime, and what still connects there does so with
  a cancelled context). `Quenched` needs `Gone` where Close lists the servers in the map:
  a server not listed must have nothing to stop. The hypothesis is needed: a Restart that
  waits while its server is deleted brings up a runtime that Close does not find.
  `Lifecycle_restart_deleted.cfg` shows the second fail; the first fails there too.

### Catalog

For every set of servers, tools, contracts and answers, every batch size and all faults
(the tools are finitely many):

* `TypeCorrect`, `OneGenerationOfEach`, `GuidanceFits`, `AnswersAttached`: `TypeOK`,
  `OneOfEach`, `GuidanceFitsSource`, `AttachedIsAnswered`.
* `CatalogImplementsContract`: `Spec => PublishesWhole`, that is, under the mapping
  `Published` every behaviour of `Catalog` is one of `IndexContract`.

`IInv` has, besides types: `Rows`, what the rows of every generation satisfy (guidance fits
its source, batches are disjoint and only their answer is attached); `Caps`, that a
capability batch was made from the guidance of every source, except in the `flawed`
generations; `Unique`, that one generation is staging and it is newer than the active one;
`ActiveWhole`; and `Stage`, what the operation that holds `Service.mu` has achieved at each
of its steps, which is what makes the promotion's checks, made one by one, true together.
The refinement is `InitImplements` and `StepImplements`: a step that leaves the rows of the
active generation alone is a stutter (`Untouched`), a promotion or a clear is a step of the
contract. The existence of a newest generation uses the library's well-foundedness of `<`.

* `ReadyMatches` and `PromotionsFresh`: `ReadyMatchesSessions` and `PromotedFresh`, that
  what is ready is what the sessions show, and that a commit publishes nothing older than a
  marker already written.

Their invariant, `FInv`, follows a change of a tool list from the observation to the
promotion. The first of two arguments is about servers of which no change is being recorded:
`Agreement` says that there is one contract of each of their tools that the session, the
cache, the refresh under way, and every generation of the current revision hold, as far as
they hold any. Nothing is said of generations of an older revision, because they cannot be
ready: this is what advancing the revision is for, and why the cache may then be ahead of
them. The second argument is about the window between the marker and the revision:
`Marked` says that a refresh whose acquisition the marker does not predate, and the
generation it has staged, have what the session has; so the marker that such a refresh
clears is one it has answered (`ClearDirtyIfUnchanged`). `Recorded` ties the session to the
cache while a change is recorded; `Ordered` and `Scope` say that no hash, revision or
marker is from the future and that only configured servers are connected, acquired or
built; `Progress` says how much of its snapshots a refresh has written at each of its
steps; `Stages` and `Rooted` are the shapes the others need. The proof has one lemma per
step that touches what is compared; the steps of enrichment and commit change no source
(`SameSources`, `Onward`).

The attempt found an error of the model: the history `lost` missed a tool whose cached
contract is seeded again from the active generation while a staged generation, complete
except for that tool, is about to replace it. `Unnoticed` says so now.

### Execution

For any calls, contracts, sessions and bounds (`MaxGens` at least 1): `TypeCorrect`,
`ContractsChecked`, `CallbacksAtHome`, `NotStartedHolds`, the invariants
`RunsCheckedContract`, `CallbacksStayHome`, `NotStartedIsTrue`. `Sessions` says that a
session of a server that announces nothing is as it was made until it is found changed;
`OnSession` ties a leased call to its session and to `callbackMu`; `Checked` says what the
comparison a call has made is still worth at every later step, and this is why the last
look of `Session.CallTool` is enough; `Progress` excludes an answer before the end.

`ExecutionImplementsContract`: `Spec => AnsweredOnce`, every behaviour of `Execution` is one
of `CallContract`. It needs one invariant more, `Ran`: what the server works on, has
answered or has made a task of, it has started. `ExecuteShape` sorts the steps of the
manager into those that move a call on and those that answer it; `ExecuteImplements`,
`DownstreamImplements` and `RestartImplements` map each to a step of the contract.

### Continuations

For any requests, tasks and faults: `TypeCorrect`, `TasksPinned`, `TasksReachable`
(`TaskPinned`, `TaskReachable`). `Owners` says whose a task is: one being created is known
to nobody else, others are asked for only by clients that were told of them. `Progress`
says what a creation has achieved before it promises the task: it has the lease
(`Pending`), has stored the mapping (`Mapped`), has installed the lease unless the service
was closed meanwhile (`Armed`).

### ManagerApp and ServerConfig

`StatusIsTruthful` and `TunnelsOwned`: `StatusTruthful` and `TunnelOwned`, for any settings,
savers, versions and attempts. `Published` (the runtime published is that of the current
generation and its attempt is over) is what makes the status right when a superseded
attempt ends; `Watched`, `Installing` and `Reported` tie watchers, installers and outcomes
to the phase of their attempt; `Owned` is `TunnelOwned` without the end of the program.

`EditsSurvive`: `EditSurvives`, for any servers, editors, edits, failures and crashes.
`Alone` says that an edit nobody overlaps has made the copies equal as far as it has come;
`Carried`, that an edit of another server writes the kept value back; `Booted`, that a
fresh configuration is only made where there is none. The theorem is of `ServerConfig`; run
`app` checks the same formula through its instance in `MCManagerApp`.

### Discovery

`ConflictsReviewed` and `RevisionsNameRules`: `ConflictsAreReviewed` and
`RevisionNamesRules`, for any rules, profiles, tools, queries and edits. A rule is named by
its identifier (assumed, as the primary key of the table makes it so). The first is
inductive together with the types. The second needs `ReadsHold`: unless the Tracker wrote
an old row back, what a call has read after its revision is still so while the revision
is.

`NothingMissed`: `NothingRelevantMissed`, for any number of tools, any scores, capability
nodes, limits, candidate depth, threshold and rules. Assumed are what the indexes give for
granted: finitely many tools, rules and nodes, a whole number as score for every tool of
every facet, and a capability for every tool. The argument is `FitIsRanked`: a tool that fits
by some facet and is not among the candidates was cut from that facet, so the facet was
asked for fewer tools than there are, that is for `limit` and the unavailable ones at least
(`DepthIs`); none of the tools it returned scores less (`SearchIs`), so all of them that are
available are candidates, and these are at least `limit` (`RestIs`): the search returns as
many as asked for. Below that are `Places` and `SortedIs` (a strict order on a finite set
has a sorting sequence: the number of members before each one is its place), `CutIs` (its
head has as many members as asked for, each before all others), `MaxIs`, and `FoundIs` (a
tool that an index returned has a positive fused score and evidence no worse than its score
there). The invariant of the specification, `SearchInv`, only adds that a search keeps its
limit until it ranks.

### Only model-checked

* Liveness under fairness (AlwaysOnMaintained, ManagedIdleStops, OperationsReturn,
  SaveReturns, CloseReturns, ClosingDrains, TaskLeaseEnds, TunnelSettles): out of the
  prover's reach.
* `StaleRulesAreReviewed`, which the code violates (`discovery_review`).

Every safety invariant and every action property of the passing runs is proved, and so are
the refinements of `IndexContract` and `CallContract`.

`ChangingIsHeld` and the type invariants of `RoutingState`, `Catalog`, `Execution` and
`Continuations` are proved and are part of no run. `ManagerApp`, `ServerConfig` and
`Discovery` have the types their arguments need in `Shape`.

## 5. Not modelled, and the plan

Left out for good: the desktop interface and platform glue (presentation, no shared state
of their own), encodings of the MCP task extension and of the agent's answers, transports,
the native OAuth flow, the validation of JSON schemas, how texts and vectors are scored,
logging. Left out because they are file and process I/O around one or two decisions: the
local embedding runtime and its installation, self update, the instance lock. Resource
continuations are left out: the program cannot read through them (see above).

Nothing that a passing run checks is left to prove but liveness. What could be stated next
are abstract specifications of `RoutedLifecycle` (a readers-writer lock per server) and of
`Continuations` (a table of leases), as `IndexContract` is for `Catalog` and `CallContract`
for `Execution`.
