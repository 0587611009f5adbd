# Ariadnion: a TLA+ verification project

Ariadnion is a modular gateway for AI providers. A small core (cancellation tree, module
lifecycle, shutdown, bounded events) runs independently; accounts, routing, admission,
authentication, files and storage are optional crates that a composition assembles in one process
over one embedded database (RNMDB). This directory models the parts of it in which state, time and
concurrency meet, checks them with TLC on small instances, and proves the most important
of its properties with TLAPS for every instance.

`PROJECT.json` is the index: components, runs, the source lines behind every definition, the
hazards the properties are for, mutants that show that a property can fail, and theorems.

## 1. Inventory

### How the parts interact

```
api-http / api-stream / cli ── api-dispatch ── routing-runtime / routing-coordinator
                                                  │ candidate        │ admission
                                 routing-policy, account-{pool,circuit,health,quota,affinity}
                                                  │                  │
                                                  │        routing-admission ──┬─ rate-limit
                                                  │                            └─ account-budget
                                          provider-dispatch ── provider-http
administration, auth, vault, files, audit ── storage-domain ports ── storage-rnmdb ── RNMDB
core: context (cancellation), lifecycle, shutdown, events ── used by everything
```

Calls are synchronous Rust calls; shared state is behind mutexes, read-write locks and atomics.
Durable state is reached through one mutex-guarded database session that explicit transactions,
background workers and readers share. There are no messages between processes. What makes the
system hard: several threads in one tree of flags and lists; workers that miss their deadline and
finish later; clocks read before a lock is taken; two stores that must be settled together; commits
with an unknown outcome; and retries of what may have been done already.

### Components with state

| Component | State | Operations | What is hard | What makes it correct |
|---|---|---|---|---|
| core `context.rs` | a tree of nodes: flag, parent, waiter list (≤ 256) | cancel, child, register_waker, drop of a future | the flag is swapped outside the lock, every list has its own lock, tasks register on all ancestors | a cancelled ancestor finds and wakes whoever waits; nothing stays behind |
| core `lifecycle.rs`, `capability.rs` | modules, their state, handle, detached worker, bindings, a state-token chain | register, validate_all, start_all, health, shutdown_all | each module call runs on a worker with a deadline and may end late | a live instance always has one owner; consumers stop before providers, as far as the bindings allow |
| core `shutdown.rs`, `events.rs`, `bootstrap.rs` | phases; bounded subscriber queues; builder | request, drain, stop; publish, lag | ordering, overflow | planned |
| account-circuit | breaker state, generation, counters, probe leases | observe, acquire, validate and complete probe, reset | callers act on what they read before the lock; leases expire | stale callers are fenced; the circuit never sticks |
| account-budget | generations of books: counters per policy, reservations | reserve, reserve_fresh, commit, release, expire, publish | retries; lazy expiry; books replaced under open reservations | hard limits; exact accounting; finality |
| rate-limit | windows, permits, leases, an observed instant | try_admit, commit, finalize, retain, release, drop, snapshot | older clock readings arrive later; expiry races answers | nothing above a limit, nothing leaked |
| routing-admission | coupled leases over the two stores above | admit, commit, finalize_accepted, commit_dispatch_unknown, release, drop | two locks, partial failure, rollback that fails | both sides or none; no refund of accepted work |
| storage-rnmdb `session.rs`, `transaction.rs`, `identity_transaction.rs`, workers | open flag, active transaction, quarantine flag | begin, write, commit, rollback, drop, tenant-scoped jobs, reads, shutdown | unknown commit outcome; panics; a handle without identity | answers agree with what is durable; no transaction without owner |
| storage-outbox, `outbox.rs` | rows with state, lease, attempt | enqueue, claim, ack, retry, dead-letter | expired leases, late workers, doubt, reused tokens | one lease at a time; settled once; enqueued once |
| auth-session, `session_repository.rs` | session families, events, evidence, authenticator link | issue, rotate, detect reuse, revoke, expire; load, compare-and-commit, reconcile | decisions on stale snapshots; doubt; history rewritten by the end | a token buys one successor; receipts are true; ended is ended |
| routing-runtime, -coordinator, -policy, -failover, -cost, -wasm | one run per request: plan, slots, attempt, probe, permits | route, admit, probe, authorise, dispatch, settle, fail over | state read before three awaits; callers that go away; the policy's fallbacks | every attempt settled once; no unsafe retry; no dispatch past a circuit |
| file-service `pipe.rs`, `worker.rs` | one-chunk pipe; job slot, reservation, cells, unresolved stage | offer, read, write, receive, acknowledge; submit, run, complete, contain, shutdown | wakers installed beside a thread that blocks; jobs that outlive their futures | bytes in order, no lost wake-up; one holder of every staged asset |
| storage-asset | directories of staged, committed and quarantined assets, intents | stage, commit, reconcile, quarantine | power loss and failures between two file operations | a receipt survives a power loss; a failed call can be repeated |
| file-service `service/`, file catalogue repository | catalogue rows, tombstones, assets, a walk | upload, replay, publish, conflict, reconcile, delete, list | racing twins under one key; dropped futures; unknown outcomes | one file per key for ever; complete listings |
| provider-sdk, provider-dispatch, protocol-openai, api-stream, api-http (streams) | two bounded channels, three tokens, relay threads, body, latch | publish, relay, receive, poll, drop; admit, reap | cancellation at any stage of four actors; full channels; a latch shared by all streams | in order and without a gap; no silent end without a reason; exact permits |
| organization, user-domain, invitation, auth-api-key and their repositories | versioned aggregates, event rows, evidence | transitions, compare-and-commit, reconcile, load | decisions on stale snapshots; doubt; second machines that replay | whatever is committed loads again; reconciliation is exact; retired secrets stay retired |
| account-batch and its repository | plan, items, claims, attempts, mutations | submit, start, claim, complete, finish, expire, cancel, reconstruct | leases that run out; lost answers; other batches on the same account | receipts stand; every item accounted for |
| account-vault and its repository | secret rows, a journal row per rotation, two logs of committed mutations | store, revoke; prepare, record, activate, complete, compensate; replay | a journal is rebuilt from its row at every call; mutations are sent again later; the wall clock is set back | a committed mutation is answered with its own receipt for ever; the journal says what the vault did |
| worker threads of the vault, the account import and the file catalogue | a bounded queue, one cell per call, the thread, the owner's stop flag | call, poll, drop, cancel; receive, act, complete; drop of the repository | wakers left beside a thread; callers that go away; full queues; a stop with work queued | no call acts after it was refused; every call and every thread ends |
| account-{pool (only the order of a snapshot, see RouteSelection),affinity,health,quota,schedule,import,export}, config-runtime | versioned snapshots | publish, observe, select | stale reads | planned |
| auth-password, rbac, principal-binding | versioned aggregates | transitions, compare-and-commit, reconcile | as for the aggregates above | planned |
| storage-{backup,restore,upgrade,migration,maintenance} | phases on disk | order of phases, recovery | crash between phases | planned |
| audit-store | a hash chain | append, verify | rollback of the tail | planned |
| api-realtime, provider-http, core `shutdown`, `bootstrap` | sessions, connections, phases | poll, cancel, drain | back-pressure, cancellation | planned |

Everything else (value crates, protocol text, CLI, test doubles, bundles) is listed in
`PROJECT.json` with the reason for leaving it out.

## 2. Modules

One step of a model is one critical section, one atomic access or one transaction, whichever the
code makes indivisible. A call the code rejects without changing anything is not a step unless its
answer matters. Names follow the source.

**CancellationToken** (`core/src/context.rs`). `cancelled` and `waiters` are the atomics and lists
of the nodes; `pc`, `node`, `taken` are the program counters of threads inside `register_waker` and
`cancel`. Steps: flag load, purge, push, unlink, prune, flag swap, take, wake. A full list cancels
the caller's own token, as in the code.

**LifecycleSupervisor** (`core/src/lifecycle.rs`, `capability.rs`). The supervisor thread runs one
call at a time, one step per module of its loops; a module operation succeeds, fails, panics,
times out or finds no thread to run on, and a timed-out one is an actor of its own that ends later.
Cycle detection and topological order are separate, as in the source.

**AccountCircuit** (`account-circuit`). `observe`, `acquire_probe`, `complete_probe`, `reset`;
callers bring a generation and clock readings from any earlier moment. An overflow or a clock
failure fails closed into `Terminal`.

**BudgetBook, BudgetLedger** (`account-budget`). BudgetBook has the operations as functions from a
book to a book and an answer; BudgetLedger turns them into steps on several generations of books,
because holders of a replaced book go on using it.

**RateController, RateLimit** (`rate-limit`). The same split: operations on a controller value, and
the handles with their consuming methods and drops. An older instant than the observed one is
refused and changes nothing.

**RoutingAdmission** (`routing-admission`) composes BudgetBook and RateController: every operation
is one step per store, so that other requests come in between. `UsesTheController` states that what
it does to the controller is what RateLimit allows: its steps refine RateLimit under the mapping
from coupled leases to rate handles.

**StorageSession** (`storage-rnmdb/src/session.rs`, `transaction.rs`, `identity_transaction.rs`,
the vault worker). `tx`, `working`, `durable` are the database's transaction, its writes and what is
on disk; `tainted` is the quarantine flag. The database may answer anything: an error before or
after a statement took effect is a choice. The flag is set without the mutex right after a panic;
since the worker holds nothing then and every other step reads the flag under the mutex, setting it
is one step.

**Outbox** (`storage-outbox`, `storage-rnmdb/src/outbox.rs`): rows seen through transactions that
commit, roll back or end in doubt, claims in batches that may fail half way, and settlements
authenticated by a token derived from the lease.

**SessionFamily, SessionStore** (`auth-session`, `storage-rnmdb/src/session_repository.rs` and its
`decode.rs`, `evidence.rs`). SessionFamily has the pure decisions, the verification on load, the
rebuilding of earlier snapshots and the replay of transitions; SessionStore has requests that load,
decide, commit by compare-and-swap, end in doubt and reconcile, beside the principal binding and
the authenticator link.

**RouteSelection, RoutingRuntime** (`routing-coordinator` with `routing-policy`, `routing-failover`,
`routing-cost`, `routing-wasm`; `routing-runtime`). RouteSelection is the pure part: filters, signals,
affinity, policy, ranking, retry plan, `MayRetry`. RoutingRuntime runs one process per request from
await to await over shared permits and circuits, including callers that are dropped and probes whose
clock reading was overtaken.

**FilePipe** (`file-service/src/pipe.rs`): both directions, one critical section per step, the waker
taken under the lock used in a later step. **TransferWorker** (`worker.rs`, `worker/operation.rs`,
`worker/cleanup.rs`): the thread, its slot and reservation, futures and cells, guards and cleanup
jobs; the asset store answers as it likes, and may panic.

**AssetVolume** (`storage-asset/src/local_volume.rs`, `local_volume/intent.rs`): every operation is its
sequence of file-system calls; `vol` is what the program sees and `disk` what has been synchronised,
so that a power loss between any two calls loses or tears exactly what had not been.
**FileCatalog** (`file-service/src/service*`, `file_catalog_repository*`): uploads, deletions,
reconciliation and the walk through the listing, from await to await over the serialised catalogue
worker; of the volume only the promise checked in AssetVolume is kept.

**StreamDelivery**: the provider's thread (`provider-mock`, over `provider-sdk/src/stream.rs`), the
relay thread and RelayManager (`provider-dispatch/src/stream.rs`, `dispatch.rs`), the blocking receive
task and the body of each protocol (`protocol-openai`, `api-stream`), and the HTTP side
(`api-http/src/public/execution.rs`). `withdrawn` has the three tokens of a stream (the request's, the
attempt's below it, and the output's, which is not below either), `source` and `target` are the two
channels, `manager` is the latch, the shutdown token, the count and the handles shared by all relays.
A receive is two steps, its look at the token and its wait. The chat body also stands for completions.

**Organization, UserLifecycle, Invitation, ApiKey** have the decisions of one domain crate each and
what its repository checks on load, commit and reconciliation. **AggregateLineage** is the abstract
specification: a durable aggregate moves by one decision on what it replaces. **AggregateStore** is
the repository with callers that decide on old snapshots, commits that are refused, take effect or end
in doubt, and reconciliation; it is shown to implement AggregateLineage.

**VaultStore** (`vault_repository*`, `account-vault/src/rotation.rs`): one transaction per step. A
rotation is rebuilt from its row by the domain's own transitions (`reconstruct_journal`), and a record
of the mutation log is answered only if it fits what was rebuilt. Time is in half seconds, so that a
window and the whole seconds its column keeps can differ; the wall clock may step back.

**RepositoryWorker** (the `worker.rs` of the vault, of the account import and of the file catalogue,
chosen by `kind`): callers, cells, queue, thread and the drop of the repository. It is the thread that
StorageSession's jobs and FileCatalog's awaits run on; what a job does is left to those modules.

**AccountBatch** (`account-batch`, `account_batch_repository*`): submission, start, claims under
leases, completions that change the account in the same transaction, finish, expiry, cancellation, and
the reconstruction of a receipt from rows that later commands write.

The `MC` modules bring together components that share no state; a behaviour of theirs runs one of
them, `focus`, and leaves the others at their start. `MCFiles` joins AssetVolume and FileCatalog and is
itself part of `MCStorage`.

Proofs are in `LifecycleProofs` (cancellation, the lifecycle supervisor and browser sessions), `AccountProofs` (circuit,
budgets, the routing admission and batches), `RateLimitProofs`, `StorageProofs` (session, outbox, asset volume
and file catalogue), `RoutingProofs`, `AggregateProofs` (the identity aggregates and the vault) and
`WorkerProofs` (the repository threads, the transfer worker, the file pipe, the relay permits
and the delivery of streams); `FiniteSums` has the lemmas on numbers, finite sets, their order and sums over them that the
others share.

## 3. Runs

| Run | What it shows | Bounds, and why they are enough |
|---|---|---|
| `cancel_tree` | A pending task is on every list of its chain (`RegistrationCoversChain`), cancelled tokens leave no waiter (`NoStaleWaiters`), and a cancel that meets nobody inside `register_waker` wakes everyone (`DeliveredUnlessOthersRegister`, under fairness) | root and two children, three tasks, one canceller, lists of two: purge, a full list and a race of two registrations with a cancel all occur |
| `cancel_lost_sibling` | violation of `CancellationIsDelivered`, see findings | two tasks suffice |
| `lifecycles` | modules: `InstancesAreOwned`, `ConsumersStopFirst`, `ValidationIsTotal`; browser sessions: `FamilyIsOnRecord` (receipts are true, history rebuilds, replay agrees, a token buys one successor), `EndedStaysEnded` | three modules, as a chain of dependencies and as a tangle with a conflict and a cycle, calls without bound; two session requests at a time, four in all: an issuance, two rotations (the capacity of the history) and an end, with stale and doubtful requests between them, two actors, two host clocks |
| `lifecycle_revived` | violation of `WorkingIsUncancelled`, see findings | the chain |
| `accounts` | circuit: `ProbesAccounted`, `NeverStuckRecovered`, `TransitionsAreFenced`; budget: `UsageIsReported`, `HardLimitsHold`, `FinalizedIsFinal`; rate: `AccountedWithinLimits`, `RetainedUntilExpiry`; batches: `BatchIsAccountable`; vault: `MutationsReplay`, `RotationsAreTrue` | threshold, successes and probes 2, clocks to 4, five leases; two policies, one hard and one soft, two reservations, two generations; three keys (both rules, rate only, permits only), instants to 5, five leases; two items under a plan that retries and under a dry run, six mutations, clock readings 0..2 that may go back, claim leases of at most 2; three versions of a secret, two rotations with windows of two and of three half seconds (one that its column keeps and one that it cuts), half seconds 0..2 with one step back, three vault and five rotation mutations, so that a rotation completes or is compensated while another begins. The VIEW leaves out the last answer of the budget, which no property reads |
| `routing` | admission: `BothStoresAgree` and the refinement `UsesTheController`; runtime: `AttemptsAreSettled`, `RetriesAreSafe`, `DispatchesAreAdmittedByTheCircuit` | two requests on one account with a rate, a permit and a hard budget, instants to 4, UTC 0..2; two requests, of three attempts and of one, over two accounts (two permits and one) in seven worlds that differ in a signal, weights, affinity, the policy's answer or a missing price, a transport and an authentication failure, two circuit generations |
| `storage` | session: `AnswersAreTrue`, `TransactionsHaveOneOwner`, `NothingAfterDoubt`, as long as nothing begins on a closing session; outbox: `DeliveredOnce`; volume: `AssetPromisesHold` (durable once promised, and a failed call can be repeated); catalogue: `CatalogIsTrue` (one file per key, complete listings) | two explicit transactions, two jobs, two writes each; two messages and two that collide with them, two clients with clocks 0..2 in any order, three claims; two tokens over two keys of one digest, one failing call and one power loss; three requests over two keys, two contents, two uploaders, two deleters, pages of one, two versions of the commitment key |
| `session_late_begin` | violation of `ReceiptIsDurable` without that condition, see findings | the same |
| `transfer` | pipe: `PipeDelivers`; worker: `StagesHaveOneHolder`; streams: `StreamsAreFaithful`, `SilenceIsExplained`, `RelayAdmissionIsExact`; repository threads: `RefusalsAreFinal`; all: `TransfersEnd`, under fairness | chunks of one and two bytes, so that a read may be partial, and two polls that nothing asked for; two requests with one verification each; one stream in each protocol with one delta and channels of one, so that every publication can meet a full channel, and an unread answer beside a request that wants its only relay permit; two calls on a repository thread with a queue of one, in its three kinds |
| `stream_latch` | violation of `LatchMeansProtocolFailure`, see findings | the streams of `transfer` |
| `vault_window` | violation of `MutationsReplay`, see findings | a window of one half second |
| `identity` | `HistoriesStaySound` (every aggregate loads again and every reconciliation is exact), `StoreFollowsTheDomain` (the repository implements AggregateLineage), `SecretsStayRetired` | three users, one team, two principals, seconds 0..2; histories of eight versions of an organization and nine of a user, two of an invitation, six of an API key; two callers with three or four attempts |

Clock readings are members of small sets in any order, since callers read clocks before they take a
lock. `MaxGeneration`, `MaxLeaseId`, `MaxIdentity`, `MaxAttempt`, `MaxClaims`, `MaxRequests`,
`MaxMutations`, `MaxLineage` and the end of each time range bound counters that are 64 bits wide in the
code; where the code itself refuses at the end of the range (lease identities, window ends,
generations) so does the model. Symmetry is used over interchangeable callers, reservations and leaves,
and never with a fairness property. In every run some component may come to rest (all callers done, a
bound reached), so deadlock is not checked; what must go on is stated as liveness.

**Fairness.** `FairSpec` of CancellationToken is weak fairness of each thread's steps inside
`register_waker` and `cancel`: the operating system schedules a thread in the middle of a call, and
neither call waits for anything but a short lock. Whether a task polls or somebody cancels is not
assumed. In `transfer` the blocking threads and tasks that have been woken are scheduled (weak), with
two exchanges that the code leaves to timing: the end-of-file handshake of a download, where finishing
writer and registering receiver may step aside for each other again and again (`PipeEnds` states that
exception), and the completion of a JobCell, where a task may install a new waker each time the worker
looks (`SF` of its last step: a task polls only when woken). In streams the provider's thread, the
relay, the receive task and the handler are scheduled, and so are a repository's thread, the drop of
its owner and the polls of tasks that have been woken; the deadline of a request
passes. That a client polls or goes away is not assumed.

## 4. Findings

- **A lost wake-up** (`cancel_lost_sibling`, `context.rs:84`). `cancel` sets the flag before it
  takes the list. A task of another token that registers on the same ancestor in between purges
  waiters whose token is cancelled; the purged one is nobody's to wake any more. In the trace the
  cancelled root's other child loses its waker.
- **A revived module** (`lifecycle_revived`, `lifecycle.rs:745`). `health` probes whatever still has
  a handle. A module that an earlier call declared unavailable, with its token cancelled, but whose
  retirement could not be started, answers healthy and is Ready again with a cancelled context.
- **A receipt for a transaction that was rolled back** (`session_late_begin`, `session.rs:387`).
  Shutdown rolls back the active transaction and leaves the handle usable; if another caller begins
  afterwards, the first handle's commit commits that one and returns a receipt.
- **A cancelled stream latches the dispatcher** (`stream_latch`, `provider-dispatch/src/stream.rs:384`).
  When a request is cancelled while its relay waits on the provider's channel, the provider drops its
  publisher and the relay's wait ends with Closed instead of Cancelled. `handle_premature_close` does
  not ask whether the attempt is still active: it marks the dispatcher unhealthy, the next reaping
  cancels the manager, every other stream ends, and no later one is admitted.
- **A window below a second cannot be read back** (`vault_window`,
  `vault_repository/rotation/codec.rs:426`). `RotationWindow::new` takes any overlap above zero, the
  journal row keeps its whole seconds, and `decode_overlap` refuses a zero: the rotation is prepared and
  answered, and from then on neither its mutations nor their repetitions succeed.

Remarked, without a run: `shutdown_all` says "Consumers stop before providers." (`lifecycle.rs:271`).
Bindings of live modules can run in a circle although validation refuses cycles: a module that was
declared unavailable keeps its handle and its bindings, others are bound anew without it, and a probe
makes it Ready again. With four modules (one provides x, one needs x and provides y, one needs y and
provides x, one provides y) a provider then stops before a consumer; `ConsumersStopFirst` allows it there
and nowhere else.

A reservation sweeps expired ones before its hard limits are checked, so a
refused one may still change the book, where a doc comment of `reserve` says that a hard-limit
failure makes no state change. A session link revoked through the authenticator repository leaves
its family active but neither rotatable nor revocable (every commit answers IntegrityFailure; it
fails closed). Reconciliation confirms a commit only while the family is at the target version or
the next, and only if host clocks did not go back; otherwise it answers IntegrityFailure for a
change that is durable, and SessionStore includes that.

Routing: the comment at `routing-coordinator/src/lib.rs:1138` says that a degraded policy fails closed
before admission; `engine.rs:835` falls back to native routing, as `routing-wasm` says. A retry plan may
contain a candidate of weight zero; reaching it ends in NoEligibleCandidate with others untried. A probe
whose completion an overtaken clock refuses keeps its lease until it expires.

Batches: an item with no attempts left refuses the whole claim, so that later items wait for a finish
or for the expiry; a claim may commit with no item in it.

Files: a transfer worker may report a clean shutdown with a stage left in `unresolved_stage`. After a
power loss a torn stage can be neither committed nor, if its intent is torn, quarantined; a repeated
quarantine that finds its tombstone does not synchronise `.consumed` again; a quarantine of a stage with
a publish intent whose key another token has committed is indeterminate for ever. The same bytes under
another media type are refused as a conflict; a replay after a deletion still answers the original
descriptor.

Identity: users are compared by version alone on commit; an API key whose link was revoked under it
can no longer be reconciled or ended; the consumer of an invitation is compared by its digests only.

Streams: a deadline or a shutdown of the HTTP runtime gives an error or a silent end, depending on
whether the receive task was waiting; a truncated audio body looks like a complete one; a filtered
answer ends chat and completions normally but fails a Responses stream, whose queued frames only the
cancellation of the request by HttpBodyLifecycleStream holds back; one provider's premature close
ends all streams of its dispatcher.

## 5. Theorems

Proofs are in modules of their own and hold for every value of the constants under the named
assumptions of the modules (`TreeAssumption`, `BudgetAssumption`, ...).

**LifecycleProofs**, cancellation (`TreeAssumption`): `TypeCorrect`; `PendingTasksAreCovered` proves
`RegistrationCoversChain` for every tree, set of threads and list capacity. The property alone is
not inductive: it speaks of tasks that are done registering. `IInv` adds `TasksOnChain` (a thread
stands on the chain of its token), `WaitersBelong` (a list holds waiters of tokens below its node),
`InFlightIsCancelled` (whoever takes, prunes or unlinks has seen a cancellation) and
`PassedIsCovered` (the nodes a registration has passed already list the task). The lemmas say which
steps take a waiter off a list, and that none does so for a task whose chain is not cancelled.

`NothingStaysBehind` proves `NoStaleWaiters`: `StaleAreSwept` says that while a list still has a waiter
of a cancelled token, some thread inside a call on that token has yet to come to that list.

Supervisor (`DescriptorAssumption`: priority and identity are a strict total order of the modules):
`LifecycleTyped`, `EveryInstanceIsOwned` (`InstancesAreOwned`), `EveryModuleIsJudged`
(`ValidationIsTotal`) and `UsersStopFirst` (`ConsumersStopFirst`), for any modules, descriptors and
outcomes. `Slots` is the strengthening of the first: a handle is of a live instance and excludes
workers, and a worker is left behind only for a module that is out of service, which is why it can
never come back with a worker still running. The other two rest on what the code's loops compute.
`RunExists` gives a recursive function its solution and `CountingTo` an induction over its steps, both
for sets instead of predicates; with them `ReachIs` (as many steps as there are modules close the reach
of a module), `CycleIsFound` (a set in which everyone is bound to another member has a module that the
cycle check finds: the one that reaches least), `OrderIsTotal` (Kahn's queue therefore orders every
module that passed the check) and `ShutdownOrderIs` (every handle is visited once, users first).

Sessions (`FamilyAssumption`, `StoreAssumption`, `NoFamilyAssumption`: the absence of a family is no
family): `FamiliesStayOnRecord` (`FamilyIsOnRecord`) and the action property `FamiliesStayEnded`
(`EndedStaysEnded`). `SessionIInv` says of the durable family that it passes the verification on load,
that its events are those of its leaves and that every version on record is the one rebuilt from it; of
a request that what it may still commit was decided on a snapshot that is on record, at the version it
names. Since a version names one snapshot, a plan whose version is current was decided on the family
that is stored (`AcceptedIsCurrent`), so the replay in the repository comes to the same transition
(`ReplayIs`). `Follows` is what a decision does to the leaves: it adds at most one and overwrites only
states and versions, from which `RebuildsEarlier` follows. That a token is honoured once follows from
the identities of the leaves: a rotation on record replaced the leaf before its own (`RotatedAt`).

**AccountProofs**, circuit (`PolicyAssumption`): `CircuitTyped`, `ProbesAreAccounted`,
`RecoveryCompletes`, the action property `StaleObserversAreFenced`, and `ClosesAfterRecovery`. The
invariant adds that lease identities are unique, which counting leases rests on, and that a closed
circuit is below its threshold. Budgets (`BudgetAssumption`, `LedgerAssumption`): `BudgetTyped`,
`HardLimitsAreKept`, `FinalizedRecordsStay`, `UsageIsAlwaysReported` and `ExpiryNeverFails`. One lemma
per operation states that it `Keeps` a book (its type, hard limits and finalized records), another what
it does to `UsageIsExact`: the counters are the sums over the records. From that it follows that the
overflow branch of a sweep cannot be taken.
Routing admission (`RoutingAssumption`): `StoresAlwaysAgree` (`BothStoresAgree`), for any requests,
reservation identities, limits, policies and clock readings, and with anything of other requests between
the two halves of an operation. `AdmissionIInv` adds that the book is exact and that its counters fit
(so that a settlement never takes the overflow branch), that the controller gave out the identity of every
coupled lease, where each lease is between its two stores and what the book says of its reservation
there (`BudgetFits`), that no two of them owe one reservation and that whatever is reserved is owed by one.
`SweepMoves`, `ReserveMoves` and `SettleMoves` say which records a budget operation can move and to
what; `Ages` what time may do to the leases of a controller: they go, and a charged one stays charged.
`AdmissionRefinesTheController` is the refinement `UsesTheController`. The mapping gives RateLimit the
identities in the hands of requests, in a drop and kept; `HandsOK` says that a request has kept nothing
before it is done, that a close failed only where a drop follows, and that no two requests hold one
identity, so that removing it from the set is removing its one holder.
Batches (`BatchAssumption`: the accounts a plan names are in the registry or known to be absent, and
versions are numbers): `BatchesAnswer` (`BatchIsAccountable`), for any plans, clocks that go back, leases
and moves of other batches. Of every entry of the log the invariant says what its receipt is rebuilt from
(`EntryIsSound`): for a completion that is the row of its item, so it also says that a row names the
claim that handed it out (`HandedBy`), that no two claims made one revision (`ClaimsDiffer`), and that an
outcome is what its own columns decide again (`RowIsSound`). A commit adds one entry and never touches a
completed row (`RowsKept`), from which the earlier entries stay sound.

**FiniteSums.** What a sum over a finite set is, without the induction theorems that take an operator:
`Adds(g, w, S)` says that `g` gives every subset of `S` the sum of its weights, one element after the
other; that there is such a `g`, and one only, is shown by collecting the subsets for which it holds in a
set and letting them grow by one element at a time (`CountingUp`, `AddingUp`). `FoldAdds` connects this to the folds of
the community modules that the models are written with; `TotalSplits` and `TotalOfOne` are what the
component proofs cite.

**RateLimitProofs** (`RateAssumption`): `RateTyped`, `NothingLeaks` (`AccountedWithinLimits`) and the
action property `RetainedStay` (`RetainedUntilExpiry`). `Sound` of a controller value says that the
pending units and permits of a key are the sums over its leases, that identities are used once, and that
a lease ends within its window; `Held` that an identity is with a handle, in a drop or retained, never two
of these, and that no lease is without a holder.
Each operation `Follows` its controller: all it removes is what it was asked to close or what has
expired.

**RoutingProofs** (`RuntimeAssumption`: the pool is finite, as `MAX_SNAPSHOT_CANDIDATES` sees to, and has
natural numbers for the order of its identities): `EveryAttemptEnds` (`AttemptsAreSettled`),
`RetriesStaySafe` (`RetriesAreSafe`) and the action property `DispatchIsAdmitted`
(`DispatchesAreAdmittedByTheCircuit`), for any number of requests, any permits and any snapshots at each
coordination. Nothing is assumed of the ranking but what the code's selection gives: `FirstRoute`, the
selected candidate heads a plan that names nobody twice, because the pool order is strictly ascending;
`NextRoute`, a pool of one selects that one. `RequestOK` is about one request and its attempts: all
attempts but the last have failed over (settled, in a retryable class, before a byte), the last fits
the place of the request (`LastFits`), the accepted ones are exactly those listed so far
(`AcceptedFits`), and the attempts go through the plan in order, one coordination each at least (`PlanFits`).
What a step does to a request is proved of a control state and a sequence alone (`StopsKeep`, `MovesKeep`,
`EndsKeep`, `AdvanceKeeps`, `RefusalKeeps`, `AdmittedKeeps` and the like), the actions then cite it.

**StorageProofs**, session (`SessionAssumption`): `AnswersHold` (`AnswersAreTrue`),
`TransactionsAreOwned` (`TransactionsHaveOneOwner`), `NothingFollowsDoubt`, under `~LateBegin`, without
which the third finding refutes them; and `QuarantineHolds` without any condition. The invariant relates
a handle's program counter to the transaction, the working set and what is durable, says that nothing
acknowledged is lost, and that doubt implies quarantine. Outbox (`OutboxAssumption`,
`NoTokenAssumption`: the absence of a token is no token): `OutboxTyped`, `OutboxDeliversOnce`
(`DeliveredOnce`). `TableOK` is kept by the committed and by the working table, since a rollback returns
to the first: claims of a row are numbered by its attempts, the lease of a row is its latest claim, a
row that waits again was released, and a settlement is of a past attempt.
Volume (`VolumeAssumption`: every key has a digest, something may be staged, and media and reasons are
not the marks of a missing or torn file): `VolumeKeepsPromises` (`AssetPromisesHold`), for any number of
tokens, failing calls and power losses. Since a power loss leaves each directory as seen or as
synchronised, `AssetIInv` speaks of both: what is synchronised is seen and a descriptor that is seen has
its content synchronised; a tombstone or marker that is anywhere is that of an asset committed for good or
of a stage claimed for quarantine in both; what is torn is torn in both; a stage with a commit receipt
shows its publish intent or has lost its content, in both, so that a quarantine never begins for it.
`CommitAt` and `QuarantineAt` say what an operation knows at each of its calls, and `Retryable` what a
failed commit leaves. A step changes one stage and takes back nothing published (`Touches`), so each
action is proved for its own token and the others follow from one lemma.
Catalogue (`CatalogAssumption`: a request has a key, a media and an expectation, and a page has room for
a file): `CatalogTellsTheTruth` (`CatalogIsTrue`), for any requests, contents, uploads and deletions at
once, key rotations and pages of any size. `CatalogIInv` says that an operation on record commits to the
request it is of and to the file it names, under a key that is still configured; that the reference an
upload was given is its own and names nothing until it is published, so that a publication replaces no
row; that an upload whose asset is committed can be served; that no two tombstones are of one file; and,
of a walk, that what was there throughout is visible and listed up to the cursor. A page is a prefix of
the ascending list of what is after the cursor (`RowsAre`), and so continues what is listed
(`JoinAscends`).

**AggregateProofs** (`LineageAssumption`, `AbsenceAssumption`: the absence of a snapshot is none,
`KindsAssumption`). `StoreRefinesTheDomain` is the refinement `StoreFollowsTheDomain`, for any number of
callers, attempts, refusals, doubtful commits and late reconciliations. The repository compares
versions; what makes this enough is `Had`: the snapshot that an attempt was decided on is one the
aggregate has had, and of those a version names only one. `SecretsAreNeverRevived` and
`StoredSecretsStayRetired` prove `SecretsStayRetired` of the domain and of the repository.
`HistoriesStayLoadable` and `StoredHistoriesStayLoadable` prove the first half of `HistoriesStaySound`
for users, invitations and keys: whatever commands were taken, the snapshot passes the checks of its
repository, a user's version has the parity its state requires, and the events replay to the
transition they came from.

Vault (`VaultAssumption`): `JournalTellsTheTruth` (`RotationsAreTrue`) and, for windows of a
second or more, `RepeatedMutationsAreAnswered` (`MutationsReplay`); the finding `vault_window` shows that
the condition is needed. `RowFits` says, phase by phase, which columns a row of the journal has and in
which order their instants are, and `RevokedForGood` that a revoked secret keeps its instant; `Rebuilds`
shows that such a row is read back as the journal it was written from, `RowAdvances` that a transition
of what was read back gives such a row again, and `EntryFits` that an older receipt still agrees with
the history its row implies.

**WorkerProofs**, transfer worker (`TransferAssumption`): `StagesAreHeldOnce` (`StagesHaveOneHolder`), for any
number of requests and verifications. The strengthening follows the stage: `InOnePlace` (slot, thread,
cell and `unresolved_stage` exclude each other), `OneLive` (there is at most one live stage), `SlotOK`
and `HandsOK` (who has the slot or works is the only one that can have it) and `CellOK` (the cell of a
job is empty until the job is completed).

Repository threads (`WorkAssumption`): the action property `RefusalsStayFinal`
(`RefusalsAreFinal`), and `NoWakeUpIsLost`, the safety half of the claim that every call ends: a task
that waits and is not about to be polled has left its waker where the thread has yet to look. `JobOK`,
`ActedOK` and `WakeOK` relate a call to its place in the queue, its cell and its waker.

Pipe (`PipeAssumption`: chunks are not empty, as `FileChunk::new` and `write` see to): `PipeDeliversAll`
(`PipeDelivers`), in both directions, for any chunks. `Upto(b, s, k)` says that `b` is the file up to byte
`k` of chunk `s`; the invariant says, for each place of the two sides and state of the pipe, up to where
`got` is (`UploadOK`, `DownloadOK`), that a chunk is in the pipe, with the receiver or acknowledged and
never two of these, that an end of file is published with no registration under way, and that a waker
is in the pipe or in the worker's hands when a task is parked.

Relay permits (`StreamAssumption`): the action property `RelayBudgetIsExact`
(`RelayAdmissionIsExact`). `PermitsAreCounted`: the counter is the number of dispatches that wait for
their relay plus the number of registered handles; `RelaysAreRegistered`: a relay is registered from its
start until it is reaped, so that after reaping the handles are exactly the relays that run. That the
holders are finitely many is part of the invariant and needs no bound on the streams.

Streams (`StreamAssumption`): `StreamsStayFaithful` (`StreamsAreFaithful`) and the action property
`SilenceStaysExplained` (`SilenceIsExplained`), for any streams, any number of deltas and any capacities
of the two channels, in every protocol. Neither is inductive; what carries them (`FaithInv`, which TLC
checks on the streams of `transfer` with two deltas as well) follows every event on its way. `ChainOK`:
the positions of what the body has used, what its receive task has brought, what waits in the service
channel, what the relay holds and what waits in the provider's channel are consecutive, up to the
provider's next; it is kept only while the body still wants events, since a relay that exits throws its
channel away. `ShapeOK`: an open body has sent, or queued, the frames of the start and then nothing but
deltas; a terminal one has still to send frames that end in a finish, or has sent it; a closed one has
ended or told its client why. Position and shape together give the sequence number of a delta from its
place in the output, and with `TruthOK` (a completion in flight is the provider's last word and its
number says how many deltas came before) that all of the answer was sent when it is said to be finished.
`TokensOK` has why a stream can be stopped: the output's token is withdrawn while the body is live only
for a reason `SilenceIsExplained` names, and the attempt's, which every relay withdraws on its way out,
is no such reason.

Only model-checked, and why:

- liveness (`DeliveredUnlessOthersRegister`, `TransfersEnd`): fairness and ENABLED are out of the
  prover's reach;
- which candidate the selection takes (the ranking by price, tier and weight) has no property of its
  own; the proofs about the runtime hold whatever it is;
- `ReconciliationIsExact`, the second half of `HistoriesStaySound`, which folds over event rows, and the
  loadability of organizations, whose formula counts memberships.

## 6. Not modelled

Parsing, rendering, HTTP and TLS, cryptography, SQL text and row encodings, the database and the
operating system themselves (what they may answer is a choice in the models), error wording,
metrics and logging. Poisoned locks and wakers that panic are left out: they follow a panic inside a
critical section or in a foreign waker. Rate policies are never replaced in RateLimit. The
authentication of identities in a request (tenant, account, subject mismatches) is a rejection before
any state and has no counterpart. Of routing: exclusion reports and explanations. Of batches:
`list_outcomes` and the re-check of authorisation; digests are the commands they are of. Of users:
their creation, which the repository does not have, so that rows start with version 2. Of streams: byte
and event limits, usage and heartbeat frames, the saturation of relay sequence numbers, and the
destruction of the mock provider's executor.

The map covers about an eighth of the implementation's lines. Much of the rest has no behaviour that a
model could add to: storage-rnmdb alone is 58,000 lines, most of them codecs, statements and
canonical encodings of rows; protocol-openai, api-domain, api-files and provider-http are 27,000 lines
of typed values, parsing and rendering. The parts with state of their own that are still missing are
in the plan.

## 7. Plan

In this order; composed modules after the components they use.

1. Password credentials, role assignments, principal bindings and authenticator links as further kinds
   of AggregateLineage and AggregateStore.
2. `StorageMaintenance`: backup, restore, upgrade and migration, with crashes between phases.
3. Account import and export: restart between two steps.
4. core `Shutdown` and the audit chain; `RealtimeSession`: bounds and cancellation.
5. account-{pool,affinity,health,quota,schedule} and config-runtime: publication and stale readers.

Abstract specifications worth stating: a ledger as a set of grants within a limit, implemented by
BudgetLedger and by RateLimit; a circuit as closed, open or probing with an oracle, which
RoutingRuntime already uses informally.
