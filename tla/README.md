# TLA+ verification of the LicoMesh (Meshrix.js) coordination core

LicoMesh is an agent gateway: a TypeScript monorepo with a server runtime,
protocol adapters, a permission core, plugins and a console. Whatever it does
asynchronously (imports, materialisation of uploads, sandboxed executions) goes
through one durable work queue; what must not run twice goes through expiring
locks; what agents see of upstream services goes through a transactional
manifest authority and a publication pipeline; and the storage under all of it
can be restored from a backup. This project models these four, checks the
models with TLC and proves their central theorems with TLAPS.

Paths are relative to the repository. `work-queue/` stands for
`packages/foundation/src/work-queue/`.

## 1. Inventory

| Component | State it keeps | Operations | Hard behaviour | Correct when |
|---|---|---|---|---|
| Store (`work-queue/sqlite-store*.ts`) | rows of work items with lease columns, journal, sink fences, controls, visit counters | enqueue, claim, complete, retry, progress, checkpoint, cancel, fail, expire, mark in doubt, acknowledge, receipts, reconcile, recover, control | workers that lost their lease, several processes, retention inside other transactions, deadlines | one attempt at a time, attempt budget, fencing, capacities, deduplication |
| Lifecycle (`workflow/state-machine/work-queue`) | none | transition table | every transition of the store goes through it | no illegal transition is journalled |
| Scheduling (`scheduling.ts`, ranking query) | visit counters, priority class of each item | selection, ageing | counters, classes and limits change between and within batches | shares, reservations, no starvation |
| Worker runtime (`worker-runtime.ts`) and fallback coordinator | settled/aborted flags and lease of each execution | run a handler, renew, settle, interrupt, fall back | handlers that hang or outlive their lease, failing store calls, timers | handlers do not overlap, every attempt ends |
| Push dispatcher (`push-dispatcher.ts`) | reserved credit, executions in flight | dispatchOnce, drain, cancel | concurrent calls, awaits between claim and start, callbacks that fail | credit limit, no leaked credit |
| Application port (`packages/server-runtime/src/composition/queue-application-port.ts`) | registrations, global credit, cursor, triggers | register, request dispatch, close facet, stop, close | coalescing, closing while dispatching, drains that time out, repeated closes | global ceiling, no queue with work passed over for one without, orderly shutdown |
| PostgreSQL store | as the SQLite store | the same contract | row locks instead of a single writer | agrees with the SQLite store |
| Registry and policies | versioned queue definitions | register, resolve | policy of an old version applied to new work | one definition per version |
| Lock managers (`packages/foundation/src/concurrency`) | locks with tokens and expiry, waiter queues | acquire, release, heartbeat, poll, expiry, shutdown | late timers, several processes, aborted waiters, a handle that outlives its lease | mutual exclusion up to expiry, increasing tokens, no lost waiter |
| Operation lock (`composition/operation-dispatch-lock.ts`) | one handle per call | run under the lock, renew, settle | the lease is lost while the operation runs | of operations that overlapped at most one succeeds |
| Storage maintenance lane, lifecycle lock | lane of queued mutations, lock file | run mutation, acquire | timeouts of work that goes on | one mutation per root |
| Restore (`storage/restore-transaction.ts`) | journal directory, rollback and staged files, receipt | execute, catch clause, reconcile at start | crash or loss of power between any two file operations, failing calls, files changed by others | one generation whole, the receipt tells which, startup recovers |
| Manifest authority (`storage/service-manifest-transaction.ts`) | versions valid in revision intervals, blobs, candidate and published pointer, request history | commit, acknowledge, read | shared blobs, bounded clean-up, repeated requests | two plain sets, nothing piles up |
| Manifest publication (`upstream-gateway/manifest-*.ts`, `server-runtime-providers.ts`) | gateway registry, operation catalog, audience, pending publication, two lanes | scan, commit, announce, acknowledge, refresh | failures between replacements, roll back, crashes, other lanes, binding at start | gateway and catalog agree, only what was announced is published, every set is published |
| Jobs, uploads | projections of jobs, upload sessions | submit, observe, recover | terminal notifications lost or repeated | projection agrees with the queue |
| Protocol events, pub/sub | durable events, subscriptions | publish, deliver, acknowledge | redelivery, order | at least once, in order |
| Permission core | pending approvals, grants | request, approve, use | grant used twice, revoked in between | an effect has a live grant |
| Authorization, secrets, sandbox, checkpoint trees, plugins, gateway, workspaces, console, tools | see `PROJECT.json` | | | |

How they interact. A producer enqueues through a facet of the port. The port's
timer, and explicit requests, trigger the dispatcher of each registered queue
with a share of the global credit. The dispatcher reserves local credit, has the
store claim (the claim first sweeps deadlines, lapsed leases and attempts in
doubt), and starts an execution of the worker runtime for each lease. The
runtime races the handler against its limits while it renews the lease, and
settles the item in the store under that lease. Terminal items are reported by
a callback. Closing goes the other way: stop triggering, await dispatches,
drain executions, close the store.

Apart from the queue: an operation of an exclusive concurrency group runs inside
`withOperationLock`, over the lock manager. A process that configures a service
commits a manifest to the authority; the observer of every gateway scans it,
hands the set to the committer, which replaces registry and catalog, has the
permission platform compile the audiences, and announces them; then the
composition acknowledges the set as published. A restore runs on a stopped
storage and is finished or undone before the storage opens again.

## 2. Modules

```
WorkQueueLifecycle   transition table
        |
  WorkQueueStore  --implements-->  WorkAttempts  <--implements--  QueueWorker
     |                                                                |
  FairClaim (what claim selects)                              PushDispatcher
                                                                      .
                                                            QueueApplicationPort

  SqliteLocks  --implements-->  ExpiringLock
     |
  OperationLock (uses SqliteLocks; OpSpec => Spec)

  ServiceManifests  --implements-->  PublishedSet
     .
  ManifestPublication (sees the authority through its two revisions)

  RestoreTransaction
```

A dotted line is a composition by abstraction: the upper module's state is
represented in the lower one by counts or revisions. `<Module>Proofs` holds the
theorems about a module; QueueWorkerProofs also has those of PushDispatcher,
OperationLockProofs those of SqliteLocks, and StorageTransactionProofs those of
RestoreTransaction and ServiceManifests. **SumTheorems** has the lemmas on sums
over finite sets that three of them need.

* **WorkQueueLifecycle** is the table of `state-machine.ts`. Every `Move` of the
  store consults `Legal`; an illegal transition throws, so the action is disabled.
* **WorkQueueStore**: one queue, one action per public operation. Each operation
  is one SQLite transaction, hence atomic. `rows` is `work_items`, `sinks` the
  settled receipts in `work_queue_sink_fences`, `mode` the queue control, `now`
  the time source. `incarnation` and `leases` are history variables. Any process
  may present any lease ever granted, or none, at any time: crashes, delays and
  duplicated calls of workers are interleavings of these calls, and a crash of
  the store between two transactions changes nothing that is modelled.
  Retention is part of each transaction (`Commit`) and has two halves. Failed rows
  are limited at every transition: `makeFailedCapacityRoom` deletes the oldest
  before a row becomes failed (`FailedRoom`). Terminal rows are swept by
  `maintainRetentionAfterAppend` once every `SweepEvery` transitions of the queue,
  counted in `pending`, at most `CleanupBatch` rows at a time, and by the
  excess it counts (`Excess`: each state is counted up to the cap and one more).
  `SweepEvery` is `retentionMaintenanceThreshold`, 64 by default. A claim may
  append several transitions; which of them a sweep falls between is left open,
  so that only how much its sweeps can delete is kept (`TerminalSweeps`).
* **WorkAttempts** is the promise the store makes to its callers: an item is
  handed out at most `MaxAttempts` times, one attempt at a time; an attempt whose
  fate is unknown is not handed out before it is settled; what is finished stays
  finished. It knows no lease, clock or capacity.
* **QueueWorker**: `runLeased` for every attempt, each `await` a boundary between
  actions, over a store reduced to what WorkAttempts promises and to whether the
  lease has lapsed and the deadline has passed. Handlers return any outcome,
  throw, settle through their context, or never end.
* **PushDispatcher** extends QueueWorker with concurrent calls of `dispatchOnce`;
  a claim commits in one step and its answer arrives in a later one.
* **QueueApplicationPort** models all queues of a process. It keeps only counts
  of waiting work and of executions.
* **FairClaim** models the selection inside a claim: class cycle, ageing, visit
  counters, the ranking over tenant, workspace and project, lease limits and
  reservations. WorkQueueStore allows any selection, so it is an abstraction of
  this module in that respect.
* **ExpiringLock** is the promise of every lock manager: a lease goes to one call
  at a time, tokens grow, what ran out is not revived. **SqliteLocks** is the
  SQLite manager: one key, processes that share a row and each have a handle
  (`entry`), a queue of waiters and a scheduled poll. Each method runs to its end
  without an `await`, hence is one action; timers may fire at any time after they
  are due, and a process may crash or shut down anywhere. **OperationLock** adds
  what `withOperationLock` does while it holds the lock.
* **ServiceManifests** is the authority, one action per transaction that changes
  it: a commit that changes a service or only records its request, and an
  acknowledgement with its bounded clean-up. Repeated and conflicting requests,
  and those refused at a capacity, leave the state as it is. **PublishedSet** is what it promises.
* **ManifestPublication**: observer, committer lane, lane of operation layers,
  and the acknowledgement, with a failure at the awaited calls that can
  throw: both events, the admission of an audience after its event was sent, the
  replacement of the catalog, the compilation, the roll back itself
  (`RestoreFails`: `saveCatalogSnapshot` rejects once the registry is restored,
  and both layers stay as they are), a change of plugin operations, the
  acknowledgement; and crashes. The catalog is its revision and the number of
  plugin changes in `baseOperations`, and a roll back restores both as the commit
  captured them. `announced`, `admitted` and `torn` are history variables; `torn` says that
  a roll back failed and no commit has succeeded since.
* **RestoreTransaction**: every file operation that changes a name, and every
  synchronisation, is a step; `seen` is what the running process sees and
  `durable`/`moving` what a loss of power may leave. The rename, its roll back
  and finalisation, the catch clause and the start-up are one program with a
  place `at` and a `mode`.
* `MC*` modules name the instances. `PROJECT.json` maps every definition to its
  lines.

Definitions called `Mut...` stand before the definition they alter. Each is the
code with a plausible slip (a lost guard, a missing reset, an off-by-one); the
property named in `PROJECT.json` fails when it takes the place of the original.

## 3. Runs

Every `.cfg` switches the deadlock check off, because these systems really stop:
work is finished, the bounded clock reaches its end, ids are used up, or the port
is closed.

| Run | Instance | Shows |
|---|---|---|
| StoreAttempts | 1 item, 2 attempts, lease of 2 ticks, deadline after 3 or 5, clock to 5, delays 0 and 1, explicit receipts, pauses | type; lease columns agree with state and attempt counter; attempt budget; a receipt settles the attempt it is about; fencing tokens increase; the store implements WorkAttempts; deadlines are enforced also while paused |
| StoreContention | 3 items, batch of 2, one shared concurrency key, one shared dedupe key, every capacity at 1 or 2, a sweep of up to 2 rows every 2 transitions | exclusion by concurrency key, deduplication, limits of running and failed rows, live leases undisturbed by claims |
| WorkerAttempts | 1 item, 3 attempts, store calls that fail in the runtime and within the handler's context, an operator who cancels | handlers never overlap, every attempt ends, WorkAttempts implemented |
| DispatchCredit | 2 items, one terminable, 1 call at a time, credit 1, batch 2, all operator actions | credit limit, reservations backed by calls, saturation ends |
| Port | 2 queues, global limit 2, 2 in flight each, batch 2, 3 items of work per queue, one facet closable, drains may time out, closes are repeated | ceiling over registered queues, a closed facet is idle, a first close is orderly, only executions keep a queue with work waiting |
| Fair | 4 items, 2 tenants, one with 2 projects, 3 classes with a slot each, lease limits 3, 3 and 2, ageing, expiry, retry, batches 1 and 2 | each class gets its slots while it has work, siblings keep reservations, a claim leaves nothing claimable behind but items without a visit counter |
| OperationLocks | 2 processes, one with 2 calls, lease of 2 ticks, clock to 3 | a live handle holds the row, waiters are polled, overlapping operations do not both succeed, ExpiringLock implemented |
| ServiceManifests | 2 services, 3 manifests, 2 requests of which 1 is remembered, backlog 2, 4 revisions | PublishedSet implemented, clean-up leaves nothing behind |
| Publication | 3 sets, 1 change of grants, 1 of plugins, 2 faults | gateway and catalog agree at rest unless a roll back failed, no roll back undoes a plugin change, only announced sets are published, an admitted audience revision identifies, every set is published |
| Restore | one file replaced, one created, one deleted; 3 faults, 1 change by somebody else | one generation whole, the prior one survives, receipt and acknowledgement are true, startup recovers |
| FairAgedWork, RestoreReported | smallest instance that shows it | violations, below |

Why the bounds are enough. Two attempts give a stale lease, a live one and an
exhausted budget; three give an abandoned handler of each of two earlier
attempts. A lease of two ticks can be renewed before it lapses, and the deadlines
three and five fall inside and outside a second lease. Two items are the least
that compete for a key, a slot or a retained row, the third shares the other key.
The port's limit of two is what one of its two queues can hold alone, as
executions or as the reservation of one dispatch, so that the first queue of a
cycle leaves nothing to the second, with work or without; the rotation of the
cursor is what `OnlyExecutionsKeepWaiting` then depends on, and its mutant, a cycle
that always starts with the first queue, breaks it. The property supposes
that from some time on the dispatches are answered before the timer's next tick. Without that
a queue can be starved (PortStarvation), although `docs/functionality/INGESTION-JOBS.md`
lines 43-46 say that no queue can permanently take the first slot.
A sweep every two transitions, of up to two rows, gives transactions with and
without a sweep and claims with several.
Three classes with a slot each, and batches of two, make the window of a class's
share begin and end inside different claims; proof covers cycles in which a class
has several slots.
Two processes of which one has two calls give a waiter behind a call of its own
process and one behind another's; a lease of two ticks can be renewed, lapse and
be taken over before the clock ends at three. Two services over three manifests
share a blob, give one back and take a third; four revisions let the published
set be two behind and catch up twice. Two faults in a publication hit a step and
its roll back, or a step and the retry; three in a restore hit the operation, its
recovery and the recovery of the recovery. The three records of the restore are
its three kinds, and the middle one has neighbours done and not done.
A bound that cuts a counter is a guard on the input that raises it (`MaxTime` on
clock and deadlines, `MaxIncarnations` on re-enqueueing, `MaxVisits` on claims,
`MaxWork` on enqueueing, `MaxRevision` on commits, `MaxPolicy` and `MaxPlugins` on
changes, `MaxFaults` and `MaxMeddling` on failures), never on an operation that
settles work. The largest runs reach some 1,684,000 (OperationLocks), 263,920
(Fair), 165,611 (Publication), 84,084 (StoreContention) and 70,234 (Port)
distinct states.

Retention and capacity. `CapacitiesHold` bounds running and failed rows, which the code
keeps at every commit. Terminal rows have no such bound: between sweeps they exceed
`maxTerminalItems`, and since a sweep counts each state up to the cap and one
more only, it may delete fewer rows than have come since the last (StoreRetention,
where they outnumber the cap by more than the transitions between two sweeps).

What the publication's agreement says. `GatewayAndCatalogAgree` allows the catalog to
be ahead of the registry in one case, `torn`: the catalog could not be saved in the
roll back. The next commit that succeeds brings both to one set. `AudienceRevisionsIdentify`
speaks of one process and of projections whose admission completed: a new process
counts from 1 again, and when an admission fails after its event was sent, the
next projection takes the same revision, so that two events may carry one revision.
A roll back restores the base operations of the commit's beginning; that it never
undoes a plugin change that way is `RollBackKeepsPluginChanges`: such a
change would have to end inside the commit, and it waits for a refresh queued
behind the commit (the state of PublicationDeadlock).

Two properties of FairClaim say what they do for a reason. The window of
`ClassesGetTheirShare` begins with a claim: the cursor is the sum of the visit
counters, one more for each item taken, and does not count slots passed over, so
that inside a batch it runs behind the slots that are visited. Counted from the
middle of a batch a class may fall short of its slots, and TLC shows that on the
instance of the run. `SiblingsKeepTheirReservation` speaks of the end of a claim:
for `Reservation` 1, the policy's default (`policies.ts` line 61), it holds of whole batches; with 2
reserved for each partition a sibling that takes one of its leases is still owed
another, and a batch may leave too little for it.

### Disagreements between code and documentation

Two runs expect a violation; `PROJECT.json` quotes the sentence each refutes.

* **FairAgedWork**: an item aged into a class for which its partition has no
  visit counter cannot be selected: claims come back empty.
* **RestoreReported**: a call fails after the journal says that the restore is
  committed. The catch clause then completes the restore and reports that the
  prior state was restored.

Further configurations are kept for counterexamples that are worth reading, but
are not part of the checked runs. Each ends in a violation.

| Configuration | Module | Property | What happens |
|---|---|---|---|
| StoreReusedId | MCWorkQueueStore | ReceiptSettlesItsOwnAttempt | retention deletes a row but not its fences; the id is enqueued again and an old receipt settles its first attempt |
| StoreStaleFail | MCWorkQueueStore | ReceiptsNameTheirAttempt | a worker whose lease is gone fails an item that is not running |
| StoreInDoubtCredit | MCWorkQueueStore | InDoubtRetainsCredit | attempts in doubt free their lease slots |
| StoreRetention | MCWorkQueueStore | TerminalRowsAreBounded | sweeps delete fewer terminal rows than come between them, and the rows exceed `maxTerminalItems` by more than one interval |
| DispatchDrained | MCPushDispatcher | DrainedMeansIdle | the end of an old execution removes the entry of the new one |
| DispatchOversubscribed | MCPushDispatcher | CreditRespected | two calls at once exceed the credit limit: the reservation is released before the leases are in flight. The port never makes two |
| WorkerInterrupted | MCQueueWorker | InterruptionReturnsTheItem | an interrupted handler leaves its item in doubt; the documentation says it is returned |
| DispatchStranded | MCPushDispatcher | LeasesAreStarted | a failing notification leaves granted leases unstarted |
| PortCeiling | QueueApplicationPort | GlobalCeiling | executions of a closing facet are not counted |
| PortRetriedClose | QueueApplicationPort | StoreOutlivesWork | the repetition of a close that failed closes the store under running work, because `stopped` is already set |
| PortStarvation | QueueApplicationPort | EveryQueueIsAttended | with a global limit of one and dispatches slower than the timer, a remembered trigger of a queue without work reserves the credit again each time before the other's turn |
| FairDemotion | MCFairClaim | AgeingOnlyPromotes | ageing lowers the class of a retried item |
| FairLeftovers | MCFairClaim | CountsAreDropped | items ended by a sweep leave visit counters behind |
| PublicationEarly | ManifestPublication | NothingIsStranded | a scan between the start of the observer and the binding of the committer counts a set as accepted that nobody will acknowledge |
| PublicationDeadlock | ManifestPublication | LanesMoveOn | a plugin change holds the lane of operation layers until a refresh is through that is queued behind a commit waiting for that lane |
| RestoreHalfRemoved | MCRestoreTransaction | StartupReconciles | the removal of a finished transaction stops after its journal is gone, and startup refuses the directory (`docs/RUNBOOK.md` lines 1282-1285 promise reconciliation) |
| RestoreMeddled | MCRestoreTransaction | OthersAreLeftAlone | a file made by somebody else where the restore would create one is deleted by the roll back |
| RestoreHasty | MCRestoreTransaction | PriorSurvives | a crash or a failing call, then a loss of power before the names that the recovery relied on were synchronised, loses the prior file |

NoOverlap needs three exclusions that the run makes explicit: no handler is
declared terminable; none calls `context.retry` and goes on; and no operator
fails and recovers an item in doubt or acknowledges a termination that has not
happened. With any of them attempts overlap; the code relies on the declaration,
on the handler and on the operator being right.

### Fairness

* Store: weak fairness of claims and of the clock. The port's `setInterval`
  dispatches every queue again and again, and every dispatch is a claim. The
  clock stops at `MaxTime`, after every deadline.
* QueueWorker: the steps of the runtime itself (its timers, its awaited store
  calls), the lapse of a lease nobody renews, and claims. A handler owes nothing.
* PushDispatcher: store calls and notifications return or fail; runtime steps.
* Port: the timer, the end of executions, the `finally` clauses; strong fairness
  of `DispatchOnce`, which says that a claim tried over and over is answered some
  time. No fairness is assumed of closing, nor that answers come between ticks:
  `OnlyExecutionsKeepWaiting` states that condition itself.
* ManifestPublication: the observer's timer and its awaited steps, the committer's
  lane, and the notification of plugin changes. Failures are bounded by
  `MaxFaults`, so that retries succeed in the end. No fairness is assumed of
  anybody who commits sets or changes grants.
* RestoreTransaction: the process goes on while it is up, and is started again
  after a crash.
* FairClaim, locks and ServiceManifests state no liveness: `WaitersArePolled` and
  `NothingPilesUp` are the safety properties that progress would rest on.

Exceptions named in properties. `EveryCandidateIsPublished` excepts the two
states of PublicationEarly and PublicationDeadlock, and `StartupRecovers` those
of RestoreHalfRemoved and of a storage that startup refuses on purpose
(`FailsClosed`). Each is a definition of its own, so that a way of getting stuck
that is not one of them would be found.

## 4. Proofs

For every set of items, policy, delay, key assignment, batch and bound that the
named assumptions of WorkQueueStore admit (finite items, positive policy values,
natural inputs):

* `WorkQueueStoreProofs`: `TypeCorrect`, `LeaseColumnsCorrect` and
  `AttemptBudgetHolds`, each from `Invariance`. The inductive invariant `IInv`
  conjoins the type, `LeaseColumnsAgree` and `AttemptBudget` with what they need
  of each other: `AttemptBudget` alone is not inductive, since that a requeued
  item has an attempt left depends on `attempt = leaseSeq` and on the lease held;
  and a fresh lease has a positive number only because the row's incarnation was
  counted. The step is proved once for a per-row account of what an operation
  may do to a row, and each action is shown to be such a step.
  * Refinement. `StoreImplementsAttempts` maps every row to a phase and shows that
    every action moves each item by a step of WorkAttempts or not at all,
    retention being `Forget`.
  * Exclusion. `ConcurrencyKeyExcludes` needs that running rows only come from
    `Granted`, for which `Visits` compares the members of a batch with the running
    ones and with each other. `DedupeKeysUnique` needs that only `Enqueue` makes a row.
  * Capacities. `CapacitiesAreKept`: every action but a tick and a change of control
    stores some rows by a `Commit` (`Stores`), which leaves at most `MaxFailed`
    failed ones, as `FailedRoom` is counted over finite sets; only the visits of a
    claim add running rows, and each visit checks the capacity. Nothing is said of
    terminal rows, whatever `SweepEvery` and `CleanupBatch` are.
  * Fencing. `TokenInvariance` says that no lease ever granted is ahead of its row
    (`leases` against `incarnation` and `leaseSeq`); `LeasesNeverReturn` and
    `LiveLeasesAreLeftAlone` are action properties that follow from it and from `IInv`.
  * Receipts. `ReceiptsSettleTheirAttempts` is proved under
    `WorkersNameTheirAttempt`: receipts carry the generation of their lease, as
    callers pass it (`tools/server-scripts/lib/work-queue-process-restart-child.ts`
    line 101), and no id is enqueued twice. StoreReusedId shows that the second is
    needed. The invariant relates each fence to the attempt it was written in.
* `QueueWorkerProofs`: `WorkerKeepsThePromise` follows from what each action makes
  of one item's phase. `HandlersNeverOverlap` is proved under `Cautious`: no
  handler is terminable, none retries through its context while it goes on, and
  no operator recovers or acknowledges. Its invariant `WorkerInv` says that a living
  handler works on the attempt that is held, or on one nobody will follow: an item
  comes back to `waiting` only when the execution that settles it has no handler
  left.
  * Of PushDispatcher: `OneCallerRespectsCredit`. `CreditRespected` is not
    inductive, since between its claim and the start of its leases a call may have
    given up its reservation: `CallInv` bounds the leases in hand by the batch
    while it waits for the answer, and by the credit left while it notifies. The
    hypothesis of a single caller is what DispatchOversubscribed shows necessary.
  * `ReservationsAreBacked`, for any number of concurrent calls: `reserved` is the
    sum of the batches of the calls that wait for a claim. Every step of a call
    changes its summand and the sum by the same amount, on its failing paths too.
* `QueueApplicationPortProofs`: `ClosedFacetsAreIdle` and `FirstCloseIsOrderly`
  from `Closing`. Only a trigger starts a dispatch, only of a registered queue
  and while the port runs; hence a dispatch that was awaited stays over and a
  queue that was drained stays empty.
  `CeilingHolds` is a statement about a sum over the queues and follows from
  `Credit`: what all queues execute and what their dispatches may still start
  (`Unspent`) together stay within the global limit. The grant of a trigger is the
  limit less the executions and reservations of that moment, which bound the sum from
  above because a grant is reserved until after its claim; later steps move credit
  from one summand to another or drop it.
* `FairClaimProofs`, for any items, cycle of classes, partitions of any depth,
  limits, batches and ageing. The selection is recursive twice over, in the loop
  over candidates of `selectFairCandidate` and in the loop of `claimTx` around it.
  Both are defined as recursive functions, over sets of rejected partitions and over the number of
  visits, and what they compute is shown with `Least` and `UpTo`: a set of naturals
  that contains 0 and successors up to n contains all of them, from the
  well-foundedness of the naturals. `FirstRanked` shows that the
  ranking orders partitions totally, so that its first is determined, and `PickIs`
  that the loop finds a partition with capacity whenever there is one.
  * `EveryClassGetsItsShare` from `FairInvariance`. The invariant `Slotted` says that
    each visit in the history served a slot not before its turn and that the
    slots it passed over belong to classes that had no work then. In a cycle's
    worth of visits beginning with a claim a class that always had work is passed
    over in none of its slots, and `ShareOfSlotted` maps those slots
    one to one to visits.
  * `ReservationsAreKept`, for `Reservation <= 1`: what a visit leaves free for
    siblings (`Kept`) is not used up by the later visits of the batch, since a
    sibling served no longer claims a reservation.
  * `ClaimsAreThorough`: a loop that ended early had no candidate in any class.
* `OperationLockProofs`: `LockInvariant` says that no two handles share a token,
  that the row has the last token or none, and that a queue with waiters is
  attended by a poll or by the handle of its process; from it `HandlesAreBacked`,
  `WaitersAreTried` and `LocksImplementExpiringLock`. `OperationsUseTheLocks` shows that OperationLock
  only takes steps of SqliteLocks, so that these hold of it, and
  `SuccessfulOperationsExclude` that of overlapping operations one succeeds.
* `StorageTransactionProofs`, on ServiceManifests: `ManifestsAreTwoSets`, from an invariant that makes
  the open versions the entries of the candidate set and puts the closed ones
  into the past of the candidate revision. `CleanupKeepsUp` needs
  `CleanupSuffices`: a clean-up batch at least as large as the backlog. It counts:
  every commit closes at most one version.
  * On RestoreTransaction, for any number of files of the three kinds, faults and
    changes by others: `OpensOnOneGeneration`, `OriginalsAreKept` and
    `ReceiptsAreTrue`, from `RestoreInvariant`. It divides a restore into stages
    (`Untouched`, `Working`, `Committed`), each with the places of the program it may be at,
    and says for every file where its original and its replacement are, as seen and as
    durable; `RestoreProgress` and `RollbackProgress` say which files a loop has
    done. These three assume `HastyLosses = FALSE`: the power does not go while a
    recovery has published a receipt, or removed a transaction, on the strength of
    names that it saw and that are not durable yet (`Hasty`). The code does not
    ensure this: the catch clause and startup do not synchronise again what they
    find (`restore-transaction.ts` lines 529-537, 566-567, 588-600). The names are not
    durable when a crash or a failing call came between a rename and its synchronisation;
    after it one loss of power, the first one, is enough for the storage to be
    mixed, the prior file lost or a receipt untrue. RestoreHasty shows that
    `PriorSurvives` needs the assumption. `OneGenerationWhole`, `PriorSurvives`,
    `ReceiptIsTrue` and `StartupRecovers` are therefore model-checked and, but for the
    last, proved of the code under that condition only.
  * `AcknowledgementsLast` assumes nothing about losses: an acknowledged
    restore has a durable receipt and durable files (`Settled`), and no later step
    of recovery does anything but remove the transaction directory.
* `ManifestPublicationProofs`: `OnlyAnnouncedIsPublished` follows what the observer
  carries between its awaits. `AudiencesAreIdentified` shows that what this process
  admitted is the current audience or has a smaller revision, and that a
  publication that is pending carries the current audience or a larger one.
  `TheyAgreeAtRest` has an invariant for each place of a commit, with what its
  roll back would put back; `CatalogHas` says that the catalog has a set or, if
  `torn`, a later one. `NoPluginChangeIsUndone` has one (`PluginInv`) about the order of
  the two lanes: while a commit is past its beginning, either the base operations are
  those it captured, or a plugin change heads the layers' lane and waits for a refresh that
  stands behind the commit, so that the roll back never comes to its turn.
* `SumTheorems`: the library defines the sum of a function by a fold, of which
  nothing can be proved by induction. `SumCounts` shows that the sum of naturals is the
  number of pairs of an argument and a unit below its value (`Slots`), because a
  map of subsets to the cardinality of their slots solves the fold's equation
  (`SlotsSolve`) and has no rival (`SumsUnique`); changes of one summand are then
  facts about cardinalities.

Assumptions. The named assumptions of the modules; finitely many work items for
the store, the dispatcher and fair claims, and finitely many calls for
`ReservationsAreBacked`; `Cautious`, `CleanupSuffices`, `WorkersNameTheirAttempt`,
`Reservation <= 1`, `HastyLosses = FALSE` and a single caller where stated, each with a
counterexample or a reason above; that the model value `None` is no pending
publication.

Only model-checked: what must eventually happen (`DeadlineEnforced`,
`EveryAttemptEnds`, `CreditReturns`, `OnlyExecutionsKeepWaiting`,
`EveryCandidateIsPublished`, `StartupRecovers`). Fairness speaks of ENABLED, of which the proof system
knows nothing. Every other property of a passing run, invariant, action property or
refinement, is stated by a theorem. The instances of the passing runs
meet the hypotheses of those theorems. Recursive operators are not used.

## 5. Abstractions, and what is not modelled

* The clock is an integer and every duration a few ticks. Ids, keys and payloads
  are model values. Priorities are numbers in class order.
* One queue definition, one authorization scope, one policy; the sweeps' row
  limits (at least 100 per claim) are never reached.
* The journal, its compaction, `rebuildProjection`, checkpoints, the persisted
  state of background aspects and `inspect` are left out of the store.
* Custom fallback handlers, checkpoints and the renewal of a live lease are left
  out of the worker; the peer hand-off out of the dispatcher.
* Registration of a queue happens before the model of the port starts.
* Locks: one key; the PostgreSQL and in-memory managers and the counted slots of
  operations that may run in parallel are left out. Clocks of processes agree.
* Manifests: digests do not collide; `readSnapshot` is one step although it reads
  twice; manifests are valid. The sessions with upstream services,
  the forwarding of requests and the circuit breakers are left out, and of the
  permission platform everything but its lane of operation layers.
* Restore: the files of one backup, and how it is planned and staged, are three
  records; a file is whole or absent; the retention transaction, which is built
  alike, has no model. Who writes to the storage meanwhile does so once and durably,
  and before the check of line 798 ends: between it and the moves from line 801 on
  nobody writes, since restores run under the storage's maintenance lock. A
  writer that ignores the lock could put a file of its own under a rollback name.
* Coverage. The repository has some 430,000 lines, a ninth of which is one
  generated contract file and most of which is protocol adapters, services,
  schemas, consoles, SDKs and tools. The models stand for places where steps of
  several actors, processes or crashes have to agree, and a line is mapped only
  where a definition translates it, so that the mapped share stays small.
* Components without a module, and why, are listed in `PROJECT.json`.

## 6. Plan

Done: the work queue from the store to the shutdown of the port; fair claims;
SQLite locks and the operations under them; the manifest authority, its
publication and the audiences; the restore; refinements of four abstract
specifications; theorems for every safety property of these.

What would come next, in this order:

1. Store, second part: journal, retention snapshots, `rebuildProjection` as a
   function of the journal, checkpoints; outstanding work against its limit.
2. Permission core: approvals and grants used up by executions, revoked between
   the check and the effect.
3. Job projections and upload sessions, composed with WorkAttempts; durable
   events and their redelivery.
4. The maintenance lane and the lifecycle lock, which fence a mutation that goes
   on after its time limit; the retention transaction.
5. PostgreSQL: the store and the locks with row locks in place of a single
   writer, against WorkAttempts and ExpiringLock, which they share.
6. Proofs: that WorkQueueStore allows every selection of FairClaim, as a
   refinement; that the port implements an abstract pool of credit; receipts
   of an id that is enqueued again, once the code tells its incarnations apart.
