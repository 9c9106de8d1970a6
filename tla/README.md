# Formal models of Sealant's workspace runtime

Sealant's control plane builds images, launches *executors* (a container, a Pod, a microVM or a
Boat sandbox with the `sealantd` daemon on its disk), drains the work captured on them, and takes
them down again. No step of that has a transaction around it: workers die between a call to a
runtime and the row that records it, leases lapse under slow workers, requests to a runtime act
late, and answers arrive in another order than they were given. The repository's rule is that
*no work product is lost*, and its prose (`packages/workspaces/src/worker/capture-preservation.md`,
`runtime/launch-retention.ts`, `docs/architecture/*.md`) argues that rule case by case. This
directory states it as TLA+ specifications of the code, checks them with TLC on small instances,
and proves the central invariants with TLAPS for every value of the constants.

Paths below are relative to the repository; `repositories/` is `packages/db/src/repositories/`,
`worker/` is `packages/workspaces/src/worker/` and `runtime/` is `packages/workspaces/src/runtime/`.

## Inventory

| Part | State it keeps | Operations | Interacts with | What is hard |
|---|---|---|---|---|
| Capture evidence (`db/src/capture-evidence-order.ts`, `repositories/workspace-capture-drains.ts`, `worker/capture-drain.ts`) | per run: last status with the instant it was asked, unsaved observations, open observation fences, an evidence version | open / close / end an observation, record a status | every drain, probe and sweep; the daemon answers | answers out of order, observers that die holding what they heard, daemon reboots, lease epochs, lapsed fences |
| Executor removal (same repository, `removeUnderDeletion`) | deletion state, token, lease, the requests made under it and their outcomes | authorize, issue, confirm, complete, release, lapse, reconcile, discard | evidence (a removal rests on it), runtimes (requests act late), recovery | a dead deleter's late request, check-then-act between decision and request, wedging |
| Recovery of retained executors (`worker/recover-retained-executors.ts`) | recovery claim and lease, retention | claim, admit, boot, release | removal (mutual exclusion), evidence | booting what is being deleted |
| Launch (`repositories/workspace-build-jobs.ts`, `workspace-runtime-instances.ts`, `workspace-attempts.ts`, `worker/process-workspace-build-job.ts`, `worker/adopt-stranded-launches.ts`) | job status and claim; runtime row, its launch owner and lease; attempt status | claim, heartbeat, commit, record pending / started / ready / failed, renew, identify, adopt, fail as lost, preempt | queue, sweeps, stop, create request, runtimes | lapsed leases, two workers of one job, an executor no row names, cancellation |
| Stop (`worker/process-workspace-stop.ts`, API `stopWorkspace`) | workspace status, stop reason, remains | cancel a build, drain, remove, mark stopped | launch, removal, exit reconciler | acting on a row read long before |
| Exit reconciler (`worker/reconcile-runtime-exits.ts`) | terminal rows and retentions | observe an exit, drain, retain, settle, remove remains | removal, recovery, stop | a terminal row without its retention |
| Deadline preservation (`worker/preserve-before-deadline.ts`) | enrolments, candidates, ledger of compute | enrol, preserve, retain | evidence, launch (preemption) | racing a runtime's own deadline |
| Native images (`repositories/native-publications.ts`, `images/boat/`) | publication state and claim, consumers' pins, build and removal journals, lock files | reserve, build, publish, recover, quarantine, retire, remove | allocations | publishing what is being removed |
| Boat allocations and executions (`repositories/boat-*.ts`, `runtime/boat/`) | allocation phase, request journal, execution exchange | reserve, issue, record, bind, exchange, hold | catalog, stop, provider | lost provider answers, stopped runs |
| Resource domains (`resources/`, `repositories/resource-*.ts`) | domain limits, instances, accounting | admit, attach, reconcile, account | provider | stale snapshots, crash before accounting |
| Create reservations (`repositories/workspace-create-reservations.ts`, API `createWorkspace`) | per owner and key: pending, created or cancelled; the workspace | reserve, commit, cancel, ask; restart | launch, callers that repeat | delayed and duplicated creates, a cancel racing a commit |
| Credential homes and placements, credential sync-back | one row each | place; sync back | API, executors | order of rotations |
| Telemetry (`packages/telemetry`) | per source: last sequence; event store | ingest, redeliver, retain | daemon | at-least-once delivery |
| Execution runs, sessions, budgets, inference accounting | one row each | start, finish, count | telemetry | retries |
| Queue (`packages/jobs`, pg-boss) | job queue | enqueue, deliver, retry | workers | redelivery |
| SSH gateway | connection counters | admit, release | API | limits |
| API, web, CLI, SDK, docs, deploy | – | – | – | no ordering of their own |

`PROJECT.json` lists each part with its sources, what is left out of it, and the hazards at their
lines.

## Modules

| Module | Models | Kind |
|---|---|---|
| `EvidenceOrder` | `capture-evidence-order.ts`: the order of two answers, what a later answer makes obsolete | operators |
| `CaptureEvidence` | observers, the daemon, the record of a run's captures | state machine, EXTENDS `EvidenceOrder` |
| `ExecutorRemoval` | deleters, the runtime's requests, recovery, discard, over the evidence | state machine, EXTENDS `CaptureEvidence` |
| `ExecutorCustody` | what removal, and the ways a runtime ends, promise about an executor | abstract specification |
| `LaunchOwnership` | one run's job, row, attempt and executor | state machine |
| `SingleLaunch` | the launch as its run sees it: one process, never late | abstract specification |
| `NativeCatalog` | one publication of a Boat image: row, claims, pins, journal, lock, snapshot | state machine |
| `PublicationLending` | what a publication promises the consumers it is lent to | abstract specification |
| `BoatAllocation` | the sandbox a run gets from it: record, drivers, provider request, stops | state machine, EXTENDS `NativeCatalog` |
| `RuntimeExit` | the row, the record and the executor of a run that ends: stops, passes of the exit reconciler, the recovery | state machine |
| `CreateReservation` | the creates of one idempotency key, its callers, and the restarts of the workspace it made | state machine |
| `CreateDecision` | what a key promises its owner | abstract specification |
| `MC*` | instances for TLC | – |
| `*Proofs` | theorems | – |

### Capture evidence

An *answer* is what `sealantd` says to `capture.status`/`flush`: whether everything is saved, at
which boot generation, lease epoch and sequence. `EvidenceOrder` translates
`compareExecutorOrigins`, `statusSupersedes`, `answerCovers` and `nextUnsavedObservations`.
Sequence numbers are the daemon's clock; a launch's identity is constant, as one executor is
modelled. `CaptureEvidence` has the run's row (`lastStatus`, `unsaved`, `fences`), one process per
observation token (`observedRoundTrip`: open the fence, ask, record or close), the daemon with
its reboots, and `clock`. An observation's failure at any point is
`AbandonObservation`; `recordStatus` is one transaction and so one action, `RecordStatus`, with
the settling of lapsed fences inside it. `now()` in PostgreSQL is the start of the transaction:
the instant a record carries is any instant since its observation began.

### Removal

`ExecutorRemoval` composes the above with one process per removal ticket. A deleter *decides*
from a row it read (`Decide`), *authorizes* (`authorizeDeletion`'s compare with the evidence
version), *issues* (`issueDeletion`, which commits before the runtime is asked), *sends*, and then
completes, is refused, or leaves the outcome unknown. The runtime carries a sent request out at
any later moment until its fence (`removalFenceMs`) has passed, on runtimes that have one; on
others, forever. The evidence version, a counter in the code, is kept as what it is compared for:
`current` says whether the authorization's version is still the row's, `seen` whether a decider's
is. `BumpVersion` clears them.

`ExecutorCustody` is the abstract promise: an executor holds work, or all of it is saved; it goes
only in the second case, by its owner's discard, or with its platform. `ImplementsCustody` is the refinement, both
model-checked and proved; `RuntimeExit` implements the same specification, with the platform's losses.

### Launch

`LaunchOwnership` follows `processWorkspaceBuildJobEffect`. A *claim* is a pass of some worker over
the job; the owner a pass draws is identified with its claim. `pc` is the pass' place in the
function, every action one committed write with the calls around it. Leases lapse at any time
(`LapseJob`, `LapseOwnership`), a pass dies anywhere (`WorkerDies`), a failed write leaves what it
would have replaced (`FailUnwritten`, the swallowed attempt writes). The sweeps
(`adoptStrandedLaunchesEffect`), the deadline's `preemptLaunch`, `stopWorkspace`'s cancellation,
the stop's read–remove–write, and the create request's rollback are the other processes. `captures`
is chosen once: only a capture-sourced launch retains its executor. So is `looks`: which of the registered
runtimes can find an executor by its run (`RuntimeAdapter.locate` is optional; of this repository's adapters
Docker has it, MicroVM, Kubernetes and Cloudflare have not). A launch whose row names no executor is identified
only if its own runtime can look, and ended as lost only if every registered one looked.

`SingleLaunch` is what the run sees of all that: an executor is asked for once; it comes up or does not; the launch is settled once, as
ready, retained, failed, or lost with nothing left of it; only a stop overrules that. Claims, leases and graces are not in it.

### How a runtime ends

`RuntimeExit` begins where `LaunchOwnership` ends: a ready row, a retained launch, or an exit that a worker
of before retentions recorded without one. Beside the row (`status`, `code`, whether a stop was asked for and the remains
removed), the drain record (`ledger`, `retained`, `discard`) and the executor (`exec`, and of its `work` whether it is
unsaved, saved but not on record, or recorded), it keeps the removal's hold (`deletion`, `holder`, `live`). The
evidence behind a removal and the requests that act late are `ExecutorRemoval`'s; here they are whether
the record lets the executor go. `captures` and `keeps` (`RuntimeAdapter.keepsRemains`: ending an executor and
removing it are two calls, as on Docker) are chosen once.

Three kinds of process share one set of actions, each guarded by who takes it, since the code shares
`authorizedDeletion` and `removeUnderDeletion`: a *stop* (`processWorkspaceStopEffect`), a *pass* of the reconciler over
one of its three lists (`listRunningInstances`, `listUnsettledCaptureExecutors`,
`listStoppedWithRemains`), and the *recovery* of what is retained. `proc[p]` is where a process stands with what it read
and decided, so that a decision may be stale when it is carried out. A process looks (`Inspect`), drains
what runs (`Drain` and its failures), decides (`Settle`, `HeldElsewhere`, `AuthorizeDeletion`, `AllowUnheld`, `Keep`;
`Boot` for the recovery), records what must be on record before the runtime is asked (`MarkStopRequested`,
`RecordKept`, `RecordEnd`, `SettleRecord`), issues, calls, and records how it went. It dies at any point (`Dies`); a call
is refused or its answer lost (`CallRefused`, `CallLost`); holds lapse, evidence arrives, the owner discards,
the executor ends by itself, and its platform takes it, disk and all, at any time.

### Boat images and allocations

`NativeCatalog` has one publication and a process per call of the catalog (`images/boat/catalog.ts`):
an acquisition (`acquire`), the reconciliation of a journal (`reconcileRecord`) or the removal of a
candidate (`reap`, `remove`). A call reads the row when it begins and goes by what it read, so another
call, or the row's own removal, may come in between; every write of `native-publications.ts` is one
action with its fence. Beside the row is what `builder.ts` keeps outside the database: the journal, its
kernel lock (which goes with the process that held it) and the snapshot at the provider. What the
provider was asked for may be carried out at any later time or never (`ProviderSaves`,
`ProviderDeletes`). So `AskToSave` and `AskToDelete` are the journalled intent and the call in one: an intent whose call was not made
is a call never carried out, and a call made late is one carried out late. Claims lapse at any moment. The claim's token is fresh each time and stands for the
generation, too. A row that was removed is never reused; its successor would be another instance of the
module. The consumer's states other than released all pin it (`pins`), and are one.

`BoatAllocation` adds the record of `boat-allocations.ts` and any number of *drivers*, calls of `drive` by
the launch or the reconciler. Every advance compares the record with what its driver saw; a driver stops
at any point. `StoppedNeverCreates` and `StoppedNeverExchanges` state what
`docs/architecture/boat-allocation-reconciliation.md` promises of stopped runs.

### Creates of one key

`CreateReservation` has one process per request with the key. A *create* (`createWorkspace`) looks the key up, reserves
it, goes by what the record says, and commits everything in one transaction whose last write, `markCreated`, is fenced on
`pending`; a create whose transaction failed finds out who won. A *caller* asks (`workspaceCreateState`: the record, then the
workspace) or cancels. A *restart* (`restartWorkspace`) names its attempt the workspace's latest in one write and
queues its job in another. Each request stops anywhere (`Dies`), and one that did not begin is a delayed one. The initial states
include the half-made workspace of a create from before creates were one transaction, which a repeat finishes.

`CreateDecision` is the promise: a key is made or cancelled, once; one launch comes of it or none; whoever is
told is told that. Restarts may launch again, and are not the key's. The code decides whether a create finished by looking for its latest run's job, and says that
only a workspace from before that transaction can lack one (`workspaces.module.ts:1409`). A restart lacks it between its
two writes, and for ever if the API dies there: as long as it does, a repeat of the create gets an error and its state reads `pending`,
where the schema says a created key replays its workspace (`control-plane.ts:828`). `LosersAreAnswered` states this as its only exception.

## Runs

| Run | Instance | Shows |
|---|---|---|
| `evidence` | 3 observers, clock 3, fence TTL 2, 2 boots, 1 epoch (4.4M states up to symmetry) | unsaved work that was reported stays on the record, or under a fence that has not lapsed, until an answer outranks it; a saved answer asked after everything else does settle the record; where all recorded answers are ordered, the record is of the latest |
| `removal` | 2 observers, 2 deleters, clock 2 (2.7M states) | requests rest on the latest saved evidence; nothing is asked while one can act; one that can act is on record; refinement of `ExecutorCustody` |
| `removal_settles` | 1 observer, 1 deleter, 1 recovery attempt, clock 2, 2 boots, fair (251k states) | no recovery boots under a removal; an issued removal does not hold the executor forever; refinement of `CaptureEvidence` |
| `launch` | 2 claims, create may roll back, fair | one launch; none lost; a pending launch is settled wherever the runtimes can be asked for its executor; refinement of `SingleLaunch` |
| `launch_stopped` | 2 claims | finding 1 |
| `launch_cancelled` | 2 claims; the property leaves out creates that roll back | finding 2 |
| `native_catalog` | 2 consumers, 3 calls (590k states) | what is ready or given out keeps its snapshot; a removal is final; refinement of `PublicationLending` |
| `boat_allocation` | 1 consumer, 1 call of the catalog, 2 drivers, fair (25k states) | one create; none after a stop; the source is kept; a sandbox that was made is found |
| `create_reservation` | 3 creates, 2 callers, 2 restarts (326k states) | the key is decided once, launches once or never, and everyone is told the same (refinement of `CreateDecision`); a create that lost is answered, but under a restart half written |
| `runtime_exit` | 1 stop, 1 pass, the recovery, 1 fault (1.6M states) | an executor that ended unsaved is in some sweep's list; the row says what happened; refinement of `ExecutorCustody` |
| `runtime_exit_settles` | the same of a capture run on a runtime that keeps remains, fair (330k states) | the remains of an executor that may go do go |
| `retained_stop` | the first instance | finding 3 |

**Bounds.** Three observers are the least with which two unordered unsaved answers can be
outstanding when a third settles them; in `evidence` the clock exceeds the TTL, so a fence opened at the start
lapses while another is open. Two deleters are one whose lease lapsed and one that took over; a
third could only repeat the second. `removal_settles` has one of each for its size, with the reboots that `removal` has
not; its liveness also holds of two deleters without a recovery (126k states), and the theorems hold of any number. Two boots order one another, and an observer of before the reboot and one of after it suffice for a stale answer. Of two claims one is slow or dead
and one has taken over; a claim is used once, so a third would be a third worker of the same job. Three calls of the catalog are one whose claim lapsed, one that
replaced it and one that removes; two consumers are one that is pinned and one that is not. Calls and
drivers begin again when they end, so their number bounds what overlaps and not what happens. In
`boat_allocation` a single call of the catalog and a single consumer suffice for what the allocation adds,
two drivers for the race between a launch and the reconciler; the theorems hold for any number.
In `create_reservation` two creates race and a third comes late; two callers hear of it before and after; the second restart begins
while the first one is half written.
In `runtime_exit` a stop, a pass and the recovery begin again when they end, so one of each gives every race of two kinds;
races of two stops or two passes are covered by the theorems. A *fault* is a death, a failed call, a lapse under a live holder or
evidence that voids a removal; one is enough for every half-done state. The safety properties also hold
when faults are unbounded (`Bounded = FALSE`: 5.8M states, three minutes), and the theorems do not bound them; the liveness
run needs the bound, as a system that always fails never settles. It lets the owner discard only while nobody
is at work on the run, for its size. The counters (clock, boots, epochs) are bounded in the guards
that increase them, tokens and claims are used once each: the models really come to an end, so
deadlock is not checked.

**Symmetry.** Tokens, claims, calls and consumers are interchangeable, and symmetry is used only in runs without
liveness properties; `launch` has one, and so none.

**Fairness.** `FairRemovalSpec`: calls of a deleter end (they are bounded by timeouts), leases lapse
when nobody renews them, a runtime's bound passes, the reconciling sweep runs on every poll, a worker
carries out what it started. It does *not* assume that observers record what they heard, that a
runtime acts on a request, or that a deleter survives. `IssuedRemovalSettles` is stated for removals whose evidence moved
and on runtimes with a fence: on another runtime an unknown outcome stays unknown, as the code says.
`LaunchFairness`: a step of a launch is bounded by timeouts, the adapter's create call returns, a
lease nobody renews lapses, and the sweeps run at boot and on every poll. Workers need not claim, heartbeat or survive.
Fairness of `IdentifyStranded` and `FailLost` demands nothing of a runtime without `locate`, as the two are not enabled where it is
missing; of the runtimes that have it, it assumes that in some sweep all of them answer. Elsewhere the row may stay pending until
somebody stops the run, which is what `adopt-stranded-launches.ts:25` says ("it is left as it is"). So `PendingSettles` speaks of
three cases (`CanBeSettled`): the row names the executor; its own runtime can look, and a capture executor is there to be found; every
registered runtime can look. TLC refutes it when the condition is dropped, or any conjunct of the second case.
`AllocationFairness`: the reconciler walks every allocation again and again (`Load`), bounds each call of
`drive` by 120 s (`DriverStops`), and the provider's inventory does not fail forever while it is asked again
and again (strong fairness of `RecordSandbox`). A driver need not get further than that: an issue whose
driver died before its create is never settled, as the doc says, and no property claims that it is.
`ExitFairness`: a process' calls are bounded by timeouts, so it takes its next step or dies; the reconciler walks its
lists on every poll and the recovery sweep its own; a hold nobody renews lapses. Nobody need ever ask for a stop, except that the
reaper of retained launches asks for one of each. `SavedRemainsGo` leaves out what finding 3 is about. It is checked with one
fault: with two, a removal of the remains that failed and a record of the removal that failed, too, leave a stopped row
whose (saved) remains no list has.

## Proofs

Every listed theorem holds for any observers, tickets, attempts, claims, consumers, calls, drivers and bounds, from the named
assumptions (null values are not members of the sets; bounds are naturals).

- `CaptureEvidenceProofs`. The property wanted, `HeardUnsavedOutranked`, speaks of what observers
  heard, and is not inductive: an answer in flight must be tied to the fence it was asked under, a
  recorded one to the instant it was asked, and the daemon's present to everything it ever said.
  `EvidenceInvariant` is the conjunction of those. Each action's step is a lemma. `UnsavedIsAntichain` and `LateSavedAnswerSettles` follow
  from one more lemma, `InHandFollows`: an answer in hand follows what was recorded before it was asked, so no stamp contradicts the clock.
  `OrderedRecordIsLatest` says that the order of recording does not matter where the answers themselves are ordered. It needs `OrderInv`: there,
  no answer recorded follows the status on the row, and no other one is left among the unsaved.
- `ExecutorRemovalProofs`. `RemovalImplementsEvidence` first: each step is a step of
  `CaptureEvidence` or leaves its variables alone, so the evidence theorems are inherited. The
  invariant then ties a ticket's place (`step`), the row's deletion columns, and the requests'
  outcomes: who holds the deletion, that an unsettled request is on the row, that a live one rests
  on current saved evidence, that nobody claims recovery meanwhile.
- `ExecutorCustodyProofs`. The refinement: initial states map, and each step maps to a step or a
  stutter, from the two invariants.
- `LaunchOwnershipProofs`. `LaunchInv` says what makes the launch single: at most one claim is past
  the commit, and before it the row and the executor are untouched; a taken launch's worker can do
  nothing more to the executor; a kept executor is named. `LaunchIsSingle` is the refinement of `SingleLaunch`. Its mapping
  hides every job, claim and lease, so each of their steps must be a stutter and each write of a stale pass must not happen: that is what the fence
  on the owner buys. `ReachedInv` adds what a stop and a launching pass know of the row they go by.
- `NativeCatalogProofs`. `ReadyIsSaved` and `GivenIsKept` speak of the row and the provider, which no
  single write relates. `JournalInv` ties the journal to the snapshot (the lock makes one call its writer, so
  what is published is never discarded), `ClaimInv` says that under a removal only a removal's claim is
  left, `RemovalInv` that nothing of a removal is done before the row says so, and that nobody is pinned then. `CatalogIsLending`
  is the refinement of `PublicationLending`. Claims, locks and journals map to nothing; `LendingInv` adds that a call acquires for a
  consumer it pinned, and that a removal on record was carried out.
- `BoatAllocationProofs`. `AllocationImplementsCatalog` first, so that the catalog's theorems are inherited, its refinement too
  (`AllocationIsLending`);
  then `DriverInv` (how far the record is by each point of a driver) and `OneCreator`. The two promises to stopped runs each
  rest on a condition that, once true, stays true (`NeverIssued`, `NeverBound`).
- `RuntimeExitProofs`. What the properties say of a run in one state depends on what every process may
  still do to it. `ExitInv` says, per process, where it may stand with which verdict (`Placed`), what of what it saw still
  holds (`StillSo`), what is down once it has called (`Downed`) and what it announced first (`Told`); and of the run, what
  its removal, recovery, record and row imply (`RunInv`). Its key notion is `Final`: nobody will boot the executor again.
  What is final stays so, as do the other facts the processes rely on (`Lasts`); so a process' step need
  only be shown to keep its own part, and to take back none of what lasts. `ExitImplementsCustody` refines the same `ExecutorCustody`
  as the removal protocol, from `ExitInv` and `LostInv` (of what the platform took nothing is left). `UnlistedAreSaved` strengthens
  `EndedIsFollowed`: it also says which executors with saved work are in no list, for any number of faults; `LeftInv` says what the
  record means of an executor that is still there: its removal was asked for, and no process' refusal would take that back.
- `CreateReservationProofs`. The refinement, and `LosersAreAnswered`, from three parts: `KeyInv` (a created key has its one create's
  workspace and job; a key that is not has none but the old half-made one's), `CreatorInv` (what each create found still holds, so that the
  transaction's two fences together admit one), and `AnswerInv` (who is about to answer has a decision to tell). What a request relies on
  while others move is that a decision, a row and a job are never taken back (`Onward`).

Some theorems state properties that no run lists. `TypeOK` and `CatalogTypeOK` are conjuncts of `RemovalTypeOK` and `AllocationTypeOK`, which
runs check; `CreateTypeOK` is proved only. `TakenIsNeverFinished`, `OnlySavedIsRemoved` and `EndedIsFollowed` are implied by
`ImplementsSingleLaunch`, `ImplementsCustody` and `UnlistedIsSaved` in the same runs, and proved by themselves.

Only model-checked: the liveness properties (`IssuedRemovalSettles`, `PendingSettles`, `SandboxIsFound`, `SavedRemainsGo`), since
fairness and ENABLED are out of the prover's reach. What three of them rest on beside fairness is safety and is proved: nothing that happens takes
their progress back. `MovedRemovalsEnd`: an issued removal whose evidence moved sends no further request and, with its bounds passed, may
be given up. `DesertedLaunchesSettle`: a pending launch is always owned, and one its pass left gets neither a lease nor a creation
again, and what a sweep can tell of its executor (`CanBeSettled`) it still can tell later. `MadeSandboxesAreFindable`: the allocation of a sandbox that was made stays recorded issued until a driver has it on record. That the
fair steps then lead all the way is TLC's. Nothing of the kind holds for `SavedRemainsGo`: two faults may leave saved remains for good, and
`UnlistedAreSaved` says exactly when.

## Assumptions on the environment

- A request to a daemon is over before its fence lapses: `OBSERVATION_FENCE_MARGIN_MS` is added to the
  request's own bound (`capture-drain.ts:1796`). `Tick` respects it.
- A deleter does not stall between committing an issue and calling the runtime for longer than the
  runtime's removal bound (`capture-drain.ts:1526`). Nothing in the code enforces it; it is listed as a
  hazard.
- A recovery attempt ends within its claim's lease (`RECOVERY_CLAIM_MARGIN_MS`).
- An executor creation in flight when a launch's ownership lapsed has landed by `lostLaunchGraceMs`, and
  the sweep's look at the runtimes is no older than that.
- A runtime that can look for a run's executor does not fail every time it is asked.
- `flock` is exclusive among the calls that share the journal's directory, and ends with its process.
- The provider creates at most one sandbox for one request; of what it created, discovery finds no other match.

## Findings

1. **A stop can lose a capture executor** (`launch_stopped`, `process-workspace-stop.ts:669`). The stop
   reads a pending row that names no executor yet and marks it stopped; the executor then comes up,
   is kept because it may hold work, and is on no row that a sweep looks at.
2. **A cancelled run is recorded running** (`launch_cancelled`, `process-workspace-build-job.ts:837`).
   The mark that follows the claim is by id alone and overwrites a cancellation made in between. (The rollback of the run's own
   create overwrites it, too, with `failed`; that a create that reported failure is recorded failed is no finding, and the
   property excludes it.)
3. **A retained launch that is stopped can be left behind** (`retained_stop`, `workspace-runtime-instances.ts:933`). On
   a runtime that keeps remains, a worker that dies between `markStopped` and the removal leaves a stopped row that still has
   the error code of a retained launch, and no sweep lists that. The work is saved; the executor's disk stays.

`PROJECT.json` quotes the documentation each contradicts.

## Not modelled

Removals on an attested completion and those of executors that never held anything (the model's
attestation only moves the evidence version); Boat's preservation custody, the build of a Boat image before its
save, the limits on age and number below which a ready publication is not retired; the table's trigger for
writers older than the evidence columns; the flush loop of a drain and its claim (a claim's lease may lapse under a slow holder, so `RuntimeExit` rests nothing on it);
an exit pass' own drain of a daemon that still answers, and its release of an executor that has nothing to save; the limits per sweep
and the grace before remains are removed; launches recorded before owners existed, and those of Boat, which the sweeps over stranded
launches skip (`adopt-stranded-launches.ts:81` and `182`; Boat is not registered for launches yet); workspaces from before
idempotency keys were stored on them (a repeat finds them through their job, `workspaceCreateState` does not look there), and finished ones
from before reservations. The parts marked `not_modelled` in `PROJECT.json`.

## Plan

1. `DeadlinePreservation`: the deadline's clock beside `CaptureEvidence`.
2. `ResourceDomain` (admission, reconciler, accounting), `CredentialPlacement`, `TelemetryDelivery`.
3. `BoatExecution`: the exchange's own phases, tunnels and invocations after an allocation is bound.
4. Proofs: the invariants of the modules of steps 1 and 2,
   with what each promises stated as an abstract specification like `ExecutorCustody` and `CreateDecision`.
