--------------------------- MODULE LaunchOwnership ---------------------------
(***************************************************************************)
(* One run's launch: its build job, its runtime row, its attempt, and the  *)
(* one executor it may create.  The processes are the workers that claim   *)
(* the job (a redelivery, the reaper of stale jobs), the sweeps that take  *)
(* over the launch of a lost worker, the deadline sweep, the stop, and the *)
(* request that created the run.                                           *)
(*                                                                         *)
(* A worker's pass over the job IS its claim (worker and attempt count),   *)
(* and the launch owner it draws (randomUUID) names that pass too.  Leases *)
(* lapse at any moment: a worker may be slow.  Any process may die between *)
(* two steps.                                                              *)
(***************************************************************************)
EXTENDS Naturals

CONSTANTS
    Claim,   \* passes over the job that may ever be made
    Nobody   \* the null owner

ASSUME LaunchAssumption == Nobody \notin Claim

VARIABLES
    captures,   \* the launch boots from captures: its executor holds work
    doubtful,   \* the create's own publish fails, or seems to
    looks,      \* the registered runtimes that can find an executor by its run
                \* (RuntimeAdapter.locate): its own too, or even all of them
    job,        \* workspace_build_jobs.status
    holder,     \* the claim its worker_id and attempt_count name
    jobLive,    \* lease_expires_at > now
    row,        \* workspace_runtime_instances.status, "none" without a row
    named,      \* resource_id is set
    code,       \* error_code: how a failed launch was left
    owner,      \* launch_owner
    ownLive,    \* launch_lease_expires_at > now()
    graceOver,  \* ... and lapsed for the grace of a lost launch
    attempt,    \* workspace_attempts.status
    pc,         \* per claim: where its pass stands
    executor,   \* the executor, as the runtime knows it
    stopper,    \* the stop: what it read of the row
    owed,       \* attempt writes that follow another write of theirs
    publish     \* the creating request: what it still rolls back

kinds   == <<captures, doubtful, looks>>
jobVars == <<job, holder, jobLive>>
lease   == <<owner, ownLive, graceOver>>
rowVars == <<row, named, code, lease>>
others  == <<stopper, owed, publish>>
launchVars == <<kinds, jobVars, rowVars, attempt, pc, executor, others>>

JobStatus == {"queued", "running", "succeeded", "failed"}
RowStatus == {"none", "pending", "ready", "failed", "stopped"}
Code      == {"none", "other", "retained", "lost"}
Status    == {"queued", "running", "succeeded", "failed", "cancelled"}
Lookers   == {"others", "own", "all"}
Point     == {"idle", "claimed", "building", "built", "pending", "dispatched",
              "started", "ready", "failing", "over"}

LaunchTypes ==
    /\ captures \in BOOLEAN /\ doubtful \in BOOLEAN /\ looks \in Lookers
    /\ job \in JobStatus /\ holder \in Claim \cup {Nobody} /\ jobLive \in BOOLEAN
    /\ row \in RowStatus /\ named \in BOOLEAN /\ code \in Code
    /\ owner \in Claim \cup {Nobody}
    /\ ownLive \in BOOLEAN /\ graceOver \in BOOLEAN
    /\ attempt \in Status
    /\ pc \in [Claim -> Point]
    /\ executor \in {"none", "creating", "up", "gone"}
    /\ stopper \in {"none", "unaddressable", "removing"}
    /\ owed \in SUBSET {"failed", "cancelled"}
    /\ publish \in SUBSET {"job", "attempt"}

\* A lease is of what it leases: a running job, an owned launch.
LeasesOfOwned ==
    /\ jobLive => job = "running"
    /\ ownLive \/ graceOver => owner # Nobody

\* The types, and the leases that go with them
\* (claimJobById to markJobFailed, upsertRuntimeInstance to renewLaunchLease).
LaunchTypeOK == LaunchTypes /\ LeasesOfOwned

LaunchInit ==
    /\ captures \in BOOLEAN /\ doubtful \in BOOLEAN /\ looks \in Lookers
    /\ job = "queued" /\ holder = Nobody /\ jobLive = FALSE
    /\ row = "none" /\ named = FALSE /\ code = "none"
    /\ owner = Nobody /\ ownLive = FALSE /\ graceOver = FALSE
    /\ attempt = "queued"
    /\ pc = [c \in Claim |-> "idle"]
    /\ executor = "none"
    /\ stopper = "none" /\ owed = {}
    /\ publish = IF doubtful THEN {"job", "attempt"} ELSE {}

Goto(c, p) == pc' = [pc EXCEPT ![c] = p]

-----------------------------------------------------------------------------
(***************************************************************************)
(* Phase A: the claim, the build, and its outcome on the job.              *)
(***************************************************************************)

\* The job is still this claim's: what every later write on it requires.
Holds(c) == job = "running" /\ holder = c

\* claimJobById: queued, or running under a lease that lapsed.
ClaimJob(c) ==
    /\ pc[c] = "idle"
    /\ job = "queued" \/ (job = "running" /\ ~jobLive)
    /\ job' = "running" /\ holder' = c /\ jobLive' = TRUE
    /\ Goto(c, "claimed")
    /\ UNCHANGED <<kinds, rowVars, attempt, executor, others>>

\* markAttemptRunning, whose failure is swallowed.
MarkRunning(c) ==
    /\ pc[c] = "claimed"
    /\ attempt' \in {"running", attempt}
    /\ Goto(c, "building")
    /\ UNCHANGED <<kinds, jobVars, rowVars, executor, others>>

\* recordJobProgress: the heartbeat beside the build renews the lease.
Heartbeat(c) ==
    /\ pc[c] = "building"
    /\ Holds(c) /\ ~jobLive
    /\ jobLive' = TRUE
    /\ UNCHANGED <<kinds, job, holder, rowVars, attempt, pc, executor, others>>

LapseJob ==
    /\ jobLive
    /\ jobLive' = FALSE
    /\ UNCHANGED <<kinds, job, holder, rowVars, attempt, pc, executor, others>>

\* Mutant: success is committed whoever holds the job.
CommitBuild_Unfenced(c) ==
    /\ pc[c] = "building"
    /\ job' = "succeeded" /\ jobLive' = FALSE
    /\ Goto(c, "built")
    /\ UNCHANGED <<kinds, holder, rowVars, attempt, executor, others>>

\* markJobSucceeded, under this exact claim.
CommitBuild(c) ==
    /\ pc[c] = "building"
    /\ Holds(c)
    /\ job' = "succeeded" /\ jobLive' = FALSE
    /\ Goto(c, "built")
    /\ UNCHANGED <<kinds, holder, rowVars, attempt, executor, others>>

\* The claim was taken over, or the job cancelled: nothing is recorded.
StopBuilding(c) ==
    /\ pc[c] = "building"
    /\ ~Holds(c)
    /\ Goto(c, "over")
    /\ UNCHANGED <<kinds, jobVars, rowVars, attempt, executor, others>>

\* buildFailureCleanup: job, runtime row and attempt in one transaction.
BuildFails(c) ==
    /\ pc[c] = "building"
    /\ Holds(c)
    /\ job' = "failed" /\ jobLive' = FALSE
    /\ row # "ready" => row' = "failed" /\ code' = "other" /\ owner' = Nobody
                        /\ ownLive' = FALSE /\ graceOver' = FALSE
    /\ row = "ready" => UNCHANGED <<row, code, lease>>
    /\ attempt' = "failed"
    /\ Goto(c, "over")
    /\ UNCHANGED <<kinds, holder, named, executor, others>>

-----------------------------------------------------------------------------
(***************************************************************************)
(* Phase B: the launch, every write of it fenced on its owner.             *)
(***************************************************************************)

\* fenceLaunchOwner.
Owns(c) == row = "pending" /\ owner = c

LeaseTo(c) == owner' = c /\ ownLive' = TRUE /\ graceOver' = FALSE

\* Mutant: the owner is cleared, its lease is not.
ReleaseLaunch_KeepsLease == owner' = Nobody /\ UNCHANGED <<ownLive, graceOver>>

ReleaseLaunch == owner' = Nobody /\ ownLive' = FALSE /\ graceOver' = FALSE

\* A failed row, with the identity it keeps.
LeaveFailed(why) == row' = "failed" /\ code' = why /\ ReleaseLaunch

\* The launch's first row.
RecordPending(c) ==
    /\ pc[c] = "built"
    /\ row' = "pending"
    /\ LeaseTo(c)
    /\ Goto(c, "pending")
    /\ UNCHANGED <<kinds, jobVars, named, code, attempt, executor, others>>

\* The launch is refused before that row: the failed row is not fenced yet.
LaunchRefused(c) ==
    /\ pc[c] = "built"
    /\ row # "ready"
    /\ LeaveFailed("other")
    /\ Goto(c, "failing")
    /\ UNCHANGED <<kinds, jobVars, named, attempt, executor, others>>

\* renewLaunchLease, repeated while the launch runs.
RenewLaunch(c) ==
    /\ pc[c] \in {"pending", "dispatched", "started"}
    /\ Owns(c) /\ ~ownLive
    /\ LeaseTo(c)
    /\ UNCHANGED <<kinds, jobVars, row, named, code, attempt, pc, executor, others>>

\* The ownership is renewed right before the adapter is asked to launch.
Dispatch(c) ==
    /\ pc[c] = "pending"
    /\ Owns(c)
    /\ LeaseTo(c)
    /\ executor' = "creating"
    /\ Goto(c, "dispatched")
    /\ UNCHANGED <<kinds, jobVars, row, named, code, attempt, others>>

\* onStarted: the executor is on the row as soon as it exists.
RecordStarted(c) ==
    /\ pc[c] = "dispatched" /\ executor = "up"
    /\ Owns(c)
    /\ named' = TRUE
    /\ LeaseTo(c)
    /\ Goto(c, "started")
    /\ UNCHANGED <<kinds, jobVars, row, code, attempt, executor, others>>

\* Mutant: the terminal write is not fenced on the owner.
RecordReady_Unfenced(c) ==
    /\ pc[c] = "started"
    /\ row' = "ready"
    /\ ReleaseLaunch
    /\ Goto(c, "ready")
    /\ UNCHANGED <<kinds, jobVars, named, code, attempt, executor, others>>

\* The terminal launch write.
RecordReady(c) ==
    /\ pc[c] = "started"
    /\ Owns(c)
    /\ row' = "ready"
    /\ ReleaseLaunch
    /\ Goto(c, "ready")
    /\ UNCHANGED <<kinds, jobVars, named, code, attempt, executor, others>>

\* markAttemptSucceeded, markAttemptFailed: their failure is swallowed.
FinishAttempt(c) ==
    /\ \/ pc[c] = "ready"   /\ attempt' \in {"succeeded", attempt}
       \/ pc[c] = "failing" /\ attempt' \in {"failed", attempt}
    /\ Goto(c, "over")
    /\ UNCHANGED <<kinds, jobVars, rowVars, executor, others>>

\* What the adapter may leave of a launch that failed (failLaunch): a capture
\* executor is kept, any other cleaned up, or left where its cleanup fails.
FailedExecutor == IF executor = "up" /\ ~captures THEN {"up", "gone"} ELSE {executor}

\* Nothing was created.
FailWithout(c) ==
    /\ pc[c] = "pending" \/ (pc[c] = "dispatched" /\ executor = "gone")
    /\ Owns(c)
    /\ LeaveFailed("other")
    /\ Goto(c, "failing")
    /\ UNCHANGED <<kinds, jobVars, named, attempt, executor, others>>

\* Mutant: a launch that failed after its executor started forgets it.
FailWith_Unnamed(c) ==
    /\ pc[c] = "dispatched" \/ pc[c] = "started"
    /\ executor = "up"
    /\ Owns(c)
    /\ LeaveFailed("other")
    /\ executor' \in FailedExecutor
    /\ Goto(c, "failing")
    /\ UNCHANGED <<kinds, jobVars, named, attempt, others>>

\* A later step failed: a capture executor is kept, and recorded as kept.
FailWith(c) ==
    /\ pc[c] = "dispatched" \/ pc[c] = "started"
    /\ executor = "up"
    /\ Owns(c)
    /\ executor' \in FailedExecutor
    /\ \/ captures /\ LeaveFailed("retained") /\ named' = TRUE
       \/ ~captures /\ LeaveFailed("other") /\ UNCHANGED named
    /\ Goto(c, "failing")
    /\ UNCHANGED <<kinds, jobVars, attempt, others>>

\* Its preservation starts before it is ready, or its worker shuts down: the
\* launch lets go of the executor, which the adapter may still clean up.
Abandon(c) ==
    /\ pc[c] = "started"
    /\ Owns(c)
    /\ LeaveFailed("retained")
    /\ executor' \in FailedExecutor
    /\ Goto(c, "failing")
    /\ UNCHANGED <<kinds, jobVars, named, attempt, others>>

\* Another took the launch: nothing is written over it.
LaunchLost(c) ==
    /\ ~Owns(c)
    /\ pc[c] \in {"pending", "dispatched", "started"}
    /\ executor' \in FailedExecutor
    /\ Goto(c, "over")
    /\ UNCHANGED <<kinds, jobVars, rowVars, attempt, others>>

\* The failed row could not be written: the row stays pending under a lease
\* nobody renews.
FailUnwritten(c) ==
    /\ pc[c] \in {"pending", "dispatched", "started"} /\ executor # "creating"
    /\ executor' \in FailedExecutor
    /\ Goto(c, "failing")
    /\ UNCHANGED <<kinds, jobVars, rowVars, attempt, others>>

WorkerDies(c) ==
    /\ pc[c] \notin {"idle", "over"}
    /\ Goto(c, "over")
    /\ UNCHANGED <<kinds, jobVars, rowVars, attempt, executor, others>>

-----------------------------------------------------------------------------
(***************************************************************************)
(* The sweeps over launches whose worker is gone, and the deadline sweep.  *)
(***************************************************************************)
LapseOwnership ==
    /\ ownLive
    /\ ownLive' = FALSE
    /\ UNCHANGED <<kinds, jobVars, row, named, code, owner, graceOver, attempt, pc,
                   executor, others>>

\* A creation in flight when the ownership lapsed has landed by the grace, and
\* a sweep's look at the runtimes is no older than that.
PassGrace ==
    /\ owner # Nobody /\ ~ownLive /\ ~graceOver
    /\ executor # "creating"
    /\ graceOver' = TRUE
    /\ UNCHANGED <<kinds, jobVars, row, named, code, owner, ownLive, attempt, pc,
                   executor, others>>

Stranded == row = "pending" /\ owner # Nobody /\ ~ownLive

Owe(status) == owed' = owed \cup {status}

\* identifyStrandedLaunch: the executor is found by its run.
IdentifyStranded ==
    /\ Stranded /\ ~named
    /\ looks # "others" /\ executor = "up"
    /\ named' = TRUE
    /\ UNCHANGED <<kinds, jobVars, row, code, lease, attempt, pc, executor, others>>

\* Mutant: ended as lost the moment no runtime knows an executor of it.
FailLost_NoGrace ==
    /\ Stranded /\ ~named
    /\ looks = "all" /\ executor # "up"
    /\ LeaveFailed("lost")
    /\ Owe("failed")
    /\ UNCHANGED <<kinds, jobVars, named, attempt, pc, executor, stopper, publish>>

\* failLostLaunch: every registered runtime looked, and none knows an executor
\* of it, after the grace.
FailLost ==
    /\ Stranded /\ ~named
    /\ looks = "all" /\ executor # "up" /\ graceOver
    /\ LeaveFailed("lost")
    /\ Owe("failed")
    /\ UNCHANGED <<kinds, jobVars, named, attempt, pc, executor, stopper, publish>>

\* Mutant: adoption keeps the launch its worker's to finish.
Adopt_KeepsPending ==
    /\ Stranded /\ named
    /\ code' = "retained"
    /\ Owe("failed")
    /\ UNCHANGED <<kinds, jobVars, row, named, lease, attempt, pc, executor, stopper, publish>>

\* adoptStrandedLaunch.
Adopt ==
    /\ Stranded /\ named
    /\ LeaveFailed("retained")
    /\ Owe("failed")
    /\ UNCHANGED <<kinds, jobVars, named, attempt, pc, executor, stopper, publish>>

\* preemptLaunch: the runtime's deadline does not wait for its worker's lease.
Preempt ==
    /\ row = "pending" /\ named
    /\ LeaveFailed("retained")
    /\ Owe("failed")
    /\ UNCHANGED <<kinds, jobVars, named, attempt, pc, executor, stopper, publish>>

\* markAttemptFailed, markAttemptCancelled after the write they follow; lost
\* with the process that owed them.
PayAttempt(status) ==
    /\ status \in owed
    /\ owed' = owed \ {status}
    /\ attempt' \in {status, attempt}
    /\ UNCHANGED <<kinds, jobVars, rowVars, pc, executor, stopper, publish>>

-----------------------------------------------------------------------------
(***************************************************************************)
(* The stop, the creating request's rollback, the runtime.                 *)
(***************************************************************************)

\* Mutant: a stop fails the job whatever it came to.
CancelUnbuilt_AnyJob ==
    /\ row = "none"
    /\ job # "queued"
    /\ job' = "failed" /\ jobLive' = FALSE
    /\ Owe("cancelled")
    /\ UNCHANGED <<kinds, holder, rowVars, attempt, pc, executor, stopper, publish>>

\* stopWorkspace before there is a runtime: cancelUnbuiltJob.
CancelUnbuilt ==
    /\ row = "none"
    /\ job \in {"queued", "running"}
    /\ job' = "failed" /\ jobLive' = FALSE
    /\ Owe("cancelled")
    /\ UNCHANGED <<kinds, holder, rowVars, attempt, pc, executor, stopper, publish>>

\* processWorkspaceStop reads the row once; without an executor on it there is
\* nothing to address.
StopReads ==
    /\ stopper = "none"
    /\ row \notin {"none", "stopped"}
    /\ stopper' = IF named THEN "removing" ELSE "unaddressable"
    /\ UNCHANGED <<kinds, jobVars, rowVars, attempt, pc, executor, owed, publish>>

\* The adapter's stop (of a capture executor, as ExecutorRemoval lets it).
StopRemoves ==
    /\ stopper = "removing"
    /\ executor = "up"
    /\ executor' = "gone"
    /\ UNCHANGED <<kinds, jobVars, rowVars, attempt, pc, others>>

\* markStopped, over any status but its own.
StopWrites ==
    /\ stopper = "unaddressable" \/ (stopper = "removing" /\ executor = "gone")
    /\ row' = "stopped"
    /\ stopper' = "none"
    /\ UNCHANGED <<kinds, jobVars, named, code, lease, attempt, pc, executor, owed, publish>>

StopDies ==
    /\ stopper # "none"
    /\ stopper' = "none"
    /\ UNCHANGED <<kinds, jobVars, rowVars, attempt, pc, executor, owed, publish>>

\* The create's publish failed, or seemed to: job and attempt are failed
\* whatever they came to meanwhile.
RollBackJob ==
    /\ "job" \in publish
    /\ publish' = publish \ {"job"}
    /\ job' = "failed" /\ jobLive' = FALSE
    /\ UNCHANGED <<kinds, holder, rowVars, attempt, pc, executor, stopper, owed>>

RollBackAttempt ==
    /\ "attempt" \in publish
    /\ publish' = publish \ {"attempt"}
    /\ attempt' = "failed"
    /\ UNCHANGED <<kinds, jobVars, rowVars, pc, executor, stopper, owed>>

\* The adapter's create call succeeds or fails, whatever became of its caller.
CreationLands ==
    /\ executor = "creating"
    /\ executor' \in {"up", "gone"}
    /\ UNCHANGED <<kinds, jobVars, rowVars, attempt, pc, others>>

-----------------------------------------------------------------------------
BuildStep(c) ==
    \/ ClaimJob(c) \/ MarkRunning(c) \/ Heartbeat(c)
    \/ CommitBuild(c) \/ StopBuilding(c) \/ BuildFails(c)

\* What a launching worker does next, its renewals and its death apart.
LaunchMoves(c) ==
    \/ RecordPending(c) \/ LaunchRefused(c) \/ Dispatch(c)
    \/ RecordStarted(c) \/ RecordReady(c) \/ FinishAttempt(c)
    \/ FailWithout(c) \/ FailWith(c) \/ Abandon(c) \/ LaunchLost(c) \/ FailUnwritten(c)

WorkerStep(c) == BuildStep(c) \/ LaunchMoves(c) \/ RenewLaunch(c) \/ WorkerDies(c)

SweepStep ==
    \/ LapseJob \/ LapseOwnership \/ PassGrace
    \/ IdentifyStranded \/ FailLost \/ Adopt \/ Preempt
    \/ \E status \in {"failed", "cancelled"} : PayAttempt(status)

StopStep == CancelUnbuilt \/ StopReads \/ StopRemoves \/ StopWrites \/ StopDies

LaunchNext ==
    \/ \E c \in Claim : WorkerStep(c)
    \/ SweepStep \/ StopStep
    \/ RollBackJob \/ RollBackAttempt \/ CreationLands

LaunchSpec == LaunchInit /\ [][LaunchNext]_launchVars

(***************************************************************************)
(* The adapter's call is bounded and so is every step of a launch; a lease *)
(* nobody renews lapses and its grace passes; the sweeps run at every      *)
(* worker boot and on every poll, and of those that ask the runtimes one   *)
(* has an answer of every runtime that can look.  Nothing is fair about a  *)
(* runtime that cannot: FailLost and IdentifyStranded are not enabled then.*)
(***************************************************************************)
LaunchFairness ==
    /\ \A c \in Claim : WF_launchVars(LaunchMoves(c))
    /\ WF_launchVars(CreationLands)
    /\ WF_launchVars(LapseOwnership) /\ WF_launchVars(PassGrace)
    /\ WF_launchVars(IdentifyStranded) /\ WF_launchVars(FailLost) /\ WF_launchVars(Adopt)

FairLaunchSpec == LaunchSpec /\ LaunchFairness

-----------------------------------------------------------------------------
\* The run is launched once: however often its job is claimed, and whichever
\* claim's build ends first, an adapter is asked for an executor once at most
\* (claimJobById, markJobSucceeded).
LaunchedOnce ==
    [][\A c \in Claim : pc'[c] = "dispatched" /\ pc[c] # "dispatched" => executor = "none"]_launchVars

\* A launch that was taken from its worker, or that failed, is never finished
\* over it: a worker stalled past its lease reports nothing ready
\* (fenceLaunchOwner; adoptStrandedLaunch, failLostLaunch, preemptLaunch).
TakenIsNeverFinished ==
    [][code # "none" => row' \notin {"pending", "ready"} \/ row' = row]_launchVars

\* A launch ended as lost left nothing behind, and nothing is still coming:
\* no executor exists that nobody would look for
\* (failLostLaunch, the renewal before dispatch).
LostLeftNothing == code = "lost" => executor \notin {"creating", "up"}

\* A ready executor, and one of a capture launch that failed, is on the row, so
\* that a stop, the retained-launch sweep or recovery can reach it
\* (recordReadyIdentity, failedRuntimeRow, identifyStrandedLaunch).
KeptIsNamed ==
    executor = "up" /\ (row = "ready" \/ (captures /\ row = "failed")) => named

\* A runtime recorded ready is not that of a run recorded failed or cancelled,
\* unless its own create rolled it back
\* (markJobSucceeded, cancelUnbuiltJob, buildFailureCleanup).
ReadyIsNotFailed ==
    row = "ready" /\ ~doubtful => attempt \notin {"failed", "cancelled"}

\* A sweep that comes on this launch once it is stranded can tell what became
\* of its executor: it is on the row, or there to be found and here to stay, or
\* each registered runtime can say that it has none.
CanBeSettled ==
    \/ named
    \/ looks = "own" /\ captures /\ executor = "up"
    \/ looks = "all"

\* A pending launch is settled: ready, failed, adopted, lost or stopped, though
\* its worker died at any point, but for what adopt-stranded-launches.ts leaves:
\* "Where a registered runtime cannot look (no locate) it is left as it is"
\* (adoptStrandedLaunchesEffect).
PendingSettles == row = "pending" /\ CanBeSettled ~> row # "pending"

\* launch-retention.ts: once a capture executor exists, whatever fails, the run
\* is recorded with what finds it: when no worker is at it any more, its row
\* names it, or is pending and looked for.
ExecutorIsFindable ==
    captures /\ executor = "up" /\ (\A c \in Claim : pc[c] \notin {"dispatched", "started"})
        => named \/ row = "pending"

\* stopWorkspace: a run stopped before its image was built ends cancelled, and
\* no worker's report says otherwise later (the rollback of its own create, which
\* writes "failed" over everything, apart).
CancelledIsFinal ==
    [][~doubtful /\ attempt = "cancelled" => attempt' = "cancelled"]_launchVars

-----------------------------------------------------------------------------
(***************************************************************************)
(* The launch as its run sees it, whoever makes it.                        *)
(***************************************************************************)
Outcome ==
    CASE row = "failed" /\ code = "retained" -> "retained"
      [] row = "failed" /\ code = "lost"     -> "lost"
      [] OTHER                               -> row

Single == INSTANCE SingleLaunch WITH
    outcome   <- Outcome,
    found     <- named,
    holdsWork <- captures

\* Whatever claims, leases and sweeps there are, and whoever of them dies or is
\* late, the run's launch is that of SingleLaunch: asked for once, settled once,
\* overruled by nobody but a stop
\* (claimJobById, fenceLaunchOwner, adoptStrandedLaunchesEffect).
ImplementsSingleLaunch == Single!LaunchSpec

=============================================================================
