----------------------------- MODULE RuntimeExit -----------------------------
(***************************************************************************)
(* How the row of a run's runtime ends, and who still looks at what is     *)
(* left of its executor: stops (process-workspace-stop.ts), passes of the  *)
(* exit reconciler with its two sweeps (reconcile-runtime-exits.ts), and   *)
(* the recovery of a retained executor (recover-retained-executors.ts),    *)
(* each dying wherever it stands.                                          *)
(*                                                                         *)
(* One run, from the moment its launch settled.  What ExecutorRemoval says *)
(* of evidence, tickets and late requests is abstracted here to whether    *)
(* the record lets the executor go, and who holds its removal.  The stop's *)
(* drain claim is left out: its lease may lapse under a slow holder, so it *)
(* excludes nothing for certain, and a stop that finds it held does        *)
(* nothing.                                                                *)
(***************************************************************************)
EXTENDS Naturals

CONSTANTS
    Stop,        \* stops of the run that may be under way at once
    Pass,        \* passes of the exit reconciler, on as many workers
    Recovery,    \* the recovery sweep
    Nobody,      \* the null holder
    Bounded,     \* whether faults come to an end
    MaxFaults    \* if so: deaths, failed calls and voided removals, in all

ASSUME ExitAssumption ==
    /\ Stop \cap Pass = {}
    /\ Recovery \notin Stop \cup Pass
    /\ Nobody \notin Stop \cup Pass \cup {Recovery}
    /\ Bounded \in BOOLEAN /\ MaxFaults \in Nat

Process == Stop \cup Pass \cup {Recovery}

VARIABLES
    captures,   \* the run is capture-sourced
    keeps,      \* RuntimeAdapter.keepsRemains: ending and removing are two calls
    status,     \* workspace_runtime_instances.status
    code,       \* its error_code
    planned,    \* its stop_reason is set
    removed,    \* its removed_at is set
    ledger,     \* workspace_capture_drains.state: one that ended its retention, or not
    retained,   \* its retained_at is set
    discard,    \* its discard_requested_at is set
    deletion,   \* its deletion_state
    holder,     \* whose ticket is its deletion_token
    live,       \* its deletion_expires_at > now()
    exec,       \* the executor, as the runtime has it
    work,       \* what its disk holds, and what of that the record knows
    endedBy,    \* what made it end: a stop, its platform, or any other
    proc,       \* per process: where it stands
    faults

kinds  == <<captures, keeps>>
row    == <<status, code, planned, removed>>
drain  == <<ledger, retained, discard>>
hold   == <<deletion, holder, live>>
guest  == <<exec, work, endedBy>>
vars   == <<kinds, row, drain, hold, guest, proc, faults>>

Inspection == {"running", "exited", "missing"}

Place == {"idle", "looking", "looked", "decided", "requested", "calling",
          "ended", "recorded", "removed", "completing", "observing", "booted"}
Sight == {"none", "running", "exited", "missing", "unknown", "drained"}
Verdict == {"none", "keep", "missing", "bare", "ticket", "reissue"}

Local == [at : Place, list : {"none", "exit", "unsettled", "remains"},
          seen : Sight, verdict : Verdict, noted : BOOLEAN]

Idle == [at |-> "idle", list |-> "none", seen |-> "none", verdict |-> "none",
         noted |-> FALSE]

ExitTypes ==
    /\ captures \in BOOLEAN /\ keeps \in BOOLEAN
    /\ status \in {"ready", "failed", "stopped"}
    /\ code \in {"none", "launch-retained", "runtime-exited"}
    /\ planned \in BOOLEAN /\ removed \in BOOLEAN
    /\ ledger \in {"open", "stopped", "gone"}
    /\ retained \in BOOLEAN /\ discard \in BOOLEAN
    /\ deletion \in {"none", "deleting", "issued", "deleted"}
    /\ holder \in Process \cup {Nobody} /\ live \in BOOLEAN
    /\ exec \in Inspection
    /\ work \in {"unsaved", "sealed", "recorded"}
    /\ endedBy \in {"other", "stop", "platform"}
    /\ proc \in [Process -> Local]
    /\ faults \in 0..MaxFaults

\* A hold is of a removal under way, and names its ticket.
HoldsOfRemovals ==
    /\ live => deletion \in {"deleting", "issued"} /\ holder # Nobody
    /\ deletion \in {"none", "deleted"} => holder = Nobody

\* The types, and the columns of the removal that go together
\* (authorizeDeletion, recordedDeletion, releaseDeletion, authorizedUnissued).
ExitTypeOK == ExitTypes /\ HoldsOfRemovals

\* A launch leaves a ready row or, of a capture-sourced run, a retained launch;
\* and an older worker may have left an exit recorded with no retention, of a
\* stop that was planned or of none.
ExitInit ==
    /\ captures \in BOOLEAN /\ keeps \in BOOLEAN
    /\ ledger = "open" /\ retained = FALSE /\ discard = FALSE
    /\ deletion = "none" /\ holder = Nobody /\ live = FALSE
    /\ work = "unsaved" /\ endedBy = "other"
    /\ proc = [p \in Process |-> Idle]
    /\ faults = 0
    /\ \/ status = "ready" /\ code = "none" /\ exec = "running"
       \/ /\ captures
          /\ status = "failed" /\ code = "launch-retained"
          /\ exec = "running"
       \/ /\ captures
          /\ \/ status = "failed" /\ code = "runtime-exited"
             \/ status = "stopped" /\ code = "none"
          /\ exec = "exited"
    /\ planned = (status = "stopped") /\ removed = FALSE

-----------------------------------------------------------------------------
Put(p, local) == proc' = [proc EXCEPT ![p] = local]
MoveTo(p, s) == Put(p, [proc[p] EXCEPT !.at = s])
Sees(p, s) == Put(p, [proc[p] EXCEPT !.at = "looked", !.seen = s])
Done(p) == Put(p, Idle)

\* A pass over the ready rows remembers whether a stop was asked of one.
Starts(p, s, l, v) ==
    Put(p, [Idle EXCEPT !.at = s, !.list = l, !.verdict = v, !.noted = (l = "exit" /\ planned)])

\* With its verdict only a stop remembers what it saw, as it may decide again.
Decides(p, v, s) ==
    Put(p, [proc[p] EXCEPT !.verdict = v, !.at = s,
                           !.seen = IF p \in Stop THEN @ ELSE "none"])

\* From its request on, a process goes by its verdict alone.
Requests(p, v, s) ==
    Put(p, [Idle EXCEPT !.at = s, !.verdict = v,
                        !.seen = IF p \in Stop THEN proc[p].seen ELSE "none"])
Calls(p) == Put(p, [Idle EXCEPT !.at = "calling", !.verdict = proc[p].verdict])

Fault ==
    \/ Bounded /\ faults < MaxFaults /\ faults' = faults + 1
    \/ ~Bounded /\ UNCHANGED faults

\* markStopped: a row already stopped is left as it is.
MarkStopped ==
    /\ status' = "stopped" /\ planned' = TRUE
    /\ UNCHANGED <<code, removed>>

\* Mutant: the exit is recorded whatever stop is under way.
ExitRecordable_IgnoresStop == status = "ready"

\* markExited's fence: ready on this resource, and no stop under way.
ExitRecordable == status = "ready" /\ ~planned

\* ledger.markRetained
Retain == retained' = TRUE /\ ledger' = "open" /\ UNCHANGED discard

\* ledger.observe with a state that ends the retention.
EndRetention(state) == ledger' = state /\ retained' = FALSE /\ UNCHANGED discard

Held == live /\ deletion \in {"deleting", "issued"}
Unresolved == deletion = "issued" /\ ~live

\* admitRecovery and claimRecovery keep other deleters off.
RecoveryUnderWay == proc[Recovery].at # "idle"

\* What an observation of the executor may not be opened under.
Observable == deletion \notin {"issued", "deleted"} /\ ~Held

RecordDeleted == deletion' = "deleted" /\ live' = FALSE /\ holder' = Nobody

\* Mutant: the ticket is not taken back with the removal.
GiveUpHold_KeepsTicket == deletion' = "none" /\ live' = FALSE /\ UNCHANGED holder

GiveUpHold == deletion' = "none" /\ live' = FALSE /\ holder' = Nobody

\* An authorized removal that was not issued is voided.
VoidDeleting ==
    \/ deletion = "deleting" /\ GiveUpHold
    \/ deletion # "deleting" /\ UNCHANGED hold

\* Mutant: what was recorded of a running executor lets it go.
Basis_Running(s) ==
    IF ~captures \/ discard THEN "bare"
    ELSE IF work = "recorded" THEN "ticket"
    ELSE IF s # "running" THEN "missing"
    ELSE "keep"

\* Mutant: what is gone was lost.
Basis_MissingFirst(s) ==
    IF ~captures \/ discard THEN "bare"
    ELSE IF s = "missing" THEN "missing"
    ELSE IF work = "recorded" /\ s \notin {"running", "unknown"} THEN "ticket"
    ELSE "keep"

\* decideExecutorDeletion, on what the runtime said last: a drain of it now, or
\* recorded evidence of one that ended.
Basis(s) ==
    IF ~captures \/ discard THEN "bare"
    ELSE IF work = "recorded" /\ s \notin {"running", "unknown"} THEN "ticket"
    ELSE IF s = "missing" THEN "missing"
    ELSE "keep"

-----------------------------------------------------------------------------
(***************************************************************************)
(* What each process begins with.                                          *)
(***************************************************************************)

\* A stop reads the row and the record; an owner's discard needs no looking.
BeginStop(p) ==
    /\ p \in Stop /\ proc[p].at = "idle"
    /\ status # "stopped"
    /\ \/ captures /\ discard /\ Starts(p, "decided", "none", "bare")
       \/ ~(captures /\ discard) /\ Starts(p, "looking", "none", "none")
    /\ UNCHANGED <<kinds, row, drain, hold, guest, faults>>

\* listRunningInstances
ListReady(p) ==
    /\ p \in Pass /\ proc[p].at = "idle"
    /\ status = "ready"
    /\ Starts(p, "looking", "exit", "none")
    /\ UNCHANGED <<kinds, row, drain, hold, guest, faults>>

\* listUnsettledCaptureExecutors
Unsettled ==
    /\ status \in {"failed", "stopped"} /\ code # "launch-retained"
    /\ captures /\ ~retained
    /\ ledger \notin {"stopped", "gone"}

ListUnsettled(p) ==
    /\ p \in Pass /\ proc[p].at = "idle"
    /\ Unsettled
    /\ Starts(p, "looking", "unsettled", "none")
    /\ UNCHANGED <<kinds, row, drain, hold, guest, faults>>

\* Mutant: a removal recorded complete leaves nothing to look for.
StoppedWithRemains_Unsaved ==
    /\ keeps /\ status = "stopped" /\ ~removed /\ ~retained
    /\ ~captures \/ discard

\* listStoppedWithRemains
StoppedWithRemains ==
    /\ keeps /\ status = "stopped" /\ ~removed /\ ~retained
    /\ ~captures \/ deletion = "deleted" \/ discard

ListRemains(p) ==
    /\ p \in Pass /\ proc[p].at = "idle"
    /\ StoppedWithRemains
    /\ Starts(p, "calling", "remains", "bare")
    /\ UNCHANGED <<kinds, row, drain, hold, guest, faults>>

\* listRetainedDue, claimRecovery
BeginRecovery ==
    /\ proc[Recovery].at = "idle"
    /\ retained
    /\ Starts(Recovery, "looking", "none", "none")
    /\ UNCHANGED <<kinds, row, drain, hold, guest, faults>>

\* RuntimeAdapter.inspect.  A stop takes a failed read for a running executor,
\* the recovery goes on without it; a pass leaves the run alone (it dies).
Inspect(p) ==
    /\ proc[p].at = "looking"
    /\ \/ /\ proc[p].list = "exit" /\ exec = "running"
          /\ Done(p)
          /\ UNCHANGED faults
       \/ /\ ~(proc[p].list = "exit" /\ exec = "running")
          /\ Sees(p, exec)
          /\ UNCHANGED faults
       \/ /\ p \in Stop /\ Fault
          /\ Sees(p, "running")
       \/ /\ p = Recovery /\ Fault
          /\ Sees(p, "unknown")
    /\ UNCHANGED <<kinds, row, drain, hold, guest>>

-----------------------------------------------------------------------------
(***************************************************************************)
(* drainCaptureBeforeStop, of a running executor by a stop, or of one the  *)
(* recovery has up again.                                                  *)
(***************************************************************************)
Drains(p) ==
    /\ captures
    /\ \/ p \in Stop /\ proc[p].at = "looked" /\ proc[p].seen = "running"
       \/ p = Recovery /\ proc[p].at = "booted"

Progress(state) == ledger' = state /\ UNCHANGED <<retained, discard>>

\* The final flush is complete and recorded; or it was, before the executor ended.
Drain(p) ==
    /\ Drains(p) /\ Observable
    /\ exec = "running" \/ work = "recorded"
    /\ work' = "recorded"
    /\ VoidDeleting
    /\ Progress("open")
    /\ Sees(p, "drained")
    /\ UNCHANGED <<kinds, row, exec, endedBy, faults>>

\* It is complete, and the answer lost; or it is not, or does not end in time.
DrainUnconfirmed(p) ==
    /\ Drains(p) /\ Observable /\ exec = "running"
    /\ Fault
    /\ work' \in {work, IF work = "unsaved" THEN "sealed" ELSE work}
    /\ VoidDeleting
    /\ Progress("open")
    /\ Done(p)
    /\ UNCHANGED <<kinds, row, exec, endedBy>>

\* Mutant: an executor that ended is taken for one that is gone.
DrainSilent_TakenForGone(p) ==
    /\ Drains(p) /\ Observable /\ exec = "exited" /\ work # "recorded"
    /\ EndRetention("gone")
    /\ VoidDeleting
    /\ Done(p)
    /\ UNCHANGED <<kinds, row, guest, faults>>

\* The daemon is silent because the executor ended meanwhile: a stop retains it.
DrainSilent(p) ==
    /\ Drains(p) /\ Observable /\ exec = "exited" /\ work # "recorded"
    /\ \/ p \in Stop /\ Retain
       \/ p = Recovery /\ Progress("open")
    /\ VoidDeleting
    /\ Done(p)
    /\ UNCHANGED <<kinds, row, guest, faults>>

\* Silent, and nothing of the executor is left.
DrainGone(p) ==
    /\ Drains(p) /\ Observable /\ exec = "missing" /\ work # "recorded"
    /\ VoidDeleting
    /\ \/ /\ p \in Stop
          /\ Sees(p, "missing")
          /\ Progress("gone")
       \/ p = Recovery /\ EndRetention("gone") /\ Done(p)
    /\ UNCHANGED <<kinds, row, guest, faults>>

\* Its removal is under way, or done: nothing is asked.
DrainRefused(p) ==
    /\ Drains(p) /\ ~Observable
    /\ Progress("open")
    /\ Done(p)
    /\ UNCHANGED <<kinds, row, hold, guest, faults>>

-----------------------------------------------------------------------------
(***************************************************************************)
(* authorizedDeletion: decide, and hold the removal.                       *)
(***************************************************************************)

\* Where a process goes with a removal it may make.
Grant(p, v) ==
    IF p \in Stop \/ proc[p].list = "exit" THEN Decides(p, v, "decided")
                                          ELSE Requests(p, v, "requested")

\* A stop only decides on a running executor when it was issued for removal, or
\* has nothing to drain.
Decidable(p) ==
    /\ proc[p].at = "looked"
    /\ p \in Stop /\ proc[p].seen = "running" => deletion = "issued" \/ ~captures

\* settleIssuedRemoval: gone is final; what is still there is asked again.
Settle(p) ==
    /\ Decidable(p) /\ captures /\ Unresolved
    /\ \/ /\ proc[p].seen = "missing"
          /\ RecordDeleted
          /\ UNCHANGED proc
       \/ /\ proc[p].seen \notin {"missing", "unknown"}
          /\ holder' = p /\ live' = TRUE
          /\ Grant(p, "reissue")
          /\ UNCHANGED deletion
    /\ UNCHANGED <<kinds, row, drain, guest, faults>>

\* Another path holds the removal, a recovery is under way, or nobody knows what
\* became of a removal: left to the next look.
HeldElsewhere(p) ==
    /\ Decidable(p) /\ captures
    /\ \/ deletion = "issued" /\ (live \/ proc[p].seen = "unknown")
       \/ /\ Basis(proc[p].seen) = "ticket"
          /\ Held \/ (p # Recovery /\ RecoveryUnderWay)
    /\ Done(p)
    /\ UNCHANGED <<kinds, row, drain, hold, guest, faults>>

\* It rests on recorded evidence: held under a ticket, unless it was done.
AuthorizeDeletion(p) ==
    /\ Decidable(p) /\ deletion # "issued"
    /\ Basis(proc[p].seen) = "ticket"
    /\ \/ /\ deletion = "deleted"
          /\ Grant(p, "bare")
          /\ UNCHANGED hold
       \/ /\ deletion # "deleted" /\ ~Held
          /\ p = Recovery \/ ~RecoveryUnderWay
          /\ deletion' = "deleting" /\ holder' = p /\ live' = TRUE
          /\ Grant(p, "ticket")
    /\ UNCHANGED <<kinds, row, drain, guest, faults>>

\* It rests on none: nothing is held.  A pass reads an owner's discard before
\* anything else of the record.
AllowUnheld(p) ==
    /\ Decidable(p)
    /\ \/ /\ Basis(proc[p].seen) = "bare"
          /\ deletion # "issued" \/ (discard /\ proc[p].list = "exit")
          /\ Grant(p, "bare")
       \/ /\ Basis(proc[p].seen) = "missing" /\ deletion # "issued"
          /\ p \in Stop \/ proc[p].list = "exit"
          /\ Decides(p, "bare", "decided")
       \/ /\ Basis(proc[p].seen) = "missing" /\ deletion # "issued"
          /\ p = Recovery \/ proc[p].list = "unsettled"
          /\ Decides(p, "missing", "decided")
    /\ UNCHANGED <<kinds, row, drain, hold, guest, faults>>

\* Nothing lets it go.  A stop retains it; a pass goes on to; the recovery
\* starts it again.
Keep(p) ==
    /\ Decidable(p) /\ deletion # "issued"
    /\ Basis(proc[p].seen) = "keep"
    /\ \/ p \in Stop /\ Retain /\ Done(p)
       \/ p \in Pass /\ Decides(p, "keep", "decided") /\ UNCHANGED drain
    /\ UNCHANGED <<kinds, row, hold, guest, faults>>

\* admitRecovery, and the boot on its own disk (adapter.recover): it is up, it
\* cannot be or fails to, it is gone; or it is being removed, or was.
Boot ==
    /\ Decidable(Recovery) /\ deletion # "issued"
    /\ Basis(proc[Recovery].seen) = "keep"
    /\ \/ /\ Observable /\ exec # "missing"
          /\ VoidDeleting
          /\ exec' = "running" /\ endedBy' = "other"
          /\ MoveTo(Recovery, "booted")
          /\ UNCHANGED drain
       \/ /\ Observable
          /\ VoidDeleting
          /\ Done(Recovery)
          /\ UNCHANGED <<drain, exec, endedBy>>
       \/ /\ Observable /\ exec = "missing"
          /\ VoidDeleting
          /\ EndRetention("gone")
          /\ Done(Recovery)
          /\ UNCHANGED <<exec, endedBy>>
       \/ /\ Held
          /\ Done(Recovery)
          /\ UNCHANGED <<drain, hold, exec, endedBy>>
       \/ /\ deletion = "deleted"
          /\ EndRetention("stopped")
          /\ Done(Recovery)
          /\ UNCHANGED <<hold, exec, endedBy>>
    /\ UNCHANGED <<kinds, row, work, faults>>

-----------------------------------------------------------------------------
(***************************************************************************)
(* What is written before the runtime is asked.                            *)
(***************************************************************************)

\* markStopRequested
MarkStopRequested(p) ==
    /\ p \in Stop /\ proc[p].at = "decided"
    /\ planned' = (planned \/ status # "stopped")
    /\ MoveTo(p, "requested")
    /\ UNCHANGED <<kinds, status, code, removed, drain, hold, guest, faults>>

\* withRetention: the retention and the row's end, in one transaction.  An exit
\* that was fenced out keeps the retention.
RecordKept(p) ==
    /\ p \in Pass /\ proc[p].at = "decided" /\ proc[p].verdict = "keep"
    /\ proc[p].list = "exit"
    /\ \/ proc[p].noted /\ MarkStopped
       \/ /\ ~proc[p].noted /\ ExitRecordable
          /\ status' = "failed" /\ code' = "runtime-exited"
          /\ UNCHANGED <<planned, removed>>
       \/ ~proc[p].noted /\ ~ExitRecordable /\ UNCHANGED row
    /\ Retain
    /\ Done(p)
    /\ UNCHANGED <<kinds, hold, guest, faults>>

\* The exit of an executor that may go: recorded, then its remains are removed.
RecordEnd(p) ==
    /\ p \in Pass /\ proc[p].at = "decided" /\ proc[p].verdict # "keep"
    /\ proc[p].list = "exit"
    /\ \/ proc[p].noted /\ MarkStopped
       \/ /\ ~proc[p].noted /\ ExitRecordable
          /\ status' = "failed" /\ code' = "runtime-exited"
          /\ UNCHANGED <<planned, removed>>
    /\ Requests(p, proc[p].verdict, "requested")
    /\ UNCHANGED <<kinds, drain, hold, guest, faults>>

\* giveUpRemoval: a stop settled the row first.  A removal taken over stays
\* issued, as its request may still act.
GiveUp(p) ==
    /\ p \in Pass /\ proc[p].at = "decided" /\ proc[p].verdict # "keep"
    /\ proc[p].list = "exit"
    /\ ~proc[p].noted /\ ~ExitRecordable
    /\ Done(p)
    /\ \/ /\ proc[p].verdict = "ticket" /\ holder = p /\ deletion = "deleting"
          /\ GiveUpHold
       \/ /\ proc[p].verdict = "reissue" /\ holder = p /\ deletion = "issued"
          /\ live' = FALSE /\ UNCHANGED <<deletion, holder>>
       \/ /\ ~(holder = p /\ \/ proc[p].verdict = "ticket" /\ deletion = "deleting"
                             \/ proc[p].verdict = "reissue" /\ deletion = "issued")
          /\ UNCHANGED hold
    /\ UNCHANGED <<kinds, row, drain, guest, faults>>

\* settleUnsettledExecutors: kept, or gone; the recovery, of one that is gone.
SettleRecord(p) ==
    /\ proc[p].at = "decided" /\ (p = Recovery \/ proc[p].list = "unsettled")
    /\ \/ proc[p].verdict = "keep" /\ Retain
       \/ proc[p].verdict = "missing" /\ EndRetention("gone")
    /\ Done(p)
    /\ UNCHANGED <<kinds, row, hold, guest, faults>>

-----------------------------------------------------------------------------
(***************************************************************************)
(* removeUnderDeletion, and what is written around the runtime's calls.    *)
(***************************************************************************)
Ticketed(p) == proc[p].verdict \in {"ticket", "reissue"}

\* issueDeletion: checked right before the call.
Issue(p) ==
    /\ proc[p].at = "requested"
    /\ Calls(p)
    /\ \/ ~Ticketed(p) /\ UNCHANGED hold
       \/ /\ Ticketed(p) /\ holder = p /\ Held
          /\ deletion' = "issued"
          /\ UNCHANGED <<holder, live>>
    /\ UNCHANGED <<kinds, row, drain, guest, faults>>

\* Voided: a stop decides again, a few times, and retains what ended; the others
\* leave it to the next sweep.
Voided(p) ==
    /\ proc[p].at = "requested"
    /\ Ticketed(p) /\ ~(holder = p /\ Held)
    /\ \/ p \in Stop /\ Decides(p, "none", "looked") /\ UNCHANGED drain
       \/ p \in Stop /\ proc[p].seen \in {"exited", "missing"} /\ Done(p) /\ Retain
       \/ Done(p) /\ UNCHANGED drain
    /\ UNCHANGED <<kinds, row, hold, guest, faults>>

\* The call ends the executor and, but for a stop's first of two, removes it.
Ended(p) == IF p \in Stop /\ keeps /\ exec # "missing" THEN "exited" ELSE "missing"

TakeDown(p) ==
    /\ exec' = Ended(p)
    /\ endedBy' = IF exec # "running" THEN endedBy
                ELSE IF p \in Stop THEN "stop" ELSE "other"
    /\ UNCHANGED work

Call(p) ==
    /\ proc[p].at = "calling"
    /\ TakeDown(p)
    /\ MoveTo(p, IF p \in Stop THEN "ended"
                 ELSE IF proc[p].list = "remains" THEN "removed" ELSE "completing")
    /\ UNCHANGED <<kinds, row, drain, hold, faults>>

\* A stop's failure is on the record, over whatever it said before.
NoteFailure(p) ==
    \/ p \in Stop /\ captures /\ Progress("open")
    \/ ~(p \in Stop /\ captures) /\ UNCHANGED drain

\* releaseDeletion: the runtime refused.  A request made before may still act.
CallRefused(p) ==
    /\ proc[p].at = "calling" /\ Fault
    /\ \/ /\ proc[p].verdict = "ticket" /\ holder = p /\ deletion = "issued"
          /\ GiveUpHold
       \/ /\ proc[p].verdict = "reissue" /\ holder = p /\ deletion = "issued"
          /\ live' = FALSE /\ UNCHANGED <<deletion, holder>>
       \/ /\ ~(Ticketed(p) /\ holder = p /\ deletion = "issued")
          /\ UNCHANGED hold
    /\ NoteFailure(p)
    /\ Done(p)
    /\ UNCHANGED <<kinds, row, guest>>

\* lapseIssuedDeletion: nobody knows what came of the call.
CallLost(p) ==
    /\ proc[p].at = "calling" /\ Fault
    /\ TakeDown(p) \/ UNCHANGED guest
    /\ \/ Ticketed(p) /\ holder = p /\ live' = FALSE
       \/ ~(Ticketed(p) /\ holder = p) /\ UNCHANGED live
    /\ NoteFailure(p)
    /\ Done(p)
    /\ UNCHANGED <<kinds, row, deletion, holder>>

\* Mutant: the row is ended before the runtime is asked.
RecordStopped_First(p) ==
    /\ p \in Stop /\ proc[p].at = "calling"
    /\ MarkStopped
    /\ MoveTo(p, "recorded")
    /\ UNCHANGED <<kinds, drain, hold, guest, faults>>

\* recordStopped: once nothing of the executor runs.
RecordStopped(p) ==
    /\ proc[p].at = "ended"
    /\ MarkStopped
    /\ MoveTo(p, IF p \in Stop /\ keeps THEN "recorded" ELSE "removed")
    /\ UNCHANGED <<kinds, drain, hold, guest, faults>>

\* The second call.  Its failure is not the stop's.
RemoveRemains(p) ==
    /\ proc[p].at = "recorded"
    /\ \/ exec' = "missing" /\ MoveTo(p, "removed") /\ UNCHANGED faults
       \/ Fault /\ MoveTo(p, "completing") /\ UNCHANGED exec
    /\ UNCHANGED <<kinds, row, drain, hold, work, endedBy>>

\* markRemoved, whose failure is only logged.
MarkRemoved(p) ==
    /\ proc[p].at = "removed"
    /\ \/ removed' = TRUE /\ UNCHANGED faults
       \/ Fault /\ UNCHANGED removed
    /\ \/ p \in Stop /\ MoveTo(p, "completing")
       \/ p \notin Stop /\ proc[p].list # "remains" /\ MoveTo(p, "observing")
       \/ p \notin Stop /\ proc[p].list = "remains" /\ Done(p)
    /\ UNCHANGED <<kinds, status, code, planned, drain, hold, guest>>

\* completeDeletion: recorded whoever holds the removal by now; a failure is only
\* logged, and the removal stays issued.
Complete(p) ==
    /\ proc[p].at = "completing"
    /\ \/ Ticketed(p) /\ RecordDeleted /\ UNCHANGED faults
       \/ Ticketed(p) /\ Fault /\ UNCHANGED hold
       \/ ~Ticketed(p) /\ UNCHANGED <<hold, faults>>
    /\ Starts(p, IF p \in Stop THEN "observing"
                 ELSE IF p = Recovery THEN "ended" ELSE "removed", "none", "none")
    /\ UNCHANGED <<kinds, row, drain, guest>>

\* The record says how it went, and its retention ends.
Observe(p) ==
    /\ proc[p].at = "observing"
    /\ \/ captures /\ EndRetention("stopped")
       \/ ~captures /\ UNCHANGED drain
    /\ Done(p)
    /\ UNCHANGED <<kinds, row, hold, guest, faults>>

-----------------------------------------------------------------------------
(***************************************************************************)
(* What happens to all of them.                                            *)
(***************************************************************************)
Dies(p) ==
    /\ proc[p].at # "idle" /\ Fault
    /\ Done(p)
    /\ UNCHANGED <<kinds, row, drain, hold, guest>>

\* A hold lapses unless its holder is there to use it, or renew it in time.
HolderThere == holder \in Process /\ Ticketed(holder)

LapseHold ==
    /\ live /\ live' = FALSE
    /\ \/ ~HolderThere /\ UNCHANGED faults
       \/ HolderThere /\ Fault
    /\ UNCHANGED <<kinds, row, drain, deletion, holder, guest, proc>>

\* Newer evidence is recorded: a removal that was not issued is voided.
NewEvidence ==
    /\ deletion = "deleting" /\ Fault
    /\ VoidDeleting
    /\ UNCHANGED <<kinds, row, drain, guest, proc>>

\* A seal of the final capture is attested, or an answer of it recorded late.
EvidenceArrives ==
    /\ captures /\ work = "sealed" /\ Observable
    /\ work' = "recorded"
    /\ VoidDeleting
    /\ UNCHANGED <<kinds, row, drain, exec, endedBy, proc, faults>>

\* The owner gives the unsaved work up.
RequestDiscard ==
    /\ captures /\ ~discard
    /\ discard' = TRUE
    /\ UNCHANGED <<kinds, row, ledger, retained, hold, guest, proc, faults>>

\* The executor ends without being asked, its own final flush done or not.
ExecutorEnds ==
    /\ exec = "running"
    /\ exec' = "exited" /\ endedBy' = "other"
    /\ work' \in {work, IF work = "unsaved" THEN "sealed" ELSE work}
    /\ UNCHANGED <<kinds, row, drain, hold, proc, faults>>

\* The platform takes it, disk and all (a lifetime cap, a lost node).
PlatformEnds ==
    /\ exec # "missing"
    /\ exec' = "missing" /\ endedBy' = "platform"
    /\ UNCHANGED <<kinds, row, drain, hold, work, proc, faults>>

-----------------------------------------------------------------------------
Moves(p) ==
    \/ Inspect(p)
    \/ Drain(p) \/ DrainUnconfirmed(p) \/ DrainSilent(p) \/ DrainGone(p)
    \/ DrainRefused(p)
    \/ Settle(p) \/ HeldElsewhere(p) \/ AuthorizeDeletion(p) \/ AllowUnheld(p) \/ Keep(p)
    \/ MarkStopRequested(p) \/ RecordKept(p) \/ RecordEnd(p) \/ GiveUp(p) \/ SettleRecord(p)
    \/ Issue(p) \/ Voided(p) \/ Call(p) \/ CallRefused(p) \/ CallLost(p)
    \/ RecordStopped(p) \/ RemoveRemains(p) \/ MarkRemoved(p) \/ Complete(p) \/ Observe(p)

Begins(p) == BeginStop(p) \/ ListReady(p) \/ ListUnsettled(p) \/ ListRemains(p)

ExitNext ==
    \/ \E p \in Process : Begins(p) \/ Moves(p) \/ Dies(p)
    \/ BeginRecovery \/ Boot
    \/ LapseHold \/ NewEvidence \/ EvidenceArrives \/ RequestDiscard
    \/ ExecutorEnds \/ PlatformEnds

ExitSpec == ExitInit /\ [][ExitNext]_vars

(***************************************************************************)
(* What the scheduling justifies: calls are bounded, leases lapse, and the *)
(* reconciler polls.  Nobody need ever ask for a stop, but the reaper asks *)
(* for one of every retained launch.                                       *)
(***************************************************************************)
ExitFairness ==
    /\ \A p \in Stop : WF_vars(Moves(p) \/ (code = "launch-retained" /\ BeginStop(p)))
    /\ \A p \in Pass : WF_vars(Moves(p) \/ ListReady(p) \/ ListUnsettled(p))
    /\ \A p \in Pass : WF_vars(ListRemains(p))
    /\ WF_vars(Moves(Recovery) \/ BeginRecovery \/ Boot)
    /\ WF_vars(LapseHold)

FairExitSpec == ExitSpec /\ ExitFairness

-----------------------------------------------------------------------------
\* Somebody is at work on the run.
Attended == \E p \in Process : proc[p].at # "idle"

\* Some sweep will look at it again: the poll of ready rows, the reaper of
\* retained launches, the recovery, or one of the reconciler's two sweeps.
Listed ==
    \/ status = "ready"
    \/ status = "failed" /\ code = "launch-retained"
    \/ retained \/ Unsettled \/ StoppedWithRemains

\* An executor that may hold the only copy of its run's work is in some sweep's
\* list in every state: no interleaving of stops, passes and recoveries, dying
\* anywhere, leaves one that every later sweep passes over
\* (withRetention, listUnsettledCaptureExecutors, listStoppedWithRemains).
EndedIsFollowed ==
    captures /\ work # "recorded" /\ exec # "missing" => Listed

\* And one whose work is on record is out of every list in two cases only: of a
\* retained launch that was stopped (SweptWhateverItsCode), and where a stop took
\* it down and neither its remains could be removed nor the removal be recorded
\* (removeStoppedRemains, completeDeletion).
UnlistedIsSaved ==
    captures /\ exec # "missing" /\ ~Listed =>
        /\ work = "recorded"
        /\ code # "launch-retained" => status = "stopped" /\ keeps /\ deletion = "issued"

\* "every sweep also looks again at each ended capture executor nothing settled -
\* `failed` or `stopped` with no retention and no removal recorded, whatever its
\* earlier status" (reconcile-runtime-exits.ts:47).
SweptWhateverItsCode ==
    captures /\ exec = "exited" /\ ~removed /\ ~Attended => Listed

\* An executor a stop ended is never recorded as having crashed, however the
\* stop and the passes that see it gone interleave
\* (markStopRequested, markExited's fence).
PlannedStopIsNoCrash ==
    [][status = "ready" /\ status' = "failed" => endedBy # "stop"]_vars

\* A capture executor's disk goes only with its work on record as saved, or
\* given up by its owner - or the platform takes it: neither sweep, no stop and
\* no recovery removes the only copy.
OnlySavedIsRemoved ==
    [][captures /\ exec # "missing" /\ exec' = "missing"
         => work = "recorded" \/ discard \/ endedBy' = "platform"]_vars

\* A row says stopped of no executor that runs, but one the recovery has up:
\* it would be nobody's (stopRuntime's order: the call first, then the record).
StoppedRunsNoMore == status = "stopped" /\ ~retained => exec # "running"

\* Work is called lost only when the platform took it, whoever looked and
\* however late: never of an executor some other path removed on evidence.  (A
\* discarded one is nobody's loss.)
LostOnlyIfLost == ledger = "gone" => endedBy = "platform" \/ discard

\* An executor that ended and may go is removed in the end, whoever died over
\* it; not of a retained launch that was stopped: see SweptWhateverItsCode.
SavedRemainsGo ==
    captures /\ code # "launch-retained" /\ exec = "exited" /\ (work = "recorded" \/ discard)
        ~> exec = "missing"

-----------------------------------------------------------------------------
(***************************************************************************)
(* The executor as its owner sees it.                                      *)
(***************************************************************************)

\* Its removal is under way from the request on, until it is refused; one that
\* is recorded done may have left its disk.
CustodyNow ==
    IF exec = "missing" THEN "gone"
    ELSE IF deletion \in {"issued", "deleted"} THEN "removing" ELSE "kept"

Custody == INSTANCE ExecutorCustody WITH
    verdict <- IF work = "recorded" THEN "saved" ELSE "unknown",
    custody <- CustodyNow,
    discard <- discard \/ ~captures,
    lost    <- endedBy = "platform"

\* However stops, passes and recoveries interleave, fail and die over it, an
\* executor is removed only from the moment its work is on record as saved, is
\* not heard, drained or booted again while it is, and is given back when that
\* comes to nothing - or its owner gave it up, or its platform took it
\* (authorizedDeletion, settleIssuedRemoval, removeUnderDeletion).
ImplementsCustody == Custody!CustodySpec

=============================================================================
