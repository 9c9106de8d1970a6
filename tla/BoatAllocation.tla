--------------------------- MODULE BoatAllocation ---------------------------
(***************************************************************************)
(* The one sandbox a run on Boat may get, from the publication it acquired *)
(* (NativeCatalog).  A driver is one call of drive, by the launch or by    *)
(* the reconciler: it goes by the record it loaded, and every advance of   *)
(* the record compares with that.  A driver stops at any point: a call     *)
(* fails or times out, an advance is stale, its process dies.  What it     *)
(* asked of the provider may be carried out all the same, at any time.     *)
(***************************************************************************)
EXTENDS NativeCatalog

CONSTANT Driver

VARIABLES
    alloc,      \* boat_allocations: the record's phase, "none" without a row
    run,        \* the run's row: pending, stopped, or "none" without one
    request,    \* the provider's create under the record's idempotency key
    at,         \* per driver: where it stands
    of,         \* per driver: whose allocation it drives
    seen,       \* per driver: the phase of the record it goes by
    exchanged   \* the runs whose sandbox was bootstrapped

allocVars      == <<alloc, run, request, exchanged>>
driverVars     == <<at, of, seen>>
allocationVars == <<catalogVars, allocVars, driverVars>>

AllocPhase == {"none", "reserved", "issued", "allocated", "bound", "held"}
DrivePoint == {"idle", "driving", "checking", "issuing", "creating", "waiting",
               "discovering", "placed", "binding", "exchanging"}

\* The types, and the phases that go with what the provider was asked for
\* (BoatAllocationRepo.reserve, advance).
AllocationTypeOK ==
    /\ CatalogTypeOK
    /\ alloc \in [Consumer -> AllocPhase]
    /\ run \in [Consumer -> {"none", "pending", "stopped"}]
    /\ request \in [Consumer -> {"none", "sent", "made", "refused"}]
    /\ exchanged \in SUBSET Consumer
    /\ at \in [Driver -> DrivePoint] /\ of \in [Driver -> Consumer \cup {Nobody}]
    /\ seen \in [Driver -> AllocPhase]
    /\ \A c \in Consumer :
        /\ (run[c] = "none") = (alloc[c] = "none")
        /\ request[c] # "none" => alloc[c] \notin {"none", "reserved"}
        /\ alloc[c] \in {"allocated", "bound"} => request[c] = "made"
        /\ c \in exchanged => alloc[c] = "bound"

AllocationInit ==
    /\ CatalogInit
    /\ alloc = [c \in Consumer |-> "none"]
    /\ run = [c \in Consumer |-> "none"]
    /\ request = [c \in Consumer |-> "none"]
    /\ exchanged = {}
    /\ at = [d \in Driver |-> "idle"]
    /\ of = [d \in Driver |-> Nobody]
    /\ seen = [d \in Driver |-> "none"]

Drives(d, c, point) == at[d] = point /\ of[d] = c

DriveTo(d, point) == at' = [at EXCEPT ![d] = point]

\* isActive.
IsActive(c) == run[c] = "pending"

-----------------------------------------------------------------------------
\* The phases the code lets follow one another.
Transitions ==
    [none |-> {"reserved"}, reserved |-> {"issued", "held"}, issued |-> {"allocated", "held"},
     allocated |-> {"bound", "held"}, bound |-> {}, held |-> {}]

\* Mutant: the record is advanced whatever it is by now.
Advance_Unchecked(d, c, next) ==
    /\ next \in Transitions[seen[d]]
    /\ alloc' = [alloc EXCEPT ![c] = next]
    /\ seen' = [seen EXCEPT ![d] = next]

\* advance, from the record the driver goes by.
Advance(d, c, next) ==
    /\ next \in Transitions[seen[d]] /\ alloc[c] = seen[d]
    /\ alloc' = [alloc EXCEPT ![c] = next]
    /\ seen' = [seen EXCEPT ![d] = next]

MayReserve(c) == c \in served /\ state = "ready" /\ pin[c] = "pinned"

\* prepare, the first time: the allocation and the run's pending row.
ReserveAllocation(d, c) ==
    /\ at[d] = "idle" /\ alloc[c] = "none"
    /\ MayReserve(c)
    /\ alloc' = [alloc EXCEPT ![c] = "reserved"]
    /\ run' = [run EXCEPT ![c] = "pending"]
    /\ of' = [of EXCEPT ![d] = c] /\ seen' = [seen EXCEPT ![d] = "reserved"]
    /\ DriveTo(d, "driving")
    /\ UNCHANGED <<catalogVars, request, exchanged>>

\* prepare again, or reconcile: drive goes by the record it loads.
Load(d, c) ==
    /\ at[d] = "idle" /\ alloc[c] \notin {"none", "held"}
    /\ of' = [of EXCEPT ![d] = c] /\ seen' = [seen EXCEPT ![d] = alloc[c]]
    /\ DriveTo(d, CASE alloc[c] = "reserved" -> "driving"
                    [] alloc[c] = "issued"   -> "discovering"
                    [] OTHER                 -> "placed")
    /\ UNCHANGED <<catalogVars, allocVars>>

\* A reservation whose run was stopped creates nothing any more.
HoldStopped(d, c) ==
    /\ Drives(d, c, "driving") /\ ~IsActive(c)
    /\ Advance(d, c, "held")
    /\ DriveTo(d, "idle")
    /\ UNCHANGED <<catalogVars, run, request, exchanged, of>>

FindActive(d, c) ==
    /\ Drives(d, c, "driving") /\ IsActive(c)
    /\ DriveTo(d, "checking")
    /\ UNCHANGED <<catalogVars, allocVars, of, seen>>

\* getSnapshot.
CheckSource(d, c) ==
    /\ Drives(d, c, "checking") /\ snapshot = "saved"
    /\ DriveTo(d, "issuing")
    /\ UNCHANGED <<catalogVars, allocVars, of, seen>>

\* Mutant: what was read before the snapshot was checked is taken for granted.
MayIssue_Assumed(c) == state = "ready"

MayIssue(c) == state = "ready" /\ IsActive(c)

\* The one transition whose winner may create.
Issue(d, c) ==
    /\ Drives(d, c, "issuing")
    /\ MayIssue(c)
    /\ Advance(d, c, "issued")
    /\ DriveTo(d, "creating")
    /\ UNCHANGED <<catalogVars, run, request, exchanged, of>>

Create(d, c) ==
    /\ Drives(d, c, "creating")
    /\ request' = [request EXCEPT ![c] = "sent"]
    /\ DriveTo(d, "waiting")
    /\ UNCHANGED <<catalogVars, alloc, run, exchanged, of, seen>>

\* Mutant: a stopped run's sandbox is not recorded.
RecordSandbox_Active(d, c) ==
    /\ Drives(d, c, "waiting") \/ Drives(d, c, "discovering")
    /\ request[c] = "made" /\ IsActive(c)
    /\ Advance(d, c, "allocated")
    /\ DriveTo(d, "placed")
    /\ UNCHANGED <<catalogVars, run, request, exchanged, of>>

\* The create's answer, or a match found of one that was lost.
RecordSandbox(d, c) ==
    /\ Drives(d, c, "waiting") \/ Drives(d, c, "discovering")
    /\ request[c] = "made"
    /\ Advance(d, c, "allocated")
    /\ DriveTo(d, "placed")
    /\ UNCHANGED <<catalogVars, run, request, exchanged, of>>

\* The sandbox would not live as long as its session.
HoldUnverified(d, c) ==
    /\ Drives(d, c, "placed")
    /\ Advance(d, c, "held")
    /\ DriveTo(d, "idle")
    /\ UNCHANGED <<catalogVars, run, request, exchanged, of>>

\* Mutant: a sandbox that was found is bound whatever became of its run.
BindActive_Any(d, c) ==
    /\ Drives(d, c, "placed")
    /\ DriveTo(d, "binding")
    /\ UNCHANGED <<catalogVars, allocVars, of, seen>>

BindActive(d, c) ==
    /\ Drives(d, c, "placed") /\ IsActive(c)
    /\ DriveTo(d, "binding")
    /\ UNCHANGED <<catalogVars, allocVars, of, seen>>

\* The target is on record before it is bootstrapped.
Bind(d, c) ==
    /\ Drives(d, c, "binding")
    /\ \/ seen[d] = "allocated" /\ Advance(d, c, "bound")
       \/ seen[d] = "bound" /\ UNCHANGED <<alloc, seen>>
    /\ DriveTo(d, "exchanging")
    /\ UNCHANGED <<catalogVars, run, request, exchanged, of>>

Exchange(d, c) ==
    /\ Drives(d, c, "exchanging")
    /\ exchanged' = exchanged \cup {c}
    /\ DriveTo(d, "idle")
    /\ UNCHANGED <<catalogVars, alloc, run, request, of, seen>>

DriverStops(d) ==
    /\ at[d] # "idle"
    /\ DriveTo(d, "idle")
    /\ UNCHANGED <<catalogVars, allocVars, of, seen>>

-----------------------------------------------------------------------------
\* The provider creates from the snapshot, or does not.
ProviderCreates(c) ==
    /\ request[c] = "sent"
    /\ \/ snapshot = "saved" /\ request' = [request EXCEPT ![c] = "made"]
       \/ request' = [request EXCEPT ![c] = "refused"]
    /\ UNCHANGED <<catalogVars, alloc, run, exchanged, driverVars>>

\* markStopped, or a stop reason on a row that is still pending.
Stop(c) ==
    /\ run[c] = "pending"
    /\ run' = [run EXCEPT ![c] = "stopped"]
    /\ UNCHANGED <<catalogVars, alloc, request, exchanged, driverVars>>

\* Mutant: a publication is released whatever was allocated from it.
MayRelease_Allocated(c) == TRUE

\* A consumer with an allocation is not released.
MayRelease(c) == alloc[c] = "none"

ReleaseConsumer(c) ==
    /\ MayRelease(c)
    /\ Release(c)
    /\ UNCHANGED <<allocVars, driverVars>>

CatalogStep ==
    /\ LapseClaim \/ ProviderStep \/ \E p \in Pass : PassStep(p)
    /\ UNCHANGED <<allocVars, driverVars>>

DriverStep(d, c) ==
    \/ ReserveAllocation(d, c) \/ Load(d, c) \/ HoldStopped(d, c) \/ FindActive(d, c)
    \/ CheckSource(d, c) \/ Issue(d, c) \/ Create(d, c) \/ RecordSandbox(d, c)
    \/ HoldUnverified(d, c) \/ BindActive(d, c) \/ Bind(d, c) \/ Exchange(d, c)

AllocationNext ==
    \/ CatalogStep
    \/ \E d \in Driver : DriverStops(d) \/ \E c \in Consumer : DriverStep(d, c)
    \/ \E c \in Consumer : ProviderCreates(c) \/ Stop(c) \/ ReleaseConsumer(c)

AllocationSpec == AllocationInit /\ [][AllocationNext]_allocationVars

(***************************************************************************)
(* The reconciler's tick walks every allocation and bounds each call of    *)
(* drive; the provider's inventory answers again and again.                *)
(***************************************************************************)
AllocationFairness ==
    /\ \A d \in Driver : WF_allocationVars(DriverStops(d))
    /\ \A c \in Consumer :
        /\ WF_allocationVars(\E d \in Driver : Load(d, c))
        /\ SF_allocationVars(\E d \in Driver : RecordSandbox(d, c))

FairAllocationSpec == AllocationSpec /\ AllocationFairness

-----------------------------------------------------------------------------
\* Create is asked for once: whoever retries, however late, only looks for what
\* the first one made (advance to issued, drive).
CreatedOnce ==
    [][\A d \in Driver : at'[d] = "waiting" /\ at[d] # "waiting"
            => request[of[d]] = "none"]_allocationVars

\* What an allocation was made from, or may still be, is kept: its consumer
\* stays pinned and the snapshot is neither deleted nor about to be
\* (reserve, changeConsumer, retire).
AllocationKeepsSource ==
    \A c \in Consumer : alloc[c] # "none" => pin[c] = "pinned" /\ snapshot = "saved" /\ ~doomed

\* boat-allocation-reconciliation.md: a reservation stopped before issuance
\* never creates, though its driver found it active before (drive, advance).
StoppedNeverCreates ==
    \A c \in Consumer :
        [](run[c] = "stopped" /\ alloc[c] = "reserved" => [](request[c] = "none"))

\* boat-allocation-reconciliation.md: an issued request whose run is stopped is
\* still discovered, and cannot exchange (drive, isActive).
StoppedNeverExchanges ==
    \A c \in Consumer :
        [](run[c] = "stopped" /\ alloc[c] = "issued" => [](c \notin exchanged))

\* A sandbox the provider made is on record in the end, though the answer was
\* lost, the driver died and the run was stopped (drive, reconcile).
SandboxIsFound ==
    \A c \in Consumer : request[c] = "made" ~> alloc[c] \in {"allocated", "bound", "held"}

=============================================================================
