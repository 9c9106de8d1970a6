------------------------- MODULE BoatAllocationProofs -------------------------
(***************************************************************************)
(* Theorems about BoatAllocation, for any runs, passes and drivers.        *)
(*                                                                         *)
(* The argument: every step leaves the catalog as one of its own would, so *)
(* what NativeCatalogProofs shows holds here too; an allocation is of a    *)
(* consumer that was given the publication and is never released           *)
(* (RecordInv); and since an advance compares the record with what its     *)
(* driver saw, one driver at most comes to create (DriverInv, OneCreator). *)
(***************************************************************************)
EXTENDS BoatAllocation, NativeCatalogProofs

AllocTypes ==
    /\ alloc \in [Consumer -> AllocPhase]
    /\ run \in [Consumer -> {"none", "pending", "stopped"}]
    /\ request \in [Consumer -> {"none", "sent", "made", "refused"}]
    /\ exchanged \in SUBSET Consumer
    /\ at \in [Driver -> DrivePoint] /\ of \in [Driver -> Consumer \cup {Nobody}]
    /\ seen \in [Driver -> AllocPhase]

RecordInv ==
    \A c \in Consumer :
        /\ (run[c] = "none") = (alloc[c] = "none")
        /\ request[c] # "none" => alloc[c] \notin {"none", "reserved"}
        /\ alloc[c] \in {"allocated", "bound"} => request[c] = "made"
        /\ c \in exchanged => alloc[c] = "bound"

SourceInv == \A c \in Consumer : alloc[c] # "none" => c \in served /\ pin[c] = "pinned"

\* How far the record is by each point of a driver, and what the driver saw of it.
DriverInv ==
    \A d \in Driver : at[d] # "idle" =>
        /\ of[d] \in Consumer /\ alloc[of[d]] # "none"
        /\ at[d] \in {"driving", "checking", "issuing"} => seen[d] = "reserved"
        /\ at[d] = "creating" => alloc[of[d]] = "issued" /\ request[of[d]] = "none"
        /\ at[d] \in {"creating", "waiting", "discovering"} =>
              seen[d] = "issued" /\ alloc[of[d]] # "reserved"
        /\ at[d] \in {"placed", "binding", "exchanging"} =>
              /\ seen[d] \in {"allocated", "bound"}
              /\ alloc[of[d]] \in {"allocated", "bound", "held"}
        /\ at[d] = "exchanging" => seen[d] = "bound"
        /\ seen[d] = "bound" => alloc[of[d]] = "bound"

OneCreator ==
    \A d, e \in Driver :
        at[d] = "creating" /\ at[e] = "creating" /\ of[d] = of[e] => d = e

AllocationInv == AllocTypes /\ RecordInv /\ SourceInv /\ DriverInv /\ OneCreator

\* A run stopped before its reservation was issued, from then on.
NeverIssued(c) ==
    /\ run[c] = "stopped" /\ alloc[c] \in {"reserved", "held"} /\ request[c] = "none"
    /\ \A d \in Driver : ~Drives(d, c, "creating")

\* A run stopped before its sandbox was on record, from then on.
NeverBound(c) ==
    /\ run[c] = "stopped" /\ alloc[c] \in {"issued", "allocated", "held"} /\ c \notin exchanged
    /\ \A d \in Driver : ~Drives(d, c, "binding") /\ ~Drives(d, c, "exchanging")

-----------------------------------------------------------------------------
(***************************************************************************)
(* The catalog, as its consumers' allocations leave it.                    *)
(***************************************************************************)

\* A call of the catalog takes no publication back from a consumer.
LEMMA PassKeepsPins ==
  ASSUME NEW p \in Pass, PassStep(p), pin \in [Consumer -> {"none", "pinned", "released"}],
         NEW c \in Consumer, c \in served, pin[c] = "pinned"
  PROVE  c \in served' /\ pin'[c] = "pinned"
<1> USE DEF rowVars, claimVars, builderVars, passVars, Serve
<1>1. ASSUME NEW d \in Consumer, Reserve(p, d) PROVE c \in served' /\ pin'[c] = "pinned"
  BY <1>1 DEF Reserve
<1>2. ASSUME NEW for \in Purpose, TakeClaim(p, for) PROVE c \in served' /\ pin'[c] = "pinned"
  BY <1>2 DEF TakeClaim
<1>3. QED
  BY <1>1, <1>2
  DEF PassStep, Reconcile, Reap, CheckJournal, LookForSnapshot, RejectReady, Busy, NeverStarts,
      StartBuild, AskToSave, FinishBuild, BuildFails, StartRecovery, AskToDiscard, Recover,
      StartExamination, Examine, Publish, Quarantine, Retire, StartRemoval, AskToDelete,
      EndRemoval, Removed, PassDies

\* With allocations made from it, the catalog is still the catalog: a driver
\* leaves it alone, and a release is a release.
THEOREM AllocationImplementsCatalog == AllocationSpec => CatalogSpec
<1>1. AllocationInit => CatalogInit
  BY DEF AllocationInit
<1>2. [AllocationNext]_allocationVars => [CatalogNext]_catalogVars
  <2> SUFFICES ASSUME [AllocationNext]_allocationVars PROVE [CatalogNext]_catalogVars
    OBVIOUS
  <2>1. CASE CatalogStep
    BY <2>1 DEF CatalogStep, CatalogNext
  <2>2. ASSUME NEW d \in Driver, DriverStops(d) PROVE UNCHANGED catalogVars
    BY <2>2 DEF DriverStops
  <2>3. ASSUME NEW d \in Driver, NEW c \in Consumer, DriverStep(d, c) PROVE UNCHANGED catalogVars
    BY <2>3 DEF DriverStep, ReserveAllocation, Load, HoldStopped, FindActive, CheckSource, Issue,
         Create, RecordSandbox, HoldUnverified, BindActive, Bind, Exchange
  <2>4. ASSUME NEW c \in Consumer, ProviderCreates(c) \/ Stop(c) \/ ReleaseConsumer(c)
        PROVE  [CatalogNext]_catalogVars
    BY <2>4 DEF ProviderCreates, Stop, ReleaseConsumer, CatalogNext
  <2>5. QED
    BY <2>1, <2>2, <2>3, <2>4 DEF AllocationNext, allocationVars
<1>3. QED
  BY <1>1, <1>2, PTL DEF AllocationSpec, CatalogSpec

-----------------------------------------------------------------------------
(***************************************************************************)
(* The invariant.                                                          *)
(***************************************************************************)

\* Initially nothing is allocated.
LEMMA AllocationInitially == AllocationInit => AllocationInv
  BY CatalogAssumption
  DEF AllocationInit, CatalogInit, AllocationInv, AllocTypes, RecordInv, SourceInv, DriverInv,
      OneCreator, AllocPhase, DrivePoint

\* Every step of a driver preserves the invariant.
LEMMA DriverKeeps ==
  ASSUME AllocationInv, NEW d \in Driver, NEW c \in Consumer, DriverStep(d, c)
  PROVE  AllocationInv'
<1> USE CatalogAssumption
     DEF AllocationInv, AllocTypes, RecordInv, SourceInv, DriverInv, OneCreator,
         AllocPhase, DrivePoint, Transitions, Drives, DriveTo, Advance, IsActive,
         catalogVars, rowVars, claimVars, builderVars, passVars, allocVars, driverVars
<1>1. CASE ReserveAllocation(d, c)
  BY <1>1 DEF ReserveAllocation, MayReserve
<1>2. CASE Load(d, c)
  BY <1>2 DEF Load
<1>3. CASE HoldStopped(d, c)
  BY <1>3 DEF HoldStopped
<1>4. CASE FindActive(d, c)
  BY <1>4 DEF FindActive
<1>5. CASE CheckSource(d, c)
  BY <1>5 DEF CheckSource
<1>6. CASE Issue(d, c)
  BY <1>6 DEF Issue, MayIssue
<1>7. CASE Create(d, c)
  BY <1>7 DEF Create
<1>8. CASE RecordSandbox(d, c)
  BY <1>8 DEF RecordSandbox
<1>9. CASE HoldUnverified(d, c)
  BY <1>9 DEF HoldUnverified
<1>10. CASE BindActive(d, c)
  BY <1>10 DEF BindActive
<1>11. CASE Bind(d, c)
  BY <1>11 DEF Bind
<1>12. CASE Exchange(d, c)
  BY <1>12 DEF Exchange
<1>13. QED
  BY DriverStep(d, c), <1>1, <1>2, <1>3, <1>4, <1>5, <1>6, <1>7, <1>8, <1>9, <1>10, <1>11, <1>12 DEF DriverStep

\* So do a driver that stops, the provider, a stopped run and a release.
LEMMA OthersKeep ==
  ASSUME AllocationInv,
         \/ \E d \in Driver : DriverStops(d)
         \/ \E c \in Consumer : ProviderCreates(c) \/ Stop(c) \/ ReleaseConsumer(c)
  PROVE  AllocationInv'
<1> USE CatalogAssumption
     DEF AllocationInv, AllocTypes, RecordInv, SourceInv, DriverInv, OneCreator,
         AllocPhase, DrivePoint, Transitions, Drives, DriveTo, Advance, IsActive,
         catalogVars, rowVars, claimVars, builderVars, passVars, allocVars, driverVars
<1>1. ASSUME NEW d \in Driver, DriverStops(d) PROVE AllocationInv'
  BY <1>1 DEF DriverStops
<1>2. ASSUME NEW c \in Consumer, ProviderCreates(c) PROVE AllocationInv'
  BY <1>2 DEF ProviderCreates
<1>3. ASSUME NEW c \in Consumer, Stop(c) PROVE AllocationInv'
  BY <1>3 DEF Stop
<1>4. ASSUME NEW c \in Consumer, ReleaseConsumer(c) PROVE AllocationInv'
  BY <1>4 DEF ReleaseConsumer, MayRelease, Release
<1>5. QED
  BY <1>1, <1>2, <1>3, <1>4

\* So does the catalog, whose consumers it leaves pinned.
LEMMA CatalogKeeps ==
  ASSUME AllocationInv, CatalogTypeOK, CatalogStep
  PROVE  AllocationInv'
<1>1. SourceInv'
  <2>1. ASSUME NEW c \in Consumer, alloc'[c] # "none"
        PROVE  c \in served' /\ pin'[c] = "pinned"
    <3>1. c \in served /\ pin[c] = "pinned"
      BY <2>1 DEF CatalogStep, AllocationInv, SourceInv, allocVars
    <3>2. pin \in [Consumer -> {"none", "pinned", "released"}]
      BY DEF CatalogTypeOK, CatalogTypes
    <3>3. ASSUME NEW p \in Pass, PassStep(p) PROVE c \in served' /\ pin'[c] = "pinned"
      BY <3>1, <3>2, <3>3, PassKeepsPins
    <3>4. QED
      BY <3>1, <3>3 DEF CatalogStep, LapseClaim, ProviderStep, ProviderSaves, ProviderDeletes
  <2>2. QED
    BY <2>1 DEF SourceInv
<1>2. AllocTypes' /\ RecordInv' /\ DriverInv' /\ OneCreator'
  BY DEF CatalogStep, AllocationInv, AllocTypes, RecordInv, DriverInv, OneCreator, allocVars,
         driverVars
<1>3. QED
  BY <1>1, <1>2 DEF AllocationInv

\* The invariant holds at every step.
THEOREM AllocationInvariant == AllocationSpec => []AllocationInv
<1>1. ASSUME AllocationInv, CatalogTypeOK, [AllocationNext]_allocationVars
      PROVE  AllocationInv'
  <2>1. CASE UNCHANGED allocationVars
    BY <1>1, <2>1 DEF AllocationInv, AllocTypes, RecordInv, SourceInv, DriverInv, OneCreator,
         allocationVars, catalogVars, allocVars, driverVars
  <2>2. QED
    BY <1>1, <2>1, CatalogKeeps, DriverKeeps, OthersKeep DEF AllocationNext
<1>2. QED
  BY AllocationInitially, AllocationImplementsCatalog, CatalogTypeCorrect, <1>1, PTL
  DEF AllocationSpec

\* AllocationTypeOK of every state.
THEOREM AllocationTypeCorrect == AllocationSpec => []AllocationTypeOK
<1>1. AllocationInv /\ CatalogTypeOK => AllocationTypeOK
  BY DEF AllocationInv, AllocTypes, RecordInv, AllocationTypeOK
<1>2. QED
  BY AllocationInvariant, AllocationImplementsCatalog, CatalogTypeCorrect, <1>1, PTL

\* AllocationKeepsSource of every state: an allocation is of a consumer that was
\* given the publication and is still pinned, and so the catalog keeps it.
THEOREM SourceIsAlwaysKept == AllocationSpec => []AllocationKeepsSource
<1>1. AllocationInv /\ GivenIsKept => AllocationKeepsSource
  BY DEF AllocationInv, SourceInv, GivenIsKept, AllocationKeepsSource
<1>2. QED
  BY AllocationInvariant, AllocationImplementsCatalog, GivenIsAlwaysKept, <1>1, PTL

\* CreatedOnce of every step: the advance to issued is won once, and its winner
\* has not asked the provider before.
THEOREM CreatedAtMostOnce == AllocationSpec => CreatedOnce
<1>1. AllocationInv /\ [AllocationNext]_allocationVars =>
        [\A d \in Driver : at'[d] = "waiting" /\ at[d] # "waiting"
            => request[of[d]] = "none"]_allocationVars
  <2> SUFFICES ASSUME AllocationInv, AllocationNext, NEW d \in Driver,
                      at'[d] = "waiting", at[d] # "waiting"
               PROVE  request[of[d]] = "none"
    OBVIOUS
  <2> USE DEF AllocationInv, AllocTypes, DriverInv, Drives, DriveTo
  <2>1. ASSUME NEW e \in Driver, NEW c \in Consumer, DriverStep(e, c)
        PROVE  request[of[d]] = "none"
    BY <2>1 DEF DriverStep, ReserveAllocation, Load, HoldStopped, FindActive, CheckSource, Issue,
         Create, RecordSandbox, HoldUnverified, BindActive, Bind, Exchange
  <2>2. ASSUME NEW e \in Driver, DriverStops(e) PROVE FALSE
    BY <2>2 DEF DriverStops
  <2>3. QED
    BY <2>1, <2>2 DEF AllocationNext, CatalogStep, ProviderCreates, Stop, ReleaseConsumer,
         driverVars
<1>2. QED
  BY AllocationInvariant, <1>1, PTL DEF AllocationSpec, CreatedOnce

-----------------------------------------------------------------------------
\* A run stopped before issuance stays so: issuing asks whether it is active.
LEMMA NeverIssuedStays ==
  ASSUME AllocationInv, [AllocationNext]_allocationVars, NEW c \in Consumer, NeverIssued(c)
  PROVE  NeverIssued(c)'
<1> USE CatalogAssumption
     DEF AllocationInv, AllocTypes, RecordInv, DriverInv, OneCreator, Drives, NeverIssued, DriveTo,
         Advance, Transitions, IsActive, allocVars, driverVars
<1>1. ASSUME NEW d \in Driver, NEW b \in Consumer, DriverStep(d, b) PROVE NeverIssued(c)'
  <2>1. CASE ReserveAllocation(d, b) \/ Load(d, b) \/ HoldStopped(d, b) \/ FindActive(d, b)
    BY <2>1 DEF ReserveAllocation, Load, HoldStopped, FindActive
  <2>2. CASE CheckSource(d, b) \/ Issue(d, b) \/ Create(d, b) \/ RecordSandbox(d, b)
    BY <2>2 DEF CheckSource, Issue, MayIssue, Create, RecordSandbox
  <2>3. CASE HoldUnverified(d, b) \/ BindActive(d, b) \/ Bind(d, b) \/ Exchange(d, b)
    BY <2>3 DEF HoldUnverified, BindActive, Bind, Exchange
  <2>4. QED
    BY <1>1, <2>1, <2>2, <2>3 DEF DriverStep
<1>2. ASSUME NEW d \in Driver, DriverStops(d) PROVE NeverIssued(c)'
  BY <1>2 DEF DriverStops
<1>3. ASSUME NEW b \in Consumer, ProviderCreates(b) \/ Stop(b) \/ ReleaseConsumer(b)
      PROVE  NeverIssued(c)'
  BY <1>3 DEF ProviderCreates, Stop, ReleaseConsumer
<1>4. CASE CatalogStep \/ UNCHANGED allocationVars
  BY <1>4 DEF CatalogStep, allocationVars
<1>5. QED
  BY <1>1, <1>2, <1>3, <1>4 DEF AllocationNext

\* StoppedNeverCreates: whichever driver comes, whatever it found before.
THEOREM StoppedCreatesNothing == AllocationSpec => StoppedNeverCreates
<1>1. ASSUME NEW c \in Consumer
      PROVE  AllocationSpec => [](run[c] = "stopped" /\ alloc[c] = "reserved" => [](request[c] = "none"))
  <2>1. AllocationInv /\ run[c] = "stopped" /\ alloc[c] = "reserved" => NeverIssued(c)
    BY DEF AllocationInv, RecordInv, DriverInv, Drives, NeverIssued
  <2>2. AllocationInv /\ [AllocationNext]_allocationVars /\ NeverIssued(c) => NeverIssued(c)'
    BY NeverIssuedStays
  <2>3. NeverIssued(c) => request[c] = "none"
    BY DEF NeverIssued
  <2>4. QED
    BY AllocationInvariant, <2>1, <2>2, <2>3, PTL DEF AllocationSpec
<1>2. QED
  BY <1>1 DEF StoppedNeverCreates

-----------------------------------------------------------------------------
\* A run stopped before its sandbox is on record is never bound.
LEMMA NeverBoundStays ==
  ASSUME AllocationInv, [AllocationNext]_allocationVars, NEW c \in Consumer, NeverBound(c)
  PROVE  NeverBound(c)'
<1> USE CatalogAssumption
     DEF AllocationInv, AllocTypes, RecordInv, DriverInv, OneCreator, Drives, NeverBound, DriveTo,
         Advance, Transitions, IsActive, allocVars, driverVars
<1>1. ASSUME NEW d \in Driver, NEW b \in Consumer, DriverStep(d, b) PROVE NeverBound(c)'
  <2>1. CASE ReserveAllocation(d, b) \/ Load(d, b) \/ HoldStopped(d, b) \/ FindActive(d, b)
    BY <2>1 DEF ReserveAllocation, Load, HoldStopped, FindActive
  <2>2. CASE CheckSource(d, b) \/ Issue(d, b) \/ Create(d, b) \/ RecordSandbox(d, b)
    BY <2>2 DEF CheckSource, Issue, MayIssue, Create, RecordSandbox
  <2>3. CASE HoldUnverified(d, b) \/ BindActive(d, b) \/ Bind(d, b) \/ Exchange(d, b)
    BY <2>3 DEF HoldUnverified, BindActive, Bind, Exchange
  <2>4. QED
    BY <1>1, <2>1, <2>2, <2>3 DEF DriverStep
<1>2. ASSUME NEW d \in Driver, DriverStops(d) PROVE NeverBound(c)'
  BY <1>2 DEF DriverStops
<1>3. ASSUME NEW b \in Consumer, ProviderCreates(b) \/ Stop(b) \/ ReleaseConsumer(b)
      PROVE  NeverBound(c)'
  BY <1>3 DEF ProviderCreates, Stop, ReleaseConsumer
<1>4. CASE CatalogStep \/ UNCHANGED allocationVars
  BY <1>4 DEF CatalogStep, allocationVars
<1>5. QED
  BY <1>1, <1>2, <1>3, <1>4 DEF AllocationNext

\* StoppedNeverExchanges: the sandbox is put on record, and left alone.
THEOREM StoppedExchangesNothing == AllocationSpec => StoppedNeverExchanges
<1>1. ASSUME NEW c \in Consumer
      PROVE  AllocationSpec => [](run[c] = "stopped" /\ alloc[c] = "issued" => [](c \notin exchanged))
  <2>1. AllocationInv /\ run[c] = "stopped" /\ alloc[c] = "issued" => NeverBound(c)
    BY DEF AllocationInv, RecordInv, DriverInv, Drives, NeverBound
  <2>2. AllocationInv /\ [AllocationNext]_allocationVars /\ NeverBound(c) => NeverBound(c)'
    BY NeverBoundStays
  <2>3. NeverBound(c) => c \notin exchanged
    BY DEF NeverBound
  <2>4. QED
    BY AllocationInvariant, <2>1, <2>2, <2>3, PTL DEF AllocationSpec
<1>2. QED
  BY <1>1 DEF StoppedNeverExchanges

\* The catalog's promise is kept to the consumers whose sandboxes are made, too:
\* with allocations, the publication is still lent as PublicationLending says.
THEOREM AllocationIsLending == AllocationSpec => ImplementsLending
  BY AllocationImplementsCatalog, CatalogIsLending

-----------------------------------------------------------------------------
(***************************************************************************)
(* What SandboxIsFound rests on beside fairness.                           *)
(***************************************************************************)

\* Where a driver that loads the record looks for the sandbox, or has found it.
Findable == {"issued", "allocated", "bound", "held"}

\* A sandbox that was made stays so, and is given up only after it was found.
MadeIsFindable ==
    [][\A c \in Consumer : request[c] = "made" =>
         /\ request'[c] = "made"
         /\ alloc[c] \in Findable
         /\ alloc[c] = "issued" => alloc'[c] \in {"issued", "allocated"}]_allocationVars

\* However many drivers race, and whoever stops the run, a sandbox the provider
\* made is of an allocation recorded issued, and stays so until a driver has it
\* on record: no reconciler passes it over (drive, advance).
THEOREM MadeSandboxesAreFindable == AllocationSpec => MadeIsFindable
<1> DEFINE Step ==
       \A c \in Consumer : request[c] = "made" =>
         /\ request'[c] = "made"
         /\ alloc[c] \in Findable
         /\ alloc[c] = "issued" => alloc'[c] \in {"issued", "allocated"}
<1>1. AllocationInv /\ [AllocationNext]_allocationVars => [Step]_allocationVars
  <2> SUFFICES ASSUME AllocationInv, AllocationNext, NEW c \in Consumer, request[c] = "made"
               PROVE  /\ request'[c] = "made"
                      /\ alloc[c] \in Findable
                      /\ alloc[c] = "issued" => alloc'[c] \in {"issued", "allocated"}
    OBVIOUS
  <2> USE DEF AllocationInv, AllocTypes, DriverInv, Drives, DriveTo, Advance, Transitions, AllocPhase
  <2>1. alloc[c] \in Findable
    BY DEF RecordInv, Findable
  <2>2. ASSUME NEW d \in Driver, NEW e \in Consumer,
               \/ Load(d, e) \/ FindActive(d, e) \/ CheckSource(d, e) \/ BindActive(d, e)
               \/ Exchange(d, e) \/ DriverStops(d)
        PROVE  alloc' = alloc /\ request' = request
    BY <2>2 DEF Load, FindActive, CheckSource, BindActive, Exchange, DriverStops, allocVars
  <2>3. ASSUME NEW d \in Driver, NEW e \in Consumer,
               ReserveAllocation(d, e) \/ HoldStopped(d, e) \/ Issue(d, e)
        PROVE  request' = request /\ (alloc[c] = "issued" => alloc'[c] = "issued")
    BY <2>3 DEF ReserveAllocation, HoldStopped, Issue
  <2>4. ASSUME NEW d \in Driver, NEW e \in Consumer, Create(d, e)
        PROVE  alloc' = alloc /\ request'[c] = "made"
    BY <2>4 DEF Create
  <2>5. ASSUME NEW d \in Driver, NEW e \in Consumer,
               RecordSandbox(d, e) \/ HoldUnverified(d, e) \/ Bind(d, e)
        PROVE  /\ request' = request
               /\ alloc[c] = "issued" => alloc'[c] \in {"issued", "allocated"}
    BY <2>5 DEF RecordSandbox, HoldUnverified, Bind
  <2>6. ASSUME NEW e \in Consumer, ProviderCreates(e) \/ Stop(e) \/ ReleaseConsumer(e)
        PROVE  alloc' = alloc /\ request'[c] = "made"
    BY <2>6 DEF ProviderCreates, Stop, ReleaseConsumer, allocVars
  <2>7. CASE CatalogStep
    BY <2>1, <2>7 DEF CatalogStep, allocVars
  <2> QED BY <2>1, <2>2, <2>3, <2>4, <2>5, <2>6, <2>7 DEF AllocationNext, DriverStep
<1> QED BY <1>1, AllocationInvariant, PTL DEF AllocationSpec, MadeIsFindable

=============================================================================
