------------------------- MODULE NativeCatalogProofs -------------------------
(***************************************************************************)
(* Theorems about NativeCatalog, for any consumers and passes.             *)
(*                                                                         *)
(* The argument: the lock makes one pass at a time the writer of the       *)
(* journal, so what is published was saved and is never discarded          *)
(* (JournalInv); a claim's purpose says on which side of the removal its   *)
(* holder may write (ClaimInv); and a removal begins with nobody pinned    *)
(* and nobody is pinned under it (RemovalInv).                             *)
(***************************************************************************)
EXTENDS NativeCatalog, TLAPS

Removing == RemovalBegun \/ state = "removed"

BuildPoint  == {"building", "reconciling", "saving", "recovering", "publishing", "failing"}
RemovePoint == {"removing", "deleting", "clearing", "removalFailing"}

\* What the journal says of the snapshot, and of what was asked of the provider.
JournalInv ==
    /\ journal = "none" => snapshot = "none" /\ ~doomed
    /\ journal = "published" /\ removal = "none" => snapshot = "saved" /\ ~doomed
    /\ journal # "published" => removal = "none"
    /\ \A p \in Pass :
        /\ pc[p] = "saving" => journal = "running" /\ ~doomed /\ snapshot # "deleted"
        /\ pc[p] = "recovering" => journal # "none" \/ (snapshot = "none" /\ ~doomed)
        /\ pc[p] \in {"looking", "publishing"} => journal = "published"

\* A claim writes only for its purpose, and for a removal only under one.
ClaimInv ==
    /\ Removing => purpose \in {"none", "remove"}
    /\ purpose = "remove" => state = "retiring"
    /\ \A p \in Pass :
        /\ pc[p] \in BuildPoint /\ holder = p => purpose \in {"build", "reconcile"}
        /\ pc[p] \in RemovePoint /\ holder = p => purpose = "remove"

\* A removal has begun before any of it is done, and without consumers.
RemovalInv ==
    /\ removal # "none" => Removing
    /\ \A p \in Pass : pc[p] \in RemovePoint \cup {"wantsRemove"} => Removing
    /\ state = "ready" \/ Removing \/ served # {} => journal = "published"
    /\ Removing => Unpinned

CatalogInv == CatalogTypeOK /\ JournalInv /\ ClaimInv /\ RemovalInv

-----------------------------------------------------------------------------
\* Initially nothing exists.
LEMMA CatalogInitially == CatalogInit => CatalogInv
<1> SUFFICES ASSUME CatalogInit PROVE CatalogInv
  OBVIOUS
<1> USE CatalogAssumption DEF CatalogInit
<1>1. CatalogTypeOK
  <2>1. live \in BOOLEAN /\ doomed \in BOOLEAN /\ (live => holder # Nobody)
    OBVIOUS
  <2>2. CatalogTypes \/ live \notin BOOLEAN \/ doomed \notin BOOLEAN
    BY DEF CatalogTypes, State, Purpose, Point
  <2>3. (holder = Nobody) = (purpose = "none") /\ \A p \in Pass : (lock = p) = (pc[p] \in Locked)
    BY DEF Locked
  <2>4. QED
    BY <2>1, <2>2, <2>3 DEF CatalogTypeOK
<1>2. JournalInv
  BY DEF JournalInv
<1>3. ClaimInv /\ RemovalInv
  BY DEF ClaimInv, RemovalInv, Removing, RemovalBegun, Unpinned, BuildPoint, RemovePoint
<1>4. QED
  BY <1>1, <1>2, <1>3 DEF CatalogInv

\* Beginning a call preserves the invariant: it only reads, and pins.
LEMMA BeginKeeps ==
  ASSUME CatalogInv, NEW p \in Pass,
         (\E c \in Consumer : Reserve(p, c)) \/ Reconcile(p) \/ Reap(p)
  PROVE  CatalogInv'
<1> USE CatalogAssumption
     DEF CatalogInv, CatalogTypeOK, CatalogTypes, JournalInv, ClaimInv, RemovalInv,
         Removing, RemovalBegun, Unpinned, BuildPoint, RemovePoint, Locked, State, Purpose, Point,
         Goto, Fence, ClearClaim, LockAttempt, Unlock, claimVars, rowVars, builderVars, passVars
<1>1. ASSUME NEW c \in Consumer, Reserve(p, c) PROVE CatalogInv'
  BY <1>1 DEF Reserve
<1>2. CASE Reconcile(p) BY <1>2 DEF Reconcile
<1>3. CASE Reap(p) BY <1>3 DEF Reap
<1>4. QED BY <1>1, <1>2, <1>3

\* So does the check of a ready publication.
LEMMA CheckKeeps ==
  ASSUME CatalogInv, NEW p \in Pass,
         CheckJournal(p) \/ LookForSnapshot(p) \/ RejectReady(p) \/ StartExamination(p) \/ Examine(p)
  PROVE  CatalogInv'
<1> USE CatalogAssumption
     DEF CatalogInv, CatalogTypeOK, CatalogTypes, JournalInv, ClaimInv, RemovalInv,
         Removing, RemovalBegun, Unpinned, BuildPoint, RemovePoint, Locked, State, Purpose, Point,
         Goto, Fence, ClearClaim, LockAttempt, Unlock, claimVars, rowVars, builderVars, passVars
<1>1. CASE CheckJournal(p) BY <1>1 DEF CheckJournal
<1>2. CASE LookForSnapshot(p) BY <1>2 DEF LookForSnapshot, Serve
<1>3. CASE RejectReady(p)
  <2>1. live' \in BOOLEAN
    BY <1>3 DEF RejectReady
  <2>2. live' => holder' # Nobody
    BY <1>3 DEF RejectReady
  <2>3. (CatalogTypes' \/ live' \notin BOOLEAN) /\ ((holder = Nobody) = (purpose = "none"))'
    BY <1>3 DEF RejectReady
  <2>4. (\A q \in Pass : (lock = q) = (pc[q] \in Locked))'
    BY <1>3 DEF RejectReady
  <2>5. JournalInv' /\ ClaimInv' /\ RemovalInv'
    BY <1>3 DEF RejectReady
  <2>6. QED BY <2>1, <2>2, <2>3, <2>4, <2>5
<1>4. CASE StartExamination(p) BY <1>4 DEF StartExamination
<1>5. CASE Examine(p) BY <1>5 DEF Examine
<1>6. QED BY <1>1, <1>2, <1>3, <1>4, <1>5

\* So do the claims.
LEMMA ClaimKeeps ==
  ASSUME CatalogInv, NEW p \in Pass,
         (\E for \in Purpose : TakeClaim(p, for)) \/ Busy(p) \/ NeverStarts(p) \/ PassDies(p)
  PROVE  CatalogInv'
<1> USE CatalogAssumption
     DEF CatalogInv, CatalogTypeOK, CatalogTypes, JournalInv, ClaimInv, RemovalInv,
         Removing, RemovalBegun, Unpinned, BuildPoint, RemovePoint, Locked, State, Purpose, Point,
         Goto, Fence, ClearClaim, LockAttempt, Unlock, claimVars, rowVars, builderVars, passVars
<1>1. ASSUME NEW for \in Purpose, TakeClaim(p, for) PROVE CatalogInv'
  <2>1. for \in {"build", "reconcile", "remove"} BY <1>1
  <2>2. live' \in BOOLEAN /\ (live' => holder' # Nobody)
    <3>1. (holder' = p /\ live' = TRUE) \/ (holder' = holder /\ live' = live)
      BY <1>1, Zenon DEF TakeClaim, claimVars
    <3>2. live \in BOOLEAN /\ (live => holder # Nobody) /\ p # Nobody
      OBVIOUS
    <3>3. live' \in BOOLEAN
      BY ONLY <3>1, <3>2
    <3>4. ASSUME live' PROVE holder' # Nobody
      BY ONLY <3>1, <3>2, <3>4, Zenon
    <3>5. QED BY <3>3, <3>4, Zenon
  <2>3. CASE for = "build"
    <3>1. (CatalogTypes' \/ live' \notin BOOLEAN) /\ ((holder = Nobody) = (purpose = "none"))'
      BY <1>1, <2>3 DEF TakeClaim, Claimable, Want, Claimed
    <3>2. (\A q \in Pass : (lock = q) = (pc[q] \in Locked))'
      BY <1>1, <2>3 DEF TakeClaim, Claimable, Want, Claimed
    <3>3. JournalInv' /\ ClaimInv' /\ RemovalInv'
      BY <1>1, <2>3 DEF TakeClaim, Claimable, Want, Claimed
    <3>4. QED BY <2>2, <3>1, <3>2, <3>3
  <2>4. CASE for = "reconcile"
    <3>1. (CatalogTypes' \/ live' \notin BOOLEAN) /\ ((holder = Nobody) = (purpose = "none"))'
      BY <1>1, <2>4 DEF TakeClaim, Claimable, Want, Claimed
    <3>2. (\A q \in Pass : (lock = q) = (pc[q] \in Locked))'
      BY <1>1, <2>4 DEF TakeClaim, Claimable, Want, Claimed
    <3>3. JournalInv' /\ ClaimInv' /\ RemovalInv'
      BY <1>1, <2>4 DEF TakeClaim, Claimable, Want, Claimed
    <3>4. QED BY <2>2, <3>1, <3>2, <3>3
  <2>5. CASE for = "remove"
    <3>1. (CatalogTypes' \/ live' \notin BOOLEAN) /\ ((holder = Nobody) = (purpose = "none"))'
      BY <1>1, <2>5 DEF TakeClaim, Claimable, Want, Claimed
    <3>2. (\A q \in Pass : (lock = q) = (pc[q] \in Locked))'
      BY <1>1, <2>5 DEF TakeClaim, Claimable, Want, Claimed
    <3>3. JournalInv' /\ ClaimInv' /\ RemovalInv'
      BY <1>1, <2>5 DEF TakeClaim, Claimable, Want, Claimed
    <3>4. QED BY <2>2, <3>1, <3>2, <3>3
  <2>6. QED BY <2>1, <2>3, <2>4, <2>5
<1>2. CASE Busy(p)
  <2>1. live' \in BOOLEAN
    BY <1>2 DEF Busy
  <2>2. live' => holder' # Nobody
    BY <1>2 DEF Busy
  <2>3. (CatalogTypes' \/ live' \notin BOOLEAN) /\ ((holder = Nobody) = (purpose = "none"))'
    BY <1>2 DEF Busy
  <2>4. (\A q \in Pass : (lock = q) = (pc[q] \in Locked))'
    BY <1>2 DEF Busy
  <2>5. JournalInv' /\ ClaimInv' /\ RemovalInv'
    BY <1>2 DEF Busy
  <2>6. QED BY <2>1, <2>2, <2>3, <2>4, <2>5
<1>3. CASE NeverStarts(p) BY <1>3 DEF NeverStarts
<1>4. CASE PassDies(p) BY <1>4 DEF PassDies
<1>5. QED BY <1>1, <1>2, <1>3, <1>4

\* So do the build and its recovery, the journal's only writers but the removal.
LEMMA BuildKeeps ==
  ASSUME CatalogInv, NEW p \in Pass,
         StartBuild(p) \/ StartRecovery(p) \/ AskToSave(p) \/ FinishBuild(p) \/
           BuildFails(p) \/ AskToDiscard(p) \/ Recover(p) \/ Publish(p) \/ Quarantine(p)
  PROVE  CatalogInv'
<1> USE CatalogAssumption
     DEF CatalogInv, CatalogTypeOK, CatalogTypes, JournalInv, ClaimInv, RemovalInv,
         Removing, RemovalBegun, Unpinned, BuildPoint, RemovePoint, Locked, State, Purpose, Point,
         Goto, Fence, ClearClaim, LockAttempt, Unlock, claimVars, rowVars, builderVars, passVars
<1>1. CASE StartBuild(p) BY <1>1 DEF StartBuild
<1>2. CASE StartRecovery(p) BY <1>2 DEF StartRecovery
<1>3. CASE AskToSave(p) BY <1>3 DEF AskToSave
<1>4. CASE FinishBuild(p) BY <1>4 DEF FinishBuild
<1>5. CASE BuildFails(p) BY <1>5 DEF BuildFails
<1>6. CASE AskToDiscard(p) BY <1>6 DEF AskToDiscard, Discardable
<1>7. CASE Recover(p) BY <1>7 DEF Recover
<1>8. CASE Publish(p)
  <2>1. live' \in BOOLEAN
    BY <1>8 DEF Publish, Publishable, Serve
  <2>2. live' => holder' # Nobody
    BY <1>8 DEF Publish, Publishable, Serve
  <2>3. (CatalogTypes' \/ live' \notin BOOLEAN) /\ ((holder = Nobody) = (purpose = "none"))'
    BY <1>8 DEF Publish, Publishable, Serve
  <2>4. (\A q \in Pass : (lock = q) = (pc[q] \in Locked))'
    BY <1>8 DEF Publish, Publishable, Serve
  <2>5. JournalInv' /\ ClaimInv' /\ RemovalInv'
    BY <1>8 DEF Publish, Publishable, Serve
  <2>6. QED BY <2>1, <2>2, <2>3, <2>4, <2>5
<1>9. CASE Quarantine(p)
  <2>1. live' \in BOOLEAN
    BY <1>9 DEF Quarantine, FailureReason
  <2>2. live' => holder' # Nobody
    BY <1>9 DEF Quarantine, FailureReason
  <2>3. (CatalogTypes' \/ live' \notin BOOLEAN) /\ ((holder = Nobody) = (purpose = "none"))'
    BY <1>9 DEF Quarantine, FailureReason
  <2>4. (\A q \in Pass : (lock = q) = (pc[q] \in Locked))'
    BY <1>9 DEF Quarantine, FailureReason
  <2>5. JournalInv' /\ ClaimInv' /\ RemovalInv'
    BY <1>9 DEF Quarantine, FailureReason
  <2>6. QED BY <2>1, <2>2, <2>3, <2>4, <2>5
<1>10. QED BY <1>1, <1>2, <1>3, <1>4, <1>5, <1>6, <1>7, <1>8, <1>9

\* So does the removal.
LEMMA RemovalKeeps ==
  ASSUME CatalogInv, NEW p \in Pass,
         Retire(p) \/ StartRemoval(p) \/ AskToDelete(p) \/ EndRemoval(p) \/ Removed(p)
  PROVE  CatalogInv'
<1> USE CatalogAssumption
     DEF CatalogInv, CatalogTypeOK, CatalogTypes, JournalInv, ClaimInv, RemovalInv,
         Removing, RemovalBegun, Unpinned, BuildPoint, RemovePoint, Locked, State, Purpose, Point,
         Goto, Fence, ClearClaim, LockAttempt, Unlock, claimVars, rowVars, builderVars, passVars
<1>1. CASE Retire(p)
  <2>1. live' \in BOOLEAN
    BY <1>1 DEF Retire, Retirable
  <2>2. live' => holder' # Nobody
    BY <1>1 DEF Retire, Retirable
  <2>3. (CatalogTypes' \/ live' \notin BOOLEAN) /\ ((holder = Nobody) = (purpose = "none"))'
    BY <1>1 DEF Retire, Retirable
  <2>4. (\A q \in Pass : (lock = q) = (pc[q] \in Locked))'
    BY <1>1 DEF Retire, Retirable
  <2>5. JournalInv' /\ ClaimInv' /\ RemovalInv'
    BY <1>1 DEF Retire, Retirable
  <2>6. QED BY <2>1, <2>2, <2>3, <2>4, <2>5
<1>2. CASE StartRemoval(p) BY <1>2 DEF StartRemoval
<1>3. CASE AskToDelete(p) BY <1>3 DEF AskToDelete
<1>4. CASE EndRemoval(p) BY <1>4 DEF EndRemoval
<1>5. CASE Removed(p)
  <2>1. live' \in BOOLEAN
    BY <1>5 DEF Removed
  <2>2. live' => holder' # Nobody
    BY <1>5 DEF Removed
  <2>3. (CatalogTypes' \/ live' \notin BOOLEAN) /\ ((holder = Nobody) = (purpose = "none"))'
    BY <1>5 DEF Removed
  <2>4. (\A q \in Pass : (lock = q) = (pc[q] \in Locked))'
    BY <1>5 DEF Removed
  <2>5. JournalInv' /\ ClaimInv' /\ RemovalInv'
    BY <1>5 DEF Removed
  <2>6. QED BY <2>1, <2>2, <2>3, <2>4, <2>5
<1>6. QED BY <1>1, <1>2, <1>3, <1>4, <1>5

\* So do a release, a lapse and the provider.
LEMMA RestKeeps ==
  ASSUME CatalogInv, (\E c \in Consumer : Release(c)) \/ LapseClaim \/ ProviderStep
  PROVE  CatalogInv'
<1> USE CatalogAssumption
     DEF CatalogInv, CatalogTypeOK, CatalogTypes, JournalInv, ClaimInv, RemovalInv,
         Removing, RemovalBegun, Unpinned, BuildPoint, RemovePoint, Locked, State, Purpose, Point,
         claimVars, rowVars, builderVars, passVars
<1>1. ASSUME NEW c \in Consumer, Release(c) PROVE CatalogInv'
  BY <1>1 DEF Release
<1>2. CASE LapseClaim
  <2>1. live' \in BOOLEAN
    BY <1>2 DEF LapseClaim
  <2>2. live' => holder' # Nobody
    BY <1>2 DEF LapseClaim
  <2>3. (CatalogTypes' \/ live' \notin BOOLEAN) /\ ((holder = Nobody) = (purpose = "none"))'
    BY <1>2 DEF LapseClaim
  <2>4. (\A q \in Pass : (lock = q) = (pc[q] \in Locked))'
    BY <1>2 DEF LapseClaim
  <2>5. JournalInv' /\ ClaimInv' /\ RemovalInv'
    BY <1>2 DEF LapseClaim
  <2>6. QED BY <2>1, <2>2, <2>3, <2>4, <2>5
<1>3. CASE ProviderSaves BY <1>3 DEF ProviderSaves
<1>4. CASE ProviderDeletes BY <1>4 DEF ProviderDeletes
<1>5. QED BY <1>1, <1>2, <1>3, <1>4 DEF ProviderStep

-----------------------------------------------------------------------------
\* So does every step, whatever the order of passes, lapses and the provider's
\* answers.
LEMMA CatalogStepKeepsInv ==
  ASSUME CatalogInv, [CatalogNext]_catalogVars
  PROVE  CatalogInv'
<1>1. ASSUME NEW p \in Pass, PassStep(p) PROVE CatalogInv'
  BY <1>1, BeginKeeps, CheckKeeps, ClaimKeeps, BuildKeeps, RemovalKeeps DEF PassStep
<1>2. CASE (\E c \in Consumer : Release(c)) \/ LapseClaim \/ ProviderStep
  BY <1>2, RestKeeps
<1>3. CASE UNCHANGED catalogVars
  BY <1>3 DEF CatalogInv, CatalogTypeOK, CatalogTypes, JournalInv, ClaimInv, RemovalInv,
       Removing, RemovalBegun, Unpinned, catalogVars, claimVars, rowVars, builderVars, passVars
<1> QED BY <1>1, <1>2, <1>3 DEF CatalogNext

\* The invariant holds in every state.
THEOREM CatalogInvariant == CatalogSpec => []CatalogInv
<1>1. CatalogInv /\ [CatalogNext]_catalogVars => CatalogInv'
  BY CatalogStepKeepsInv
<1>2. QED
  BY CatalogInitially, <1>1, PTL DEF CatalogSpec

\* CatalogTypeOK of every state.
THEOREM CatalogTypeCorrect == CatalogSpec => []CatalogTypeOK
<1>1. CatalogInv => CatalogTypeOK
  BY DEF CatalogInv
<1>2. QED
  BY CatalogInvariant, <1>1, PTL

\* ReadyIsSaved of every state: a ready publication's journal is published, and
\* since no removal began its snapshot was saved and nobody asked to delete it.
THEOREM ReadyIsAlwaysSaved == CatalogSpec => []ReadyIsSaved
<1>1. CatalogInv => ReadyIsSaved
  BY DEF CatalogInv, JournalInv, RemovalInv, Removing, RemovalBegun, ReadyIsSaved
<1>2. QED
  BY CatalogInvariant, <1>1, PTL

\* GivenIsKept of every state: a consumer still pinned keeps any removal from
\* having begun (retire), and without one the published snapshot stays.
THEOREM GivenIsAlwaysKept == CatalogSpec => []GivenIsKept
<1>1. CatalogInv => GivenIsKept
  BY DEF CatalogInv, CatalogTypeOK, CatalogTypes, JournalInv, RemovalInv, Unpinned, GivenIsKept
<1>2. QED
  BY CatalogInvariant, <1>1, PTL

\* RemovalIsFinal of every step: a build's or a reconciliation's claim does not
\* survive the beginning of a removal, so its holder can no longer write.
THEOREM RemovalStaysFinal == CatalogSpec => RemovalIsFinal
<1>1. CatalogInv /\ [CatalogNext]_catalogVars =>
        [RemovalBegun \/ state = "removed" => RemovalBegun' \/ state' = "removed"]_catalogVars
  <2> SUFFICES ASSUME CatalogInv, [CatalogNext]_catalogVars, Removing
               PROVE  Removing'
    BY DEF Removing
  <2> USE DEF Removing, RemovalBegun, CatalogInv, ClaimInv, RemovePoint, BuildPoint, Fence, rowVars
  <2>1. ASSUME NEW p \in Pass, PassStep(p) PROVE Removing'
    <3>1. ASSUME NEW c \in Consumer, Reserve(p, c) PROVE Removing'
      BY <3>1 DEF Reserve
    <3>2. CASE RejectReady(p)
      BY <3>2 DEF RejectReady
    <3>3. ASSUME NEW for \in Purpose, TakeClaim(p, for) PROVE Removing'
      BY <3>3 DEF TakeClaim, Claimable
    <3>4. CASE Publish(p)
      BY <3>4 DEF Publish, Publishable
    <3>5. CASE Quarantine(p)
      BY <3>5 DEF Quarantine, FailureReason
    <3>6. CASE Retire(p)
      BY <3>6 DEF Retire, Retirable
    <3>7. CASE Removed(p)
      BY <3>7 DEF Removed
    <3>8. QED
      BY <2>1, <3>1, <3>2, <3>3, <3>4, <3>5, <3>6, <3>7
      DEF PassStep,
          Reconcile, Reap, CheckJournal, LookForSnapshot, Busy, NeverStarts, StartBuild,
          AskToSave, FinishBuild, BuildFails, StartRecovery, AskToDiscard, Recover,
          StartExamination, Examine, StartRemoval, AskToDelete, EndRemoval, PassDies
  <2>2. QED
    BY <2>1 DEF CatalogNext, Release, LapseClaim, ProviderStep, ProviderSaves, ProviderDeletes,
         catalogVars
<1>2. QED
  BY CatalogInvariant, <1>1, PTL DEF CatalogSpec, RemovalIsFinal

-----------------------------------------------------------------------------
(***************************************************************************)
(* NativeCatalog implements PublicationLending.                            *)
(***************************************************************************)

\* Nobody is at work on what does not exist, a call acquires for a consumer it
\* pinned, and a removal that is recorded was carried out.
LendingInv ==
    /\ state = "none" => journal = "none" /\ \A p \in Pass : pc[p] = "idle"
    /\ \A p \in Pass : caller[p] # Nobody => pin[caller[p]] # "none"
    /\ removal = "complete" => snapshot = "deleted"
    /\ \A p \in Pass : pc[p] = "clearing" => removal = "complete"
    /\ state = "removed" => removal = "complete"

LentInv == CatalogInv /\ LendingInv

\* What the consumers see of the publication does not change.
Unseen == UNCHANGED <<state, reason, snapshot, journal, doomed, pin, served>>

\* Initially nothing exists.
LEMMA LentInitially == CatalogInit => LentInv
  BY CatalogInitially DEF CatalogInit, LentInv, LendingInv

\* Every step keeps it.
LEMMA LentStepKeepsInv == LentInv /\ [CatalogNext]_catalogVars => LentInv'
<1> SUFFICES ASSUME LentInv, [CatalogNext]_catalogVars PROVE LendingInv'
  BY CatalogStepKeepsInv DEF LentInv
<1> USE CatalogAssumption
     DEF LentInv, LendingInv, CatalogInv, CatalogTypeOK, CatalogTypes, Goto, Unlock, LockAttempt,
         claimVars, rowVars, builderVars, passVars
<1>1. ASSUME NEW p \in Pass, PassStep(p) PROVE LendingInv'
  <2>1. ASSUME NEW c \in Consumer, Reserve(p, c) PROVE LendingInv'
    <3>1. state' # "none" /\ UNCHANGED <<journal, removal, snapshot>>
      BY <2>1 DEF Reserve
    <3>2. \A q \in Pass : caller'[q] # Nobody => pin'[caller'[q]] # "none"
      BY <2>1 DEF Reserve
    <3>3. \A q \in Pass : pc'[q] = "clearing" => pc[q] = "clearing"
      BY <2>1 DEF Reserve, State, RemovalBegun
    <3>4. state' = "removed" => state = "removed"
      BY <2>1 DEF Reserve
    <3> QED BY <3>1, <3>2, <3>3, <3>4
  <2>2. CASE Reconcile(p) \/ Reap(p)
    BY <2>2 DEF Reconcile, Reap, RemovalBegun
  <2>3. CASE CheckJournal(p) \/ LookForSnapshot(p) \/ RejectReady(p) \/ StartExamination(p)
             \/ Examine(p)
    BY <2>3 DEF CheckJournal, LookForSnapshot, RejectReady, StartExamination, Examine
  <2>4. ASSUME NEW for \in Purpose, TakeClaim(p, for) PROVE LendingInv'
    BY <2>4 DEF TakeClaim, Want, Claimed, Purpose
  <2>5. CASE Busy(p) \/ NeverStarts(p) \/ PassDies(p)
    BY <2>5 DEF Busy, NeverStarts, PassDies
  <2>6. CASE StartBuild(p) \/ AskToSave(p) \/ FinishBuild(p) \/ BuildFails(p)
    BY <2>6 DEF StartBuild, AskToSave, FinishBuild, BuildFails, JournalInv
  <2>7. CASE StartRecovery(p) \/ AskToDiscard(p) \/ Recover(p)
    BY <2>7 DEF StartRecovery, AskToDiscard, Recover
  <2>8. CASE Publish(p) \/ Quarantine(p)
    BY <2>8 DEF Publish, Quarantine
  <2>9. CASE Retire(p) \/ StartRemoval(p) \/ AskToDelete(p) \/ EndRemoval(p) \/ Removed(p)
    BY <2>9 DEF Retire, StartRemoval, AskToDelete, EndRemoval, Removed
  <2> QED BY <1>1, <2>1, <2>2, <2>3, <2>4, <2>5, <2>6, <2>7, <2>8, <2>9 DEF PassStep
<1>2. ASSUME NEW c \in Consumer, Release(c) PROVE LendingInv'
  BY <1>2 DEF Release
<1>3. CASE LapseClaim \/ ProviderStep
  BY <1>3 DEF LapseClaim, ProviderStep, ProviderSaves, ProviderDeletes
<1>4. CASE UNCHANGED catalogVars
  BY <1>4 DEF catalogVars
<1> QED BY <1>1, <1>2, <1>3, <1>4 DEF CatalogNext

\* What the publication is offered as, by its row, before and after a step.
LEMMA OfferOfRow ==
  /\ RemovalBegun => OfferedAs = "removing"
  /\ state \in {"none", "ready", "removed"} => OfferedAs = state
  /\ state \in {"reserved", "building", "quarantined"} /\ ~RemovalBegun => OfferedAs = "open"
  /\ RemovalBegun' => OfferedAs' = "removing"
  /\ state' \in {"none", "ready", "removed"} => OfferedAs' = state'
  /\ state' \in {"reserved", "building", "quarantined"} /\ ~RemovalBegun' => OfferedAs' = "open"
  BY DEF OfferedAs, RemovalBegun

\* What the consumers do not see is a stutter of the lending.
LEMMA UnseenStutters == Unseen => UNCHANGED Lending!lendingVars
  BY DEF Unseen, OfferedAs, RemovalBegun, Lending!lendingVars

\* The acquisition and the checks of a ready publication are steps of the lending.
LEMMA AcquireIsLending ==
  ASSUME LentInv, NEW p \in Pass,
         \/ \E c \in Consumer : Reserve(p, c)
         \/ Reconcile(p) \/ Reap(p) \/ CheckJournal(p) \/ LookForSnapshot(p) \/ RejectReady(p)
         \/ StartExamination(p) \/ Examine(p)
  PROVE  [Lending!LendingNext]_(Lending!lendingVars)
<1> USE DEF LentInv, LendingInv, CatalogInv, claimVars, rowVars, builderVars,
     Lending!LendingNext, Lending!lendingVars
<1>1. ASSUME NEW c \in Consumer, Reserve(p, c) PROVE Lending!Pin(c)
  <2>1. state \in State
    BY DEF CatalogTypeOK, CatalogTypes
  <2>2. OfferedAs \notin {"removing", "removed"}
    BY <1>1, <2>1, OfferOfRow DEF Reserve, State, RemovalBegun
  <2>3. OfferedAs' = IF OfferedAs = "none" THEN "open" ELSE OfferedAs
    BY <1>1, <2>1, OfferOfRow DEF Reserve, State, RemovalBegun
  <2> QED BY <1>1, <2>2, <2>3 DEF Reserve, Lending!Pin
<1>2. CASE Reconcile(p) \/ Reap(p) \/ CheckJournal(p) \/ StartExamination(p) \/ Examine(p)
  <2>1. Unseen
    BY <1>2 DEF Unseen, Reconcile, Reap, CheckJournal, StartExamination, Examine
  <2> QED BY <2>1, UnseenStutters
<1>3. CASE LookForSnapshot(p)
  <2>1. OfferedAs' = OfferedAs
    BY <1>3 DEF LookForSnapshot, OfferedAs, RemovalBegun
  <2>2. CASE served' = served
    BY <1>3, <2>1, <2>2 DEF LookForSnapshot
  <2>3. CASE caller[p] # Nobody /\ served' = served \cup {caller[p]}
    <3>1. caller[p] \in Consumer /\ pin[caller[p]] \in {"pinned", "released"}
      BY <2>3 DEF CatalogTypeOK, CatalogTypes
    <3>2. pin[caller[p]] = "pinned" => Lending!Lendable
      BY <1>3, <3>1 DEF LookForSnapshot, JournalInv, RemovalInv, Unpinned, Lending!Lendable
    <3> QED BY <1>3, <2>1, <2>3, <3>1, <3>2 DEF LookForSnapshot, Lending!Give
  <2> QED BY <1>3, <2>2, <2>3 DEF LookForSnapshot, Serve
<1>4. CASE RejectReady(p)
  <2>1. CASE state = "ready" /\ state' = "quarantined" /\ reason' = "other"
    <3>1. OfferedAs = "ready" /\ OfferedAs' = "open"
      BY <2>1, OfferOfRow DEF RemovalBegun
    <3> QED BY <1>4, <3>1 DEF RejectReady, Lending!Withdraw
  <2>2. CASE UNCHANGED rowVars
    <3>1. Unseen
      BY <1>4, <2>2 DEF RejectReady, Unseen
    <3> QED BY <3>1, UnseenStutters
  <2> QED BY <1>4, <2>1, <2>2 DEF RejectReady
<1> QED BY <1>1, <1>2, <1>3, <1>4

\* So are the claims, the build and its recovery.
LEMMA BuildIsLending ==
  ASSUME LentInv, NEW p \in Pass,
         \/ \E for \in Purpose : TakeClaim(p, for)
         \/ Busy(p) \/ NeverStarts(p) \/ PassDies(p)
         \/ StartBuild(p) \/ AskToSave(p) \/ FinishBuild(p) \/ BuildFails(p)
         \/ StartRecovery(p) \/ AskToDiscard(p) \/ Recover(p) \/ Publish(p)
  PROVE  [Lending!LendingNext]_(Lending!lendingVars)
<1> USE DEF LentInv, LendingInv, CatalogInv, claimVars, rowVars, builderVars,
     Lending!LendingNext, Lending!lendingVars
<1> state \in State
  BY DEF CatalogTypeOK, CatalogTypes
<1>1. ASSUME NEW for \in Purpose, TakeClaim(p, for) PROVE UNCHANGED Lending!lendingVars
  <2>1. OfferedAs' = OfferedAs
    BY <1>1, OfferOfRow DEF TakeClaim, Claimable, RemovalBegun, OfferedAs
  <2> QED BY <1>1, <2>1 DEF TakeClaim
<1>2. CASE Busy(p) \/ NeverStarts(p) \/ PassDies(p) \/ BuildFails(p) \/ StartRecovery(p)
  <2>1. Unseen
    BY <1>2 DEF Unseen, Busy, NeverStarts, PassDies, BuildFails, StartRecovery
  <2> QED BY <2>1, UnseenStutters
<1>3. CASE StartBuild(p) \/ Recover(p)
  <2>1. OfferedAs' = OfferedAs /\ (journal' = "published" <=> journal = "published")
    BY <1>3 DEF StartBuild, Recover, OfferedAs, RemovalBegun
  <2> QED BY <1>3, <2>1 DEF StartBuild, Recover
<1>4. ASSUME pc[p] = "saving" PROVE OfferedAs = "open" /\ journal = "running" /\ ~doomed
  BY <1>4, OfferOfRow DEF JournalInv, RemovalInv, Removing, RemovalBegun, State
<1>5. CASE AskToSave(p)
  <2>1. OfferedAs' = OfferedAs
    BY <1>5 DEF AskToSave, OfferedAs, RemovalBegun
  <2> QED BY <1>4, <1>5, <2>1 DEF AskToSave, Lending!Save
<1>6. CASE FinishBuild(p)
  <2>1. OfferedAs' = OfferedAs
    BY <1>6 DEF FinishBuild, OfferedAs, RemovalBegun
  <2> QED BY <1>4, <1>6, <2>1 DEF FinishBuild, Lending!Publish
<1>7. CASE AskToDiscard(p)
  <2>1. OfferedAs' = OfferedAs
    BY <1>7 DEF AskToDiscard, OfferedAs, RemovalBegun
  <2> QED BY <1>7, <2>1 DEF AskToDiscard, Discardable, Lending!Discard
<1>8. CASE Publish(p)
  <2>1. CASE Fence(p) /\ Publishable /\ state' = "ready" /\ Serve(p)
    <3>1. ~Removing /\ OfferedAs = "open" /\ OfferedAs' = "ready"
      BY <2>1, OfferOfRow DEF Publishable, Removing, RemovalBegun
    <3>2. Lending!Lendable
      BY <1>8, <3>1 DEF Publish, JournalInv, RemovalInv, Lending!Lendable
    <3>3. served' = served \/ \E c \in Consumer : served' = served \cup {c}
      BY <2>1 DEF Serve, CatalogTypeOK, CatalogTypes
    <3> QED BY <1>8, <3>1, <3>2, <3>3 DEF Publish, Lending!Offer
  <2>2. CASE UNCHANGED <<rowVars, served>>
    <3>1. Unseen
      BY <1>8, <2>2 DEF Publish, Unseen
    <3> QED BY <3>1, UnseenStutters
  <2> QED BY <1>8, <2>1, <2>2 DEF Publish
<1> QED BY <1>1, <1>2, <1>3, <1>5, <1>6, <1>7, <1>8

\* So are the quarantine and the removal.
LEMMA RemovalIsLending ==
  ASSUME LentInv, NEW p \in Pass,
         \/ Quarantine(p) \/ Retire(p) \/ StartRemoval(p) \/ AskToDelete(p) \/ EndRemoval(p)
         \/ Removed(p)
  PROVE  [Lending!LendingNext]_(Lending!lendingVars)
<1> USE DEF LentInv, LendingInv, CatalogInv, claimVars, rowVars, builderVars,
     Lending!LendingNext, Lending!lendingVars
<1> state \in State
  BY DEF CatalogTypeOK, CatalogTypes
<1>1. CASE Quarantine(p)
  <2>1. CASE UNCHANGED rowVars
    <3>1. Unseen
      BY <1>1, <2>1 DEF Quarantine, Unseen
    <3> QED BY <3>1, UnseenStutters
  <2>2. CASE Fence(p) /\ state' = "quarantined" /\ reason' = FailureReason(p)
    <3>1. CASE pc[p] = "removalFailing"
      <4>1. state = "retiring" /\ reason' = "pending"
        BY <2>2, <3>1 DEF Fence, FailureReason, ClaimInv, RemovePoint
      <4>2. OfferedAs = "removing" /\ OfferedAs' = "removing"
        BY <2>2, <4>1, OfferOfRow DEF RemovalBegun
      <4> QED BY <1>1, <4>2 DEF Quarantine
    <3>2. CASE pc[p] = "failing"
      <4>1. ~Removing /\ state # "none" /\ reason' = "other"
        BY <2>2, <3>2 DEF Fence, FailureReason, ClaimInv, BuildPoint
      <4>2. OfferedAs \in {"open", "ready"} /\ OfferedAs' = "open"
        BY <2>2, <4>1, OfferOfRow DEF Removing, RemovalBegun, State
      <4> QED BY <1>1, <4>2 DEF Quarantine, Lending!Withdraw
    <3> QED BY <1>1, <3>1, <3>2 DEF Quarantine
  <2> QED BY <1>1, <2>1, <2>2 DEF Quarantine
<1>2. CASE Retire(p)
  <2>1. CASE Retirable /\ state' = "retiring"
    <3>1. OfferedAs' = "removing"
      BY <2>1, OfferOfRow DEF RemovalBegun
    <3>2. OfferedAs = "removing" \/ (OfferedAs = "ready" /\ Unpinned)
      BY <2>1, OfferOfRow DEF Retirable, RemovalBegun
    <3> QED BY <1>2, <3>1, <3>2 DEF Retire, Unpinned, Lending!Retire
  <2>2. CASE UNCHANGED state
    <3>1. Unseen
      BY <1>2, <2>2 DEF Retire, Unseen
    <3> QED BY <3>1, UnseenStutters
  <2> QED BY <1>2, <2>1, <2>2 DEF Retire
<1>3. CASE StartRemoval(p) \/ EndRemoval(p)
  <2>1. Unseen
    BY <1>3 DEF Unseen, StartRemoval, EndRemoval
  <2> QED BY <2>1, UnseenStutters
<1>4. CASE AskToDelete(p)
  <2>1. RemovalBegun
    BY <1>4 DEF AskToDelete, RemovalInv, RemovePoint, Removing
  <2>2. OfferedAs = "removing" /\ OfferedAs' = OfferedAs
    BY <1>4, <2>1, OfferOfRow DEF AskToDelete, OfferedAs, RemovalBegun
  <2> QED BY <1>4, <2>2 DEF AskToDelete, Lending!Delete
<1>5. CASE Removed(p)
  <2>1. CASE state = "retiring" /\ state' = "removed"
    <3>1. OfferedAs = "removing" /\ OfferedAs' = "removed"
      BY <2>1, OfferOfRow DEF RemovalBegun
    <3>2. snapshot = "deleted"
      BY <1>5 DEF Removed
    <3> QED BY <1>5, <3>1, <3>2 DEF Removed, Lending!Remove
  <2>2. CASE UNCHANGED state
    <3>1. Unseen
      BY <1>5, <2>2 DEF Removed, Unseen
    <3> QED BY <3>1, UnseenStutters
  <2> QED BY <1>5, <2>1, <2>2 DEF Removed
<1> QED BY <1>1, <1>2, <1>3, <1>4, <1>5

\* For any consumers and passes, the publication is lent as PublicationLending
\* says: offered only while it is there to stay, deleted only in a removal that
\* nobody holds it in (reserve, publish, rejectReady, retire, lockAttempt).
THEOREM CatalogIsLending == CatalogSpec => ImplementsLending
<1>1. CatalogInit => Lending!LendingInit
  BY OfferOfRow DEF CatalogInit, Lending!LendingInit
<1>2. LentInv /\ [CatalogNext]_catalogVars => [Lending!LendingNext]_(Lending!lendingVars)
  <2> SUFFICES ASSUME LentInv, [CatalogNext]_catalogVars
               PROVE  [Lending!LendingNext]_(Lending!lendingVars)
    OBVIOUS
  <2> USE DEF Lending!LendingNext, Lending!lendingVars
  <2>1. ASSUME NEW p \in Pass, PassStep(p)
        PROVE  [Lending!LendingNext]_(Lending!lendingVars)
    BY <2>1, AcquireIsLending, BuildIsLending, RemovalIsLending DEF PassStep
  <2>2. ASSUME NEW c \in Consumer, Release(c) PROVE Lending!LetGo(c)
    BY <2>2 DEF Release, rowVars, claimVars, builderVars, OfferedAs, RemovalBegun, Lending!LetGo
  <2>3. CASE LapseClaim \/ UNCHANGED catalogVars
    <3>1. Unseen
      BY <2>3 DEF LapseClaim, catalogVars, rowVars, builderVars, Unseen
    <3> QED BY <3>1, UnseenStutters
  <2>4. CASE ProviderSaves
    BY <2>4 DEF ProviderSaves, rowVars, claimVars, OfferedAs, RemovalBegun, Lending!Saved
  <2>5. CASE ProviderDeletes
    BY <2>5 DEF ProviderDeletes, rowVars, claimVars, OfferedAs, RemovalBegun, Lending!Deleted
  <2> QED BY <2>1, <2>2, <2>3, <2>4, <2>5 DEF CatalogNext, ProviderStep
<1> QED BY <1>1, <1>2, LentInitially, LentStepKeepsInv, PTL
        DEF CatalogSpec, ImplementsLending, Lending!LendingSpec

=============================================================================
