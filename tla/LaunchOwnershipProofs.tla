------------------------- MODULE LaunchOwnershipProofs -------------------------
(***************************************************************************)
(* Theorems about LaunchOwnership, for any number of claims on the job.    *)
(*                                                                         *)
(* The argument: a job whose outcome is committed is never claimed again,  *)
(* so one pass at most is past its build; until then the launch has        *)
(* touched nothing (NothingBeforeFinal), and from then on every status     *)
(* with a failure code is final (CodeInv).                                 *)
(***************************************************************************)
EXTENDS LaunchOwnership, TLAPS

Launching == {"built", "pending", "dispatched", "started", "ready", "failing"}

Final == job \in {"succeeded", "failed"}

OneLauncher ==
    \A c, d \in Claim : pc[c] \in Launching /\ pc[d] \in Launching => c = d

NothingBeforeFinal ==
    ~Final => /\ row = "none" /\ code = "none" /\ executor = "none" /\ owner = Nobody
              /\ \A c \in Claim : pc[c] \notin Launching

\* What the launch has done by each point of the pass that launches.
PointInv ==
    \A c \in Claim :
        /\ pc[c] = "built" => row = "none" /\ code = "none" /\ owner = Nobody
        /\ pc[c] \in {"built", "pending"} => executor = "none"
        /\ pc[c] = "started" => named /\ executor \in {"up", "gone"}
        /\ pc[c] \in {"pending", "dispatched", "started"} => row # "ready"

CodeInv ==
    /\ code # "none" => row \in {"failed", "stopped"}
    /\ stopper # "none" => row # "none"
    /\ graceOver => executor # "creating"

NamedInv ==
    executor \in {"creating", "up"} /\ (row = "ready" \/ (captures /\ row = "failed")) => named

\* No pass can make the launch ready any more.
Doomed ==
    /\ Final /\ row # "ready"
    /\ \A c \in Claim :
          /\ pc[c] # "built"
          /\ pc[c] \in {"pending", "dispatched", "started"} => row # "pending"

\* A failed or cancelled attempt, written or still owed, is that of such a run.
DoomInv ==
    ~doubtful =>
        /\ publish = {}
        /\ owed # {} \/ attempt \in {"failed", "cancelled"}
             \/ (\E c \in Claim : pc[c] = "failing") => Doomed

LaunchInv ==
    /\ LaunchTypeOK /\ OneLauncher /\ NothingBeforeFinal /\ PointInv
    /\ CodeInv /\ NamedInv /\ DoomInv /\ LostLeftNothing

\* The types by part: those that are truth values, and the others.
LaunchFlags ==
    /\ captures \in BOOLEAN /\ doubtful \in BOOLEAN /\ named \in BOOLEAN /\ jobLive \in BOOLEAN
    /\ ownLive \in BOOLEAN /\ graceOver \in BOOLEAN

LaunchPlaces ==
    /\ job \in JobStatus /\ holder \in Claim \cup {Nobody}
    /\ row \in RowStatus /\ code \in Code /\ owner \in Claim \cup {Nobody}
    /\ attempt \in Status /\ pc \in [Claim -> Point]
    /\ executor \in {"none", "creating", "up", "gone"} /\ looks \in Lookers
    /\ stopper \in {"none", "unaddressable", "removing"}
    /\ owed \in SUBSET {"failed", "cancelled"}
    /\ publish \in SUBSET {"job", "attempt"}

-----------------------------------------------------------------------------
\* The parts are the whole of the types, before and after a step.
LEMMA TypesByPart ==
  /\ LaunchFlags /\ LaunchPlaces /\ LeasesOfOwned => LaunchTypeOK
  /\ LaunchFlags' /\ LaunchPlaces' /\ LeasesOfOwned' => LaunchTypeOK'
<1>1. LaunchFlags /\ LaunchPlaces /\ LeasesOfOwned => LaunchTypeOK
  BY Zenon DEF LaunchFlags, LaunchPlaces, LaunchTypeOK, LaunchTypes
<1>2. LaunchFlags' /\ LaunchPlaces' /\ LeasesOfOwned' => LaunchTypeOK'
  BY Zenon DEF LaunchFlags, LaunchPlaces, LaunchTypeOK, LaunchTypes
<1>3. QED BY <1>1, <1>2

\* The initial states satisfy the invariant: nothing has happened.
LEMMA InitInvariant == LaunchInit => LaunchInv
  BY LaunchAssumption
  DEF LaunchInit, LaunchInv, LaunchTypeOK, LaunchTypes, LeasesOfOwned,
         OneLauncher, NothingBeforeFinal, PointInv,
      CodeInv, NamedInv, DoomInv, Doomed, Final, Launching, LostLeftNothing,
      JobStatus, RowStatus, Code, Lookers, Status, Point

\* Every step of Phase A preserves the invariant.
LEMMA BuildKeeps ==
  ASSUME LaunchInv, NEW c \in Claim, BuildStep(c)
  PROVE  LaunchInv'
<1> USE LaunchAssumption
     DEF LaunchInv, LaunchTypeOK, LaunchTypes, LeasesOfOwned,
         OneLauncher, NothingBeforeFinal, PointInv, CodeInv, NamedInv,
         DoomInv, Doomed, Final, Launching, LostLeftNothing, JobStatus, RowStatus, Code, Lookers,
         Status, Point, Goto, Holds, kinds, jobVars, lease, rowVars, others
<1>1. CASE ClaimJob(c)
  <2> USE <1>1 DEF ClaimJob
  <2>1. LaunchTypeOK'
    <3>1. LaunchFlags' BY DEF LaunchFlags
    <3>2. LaunchPlaces' BY DEF LaunchPlaces
    <3>3. LeasesOfOwned' OBVIOUS
    <3>4. QED BY <3>1, <3>2, <3>3, TypesByPart
  <2>2. OneLauncher' /\ NothingBeforeFinal' OBVIOUS
  <2>3. PointInv' OBVIOUS
  <2>4. CodeInv' /\ NamedInv' /\ LostLeftNothing' OBVIOUS
  <2>5. DoomInv' OBVIOUS
  <2>6. QED BY <2>1, <2>2, <2>3, <2>4, <2>5
<1>2. CASE MarkRunning(c)
  <2> USE <1>2 DEF MarkRunning
  <2>1. LaunchTypeOK'
    <3>1. LaunchFlags' BY DEF LaunchFlags
    <3>2. LaunchPlaces' BY DEF LaunchPlaces
    <3>3. LeasesOfOwned' OBVIOUS
    <3>4. QED BY <3>1, <3>2, <3>3, TypesByPart
  <2>2. OneLauncher' /\ NothingBeforeFinal' OBVIOUS
  <2>3. PointInv' OBVIOUS
  <2>4. CodeInv' /\ NamedInv' /\ LostLeftNothing' OBVIOUS
  <2>5. DoomInv' OBVIOUS
  <2>6. QED BY <2>1, <2>2, <2>3, <2>4, <2>5
<1>3. CASE Heartbeat(c)
  <2> USE <1>3 DEF Heartbeat
  <2>1. LaunchTypeOK'
    <3>1. LaunchFlags' BY DEF LaunchFlags
    <3>2. LaunchPlaces' BY DEF LaunchPlaces
    <3>3. LeasesOfOwned' OBVIOUS
    <3>4. QED BY <3>1, <3>2, <3>3, TypesByPart
  <2>2. OneLauncher' /\ NothingBeforeFinal' OBVIOUS
  <2>3. PointInv' OBVIOUS
  <2>4. CodeInv' /\ NamedInv' /\ LostLeftNothing' OBVIOUS
  <2>5. DoomInv' OBVIOUS
  <2>6. QED BY <2>1, <2>2, <2>3, <2>4, <2>5
<1>4. CASE CommitBuild(c)
  <2> USE <1>4 DEF CommitBuild
  <2>1. LaunchTypeOK'
    <3>1. LaunchFlags' BY DEF LaunchFlags
    <3>2. LaunchPlaces' BY DEF LaunchPlaces
    <3>3. LeasesOfOwned' OBVIOUS
    <3>4. QED BY <3>1, <3>2, <3>3, TypesByPart
  <2>2. OneLauncher' /\ NothingBeforeFinal' OBVIOUS
  <2>3. PointInv' OBVIOUS
  <2>4. CodeInv' /\ NamedInv' /\ LostLeftNothing' OBVIOUS
  <2>5. DoomInv' OBVIOUS
  <2>6. QED BY <2>1, <2>2, <2>3, <2>4, <2>5
<1>5. CASE StopBuilding(c) BY <1>5 DEF StopBuilding
<1>6. CASE BuildFails(c) BY <1>6 DEF BuildFails
<1>7. QED BY <1>1, <1>2, <1>3, <1>4, <1>5, <1>6 DEF BuildStep

\* Every step of Phase B preserves it.
LEMMA LaunchKeeps ==
  ASSUME LaunchInv, NEW c \in Claim, LaunchMoves(c)
  PROVE  LaunchInv'
<1> USE LaunchAssumption
     DEF LaunchInv, LaunchTypeOK, LaunchTypes, LeasesOfOwned,
         OneLauncher, NothingBeforeFinal, PointInv, CodeInv, NamedInv,
         DoomInv, Doomed, Final, Launching, LostLeftNothing, JobStatus, RowStatus, Code, Lookers,
         Status, Point, Goto, Owns, LeaseTo, ReleaseLaunch, LeaveFailed, FailedExecutor,
         kinds, jobVars, lease, rowVars, others
<1>1. CASE RecordPending(c)
  <2> USE <1>1 DEF RecordPending
  <2>1. LaunchTypeOK'
    <3>1. LaunchFlags' BY DEF LaunchFlags
    <3>2. LaunchPlaces' BY DEF LaunchPlaces
    <3>3. LeasesOfOwned' OBVIOUS
    <3>4. QED BY <3>1, <3>2, <3>3, TypesByPart
  <2>2. OneLauncher' /\ NothingBeforeFinal' OBVIOUS
  <2>3. PointInv' OBVIOUS
  <2>4. CodeInv' /\ NamedInv' /\ LostLeftNothing' OBVIOUS
  <2>5. DoomInv' OBVIOUS
  <2>6. QED BY <2>1, <2>2, <2>3, <2>4, <2>5
<1>2. CASE LaunchRefused(c)
  <2> USE <1>2 DEF LaunchRefused
  <2>1. LaunchTypeOK'
    <3>1. LaunchFlags' BY DEF LaunchFlags
    <3>2. LaunchPlaces' BY DEF LaunchPlaces
    <3>3. LeasesOfOwned' OBVIOUS
    <3>4. QED BY <3>1, <3>2, <3>3, TypesByPart
  <2>2. OneLauncher' /\ NothingBeforeFinal' OBVIOUS
  <2>3. PointInv' OBVIOUS
  <2>4. CodeInv' /\ NamedInv' /\ LostLeftNothing' OBVIOUS
  <2>5. DoomInv' OBVIOUS
  <2>6. QED BY <2>1, <2>2, <2>3, <2>4, <2>5
<1>3. CASE Dispatch(c)
  <2> USE <1>3 DEF Dispatch
  <2>1. LaunchTypeOK'
    <3>1. LaunchFlags' BY DEF LaunchFlags
    <3>2. LaunchPlaces' BY DEF LaunchPlaces
    <3>3. LeasesOfOwned' OBVIOUS
    <3>4. QED BY <3>1, <3>2, <3>3, TypesByPart
  <2>2. OneLauncher' /\ NothingBeforeFinal' OBVIOUS
  <2>3. PointInv' OBVIOUS
  <2>4. CodeInv' /\ NamedInv' /\ LostLeftNothing' OBVIOUS
  <2>5. DoomInv' OBVIOUS
  <2>6. QED BY <2>1, <2>2, <2>3, <2>4, <2>5
<1>4. CASE RecordStarted(c)
  <2> USE <1>4 DEF RecordStarted
  <2>1. LaunchTypeOK'
    <3>1. LaunchFlags' BY DEF LaunchFlags
    <3>2. LaunchPlaces' BY DEF LaunchPlaces
    <3>3. LeasesOfOwned' OBVIOUS
    <3>4. QED BY <3>1, <3>2, <3>3, TypesByPart
  <2>2. OneLauncher' /\ NothingBeforeFinal' OBVIOUS
  <2>3. PointInv' OBVIOUS
  <2>4. CodeInv' /\ NamedInv' /\ LostLeftNothing' OBVIOUS
  <2>5. DoomInv' OBVIOUS
  <2>6. QED BY <2>1, <2>2, <2>3, <2>4, <2>5
<1>5. CASE RecordReady(c)
  <2> USE <1>5 DEF RecordReady
  <2>1. LaunchTypeOK'
    <3>1. LaunchFlags' BY DEF LaunchFlags
    <3>2. LaunchPlaces' BY DEF LaunchPlaces
    <3>3. LeasesOfOwned' OBVIOUS
    <3>4. QED BY <3>1, <3>2, <3>3, TypesByPart
  <2>2. OneLauncher' /\ NothingBeforeFinal' OBVIOUS
  <2>3. PointInv' OBVIOUS
  <2>4. CodeInv' /\ NamedInv' /\ LostLeftNothing' OBVIOUS
  <2>5. DoomInv' OBVIOUS
  <2>6. QED BY <2>1, <2>2, <2>3, <2>4, <2>5
<1>6. CASE FinishAttempt(c) BY <1>6 DEF FinishAttempt
<1>7. CASE FailWithout(c)
  <2> USE <1>7 DEF FailWithout
  <2>1. LaunchTypeOK'
    <3>1. LaunchFlags' BY DEF LaunchFlags
    <3>2. LaunchPlaces' BY DEF LaunchPlaces
    <3>3. LeasesOfOwned' OBVIOUS
    <3>4. QED BY <3>1, <3>2, <3>3, TypesByPart
  <2>2. OneLauncher' /\ NothingBeforeFinal' OBVIOUS
  <2>3. PointInv' OBVIOUS
  <2>4. CodeInv' /\ NamedInv' /\ LostLeftNothing' OBVIOUS
  <2>5. DoomInv' OBVIOUS
  <2>6. QED BY <2>1, <2>2, <2>3, <2>4, <2>5
<1>8. CASE FailWith(c)
  <2> USE <1>8 DEF FailWith
  <2>1. LaunchTypeOK'
    <3>1. LaunchFlags' BY DEF LaunchFlags
    <3>2. LaunchPlaces' BY DEF LaunchPlaces
    <3>3. LeasesOfOwned' OBVIOUS
    <3>4. QED BY <3>1, <3>2, <3>3, TypesByPart
  <2>2. OneLauncher' /\ NothingBeforeFinal' OBVIOUS
  <2>3. PointInv' OBVIOUS
  <2>4. CodeInv' /\ NamedInv' /\ LostLeftNothing' OBVIOUS
  <2>5. DoomInv' OBVIOUS
  <2>6. QED BY <2>1, <2>2, <2>3, <2>4, <2>5
<1>9. CASE Abandon(c)
  <2> USE <1>9 DEF Abandon
  <2>1. LaunchTypeOK'
    <3>1. LaunchFlags' BY DEF LaunchFlags
    <3>2. LaunchPlaces' BY DEF LaunchPlaces
    <3>3. LeasesOfOwned' OBVIOUS
    <3>4. QED BY <3>1, <3>2, <3>3, TypesByPart
  <2>2. OneLauncher' /\ NothingBeforeFinal' OBVIOUS
  <2>3. PointInv' OBVIOUS
  <2>4. CodeInv' /\ NamedInv' /\ LostLeftNothing' OBVIOUS
  <2>5. DoomInv' OBVIOUS
  <2>6. QED BY <2>1, <2>2, <2>3, <2>4, <2>5
<1>10. CASE LaunchLost(c)
  <2> USE <1>10 DEF LaunchLost
  <2>1. LaunchTypeOK'
    <3>1. LaunchFlags' BY DEF LaunchFlags
    <3>2. LaunchPlaces' BY DEF LaunchPlaces
    <3>3. LeasesOfOwned' OBVIOUS
    <3>4. QED BY <3>1, <3>2, <3>3, TypesByPart
  <2>2. OneLauncher' /\ NothingBeforeFinal' OBVIOUS
  <2>3. PointInv' OBVIOUS
  <2>4. CodeInv' /\ NamedInv' /\ LostLeftNothing' OBVIOUS
  <2>5. DoomInv' OBVIOUS
  <2>6. QED BY <2>1, <2>2, <2>3, <2>4, <2>5
<1>11. CASE FailUnwritten(c)
  <2> USE <1>11 DEF FailUnwritten
  <2>1. LaunchTypeOK'
    <3>1. LaunchFlags' BY DEF LaunchFlags
    <3>2. LaunchPlaces' BY DEF LaunchPlaces
    <3>3. LeasesOfOwned' OBVIOUS
    <3>4. QED BY <3>1, <3>2, <3>3, TypesByPart
  <2>2. OneLauncher' /\ NothingBeforeFinal' OBVIOUS
  <2>3. PointInv' OBVIOUS
  <2>4. CodeInv' /\ NamedInv' /\ LostLeftNothing' OBVIOUS
  <2>5. DoomInv' OBVIOUS
  <2>6. QED BY <2>1, <2>2, <2>3, <2>4, <2>5
<1>12. QED
  BY <1>1, <1>2, <1>3, <1>4, <1>5, <1>6, <1>7, <1>8, <1>9, <1>10, <1>11 DEF LaunchMoves

\* So do the renewal and the death of a worker.
LEMMA WorkerKeeps ==
  ASSUME LaunchInv, NEW c \in Claim, WorkerStep(c)
  PROVE  LaunchInv'
<1> USE LaunchAssumption
     DEF LaunchInv, LaunchTypeOK, LaunchTypes, LeasesOfOwned,
         OneLauncher, NothingBeforeFinal, PointInv, CodeInv, NamedInv,
         DoomInv, Doomed, Final, Launching, LostLeftNothing, Point, Goto, Owns, LeaseTo,
         kinds, jobVars, lease, rowVars, others
<1>1. CASE RenewLaunch(c)
  <2> USE <1>1 DEF RenewLaunch
  <2>1. LaunchTypeOK'
    <3>1. LaunchFlags' BY DEF LaunchFlags
    <3>2. LaunchPlaces' BY DEF LaunchPlaces
    <3>3. LeasesOfOwned' OBVIOUS
    <3>4. QED BY <3>1, <3>2, <3>3, TypesByPart
  <2>2. OneLauncher' /\ NothingBeforeFinal' OBVIOUS
  <2>3. PointInv' OBVIOUS
  <2>4. CodeInv' /\ NamedInv' /\ LostLeftNothing' OBVIOUS
  <2>5. DoomInv' OBVIOUS
  <2>6. QED BY <2>1, <2>2, <2>3, <2>4, <2>5
<1>2. CASE WorkerDies(c)
  <2> USE <1>2 DEF WorkerDies
  <2>1. LaunchTypeOK'
    <3>1. LaunchFlags' BY DEF LaunchFlags
    <3>2. LaunchPlaces' BY DEF LaunchPlaces
    <3>3. LeasesOfOwned' OBVIOUS
    <3>4. QED BY <3>1, <3>2, <3>3, TypesByPart
  <2>2. OneLauncher' /\ NothingBeforeFinal' OBVIOUS
  <2>3. PointInv' OBVIOUS
  <2>4. CodeInv' /\ NamedInv' /\ LostLeftNothing' OBVIOUS
  <2>5. DoomInv' OBVIOUS
  <2>6. QED BY <2>1, <2>2, <2>3, <2>4, <2>5
<1>3. QED BY <1>1, <1>2, BuildKeeps, LaunchKeeps DEF WorkerStep

\* The sweeps preserve it.
LEMMA SweepKeeps ==
  ASSUME LaunchInv, SweepStep
  PROVE  LaunchInv'
<1> USE LaunchAssumption
     DEF LaunchInv, LaunchTypeOK, LaunchTypes, LeasesOfOwned, OneLauncher,
         NothingBeforeFinal, PointInv, CodeInv, NamedInv, DoomInv, Doomed, Final, Launching,
         LostLeftNothing, JobStatus, RowStatus, Code, Lookers, Status, Point, Stranded, Owe,
         ReleaseLaunch, LeaveFailed, kinds, jobVars, lease, rowVars, others
<1>1. CASE LapseJob
  <2> USE <1>1 DEF LapseJob
  <2>1. LaunchTypeOK'
    <3>1. LaunchFlags' BY DEF LaunchFlags
    <3>2. LaunchPlaces' BY DEF LaunchPlaces
    <3>3. LeasesOfOwned' OBVIOUS
    <3>4. QED BY <3>1, <3>2, <3>3, TypesByPart
  <2>2. OneLauncher' /\ NothingBeforeFinal' /\ PointInv' OBVIOUS
  <2>3. CodeInv' /\ NamedInv' /\ LostLeftNothing' OBVIOUS
  <2>4. DoomInv' OBVIOUS
  <2>5. QED BY <2>1, <2>2, <2>3, <2>4
<1>2. CASE LapseOwnership
  <2> USE <1>2 DEF LapseOwnership
  <2>1. LaunchTypeOK'
    <3>1. LaunchFlags' BY DEF LaunchFlags
    <3>2. LaunchPlaces' BY DEF LaunchPlaces
    <3>3. LeasesOfOwned' OBVIOUS
    <3>4. QED BY <3>1, <3>2, <3>3, TypesByPart
  <2>2. OneLauncher' /\ NothingBeforeFinal' /\ PointInv' BY <1>2 DEF LapseOwnership
  <2>3. CodeInv' /\ NamedInv' /\ LostLeftNothing' BY <1>2 DEF LapseOwnership
  <2>4. DoomInv' BY <1>2 DEF LapseOwnership
  <2>5. QED BY <2>1, <2>2, <2>3, <2>4
<1>3. CASE PassGrace
  <2> USE <1>3 DEF PassGrace
  <2>1. LaunchTypeOK'
    <3>1. LaunchFlags' BY DEF LaunchFlags
    <3>2. LaunchPlaces' BY DEF LaunchPlaces
    <3>3. LeasesOfOwned' OBVIOUS
    <3>4. QED BY <3>1, <3>2, <3>3, TypesByPart
  <2>2. OneLauncher' /\ NothingBeforeFinal' /\ PointInv' OBVIOUS
  <2>3. CodeInv' /\ NamedInv' /\ LostLeftNothing' OBVIOUS
  <2>4. DoomInv' OBVIOUS
  <2>5. QED BY <2>1, <2>2, <2>3, <2>4
<1>4. CASE IdentifyStranded
  <2> USE <1>4 DEF IdentifyStranded
  <2>1. LaunchTypeOK'
    <3>1. LaunchFlags' BY DEF LaunchFlags
    <3>2. LaunchPlaces' BY DEF LaunchPlaces
    <3>3. LeasesOfOwned' OBVIOUS
    <3>4. QED BY <3>1, <3>2, <3>3, TypesByPart
  <2>2. OneLauncher' /\ NothingBeforeFinal' OBVIOUS
  <2>3. PointInv' OBVIOUS
  <2>4. CodeInv' /\ NamedInv' /\ LostLeftNothing' OBVIOUS
  <2>5. DoomInv' OBVIOUS
  <2>6. QED BY <2>1, <2>2, <2>3, <2>4, <2>5
<1>5. CASE FailLost
  <2> USE <1>5 DEF FailLost
  <2>1. LaunchTypeOK'
    <3>1. LaunchFlags' BY DEF LaunchFlags
    <3>2. LaunchPlaces' BY DEF LaunchPlaces
    <3>3. LeasesOfOwned' OBVIOUS
    <3>4. QED BY <3>1, <3>2, <3>3, TypesByPart
  <2>2. OneLauncher' /\ NothingBeforeFinal' OBVIOUS
  <2>3. PointInv' OBVIOUS
  <2>4. CodeInv' /\ NamedInv' /\ LostLeftNothing' OBVIOUS
  <2>5. DoomInv' OBVIOUS
  <2>6. QED BY <2>1, <2>2, <2>3, <2>4, <2>5
<1>6. CASE Adopt
  <2> USE <1>6 DEF Adopt
  <2>1. LaunchTypeOK'
    <3>1. LaunchFlags' BY DEF LaunchFlags
    <3>2. LaunchPlaces' BY DEF LaunchPlaces
    <3>3. LeasesOfOwned' OBVIOUS
    <3>4. QED BY <3>1, <3>2, <3>3, TypesByPart
  <2>2. OneLauncher' /\ NothingBeforeFinal' OBVIOUS
  <2>3. PointInv' OBVIOUS
  <2>4. CodeInv' /\ NamedInv' /\ LostLeftNothing' OBVIOUS
  <2>5. DoomInv' OBVIOUS
  <2>6. QED BY <2>1, <2>2, <2>3, <2>4, <2>5
<1>7. CASE Preempt
  <2> USE <1>7 DEF Preempt
  <2>1. LaunchTypeOK'
    <3>1. LaunchFlags' BY DEF LaunchFlags
    <3>2. LaunchPlaces' BY DEF LaunchPlaces
    <3>3. LeasesOfOwned' OBVIOUS
    <3>4. QED BY <3>1, <3>2, <3>3, TypesByPart
  <2>2. OneLauncher' /\ NothingBeforeFinal' OBVIOUS
  <2>3. PointInv' OBVIOUS
  <2>4. CodeInv' /\ NamedInv' /\ LostLeftNothing' OBVIOUS
  <2>5. DoomInv' OBVIOUS
  <2>6. QED BY <2>1, <2>2, <2>3, <2>4, <2>5
<1>8. ASSUME NEW status \in {"failed", "cancelled"}, PayAttempt(status)
      PROVE  LaunchInv'
  BY <1>8 DEF PayAttempt
<1>9. QED BY <1>1, <1>2, <1>3, <1>4, <1>5, <1>6, <1>7, <1>8 DEF SweepStep

\* So do the stop, the create's rollback and the runtime.
LEMMA OthersKeep ==
  ASSUME LaunchInv, StopStep \/ RollBackJob \/ RollBackAttempt \/ CreationLands
  PROVE  LaunchInv'
<1> USE LaunchAssumption
     DEF LaunchInv, LaunchTypeOK, LaunchTypes, LeasesOfOwned,
         OneLauncher, NothingBeforeFinal, PointInv, CodeInv, NamedInv,
         DoomInv, Doomed, Final, Launching, LostLeftNothing, JobStatus, RowStatus, Code, Lookers,
         Status, Point, Owe, kinds, jobVars, lease, rowVars, others
<1>1. CASE CancelUnbuilt
  <2> USE <1>1 DEF CancelUnbuilt
  <2>1. LaunchTypeOK'
    <3>1. LaunchFlags' BY DEF LaunchFlags
    <3>2. LaunchPlaces' BY DEF LaunchPlaces
    <3>3. LeasesOfOwned' OBVIOUS
    <3>4. QED BY <3>1, <3>2, <3>3, TypesByPart
  <2>2. OneLauncher' /\ NothingBeforeFinal' /\ PointInv' OBVIOUS
  <2>3. CodeInv' /\ NamedInv' /\ LostLeftNothing' OBVIOUS
  <2>4. DoomInv' OBVIOUS
  <2>5. QED BY <2>1, <2>2, <2>3, <2>4
<1>2. CASE StopReads BY <1>2 DEF StopReads
<1>3. CASE StopRemoves BY <1>3 DEF StopRemoves
<1>4. CASE StopWrites BY <1>4 DEF StopWrites
<1>5. CASE StopDies BY <1>5 DEF StopDies
<1>6. CASE RollBackJob
  <2> USE <1>6 DEF RollBackJob
  <2>1. LaunchTypeOK'
    <3>1. LaunchFlags' BY DEF LaunchFlags
    <3>2. LaunchPlaces' BY DEF LaunchPlaces
    <3>3. LeasesOfOwned' OBVIOUS
    <3>4. QED BY <3>1, <3>2, <3>3, TypesByPart
  <2>2. OneLauncher' /\ NothingBeforeFinal' /\ PointInv' BY <1>6 DEF RollBackJob
  <2>3. CodeInv' /\ NamedInv' /\ LostLeftNothing' BY <1>6 DEF RollBackJob
  <2>4. DoomInv' BY <1>6 DEF RollBackJob
  <2>5. QED BY <2>1, <2>2, <2>3, <2>4
<1>7. CASE RollBackAttempt BY <1>7 DEF RollBackAttempt
<1>8. CASE CreationLands BY <1>8 DEF CreationLands
<1>9. QED BY <1>1, <1>2, <1>3, <1>4, <1>5, <1>6, <1>7, <1>8 DEF StopStep

\* The invariant is preserved by every step.
LEMMA NextInvariant == LaunchInv /\ [LaunchNext]_launchVars => LaunchInv'
<1> SUFFICES ASSUME LaunchInv, [LaunchNext]_launchVars PROVE LaunchInv'
  OBVIOUS
<1>1. CASE LaunchNext
  BY <1>1, WorkerKeeps, SweepKeeps, OthersKeep DEF LaunchNext
<1>2. CASE UNCHANGED launchVars
  BY <1>2 DEF launchVars, LaunchInv, LaunchTypeOK, LaunchTypes, LeasesOfOwned, OneLauncher,
         NothingBeforeFinal, PointInv, CodeInv, NamedInv, DoomInv, Doomed, Final,
         LostLeftNothing, kinds, jobVars, lease, rowVars, others
<1>3. QED BY <1>1, <1>2

\* The strengthened invariant holds of every run's launch.
THEOREM LaunchInvariant == LaunchSpec => []LaunchInv
  BY InitInvariant, NextInvariant, PTL DEF LaunchSpec

-----------------------------------------------------------------------------
\* The types and leases are right: a lease is of a running job, of an owned
\* launch.
THEOREM LaunchTypeCorrect == LaunchSpec => []LaunchTypeOK
<1>1. LaunchInv => LaunchTypeOK
  BY DEF LaunchInv
<1>2. QED BY <1>1, LaunchInvariant, PTL

\* A launch that a sweep ends as lost left no executor behind and has none
\* coming, for any number of workers that claimed its job.
THEOREM LostLeavesNothing == LaunchSpec => []LostLeftNothing
<1>1. LaunchInv => LostLeftNothing
  BY DEF LaunchInv
<1>2. QED BY <1>1, LaunchInvariant, PTL

\* An executor that exists under a failed or ready row is named by it.
THEOREM KeptExecutorsAreNamed == LaunchSpec => []KeptIsNamed
<1>1. LaunchInv => KeptIsNamed
  BY DEF LaunchInv, NamedInv, KeptIsNamed
<1>2. QED BY <1>1, LaunchInvariant, PTL

\* A runtime recorded ready is never that of a run recorded failed or
\* cancelled, its own create's rollback apart.
THEOREM ReadyRunsDidNotFail == LaunchSpec => []ReadyIsNotFailed
<1>1. LaunchInv => ReadyIsNotFailed
  BY DEF LaunchInv, DoomInv, Doomed, ReadyIsNotFailed
<1>2. QED BY <1>1, LaunchInvariant, PTL

\* An adapter is asked for the run's executor once at most.
THEOREM RunsAreLaunchedOnce == LaunchSpec => LaunchedOnce
<1> DEFINE Once ==
       \A c \in Claim : pc'[c] = "dispatched" /\ pc[c] # "dispatched" => executor = "none"
<1>1. LaunchInv /\ [LaunchNext]_launchVars => [Once]_launchVars
  <2> SUFFICES ASSUME LaunchInv, LaunchNext, NEW c \in Claim,
                      pc'[c] = "dispatched", pc[c] # "dispatched"
               PROVE  executor = "none"
    BY DEF Once
  <2>1. pc[c] = "pending"
    BY DEF LaunchInv, LaunchTypeOK, LaunchTypes, LaunchNext, WorkerStep, BuildStep,
       LaunchMoves, SweepStep, StopStep, Goto, ClaimJob, MarkRunning, Heartbeat,
       CommitBuild, StopBuilding, BuildFails, RecordPending, LaunchRefused, RenewLaunch,
       Dispatch, RecordStarted, RecordReady, FinishAttempt, FailWithout, FailWith, Abandon,
       LaunchLost, FailUnwritten, WorkerDies, LapseJob, LapseOwnership, PassGrace,
       IdentifyStranded, FailLost, Adopt, Preempt, PayAttempt, CancelUnbuilt, StopReads,
       StopRemoves, StopWrites, StopDies, RollBackJob, RollBackAttempt, CreationLands
  <2>2. QED BY <2>1 DEF LaunchInv, PointInv
<1>2. QED BY <1>1, LaunchInvariant, PTL DEF LaunchSpec, LaunchedOnce

\* A launch that was taken or failed is never finished over it.
THEOREM TakenLaunchesStayTaken == LaunchSpec => TakenIsNeverFinished
<1>1. LaunchInv /\ LaunchInv' /\ [LaunchNext]_launchVars
        => [code # "none" => row' \notin {"pending", "ready"} \/ row' = row]_launchVars
  <2> SUFFICES ASSUME LaunchInv, LaunchInv', LaunchNext, code # "none"
               PROVE  row' \notin {"pending", "ready"}
    OBVIOUS
  <2>1. code' # "none"
    BY DEF LaunchNext, WorkerStep, BuildStep, LaunchMoves, SweepStep, StopStep, LeaveFailed,
       rowVars, ClaimJob, MarkRunning, Heartbeat, CommitBuild, StopBuilding, BuildFails,
       RecordPending, LaunchRefused, RenewLaunch, Dispatch, RecordStarted, RecordReady,
       FinishAttempt, FailWithout, FailWith, Abandon, LaunchLost, FailUnwritten, WorkerDies,
       LapseJob, LapseOwnership, PassGrace, IdentifyStranded, FailLost, Adopt, Preempt,
       PayAttempt, CancelUnbuilt, StopReads, StopRemoves, StopWrites, StopDies, RollBackJob,
       RollBackAttempt, CreationLands, LaunchInv, CodeInv
  <2>2. QED BY <2>1 DEF LaunchInv, CodeInv
<1>2. QED BY <1>1, LaunchInvariant, PTL DEF LaunchSpec, TakenIsNeverFinished

-----------------------------------------------------------------------------
(***************************************************************************)
(* LaunchOwnership implements SingleLaunch.                                *)
(***************************************************************************)

\* What a stop and a launching pass know of the row they go by.
ReachedInv ==
    /\ stopper = "removing" => named
    /\ \A c \in Claim : pc[c] \in {"pending", "dispatched", "started"} => row # "none"

SingleInv == LaunchInv /\ ReachedInv

\* What a step may do to the row without a change of the launch that its run sees.
Unseen == UNCHANGED <<captures, row, code, named, executor>>

\* The initial states know nothing.
LEMMA SingleInitInv == LaunchInit => SingleInv
  BY InitInvariant DEF LaunchInit, SingleInv, ReachedInv

\* Every step keeps what they know: a row is never deleted, an executor on it
\* never forgotten.
LEMMA SingleStepKeepsInv == SingleInv /\ [LaunchNext]_launchVars => SingleInv'
<1> SUFFICES ASSUME SingleInv, [LaunchNext]_launchVars PROVE ReachedInv'
  BY NextInvariant DEF SingleInv
<1> USE DEF SingleInv, LaunchInv, LaunchTypeOK, LaunchTypes, ReachedInv, Goto, kinds,
     jobVars, lease, rowVars, others
<1>1. ASSUME NEW c \in Claim, BuildStep(c) PROVE ReachedInv'
  BY <1>1 DEF BuildStep, ClaimJob, MarkRunning, Heartbeat, CommitBuild, StopBuilding, BuildFails
<1>2. ASSUME NEW c \in Claim, LaunchMoves(c) \/ RenewLaunch(c) \/ WorkerDies(c)
      PROVE  ReachedInv'
  BY <1>2 DEF LaunchMoves, RecordPending, LaunchRefused, Dispatch, RecordStarted, RecordReady,
     FinishAttempt, FailWithout, FailWith, Abandon, LaunchLost, FailUnwritten, RenewLaunch,
     WorkerDies, LeaveFailed
<1>3. CASE SweepStep
  BY <1>3 DEF SweepStep, LapseJob, LapseOwnership, PassGrace, IdentifyStranded, FailLost, Adopt,
     Preempt, PayAttempt, LeaveFailed
<1>4. CASE StopStep
  BY <1>4 DEF StopStep, CancelUnbuilt, StopReads, StopRemoves, StopWrites, StopDies
<1>5. CASE RollBackJob \/ RollBackAttempt \/ CreationLands
  BY <1>5 DEF RollBackJob, RollBackAttempt, CreationLands
<1>6. CASE UNCHANGED launchVars
  BY <1>6 DEF launchVars
<1> QED BY <1>1, <1>2, <1>3, <1>4, <1>5, <1>6 DEF LaunchNext, WorkerStep

\* The outcome by the columns it is read from, before and after a step.
LEMMA OutcomeOfRow ==
  /\ row # "failed" \/ code = "other" => Outcome = row
  /\ row = "failed" /\ code = "retained" => Outcome = "retained"
  /\ row = "failed" /\ code = "lost" => Outcome = "lost"
  /\ row' # "failed" \/ code' = "other" => Outcome' = row'
  /\ row' = "failed" /\ code' = "retained" => Outcome' = "retained"
  /\ row' = "failed" /\ code' = "lost" => Outcome' = "lost"
  BY DEF Outcome

\* What leaves row and executor alone leaves the launch as its run sees it.
LEMMA UnseenStutters == Unseen => UNCHANGED Single!launchVars
  BY DEF Unseen, Outcome, Single!launchVars

\* Every step of a pass over the job is one of the single launch, or none.
LEMMA PassIsSingle ==
  ASSUME SingleInv, NEW c \in Claim, WorkerStep(c)
  PROVE  [Single!LaunchNext]_(Single!launchVars)
<1> USE DEF SingleInv, LaunchInv, ReachedInv, CodeInv, PointInv, Owns, LeaveFailed, LeaseTo,
     kinds, jobVars, lease, rowVars, others, Single!LaunchNext, Single!launchVars
<1>1. CASE ClaimJob(c) \/ MarkRunning(c) \/ Heartbeat(c) \/ CommitBuild(c) \/ StopBuilding(c)
           \/ FinishAttempt(c) \/ RenewLaunch(c) \/ WorkerDies(c)
  <2>1. Unseen
    BY <1>1 DEF Unseen, ClaimJob, MarkRunning, Heartbeat, CommitBuild, StopBuilding,
       FinishAttempt, RenewLaunch, WorkerDies
  <2> QED BY <2>1, UnseenStutters
<1>2. CASE BuildFails(c)
  <2>1. row = "none" /\ row' = "failed" /\ code' = "other"
    BY <1>2 DEF BuildFails, Holds, NothingBeforeFinal, Final
  <2> QED BY <1>2, <2>1, OutcomeOfRow DEF BuildFails, Single!Refuse
<1>3. CASE RecordPending(c)
  BY <1>3, OutcomeOfRow DEF RecordPending, Single!Record
<1>4. CASE LaunchRefused(c)
  BY <1>4, OutcomeOfRow DEF LaunchRefused, Single!Refuse
<1>5. CASE Dispatch(c)
  BY <1>5, OutcomeOfRow DEF Dispatch, Single!Ask
<1>6. CASE RecordStarted(c)
  BY <1>6, OutcomeOfRow DEF RecordStarted, Single!Find
<1>7. CASE RecordReady(c)
  BY <1>7, OutcomeOfRow DEF RecordReady, Single!Ready
<1>8. CASE FailWithout(c)
  BY <1>8, OutcomeOfRow DEF FailWithout, Single!Fail, Single!Leaves
<1>9. CASE FailWith(c)
  BY <1>9, OutcomeOfRow
     DEF FailWith, FailedExecutor, Single!Fail, Single!Retain, Single!Leaves
<1>10. CASE Abandon(c)
  BY <1>10, OutcomeOfRow DEF Abandon, FailedExecutor, Single!Retain, Single!Leaves
<1>11. CASE LaunchLost(c) \/ FailUnwritten(c)
  <2>1. row \notin {"none", "ready"} /\ executor' \in Single!Leaves /\ Outcome' = Outcome
    BY <1>11 DEF LaunchLost, FailUnwritten, FailedExecutor, Single!Leaves, Outcome
  <2>2. Outcome \notin {"none", "ready"}
    BY <2>1 DEF Outcome
  <2> QED BY <1>11, <2>1, <2>2 DEF LaunchLost, FailUnwritten, Single!CleanUp
<1> QED BY <1>1, <1>2, <1>3, <1>4, <1>5, <1>6, <1>7, <1>8, <1>9, <1>10, <1>11
        DEF WorkerStep, BuildStep, LaunchMoves

\* So is every step of the sweeps, the stop, the rollback and the runtime.
LEMMA OthersAreSingle ==
  ASSUME SingleInv, SweepStep \/ StopStep \/ RollBackJob \/ RollBackAttempt \/ CreationLands
  PROVE  [Single!LaunchNext]_(Single!launchVars)
<1> USE DEF SingleInv, LaunchInv, ReachedInv, CodeInv, Stranded, LeaveFailed, Owe,
     kinds, jobVars, lease, rowVars, others, Single!LaunchNext, Single!launchVars
<1>1. CASE \/ LapseJob \/ LapseOwnership \/ PassGrace
           \/ \E status \in {"failed", "cancelled"} : PayAttempt(status)
           \/ CancelUnbuilt \/ StopReads \/ StopDies \/ RollBackJob \/ RollBackAttempt
  <2>1. Unseen
    BY <1>1 DEF Unseen, LapseJob, LapseOwnership, PassGrace, PayAttempt, CancelUnbuilt,
       StopReads, StopDies, RollBackJob, RollBackAttempt
  <2> QED BY <2>1, UnseenStutters
<1>2. CASE IdentifyStranded
  BY <1>2, OutcomeOfRow DEF IdentifyStranded, Single!Find
<1>3. CASE FailLost
  <2>1. executor \in {"none", "gone"}
    BY <1>3 DEF FailLost, LaunchTypeOK, LaunchTypes
  <2> QED BY <1>3, <2>1, OutcomeOfRow DEF FailLost, Single!Lose
<1>4. CASE Adopt \/ Preempt
  BY <1>4, OutcomeOfRow DEF Adopt, Preempt, LaunchTypeOK, LaunchTypes, Single!Retain,
     Single!Leaves
<1>5. CASE StopRemoves
  <2>1. row # "none" /\ named /\ Outcome' = Outcome
    BY <1>5 DEF StopRemoves, Outcome
  <2>2. Outcome # "none"
    BY <2>1 DEF Outcome
  <2> QED BY <1>5, <2>1, <2>2 DEF StopRemoves, Single!End
<1>6. CASE StopWrites
  <2>1. row # "none" /\ Outcome' = "stopped"
    BY <1>6, OutcomeOfRow DEF StopWrites
  <2>2. Outcome # "none"
    BY <2>1 DEF Outcome
  <2> QED BY <1>6, <2>1, <2>2 DEF StopWrites, Single!Stop
<1>7. CASE CreationLands
  <2>1. Outcome' = Outcome
    BY <1>7 DEF CreationLands, Outcome
  <2> QED BY <1>7, <2>1 DEF CreationLands, Single!Land
<1> QED BY <1>1, <1>2, <1>3, <1>4, <1>5, <1>6, <1>7 DEF SweepStep, StopStep

\* For any number of claims, the launch its run sees is that of one process that
\* neither dies nor is late: asked for once, settled once, overruled only by a
\* stop (claimJobById, fenceLaunchOwner, adoptStrandedLaunchesEffect).
THEOREM LaunchIsSingle == LaunchSpec => ImplementsSingleLaunch
<1>1. LaunchInit => Single!LaunchInit
  BY DEF LaunchInit, Single!LaunchInit, Outcome
<1>2. SingleInv /\ [LaunchNext]_launchVars => [Single!LaunchNext]_(Single!launchVars)
  <2> SUFFICES ASSUME SingleInv, [LaunchNext]_launchVars
               PROVE  [Single!LaunchNext]_(Single!launchVars)
    OBVIOUS
  <2>1. CASE UNCHANGED launchVars
    <3>1. Unseen
      BY <2>1 DEF launchVars, kinds, rowVars, Unseen
    <3> QED BY <3>1, UnseenStutters
  <2> QED BY <2>1, PassIsSingle, OthersAreSingle DEF LaunchNext
<1> QED BY <1>1, <1>2, SingleInitInv, SingleStepKeepsInv, PTL
        DEF LaunchSpec, ImplementsSingleLaunch, Single!LaunchSpec

-----------------------------------------------------------------------------
(***************************************************************************)
(* What PendingSettles rests on beside fairness: a pending row is of some  *)
(* pass, and once that pass launches no more, nothing goes back.           *)
(***************************************************************************)

PendingIsOwned == row = "pending" => owner \in Claim

\* The pass that owns the launch is over with it, dead or not.
Deserted == row = "pending" /\ pc[owner] \notin {"pending", "dispatched", "started"}

\* No lease is given again, no grace or name taken back, no creation begun; and
\* a sweep that could tell what became of the executor still can.
NeverBack ==
    /\ owner' = owner
    /\ ownLive' => ownLive
    /\ graceOver => graceOver'
    /\ named => named'
    /\ executor' = "creating" => executor = "creating"
    /\ CanBeSettled => CanBeSettled'

DesertedOnlySettles ==
    [][Deserted => row' # "pending" \/ (Deserted' /\ NeverBack)]_launchVars

\* A step of a pass leaves a pending row to an owner.
LEMMA PassKeepsOwned ==
  ASSUME LaunchInv, PendingIsOwned, NEW c \in Claim, WorkerStep(c)
  PROVE  PendingIsOwned'
  BY DEF PendingIsOwned, WorkerStep, BuildStep, LaunchMoves, LaunchInv, PointInv,
     LeaveFailed, LeaseTo, ReleaseLaunch, kinds, jobVars, lease, rowVars, others, ClaimJob,
     MarkRunning, Heartbeat, CommitBuild, StopBuilding, BuildFails, RecordPending,
     LaunchRefused, RenewLaunch, Dispatch, RecordStarted, RecordReady, FinishAttempt,
     FailWithout, FailWith, Abandon, LaunchLost, FailUnwritten, WorkerDies

\* So does every other one.
LEMMA OthersKeepOwned ==
  ASSUME PendingIsOwned, SweepStep \/ StopStep \/ RollBackJob \/ RollBackAttempt \/ CreationLands
  PROVE  PendingIsOwned'
  BY DEF PendingIsOwned, SweepStep, StopStep, LeaveFailed, ReleaseLaunch, kinds, jobVars,
     lease, rowVars, others, LapseJob, LapseOwnership, PassGrace, IdentifyStranded,
     FailLost, Adopt, Preempt, PayAttempt, CancelUnbuilt, StopReads, StopRemoves,
     StopWrites, StopDies, RollBackJob, RollBackAttempt, CreationLands

\* Whatever a pass does of a launch that its owner deserted, the owner stays
\* away and nothing goes back.
LEMMA PassStaysAway ==
  ASSUME SingleInv, PendingIsOwned, Deserted, NEW c \in Claim, WorkerStep(c), row' = "pending"
  PROVE  Deserted' /\ NeverBack
<1> USE DEF Deserted, NeverBack, CanBeSettled, PendingIsOwned, SingleInv, LaunchInv, LaunchTypeOK,
     LaunchTypes, Goto, Owns, kinds, jobVars, lease, rowVars, others
<1>1. CASE ClaimJob(c) \/ MarkRunning(c) \/ Heartbeat(c)
  BY <1>1 DEF ClaimJob, MarkRunning, Heartbeat
<1>2. CASE CommitBuild(c) \/ StopBuilding(c) \/ BuildFails(c)
  BY <1>2 DEF CommitBuild, StopBuilding, BuildFails
<1>3. CASE RecordPending(c) \/ LaunchRefused(c)
  BY <1>3 DEF RecordPending, LaunchRefused, LeaveFailed, PointInv
<1>4. CASE RenewLaunch(c) \/ Dispatch(c) \/ RecordStarted(c) \/ RecordReady(c)
  BY <1>4 DEF RenewLaunch, Dispatch, RecordStarted, RecordReady
<1>5. CASE FailWithout(c) \/ FailWith(c) \/ Abandon(c)
  BY <1>5 DEF FailWithout, FailWith, Abandon, LeaveFailed
<1>6. CASE FinishAttempt(c) \/ WorkerDies(c)
  BY <1>6 DEF FinishAttempt, WorkerDies
<1>7. CASE LaunchLost(c) \/ FailUnwritten(c)
  BY <1>7 DEF LaunchLost, FailUnwritten, FailedExecutor
<1> QED BY <1>1, <1>2, <1>3, <1>4, <1>5, <1>6, <1>7 DEF WorkerStep, BuildStep, LaunchMoves

\* The sweeps, the stop, the rollback and the runtime take nothing back either.
LEMMA OthersStayAway ==
  ASSUME SingleInv, Deserted,
         SweepStep \/ StopStep \/ RollBackJob \/ RollBackAttempt \/ CreationLands,
         row' = "pending"
  PROVE  Deserted' /\ NeverBack
  BY DEF Deserted, NeverBack, CanBeSettled, SingleInv, ReachedInv, SweepStep, StopStep,
     LeaveFailed, kinds, jobVars, lease, rowVars, others, LapseJob, LapseOwnership,
     PassGrace, IdentifyStranded, FailLost, Adopt, Preempt, PayAttempt, CancelUnbuilt,
     StopReads, StopRemoves, StopWrites, StopDies, RollBackJob, RollBackAttempt,
     CreationLands

\* However many passes there are, a pending launch is some pass', and one that
\* its pass left only gets nearer to a sweep's settling it: its lease stays
\* lapsed, a creation lands, and where a sweep can tell what became of the
\* executor it can still when it comes (adoptStrandedLaunchesEffect,
\* renewLaunchLease, RuntimeAdapter.locate).
THEOREM DesertedLaunchesSettle == LaunchSpec => []PendingIsOwned /\ DesertedOnlySettles
<1> DEFINE Step == Deserted => row' # "pending" \/ (Deserted' /\ NeverBack)
<1>1. LaunchInit => PendingIsOwned
  BY DEF LaunchInit, PendingIsOwned
<1>2. LaunchInv /\ PendingIsOwned /\ [LaunchNext]_launchVars => PendingIsOwned'
  <2>1. CASE UNCHANGED launchVars
    BY <2>1 DEF PendingIsOwned, launchVars, rowVars, lease
  <2> QED BY <2>1, PassKeepsOwned, OthersKeepOwned DEF LaunchNext
<1>3. SingleInv /\ PendingIsOwned /\ [LaunchNext]_launchVars => [Step]_launchVars
  BY PassStaysAway, OthersStayAway DEF LaunchNext
<1>4. SingleInv => LaunchInv
  BY DEF SingleInv
<1> QED BY <1>1, <1>2, <1>3, <1>4, SingleInitInv, SingleStepKeepsInv, PTL
        DEF LaunchSpec, DesertedOnlySettles

=============================================================================
