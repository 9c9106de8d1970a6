-------------------------- MODULE RuntimeExitProofs --------------------------
(***************************************************************************)
(* Proofs about RuntimeExit, for any stops and passes and any number of    *)
(* faults: no executor with unsaved work is out of every sweep's sight,    *)
(* none is removed that is not saved, given up or lost, and what the rows  *)
(* and the record say of one that ended is so.                             *)
(***************************************************************************)
EXTENDS RuntimeExit, TLAPS

(***************************************************************************)
(* The inductive invariant: the types, what holds of each process where it *)
(* stands, and what holds of the run.                                      *)
(***************************************************************************)
Removal == {"bare", "ticket", "reissue"}

\* A call of p's that, refused, would give its removal up again.
Refusable(p) ==
    /\ proc[p].at = "calling" /\ proc[p].verdict = "ticket"
    /\ holder = p /\ deletion = "issued"

Lost == exec = "missing" /\ endedBy = "platform"

\* The executor will never be booted again, whoever still means to.
Final ==
    \/ ~captures \/ discard \/ Lost
    \/ /\ deletion \in {"issued", "deleted"}
       /\ \A p \in Process : ~Refusable(p)

\* Nobody but a recovery has the executor up.
Quiet == retained \/ exec # "running"

\* Where a process may stand with which verdict.
Placed(p) ==
    /\ proc[p].at \in {"requested", "calling", "ended", "recorded"}
          => proc[p].verdict \in Removal \/ (p = Recovery /\ exec = "missing")
    /\ proc[p].at = "decided" => proc[p].verdict # "none"
    /\ p \notin Pass => proc[p].list = "none"
    /\ p \in Stop =>
          /\ proc[p].verdict # "missing"
          /\ proc[p].at = "decided" => proc[p].verdict \in Removal
    /\ proc[p].list = "exit" => proc[p].verdict # "missing"

\* What it saw, and what it made of that, still holds.
StillSo(p) ==
    /\ proc[p].seen = "missing" => exec = "missing"
    /\ proc[p].verdict = "bare" => Final
    /\ proc[p].verdict \in {"ticket", "reissue"} => captures /\ work = "recorded"
    /\ proc[p].verdict = "keep" => captures
    /\ proc[p].verdict = "missing" => Lost
    /\ proc[p].at \in {"decided", "requested"} /\ proc[p].verdict = "ticket" /\ holder = p
          => deletion # "issued"

\* Once its call is out the executor is as good as gone, and once it is done it
\* is down; the row of one a stop took down says so.
Downed(p) ==
    /\ proc[p].at = "calling" => Final \/ Refusable(p)
    /\ proc[p].at \in {"ended", "recorded", "removed", "completing", "observing"}
          => /\ Final /\ exec # "running"
             /\ p \notin Stop \/ ~keeps \/ proc[p].at = "removed" => exec = "missing"
    /\ p \in Stop /\ proc[p].at \in {"recorded", "removed", "completing", "observing"}
          => status = "stopped"

\* An exit that was seen stays one, but for a recovery; a stop announces itself
\* before it ends anything.
Told(p) ==
    /\ proc[p].list = "exit" => code # "launch-retained"
    /\ proc[p].list = "exit" /\ proc[p].at \in {"looked", "decided"} => Quiet
    /\ p \in Stop /\ proc[p].at \in {"requested", "calling"} => planned \/ status = "stopped"

LocalAt(p) == Placed(p) /\ StillSo(p) /\ Downed(p) /\ Told(p)

\* A removal that was ever authorized rests on recorded evidence; what is gone is
\* gone for good, what was removed on the record is down.
RemovalInv ==
    /\ deletion # "none" => captures /\ work = "recorded"
    /\ exec = "missing" => Final
    /\ removed => exec = "missing"
    /\ deletion = "deleted" => exec # "running"

\* A recovery is of what is retained.
RecoveryInv ==
    /\ retained => captures
    /\ proc[Recovery].at # "idle" => captures /\ (retained \/ Final)

\* What the record calls gone was lost; what it calls stopped, and a retained
\* launch that was stopped, is done with or still listed.
LedgerInv ==
    /\ ledger = "gone" => exec = "missing" /\ (endedBy = "platform" \/ discard)
    /\ ledger = "stopped" \/ (status = "stopped" /\ code = "launch-retained" /\ captures)
          => \/ exec = "missing" \/ work = "recorded"
             \/ discard /\ keeps /\ status = "stopped"

RowInv ==
    /\ status = "ready" => code # "launch-retained"
    /\ endedBy = "stop" => planned \/ status = "stopped"
    /\ status = "stopped" => Quiet

RunInv == RemovalInv /\ RecoveryInv /\ LedgerInv /\ RowInv

ExitInv == ExitTypeOK /\ RunInv /\ \A p \in Process : LocalAt(p)

-----------------------------------------------------------------------------
(***************************************************************************)
(* What a step of a process writes of where it stands.                     *)
(***************************************************************************)
\* Process p goes to place s with this list, sight and verdict; no other moves.
Goes(p, s, l, w, v) ==
    /\ proc' \in [Process -> Local]
    /\ \A q \in Process : q # p => proc'[q] = proc[q]
    /\ proc'[p].at = s /\ proc'[p].list = l /\ proc'[p].seen = w /\ proc'[p].verdict = v

LEMMA PutGoes ==
    ASSUME NEW p \in Process, NEW l \in Local, proc \in [Process -> Local], Put(p, l)
    PROVE  Goes(p, l.at, l.list, l.seen, l.verdict)
BY DEF Put, Goes

LEMMA DoneGoes ==
    ASSUME NEW p \in Process, proc \in [Process -> Local], Done(p)
    PROVE  Goes(p, "idle", "none", "none", "none")
<1>1. Idle \in Local BY DEF Idle, Local, Place, Sight, Verdict
<1>2. QED BY <1>1, PutGoes DEF Done, Idle

LEMMA MoveToGoes ==
    ASSUME NEW p \in Process, NEW s \in Place, proc \in [Process -> Local], MoveTo(p, s)
    PROVE  Goes(p, s, proc[p].list, proc[p].seen, proc[p].verdict)
<1> DEFINE l == [proc[p] EXCEPT !.at = s]
<1>1. l \in Local BY DEF Local, Place, Sight, Verdict
<1>2. Goes(p, l.at, l.list, l.seen, l.verdict) BY <1>1, PutGoes DEF MoveTo
<1>3. QED BY <1>2 DEF Local

LEMMA SeesGoes ==
    ASSUME NEW p \in Process, NEW w \in Sight, proc \in [Process -> Local], Sees(p, w)
    PROVE  Goes(p, "looked", proc[p].list, w, proc[p].verdict)
<1> DEFINE l == [proc[p] EXCEPT !.at = "looked", !.seen = w]
<1>1. l \in Local
  <2>1. proc[p] \in Local OBVIOUS
  <2>2. "looked" \in Place BY DEF Place
  <2>3. QED BY <2>1, <2>2 DEF Local
<1>2. Goes(p, l.at, l.list, l.seen, l.verdict) BY <1>1, PutGoes DEF Sees
<1>3. QED BY <1>2 DEF Local

\* What p keeps of its sight.
Kept(p) == IF p \in Stop THEN proc[p].seen ELSE "none"

LEMMA DecidesGoes ==
    ASSUME NEW p \in Process, NEW v \in Verdict, NEW s \in Place,
           proc \in [Process -> Local], Decides(p, v, s)
    PROVE  Goes(p, s, proc[p].list, Kept(p), v)
<1> DEFINE l == [proc[p] EXCEPT !.verdict = v, !.at = s,
                                !.seen = Kept(p)]
<1>1. l \in Local
  <2>1. proc[p] \in Local OBVIOUS
  <2>2. Kept(p) \in Sight BY <2>1 DEF Local, Kept, Sight
  <2>3. QED BY <2>1, <2>2 DEF Local
<1>2. Goes(p, l.at, l.list, l.seen, l.verdict) BY <1>1, PutGoes DEF Decides, Kept
<1>3. QED BY <1>2 DEF Local

LEMMA RequestsGoes ==
    ASSUME NEW p \in Process, NEW v \in Verdict, NEW s \in Place,
           proc \in [Process -> Local], Requests(p, v, s)
    PROVE  Goes(p, s, "none", Kept(p), v)
<1> DEFINE l == [Idle EXCEPT !.at = s, !.verdict = v,
                             !.seen = IF p \in Stop THEN proc[p].seen ELSE "none"]
<1>1. l \in Local BY DEF Local, Idle, Place, Sight, Verdict
<1>2. Goes(p, l.at, l.list, l.seen, l.verdict) BY <1>1, PutGoes DEF Requests
<1>3. QED BY <1>2 DEF Idle, Kept

LEMMA CallsGoes ==
    ASSUME NEW p \in Process, proc \in [Process -> Local], Calls(p)
    PROVE  Goes(p, "calling", "none", "none", proc[p].verdict)
<1> DEFINE l == [Idle EXCEPT !.at = "calling", !.verdict = proc[p].verdict]
<1>1. l \in Local BY DEF Local, Idle, Place, Sight, Verdict
<1>2. Goes(p, l.at, l.list, l.seen, l.verdict) BY <1>1, PutGoes DEF Calls
<1>3. QED BY <1>2 DEF Idle

LEMMA StartsGoes ==
    ASSUME NEW p \in Process, NEW s \in Place, NEW v \in Verdict,
           NEW ls \in {"none", "exit", "unsettled", "remains"},
           proc \in [Process -> Local], Starts(p, s, ls, v)
    PROVE  Goes(p, s, ls, "none", v)
<1> DEFINE l == [Idle EXCEPT !.at = s, !.list = ls, !.verdict = v,
                             !.noted = (ls = "exit" /\ planned)]
<1>1. l \in Local
  <2>1. (ls = "exit" /\ planned) \in BOOLEAN OBVIOUS
  <2>2. "none" \in Sight BY DEF Sight
  <2>3. QED BY <2>1, <2>2 DEF Local, Idle
<1>2. Goes(p, l.at, l.list, l.seen, l.verdict) BY <1>1, PutGoes DEF Starts
<1>3. QED BY <1>2 DEF Idle

\* The types by part: those that are truth values, and the others.
ExitFlags ==
    /\ captures \in BOOLEAN /\ keeps \in BOOLEAN
    /\ planned \in BOOLEAN /\ removed \in BOOLEAN
    /\ retained \in BOOLEAN /\ discard \in BOOLEAN /\ live \in BOOLEAN

ExitPlaces ==
    /\ status \in {"ready", "failed", "stopped"}
    /\ code \in {"none", "launch-retained", "runtime-exited"}
    /\ ledger \in {"open", "stopped", "gone"}
    /\ deletion \in {"none", "deleting", "issued", "deleted"}
    /\ holder \in Process \cup {Nobody}
    /\ exec \in Inspection
    /\ work \in {"unsaved", "sealed", "recorded"}
    /\ endedBy \in {"other", "stop", "platform"}
    /\ proc \in [Process -> Local]
    /\ faults \in 0..MaxFaults

LEMMA ExitTypesByPart ==
    /\ ExitTypes => ExitFlags /\ ExitPlaces
    /\ ExitFlags' /\ ExitPlaces' /\ HoldsOfRemovals' => ExitTypeOK'
<1>1. ExitTypes => ExitFlags /\ ExitPlaces BY Zenon DEF ExitTypes, ExitFlags, ExitPlaces
<1>2. ExitFlags' /\ ExitPlaces' /\ HoldsOfRemovals' => ExitTypeOK'
  BY Zenon DEF ExitTypes, ExitTypeOK, ExitFlags, ExitPlaces
<1>3. QED BY <1>1, <1>2

-----------------------------------------------------------------------------
(***************************************************************************)
(* What no step takes back, so that what a process knows stays true while  *)
(* others move.                                                            *)
(***************************************************************************)
Lasts(p) ==
    /\ captures' = captures /\ keeps' = keeps
    /\ Final => Final'
    /\ exec = "missing" => exec' = "missing"
    /\ Lost => Lost'
    /\ Final /\ exec # "running" => exec' # "running"
    /\ Quiet => Quiet'
    /\ work = "recorded" => work' = "recorded"
    /\ status = "stopped" => status' = "stopped"
    /\ planned => planned'
    /\ code # "launch-retained" => code' # "launch-retained"
    /\ \A q \in Process : q # p =>
          /\ Refusable(q) => Refusable(q)' \/ Final'
          /\ holder' = q => holder = q /\ (deletion' = "issued" => deletion = "issued")

LEMMA OthersStand ==
    ASSUME ExitInv, NEW p, NEW q \in Process, q # p, proc'[q] = proc[q], Lasts(p)
    PROVE  LocalAt(q)'
<1>1. LocalAt(q) BY DEF ExitInv
<1>2. Placed(q)' BY <1>1 DEF LocalAt, Placed, Lasts
<1>3. StillSo(q)'
  BY <1>1 DEF LocalAt, StillSo, Lasts
<1>4. Downed(q)'
  BY <1>1 DEF LocalAt, Downed, Lasts
<1>5. Told(q)'
  BY <1>1 DEF LocalAt, Told, Lasts
<1>6. QED BY <1>2, <1>3, <1>4, <1>5 DEF LocalAt

-----------------------------------------------------------------------------
(***************************************************************************)
(* Steps of a process that write nothing but where it stands.              *)
(***************************************************************************)
LEMMA FaultTypes ==
    ASSUME ExitTypes, Fault \/ UNCHANGED faults
    PROVE  faults' \in 0..MaxFaults
BY ExitAssumption DEF Fault, ExitTypes

LEMMA MoveKeeps ==
    ASSUME ExitInv, NEW p \in Process, NEW s, NEW l, NEW w, NEW v, Goes(p, s, l, w, v),
           UNCHANGED <<kinds, row, drain, hold, guest>>, Fault \/ UNCHANGED faults,
           s = "calling" => v # "ticket",
           p = Recovery => s = "idle" \/ (captures /\ (retained \/ Final)),
           LocalAt(p)'
    PROVE  ExitInv'
<1> USE DEF kinds, row, drain, hold, guest
<1>1. ExitTypeOK'
  <2>1. ExitFlags /\ ExitPlaces BY ExitTypesByPart DEF ExitInv, ExitTypeOK
  <2>2. faults' \in 0..MaxFaults BY FaultTypes DEF ExitInv, ExitTypeOK
  <2>3. ExitFlags' BY <2>1, Zenon DEF ExitFlags
  <2>4. ExitPlaces' BY <2>1, <2>2 DEF ExitPlaces, Goes
  <2>5. HoldsOfRemovals' BY DEF HoldsOfRemovals, ExitInv, ExitTypeOK
  <2>6. QED BY <2>3, <2>4, <2>5, ExitTypesByPart
<1>2. Final => Final' BY DEF Final, Refusable, Lost, Goes
<1>3. Lasts(p) BY <1>2 DEF Lasts, Lost, Quiet, Refusable, Goes
<1>4. RunInv'
  <2>1. RemovalInv' BY <1>2 DEF ExitInv, RunInv, RemovalInv
  <2>2. RecoveryInv' BY <1>2 DEF ExitInv, RunInv, RecoveryInv, Goes, Process
  <2>3. LedgerInv' /\ RowInv' BY DEF ExitInv, RunInv, LedgerInv, RowInv, Quiet
  <2>4. QED BY <2>1, <2>2, <2>3 DEF RunInv
<1>5. \A q \in Process : q # p => LocalAt(q)' BY <1>3, OthersStand DEF Goes
<1>6. QED BY <1>1, <1>4, <1>5 DEF ExitInv

\* What a step starts from.
LEMMA Standing ==
    ASSUME ExitInv, NEW p \in Process
    PROVE  /\ proc \in [Process -> Local] /\ proc[p] \in Local /\ exec \in Sight
           /\ RemovalInv /\ RecoveryInv /\ LedgerInv /\ RowInv
           /\ Placed(p) /\ StillSo(p) /\ Downed(p) /\ Told(p)
BY DEF ExitInv, ExitTypeOK, ExitTypes, RunInv, LocalAt, Inspection, Sight

\* Nobody is anywhere: what a process has when it is done.
LEMMA DoneKeeps ==
    ASSUME ExitInv, NEW p \in Process, Done(p),
           UNCHANGED <<kinds, row, drain, hold, guest>>, Fault \/ UNCHANGED faults
    PROVE  ExitInv'
<1>1. Goes(p, "idle", "none", "none", "none") BY DoneGoes, Standing
<1>2. LocalAt(p)' BY <1>1 DEF Goes, LocalAt, Placed, StillSo, Downed, Told
<1>3. QED BY <1>1, <1>2, MoveKeeps

LEMMA LooksKeep ==
    ASSUME ExitInv, NEW p \in Process,
           \/ Begins(p) \/ (p = Recovery /\ BeginRecovery)
           \/ Inspect(p) \/ HeldElsewhere(p) \/ Dies(p)
    PROVE  ExitInv'
<1> USE Standing DEF LocalAt
<1>0. /\ {"looking", "decided", "calling"} \subseteq Place
      /\ {"none", "bare"} \subseteq Verdict
  BY DEF Place, Verdict
<1>1. CASE BeginStop(p)
  <2>1. \/ captures /\ discard /\ Goes(p, "decided", "none", "none", "bare")
        \/ Goes(p, "looking", "none", "none", "none")
    BY <1>0, <1>1, StartsGoes DEF BeginStop
  <2>2. LocalAt(p)'
    BY <1>1, <2>1, ExitAssumption
    DEF Goes, BeginStop, Placed, StillSo, Downed, Told, Removal, Final, kinds, drain
  <2>3. QED BY <1>1, <2>1, <2>2, MoveKeeps, ExitAssumption DEF BeginStop
<1>2. CASE ListReady(p)
  <2>1. Goes(p, "looking", "exit", "none", "none")
    BY <1>0, <1>2, StartsGoes DEF ListReady
  <2>2. LocalAt(p)'
    BY <1>2, <2>1, ExitAssumption
    DEF Goes, ListReady, Placed, StillSo, Downed, Told, RowInv, row
  <2>3. QED BY <1>2, <2>1, <2>2, MoveKeeps, ExitAssumption DEF ListReady
<1>3. CASE ListUnsettled(p)
  <2>1. Goes(p, "looking", "unsettled", "none", "none")
    BY <1>0, <1>3, StartsGoes DEF ListUnsettled
  <2>2. LocalAt(p)'
    BY <1>3, <2>1, ExitAssumption DEF Goes, ListUnsettled, Placed, StillSo, Downed, Told
  <2>3. QED BY <1>3, <2>1, <2>2, MoveKeeps, ExitAssumption DEF ListUnsettled
<1>4. CASE ListRemains(p)
  <2>1. Goes(p, "calling", "remains", "none", "bare")
    BY <1>0, <1>4, StartsGoes DEF ListRemains
  <2>2. Final
    BY <1>4 DEF ListRemains, StoppedWithRemains, Final, Refusable
  <2>3. Final' BY <1>4, <2>1, <2>2
    DEF Goes, Final, Refusable, Lost, ListRemains, kinds, row, drain, hold, guest
  <2>4. LocalAt(p)'
    BY <1>4, <2>1, <2>3, ExitAssumption
    DEF Goes, ListRemains, Placed, StillSo, Downed, Told, Removal
  <2>5. QED BY <1>4, <2>1, <2>4, MoveKeeps, ExitAssumption DEF ListRemains
<1>5. CASE p = Recovery /\ BeginRecovery
  <2>1. Goes(p, "looking", "none", "none", "none")
    BY <1>0, <1>5, StartsGoes DEF BeginRecovery
  <2>2. LocalAt(p)'
    BY <1>5, <2>1, ExitAssumption DEF Goes, BeginRecovery, Placed, StillSo, Downed, Told
  <2>3. QED BY <1>5, <2>1, <2>2, MoveKeeps DEF BeginRecovery, RecoveryInv
<1>6. CASE Inspect(p)
  <2>1. CASE Done(p) BY <1>6, <2>1, DoneKeeps DEF Inspect
  <2>2. CASE ~Done(p)
    <3>1. PICK w \in Sight :
            /\ Sees(p, w) /\ (w = "missing" => exec = "missing")
            /\ proc[p].list = "exit" => exec # "running"
      BY <1>6, <2>2, ExitAssumption DEF Inspect, Sight, Placed
    <3>2. Goes(p, "looked", proc[p].list, w, proc[p].verdict) BY <3>1, SeesGoes
    <3>3. Final => Final' BY <1>6, <3>2
      DEF Goes, Final, Refusable, Lost, Inspect, kinds, row, drain, hold, guest
    <3>4. LocalAt(p)'
      BY <1>6, <3>1, <3>2, <3>3
      DEF Goes, Inspect, Placed, StillSo, Downed, Told, Lost, Quiet, kinds, row, drain, hold, guest
    <3>5. QED BY <1>6, <3>1, <3>2, <3>4, MoveKeeps DEF Inspect, RecoveryInv
  <2>3. QED BY <2>1, <2>2
<1>7. CASE HeldElsewhere(p) BY <1>7, DoneKeeps DEF HeldElsewhere
<1>8. CASE Dies(p) BY <1>8, DoneKeeps DEF Dies
<1>9. QED BY <1>1, <1>2, <1>3, <1>4, <1>5, <1>6, <1>7, <1>8 DEF Begins

-----------------------------------------------------------------------------
(***************************************************************************)
(* Decisions.                                                              *)
(***************************************************************************)

\* A step of p's that also writes what is shared.
LEMMA StepKeeps ==
    ASSUME ExitInv, NEW p \in Process, NEW s, NEW l, NEW w, NEW v, Goes(p, s, l, w, v),
           ExitFlags', ExitPlaces', HoldsOfRemovals', Lasts(p), LocalAt(p)', RunInv'
    PROVE  ExitInv'
<1>1. \A q \in Process : q # p => LocalAt(q)' BY OthersStand DEF Goes
<1>2. QED BY <1>1, ExitTypesByPart DEF ExitInv

\* The types before a step, by part.
LEMMA TypesBefore ==
    ASSUME ExitInv
    PROVE  ExitFlags /\ ExitPlaces /\ HoldsOfRemovals
BY ExitTypesByPart DEF ExitInv, ExitTypeOK

\* What a process retains of its own accord, and is done.
LEMMA RetainKeeps ==
    ASSUME ExitInv, NEW p \in Process, captures, Retain, Done(p),
           UNCHANGED <<kinds, row, hold, guest, faults>>
    PROVE  ExitInv'
<1> USE Standing, TypesBefore DEF Retain, LocalAt, Goes, kinds, row, drain, hold, guest
<1>1. Goes(p, "idle", "none", "none", "none") BY DoneGoes
<1>2. ExitFlags' BY DEF ExitFlags
<1>3. ExitPlaces' BY <1>1 DEF ExitPlaces
<1>4. HoldsOfRemovals' BY DEF HoldsOfRemovals
<1>5. Final => Final' BY <1>1 DEF Final, Refusable, Lost
<1>6. Lasts(p) BY <1>1, <1>5 DEF Lasts, Lost, Quiet, Refusable
<1>7. LocalAt(p)' BY <1>1 DEF Placed, StillSo, Downed, Told
<1>8. RunInv' BY <1>1, <1>5
  DEF RunInv, RemovalInv, RecoveryInv, LedgerInv, RowInv, Quiet, Process
<1>9. QED BY <1>1, <1>2, <1>3, <1>4, <1>6, <1>7, <1>8, StepKeeps

\* Where a grant takes its process.
LEMMA GrantGoes ==
    ASSUME NEW p \in Process, NEW v \in Verdict, proc \in [Process -> Local], Grant(p, v)
    PROVE  \/ /\ p \in Stop \/ proc[p].list = "exit"
              /\ Goes(p, "decided", proc[p].list, Kept(p), v)
           \/ p \notin Stop /\ Goes(p, "requested", "none", Kept(p), v)
<1>1. "decided" \in Place /\ "requested" \in Place BY DEF Place
<1>2. QED BY <1>1, DecidesGoes, RequestsGoes DEF Grant

LEMMA DecisionsKeep ==
    ASSUME ExitInv, NEW p \in Process,
           Settle(p) \/ AuthorizeDeletion(p) \/ AllowUnheld(p) \/ Keep(p)
    PROVE  ExitInv'
<1> USE Standing, TypesBefore DEF LocalAt, Goes, kinds, row, drain, hold, guest
<1>1. CASE Settle(p)
  <2> USE <1>1 DEF Settle, Unresolved
  <2>1. CASE RecordDeleted /\ UNCHANGED proc /\ proc[p].seen = "missing"
    <3> USE <2>1 DEF RecordDeleted
    <3>1. Goes(p, proc[p].at, proc[p].list, proc[p].seen, proc[p].verdict) OBVIOUS
    <3>2. ExitFlags' BY DEF ExitFlags
    <3>3. ExitPlaces' BY DEF ExitPlaces
    <3>4. HoldsOfRemovals' BY DEF HoldsOfRemovals
    <3>5. Final' BY DEF Final, Refusable
    <3>6. Lasts(p) BY <3>5, ExitAssumption DEF Lasts, Lost, Quiet, Process
    <3>7. LocalAt(p)' BY <3>5
      DEF Placed, StillSo, Downed, Told, Decidable, Lost, Quiet, ExitPlaces
    <3>8. RunInv' BY <3>5
      DEF RunInv, RemovalInv, RecoveryInv, LedgerInv, RowInv, StillSo, Quiet
    <3>9. QED BY <3>1, <3>2, <3>3, <3>4, <3>6, <3>7, <3>8, StepKeeps
  <2>2. CASE holder' = p /\ live' = TRUE /\ Grant(p, "reissue") /\ UNCHANGED deletion
    <3> USE <2>2
    <3>1. PICK s, l, w : /\ Goes(p, s, l, w, "reissue")
                         /\ \/ s = "decided" /\ l = proc[p].list /\ w = Kept(p)
                               /\ (p \in Stop \/ proc[p].list = "exit")
                            \/ s = "requested" /\ l = "none" /\ w = Kept(p) /\ p \notin Stop
      BY GrantGoes DEF Verdict
    <3>2. ExitFlags' BY DEF ExitFlags
    <3>3. ExitPlaces' BY <3>1 DEF ExitPlaces
    <3>4. HoldsOfRemovals' BY ExitAssumption DEF HoldsOfRemovals, Process
    <3>5. Final' BY <3>1 DEF Final, Refusable
    <3>6. Lasts(p) BY <3>1, <3>5 DEF Lasts, Lost, Quiet, Refusable
    <3>7. LocalAt(p)' BY <3>1, <3>5
      DEF Placed, StillSo, Downed, Told, Decidable, Kept, Quiet, Removal, RemovalInv, Lost
    <3>8. RunInv' BY <3>1, <3>5
      DEF RunInv, RemovalInv, RecoveryInv, LedgerInv, RowInv, Quiet, Decidable, Process
    <3>9. QED BY <3>1, <3>2, <3>3, <3>4, <3>6, <3>7, <3>8, StepKeeps
  <2>3. QED BY <2>1, <2>2
<1>2. CASE AuthorizeDeletion(p)
  <2> USE <1>2 DEF AuthorizeDeletion
  <2>0. captures /\ work = "recorded" BY DEF Basis
  <2>1. CASE deletion = "deleted" /\ Grant(p, "bare") /\ UNCHANGED hold
    <3> USE <2>1
    <3>1. PICK s, l, w : /\ Goes(p, s, l, w, "bare")
                         /\ \/ s = "decided" /\ l = proc[p].list /\ w = Kept(p)
                               /\ (p \in Stop \/ proc[p].list = "exit")
                            \/ s = "requested" /\ l = "none" /\ w = Kept(p) /\ p \notin Stop
      BY GrantGoes DEF Verdict
    <3>2. Final' BY <3>1 DEF Final, Refusable
    <3>3. LocalAt(p)' BY <3>1, <3>2
      DEF Placed, StillSo, Downed, Told, Decidable, Kept, Quiet, Removal
    <3>4. QED BY <3>1, <3>3, MoveKeeps DEF Decidable, RecoveryInv
  <2>2. CASE /\ deletion # "deleted" /\ ~Held
             /\ deletion' = "deleting" /\ holder' = p /\ live' = TRUE
             /\ Grant(p, "ticket")
    <3> USE <2>2
    <3>1. PICK s, l, w : /\ Goes(p, s, l, w, "ticket")
                         /\ \/ s = "decided" /\ l = proc[p].list /\ w = Kept(p)
                               /\ (p \in Stop \/ proc[p].list = "exit")
                            \/ s = "requested" /\ l = "none" /\ w = Kept(p) /\ p \notin Stop
      BY GrantGoes DEF Verdict
    <3>2. ExitFlags' BY DEF ExitFlags
    <3>3. ExitPlaces' BY <3>1 DEF ExitPlaces
    <3>4. HoldsOfRemovals' BY ExitAssumption DEF HoldsOfRemovals, Process
    <3>5. Final => Final' BY DEF Final, Lost
    <3>6. Lasts(p) BY <3>1, <3>5 DEF Lasts, Lost, Quiet, Refusable
    <3>7. LocalAt(p)' BY <2>0, <3>1, <3>5
      DEF Placed, StillSo, Downed, Told, Decidable, Kept, Quiet, Removal, Lost
    <3>8. RunInv' BY <2>0, <3>1, <3>5
      DEF RunInv, RemovalInv, RecoveryInv, LedgerInv, RowInv, Quiet, Decidable, Process
    <3>9. QED BY <3>1, <3>2, <3>3, <3>4, <3>6, <3>7, <3>8, StepKeeps
  <2>3. QED BY <2>1, <2>2
<1>3. CASE AllowUnheld(p)
  <2> USE <1>3 DEF AllowUnheld
  <2>1. CASE Basis(proc[p].seen) = "bare" /\ Grant(p, "bare")
    <3> USE <2>1
    <3>1. PICK s, l, w : /\ Goes(p, s, l, w, "bare")
                         /\ \/ s = "decided" /\ l = proc[p].list /\ w = Kept(p)
                               /\ (p \in Stop \/ proc[p].list = "exit")
                            \/ s = "requested" /\ l = "none" /\ w = Kept(p) /\ p \notin Stop
      BY GrantGoes DEF Verdict
    <3>2. Final' BY DEF Final, Basis
    <3>3. LocalAt(p)' BY <3>1, <3>2
      DEF Placed, StillSo, Downed, Told, Decidable, Kept, Quiet, Removal
    <3>4. QED BY <3>1, <3>3, MoveKeeps DEF Decidable, RecoveryInv
  <2>2. CASE /\ Basis(proc[p].seen) = "missing" /\ deletion # "issued"
             /\ p \in Stop \/ proc[p].list = "exit"
             /\ Decides(p, "bare", "decided")
    <3> USE <2>2
    <3>0. Decides(p, "bare", "decided") OBVIOUS
    <3>1. Goes(p, "decided", proc[p].list, Kept(p), "bare")
      BY <3>0, DecidesGoes DEF Place, Verdict
    <3>2. exec = "missing" BY DEF Basis, StillSo
    <3>3. Final' BY <3>1, <3>2 DEF RemovalInv, Final, Refusable, Lost
    <3>4. LocalAt(p)' BY <3>1, <3>2, <3>3
      DEF Placed, StillSo, Downed, Told, Kept, Quiet, Removal
    <3>5. QED BY <3>1, <3>4, MoveKeeps DEF Decidable, RecoveryInv
  <2>3. CASE /\ Basis(proc[p].seen) = "missing" /\ deletion # "issued"
             /\ p = Recovery \/ proc[p].list = "unsettled"
             /\ Decides(p, "missing", "decided")
    <3> USE <2>3
    <3>1. Goes(p, "decided", proc[p].list, Kept(p), "missing")
      BY DecidesGoes DEF Place, Verdict
    <3>2. Lost
      <4>1. exec = "missing" /\ captures /\ ~discard /\ work # "recorded"
        BY DEF Basis, StillSo, Sight
      <4>2. QED BY <4>1 DEF RemovalInv, Final
    <3>3. p \notin Stop /\ proc[p].list # "exit" BY ExitAssumption DEF Placed
    <3>4. LocalAt(p)' BY <3>1, <3>2, <3>3
      DEF Placed, StillSo, Downed, Told, Kept, Quiet, Removal, Lost
    <3>5. QED BY <3>1, <3>4, MoveKeeps DEF Decidable, RecoveryInv
  <2>4. QED BY <2>1, <2>2, <2>3
<1>4. CASE Keep(p)
  <2> USE <1>4 DEF Keep
  <2>0. captures BY DEF Basis
  <2>1. CASE p \in Stop /\ Retain /\ Done(p)
    BY <2>0, <2>1, RetainKeeps
  <2>2. CASE p \in Pass /\ Decides(p, "keep", "decided") /\ UNCHANGED drain
    <3> USE <2>2
    <3>1. Goes(p, "decided", proc[p].list, Kept(p), "keep")
      BY DecidesGoes DEF Place, Verdict
    <3>2. LocalAt(p)' BY <2>0, <3>1, ExitAssumption
      DEF Placed, StillSo, Downed, Told, Kept, Quiet, Removal, Decidable
    <3>3. QED BY <3>1, <3>2, MoveKeeps DEF Decidable, RecoveryInv
  <2>3. QED BY <2>1, <2>2
<1>5. QED BY <1>1, <1>2, <1>3, <1>4

-----------------------------------------------------------------------------
(***************************************************************************)
(* Drains, and the recovery's boot.                                        *)
(***************************************************************************)

\* What voiding an authorized removal leaves.
LEMMA Voiding ==
    ASSUME ExitInv, VoidDeleting
    PROVE  /\ live' \in BOOLEAN /\ HoldsOfRemovals'
           /\ deletion' \in {"none", "issued", "deleted"} /\ holder' \in Process \cup {Nobody}
           /\ deletion' = "issued" <=> deletion = "issued"
           /\ deletion' = "deleted" <=> deletion = "deleted"
           /\ \A q \in Process : holder' = q => holder = q
           /\ deletion = "issued" => holder' = holder
<1> USE TypesBefore DEF VoidDeleting, GiveUpHold, hold
<1>1. live' \in BOOLEAN BY DEF ExitFlags
<1>2. HoldsOfRemovals' BY DEF HoldsOfRemovals
<1>3. QED BY <1>1, <1>2, ExitAssumption DEF ExitPlaces, Process

\* No call's standing changes, and the removal is as far as it was.
LEMMA FinalStays ==
    ASSUME NEW p \in Process, \A q \in Process : q # p => proc'[q] = proc[q],
           proc'[p].at = "calling" => proc'[p].verdict # "ticket",
           captures' = captures, discard => discard', Lost => Lost',
           deletion' = "issued" <=> deletion = "issued",
           deletion' = "deleted" <=> deletion = "deleted",
           deletion = "issued" => holder' = holder
    PROVE  /\ Final => Final'
           /\ \A q \in Process : q # p /\ Refusable(q) => Refusable(q)'
<1>1. \A q \in Process : q # p => (Refusable(q)' <=> Refusable(q))
  <2> TAKE q \in Process
  <2>1. q # p => proc'[q] = proc[q] OBVIOUS
  <2>2. QED BY <2>1 DEF Refusable
<1>2. ~Refusable(p)' BY DEF Refusable
<1>3. QED BY <1>1, <1>2 DEF Final

LEMMA DrainsKeep ==
    ASSUME ExitInv, NEW p \in Process,
           \/ Drain(p) \/ DrainUnconfirmed(p) \/ DrainSilent(p) \/ DrainGone(p)
           \/ DrainRefused(p)
    PROVE  ExitInv'
<1> USE Standing, TypesBefore DEF LocalAt, Goes, kinds, row, drain, hold, guest
<1>1. CASE Drain(p)
  <2> USE <1>1 DEF Drain
  <2>1. Goes(p, "looked", proc[p].list, "drained", proc[p].verdict) BY SeesGoes DEF Sight
  <2>2. ExitFlags' BY Voiding DEF ExitFlags, Progress
  <2>3. ExitPlaces' /\ HoldsOfRemovals' BY <2>1, Voiding DEF ExitPlaces, Progress
  <2>4. (Final => Final') /\ \A q \in Process : q # p /\ Refusable(q) => Refusable(q)'
    BY <2>1, Voiding, FinalStays DEF Lost, Progress, EndRetention
  <2>5. Lasts(p) BY <2>1, <2>4, Voiding DEF Lasts, Lost, Quiet, Progress
  <2>6. LocalAt(p)' BY <2>1, <2>4, Voiding, ExitAssumption
    DEF Placed, StillSo, Downed, Told, Lost, Drains
  <2>7. RunInv'
    <3>1. RemovalInv' BY <2>1, <2>4, Voiding DEF RemovalInv, Progress, Drains
    <3>2. RecoveryInv' BY <2>1, <2>4, Voiding DEF RecoveryInv, Process, Progress, Drains
    <3>3. LedgerInv' BY <2>1, <2>4, Voiding DEF LedgerInv, Progress, Drains
    <3>4. RowInv' BY <2>1, <2>4, Voiding DEF RowInv, Quiet, Progress, Drains
    <3>5. QED BY <3>1, <3>2, <3>3, <3>4 DEF RunInv
  <2>8. QED BY <2>1, <2>2, <2>3, <2>5, <2>6, <2>7, StepKeeps
<1>2. CASE DrainUnconfirmed(p)
  <2> USE <1>2 DEF DrainUnconfirmed
  <2>1. Goes(p, "idle", "none", "none", "none") BY DoneGoes
  <2>2. ExitFlags' BY Voiding DEF ExitFlags, Progress
  <2>3. ExitPlaces' /\ HoldsOfRemovals'
    BY <2>1, Voiding, FaultTypes DEF ExitPlaces, Progress, ExitInv, ExitTypeOK
  <2>4. (Final => Final') /\ \A q \in Process : q # p /\ Refusable(q) => Refusable(q)'
    BY <2>1, Voiding, FinalStays DEF Lost, Progress, EndRetention
  <2>5. Lasts(p) BY <2>1, <2>4, Voiding DEF Lasts, Lost, Quiet, Progress
  <2>6. LocalAt(p)' BY <2>1 DEF Placed, StillSo, Downed, Told
  <2>7. RunInv'
    <3>1. RemovalInv' BY <2>1, <2>4, Voiding DEF RemovalInv, Progress
    <3>2. RecoveryInv' BY <2>1, <2>4, Voiding DEF RecoveryInv, Process, Progress
    <3>3. LedgerInv' BY <2>1, <2>4, Voiding DEF LedgerInv, Progress
    <3>4. RowInv' BY <2>1, <2>4, Voiding DEF RowInv, Quiet, Progress
    <3>5. QED BY <3>1, <3>2, <3>3, <3>4 DEF RunInv
  <2>8. QED BY <2>1, <2>2, <2>3, <2>5, <2>6, <2>7, StepKeeps
<1>3. CASE DrainSilent(p)
  <2> USE <1>3 DEF DrainSilent, Retain, Progress
  <2>1. Goes(p, "idle", "none", "none", "none") BY DoneGoes
  <2>2. ExitFlags' BY Voiding DEF ExitFlags
  <2>3. ExitPlaces' /\ HoldsOfRemovals' BY <2>1, Voiding DEF ExitPlaces
  <2>4. (Final => Final') /\ \A q \in Process : q # p /\ Refusable(q) => Refusable(q)'
    BY <2>1, Voiding, FinalStays DEF Lost, Progress, EndRetention
  <2>5. Lasts(p) BY <2>1, <2>4, Voiding DEF Lasts, Lost, Quiet
  <2>6. LocalAt(p)' BY <2>1 DEF Placed, StillSo, Downed, Told
  <2>7. RunInv'
    <3>1. RemovalInv' BY <2>1, <2>4, Voiding DEF RemovalInv, Drains
    <3>2. RecoveryInv' BY <2>1, <2>4, Voiding DEF RecoveryInv, Process, Drains
    <3>3. LedgerInv' BY <2>1, <2>4, Voiding DEF LedgerInv, Drains
    <3>4. RowInv' BY <2>1, <2>4, Voiding DEF RowInv, Quiet, Drains
    <3>5. QED BY <3>1, <3>2, <3>3, <3>4 DEF RunInv
  <2>8. QED BY <2>1, <2>2, <2>3, <2>5, <2>6, <2>7, StepKeeps
<1>4. CASE DrainGone(p)
  <2> USE <1>4 DEF DrainGone
  <2>0. /\ Final
        /\ endedBy = "platform" \/ discard
        /\ proc[p].at \in {"looked", "booted"}
    BY DEF RemovalInv, Drains, Final, Lost, Observable
  <2>1. CASE p \in Stop /\ Sees(p, "missing") /\ Progress("gone")
    <3> USE <2>1 DEF Progress
    <3>1. Goes(p, "looked", proc[p].list, "missing", proc[p].verdict) BY SeesGoes DEF Sight
    <3>2. ExitFlags' BY Voiding DEF ExitFlags
    <3>3. ExitPlaces' /\ HoldsOfRemovals' BY <3>1, Voiding DEF ExitPlaces
    <3>4. Final' /\ \A q \in Process : q # p /\ Refusable(q) => Refusable(q)'
      <4>1. (Final => Final') /\ \A q \in Process : q # p /\ Refusable(q) => Refusable(q)'
        BY <3>1, Voiding, FinalStays DEF Lost
      <4>2. QED BY <2>0, <4>1
    <3>5. Lasts(p) BY <3>1, <3>4, Voiding DEF Lasts, Lost, Quiet
    <3>6. LocalAt(p)'
      <4>1. Placed(p)' /\ Downed(p)' /\ Told(p)' BY <3>1 DEF Placed, Downed, Told, Quiet
      <4>2. StillSo(p)' BY <3>1, <3>4 DEF StillSo, Lost
      <4>3. QED BY <4>1, <4>2
    <3>7. RunInv'
      <4>1. RemovalInv' BY <2>0, <3>1, <3>4, Voiding, ExitAssumption DEF RemovalInv
      <4>2. RecoveryInv' BY <2>0, <3>1, <3>4, Voiding, ExitAssumption DEF RecoveryInv, Process
      <4>3. LedgerInv' BY <2>0, <3>1, <3>4, Voiding, ExitAssumption DEF LedgerInv
      <4>4. RowInv' BY <2>0, <3>1, <3>4, Voiding, ExitAssumption DEF RowInv, Quiet
      <4>5. QED BY <4>1, <4>2, <4>3, <4>4 DEF RunInv
    <3>8. QED BY <3>1, <3>2, <3>3, <3>5, <3>6, <3>7, StepKeeps
  <2>2. CASE p = Recovery /\ EndRetention("gone") /\ Done(p)
    <3> USE <2>2 DEF EndRetention
    <3>1. Goes(p, "idle", "none", "none", "none") BY DoneGoes
    <3>2. ExitFlags' BY Voiding DEF ExitFlags
    <3>3. ExitPlaces' /\ HoldsOfRemovals' BY <3>1, Voiding DEF ExitPlaces
    <3>4. Final' /\ \A q \in Process : q # p /\ Refusable(q) => Refusable(q)'
      <4>1. (Final => Final') /\ \A q \in Process : q # p /\ Refusable(q) => Refusable(q)'
        BY <3>1, Voiding, FinalStays DEF Lost
      <4>2. QED BY <2>0, <4>1
    <3>5. Lasts(p) BY <3>1, <3>4, Voiding DEF Lasts, Lost, Quiet
    <3>6. LocalAt(p)' BY <3>1 DEF Placed, StillSo, Downed, Told
    <3>7. RunInv'
      <4>1. RemovalInv' BY <2>0, <3>1, <3>4, Voiding DEF RemovalInv
      <4>2. RecoveryInv' BY <2>0, <3>1, <3>4, Voiding DEF RecoveryInv, Process
      <4>3. LedgerInv' BY <2>0, <3>1, <3>4, Voiding DEF LedgerInv
      <4>4. RowInv' BY <2>0, <3>1, <3>4, Voiding DEF RowInv, Quiet
      <4>5. QED BY <4>1, <4>2, <4>3, <4>4 DEF RunInv
    <3>8. QED BY <3>1, <3>2, <3>3, <3>5, <3>6, <3>7, StepKeeps
  <2>3. QED BY <2>1, <2>2
<1>5. CASE DrainRefused(p)
  <2> USE <1>5 DEF DrainRefused, Progress
  <2>1. Goes(p, "idle", "none", "none", "none") BY DoneGoes
  <2>2. ExitFlags' BY DEF ExitFlags
  <2>3. ExitPlaces' /\ HoldsOfRemovals' BY <2>1 DEF ExitPlaces, HoldsOfRemovals
  <2>4. (Final => Final') /\ \A q \in Process : q # p /\ Refusable(q) => Refusable(q)'
    BY <2>1, FinalStays DEF Lost
  <2>5. Lasts(p) BY <2>1, <2>4 DEF Lasts, Lost, Quiet
  <2>6. LocalAt(p)' BY <2>1 DEF Placed, StillSo, Downed, Told
  <2>7. RunInv'
    <3>1. RemovalInv' BY <2>1, <2>4 DEF RemovalInv
    <3>2. RecoveryInv' BY <2>1, <2>4 DEF RecoveryInv, Process
    <3>3. LedgerInv' BY <2>1, <2>4 DEF LedgerInv
    <3>4. RowInv' BY <2>1, <2>4 DEF RowInv, Quiet
    <3>5. QED BY <3>1, <3>2, <3>3, <3>4 DEF RunInv
  <2>8. QED BY <2>1, <2>2, <2>3, <2>5, <2>6, <2>7, StepKeeps
<1>6. QED BY <1>1, <1>2, <1>3, <1>4, <1>5

\* What a boot voids, and where it takes the recovery.
LEMMA BootKeeps ==
    ASSUME ExitInv, Boot
    PROVE  ExitInv'
<1> DEFINE p == Recovery
<1>0. p \in Process /\ p \notin Stop BY ExitAssumption DEF Process
<1> USE <1>0, Standing, TypesBefore
    DEF LocalAt, Goes, Boot, kinds, row, drain, hold, guest
<1>1. captures /\ proc[p].at = "looked" BY DEF Basis, Decidable
<1>2. ~Final => retained /\ Quiet BY <1>1 DEF RecoveryInv, Quiet
<1>3. CASE Observable /\ VoidDeleting
  <2> USE <1>3
  <2>0. /\ deletion \notin {"issued", "deleted"} /\ ~discard
        /\ exec # "missing" => ~Final
        /\ Final => endedBy = "platform"
    BY <1>1 DEF Observable, Basis, Final, Lost
  <2>1. CASE /\ exec # "missing" /\ exec' = "running" /\ endedBy' = "other"
             /\ MoveTo(Recovery, "booted") /\ UNCHANGED drain
    <3> USE <2>1
    <3>1. Goes(p, "booted", proc[p].list, proc[p].seen, proc[p].verdict)
      BY MoveToGoes DEF Place
    <3>2. ExitFlags' BY Voiding DEF ExitFlags
    <3>3. ExitPlaces' /\ HoldsOfRemovals' BY <3>1, Voiding DEF ExitPlaces, Inspection
    <3>4. ~Final /\ ~Lost /\ retained BY <1>2, <2>0 DEF Lost
    <3>5. \A q \in Process : q # p /\ Refusable(q) => Refusable(q)'
      BY <2>0 DEF Refusable
    <3>6. Lasts(p) BY <3>1, <3>4, <3>5, Voiding DEF Lasts, Quiet
    <3>7. LocalAt(p)' BY <3>1, <3>4, Voiding, ExitAssumption
      DEF Placed, StillSo, Downed, Told, Lost
    <3>8. RunInv'
      <4>1. RemovalInv' BY <2>0, <3>1, Voiding DEF RemovalInv
      <4>2. RecoveryInv' BY <1>1, <3>1, <3>4 DEF RecoveryInv
      <4>3. LedgerInv' BY <2>0, <3>4 DEF LedgerInv, Final
      <4>4. RowInv' BY <3>4 DEF RowInv, Quiet
      <4>5. QED BY <4>1, <4>2, <4>3, <4>4 DEF RunInv
    <3>9. QED BY <3>1, <3>2, <3>3, <3>6, <3>7, <3>8, StepKeeps
  <2>2. CASE Done(Recovery) /\ UNCHANGED <<drain, exec, endedBy>>
    <3> USE <2>2
    <3>1. Goes(p, "idle", "none", "none", "none") BY DoneGoes
    <3>2. ExitFlags' BY Voiding DEF ExitFlags
    <3>3. ExitPlaces' /\ HoldsOfRemovals' BY <3>1, Voiding DEF ExitPlaces
    <3>4. (Final => Final') /\ \A q \in Process : q # p /\ Refusable(q) => Refusable(q)'
      BY <3>1, Voiding, FinalStays DEF Lost
    <3>5. Lasts(p) BY <3>1, <3>4, Voiding DEF Lasts, Lost, Quiet
    <3>6. LocalAt(p)' BY <3>1 DEF Placed, StillSo, Downed, Told
    <3>7. RunInv'
      <4>1. RemovalInv' BY <3>4, Voiding DEF RemovalInv
      <4>2. RecoveryInv' BY <3>1 DEF RecoveryInv
      <4>3. LedgerInv' BY DEF LedgerInv
      <4>4. RowInv' BY DEF RowInv, Quiet
      <4>5. QED BY <4>1, <4>2, <4>3, <4>4 DEF RunInv
    <3>8. QED BY <3>1, <3>2, <3>3, <3>5, <3>6, <3>7, StepKeeps
  <2>3. CASE /\ exec = "missing" /\ EndRetention("gone") /\ Done(Recovery)
             /\ UNCHANGED <<exec, endedBy>>
    <3> USE <2>3 DEF EndRetention
    <3>0. Final /\ endedBy = "platform" BY <2>0 DEF RemovalInv
    <3>1. Goes(p, "idle", "none", "none", "none") BY DoneGoes
    <3>2. ExitFlags' BY Voiding DEF ExitFlags
    <3>3. ExitPlaces' /\ HoldsOfRemovals' BY <3>1, Voiding DEF ExitPlaces
    <3>4. Final' /\ \A q \in Process : q # p /\ Refusable(q) => Refusable(q)'
      BY <3>0, <3>1, Voiding, FinalStays DEF Lost
    <3>5. Lasts(p) BY <3>0, <3>1, <3>4, Voiding DEF Lasts, Lost, Quiet
    <3>6. LocalAt(p)' BY <3>1 DEF Placed, StillSo, Downed, Told
    <3>7. RunInv'
      <4>1. RemovalInv' BY <3>4, Voiding DEF RemovalInv
      <4>2. RecoveryInv' BY <3>1 DEF RecoveryInv
      <4>3. LedgerInv' BY <3>0 DEF LedgerInv
      <4>4. RowInv' BY DEF RowInv, Quiet
      <4>5. QED BY <4>1, <4>2, <4>3, <4>4 DEF RunInv
    <3>8. QED BY <3>1, <3>2, <3>3, <3>5, <3>6, <3>7, StepKeeps
  <2>4. QED BY <1>3, <2>1, <2>2, <2>3 DEF Observable, Held
<1>4. CASE Held /\ Done(Recovery) /\ UNCHANGED <<drain, hold, exec, endedBy>>
  BY <1>4, DoneKeeps
<1>5. CASE /\ deletion = "deleted" /\ EndRetention("stopped") /\ Done(Recovery)
           /\ UNCHANGED <<hold, exec, endedBy>>
  <2> USE <1>5 DEF EndRetention
  <2>0. Final /\ exec # "running" /\ work = "recorded"
    BY DEF Final, Refusable, RemovalInv
  <2>1. Goes(p, "idle", "none", "none", "none") BY DoneGoes
  <2>2. ExitFlags' BY DEF ExitFlags
  <2>3. ExitPlaces' /\ HoldsOfRemovals' BY <2>1 DEF ExitPlaces, HoldsOfRemovals
  <2>4. Final' /\ \A q \in Process : q # p /\ Refusable(q) => Refusable(q)'
    BY <2>0, <2>1, FinalStays DEF Lost
  <2>5. Lasts(p) BY <2>0, <2>1, <2>4 DEF Lasts, Lost, Quiet
  <2>6. LocalAt(p)' BY <2>1 DEF Placed, StillSo, Downed, Told
  <2>7. RunInv'
    <3>1. RemovalInv' BY <2>4 DEF RemovalInv
    <3>2. RecoveryInv' BY <2>1 DEF RecoveryInv
    <3>3. LedgerInv' BY <2>0 DEF LedgerInv
    <3>4. RowInv' BY <2>0 DEF RowInv, Quiet
    <3>5. QED BY <3>1, <3>2, <3>3, <3>4 DEF RunInv
  <2>8. QED BY <2>1, <2>2, <2>3, <2>5, <2>6, <2>7, StepKeeps
<1>6. QED BY <1>3, <1>4, <1>5

-----------------------------------------------------------------------------
(***************************************************************************)
(* What is written before the runtime is asked.                            *)
(***************************************************************************)
LEMMA RecordsKeep ==
    ASSUME ExitInv, NEW p \in Process,
           \/ MarkStopRequested(p) \/ RecordKept(p) \/ RecordEnd(p) \/ GiveUp(p)
           \/ SettleRecord(p)
    PROVE  ExitInv'
<1> USE Standing, TypesBefore DEF LocalAt, Goes, kinds, row, drain, hold, guest
<1>1. CASE MarkStopRequested(p)
  <2> USE <1>1 DEF MarkStopRequested
  <2>1. Goes(p, "requested", proc[p].list, proc[p].seen, proc[p].verdict)
    BY MoveToGoes DEF Place
  <2>2. ExitFlags'
    <3>1. (planned \/ status # "stopped") \in BOOLEAN OBVIOUS
    <3>2. QED BY <3>1 DEF ExitFlags
  <2>3. ExitPlaces' /\ HoldsOfRemovals' BY <2>1 DEF ExitPlaces, HoldsOfRemovals
  <2>4. (Final => Final') /\ \A q \in Process : q # p /\ Refusable(q) => Refusable(q)'
    BY <2>1, FinalStays DEF Lost
  <2>5. planned' <=> planned \/ status # "stopped" BY DEF ExitFlags
  <2>6. Lasts(p) BY <2>1, <2>4, <2>5 DEF Lasts, Lost, Quiet
  <2>7. LocalAt(p)' BY <2>1, <2>4, <2>5, ExitAssumption
    DEF Placed, StillSo, Downed, Told, Lost
  <2>8. RunInv'
    <3>1. RemovalInv' BY <2>4 DEF RemovalInv
    <3>2. RecoveryInv' BY <2>1, <2>4, ExitAssumption DEF RecoveryInv, Process
    <3>3. LedgerInv' BY DEF LedgerInv
    <3>4. RowInv' BY <2>5 DEF RowInv, Quiet
    <3>5. QED BY <3>1, <3>2, <3>3, <3>4 DEF RunInv
  <2>9. QED BY <2>1, <2>2, <2>3, <2>6, <2>7, <2>8, StepKeeps
<1>2. CASE RecordKept(p)
  <2> USE <1>2 DEF RecordKept, Retain
  <2>0. captures /\ code # "launch-retained" /\ p # Recovery
    BY ExitAssumption DEF StillSo, Told
  <2>1. Goes(p, "idle", "none", "none", "none") BY DoneGoes
  <2>2. ExitFlags' BY DEF ExitFlags, MarkStopped
  <2>3. ExitPlaces' /\ HoldsOfRemovals'
    BY <2>1 DEF ExitPlaces, HoldsOfRemovals, MarkStopped
  <2>4. (Final => Final') /\ \A q \in Process : q # p /\ Refusable(q) => Refusable(q)'
    BY <2>1, FinalStays DEF Lost
  <2>5. Lasts(p) BY <2>1, <2>4 DEF Lasts, Lost, Quiet, MarkStopped, ExitRecordable
  <2>6. LocalAt(p)' BY <2>1 DEF Placed, StillSo, Downed, Told
  <2>7. RunInv'
    <3>1. RemovalInv' BY <2>4 DEF RemovalInv, MarkStopped
    <3>2. RecoveryInv' BY <2>0, <2>1, <2>4 DEF RecoveryInv, Process
    <3>3. LedgerInv' BY <2>0 DEF LedgerInv, MarkStopped, ExitRecordable
    <3>4. RowInv' BY <2>0 DEF RowInv, Quiet, MarkStopped, ExitRecordable
    <3>5. QED BY <3>1, <3>2, <3>3, <3>4 DEF RunInv
  <2>8. QED BY <2>1, <2>2, <2>3, <2>5, <2>6, <2>7, StepKeeps
<1>3. CASE RecordEnd(p)
  <2> USE <1>3 DEF RecordEnd
  <2>0. /\ code # "launch-retained" /\ p # Recovery /\ p \notin Stop
        /\ Quiet /\ proc[p].verdict \in Removal
    BY ExitAssumption DEF Told, Placed, Local, Verdict, Removal
  <2>1. Goes(p, "requested", "none", Kept(p), proc[p].verdict)
    <3>1. "requested" \in Place /\ proc[p].verdict \in Verdict BY DEF Place, Local
    <3>2. QED BY <3>1, RequestsGoes
  <2>2. ExitFlags' BY DEF ExitFlags, MarkStopped
  <2>3. ExitPlaces' /\ HoldsOfRemovals'
    BY <2>1 DEF ExitPlaces, HoldsOfRemovals, MarkStopped
  <2>4. (Final => Final') /\ \A q \in Process : q # p /\ Refusable(q) => Refusable(q)'
    BY <2>1, FinalStays DEF Lost
  <2>5. Lasts(p) BY <2>1, <2>4 DEF Lasts, Lost, Quiet, MarkStopped, ExitRecordable
  <2>6. LocalAt(p)' BY <2>0, <2>1, <2>4
    DEF Placed, StillSo, Downed, Told, Kept, Lost, Removal
  <2>7. RunInv'
    <3>1. RemovalInv' BY <2>4 DEF RemovalInv, MarkStopped
    <3>2. RecoveryInv' BY <2>0, <2>1, <2>4 DEF RecoveryInv, Process
    <3>3. LedgerInv' BY <2>0 DEF LedgerInv, MarkStopped, ExitRecordable
    <3>4. RowInv' BY <2>0 DEF RowInv, Quiet, MarkStopped, ExitRecordable
    <3>5. QED BY <3>1, <3>2, <3>3, <3>4 DEF RunInv
  <2>8. QED BY <2>1, <2>2, <2>3, <2>5, <2>6, <2>7, StepKeeps
<1>4. CASE GiveUp(p)
  <2> USE <1>4 DEF GiveUp, GiveUpHold
  <2>1. Goes(p, "idle", "none", "none", "none") BY DoneGoes
  <2>2. ExitFlags' BY DEF ExitFlags
  <2>3. ExitPlaces' /\ HoldsOfRemovals' BY <2>1 DEF ExitPlaces, HoldsOfRemovals
  <2>4. (Final => Final') /\ \A q \in Process : q # p /\ Refusable(q) => Refusable(q)'
    BY <2>1, FinalStays DEF Lost
  <2>5. Lasts(p) BY <2>1, <2>4, ExitAssumption DEF Lasts, Lost, Quiet, Process
  <2>6. LocalAt(p)' BY <2>1 DEF Placed, StillSo, Downed, Told
  <2>7. RunInv'
    <3>1. RemovalInv' BY <2>4 DEF RemovalInv
    <3>2. RecoveryInv' BY <2>1, <2>4 DEF RecoveryInv, Process
    <3>3. LedgerInv' BY DEF LedgerInv
    <3>4. RowInv' BY DEF RowInv, Quiet
    <3>5. QED BY <3>1, <3>2, <3>3, <3>4 DEF RunInv
  <2>8. QED BY <2>1, <2>2, <2>3, <2>5, <2>6, <2>7, StepKeeps
<1>5. CASE SettleRecord(p)
  <2> USE <1>5 DEF SettleRecord
  <2>1. CASE proc[p].verdict = "keep" /\ Retain
    BY <2>1, RetainKeeps DEF StillSo
  <2>2. CASE proc[p].verdict = "missing" /\ EndRetention("gone")
    <3> USE <2>2 DEF EndRetention
    <3>0. Lost /\ Final BY DEF StillSo, Final
    <3>1. Goes(p, "idle", "none", "none", "none") BY DoneGoes
    <3>2. ExitFlags' BY DEF ExitFlags
    <3>3. ExitPlaces' /\ HoldsOfRemovals' BY <3>1 DEF ExitPlaces, HoldsOfRemovals
    <3>4. Final' /\ \A q \in Process : q # p /\ Refusable(q) => Refusable(q)'
      BY <3>0, <3>1, FinalStays DEF Lost
    <3>5. Lasts(p) BY <3>0, <3>1, <3>4 DEF Lasts, Lost, Quiet
    <3>6. LocalAt(p)' BY <3>1 DEF Placed, StillSo, Downed, Told
    <3>7. RunInv'
      <4>1. RemovalInv' BY <3>4 DEF RemovalInv
      <4>2. RecoveryInv' BY <3>1, <3>4 DEF RecoveryInv, Process
      <4>3. LedgerInv' BY <3>0 DEF LedgerInv, Lost
      <4>4. RowInv' BY <3>0 DEF RowInv, Quiet, Lost
      <4>5. QED BY <4>1, <4>2, <4>3, <4>4 DEF RunInv
    <3>8. QED BY <3>1, <3>2, <3>3, <3>5, <3>6, <3>7, StepKeeps
  <2>3. QED BY <2>1, <2>2
<1>6. QED BY <1>1, <1>2, <1>3, <1>4, <1>5

-----------------------------------------------------------------------------
(***************************************************************************)
(* The removal, and what is written around the runtime's calls.            *)
(***************************************************************************)
LEMMA IssueKeeps ==
    ASSUME ExitInv, NEW p \in Process, Issue(p)
    PROVE  ExitInv'
<1> USE Standing, TypesBefore DEF Issue, LocalAt, Goes, kinds, row, drain, hold, guest
<1>1. Goes(p, "calling", "none", "none", proc[p].verdict) BY CallsGoes
<1>2. p = Recovery => captures /\ (retained \/ Final) BY DEF RecoveryInv
<1>3. proc[p].verdict \in Removal \/ (p = Recovery /\ exec = "missing") BY DEF Placed
<1>4. CASE ~Ticketed(p) /\ UNCHANGED hold
  <2> USE <1>4
  <2>1. Final BY <1>3 DEF Ticketed, Removal, StillSo, RemovalInv
  <2>2. Final'
    <3>1. proc[p].verdict # "ticket" BY DEF Ticketed
    <3>2. QED BY <1>1, <2>1, <3>1, FinalStays DEF Lost
  <2>3. LocalAt(p)' BY <1>1, <1>3, <2>2
    DEF Placed, StillSo, Downed, Told, Lost
  <2>4. QED BY <1>1, <1>2, <2>3, MoveKeeps DEF Ticketed
<1>5. CASE /\ Ticketed(p) /\ holder = p /\ Held
           /\ deletion' = "issued" /\ UNCHANGED <<holder, live>>
  <2> USE <1>5
  <2>0. captures /\ work = "recorded" BY DEF StillSo, Ticketed
  <2>1. ExitFlags' BY DEF ExitFlags
  <2>2. ExitPlaces' BY <1>1 DEF ExitPlaces
  <2>3. HoldsOfRemovals' BY DEF HoldsOfRemovals
  <2>4. \A q \in Process : q # p => ~Refusable(q) /\ ~Refusable(q)'
    BY DEF Refusable
  <2>5. /\ Final => Final'
        /\ Final' \/ Refusable(p)'
    <3>1. CASE proc[p].verdict = "ticket"
      <4>1. deletion # "issued" /\ deletion # "deleted" BY <3>1 DEF StillSo, Held
      <4>2. Final => Final' BY <4>1 DEF Final, Lost
      <4>3. Refusable(p)' BY <1>1, <3>1 DEF Refusable
      <4>4. QED BY <4>2, <4>3
    <3>2. CASE proc[p].verdict # "ticket"
      <4>1. ~Refusable(p)' BY <1>1, <3>2 DEF Refusable
      <4>2. QED BY <2>4, <4>1 DEF Final
    <3>3. QED BY <3>1, <3>2
  <2>6. Lasts(p) BY <2>4, <2>5 DEF Lasts, Lost, Quiet
  <2>7. LocalAt(p)' BY <1>1, <1>3, <2>0, <2>5
    DEF Placed, StillSo, Downed, Told, Lost, Ticketed
  <2>8. RunInv'
    <3>1. RemovalInv' BY <2>0, <2>5 DEF RemovalInv
    <3>2. RecoveryInv' BY <1>1, <1>2, <2>5 DEF RecoveryInv, Process
    <3>3. LedgerInv' BY DEF LedgerInv
    <3>4. RowInv' BY DEF RowInv, Quiet
    <3>5. QED BY <3>1, <3>2, <3>3, <3>4 DEF RunInv
  <2>9. QED BY <1>1, <2>1, <2>2, <2>3, <2>6, <2>7, <2>8, StepKeeps
<1>6. QED BY <1>4, <1>5

LEMMA VoidedKeeps ==
    ASSUME ExitInv, NEW p \in Process, Voided(p)
    PROVE  ExitInv'
<1> USE Standing DEF Voided
<1>1. CASE p \in Stop /\ Decides(p, "none", "looked") /\ UNCHANGED drain
  <2>1. Goes(p, "looked", proc[p].list, Kept(p), "none")
    <3>1. "looked" \in Place /\ "none" \in Verdict BY DEF Place, Verdict
    <3>2. QED BY <1>1, <3>1, DecidesGoes
  <2>2. (Final => Final') /\ Kept(p) = proc[p].seen
    BY <1>1, <2>1, FinalStays DEF Goes, Kept, Lost, kinds, drain, hold, guest
  <2>3. p \notin Pass /\ p # Recovery BY <1>1, ExitAssumption
  <2>4. LocalAt(p)' BY <1>1, <2>1, <2>2, <2>3
    DEF LocalAt, Goes, Placed, StillSo, Downed, Told, guest
  <2>5. QED BY <1>1, <2>1, <2>3, <2>4, MoveKeeps
<1>2. CASE p \in Stop /\ Done(p) /\ Retain
  <2>1. captures BY DEF Ticketed, StillSo
  <2>2. QED BY <1>2, <2>1, RetainKeeps
<1>3. CASE Done(p) /\ UNCHANGED drain BY <1>3, DoneKeeps
<1>4. QED BY <1>1, <1>2, <1>3

\* A call takes an executor down for good; with it goes what could give its
\* removal up.
LEMMA Downing ==
    ASSUME ExitInv, NEW p \in Process, proc[p].at = "calling",
           UNCHANGED kinds, UNCHANGED <<discard, work, deletion, holder>>,
           exec' = Ended(p), exec = "running" \/ endedBy' = endedBy,
           proc'[p].at # "calling", \A q \in Process : q # p => proc'[q] = proc[q]
    PROVE  /\ Final' /\ exec' \in {"exited", "missing"}
           /\ p \notin Stop \/ ~keeps => exec' = "missing"
           /\ exec = "missing" => exec' = "missing"
           /\ captures => work = "recorded" \/ discard \/ Lost
           /\ Lost => Lost'
           /\ \A q \in Process : q # p /\ Refusable(q) => Refusable(q)'
<1> USE Standing DEF kinds, Ended
<1>1. Final \/ Refusable(p) BY DEF Downed
<1>2. Lost => Lost' BY DEF Lost
<1>3. \A q \in Process : q # p => (Refusable(q)' <=> Refusable(q)) BY DEF Refusable
<1>4. ~Refusable(p)' BY DEF Refusable
<1>5. Refusable(p) => deletion' = "issued" /\ \A q \in Process : q # p => ~Refusable(q)
  BY DEF Refusable
<1>6. Final' BY <1>1, <1>2, <1>3, <1>4, <1>5 DEF Final
<1>7. captures => work = "recorded" \/ discard \/ Lost
  BY <1>1 DEF RemovalInv, Final, Refusable
<1>8. QED BY <1>2, <1>3, <1>6, <1>7

LEMMA CallKeeps ==
    ASSUME ExitInv, NEW p \in Process, Call(p)
    PROVE  ExitInv'
<1> USE Standing, TypesBefore DEF Call, TakeDown, kinds, row, drain, hold
<1> DEFINE s == IF p \in Stop THEN "ended"
                ELSE IF proc[p].list = "remains" THEN "removed" ELSE "completing"
<1>1. Goes(p, s, proc[p].list, proc[p].seen, proc[p].verdict)
  <2>1. s \in Place BY DEF Place
  <2>2. QED BY <2>1, MoveToGoes
<1>2. s \in {"ended", "removed", "completing"} /\ (p \in Stop => s = "ended") OBVIOUS
<1> HIDE DEF s
<1>3. /\ Final' /\ exec' \in {"exited", "missing"}
      /\ p \notin Stop \/ ~keeps => exec' = "missing"
      /\ exec = "missing" => exec' = "missing"
      /\ Lost => Lost'
      /\ \A q \in Process : q # p /\ Refusable(q) => Refusable(q)'
  BY <1>1, <1>2, Downing DEF Goes
<1>4. p \in Stop => planned \/ status = "stopped" BY DEF Told
<1>5. ExitFlags' BY DEF ExitFlags
<1>6. ExitPlaces' BY <1>1, <1>3 DEF ExitPlaces, Goes, Inspection
<1>7. HoldsOfRemovals' BY DEF HoldsOfRemovals
<1>8. Lasts(p) BY <1>3 DEF Lasts, Quiet
<1>9. LocalAt(p)'
  <2> USE <1>1, <1>2, <1>3 DEF Goes
  <2>1. Placed(p)' BY ExitAssumption DEF Placed
  <2>2. StillSo(p)' BY DEF StillSo
  <2>3. Downed(p)' BY DEF Downed
  <2>4. Told(p)' BY DEF Told
  <2>5. QED BY <2>1, <2>2, <2>3, <2>4 DEF LocalAt
<1>10. RunInv'
  <2>1. RemovalInv' BY <1>3 DEF RemovalInv
  <2>2. RecoveryInv' BY <1>1, <1>3, ExitAssumption DEF RecoveryInv, Process, Goes
  <2>3. LedgerInv' BY <1>3 DEF LedgerInv
  <2>4. RowInv' BY <1>3, <1>4 DEF RowInv, Quiet
  <2>5. QED BY <2>1, <2>2, <2>3, <2>4 DEF RunInv
<1>11. QED BY <1>1, <1>5, <1>6, <1>7, <1>8, <1>9, <1>10, StepKeeps

LEMMA CallRefusedKeeps ==
    ASSUME ExitInv, NEW p \in Process, CallRefused(p)
    PROVE  ExitInv'
<1> USE Standing, TypesBefore
    DEF CallRefused, NoteFailure, Progress, GiveUpHold, LocalAt, kinds, row, drain, hold, guest
<1>1. Goes(p, "idle", "none", "none", "none") BY DoneGoes
<1>2. ExitFlags' BY DEF ExitFlags
<1>3. ExitPlaces' BY <1>1, FaultTypes DEF ExitPlaces, Goes, ExitInv, ExitTypeOK
<1>4. HoldsOfRemovals' BY DEF HoldsOfRemovals
<1>5. (Final => Final') /\ \A q \in Process : q # p /\ Refusable(q) => Refusable(q)'
  <2>1. CASE Refusable(p)
    <3>1. Final => Final' BY <2>1 DEF Final, Refusable, Lost
    <3>2. \A q \in Process : q # p => ~Refusable(q) BY <2>1 DEF Refusable
    <3>3. QED BY <3>1, <3>2
  <2>2. CASE ~Refusable(p)
    <3>1. UNCHANGED <<deletion, holder>> BY <2>2 DEF Refusable
    <3>2. QED BY <1>1, <3>1, FinalStays DEF Lost, Goes
  <2>3. QED BY <2>1, <2>2
<1>6. Lasts(p)
  <2>1. \A q \in Process : q # p /\ holder' = q => holder = q BY ExitAssumption DEF Process
  <2>2. QED BY <1>5, <2>1 DEF Lasts, Lost, Quiet
<1>7. LocalAt(p)' BY <1>1 DEF Placed, StillSo, Downed, Told, Goes
<1>8. RunInv'
  <2>1. RemovalInv' BY <1>5 DEF RemovalInv
  <2>2. RecoveryInv' BY <1>1, <1>5 DEF RecoveryInv, Process, Goes
  <2>3. LedgerInv' BY DEF LedgerInv
  <2>4. RowInv' BY DEF RowInv, Quiet
  <2>5. QED BY <2>1, <2>2, <2>3, <2>4 DEF RunInv
<1>9. QED BY <1>1, <1>2, <1>3, <1>4, <1>6, <1>7, <1>8, StepKeeps

LEMMA CallLostKeeps ==
    ASSUME ExitInv, NEW p \in Process, CallLost(p)
    PROVE  ExitInv'
<1> USE Standing, TypesBefore
    DEF CallLost, NoteFailure, Progress, TakeDown, kinds, row, drain, guest
<1>1. Goes(p, "idle", "none", "none", "none") BY DoneGoes
<1>2. ExitFlags' BY DEF ExitFlags
<1>3. HoldsOfRemovals' BY DEF HoldsOfRemovals
<1>4. faults' \in 0..MaxFaults BY FaultTypes DEF ExitInv, ExitTypeOK
<1>5. LocalAt(p)' BY <1>1 DEF LocalAt, Placed, StillSo, Downed, Told, Goes
<1>6. p \in Stop => planned \/ status = "stopped" BY DEF Told
<1>7. CASE TakeDown(p)
  <2> USE <1>7
  <2>1. /\ Final' /\ exec' \in {"exited", "missing"}
        /\ exec = "missing" => exec' = "missing"
        /\ Lost => Lost'
        /\ \A q \in Process : q # p /\ Refusable(q) => Refusable(q)'
    BY <1>1, Downing DEF Goes
  <2>2. ExitPlaces' BY <1>1, <1>4, <2>1 DEF ExitPlaces, Goes, Inspection
  <2>3. Lasts(p) BY <2>1 DEF Lasts, Quiet
  <2>4. RunInv'
    <3>1. RemovalInv' BY <2>1 DEF RemovalInv
    <3>2. RecoveryInv' BY <1>1, <2>1, ExitAssumption DEF RecoveryInv, Process, Goes
    <3>3. LedgerInv' BY <2>1 DEF LedgerInv
    <3>4. RowInv' BY <1>6, <2>1 DEF RowInv, Quiet
    <3>5. QED BY <3>1, <3>2, <3>3, <3>4 DEF RunInv
  <2>5. QED BY <1>1, <1>2, <1>3, <1>5, <2>2, <2>3, <2>4, StepKeeps
<1>8. CASE UNCHANGED guest
  <2> USE <1>8
  <2>1. (Final => Final') /\ \A q \in Process : q # p /\ Refusable(q) => Refusable(q)'
    BY <1>1, FinalStays DEF Lost, Goes
  <2>2. ExitPlaces' BY <1>1, <1>4 DEF ExitPlaces, Goes
  <2>3. Lasts(p) BY <2>1 DEF Lasts, Lost, Quiet
  <2>4. RunInv'
    <3>1. RemovalInv' BY <2>1 DEF RemovalInv
    <3>2. RecoveryInv' BY <1>1, <2>1 DEF RecoveryInv, Process, Goes
    <3>3. LedgerInv' BY DEF LedgerInv
    <3>4. RowInv' BY DEF RowInv, Quiet
    <3>5. QED BY <3>1, <3>2, <3>3, <3>4 DEF RunInv
  <2>5. QED BY <1>1, <1>2, <1>3, <1>5, <2>2, <2>3, <2>4, StepKeeps
<1>9. QED BY <1>7, <1>8

LEMMA RemovedKeeps ==
    ASSUME ExitInv, NEW p \in Process,
           RecordStopped(p) \/ RemoveRemains(p) \/ MarkRemoved(p) \/ Complete(p) \/ Observe(p)
    PROVE  ExitInv'
<1> USE Standing, TypesBefore, ExitAssumption DEF LocalAt, Process, kinds, row, drain, hold, guest
<1>0. /\ {"idle", "ended", "recorded", "removed", "completing", "observing"} \subseteq Place
      /\ "none" \in Verdict
      /\ p \in Stop => p # Recovery /\ p \notin Pass
      /\ p = Recovery /\ proc[p].at # "idle" => captures /\ (retained \/ Final)
  BY DEF Place, Verdict, RecoveryInv
<1>1. CASE RecordStopped(p)
  <2> USE <1>1 DEF RecordStopped, MarkStopped
  <2> DEFINE s == IF p \in Stop /\ keeps THEN "recorded" ELSE "removed"
  <2>0. Final /\ exec # "running" /\ (p \notin Stop \/ ~keeps => exec = "missing")
    BY DEF Downed
  <2>1. Goes(p, s, proc[p].list, proc[p].seen, proc[p].verdict) BY <1>0, MoveToGoes
  <2>2. /\ s \in {"recorded", "removed"}
        /\ s = "recorded" => p \in Stop
        /\ s = "removed" => exec = "missing"
    BY <2>0
  <2> HIDE DEF s
  <2>3. ExitFlags' BY DEF ExitFlags
  <2>4. ExitPlaces' /\ HoldsOfRemovals' BY <2>1 DEF ExitPlaces, HoldsOfRemovals, Goes
  <2>5. Final' /\ \A q \in Process : q # p /\ Refusable(q) => Refusable(q)'
    BY <2>0, <2>1, <2>2, FinalStays DEF Lost, Goes
  <2>6. Lasts(p) BY <2>5 DEF Lasts, Lost, Quiet
  <2>7. LocalAt(p)' BY <1>0, <2>0, <2>1, <2>2, <2>5
    DEF Placed, StillSo, Downed, Told, Goes, Lost
  <2>8. RunInv'
    <3>1. RemovalInv' BY <2>5 DEF RemovalInv
    <3>2. RecoveryInv' BY <1>0, <2>1, <2>5 DEF RecoveryInv, Goes
    <3>3. LedgerInv' BY <2>0 DEF LedgerInv, Final, RemovalInv, Lost
    <3>4. RowInv' BY <2>0 DEF RowInv, Quiet
    <3>5. QED BY <3>1, <3>2, <3>3, <3>4 DEF RunInv
  <2>9. QED BY <2>1, <2>3, <2>4, <2>6, <2>7, <2>8, StepKeeps
<1>2. CASE RemoveRemains(p)
  <2> USE <1>2 DEF RemoveRemains
  <2>0. /\ Final /\ exec # "running" /\ (p \notin Stop \/ ~keeps => exec = "missing")
        /\ p \in Stop => status = "stopped"
    BY DEF Downed
  <2>1. PICK s : /\ Goes(p, s, proc[p].list, proc[p].seen, proc[p].verdict)
                 /\ s \in {"removed", "completing"} /\ (s = "removed" => exec' = "missing")
    BY <1>0, MoveToGoes
  <2>2. exec' = "missing" \/ exec' = exec OBVIOUS
  <2>3. ExitFlags' BY DEF ExitFlags
  <2>4. faults' \in 0..MaxFaults BY FaultTypes DEF ExitInv, ExitTypeOK
  <2>5. ExitPlaces' /\ HoldsOfRemovals' BY <2>1, <2>2, <2>4
    DEF ExitPlaces, HoldsOfRemovals, Goes, Inspection
  <2>6. Final' /\ \A q \in Process : q # p /\ Refusable(q) => Refusable(q)'
    BY <2>0, <2>1, <2>2, FinalStays DEF Lost, Goes
  <2>7. Lasts(p) BY <2>0, <2>2, <2>6 DEF Lasts, Lost, Quiet
  <2>8. LocalAt(p)'
    <3> USE <1>0, <2>0, <2>1, <2>2, <2>6 DEF Goes
    <3>1. Placed(p)' BY DEF Placed
    <3>2. StillSo(p)' BY DEF StillSo, Lost
    <3>3. Downed(p)' BY DEF Downed
    <3>4. Told(p)' BY DEF Told
    <3>5. QED BY <3>1, <3>2, <3>3, <3>4
  <2>9. RunInv'
    <3>1. RemovalInv' BY <2>0, <2>2, <2>6 DEF RemovalInv
    <3>2. RecoveryInv' BY <1>0, <2>1, <2>6 DEF RecoveryInv, Goes
    <3>3. LedgerInv' BY <2>2 DEF LedgerInv
    <3>4. RowInv' BY <2>0, <2>2 DEF RowInv, Quiet
    <3>5. QED BY <3>1, <3>2, <3>3, <3>4 DEF RunInv
  <2>10. QED BY <2>1, <2>3, <2>5, <2>7, <2>8, <2>9, StepKeeps
<1>3. CASE MarkRemoved(p)
  <2> USE <1>3 DEF MarkRemoved
  <2>0. Final /\ exec = "missing" /\ (p \in Stop => status = "stopped") BY DEF Downed
  <2>1. PICK s, l, w, v :
          /\ Goes(p, s, l, w, v)
          /\ \/ /\ s \in {"completing", "observing"} /\ (p \notin Stop => s = "observing")
                /\ l = proc[p].list /\ w = proc[p].seen /\ v = proc[p].verdict
             \/ s = "idle" /\ l = "none" /\ w = "none" /\ v = "none"
    BY <1>0, MoveToGoes, DoneGoes
  <2>2. ExitFlags' BY DEF ExitFlags
  <2>3. faults' \in 0..MaxFaults BY FaultTypes DEF ExitInv, ExitTypeOK
  <2>4. ExitPlaces' /\ HoldsOfRemovals' BY <2>1, <2>3 DEF ExitPlaces, HoldsOfRemovals, Goes
  <2>5. Final' /\ \A q \in Process : q # p /\ Refusable(q) => Refusable(q)'
    BY <2>0, <2>1, FinalStays DEF Lost, Goes
  <2>6. Lasts(p) BY <2>5 DEF Lasts, Lost, Quiet
  <2>7. LocalAt(p)'
    <3> USE <1>0, <2>0, <2>1, <2>5 DEF Goes
    <3>1. Placed(p)' BY DEF Placed
    <3>2. StillSo(p)' BY DEF StillSo, Lost
    <3>3. Downed(p)' BY DEF Downed
    <3>4. Told(p)' BY DEF Told
    <3>5. QED BY <3>1, <3>2, <3>3, <3>4
  <2>8. RunInv'
    <3>1. RemovalInv' BY <2>0, <2>5 DEF RemovalInv
    <3>2. RecoveryInv' BY <1>0, <2>1, <2>5 DEF RecoveryInv, Goes
    <3>3. LedgerInv' BY DEF LedgerInv
    <3>4. RowInv' BY DEF RowInv, Quiet
    <3>5. QED BY <3>1, <3>2, <3>3, <3>4 DEF RunInv
  <2>9. QED BY <2>1, <2>2, <2>4, <2>6, <2>7, <2>8, StepKeeps
<1>4. CASE Complete(p)
  <2> USE <1>4 DEF Complete
  <2> DEFINE s == IF p \in Stop THEN "observing"
                  ELSE IF p = Recovery THEN "ended" ELSE "removed"
  <2>0. /\ Final /\ exec # "running" /\ (p \notin Stop \/ ~keeps => exec = "missing")
        /\ p \in Stop => status = "stopped"
        /\ Ticketed(p) => captures /\ work = "recorded"
    BY DEF Downed, StillSo, Ticketed
  <2>1. Goes(p, s, "none", "none", "none") BY <1>0, StartsGoes
  <2>2. /\ s \in {"observing", "ended", "removed"}
        /\ s = "ended" => p = Recovery
        /\ s # "observing" => exec = "missing"
        /\ s = "observing" => p \in Stop
    BY <2>0
  <2> HIDE DEF s
  <2>3. ExitFlags' BY DEF ExitFlags, RecordDeleted
  <2>4. faults' \in 0..MaxFaults BY FaultTypes DEF ExitInv, ExitTypeOK
  <2>5. ExitPlaces' /\ HoldsOfRemovals' BY <2>1, <2>4
    DEF ExitPlaces, HoldsOfRemovals, Goes, RecordDeleted
  <2>6. Final' /\ \A q \in Process : q # p /\ Refusable(q) => Refusable(q)' \/ Final'
    <3>1. CASE RecordDeleted BY <3>1 DEF Final, Refusable, RecordDeleted
    <3>2. CASE UNCHANGED hold
      BY <2>0, <2>1, <2>2, <3>2, FinalStays DEF Lost, Goes
    <3>3. QED BY <3>1, <3>2
  <2>7. Lasts(p)
    <3>1. \A q \in Process : q # p /\ holder' = q =>
              holder = q /\ (deletion' = "issued" => deletion = "issued")
      BY DEF RecordDeleted
    <3>2. QED BY <2>6, <3>1 DEF Lasts, Lost, Quiet
  <2>8. LocalAt(p)'
    <3> USE <1>0, <2>0, <2>1, <2>2, <2>6 DEF Goes
    <3>1. Placed(p)' BY DEF Placed
    <3>2. StillSo(p)' BY DEF StillSo, Lost
    <3>3. Downed(p)' BY DEF Downed
    <3>4. Told(p)' BY DEF Told
    <3>5. QED BY <3>1, <3>2, <3>3, <3>4
  <2>9. RunInv'
    <3>1. RemovalInv' BY <2>0, <2>6 DEF RemovalInv, RecordDeleted
    <3>2. RecoveryInv' BY <1>0, <2>1, <2>6 DEF RecoveryInv, Goes
    <3>3. LedgerInv' BY DEF LedgerInv
    <3>4. RowInv' BY DEF RowInv, Quiet
    <3>5. QED BY <3>1, <3>2, <3>3, <3>4 DEF RunInv
  <2>10. QED BY <2>1, <2>3, <2>5, <2>7, <2>8, <2>9, StepKeeps
<1>5. CASE Observe(p)
  <2> USE <1>5 DEF Observe, EndRetention
  <2>0. /\ Final /\ exec # "running" /\ (p \notin Stop \/ ~keeps => exec = "missing")
        /\ p \in Stop => status = "stopped"
    BY DEF Downed
  <2>1. Goes(p, "idle", "none", "none", "none") BY DoneGoes
  <2>2. ExitFlags' BY DEF ExitFlags
  <2>3. ExitPlaces' /\ HoldsOfRemovals' BY <2>1 DEF ExitPlaces, HoldsOfRemovals, Goes
  <2>4. Final' /\ \A q \in Process : q # p /\ Refusable(q) => Refusable(q)'
    BY <2>0, <2>1, FinalStays DEF Lost, Goes
  <2>5. Lasts(p) BY <2>0, <2>4 DEF Lasts, Lost, Quiet
  <2>6. LocalAt(p)' BY <2>1 DEF Placed, StillSo, Downed, Told, Goes
  <2>7. RunInv'
    <3>1. RemovalInv' BY <2>4 DEF RemovalInv
    <3>2. RecoveryInv' BY <2>1, <2>4 DEF RecoveryInv, Goes
    <3>3. LedgerInv' BY <2>0 DEF LedgerInv, Final, RemovalInv, Lost
    <3>4. RowInv' BY <2>0 DEF RowInv, Quiet
    <3>5. QED BY <3>1, <3>2, <3>3, <3>4 DEF RunInv
  <2>8. QED BY <2>1, <2>2, <2>3, <2>5, <2>6, <2>7, StepKeeps
<1>6. QED BY <1>1, <1>2, <1>3, <1>4, <1>5

-----------------------------------------------------------------------------
(***************************************************************************)
(* What happens to all of them.                                            *)
(***************************************************************************)

\* Nobody moves, and every process stands as it stood.
LEMMA StandStill ==
    ASSUME ExitInv, UNCHANGED proc,
           ExitFlags', ExitPlaces', HoldsOfRemovals', RunInv', Lasts(Nobody)
    PROVE  ExitInv'
<1>1. ASSUME NEW q \in Process PROVE LocalAt(q)'
  <2>1. q # Nobody /\ proc'[q] = proc[q] BY ExitAssumption DEF Process
  <2>2. QED BY <2>1, OthersStand
<1>2. QED BY <1>1, ExitTypesByPart DEF ExitInv

\* While the removal is as far as it was, and lost stays lost, final is final.
LEMMA FinalStands ==
    ASSUME UNCHANGED proc, captures' = captures, discard => discard', Lost => Lost',
           deletion' = "issued" <=> deletion = "issued",
           deletion' = "deleted" <=> deletion = "deleted",
           deletion = "issued" => holder' = holder
    PROVE  /\ Final => Final'
           /\ \A q \in Process : Refusable(q) => Refusable(q)'
<1>1. \A q \in Process : Refusable(q)' <=> Refusable(q) BY DEF Refusable
<1>2. QED BY <1>1 DEF Final

LEMMA HappeningsKeep ==
    ASSUME ExitInv,
           \/ LapseHold \/ NewEvidence \/ EvidenceArrives \/ RequestDiscard
           \/ ExecutorEnds \/ PlatformEnds
    PROVE  ExitInv'
<1> USE TypesBefore DEF kinds, row, drain, hold, guest
<1>0. RemovalInv /\ RecoveryInv /\ LedgerInv /\ RowInv BY DEF ExitInv, RunInv
<1>1. CASE LapseHold
  <2> USE <1>0, <1>1 DEF LapseHold
  <2>1. faults' \in 0..MaxFaults BY FaultTypes DEF ExitInv, ExitTypeOK
  <2>2. ExitFlags' BY DEF ExitFlags
  <2>3. ExitPlaces' /\ HoldsOfRemovals' BY <2>1 DEF ExitPlaces, HoldsOfRemovals
  <2>4. (Final => Final') /\ \A q \in Process : Refusable(q) => Refusable(q)'
    BY FinalStands DEF Lost
  <2>5. Lasts(Nobody) BY <2>4 DEF Lasts, Lost, Quiet
  <2>6. RunInv'
    <3>1. RemovalInv' BY <2>4 DEF RemovalInv
    <3>2. RecoveryInv' BY <2>4 DEF RecoveryInv
    <3>3. LedgerInv' /\ RowInv' BY DEF LedgerInv, RowInv, Quiet
    <3>4. QED BY <3>1, <3>2, <3>3 DEF RunInv
  <2>7. QED BY <2>2, <2>3, <2>5, <2>6, StandStill
<1>2. CASE NewEvidence
  <2> USE <1>0, <1>2 DEF NewEvidence
  <2>1. faults' \in 0..MaxFaults BY FaultTypes DEF ExitInv, ExitTypeOK
  <2>2. ExitFlags' BY Voiding DEF ExitFlags
  <2>3. ExitPlaces' /\ HoldsOfRemovals' BY <2>1, Voiding DEF ExitPlaces
  <2>4. (Final => Final') /\ \A q \in Process : Refusable(q) => Refusable(q)'
    BY Voiding, FinalStands DEF Lost
  <2>5. Lasts(Nobody) BY <2>4, Voiding DEF Lasts, Lost, Quiet
  <2>6. RunInv'
    <3>1. RemovalInv' BY <2>4, Voiding DEF RemovalInv
    <3>2. RecoveryInv' BY <2>4 DEF RecoveryInv
    <3>3. LedgerInv' /\ RowInv' BY DEF LedgerInv, RowInv, Quiet
    <3>4. QED BY <3>1, <3>2, <3>3 DEF RunInv
  <2>7. QED BY <2>2, <2>3, <2>5, <2>6, StandStill
<1>3. CASE EvidenceArrives
  <2> USE <1>0, <1>3 DEF EvidenceArrives
  <2>1. ExitFlags' BY Voiding DEF ExitFlags
  <2>2. ExitPlaces' /\ HoldsOfRemovals' BY Voiding DEF ExitPlaces
  <2>3. (Final => Final') /\ \A q \in Process : Refusable(q) => Refusable(q)'
    BY Voiding, FinalStands DEF Lost
  <2>4. Lasts(Nobody) BY <2>3, Voiding DEF Lasts, Lost, Quiet
  <2>5. RunInv'
    <3>1. RemovalInv' BY <2>3, Voiding DEF RemovalInv
    <3>2. RecoveryInv' BY <2>3 DEF RecoveryInv
    <3>3. LedgerInv' /\ RowInv' BY DEF LedgerInv, RowInv, Quiet
    <3>4. QED BY <3>1, <3>2, <3>3 DEF RunInv
  <2>6. QED BY <2>1, <2>2, <2>4, <2>5, StandStill
<1>4. CASE RequestDiscard
  <2> USE <1>0, <1>4 DEF RequestDiscard
  <2>1. ExitFlags' BY DEF ExitFlags
  <2>2. ExitPlaces' /\ HoldsOfRemovals' BY DEF ExitPlaces, HoldsOfRemovals
  <2>3. Final' BY DEF Final
  <2>4. Lasts(Nobody) BY <2>3 DEF Lasts, Lost, Quiet
  <2>5. RunInv'
    <3>1. RemovalInv' BY <2>3 DEF RemovalInv
    <3>2. RecoveryInv' BY <2>3 DEF RecoveryInv
    <3>3. LedgerInv' /\ RowInv' BY DEF LedgerInv, RowInv, Quiet
    <3>4. QED BY <3>1, <3>2, <3>3 DEF RunInv
  <2>6. QED BY <2>1, <2>2, <2>4, <2>5, StandStill
<1>5. CASE ExecutorEnds
  <2> USE <1>0, <1>5 DEF ExecutorEnds
  <2>1. ExitFlags' BY DEF ExitFlags
  <2>2. ExitPlaces' /\ HoldsOfRemovals' BY DEF ExitPlaces, HoldsOfRemovals, Inspection
  <2>3. (Final => Final') /\ \A q \in Process : Refusable(q) => Refusable(q)'
    BY FinalStands DEF Lost
  <2>4. Lasts(Nobody) BY <2>3 DEF Lasts, Lost, Quiet
  <2>5. RunInv'
    <3>1. RemovalInv' BY <2>3 DEF RemovalInv
    <3>2. RecoveryInv' BY <2>3 DEF RecoveryInv
    <3>3. LedgerInv' /\ RowInv' BY DEF LedgerInv, RowInv, Quiet
    <3>4. QED BY <3>1, <3>2, <3>3 DEF RunInv
  <2>6. QED BY <2>1, <2>2, <2>4, <2>5, StandStill
<1>6. CASE PlatformEnds
  <2> USE <1>0, <1>6 DEF PlatformEnds
  <2>1. ExitFlags' BY DEF ExitFlags
  <2>2. ExitPlaces' /\ HoldsOfRemovals' BY DEF ExitPlaces, HoldsOfRemovals, Inspection
  <2>3. Final' /\ Lost' BY DEF Final, Lost
  <2>4. Lasts(Nobody) BY <2>3 DEF Lasts, Quiet
  <2>5. RunInv'
    <3>1. RemovalInv' BY <2>3 DEF RemovalInv
    <3>2. RecoveryInv' BY <2>3 DEF RecoveryInv
    <3>3. LedgerInv' /\ RowInv' BY DEF LedgerInv, RowInv, Quiet
    <3>4. QED BY <3>1, <3>2, <3>3 DEF RunInv
  <2>6. QED BY <2>1, <2>2, <2>4, <2>5, StandStill
<1>7. QED BY <1>1, <1>2, <1>3, <1>4, <1>5, <1>6

-----------------------------------------------------------------------------
(***************************************************************************)
(* The theorems.                                                           *)
(***************************************************************************)

\* Nobody is at work yet, and what a launch left is in order.
LEMMA InitExitInv == ExitInit => ExitInv
<1> SUFFICES ASSUME ExitInit PROVE ExitInv OBVIOUS
<1> USE DEF ExitInit
<1>0. Idle \in Local BY DEF Idle, Local, Place, Sight, Verdict
<1>1. planned \in BOOLEAN
  <2>1. (status = "stopped") \in BOOLEAN OBVIOUS
  <2>2. QED BY <2>1
<1>2. ExitTypes
  <2>1. exec \in Inspection /\ faults \in 0..MaxFaults BY ExitAssumption DEF Inspection
  <2>2. proc \in [Process -> Local] BY <1>0
  <2>3. status \in {"ready", "failed", "stopped"}
        /\ code \in {"none", "launch-retained", "runtime-exited"}
    OBVIOUS
  <2>4. ExitFlags BY <1>1 DEF ExitFlags
  <2>5. ExitPlaces BY <2>1, <2>2, <2>3 DEF ExitPlaces
  <2>6. QED BY <2>4, <2>5, Zenon DEF ExitTypes, ExitFlags, ExitPlaces
<1>3. HoldsOfRemovals BY DEF HoldsOfRemovals
<1>4. RunInv
  BY DEF RunInv, RemovalInv, RecoveryInv, LedgerInv, RowInv, Quiet, Process, Idle
<1>5. ASSUME NEW p \in Process PROVE LocalAt(p)
  <2>1. proc[p] = Idle OBVIOUS
  <2>2. QED BY <2>1 DEF LocalAt, Placed, StillSo, Downed, Told, Idle
<1>6. QED BY <1>2, <1>3, <1>4, <1>5 DEF ExitInv, ExitTypeOK

\* Every step preserves the invariant.
LEMMA StepExitInv == ExitInv /\ [ExitNext]_vars => ExitInv'
<1> SUFFICES ASSUME ExitInv, [ExitNext]_vars PROVE ExitInv' OBVIOUS
<1>1. ASSUME NEW p \in Process, Begins(p) \/ Moves(p) \/ Dies(p) PROVE ExitInv'
  BY <1>1, LooksKeep, DecisionsKeep, DrainsKeep, RecordsKeep, IssueKeeps, VoidedKeeps,
     CallKeeps, CallRefusedKeeps, CallLostKeeps, RemovedKeeps
  DEF Moves
<1>2. ASSUME BeginRecovery \/ Boot PROVE ExitInv'
  <2>1. Recovery \in Process BY DEF Process
  <2>2. QED BY <1>2, <2>1, LooksKeep, BootKeeps
<1>3. ASSUME \/ LapseHold \/ NewEvidence \/ EvidenceArrives \/ RequestDiscard
             \/ ExecutorEnds \/ PlatformEnds
      PROVE ExitInv'
  BY <1>3, HappeningsKeep
<1>4. CASE UNCHANGED vars
  <2> USE <1>4 DEF vars, kinds, row, drain, hold, guest
  <2>1. ExitFlags' /\ ExitPlaces' /\ HoldsOfRemovals'
    <3>1. ExitFlags' BY TypesBefore, Zenon DEF ExitFlags
    <3>2. ExitPlaces' BY TypesBefore DEF ExitPlaces
    <3>3. HoldsOfRemovals' BY TypesBefore DEF HoldsOfRemovals
    <3>4. QED BY <3>1, <3>2, <3>3
  <2>2. (Final => Final') /\ \A q \in Process : Refusable(q) => Refusable(q)'
    BY FinalStands DEF Lost
  <2>3. Lasts(Nobody) BY <2>2 DEF Lasts, Lost, Quiet
  <2>4. RunInv'
    BY <2>2 DEF ExitInv, RunInv, RemovalInv, RecoveryInv, LedgerInv, RowInv, Quiet
  <2>5. QED BY <2>1, <2>3, <2>4, StandStill
<1>5. QED BY <1>1, <1>2, <1>3, <1>4 DEF ExitNext

\* The invariant holds of every state of every behaviour.
THEOREM ExitInvariant == ExitSpec => []ExitInv
<1>1. ExitInit => ExitInv BY InitExitInv
<1>2. ExitInv /\ [ExitNext]_vars => ExitInv' BY StepExitInv
<1>3. QED BY <1>1, <1>2, PTL DEF ExitSpec

\* The types, and a hold only of a removal under way.
THEOREM ExitTypesHold == ExitSpec => []ExitTypeOK
<1>1. ExitInv => ExitTypeOK BY DEF ExitInv
<1>2. QED BY <1>1, ExitInvariant, PTL

\* Under the invariant, it is.
LEMMA ExitInvFollows == ExitInv => EndedIsFollowed
<1> SUFFICES ASSUME ExitInv, captures, work # "recorded", exec # "missing" PROVE Listed
  BY DEF EndedIsFollowed
<1>1. /\ RemovalInv /\ LedgerInv /\ status \in {"ready", "failed", "stopped"}
      /\ ledger \in {"open", "stopped", "gone"}
  BY DEF ExitInv, RunInv, ExitTypeOK, ExitTypes
<1>2. CASE ledger # "open" \/ (status = "stopped" /\ code = "launch-retained")
  <2>1. discard /\ keeps /\ status = "stopped" /\ ~removed
    BY <1>1, <1>2 DEF LedgerInv, RemovalInv
  <2>2. QED BY <2>1 DEF Listed, StoppedWithRemains
<1>3. CASE ledger = "open" /\ ~(status = "stopped" /\ code = "launch-retained")
  BY <1>1, <1>3 DEF Listed, Unsettled
<1>4. QED BY <1>2, <1>3

\* Whatever stops, passes and recoveries did, in whatever order and dying
\* wherever they stood, an executor that may hold unsaved work is in some sweep's
\* list.
THEOREM EndedAreFollowed == ExitSpec => []EndedIsFollowed
  BY ExitInvFollows, ExitInvariant, PTL

\* A row says stopped of no executor that runs, but one a recovery has up.
THEOREM StoppedRunNoMore == ExitSpec => []StoppedRunsNoMore
<1>1. ExitInv => StoppedRunsNoMore
  BY DEF ExitInv, RunInv, RowInv, Quiet, StoppedRunsNoMore
<1>2. QED BY <1>1, ExitInvariant, PTL

\* What the record says is gone was taken by the platform, or given up.
THEOREM OnlyTheLostAreGone == ExitSpec => []LostOnlyIfLost
<1>1. ExitInv => LostOnlyIfLost BY DEF ExitInv, RunInv, LedgerInv, LostOnlyIfLost
<1>2. QED BY <1>1, ExitInvariant, PTL

\* The steps of a process, by what of the row and the executor they change.
LEMMA WhoEndsIt ==
    ASSUME NEW p \in Process, Begins(p) \/ Moves(p) \/ Dies(p)
    PROVE  \/ UNCHANGED <<status, exec>>
           \/ RecordKept(p) \/ RecordEnd(p) \/ RecordStopped(p)
           \/ Call(p) \/ CallLost(p) \/ RemoveRemains(p)
<1> USE DEF row, guest
<1>1. CASE Begins(p) \/ Dies(p)
  BY <1>1 DEF Begins, BeginStop, ListReady, ListUnsettled, ListRemains, Dies
<1>2. CASE \/ Inspect(p) \/ Drain(p) \/ DrainUnconfirmed(p) \/ DrainSilent(p)
           \/ DrainGone(p) \/ DrainRefused(p)
  BY <1>2 DEF Inspect, Drain, DrainUnconfirmed, DrainSilent, DrainGone, DrainRefused
<1>3. CASE \/ Settle(p) \/ HeldElsewhere(p) \/ AuthorizeDeletion(p) \/ AllowUnheld(p)
           \/ Keep(p)
  BY <1>3 DEF Settle, HeldElsewhere, AuthorizeDeletion, AllowUnheld, Keep
<1>4. CASE \/ MarkStopRequested(p) \/ GiveUp(p) \/ SettleRecord(p) \/ Issue(p)
           \/ Voided(p) \/ CallRefused(p) \/ MarkRemoved(p) \/ Complete(p) \/ Observe(p)
  BY <1>4 DEF MarkStopRequested, GiveUp, SettleRecord, Issue, Voided, CallRefused,
     MarkRemoved, Complete, Observe
<1>5. QED BY <1>1, <1>2, <1>3, <1>4 DEF Moves

\* A stop that ended an executor is never taken for a crash.
THEOREM PlannedStopsAreNoCrash == ExitSpec => PlannedStopIsNoCrash
<1>1. ExitInv /\ [ExitNext]_vars
        => [status = "ready" /\ status' = "failed" => endedBy # "stop"]_vars
  <2> SUFFICES ASSUME ExitInv, ExitNext, status = "ready", status' = "failed"
               PROVE endedBy # "stop"
    BY DEF vars, row
  <2>1. endedBy = "stop" => planned BY DEF ExitInv, RunInv, RowInv
  <2>2. ASSUME NEW p \in Process, Begins(p) \/ Moves(p) \/ Dies(p) PROVE endedBy # "stop"
    BY <2>1, <2>2, WhoEndsIt
    DEF RecordKept, RecordEnd, RecordStopped, MarkStopped, ExitRecordable,
        Call, CallLost, RemoveRemains, row
  <2>3. CASE \/ BeginRecovery \/ Boot \/ LapseHold \/ NewEvidence \/ EvidenceArrives
             \/ RequestDiscard \/ ExecutorEnds \/ PlatformEnds
    BY <2>3 DEF BeginRecovery, Boot, LapseHold, NewEvidence, EvidenceArrives,
       RequestDiscard, ExecutorEnds, PlatformEnds, row
  <2>4. QED BY <2>2, <2>3 DEF ExitNext
<1>2. QED BY <1>1, ExitInvariant, PTL DEF ExitSpec, PlannedStopIsNoCrash

\* Nobody but the platform removes an executor whose work is neither recorded
\* saved nor given up.
THEOREM OnlySavedAreRemoved == ExitSpec => OnlySavedIsRemoved
<1>1. ExitInv /\ [ExitNext]_vars =>
        [captures /\ exec # "missing" /\ exec' = "missing"
           => work = "recorded" \/ discard \/ endedBy' = "platform"]_vars
  <2> SUFFICES ASSUME ExitInv, ExitNext, captures, exec # "missing", exec' = "missing"
               PROVE  work = "recorded" \/ discard \/ endedBy' = "platform"
    BY DEF vars, guest
  <2>1. ASSUME NEW p \in Process, Begins(p) \/ Moves(p) \/ Dies(p)
        PROVE  work = "recorded" \/ discard
    <3> USE Standing
    <3>1. proc[p].at = "calling" => work = "recorded" \/ discard
      BY DEF Downed, Final, Refusable, RemovalInv, Lost
    <3>2. proc[p].at = "recorded" => work = "recorded" \/ discard
      BY DEF Downed, Final, RemovalInv, Lost
    <3>3. QED BY <2>1, <3>1, <3>2, WhoEndsIt
      DEF RecordKept, RecordEnd, RecordStopped, Call, CallLost, RemoveRemains, guest
  <2>2. CASE \/ BeginRecovery \/ Boot \/ LapseHold \/ NewEvidence \/ EvidenceArrives
             \/ RequestDiscard \/ ExecutorEnds
    BY <2>2 DEF BeginRecovery, Boot, LapseHold, NewEvidence, EvidenceArrives,
       RequestDiscard, ExecutorEnds, guest
  <2>3. CASE PlatformEnds BY <2>3 DEF PlatformEnds
  <2>4. QED BY <2>1, <2>2, <2>3 DEF ExitNext
<1>2. QED BY <1>1, ExitInvariant, PTL DEF ExitSpec, OnlySavedIsRemoved

-----------------------------------------------------------------------------
(***************************************************************************)
(* RuntimeExit implements ExecutorCustody.                                 *)
(***************************************************************************)

\* Of what the platform took nothing is left.
LostInv == endedBy = "platform" => exec = "missing"

KeepInv == ExitInv /\ LostInv

\* What the owner sees of the executor does not change.
Untouched == UNCHANGED <<exec, deletion, work, discard, captures, endedBy>>

\* What the owner does not see is a stutter of the custody.
LEMMA UntouchedStutters == Untouched => UNCHANGED Custody!custodyVars
  BY DEF Untouched, CustodyNow, Custody!custodyVars

\* The steps of a process, by what of the executor, its removal and its work they
\* change.
LEMMA WhoTouchesIt ==
    ASSUME NEW p \in Process, Begins(p) \/ Moves(p) \/ Dies(p)
    PROVE  \/ Untouched
           \/ Drain(p) \/ DrainUnconfirmed(p) \/ DrainSilent(p) \/ DrainGone(p)
           \/ Settle(p) \/ AuthorizeDeletion(p) \/ GiveUp(p) \/ Issue(p)
           \/ Call(p) \/ CallRefused(p) \/ CallLost(p) \/ RemoveRemains(p) \/ Complete(p)
<1> USE DEF Untouched, kinds, row, drain, hold, guest
<1>1. CASE Begins(p) \/ Dies(p)
  BY <1>1 DEF Begins, BeginStop, ListReady, ListUnsettled, ListRemains, Dies
<1>2. CASE Inspect(p) \/ DrainRefused(p) \/ HeldElsewhere(p) \/ AllowUnheld(p) \/ Keep(p)
  BY <1>2 DEF Inspect, DrainRefused, HeldElsewhere, AllowUnheld, Keep, Progress, Retain
<1>3. CASE \/ MarkStopRequested(p) \/ RecordKept(p) \/ RecordEnd(p) \/ SettleRecord(p)
           \/ Voided(p) \/ RecordStopped(p) \/ MarkRemoved(p) \/ Observe(p)
  BY <1>3 DEF MarkStopRequested, RecordKept, RecordEnd, SettleRecord, Voided, RecordStopped,
     MarkRemoved, Observe, Retain, EndRetention
<1>4. QED BY <1>1, <1>2, <1>3 DEF Moves

\* What the platform took stays taken, and says so.
LEMMA LostStays == KeepInv /\ [ExitNext]_vars => LostInv'
<1> SUFFICES ASSUME KeepInv, [ExitNext]_vars PROVE LostInv'
  OBVIOUS
<1> USE DEF KeepInv, LostInv, guest
<1>1. ASSUME NEW p \in Process, Begins(p) \/ Moves(p) \/ Dies(p) PROVE LostInv'
  <2>1. CASE UNCHANGED <<exec, endedBy>>
    BY <2>1
  <2>2. CASE Call(p) \/ CallLost(p) \/ RemoveRemains(p)
    BY <2>2 DEF Call, CallLost, RemoveRemains, TakeDown, Ended
  <2>3. QED BY <1>1, <2>1, <2>2, WhoTouchesIt
    DEF Untouched, Drain, DrainUnconfirmed, DrainSilent, DrainGone, Settle, AuthorizeDeletion,
        GiveUp, Issue, CallRefused, Complete
<1>2. CASE BeginRecovery \/ Boot
  BY <1>2 DEF BeginRecovery, Boot
<1>3. CASE \/ LapseHold \/ NewEvidence \/ EvidenceArrives \/ RequestDiscard
           \/ ExecutorEnds \/ PlatformEnds
  BY <1>3 DEF LapseHold, NewEvidence, EvidenceArrives, RequestDiscard, ExecutorEnds, PlatformEnds
<1>4. CASE UNCHANGED vars
  BY <1>4 DEF vars
<1>5. QED BY <1>1, <1>2, <1>3, <1>4 DEF ExitNext

\* A removal that was not issued is voided, or nothing is: it stays the owner's.
LEMMA VoidingStutters ==
    ASSUME VoidDeleting
    PROVE  /\ exec' = exec => CustodyNow' = CustodyNow
           /\ Observable => deletion \notin {"issued", "deleted"} /\ deletion' \notin {"issued", "deleted"}
BY DEF VoidDeleting, GiveUpHold, Observable, hold, CustodyNow

\* What takes the executor down does so under a removal, or with its work given up.
LEMMA TakingDownRemoves ==
    ASSUME LostInv, UNCHANGED <<deletion, work, discard, captures>>,
           exec' \in {"exited", "missing"}, exec = "missing" => exec' = "missing",
           endedBy' = endedBy \/ (exec = "running" /\ endedBy' # "platform"),
           exec # "missing" => deletion \in {"issued", "deleted"} \/ discard \/ ~captures
    PROVE  [Custody!Remove]_(Custody!custodyVars)
<1>1. (endedBy' = "platform") = (endedBy = "platform")
  BY DEF LostInv
<1>2. CASE exec' = "missing" /\ exec # "missing"
  BY <1>1, <1>2 DEF CustodyNow, Custody!Remove
<1>3. CASE exec' = "exited" \/ exec = "missing"
  BY <1>1, <1>3 DEF CustodyNow, Custody!custodyVars
<1>4. QED BY <1>2, <1>3

\* Every step of a process is one of the custody, or none.
LEMMA ProcessKeepsCustody ==
    ASSUME KeepInv, NEW p \in Process, Begins(p) \/ Moves(p) \/ Dies(p)
    PROVE  [Custody!CustodyNext]_(Custody!custodyVars)
<1> USE Standing DEF KeepInv, Custody!CustodyNext, Custody!custodyVars, kinds, hold, guest
<1>1. CASE Untouched
  BY <1>1, UntouchedStutters
<1>2. CASE Drain(p)
  <2>1. CustodyNow' = CustodyNow /\ work' = "recorded"
    BY <1>2, VoidingStutters DEF Drain
  <2>2. work # "recorded" => CustodyNow = "kept"
    BY <1>2 DEF Drain, Observable, CustodyNow
  <2>3. UNCHANGED <<captures, discard, endedBy>>
    BY <1>2 DEF Drain, Progress
  <2>4. QED BY <2>1, <2>2, <2>3 DEF Custody!Answers
<1>3. CASE DrainUnconfirmed(p) \/ DrainSilent(p) \/ DrainGone(p)
  <2>1. CustodyNow' = CustodyNow
    BY <1>3, VoidingStutters DEF DrainUnconfirmed, DrainSilent, DrainGone
  <2>2. UNCHANGED <<captures, discard, endedBy>> /\ (work' = "recorded" <=> work = "recorded")
    BY <1>3 DEF DrainUnconfirmed, DrainSilent, DrainGone, Progress, Retain, EndRetention
  <2>3. QED BY <2>1, <2>2
<1>4. CASE Settle(p) \/ AuthorizeDeletion(p) \/ GiveUp(p)
  <2>1. UNCHANGED <<captures, discard, endedBy, work>>
    BY <1>4 DEF Settle, AuthorizeDeletion, GiveUp, drain
  <2>2. CustodyNow' = CustodyNow
    BY <1>4 DEF Settle, AuthorizeDeletion, GiveUp, GiveUpHold, RecordDeleted, StillSo, CustodyNow
  <2>3. QED BY <2>1, <2>2
<1>5. CASE Issue(p)
  <2>1. UNCHANGED <<captures, discard, endedBy, work, exec>>
    BY <1>5 DEF Issue, drain
  <2>2. CASE deletion' = deletion
    BY <2>1, <2>2 DEF CustodyNow
  <2>3. CASE Held /\ deletion' = "issued"
    <3>1. work = "recorded"
      BY <2>3 DEF Held, RemovalInv
    <3>2. QED BY <2>1, <2>3, <3>1 DEF Held, CustodyNow, Custody!BeginRemoval
  <2>4. QED BY <1>5, <2>2, <2>3 DEF Issue
<1>6. CASE Call(p) \/ CallLost(p)
  <2>1. Final \/ Refusable(p)
    BY <1>6 DEF Call, CallLost, Downed
  <2>2. exec # "missing" => deletion \in {"issued", "deleted"} \/ discard \/ ~captures
    BY <2>1 DEF Final, Refusable, Lost
  <2>3. UNCHANGED <<captures, discard, deletion>>
    BY <1>6 DEF Call, CallLost, NoteFailure, Progress, drain
  <2>4. CASE TakeDown(p)
    <3>1. exec' \in {"exited", "missing"} /\ (exec = "missing" => exec' = "missing")
      BY <2>4 DEF TakeDown, Ended
    <3>2. work' = work /\ (endedBy' = endedBy \/ (exec = "running" /\ endedBy' # "platform"))
      BY <2>4 DEF TakeDown
    <3>3. QED BY <2>2, <2>3, <3>1, <3>2, TakingDownRemoves
  <2>5. CASE UNCHANGED guest
    BY <2>3, <2>5, UntouchedStutters DEF Untouched
  <2>6. QED BY <1>6, <2>4, <2>5 DEF Call, CallLost
<1>7. CASE RemoveRemains(p)
  <2>1. exec # "missing" => deletion \in {"issued", "deleted"} \/ discard \/ ~captures
    BY <1>7 DEF RemoveRemains, Downed, Final, Lost
  <2>2. UNCHANGED <<captures, discard, deletion, work, endedBy>>
    BY <1>7 DEF RemoveRemains, drain
  <2>3. CASE exec' = "missing"
    BY <2>1, <2>2, <2>3, TakingDownRemoves
  <2>4. CASE exec' = exec
    BY <2>2, <2>4, UntouchedStutters DEF Untouched
  <2>5. QED BY <1>7, <2>3, <2>4 DEF RemoveRemains
<1>8. CASE CallRefused(p)
  <2>1. UNCHANGED <<captures, discard, work, exec, endedBy>>
    BY <1>8 DEF CallRefused, NoteFailure, Progress, drain
  <2>2. CASE deletion' = deletion
    BY <2>1, <2>2 DEF CustodyNow
  <2>3. CASE deletion = "issued" /\ deletion' = "none"
    BY <2>1, <2>3 DEF CustodyNow, Custody!GiveUp
  <2>4. QED BY <1>8, <2>2, <2>3 DEF CallRefused, GiveUpHold
<1>9. CASE Complete(p)
  <2>1. UNCHANGED <<captures, discard, work, exec, endedBy>>
    BY <1>9 DEF Complete, drain
  <2>2. CASE deletion' = deletion
    BY <2>1, <2>2 DEF CustodyNow
  <2>3. CASE Ticketed(p) /\ deletion' = "deleted"
    <3>1. work = "recorded"
      BY <2>3 DEF Ticketed, StillSo
    <3>2. QED BY <2>1, <2>3, <3>1 DEF CustodyNow, Custody!BeginRemoval
  <2>4. QED BY <1>9, <2>2, <2>3 DEF Complete, RecordDeleted
<1>10. QED BY <1>1, <1>2, <1>3, <1>4, <1>5, <1>6, <1>7, <1>8, <1>9, WhoTouchesIt

\* So is every other step.
LEMMA OthersKeepCustody ==
    ASSUME KeepInv,
           \/ BeginRecovery \/ Boot
           \/ LapseHold \/ NewEvidence \/ EvidenceArrives \/ RequestDiscard
           \/ ExecutorEnds \/ PlatformEnds
    PROVE  [Custody!CustodyNext]_(Custody!custodyVars)
<1> USE DEF KeepInv, Custody!CustodyNext, Custody!custodyVars, kinds, drain, hold, guest
<1>1. CASE BeginRecovery \/ LapseHold
  BY <1>1, UntouchedStutters DEF Untouched, BeginRecovery, LapseHold
<1>2. CASE Boot
  <2>1. UNCHANGED <<captures, discard, work>>
    BY <1>2 DEF Boot, EndRetention
  <2>2. CustodyNow' = CustodyNow
    BY <1>2, VoidingStutters DEF Boot, CustodyNow
  <2>3. (endedBy' = "platform") = (endedBy = "platform")
    BY <1>2 DEF Boot, LostInv
  <2>4. QED BY <2>1, <2>2, <2>3
<1>3. CASE NewEvidence
  BY <1>3, VoidingStutters DEF NewEvidence
<1>4. CASE EvidenceArrives
  <2>1. CustodyNow' = CustodyNow /\ deletion \notin {"issued", "deleted"}
    BY <1>4, VoidingStutters DEF EvidenceArrives
  <2>2. work' = "recorded" /\ UNCHANGED <<captures, discard, endedBy>>
    BY <1>4 DEF EvidenceArrives
  <2>3. CASE exec # "missing"
    BY <2>1, <2>2, <2>3 DEF CustodyNow, Custody!Answers
  <2>4. CASE exec = "missing"
    <3>1. discard \/ ~captures \/ endedBy = "platform"
      BY <2>1, <2>4 DEF ExitInv, RunInv, RemovalInv, Final, Lost
    <3>2. QED BY <2>1, <2>2, <2>4, <3>1 DEF CustodyNow, Custody!LearnLate
  <2>5. QED BY <2>3, <2>4
<1>5. CASE RequestDiscard
  BY <1>5 DEF RequestDiscard, CustodyNow, Custody!Discard
<1>6. CASE ExecutorEnds
  BY <1>6 DEF ExecutorEnds, LostInv, CustodyNow
<1>7. CASE PlatformEnds
  BY <1>7 DEF PlatformEnds, CustodyNow, Custody!Lose
<1>8. QED BY <1>1, <1>2, <1>3, <1>4, <1>5, <1>6, <1>7

\* For any stops, passes and faults, the executor is in its owner's custody as
\* ExecutorCustody says, which ExecutorRemoval implements too: what this module
\* abstracts of the evidence and the tickets keeps the same promise
\* (authorizedDeletion, settleIssuedRemoval, removeUnderDeletion).
THEOREM ExitImplementsCustody == ExitSpec => ImplementsCustody
<1>1. ExitInit => KeepInv /\ Custody!CustodyInit
  <2> SUFFICES ASSUME ExitInit PROVE LostInv /\ Custody!CustodyInit
    BY InitExitInv DEF KeepInv
  <2>1. (discard \/ ~captures) \in BOOLEAN
    BY DEF ExitInit
  <2>2. exec # "missing" /\ endedBy = "other" /\ deletion = "none" /\ work = "unsaved"
    BY DEF ExitInit
  <2>3. QED BY <2>1, <2>2 DEF LostInv, CustodyNow, Custody!CustodyInit
<1>2. KeepInv /\ [ExitNext]_vars => KeepInv'
  BY StepExitInv, LostStays DEF KeepInv
<1>3. KeepInv /\ [ExitNext]_vars => [Custody!CustodyNext]_(Custody!custodyVars)
  <2> SUFFICES ASSUME KeepInv, [ExitNext]_vars
               PROVE  [Custody!CustodyNext]_(Custody!custodyVars)
    OBVIOUS
  <2>1. CASE UNCHANGED vars
    BY <2>1, UntouchedStutters DEF Untouched, vars, kinds, drain, hold, guest
  <2>2. QED BY <2>1, ProcessKeepsCustody, OthersKeepCustody DEF ExitNext
<1>4. QED BY <1>1, <1>2, <1>3, PTL DEF ExitSpec, ImplementsCustody, Custody!CustodySpec

-----------------------------------------------------------------------------
(***************************************************************************)
(* What is on no list.                                                     *)
(***************************************************************************)

\* The removal was asked for, and nobody's refusal would take that back.
RemovalOver ==
    /\ deletion \in {"issued", "deleted"}
    /\ \A p \in Process : ~Refusable(p)

\* What the record says of an executor that is still there.
LeftInv ==
    /\ deletion = "deleted" /\ exec # "missing" => keeps /\ status = "stopped"
    /\ captures /\ ledger = "stopped" /\ exec # "missing" =>
          keeps /\ status = "stopped" /\ (discard \/ RemovalOver)

\* A step of p that leaves the removal alone, and does not begin a call under a
\* ticket, makes no call refusable.
LEMMA MovingStaysOver ==
    ASSUME RemovalOver, NEW p \in Process, UNCHANGED <<deletion, holder>>,
           \A q \in Process : q # p => proc'[q] = proc[q],
           proc'[p].at = "calling" => proc'[p].verdict # "ticket"
    PROVE  RemovalOver'
BY DEF RemovalOver, Refusable

\* Where a step leaves its process that begins no call.
LEMMA Elsewhere ==
    ASSUME ExitInv, NEW p \in Process,
           \/ Done(p) \/ \E w \in Sight : Sees(p, w)
           \/ \E s \in Place \ {"calling"} : MoveTo(p, s)
           \/ \E s \in Place \ {"calling"}, v \in Verdict : Decides(p, v, s) \/ Requests(p, v, s)
           \/ \E s \in Place \ {"calling"}, l \in {"none", "exit", "unsettled"} :
                  Starts(p, s, l, "none") \/ Starts(p, s, l, "bare")
    PROVE  /\ proc'[p].at # "calling"
           /\ \A q \in Process : q # p => proc'[q] = proc[q]
<1> USE Standing DEF Goes
<1>1. CASE Done(p)
  BY <1>1, DoneGoes
<1>2. CASE \E w \in Sight : Sees(p, w)
  BY <1>2, SeesGoes
<1>3. CASE \E s \in Place \ {"calling"} : MoveTo(p, s)
  BY <1>3, MoveToGoes
<1>4. CASE \E s \in Place \ {"calling"}, v \in Verdict : Decides(p, v, s) \/ Requests(p, v, s)
  BY <1>4, DecidesGoes, RequestsGoes
<1>5. CASE \E s \in Place \ {"calling"}, l \in {"none", "exit", "unsettled"} :
              Starts(p, s, l, "none") \/ Starts(p, s, l, "bare")
  BY <1>5, StartsGoes DEF Verdict
<1>6. QED BY <1>1, <1>2, <1>3, <1>4, <1>5

\* Only Issue, and the sweep of the remains, begin one.
LEMMA OnlyIssueCalls ==
    ASSUME ExitInv, NEW p \in Process,
           \/ BeginStop(p) \/ ListReady(p) \/ ListUnsettled(p) \/ Dies(p)
           \/ (p = Recovery /\ (BeginRecovery \/ Boot))
           \/ Inspect(p) \/ DrainRefused(p) \/ HeldElsewhere(p) \/ AllowUnheld(p) \/ Keep(p)
           \/ MarkStopRequested(p) \/ RecordKept(p) \/ RecordEnd(p) \/ SettleRecord(p) \/ GiveUp(p)
           \/ Voided(p) \/ Call(p) \/ CallRefused(p) \/ CallLost(p) \/ RecordStopped(p)
           \/ RemoveRemains(p) \/ MarkRemoved(p) \/ Complete(p) \/ Observe(p)
    PROVE  /\ proc'[p].at # "calling"
           /\ \A q \in Process : q # p => proc'[q] = proc[q]
<1>0. /\ {"idle", "looking", "looked", "decided", "requested", "ended", "recorded", "removed",
          "completing", "observing", "booted"} \subseteq Place \ {"calling"}
      /\ {"none", "bare", "keep", "missing"} \subseteq Verdict
      /\ {"running", "unknown", exec} \subseteq Sight
      /\ proc[p].verdict \in Verdict
  BY Standing DEF Place, Verdict, Sight, Local
<1>1. CASE BeginStop(p) \/ ListReady(p) \/ ListUnsettled(p) \/ Dies(p)
  BY <1>0, <1>1, Elsewhere DEF BeginStop, ListReady, ListUnsettled, Dies
<1>2. CASE p = Recovery /\ (BeginRecovery \/ Boot)
  BY <1>0, <1>2, Elsewhere DEF BeginRecovery, Boot
<1>3. CASE Inspect(p) \/ DrainRefused(p) \/ HeldElsewhere(p)
  BY <1>0, <1>3, Elsewhere DEF Inspect, DrainRefused, HeldElsewhere
<1>4. CASE AllowUnheld(p) \/ Keep(p)
  BY <1>0, <1>4, Elsewhere DEF AllowUnheld, Keep, Grant
<1>5. CASE MarkStopRequested(p) \/ RecordKept(p) \/ RecordEnd(p) \/ SettleRecord(p) \/ GiveUp(p)
  BY <1>0, <1>5, Elsewhere DEF MarkStopRequested, RecordKept, RecordEnd, SettleRecord, GiveUp
<1>6. CASE Voided(p) \/ Call(p) \/ CallRefused(p) \/ CallLost(p)
  BY <1>0, <1>6, Elsewhere DEF Voided, Call, CallRefused, CallLost
<1>7. CASE RecordStopped(p) \/ RemoveRemains(p) \/ MarkRemoved(p) \/ Complete(p) \/ Observe(p)
  BY <1>0, <1>7, Elsewhere DEF RecordStopped, RemoveRemains, MarkRemoved, Complete, Observe
<1>8. QED BY <1>1, <1>2, <1>3, <1>4, <1>5, <1>6, <1>7

\* Once the removal is over it is so for good, whoever goes on with it.
LEMMA OverStays == ExitInv /\ RemovalOver /\ [ExitNext]_vars => RemovalOver'
<1> SUFFICES ASSUME ExitInv, RemovalOver, [ExitNext]_vars PROVE RemovalOver'
  OBVIOUS
<1> USE DEF hold
<1>1. deletion \in {"issued", "deleted"} /\ ~Observable
  BY DEF RemovalOver, Observable
<1>2. ASSUME NEW p \in Process, Begins(p) \/ Moves(p) \/ Dies(p) PROVE RemovalOver'
  <2>1. CASE BeginStop(p) \/ ListReady(p) \/ ListUnsettled(p) \/ Dies(p)
    BY <2>1, OnlyIssueCalls, MovingStaysOver
    DEF BeginStop, ListReady, ListUnsettled, Dies
  <2>2. CASE ListRemains(p)
    <3>1. "calling" \in Place /\ "bare" \in Verdict BY DEF Place, Verdict
    <3>2. Goes(p, "calling", "remains", "none", "bare")
      BY <2>2, <3>1, StartsGoes, Standing DEF ListRemains
    <3>3. QED BY <2>2, <3>2, MovingStaysOver DEF Goes, ListRemains
  <2>3. CASE \/ Inspect(p) \/ DrainRefused(p) \/ HeldElsewhere(p) \/ AllowUnheld(p) \/ Keep(p)
             \/ MarkStopRequested(p) \/ RecordKept(p) \/ RecordEnd(p) \/ SettleRecord(p)
             \/ Voided(p) \/ Call(p) \/ CallLost(p) \/ RecordStopped(p) \/ RemoveRemains(p)
             \/ MarkRemoved(p) \/ Observe(p)
    <3>1. UNCHANGED <<deletion, holder>>
      BY <2>3
      DEF Inspect, DrainRefused, HeldElsewhere, AllowUnheld, Keep, MarkStopRequested,
          RecordKept, RecordEnd, SettleRecord, Voided, Call, CallLost, RecordStopped,
          RemoveRemains, MarkRemoved, Observe
    <3>2. QED BY <2>3, <3>1, OnlyIssueCalls, MovingStaysOver
  <2>4. CASE Drain(p) \/ DrainUnconfirmed(p) \/ DrainSilent(p) \/ DrainGone(p)
    BY <1>1, <2>4 DEF Drain, DrainUnconfirmed, DrainSilent, DrainGone
  <2>5. CASE Settle(p)
    <3>1. CASE RecordDeleted
      BY <3>1 DEF RecordDeleted, RemovalOver, Refusable
    <3>2. CASE holder' = p /\ Grant(p, "reissue") /\ UNCHANGED deletion
      <4>1. \E s, l, w : Goes(p, s, l, w, "reissue")
        BY <3>2, GrantGoes, Standing DEF Verdict
      <4>2. QED BY <1>1, <3>2, <4>1 DEF RemovalOver, Refusable, Goes
    <3>3. QED BY <2>5, <3>1, <3>2 DEF Settle
  <2>6. CASE AuthorizeDeletion(p)
    <3>1. Grant(p, "bare") /\ UNCHANGED <<deletion, holder>>
      BY <1>1, <2>6 DEF AuthorizeDeletion
    <3>2. \E s, l, w : Goes(p, s, l, w, "bare")
      BY <3>1, GrantGoes, Standing DEF Verdict
    <3>3. QED BY <3>1, <3>2, MovingStaysOver DEF Goes
  <2>7. CASE GiveUp(p) \/ CallRefused(p)
    <3>1. UNCHANGED <<deletion, holder>>
      BY <1>1, <2>7 DEF GiveUp, CallRefused, RemovalOver, Refusable
    <3>2. QED BY <2>7, <3>1, OnlyIssueCalls, MovingStaysOver
  <2>8. CASE Issue(p)
    <3>1. Goes(p, "calling", "none", "none", proc[p].verdict)
      BY <2>8, CallsGoes, Standing DEF Issue
    <3>2. CASE ~Ticketed(p)
      BY <2>8, <3>1, <3>2, MovingStaysOver DEF Issue, Ticketed, Goes
    <3>3. CASE Ticketed(p)
      <4>1. holder = p /\ Held /\ deletion' = "issued" /\ holder' = holder
        BY <2>8, <3>3 DEF Issue
      <4>2. proc[p].verdict # "ticket"
        BY <1>1, <2>8, <4>1, Standing DEF Issue, StillSo, Held
      <4>3. QED BY <3>1, <4>1, <4>2 DEF RemovalOver, Refusable, Goes
    <3>4. QED BY <3>2, <3>3
  <2>9. CASE Complete(p)
    <3>1. CASE RecordDeleted
      BY <3>1 DEF RecordDeleted, RemovalOver, Refusable
    <3>2. CASE UNCHANGED <<deletion, holder>>
      BY <2>9, <3>2, OnlyIssueCalls, MovingStaysOver
    <3>3. QED BY <2>9, <3>1, <3>2 DEF Complete
  <2>10. QED BY <1>2, <2>1, <2>2, <2>3, <2>4, <2>5, <2>6, <2>7, <2>8, <2>9 DEF Begins, Moves
<1>3. CASE BeginRecovery
  BY <1>3, OnlyIssueCalls, MovingStaysOver DEF BeginRecovery, Process
<1>4. CASE Boot
  <2>1. UNCHANGED <<deletion, holder>>
    BY <1>1, <1>4 DEF Boot
  <2>2. QED BY <1>4, <2>1, OnlyIssueCalls, MovingStaysOver DEF Process
<1>5. CASE \/ LapseHold \/ NewEvidence \/ EvidenceArrives \/ RequestDiscard
           \/ ExecutorEnds \/ PlatformEnds \/ UNCHANGED vars
  BY <1>1, <1>5
  DEF LapseHold, NewEvidence, EvidenceArrives, RequestDiscard, ExecutorEnds, PlatformEnds, vars,
      RemovalOver, Refusable
<1>6. QED BY <1>2, <1>3, <1>4, <1>5 DEF ExitNext

\* What no step takes back of the row and the executor, and where a removal
\* recorded and a record of a stop come from.
LEMMA LeftBy ==
    ASSUME ExitInv, [ExitNext]_vars
    PROVE  /\ captures' = captures /\ keeps' = keeps
           /\ status = "stopped" => status' = "stopped"
           /\ exec = "missing" => exec' = "missing"
           /\ discard => discard'
           /\ deletion' = "deleted" =>
                 \/ deletion = "deleted" \/ exec = "missing"
                 \/ \E p \in Process : Complete(p)
           /\ ledger' = "stopped" =>
                 \/ ledger = "stopped" \/ (deletion = "deleted" /\ deletion' = "deleted")
                 \/ \E p \in Process : Observe(p)
<1> USE DEF kinds, row, drain, hold, guest, VoidDeleting, GiveUpHold
<1>1. ASSUME NEW p \in Process, Begins(p) \/ Moves(p) \/ Dies(p)
      PROVE  /\ captures' = captures /\ keeps' = keeps
             /\ status = "stopped" => status' = "stopped"
             /\ exec = "missing" => exec' = "missing"
             /\ discard => discard'
             /\ deletion' = "deleted" => deletion = "deleted" \/ exec = "missing" \/ Complete(p)
             /\ ledger' = "stopped" => ledger = "stopped" \/ Observe(p)
  <2>1. CASE Begins(p) \/ Dies(p)
    BY <2>1 DEF Begins, BeginStop, ListReady, ListUnsettled, ListRemains, Dies
  <2>2. CASE Inspect(p) \/ HeldElsewhere(p) \/ AllowUnheld(p) \/ Keep(p)
    BY <2>2 DEF Inspect, HeldElsewhere, AllowUnheld, Keep, Retain
  <2>3. CASE Drain(p) \/ DrainUnconfirmed(p) \/ DrainSilent(p) \/ DrainGone(p) \/ DrainRefused(p)
    BY <2>3
    DEF Drain, DrainUnconfirmed, DrainSilent, DrainGone, DrainRefused, Progress, Retain,
        EndRetention
  <2>4. CASE Settle(p) \/ AuthorizeDeletion(p)
    BY <2>4, Standing DEF Settle, AuthorizeDeletion, RecordDeleted, StillSo
  <2>5. CASE MarkStopRequested(p) \/ RecordKept(p) \/ RecordEnd(p) \/ GiveUp(p) \/ SettleRecord(p)
    BY <2>5
    DEF MarkStopRequested, RecordKept, RecordEnd, GiveUp, SettleRecord, MarkStopped,
        ExitRecordable, Retain, EndRetention
  <2>6. CASE Issue(p) \/ Voided(p) \/ Call(p) \/ CallRefused(p) \/ CallLost(p)
    BY <2>6
    DEF Issue, Voided, Call, CallRefused, CallLost, NoteFailure, Progress, Retain, TakeDown,
        Ended
  <2>7. CASE RecordStopped(p) \/ RemoveRemains(p) \/ MarkRemoved(p) \/ Complete(p) \/ Observe(p)
    BY <2>7
    DEF RecordStopped, MarkStopped, RemoveRemains, MarkRemoved, Complete, Observe, EndRetention
  <2>8. QED BY <1>1, <2>1, <2>2, <2>3, <2>4, <2>5, <2>6, <2>7 DEF Moves
<1>2. CASE BeginRecovery \/ Boot
  BY <1>2 DEF BeginRecovery, Boot, EndRetention
<1>3. CASE \/ LapseHold \/ NewEvidence \/ EvidenceArrives \/ RequestDiscard
           \/ ExecutorEnds \/ PlatformEnds \/ UNCHANGED vars
  BY <1>3
  DEF LapseHold, NewEvidence, EvidenceArrives, RequestDiscard, ExecutorEnds, PlatformEnds, vars
<1>4. QED BY <1>1, <1>2, <1>3 DEF ExitNext

\* An executor a stop took down stays the stopped row's, its removal over.
LEMMA LeftStays == ExitInv /\ LeftInv /\ [ExitNext]_vars => LeftInv'
<1> SUFFICES ASSUME ExitInv, LeftInv, [ExitNext]_vars PROVE LeftInv'
  OBVIOUS
<1>1. ASSUME deletion' = "deleted", exec' # "missing"
      PROVE  keeps' /\ status' = "stopped"
  <2>1. CASE deletion = "deleted"
    BY <1>1, <2>1, LeftBy DEF LeftInv
  <2>2. ASSUME NEW p \in Process, Complete(p) PROVE keeps' /\ status' = "stopped"
    BY <1>1, <2>2, LeftBy, Standing DEF Complete, Downed
  <2>3. QED BY <1>1, <2>1, <2>2, LeftBy
<1>2. ASSUME captures', ledger' = "stopped", exec' # "missing"
      PROVE  keeps' /\ status' = "stopped" /\ (discard' \/ RemovalOver')
  <2>1. CASE ledger = "stopped"
    BY <1>2, <2>1, LeftBy, OverStays DEF LeftInv
  <2>2. CASE deletion = "deleted" /\ deletion' = "deleted"
    BY <1>1, <1>2, <2>2 DEF RemovalOver, Refusable
  <2>3. ASSUME NEW p \in Process, Observe(p)
        PROVE  keeps' /\ status' = "stopped" /\ (discard' \/ RemovalOver')
    <3>1. captures /\ exec # "missing"
      BY <1>2, LeftBy
    <3>2. keeps /\ status = "stopped" /\ Final
      BY <2>3, <3>1, Standing DEF Observe, Downed
    <3>3. discard \/ RemovalOver
      BY <3>1, <3>2 DEF Final, Lost, RemovalOver
    <3>4. QED BY <3>2, <3>3, LeftBy, OverStays
  <2>4. QED BY <1>2, <2>1, <2>2, <2>3, LeftBy
<1>3. QED BY <1>1, <1>2 DEF LeftInv

\* Whatever fails and however often, an executor of a capture run that is on no
\* list has its work on record as saved, and is a stopped retained launch's or
\* one whose removal was issued and not recorded
\* (removeStoppedRemains, completeDeletion).
THEOREM UnlistedAreSaved == ExitSpec => []UnlistedIsSaved
<1>1. ExitInit => LeftInv
  BY DEF ExitInit, LeftInv
<1>2. ExitInv /\ LeftInv => UnlistedIsSaved
  <2> SUFFICES ASSUME ExitInv, LeftInv, captures, exec # "missing", ~Listed
               PROVE  /\ work = "recorded"
                      /\ code # "launch-retained" =>
                            status = "stopped" /\ keeps /\ deletion = "issued"
    BY DEF UnlistedIsSaved
  <2>1. RemovalInv /\ LedgerInv /\ status \in {"ready", "failed", "stopped"}
        /\ ledger \in {"open", "stopped", "gone"}
    BY DEF ExitInv, RunInv, ExitTypeOK, ExitTypes
  <2>2. work = "recorded"
    BY ExitInvFollows DEF EndedIsFollowed
  <2>3. ASSUME code # "launch-retained" PROVE status = "stopped" /\ keeps /\ deletion = "issued"
    <3>1. ledger = "stopped" /\ ~retained
      BY <2>1, <2>3 DEF Listed, Unsettled, LedgerInv
    <3>2. keeps /\ status = "stopped" /\ (discard \/ RemovalOver) /\ ~removed
      BY <2>1, <3>1 DEF LeftInv, RemovalInv
    <3>3. ~discard /\ deletion # "deleted"
      BY <3>1, <3>2 DEF Listed, StoppedWithRemains
    <3>4. QED BY <3>2, <3>3 DEF RemovalOver
  <2>4. QED BY <2>2, <2>3
<1>3. QED BY <1>1, <1>2, LeftStays, ExitInvariant, PTL DEF ExitSpec

=============================================================================
