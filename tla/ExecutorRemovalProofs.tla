------------------------ MODULE ExecutorRemovalProofs ------------------------
(***************************************************************************)
(* Proofs about ExecutorRemoval, for any observations, tickets, recovery   *)
(* attempts and bounds: a request the runtime may still carry out rests on *)
(* the executor's last word, is on record, and is excluded from whatever   *)
(* asks the executor or boots it.                                          *)
(***************************************************************************)
EXTENDS ExecutorRemoval, CaptureEvidenceProofs

(***************************************************************************)
(* The inductive invariant: the evidence's own, the types, and the parts   *)
(* below.                                                                  *)
(***************************************************************************)

\* A ticket nobody issued is on no request and in no bound; one about to be
\* sent is not at the runtime yet.
TicketInv ==
    \A k \in Ticket :
        /\ step[k] \in {"new", "decided", "held"} =>
              sent[k] = "none" /\ requests[k] = "none" /\ issuer # k /\ k \notin past
        /\ step[k] \in {"new", "decided"} => token # k
        /\ step[k] = "issued" => sent[k] = "none"

\* A version read and still current, or authorized on and still current, is of
\* evidence that reads saved with nothing in flight.
VersionInv == seen # {} \/ current => CurrentlySaved

\* The runtime carried out a request only by removing the executor.
ActedInv == \A k \in Ticket : sent[k] = "acted" => ~exists

\* An attempt under way holds the live claim; once admitted, and until it has
\* started the executor, no removal is decided by it or by anyone.
ClaimInv ==
    \A a \in Attempt :
        /\ Underway(a) => claimLive /\ claimant = a
        /\ attempt[a] = "admitted" => ~RemovingFor(a) /\ state \in {"none", "deleted"}

RemovalInv ==
    /\ EvidenceInv /\ RemovalTypeOK
    /\ TicketInv /\ VersionInv /\ ActedInv /\ ClaimInv
    /\ RequestRestsOnSaved /\ NothingAskedWhileRemovable
    /\ RequestOnRecord /\ DeletedIsGone

\* The types by part: those that are truth values, and the others.
RemovalFlags ==
    /\ exists \in BOOLEAN /\ discarded \in BOOLEAN /\ live \in BOOLEAN
    /\ current \in BOOLEAN /\ retained \in BOOLEAN /\ claimLive \in BOOLEAN

RemovalPlaces ==
    /\ state \in DeletionState
    /\ token \in Ticket \cup {Nobody} /\ issuer \in Ticket \cup {Nobody}
    /\ requests \in [Ticket -> Outcome] /\ step \in [Ticket -> Step]
    /\ asker \in [Ticket -> Attempt \cup {Nobody}] /\ sent \in [Ticket -> Request]
    /\ seen \in SUBSET Ticket /\ past \in SUBSET Ticket
    /\ claimant \in Attempt \cup {Nobody} /\ attempt \in [Attempt -> Stage]

\* The parts are the whole of the types after a step.
LEMMA RemovalTypesByPart ==
    ASSUME TypeOK', RemovalFlags', RemovalPlaces', RowShape'
    PROVE  RemovalTypeOK'
BY Zenon DEF RemovalFlags, RemovalPlaces, RemovalTypeOK

-----------------------------------------------------------------------------
(***************************************************************************)
(* The evidence.                                                           *)
(***************************************************************************)

\* Every step of the removal takes a step of the evidence, or none.
LEMMA RemovalStepIsEvidenceStep ==
    ASSUME [RemovalNext]_vars
    PROVE  [Next]_evidenceVars
<1>1. ASSUME NEW t \in Observation, ObserverStep(t) PROVE [Next]_evidenceVars
  BY <1>1 DEF ObserverStep, OpenUnlessRemoving, HearWhileThere, CloseAndBump,
     RecordAndVoid, EndAndBump, ObserverFails, Next, ObservationStep
<1>2. ASSUME NEW k \in Ticket, DeleterStep(k) PROVE UNCHANGED evidenceVars
  BY <1>2 DEF DeleterStep, Decide, Authorize, AuthorizeRefused, Issue, IssueRefused,
     Send, Renew, Complete, ReleaseDeletion, OutcomeUnknown, DeleterDies, TakeOver
<1>3. ASSUME NEW a \in Attempt, RecoveryStep(a) PROVE [Next]_evidenceVars
  BY <1>3 DEF RecoveryStep, ClaimRecovery, AdmitRecovery, StartExecutor, EndAttempt, Next
<1>4. CASE RuntimeStep
  BY <1>4 DEF RuntimeStep, RuntimeRemoves, RuntimeRefuses, PassBound, RebootWhileThere,
     RemoveDiscarded, Next
<1>5. CASE RowStep
  BY <1>5 DEF RowStep, AttestCompletion, LapseHold, ReconcileGone, ReleaseFenced,
     RequestDiscard, MarkRetained, EndRetention, LapseClaim
<1>6. CASE TimePasses
  BY <1>6 DEF TimePasses, Next
<1>7. CASE UNCHANGED vars
  BY <1>7 DEF vars
<1> QED BY <1>1, <1>2, <1>3, <1>4, <1>5, <1>6, <1>7 DEF RemovalNext

\* A removal only ever restricts what CaptureEvidence does.
THEOREM RemovalImplementsEvidence == RemovalSpec => ImplementsEvidence
<1>1. RemovalInit => Init
  BY DEF RemovalInit
<1>2. [RemovalNext]_vars => [Next]_evidenceVars
  BY RemovalStepIsEvidenceStep
<1> QED BY <1>1, <1>2, PTL DEF RemovalSpec, ImplementsEvidence, Spec

\* So the record may be relied on as CaptureEvidence says.
LEMMA SavedOutranksUnsaved ==
    ASSUME EvidenceInv, CurrentlySaved, NEW t \in Observation, HeardUnsaved(t)
    PROVE  Outranked(t)
BY EvidenceInvIsSafe DEF HeardUnsavedOutranked

-----------------------------------------------------------------------------
(***************************************************************************)
(* Initially.                                                              *)
(***************************************************************************)

\* The invariant holds before anything was asked of the executor or of the row.
LEMMA RemovalInitInv == RemovalInit => RemovalInv
<1> SUFFICES ASSUME RemovalInit PROVE RemovalInv
  OBVIOUS
<1> USE DEF RemovalInit
<1>1. EvidenceInv /\ TypeOK
  BY InitInv DEF EvidenceInv
<1>2. RemovalTypeOK
  BY <1>1 DEF RemovalTypeOK, RowShape, DeletionState, Outcome, Step, Request, Stage
<1>3. TicketInv
  BY RemovalAssumption DEF TicketInv
<1>4. VersionInv /\ ActedInv /\ ClaimInv
  BY DEF VersionInv, ActedInv, ClaimInv, Underway
<1>5. \A k \in Ticket : ~MayAct(k)
  BY DEF MayAct
<1>6. RequestRestsOnSaved /\ NothingAskedWhileRemovable /\ RequestOnRecord /\ DeletedIsGone
  BY <1>5 DEF RequestRestsOnSaved, NothingAskedWhileRemovable, RequestOnRecord, DeletedIsGone
<1> QED BY <1>1, <1>2, <1>3, <1>4, <1>6 DEF RemovalInv

-----------------------------------------------------------------------------
(***************************************************************************)
(* What every step has in common.                                          *)
(***************************************************************************)

\* A later saved answer stays on record: outranking is for good.
LEMMA OutrankedStays ==
    ASSUME EvidenceInv, [Next]_evidenceVars, NEW t \in Observation,
           answer'[t] = answer[t], Outranked(t)
    PROVE  Outranked(t)'
<1>1. PICK u \in Observation : /\ phase[u] = "recorded"
                               /\ answer[u].saved
                               /\ answer[t].observation < answer[u].observation
  BY DEF Outranked
<1>2. phase'[u] = "recorded" /\ answer'[u] = answer[u]
  <2>1. CASE Tick \/ Reboot \/ UNCHANGED evidenceVars
    BY <1>1, <2>1 DEF Tick, Reboot, evidenceVars
  <2>2. ASSUME NEW v \in Observation, ObservationStep(v)
        PROVE  phase'[u] = "recorded" /\ answer'[u] = answer[u]
    BY <1>1, <2>2 DEF ObservationStep, OpenObservation, HearAnswer, CloseObservation,
       RecordStatus, RecordFails, EndObservation, AbandonObservation, EvidenceInv, TypeOK
  <2> QED BY <2>1, <2>2 DEF Next
<1> QED BY <1>1, <1>2 DEF Outranked

\* While a request may act, a step that lets no other act, asks nothing and
\* hears nothing leaves the request resting on the executor's last word.
LEMMA StillRests ==
    ASSUME RemovalInv, [Next]_evidenceVars,
           \A k \in Ticket : MayAct(k)' => MayAct(k),
           (\E k \in Ticket : MayAct(k)) =>
               /\ answer' = answer
               /\ \A t \in Observation : phase'[t] = "asking" => phase[t] = "asking"
    PROVE  RequestRestsOnSaved' /\ NothingAskedWhileRemovable'
<1>1. ASSUME NEW k \in Ticket, MayAct(k)', NEW t \in Observation, HeardUnsaved(t)'
      PROVE  Outranked(t)'
  <2>1. MayAct(k) /\ answer' = answer /\ HeardUnsaved(t)
    BY <1>1 DEF HeardUnsaved
  <2>2. Outranked(t)
    BY <2>1 DEF RemovalInv, RequestRestsOnSaved
  <2> QED BY <2>1, <2>2, OutrankedStays DEF RemovalInv
<1>2. ASSUME NEW k \in Ticket, MayAct(k)', NEW t \in Observation
      PROVE  phase'[t] # "asking"
  BY <1>2 DEF RemovalInv, NothingAskedWhileRemovable
<1> QED BY <1>1, <1>2 DEF RequestRestsOnSaved, NothingAskedWhileRemovable

\* What a step that leaves the evidence alone, and lets no other request act,
\* keeps without further ado.
LEMMA EvidenceAlone ==
    ASSUME RemovalInv, UNCHANGED evidenceVars,
           \A k \in Ticket : MayAct(k)' => MayAct(k)
    PROVE  /\ EvidenceInv' /\ TypeOK'
           /\ CurrentlySaved => CurrentlySaved'
           /\ RequestRestsOnSaved' /\ NothingAskedWhileRemovable'
<1>1. EvidenceInv' /\ TypeOK'
  BY StepKeepsInv DEF RemovalInv, EvidenceInv
<1>2. CurrentlySaved => CurrentlySaved'
  BY DEF CurrentlySaved, ReadsSaved, evidenceVars, statuses, fences
<1>3. RequestRestsOnSaved' /\ NothingAskedWhileRemovable'
  BY StillRests DEF evidenceVars
<1> QED BY <1>1, <1>2, <1>3

\* With no removal issued or done, no request may act.
LEMMA NoneMayAct ==
    ASSUME RemovalInv, state \notin {"issued", "deleted"}, NEW k \in Ticket
    PROVE  ~MayAct(k)
BY DEF RemovalInv, RequestOnRecord

-----------------------------------------------------------------------------
(***************************************************************************)
(* Observations.                                                           *)
(***************************************************************************)

\* A step of an observation that leaves the row's removal columns alone but
\* for bumping the version, or that voids an unissued removal and bumps it,
\* keeps what is said of deleters and attempts.
LEMMA ObservingKeepsRow ==
    ASSUME RemovalInv, TypeOK', UNCHANGED <<exists, discarded, deleters, recovery>>,
           \/ UNCHANGED removal /\ BumpVersion
           \/ VoidDeleting /\ BumpVersion
           \/ UNCHANGED removal /\ UNCHANGED versions
    PROVE  /\ RemovalTypeOK' /\ TicketInv' /\ ActedInv' /\ ClaimInv'
           /\ RequestOnRecord' /\ DeletedIsGone'
           /\ \A k \in Ticket : MayAct(k)' <=> MayAct(k)
<1> USE DEF RemovalInv, removal, versions, deleters, recovery
<1>1. \A k \in Ticket : MayAct(k)' <=> MayAct(k)
  BY DEF MayAct
<1>2. RemovalTypeOK'
  <2>1. CASE UNCHANGED removal /\ BumpVersion
    <3>1. RemovalFlags' BY <2>1 DEF RemovalTypeOK, RemovalFlags, BumpVersion
    <3>2. RemovalPlaces' BY <2>1 DEF RemovalTypeOK, RemovalPlaces, BumpVersion
    <3>3. RowShape' BY <2>1 DEF RemovalTypeOK, RowShape, BumpVersion
    <3> QED BY <3>1, <3>2, <3>3, RemovalTypesByPart
  <2>2. CASE NoDeletion([k \in Ticket |-> "none"]) /\ BumpVersion
    BY <2>2 DEF RemovalTypeOK, RowShape, DeletionState, Outcome, NoDeletion, BumpVersion
  <2>3. CASE UNCHANGED removal /\ UNCHANGED versions
    BY <2>3 DEF RemovalTypeOK, RowShape
  <2> QED BY <2>1, <2>2, <2>3 DEF VoidDeleting
<1>3. TicketInv'
  BY RemovalAssumption DEF TicketInv, VoidDeleting, NoDeletion
<1>4. ActedInv' /\ DeletedIsGone'
  BY DEF ActedInv, DeletedIsGone, VoidDeleting, NoDeletion
<1>5. ClaimInv'
  BY DEF ClaimInv, Underway, RemovingFor, Active, VoidDeleting, NoDeletion
<1>6. RequestOnRecord'
  BY <1>1 DEF RequestOnRecord, VoidDeleting, NoDeletion
<1> QED BY <1>1, <1>2, <1>3, <1>4, <1>5, <1>6

\* No fence is opened while a request may act.
LEMMA OpenKeepsRemovalInv ==
    ASSUME RemovalInv, NEW t \in Observation, OpenUnlessRemoving(t)
    PROVE  RemovalInv'
<1>1. [Next]_evidenceVars /\ EvidenceInv' /\ TypeOK'
  BY StepKeepsInv DEF OpenUnlessRemoving, Next, ObservationStep, RemovalInv, EvidenceInv
<1>2. /\ RemovalTypeOK' /\ TicketInv' /\ ActedInv' /\ ClaimInv'
      /\ RequestOnRecord' /\ DeletedIsGone'
      /\ \A k \in Ticket : MayAct(k)' <=> MayAct(k)
  BY <1>1, ObservingKeepsRow DEF OpenUnlessRemoving
<1>3. VersionInv'
  BY DEF VersionInv, OpenUnlessRemoving, BumpVersion
<1>4. \A k \in Ticket : ~MayAct(k)
  BY NoneMayAct DEF OpenUnlessRemoving
<1>5. RequestRestsOnSaved' /\ NothingAskedWhileRemovable'
  BY <1>1, <1>2, <1>4, StillRests
<1> QED BY <1>1, <1>2, <1>3, <1>5 DEF RemovalInv

\* Nobody is waiting on an answer while a request may act.
LEMMA HearKeepsRemovalInv ==
    ASSUME RemovalInv, NEW t \in Observation, HearWhileThere(t)
    PROVE  RemovalInv'
<1>1. [Next]_evidenceVars /\ EvidenceInv' /\ TypeOK'
  BY StepKeepsInv DEF HearWhileThere, Next, ObservationStep, RemovalInv, EvidenceInv
<1>2. /\ RemovalTypeOK' /\ TicketInv' /\ ActedInv' /\ ClaimInv'
      /\ RequestOnRecord' /\ DeletedIsGone'
      /\ \A k \in Ticket : MayAct(k)' <=> MayAct(k)
  BY <1>1, ObservingKeepsRow DEF HearWhileThere, removalVars
<1>3. VersionInv'
  BY DEF RemovalInv, VersionInv, HearWhileThere, HearAnswer, removalVars, versions,
     CurrentlySaved, ReadsSaved, statuses, fences
<1>4. \A k \in Ticket : ~MayAct(k)
  BY DEF RemovalInv, NothingAskedWhileRemovable, HearWhileThere, HearAnswer
<1>5. RequestRestsOnSaved' /\ NothingAskedWhileRemovable'
  BY <1>1, <1>2, <1>4, StillRests
<1> QED BY <1>1, <1>2, <1>3, <1>5 DEF RemovalInv

\* What an observation's process does besides asking and hearing asks nothing
\* and changes no answer.
LEMMA SettlingKeepsRemovalInv ==
    ASSUME RemovalInv, NEW t \in Observation,
           CloseAndBump(t) \/ RecordAndVoid(t) \/ EndAndBump(t) \/ ObserverFails(t)
    PROVE  RemovalInv'
<1>1. [Next]_evidenceVars /\ EvidenceInv' /\ TypeOK'
  BY StepKeepsInv DEF CloseAndBump, RecordAndVoid, EndAndBump, ObserverFails, Next,
     ObservationStep, RemovalInv, EvidenceInv
<1>2. /\ RemovalTypeOK' /\ TicketInv' /\ ActedInv' /\ ClaimInv'
      /\ RequestOnRecord' /\ DeletedIsGone'
      /\ \A k \in Ticket : MayAct(k)' <=> MayAct(k)
  BY <1>1, ObservingKeepsRow DEF CloseAndBump, RecordAndVoid, EndAndBump, ObserverFails,
     removalVars
<1>3. VersionInv'
  <2>1. CASE BumpVersion
    BY <2>1 DEF VersionInv, BumpVersion
  <2>2. CASE ObserverFails(t)
    BY <2>2 DEF RemovalInv, VersionInv, ObserverFails, RecordFails, AbandonObservation,
       removalVars, versions, CurrentlySaved, ReadsSaved, statuses, fences
  <2>3. CASE EndAndBump(t) /\ UNCHANGED versions
    BY <2>3 DEF RemovalInv, VersionInv, EndAndBump, EndObservation, versions,
       CurrentlySaved, ReadsSaved, statuses
  <2> QED BY <2>1, <2>2, <2>3 DEF CloseAndBump, RecordAndVoid, EndAndBump
<1>4. answer' = answer /\ \A u \in Observation : phase'[u] = "asking" => phase[u] = "asking"
  BY DEF CloseAndBump, RecordAndVoid, EndAndBump, ObserverFails, CloseObservation,
     RecordStatus, EndObservation, RecordFails, AbandonObservation, RemovalInv,
     EvidenceInv, TypeOK
<1>5. RequestRestsOnSaved' /\ NothingAskedWhileRemovable'
  BY <1>1, <1>2, <1>4, StillRests
<1> QED BY <1>1, <1>2, <1>3, <1>5 DEF RemovalInv

\* Neither time nor another daemon asks anything or changes an answer.
LEMMA PassingKeepsRemovalInv ==
    ASSUME RemovalInv, TimePasses \/ RebootWhileThere
    PROVE  RemovalInv'
<1>1. [Next]_evidenceVars /\ EvidenceInv' /\ TypeOK'
  BY StepKeepsInv DEF TimePasses, RebootWhileThere, Next, RemovalInv, EvidenceInv
<1>2. /\ RemovalTypeOK' /\ TicketInv' /\ ActedInv' /\ ClaimInv'
      /\ RequestOnRecord' /\ DeletedIsGone'
      /\ \A k \in Ticket : MayAct(k)' <=> MayAct(k)
  BY <1>1, ObservingKeepsRow DEF TimePasses, RebootWhileThere, removalVars
<1>3. phase' = phase /\ answer' = answer /\ open' = open /\ last' = last
      /\ unsaved' = unsaved /\ UNCHANGED versions
  BY DEF TimePasses, RebootWhileThere, Tick, Reboot, removalVars, statuses, fences
<1>4. VersionInv'
  BY <1>3 DEF RemovalInv, VersionInv, versions, CurrentlySaved, ReadsSaved
<1>5. RequestRestsOnSaved' /\ NothingAskedWhileRemovable'
  BY <1>1, <1>2, <1>3, StillRests
<1> QED BY <1>1, <1>2, <1>4, <1>5 DEF RemovalInv

-----------------------------------------------------------------------------
(***************************************************************************)
(* Deleters.                                                               *)
(***************************************************************************)

\* A decision is made on evidence that reads saved with nothing in flight, and
\* by no attempt that was admitted.
LEMMA DecideKeepsRemovalInv ==
    ASSUME RemovalInv, NEW k \in Ticket, NEW a \in Attempt \cup {Nobody}, Decide(k, a)
    PROVE  RemovalInv'
<1> USE DEF RemovalInv, removal, versions, recovery, MoveTo, Decide
<1>1. \A j \in Ticket : MayAct(j)' => MayAct(j)
  BY DEF RemovalTypeOK, TicketInv, MayAct
<1>2. /\ EvidenceInv' /\ TypeOK'
      /\ CurrentlySaved => CurrentlySaved'
      /\ RequestRestsOnSaved' /\ NothingAskedWhileRemovable'
  BY <1>1, EvidenceAlone
<1>3. RemovalTypeOK'
  <2>1. RemovalFlags' BY DEF RemovalTypeOK, RemovalFlags
  <2>2. RemovalPlaces'
    BY DEF RemovalTypeOK, RemovalPlaces, DeletionState, Outcome, Step, Request, Stage
  <2>3. RowShape' BY DEF RemovalTypeOK, RowShape, Outcome
  <2> QED BY <1>2, <2>1, <2>2, <2>3, RemovalTypesByPart
<1>4. TicketInv'
  BY RemovalAssumption DEF RemovalTypeOK, TicketInv
<1>5. VersionInv'
  BY <1>2 DEF VersionInv
<1>6. ActedInv' /\ DeletedIsGone'
  BY DEF RemovalTypeOK, ActedInv, DeletedIsGone
<1>7. ClaimInv'
  BY RemovalAssumption DEF RemovalTypeOK, ClaimInv, Underway, RemovingFor, Active
<1>8. RequestOnRecord'
  BY <1>1 DEF RemovalTypeOK, RequestOnRecord
<1> QED BY <1>2, <1>3, <1>4, <1>5, <1>6, <1>7, <1>8

\* Nothing may act when a removal is authorized, and no attempt is admitted but
\* the one it is for, which would have had to decide it.
LEMMA AuthorizeKeepsRemovalInv ==
    ASSUME RemovalInv, NEW k \in Ticket, Authorize(k)
    PROVE  RemovalInv'
<1> USE DEF RemovalInv, removal, versions, recovery, MoveTo, Authorize, MayAuthorize, ClaimedByAnother, HeldDeleting
<1>1. \A j \in Ticket : MayAct(j)' => MayAct(j)
  BY DEF RemovalTypeOK, TicketInv, MayAct
<1>2. /\ EvidenceInv' /\ TypeOK'
      /\ CurrentlySaved => CurrentlySaved'
      /\ RequestRestsOnSaved' /\ NothingAskedWhileRemovable'
  BY <1>1, EvidenceAlone
<1>3. RemovalTypeOK'
  <2>1. RemovalFlags' BY DEF RemovalTypeOK, RemovalFlags
  <2>2. RemovalPlaces'
    BY DEF RemovalTypeOK, RemovalPlaces, DeletionState, Outcome, Step, Request, Stage
  <2>3. RowShape' BY DEF RemovalTypeOK, RowShape, Outcome
  <2> QED BY <1>2, <2>1, <2>2, <2>3, RemovalTypesByPart
<1>4. TicketInv'
  BY RemovalAssumption DEF RemovalTypeOK, TicketInv
<1>5. VersionInv'
  BY <1>2 DEF VersionInv
<1>6. ActedInv' /\ DeletedIsGone'
  BY DEF RemovalTypeOK, ActedInv, DeletedIsGone
<1>7. ClaimInv'
  BY RemovalAssumption DEF RemovalTypeOK, ClaimInv, Underway, RemovingFor, Active
<1>8. RequestOnRecord'
  BY <1>1 DEF RemovalTypeOK, RequestOnRecord
<1> QED BY <1>2, <1>3, <1>4, <1>5, <1>6, <1>7, <1>8

\* A refused authorization leaves the ticket unused.
LEMMA RefusedKeepsRemovalInv ==
    ASSUME RemovalInv, NEW k \in Ticket, AuthorizeRefused(k)
    PROVE  RemovalInv'
<1> USE DEF RemovalInv, removal, versions, recovery, MoveTo, AuthorizeRefused
<1>1. \A j \in Ticket : MayAct(j)' => MayAct(j)
  BY DEF RemovalTypeOK, TicketInv, MayAct
<1>2. /\ EvidenceInv' /\ TypeOK'
      /\ CurrentlySaved => CurrentlySaved'
      /\ RequestRestsOnSaved' /\ NothingAskedWhileRemovable'
  BY <1>1, EvidenceAlone
<1>3. RemovalTypeOK'
  <2>1. RemovalFlags' BY DEF RemovalTypeOK, RemovalFlags
  <2>2. RemovalPlaces'
    BY DEF RemovalTypeOK, RemovalPlaces, DeletionState, Outcome, Step, Request, Stage
  <2>3. RowShape' BY DEF RemovalTypeOK, RowShape, Outcome
  <2> QED BY <1>2, <2>1, <2>2, <2>3, RemovalTypesByPart
<1>4. TicketInv'
  BY RemovalAssumption DEF RemovalTypeOK, TicketInv
<1>5. VersionInv'
  BY <1>2 DEF VersionInv
<1>6. ActedInv' /\ DeletedIsGone'
  BY DEF RemovalTypeOK, ActedInv, DeletedIsGone
<1>7. ClaimInv'
  BY RemovalAssumption DEF RemovalTypeOK, ClaimInv, Underway, RemovingFor, Active
<1>8. RequestOnRecord'
  BY <1>1 DEF RemovalTypeOK, RequestOnRecord
<1> QED BY <1>2, <1>3, <1>4, <1>5, <1>6, <1>7, <1>8

\* A ticket that may not be issued is never sent.
LEMMA IssueRefusedKeepsRemovalInv ==
    ASSUME RemovalInv, NEW k \in Ticket, IssueRefused(k)
    PROVE  RemovalInv'
<1> USE DEF RemovalInv, removal, versions, recovery, MoveTo, IssueRefused
<1>1. \A j \in Ticket : MayAct(j)' => MayAct(j)
  BY DEF RemovalTypeOK, TicketInv, MayAct
<1>2. /\ EvidenceInv' /\ TypeOK'
      /\ CurrentlySaved => CurrentlySaved'
      /\ RequestRestsOnSaved' /\ NothingAskedWhileRemovable'
  BY <1>1, EvidenceAlone
<1>3. RemovalTypeOK'
  <2>1. RemovalFlags' BY DEF RemovalTypeOK, RemovalFlags
  <2>2. RemovalPlaces'
    BY DEF RemovalTypeOK, RemovalPlaces, DeletionState, Outcome, Step, Request, Stage
  <2>3. RowShape' BY DEF RemovalTypeOK, RowShape, Outcome
  <2> QED BY <1>2, <2>1, <2>2, <2>3, RemovalTypesByPart
<1>4. TicketInv'
  BY RemovalAssumption DEF RemovalTypeOK, TicketInv
<1>5. VersionInv'
  BY <1>2 DEF VersionInv
<1>6. ActedInv' /\ DeletedIsGone'
  BY DEF RemovalTypeOK, ActedInv, DeletedIsGone
<1>7. ClaimInv'
  BY RemovalAssumption DEF RemovalTypeOK, ClaimInv, Underway, RemovingFor, Active
<1>8. RequestOnRecord'
  BY <1>1 DEF RemovalTypeOK, RequestOnRecord
<1> QED BY <1>2, <1>3, <1>4, <1>5, <1>6, <1>7, <1>8

\* The request sent is the one that was issued.
LEMMA SendKeepsRemovalInv ==
    ASSUME RemovalInv, NEW k \in Ticket, Send(k)
    PROVE  RemovalInv'
<1> USE DEF RemovalInv, removal, versions, recovery, MoveTo, Send
<1>1. \A j \in Ticket : MayAct(j)' => MayAct(j)
  BY DEF RemovalTypeOK, TicketInv, MayAct
<1>2. /\ EvidenceInv' /\ TypeOK'
      /\ CurrentlySaved => CurrentlySaved'
      /\ RequestRestsOnSaved' /\ NothingAskedWhileRemovable'
  BY <1>1, EvidenceAlone
<1>3. RemovalTypeOK'
  <2>1. RemovalFlags' BY DEF RemovalTypeOK, RemovalFlags
  <2>2. RemovalPlaces'
    BY DEF RemovalTypeOK, RemovalPlaces, DeletionState, Outcome, Step, Request, Stage
  <2>3. RowShape' BY DEF RemovalTypeOK, RowShape, Outcome
  <2> QED BY <1>2, <2>1, <2>2, <2>3, RemovalTypesByPart
<1>4. TicketInv'
  BY RemovalAssumption DEF RemovalTypeOK, TicketInv
<1>5. VersionInv'
  BY <1>2 DEF VersionInv
<1>6. ActedInv' /\ DeletedIsGone'
  BY DEF RemovalTypeOK, ActedInv, DeletedIsGone
<1>7. ClaimInv'
  BY RemovalAssumption DEF RemovalTypeOK, ClaimInv, Underway, RemovingFor, Active
<1>8. RequestOnRecord'
  BY <1>1 DEF RemovalTypeOK, RequestOnRecord
<1> QED BY <1>2, <1>3, <1>4, <1>5, <1>6, <1>7, <1>8

\* Renewing changes nothing but the lease.
LEMMA RenewKeepsRemovalInv ==
    ASSUME RemovalInv, NEW k \in Ticket, Renew(k)
    PROVE  RemovalInv'
<1> USE DEF RemovalInv, removal, versions, recovery, MoveTo, deleters, Renew
<1>1. \A j \in Ticket : MayAct(j)' => MayAct(j)
  BY DEF RemovalTypeOK, TicketInv, MayAct
<1>2. /\ EvidenceInv' /\ TypeOK'
      /\ CurrentlySaved => CurrentlySaved'
      /\ RequestRestsOnSaved' /\ NothingAskedWhileRemovable'
  BY <1>1, EvidenceAlone
<1>3. RemovalTypeOK'
  <2>1. RemovalFlags' BY DEF RemovalTypeOK, RemovalFlags
  <2>2. RemovalPlaces'
    BY DEF RemovalTypeOK, RemovalPlaces, DeletionState, Outcome, Step, Request, Stage
  <2>3. RowShape' BY DEF RemovalTypeOK, RowShape, Outcome
  <2> QED BY <1>2, <2>1, <2>2, <2>3, RemovalTypesByPart
<1>4. TicketInv'
  BY RemovalAssumption DEF RemovalTypeOK, TicketInv
<1>5. VersionInv'
  BY <1>2 DEF VersionInv
<1>6. ActedInv' /\ DeletedIsGone'
  BY DEF RemovalTypeOK, ActedInv, DeletedIsGone
<1>7. ClaimInv'
  BY RemovalAssumption DEF RemovalTypeOK, ClaimInv, Underway, RemovingFor, Active
<1>8. RequestOnRecord'
  BY <1>1 DEF RemovalTypeOK, RequestOnRecord
<1> QED BY <1>2, <1>3, <1>4, <1>5, <1>6, <1>7, <1>8

\* The call succeeded, so the executor is gone.
LEMMA CompleteKeepsRemovalInv ==
    ASSUME RemovalInv, NEW k \in Ticket, Complete(k)
    PROVE  RemovalInv'
<1> USE DEF RemovalInv, removal, versions, recovery, MoveTo, Complete, SettleRequest, BumpVersion
<1>1. \A j \in Ticket : MayAct(j)' => MayAct(j)
  BY DEF RemovalTypeOK, TicketInv, MayAct
<1>2. /\ EvidenceInv' /\ TypeOK'
      /\ CurrentlySaved => CurrentlySaved'
      /\ RequestRestsOnSaved' /\ NothingAskedWhileRemovable'
  BY <1>1, EvidenceAlone
<1>3. RemovalTypeOK'
  <2>1. RemovalFlags' BY DEF RemovalTypeOK, RemovalFlags
  <2>2. RemovalPlaces'
    BY DEF RemovalTypeOK, RemovalPlaces, DeletionState, Outcome, Step, Request, Stage
  <2>3. RowShape' BY DEF RemovalTypeOK, RowShape, Outcome
  <2> QED BY <1>2, <2>1, <2>2, <2>3, RemovalTypesByPart
<1>4. TicketInv'
  BY RemovalAssumption DEF RemovalTypeOK, TicketInv
<1>5. VersionInv'
  BY <1>2 DEF VersionInv
<1>6. ActedInv' /\ DeletedIsGone'
  BY DEF RemovalTypeOK, ActedInv, DeletedIsGone
<1>7. ClaimInv'
  BY RemovalAssumption DEF RemovalTypeOK, ClaimInv, Underway, RemovingFor, Active
<1>8. RequestOnRecord'
  <2>1. ~MayAct(k)'
    BY DEF RemovalTypeOK, MayAct
  <2>2. \A j \in Ticket \ {k} : requests'[j] = requests[j]
    BY DEF RemovalTypeOK
  <2> QED BY <1>1, <2>1, <2>2 DEF RequestOnRecord
<1> QED BY <1>2, <1>3, <1>4, <1>5, <1>6, <1>7, <1>8

\* A removal is given up only with no other of its requests unknown.
LEMMA ReleaseKeepsRemovalInv ==
    ASSUME RemovalInv, NEW k \in Ticket, ReleaseDeletion(k)
    PROVE  RemovalInv'
<1> USE DEF RemovalInv, removal, versions, recovery, MoveTo, ReleaseDeletion, SettleRequest, NoDeletion
<1>1. \A j \in Ticket : MayAct(j)' => MayAct(j)
  BY DEF RemovalTypeOK, TicketInv, MayAct
<1>2. /\ EvidenceInv' /\ TypeOK'
      /\ CurrentlySaved => CurrentlySaved'
      /\ RequestRestsOnSaved' /\ NothingAskedWhileRemovable'
  BY <1>1, EvidenceAlone
<1>3. RemovalTypeOK'
  <2>1. RowShape'
    <3>1. CASE UNCHANGED <<state, token, issuer, versions>> /\ live' \in {live, FALSE}
      BY <3>1 DEF RemovalTypeOK, RowShape, Outcome
    <3>2. CASE NoDeletion(SettleRequest(k, "refused")) /\ current' = FALSE
      BY <3>2 DEF RowShape
    <3> QED BY <3>1, <3>2
  <2>2. RemovalFlags' BY DEF RemovalTypeOK, RemovalFlags
  <2>3. RemovalPlaces'
    BY DEF RemovalTypeOK, RemovalPlaces, DeletionState, Outcome, Step
  <2> QED BY <1>2, <2>1, <2>2, <2>3, RemovalTypesByPart
<1>4. TicketInv'
  BY RemovalAssumption DEF RemovalTypeOK, TicketInv
<1>5. VersionInv'
  BY <1>2 DEF VersionInv
<1>6. ActedInv' /\ DeletedIsGone'
  BY DEF RemovalTypeOK, ActedInv, DeletedIsGone
<1>7. ClaimInv'
  BY RemovalAssumption DEF RemovalTypeOK, ClaimInv, Underway, RemovingFor, Active
<1>8. RequestOnRecord'
  <2>1. ~MayAct(k)'
    BY DEF RemovalTypeOK, MayAct
  <2>2. ASSUME NEW j \in Ticket \ {k}, requests[j] = "unknown", state \in {"issued", "deleted"}
        PROVE  requests'[j] = "unknown" /\ state' \in {"issued", "deleted"}
    BY <2>2 DEF RemovalTypeOK
  <2> QED BY <1>1, <2>1, <2>2 DEF RequestOnRecord
<1> QED BY <1>2, <1>3, <1>4, <1>5, <1>6, <1>7, <1>8

\* A call whose outcome nobody knows leaves its request on record.
LEMMA UnknownKeepsRemovalInv ==
    ASSUME RemovalInv, NEW k \in Ticket, OutcomeUnknown(k)
    PROVE  RemovalInv'
<1> USE DEF RemovalInv, removal, versions, recovery, MoveTo, OutcomeUnknown
<1>1. \A j \in Ticket : MayAct(j)' => MayAct(j)
  BY DEF RemovalTypeOK, TicketInv, MayAct
<1>2. /\ EvidenceInv' /\ TypeOK'
      /\ CurrentlySaved => CurrentlySaved'
      /\ RequestRestsOnSaved' /\ NothingAskedWhileRemovable'
  BY <1>1, EvidenceAlone
<1>3. RemovalTypeOK'
  <2>1. RemovalFlags' BY DEF RemovalTypeOK, RemovalFlags
  <2>2. RemovalPlaces'
    BY DEF RemovalTypeOK, RemovalPlaces, DeletionState, Outcome, Step, Request, Stage
  <2>3. RowShape' BY DEF RemovalTypeOK, RowShape, Outcome
  <2> QED BY <1>2, <2>1, <2>2, <2>3, RemovalTypesByPart
<1>4. TicketInv'
  BY RemovalAssumption DEF RemovalTypeOK, TicketInv
<1>5. VersionInv'
  BY <1>2 DEF VersionInv
<1>6. ActedInv' /\ DeletedIsGone'
  BY DEF RemovalTypeOK, ActedInv, DeletedIsGone
<1>7. ClaimInv'
  BY RemovalAssumption DEF RemovalTypeOK, ClaimInv, Underway, RemovingFor, Active
<1>8. RequestOnRecord'
  BY <1>1 DEF RemovalTypeOK, RequestOnRecord
<1> QED BY <1>2, <1>3, <1>4, <1>5, <1>6, <1>7, <1>8

\* A dead deleter leaves its request on record, or never sent it.
LEMMA DeathKeepsRemovalInv ==
    ASSUME RemovalInv, NEW k \in Ticket, DeleterDies(k)
    PROVE  RemovalInv'
<1> USE DEF RemovalInv, removal, versions, recovery, MoveTo, DeleterDies, Active
<1>1. \A j \in Ticket : MayAct(j)' => MayAct(j)
  BY DEF RemovalTypeOK, TicketInv, MayAct
<1>2. /\ EvidenceInv' /\ TypeOK'
      /\ CurrentlySaved => CurrentlySaved'
      /\ RequestRestsOnSaved' /\ NothingAskedWhileRemovable'
  BY <1>1, EvidenceAlone
<1>3. RemovalTypeOK'
  <2>1. RemovalFlags' BY DEF RemovalTypeOK, RemovalFlags
  <2>2. RemovalPlaces'
    BY DEF RemovalTypeOK, RemovalPlaces, DeletionState, Outcome, Step, Request, Stage
  <2>3. RowShape' BY DEF RemovalTypeOK, RowShape, Outcome
  <2> QED BY <1>2, <2>1, <2>2, <2>3, RemovalTypesByPart
<1>4. TicketInv'
  BY RemovalAssumption DEF RemovalTypeOK, TicketInv
<1>5. VersionInv'
  BY <1>2 DEF VersionInv
<1>6. ActedInv' /\ DeletedIsGone'
  BY DEF RemovalTypeOK, ActedInv, DeletedIsGone
<1>7. ClaimInv'
  BY RemovalAssumption DEF RemovalTypeOK, ClaimInv, Underway, RemovingFor, Active
<1>8. RequestOnRecord'
  BY <1>1 DEF RemovalTypeOK, RequestOnRecord
<1> QED BY <1>2, <1>3, <1>4, <1>5, <1>6, <1>7, <1>8

\* A removal taken over keeps every request it sent.
LEMMA TakeOverKeepsRemovalInv ==
    ASSUME RemovalInv, NEW k \in Ticket, TakeOver(k)
    PROVE  RemovalInv'
<1> USE DEF RemovalInv, removal, versions, recovery, MoveTo, TakeOver, IssuedAndLapsed
<1>1. \A j \in Ticket : MayAct(j)' => MayAct(j)
  BY DEF RemovalTypeOK, TicketInv, MayAct
<1>2. /\ EvidenceInv' /\ TypeOK'
      /\ CurrentlySaved => CurrentlySaved'
      /\ RequestRestsOnSaved' /\ NothingAskedWhileRemovable'
  BY <1>1, EvidenceAlone
<1>3. RemovalTypeOK'
  <2>1. RowShape'
    BY DEF RemovalTypeOK, RowShape
  <2> QED BY <1>2, <2>1 DEF RemovalTypeOK, Step
<1>4. TicketInv'
  BY RemovalAssumption DEF RemovalTypeOK, TicketInv
<1>5. VersionInv'
  BY <1>2 DEF VersionInv
<1>6. ActedInv' /\ DeletedIsGone'
  BY DEF RemovalTypeOK, ActedInv, DeletedIsGone
<1>7. ClaimInv'
  BY RemovalAssumption DEF RemovalTypeOK, ClaimInv, Underway, RemovingFor, Active
<1>8. RequestOnRecord'
  BY <1>1 DEF RequestOnRecord
<1> QED BY <1>2, <1>3, <1>4, <1>5, <1>6, <1>7, <1>8

\* A removal is issued only on current evidence: saved, with nothing in flight,
\* so that every unsaved answer ever received is outranked and nobody is asking.
LEMMA IssueKeepsRemovalInv ==
    ASSUME RemovalInv, NEW k \in Ticket, Issue(k)
    PROVE  RemovalInv'
<1> USE DEF RemovalInv, removal, versions, recovery, MoveTo, Issue, MayIssue, EvidenceCurrent
<1>1. EvidenceInv' /\ TypeOK'
  BY StepKeepsInv DEF EvidenceInv
<1>2. CurrentlySaved /\ CurrentlySaved'
  BY DEF VersionInv, CurrentlySaved, ReadsSaved, evidenceVars, statuses, fences
<1>3. RequestRestsOnSaved'
  <2>1. ASSUME NEW t \in Observation, HeardUnsaved(t)' PROVE Outranked(t)'
    <3>1. HeardUnsaved(t) /\ answer'[t] = answer[t]
      BY <2>1 DEF HeardUnsaved, evidenceVars
    <3> QED BY <1>2, <3>1, SavedOutranksUnsaved, OutrankedStays
  <2> QED BY <2>1 DEF RequestRestsOnSaved
<1>4. NothingAskedWhileRemovable'
  BY DEF NothingAskedWhileRemovable, EvidenceInv, AskingInv, evidenceVars
<1>5. RemovalTypeOK'
  <2>1. RowShape'
    BY RemovalAssumption DEF RemovalTypeOK, RowShape
  <2> QED BY <1>1, <2>1 DEF RemovalTypeOK, DeletionState, Outcome, Step
<1>6. TicketInv'
  BY DEF RemovalTypeOK, TicketInv
<1>7. VersionInv'
  BY <1>2 DEF VersionInv
<1>8. ActedInv' /\ DeletedIsGone'
  BY DEF RemovalTypeOK, ActedInv, DeletedIsGone
<1>9. ClaimInv'
  BY DEF RemovalTypeOK, ClaimInv, Underway, RemovingFor, Active
<1>10. RequestOnRecord'
  <2>1. requests'[k] = "unknown" /\ state' = "issued"
    BY DEF RemovalTypeOK
  <2>2. \A j \in Ticket \ {k} : requests'[j] = requests[j] /\ (MayAct(j)' => MayAct(j))
    BY DEF RemovalTypeOK, MayAct
  <2> QED BY <2>1, <2>2 DEF RequestOnRecord
<1> QED BY <1>1, <1>3, <1>4, <1>5, <1>6, <1>7, <1>8, <1>9, <1>10

-----------------------------------------------------------------------------
(***************************************************************************)
(* The row, the runtime and the recovery attempts.                         *)
(***************************************************************************)

\* An attestation makes every copy of the version stale.
LEMMA AttestKeepsRemovalInv ==
    ASSUME RemovalInv, AttestCompletion
    PROVE  RemovalInv'
<1> USE DEF RemovalInv, removal, versions, deleters, recovery, AttestCompletion, BumpVersion
<1>1. \A j \in Ticket : MayAct(j)' => MayAct(j)
  BY DEF RemovalTypeOK, TicketInv, MayAct
<1>2. /\ EvidenceInv' /\ TypeOK'
      /\ CurrentlySaved => CurrentlySaved'
      /\ RequestRestsOnSaved' /\ NothingAskedWhileRemovable'
  BY <1>1, EvidenceAlone
<1>3. RemovalTypeOK'
  <2>1. RemovalFlags' BY DEF RemovalTypeOK, RemovalFlags
  <2>2. RemovalPlaces'
    BY DEF RemovalTypeOK, RemovalPlaces, DeletionState, Outcome, Step, Request, Stage
  <2>3. RowShape' BY DEF RemovalTypeOK, RowShape, Outcome
  <2> QED BY <1>2, <2>1, <2>2, <2>3, RemovalTypesByPart
<1>4. TicketInv'
  BY RemovalAssumption DEF RemovalTypeOK, TicketInv
<1>5. VersionInv'
  BY <1>2 DEF VersionInv
<1>6. ActedInv' /\ DeletedIsGone'
  BY DEF RemovalTypeOK, ActedInv, DeletedIsGone
<1>7. ClaimInv'
  BY RemovalAssumption DEF RemovalTypeOK, ClaimInv, Underway, RemovingFor, Active
<1>8. RequestOnRecord'
  BY <1>1 DEF RemovalTypeOK, RequestOnRecord
<1> QED BY <1>2, <1>3, <1>4, <1>5, <1>6, <1>7, <1>8

\* A lapsed hold forgets no request.
LEMMA LapseKeepsRemovalInv ==
    ASSUME RemovalInv, LapseHold
    PROVE  RemovalInv'
<1> USE DEF RemovalInv, removal, versions, deleters, recovery, LapseHold
<1>1. \A j \in Ticket : MayAct(j)' => MayAct(j)
  BY DEF RemovalTypeOK, TicketInv, MayAct
<1>2. /\ EvidenceInv' /\ TypeOK'
      /\ CurrentlySaved => CurrentlySaved'
      /\ RequestRestsOnSaved' /\ NothingAskedWhileRemovable'
  BY <1>1, EvidenceAlone
<1>3. RemovalTypeOK'
  <2>1. RemovalFlags' BY DEF RemovalTypeOK, RemovalFlags
  <2>2. RemovalPlaces'
    BY DEF RemovalTypeOK, RemovalPlaces, DeletionState, Outcome, Step, Request, Stage
  <2>3. RowShape' BY DEF RemovalTypeOK, RowShape, Outcome
  <2> QED BY <1>2, <2>1, <2>2, <2>3, RemovalTypesByPart
<1>4. TicketInv'
  BY RemovalAssumption DEF RemovalTypeOK, TicketInv
<1>5. VersionInv'
  BY <1>2 DEF VersionInv
<1>6. ActedInv' /\ DeletedIsGone'
  BY DEF RemovalTypeOK, ActedInv, DeletedIsGone
<1>7. ClaimInv'
  BY RemovalAssumption DEF RemovalTypeOK, ClaimInv, Underway, RemovingFor, Active
<1>8. RequestOnRecord'
  BY <1>1 DEF RemovalTypeOK, RequestOnRecord
<1> QED BY <1>2, <1>3, <1>4, <1>5, <1>6, <1>7, <1>8

\* A removal is recorded deleted of an executor that is gone.
LEMMA GoneKeepsRemovalInv ==
    ASSUME RemovalInv, ReconcileGone
    PROVE  RemovalInv'
<1> USE DEF RemovalInv, removal, versions, deleters, recovery, ReconcileGone, IssuedAndLapsed, BumpVersion
<1>1. \A j \in Ticket : MayAct(j)' => MayAct(j)
  BY DEF RemovalTypeOK, TicketInv, MayAct
<1>2. /\ EvidenceInv' /\ TypeOK'
      /\ CurrentlySaved => CurrentlySaved'
      /\ RequestRestsOnSaved' /\ NothingAskedWhileRemovable'
  BY <1>1, EvidenceAlone
<1>3. RemovalTypeOK'
  <2>1. RemovalFlags' BY DEF RemovalTypeOK, RemovalFlags
  <2>2. RemovalPlaces'
    BY DEF RemovalTypeOK, RemovalPlaces, DeletionState, Outcome, Step, Request, Stage
  <2>3. RowShape' BY DEF RemovalTypeOK, RowShape, Outcome
  <2> QED BY <1>2, <2>1, <2>2, <2>3, RemovalTypesByPart
<1>4. TicketInv'
  BY RemovalAssumption DEF RemovalTypeOK, TicketInv
<1>5. VersionInv'
  BY <1>2 DEF VersionInv
<1>6. ActedInv' /\ DeletedIsGone'
  BY DEF RemovalTypeOK, ActedInv, DeletedIsGone
<1>7. ClaimInv'
  BY RemovalAssumption DEF RemovalTypeOK, ClaimInv, Underway, RemovingFor, Active
<1>8. RequestOnRecord'
  BY <1>1 DEF RemovalTypeOK, RequestOnRecord
<1> QED BY <1>2, <1>3, <1>4, <1>5, <1>6, <1>7, <1>8

\* A removal is released only when none of its requests can act any more.
LEMMA FencedKeepsRemovalInv ==
    ASSUME RemovalInv, ReleaseFenced
    PROVE  RemovalInv'
<1> USE DEF RemovalInv, removal, versions, deleters, recovery, ReleaseFenced, Fenced, IssuedAndLapsed, NoDeletion, BumpVersion
<1>1. \A j \in Ticket : MayAct(j)' => MayAct(j)
  BY DEF RemovalTypeOK, TicketInv, MayAct
<1>2. /\ EvidenceInv' /\ TypeOK'
      /\ CurrentlySaved => CurrentlySaved'
      /\ RequestRestsOnSaved' /\ NothingAskedWhileRemovable'
  BY <1>1, EvidenceAlone
<1>3. RemovalTypeOK'
  <2>1. RemovalFlags' BY DEF RemovalTypeOK, RemovalFlags
  <2>2. RemovalPlaces'
    BY DEF RemovalTypeOK, RemovalPlaces, DeletionState, Outcome, Step, Request, Stage
  <2>3. RowShape' BY DEF RemovalTypeOK, RowShape, Outcome
  <2> QED BY <1>2, <2>1, <2>2, <2>3, RemovalTypesByPart
<1>4. TicketInv'
  BY RemovalAssumption DEF RemovalTypeOK, TicketInv
<1>5. VersionInv'
  BY <1>2 DEF VersionInv
<1>6. ActedInv' /\ DeletedIsGone'
  BY DEF RemovalTypeOK, ActedInv, DeletedIsGone
<1>7. ClaimInv'
  BY RemovalAssumption DEF RemovalTypeOK, ClaimInv, Underway, RemovingFor, Active
<1>8. RequestOnRecord'
  <2>1. \A j \in Ticket : ~MayAct(j)
    BY DEF RequestOnRecord, MayAct
  <2> QED BY <1>1, <2>1 DEF RequestOnRecord
<1> QED BY <1>2, <1>3, <1>4, <1>5, <1>6, <1>7, <1>8

\* What the runtime removes is gone.
LEMMA RemovesKeepsRemovalInv ==
    ASSUME RemovalInv, NEW k \in Ticket, RuntimeRemoves(k)
    PROVE  RemovalInv'
<1> USE DEF RemovalInv, removal, versions, recovery, RuntimeRemoves, CanAct
<1>1. \A j \in Ticket : MayAct(j)' => MayAct(j)
  BY DEF RemovalTypeOK, TicketInv, MayAct
<1>2. /\ EvidenceInv' /\ TypeOK'
      /\ CurrentlySaved => CurrentlySaved'
      /\ RequestRestsOnSaved' /\ NothingAskedWhileRemovable'
  BY <1>1, EvidenceAlone
<1>3. RemovalTypeOK'
  <2>1. RemovalFlags' BY DEF RemovalTypeOK, RemovalFlags
  <2>2. RemovalPlaces'
    BY DEF RemovalTypeOK, RemovalPlaces, DeletionState, Outcome, Step, Request, Stage
  <2>3. RowShape' BY DEF RemovalTypeOK, RowShape, Outcome
  <2> QED BY <1>2, <2>1, <2>2, <2>3, RemovalTypesByPart
<1>4. TicketInv'
  BY RemovalAssumption DEF RemovalTypeOK, TicketInv
<1>5. VersionInv'
  BY <1>2 DEF VersionInv
<1>6. ActedInv' /\ DeletedIsGone'
  BY DEF RemovalTypeOK, ActedInv, DeletedIsGone
<1>7. ClaimInv'
  BY RemovalAssumption DEF RemovalTypeOK, ClaimInv, Underway, RemovingFor, Active
<1>8. RequestOnRecord'
  BY <1>1 DEF RemovalTypeOK, RequestOnRecord
<1> QED BY <1>2, <1>3, <1>4, <1>5, <1>6, <1>7, <1>8

\* A refused request cannot act any more.
LEMMA RefusesKeepsRemovalInv ==
    ASSUME RemovalInv, NEW k \in Ticket, RuntimeRefuses(k)
    PROVE  RemovalInv'
<1> USE DEF RemovalInv, removal, versions, recovery, RuntimeRefuses, CanAct
<1>1. \A j \in Ticket : MayAct(j)' => MayAct(j)
  BY DEF RemovalTypeOK, TicketInv, MayAct
<1>2. /\ EvidenceInv' /\ TypeOK'
      /\ CurrentlySaved => CurrentlySaved'
      /\ RequestRestsOnSaved' /\ NothingAskedWhileRemovable'
  BY <1>1, EvidenceAlone
<1>3. RemovalTypeOK'
  <2>1. RemovalFlags' BY DEF RemovalTypeOK, RemovalFlags
  <2>2. RemovalPlaces'
    BY DEF RemovalTypeOK, RemovalPlaces, DeletionState, Outcome, Step, Request, Stage
  <2>3. RowShape' BY DEF RemovalTypeOK, RowShape, Outcome
  <2> QED BY <1>2, <2>1, <2>2, <2>3, RemovalTypesByPart
<1>4. TicketInv'
  BY RemovalAssumption DEF RemovalTypeOK, TicketInv
<1>5. VersionInv'
  BY <1>2 DEF VersionInv
<1>6. ActedInv' /\ DeletedIsGone'
  BY DEF RemovalTypeOK, ActedInv, DeletedIsGone
<1>7. ClaimInv'
  BY RemovalAssumption DEF RemovalTypeOK, ClaimInv, Underway, RemovingFor, Active
<1>8. RequestOnRecord'
  BY <1>1 DEF RemovalTypeOK, RequestOnRecord
<1> QED BY <1>2, <1>3, <1>4, <1>5, <1>6, <1>7, <1>8

\* Past its bound a request cannot act any more.
LEMMA BoundKeepsRemovalInv ==
    ASSUME RemovalInv, NEW k \in Ticket, PassBound(k)
    PROVE  RemovalInv'
<1> USE DEF RemovalInv, removal, versions, recovery, PassBound
<1>1. \A j \in Ticket : MayAct(j)' => MayAct(j)
  BY DEF RemovalTypeOK, TicketInv, MayAct
<1>2. /\ EvidenceInv' /\ TypeOK'
      /\ CurrentlySaved => CurrentlySaved'
      /\ RequestRestsOnSaved' /\ NothingAskedWhileRemovable'
  BY <1>1, EvidenceAlone
<1>3. RemovalTypeOK'
  <2>1. RemovalFlags' BY DEF RemovalTypeOK, RemovalFlags
  <2>2. RemovalPlaces'
    BY DEF RemovalTypeOK, RemovalPlaces, DeletionState, Outcome, Step, Request, Stage
  <2>3. RowShape' BY DEF RemovalTypeOK, RowShape, Outcome
  <2> QED BY <1>2, <2>1, <2>2, <2>3, RemovalTypesByPart
<1>4. TicketInv'
  BY RemovalAssumption DEF RemovalTypeOK, TicketInv
<1>5. VersionInv'
  BY <1>2 DEF VersionInv
<1>6. ActedInv' /\ DeletedIsGone'
  BY DEF RemovalTypeOK, ActedInv, DeletedIsGone
<1>7. ClaimInv'
  BY RemovalAssumption DEF RemovalTypeOK, ClaimInv, Underway, RemovingFor, Active
<1>8. RequestOnRecord'
  BY <1>1 DEF RemovalTypeOK, RequestOnRecord
<1> QED BY <1>2, <1>3, <1>4, <1>5, <1>6, <1>7, <1>8

\* A discard is recorded beside the removal, and removes what is there.
LEMMA DiscardKeepsRemovalInv ==
    ASSUME RemovalInv, RequestDiscard \/ RemoveDiscarded
    PROVE  RemovalInv'
<1> USE DEF RemovalInv, removal, versions, deleters, recovery, RequestDiscard, RemoveDiscarded
<1>1. \A j \in Ticket : MayAct(j)' => MayAct(j)
  BY DEF RemovalTypeOK, TicketInv, MayAct
<1>2. /\ EvidenceInv' /\ TypeOK'
      /\ CurrentlySaved => CurrentlySaved'
      /\ RequestRestsOnSaved' /\ NothingAskedWhileRemovable'
  BY <1>1, EvidenceAlone
<1>3. RemovalTypeOK'
  <2>1. exists' \in BOOLEAN /\ discarded' \in BOOLEAN
    BY DEF RemovalTypeOK
  <2>2. RowShape'
    BY DEF RemovalTypeOK, RowShape
  <2> QED BY <1>2, <2>1, <2>2 DEF RemovalTypeOK
<1>4. TicketInv'
  BY RemovalAssumption DEF RemovalTypeOK, TicketInv
<1>5. VersionInv'
  BY <1>2 DEF VersionInv
<1>6. ActedInv' /\ DeletedIsGone'
  BY DEF RemovalTypeOK, ActedInv, DeletedIsGone
<1>7. ClaimInv'
  BY RemovalAssumption DEF RemovalTypeOK, ClaimInv, Underway, RemovingFor, Active
<1>8. RequestOnRecord'
  BY <1>1 DEF RemovalTypeOK, RequestOnRecord
<1> QED BY <1>2, <1>3, <1>4, <1>5, <1>6, <1>7, <1>8

\* Retention decides nothing of a removal.
LEMMA RetentionKeepsRemovalInv ==
    ASSUME RemovalInv, MarkRetained \/ EndRetention
    PROVE  RemovalInv'
<1> USE DEF RemovalInv, removal, versions, deleters, MarkRetained, EndRetention
<1>1. \A j \in Ticket : MayAct(j)' => MayAct(j)
  BY DEF RemovalTypeOK, TicketInv, MayAct
<1>2. /\ EvidenceInv' /\ TypeOK'
      /\ CurrentlySaved => CurrentlySaved'
      /\ RequestRestsOnSaved' /\ NothingAskedWhileRemovable'
  BY <1>1, EvidenceAlone
<1>3. RemovalTypeOK'
  <2>1. retained' \in BOOLEAN
    OBVIOUS
  <2>2. RowShape'
    BY DEF RemovalTypeOK, RowShape
  <2> QED BY <1>2, <2>1, <2>2 DEF RemovalTypeOK
<1>4. TicketInv'
  BY RemovalAssumption DEF RemovalTypeOK, TicketInv
<1>5. VersionInv'
  BY <1>2 DEF VersionInv
<1>6. ActedInv' /\ DeletedIsGone'
  BY DEF RemovalTypeOK, ActedInv, DeletedIsGone
<1>7. ClaimInv'
  BY RemovalAssumption DEF RemovalTypeOK, ClaimInv, Underway, RemovingFor, Active
<1>8. RequestOnRecord'
  BY <1>1 DEF RemovalTypeOK, RequestOnRecord
<1> QED BY <1>2, <1>3, <1>4, <1>5, <1>6, <1>7, <1>8

\* A recovery is claimed only when no claim is live.
LEMMA ClaimKeepsRemovalInv ==
    ASSUME RemovalInv, NEW a \in Attempt, ClaimRecovery(a)
    PROVE  RemovalInv'
<1> USE DEF RemovalInv, removal, versions, deleters, ClaimRecovery, ToStage
<1>1. \A j \in Ticket : MayAct(j)' => MayAct(j)
  BY DEF RemovalTypeOK, TicketInv, MayAct
<1>2. /\ EvidenceInv' /\ TypeOK'
      /\ CurrentlySaved => CurrentlySaved'
      /\ RequestRestsOnSaved' /\ NothingAskedWhileRemovable'
  BY <1>1, EvidenceAlone
<1>3. RemovalTypeOK'
  <2>1. RemovalFlags' BY DEF RemovalTypeOK, RemovalFlags
  <2>2. RemovalPlaces'
    BY DEF RemovalTypeOK, RemovalPlaces, DeletionState, Outcome, Step, Request, Stage
  <2>3. RowShape' BY DEF RemovalTypeOK, RowShape, Outcome
  <2> QED BY <1>2, <2>1, <2>2, <2>3, RemovalTypesByPart
<1>4. TicketInv'
  BY RemovalAssumption DEF RemovalTypeOK, TicketInv
<1>5. VersionInv'
  BY <1>2 DEF VersionInv
<1>6. ActedInv' /\ DeletedIsGone'
  BY DEF RemovalTypeOK, ActedInv, DeletedIsGone
<1>7. ClaimInv'
  BY RemovalAssumption DEF RemovalTypeOK, ClaimInv, Underway, RemovingFor, Active
<1>8. RequestOnRecord'
  BY <1>1 DEF RemovalTypeOK, RequestOnRecord
<1> QED BY <1>2, <1>3, <1>4, <1>5, <1>6, <1>7, <1>8

\* An attempt is admitted only with no removal issued, voiding an unissued one.
LEMMA AdmitKeepsRemovalInv ==
    ASSUME RemovalInv, NEW a \in Attempt, AdmitRecovery(a)
    PROVE  RemovalInv'
<1> USE DEF RemovalInv, removal, versions, deleters, AdmitRecovery, ToStage, VoidDeleting, NoDeletion, BumpVersion
<1>1. \A j \in Ticket : MayAct(j)' => MayAct(j)
  BY DEF RemovalTypeOK, TicketInv, MayAct
<1>2. /\ EvidenceInv' /\ TypeOK'
      /\ CurrentlySaved => CurrentlySaved'
      /\ RequestRestsOnSaved' /\ NothingAskedWhileRemovable'
  BY <1>1, EvidenceAlone
<1>3. RemovalTypeOK'
  <2>1. RowShape'
    <3>1. CASE UNCHANGED <<removal, versions>>
      BY <3>1 DEF RemovalTypeOK, RowShape
    <3>2. CASE NoDeletion([k \in Ticket |-> "none"]) /\ BumpVersion
      BY <3>2 DEF RowShape
    <3> QED BY <3>1, <3>2
  <2>2. /\ state' \in DeletionState /\ token' \in Ticket \cup {Nobody}
        /\ live' \in BOOLEAN /\ issuer' \in Ticket \cup {Nobody}
        /\ requests' \in [Ticket -> Outcome]
    BY DEF RemovalTypeOK, DeletionState, Outcome
  <2>3. current' \in BOOLEAN /\ seen' \in SUBSET Ticket
    BY DEF RemovalTypeOK
  <2> QED BY <1>2, <2>1, <2>2, <2>3 DEF RemovalTypeOK, Stage
<1>4. TicketInv'
  BY RemovalAssumption DEF RemovalTypeOK, TicketInv
<1>5. VersionInv'
  BY <1>2 DEF VersionInv
<1>6. ActedInv' /\ DeletedIsGone'
  BY DEF RemovalTypeOK, ActedInv, DeletedIsGone
<1>7. ClaimInv'
  <2>1. state' \in {"none", "deleted"}
    BY DEF RemovalTypeOK, DeletionState
  <2>2. \A b \in Attempt : RemovingFor(b)' <=> RemovingFor(b)
    BY DEF RemovingFor, Active
  <2>3. \A b \in Attempt \ {a} : attempt'[b] = attempt[b]
    BY DEF RemovalTypeOK
  <2> QED BY <2>1, <2>2, <2>3 DEF ClaimInv, Underway
<1>8. RequestOnRecord'
  BY <1>1 DEF RemovalTypeOK, RequestOnRecord
<1> QED BY <1>2, <1>3, <1>4, <1>5, <1>6, <1>7, <1>8

\* An attempt that ends frees its own claim only.
LEMMA EndKeepsRemovalInv ==
    ASSUME RemovalInv, NEW a \in Attempt, EndAttempt(a)
    PROVE  RemovalInv'
<1> USE DEF RemovalInv, removal, versions, deleters, EndAttempt, ToStage
<1>1. \A j \in Ticket : MayAct(j)' => MayAct(j)
  BY DEF RemovalTypeOK, TicketInv, MayAct
<1>2. /\ EvidenceInv' /\ TypeOK'
      /\ CurrentlySaved => CurrentlySaved'
      /\ RequestRestsOnSaved' /\ NothingAskedWhileRemovable'
  BY <1>1, EvidenceAlone
<1>3. RemovalTypeOK'
  <2>1. RemovalFlags' BY DEF RemovalTypeOK, RemovalFlags
  <2>2. RemovalPlaces'
    BY DEF RemovalTypeOK, RemovalPlaces, DeletionState, Outcome, Step, Request, Stage
  <2>3. RowShape' BY DEF RemovalTypeOK, RowShape, Outcome
  <2> QED BY <1>2, <2>1, <2>2, <2>3, RemovalTypesByPart
<1>4. TicketInv'
  BY RemovalAssumption DEF RemovalTypeOK, TicketInv
<1>5. VersionInv'
  BY <1>2 DEF VersionInv
<1>6. ActedInv' /\ DeletedIsGone'
  BY DEF RemovalTypeOK, ActedInv, DeletedIsGone
<1>7. ClaimInv'
  BY RemovalAssumption DEF RemovalTypeOK, ClaimInv, Underway, RemovingFor, Active
<1>8. RequestOnRecord'
  BY <1>1 DEF RemovalTypeOK, RequestOnRecord
<1> QED BY <1>2, <1>3, <1>4, <1>5, <1>6, <1>7, <1>8

\* No claim lapses under an attempt still under way.
LEMMA LapseClaimKeepsRemovalInv ==
    ASSUME RemovalInv, LapseClaim
    PROVE  RemovalInv'
<1> USE DEF RemovalInv, removal, versions, deleters, LapseClaim
<1>1. \A j \in Ticket : MayAct(j)' => MayAct(j)
  BY DEF RemovalTypeOK, TicketInv, MayAct
<1>2. /\ EvidenceInv' /\ TypeOK'
      /\ CurrentlySaved => CurrentlySaved'
      /\ RequestRestsOnSaved' /\ NothingAskedWhileRemovable'
  BY <1>1, EvidenceAlone
<1>3. RemovalTypeOK'
  <2>1. RemovalFlags' BY DEF RemovalTypeOK, RemovalFlags
  <2>2. RemovalPlaces'
    BY DEF RemovalTypeOK, RemovalPlaces, DeletionState, Outcome, Step, Request, Stage
  <2>3. RowShape' BY DEF RemovalTypeOK, RowShape, Outcome
  <2> QED BY <1>2, <2>1, <2>2, <2>3, RemovalTypesByPart
<1>4. TicketInv'
  BY RemovalAssumption DEF RemovalTypeOK, TicketInv
<1>5. VersionInv'
  BY <1>2 DEF VersionInv
<1>6. ActedInv' /\ DeletedIsGone'
  BY DEF RemovalTypeOK, ActedInv, DeletedIsGone
<1>7. ClaimInv'
  BY RemovalAssumption DEF RemovalTypeOK, ClaimInv, Underway, RemovingFor, Active
<1>8. RequestOnRecord'
  BY <1>1 DEF RemovalTypeOK, RequestOnRecord
<1> QED BY <1>2, <1>3, <1>4, <1>5, <1>6, <1>7, <1>8

\* An executor is started only with no removal decided; another daemon asks
\* nothing and changes no answer.
LEMMA StartKeepsRemovalInv ==
    ASSUME RemovalInv, NEW a \in Attempt, StartExecutor(a)
    PROVE  RemovalInv'
<1> USE DEF RemovalInv, removal, versions, deleters, StartExecutor, ToStage
<1>1. [Next]_evidenceVars /\ EvidenceInv' /\ TypeOK'
  BY StepKeepsInv DEF Next, EvidenceInv
<1>2. \A k \in Ticket : MayAct(k)' <=> MayAct(k)
  BY DEF MayAct
<1>3. phase' = phase /\ answer' = answer /\ open' = open /\ last' = last
      /\ unsaved' = unsaved
  BY DEF Reboot, evidenceVars, statuses, fences
<1>4. RequestRestsOnSaved' /\ NothingAskedWhileRemovable'
  BY <1>1, <1>2, <1>3, StillRests
<1>5. RemovalTypeOK'
  <2>1. RowShape'
    BY DEF RemovalTypeOK, RowShape
  <2>2. attempt' \in [Attempt -> Stage]
    BY DEF RemovalTypeOK, Stage
  <2> QED BY <1>1, <2>1, <2>2 DEF RemovalTypeOK
<1>6. TicketInv'
  BY DEF TicketInv
<1>7. VersionInv'
  BY <1>3 DEF VersionInv, CurrentlySaved, ReadsSaved
<1>8. ActedInv' /\ DeletedIsGone'
  BY DEF ActedInv, DeletedIsGone
<1>9. ClaimInv'
  BY DEF RemovalTypeOK, ClaimInv, Underway, RemovingFor, Active
<1>10. RequestOnRecord'
  BY <1>2 DEF RequestOnRecord
<1> QED BY <1>1, <1>4, <1>5, <1>6, <1>7, <1>8, <1>9, <1>10

-----------------------------------------------------------------------------
(***************************************************************************)
(* The theorems.                                                           *)
(***************************************************************************)

\* Every step keeps the invariant.
LEMMA RemovalStepKeepsInv == RemovalInv /\ [RemovalNext]_vars => RemovalInv'
<1> SUFFICES ASSUME RemovalInv, [RemovalNext]_vars PROVE RemovalInv'
  OBVIOUS
<1>1. CASE TimePasses
  BY <1>1, PassingKeepsRemovalInv
<1>2. ASSUME NEW t \in Observation, ObserverStep(t) PROVE RemovalInv'
  BY <1>2, OpenKeepsRemovalInv, HearKeepsRemovalInv, SettlingKeepsRemovalInv DEF ObserverStep
<1>3. ASSUME NEW k \in Ticket, DeleterStep(k) PROVE RemovalInv'
  BY <1>3, DecideKeepsRemovalInv, AuthorizeKeepsRemovalInv, RefusedKeepsRemovalInv,
     IssueKeepsRemovalInv, IssueRefusedKeepsRemovalInv, SendKeepsRemovalInv,
     RenewKeepsRemovalInv, CompleteKeepsRemovalInv, ReleaseKeepsRemovalInv,
     UnknownKeepsRemovalInv, DeathKeepsRemovalInv, TakeOverKeepsRemovalInv
     DEF DeleterStep
<1>4. ASSUME NEW a \in Attempt, RecoveryStep(a) PROVE RemovalInv'
  BY <1>4, ClaimKeepsRemovalInv, AdmitKeepsRemovalInv, StartKeepsRemovalInv,
     EndKeepsRemovalInv DEF RecoveryStep
<1>5. CASE RuntimeStep
  BY <1>5, RemovesKeepsRemovalInv, RefusesKeepsRemovalInv, BoundKeepsRemovalInv,
     PassingKeepsRemovalInv, DiscardKeepsRemovalInv DEF RuntimeStep
<1>6. CASE RowStep
  BY <1>6, AttestKeepsRemovalInv, LapseKeepsRemovalInv, GoneKeepsRemovalInv,
     FencedKeepsRemovalInv, DiscardKeepsRemovalInv, RetentionKeepsRemovalInv,
     LapseClaimKeepsRemovalInv DEF RowStep
<1>7. CASE UNCHANGED vars
  <2>1. UNCHANGED evidenceVars /\ \A k \in Ticket : MayAct(k)' <=> MayAct(k)
    BY <1>7 DEF vars, removalVars, deleters, MayAct
  <2>2. /\ EvidenceInv' /\ TypeOK' /\ (CurrentlySaved => CurrentlySaved')
        /\ RequestRestsOnSaved' /\ NothingAskedWhileRemovable'
    BY <2>1, EvidenceAlone
  <2>3. /\ RemovalTypeOK' /\ TicketInv' /\ ActedInv' /\ ClaimInv'
        /\ RequestOnRecord' /\ DeletedIsGone'
    BY <1>7, <2>2, ObservingKeepsRow DEF vars, removalVars
  <2>4. VersionInv'
    BY <1>7, <2>2 DEF RemovalInv, VersionInv, vars, removalVars, versions
  <2> QED BY <2>2, <2>3, <2>4 DEF RemovalInv
<1> QED BY <1>1, <1>2, <1>3, <1>4, <1>5, <1>6, <1>7 DEF RemovalNext

\* The strengthening is an invariant of the removal.
THEOREM RemovalInvariant == RemovalSpec => []RemovalInv
BY RemovalInitInv, RemovalStepKeepsInv, PTL DEF RemovalSpec

\* Every column and every process keeps its type, and the removal columns go
\* together (NO_DELETION, deletionColumns).
THEOREM RemovalTypeCorrect == RemovalSpec => []RemovalTypeOK
<1>1. RemovalInv => RemovalTypeOK
  BY DEF RemovalInv
<1> QED BY <1>1, RemovalInvariant, PTL

\* A request that the runtime may still carry out rests on the executor's last
\* word: every unsaved answer anyone received was followed by a saved one on
\* record (issueDeletion, openObservation, reconcileIssuedDeletion).
THEOREM RequestsRestOnSaved == RemovalSpec => []RequestRestsOnSaved
<1>1. RemovalInv => RequestRestsOnSaved
  BY DEF RemovalInv
<1> QED BY <1>1, RemovalInvariant, PTL

\* While it may be carried out, nobody is waiting on the executor's answer
\* (openObservation).
THEOREM NothingIsAsked == RemovalSpec => []NothingAskedWhileRemovable
<1>1. RemovalInv => NothingAskedWhileRemovable
  BY DEF RemovalInv
<1> QED BY <1>1, RemovalInvariant, PTL

\* While it may be carried out, it is on record with an unknown outcome
\* (issueDeletion, releaseDeletion, reconcileIssuedDeletion, recordStatus).
THEOREM RequestsAreOnRecord == RemovalSpec => []RequestOnRecord
<1>1. RemovalInv => RequestOnRecord
  BY DEF RemovalInv
<1> QED BY <1>1, RemovalInvariant, PTL

\* The row says deleted only of an executor that is gone (completeDeletion,
\* reconcileIssuedDeletion).
THEOREM WhatIsDeletedIsGone == RemovalSpec => []DeletedIsGone
<1>1. RemovalInv => DeletedIsGone
  BY DEF RemovalInv
<1> QED BY <1>1, RemovalInvariant, PTL

\* No recovery attempt boots an executor whose removal is decided or that a
\* request may still remove (admitRecovery, authorizeDeletion).
THEOREM NoRecoveryUnderRemoval == RemovalSpec => NoBootUnderRemoval
<1>1. ASSUME RemovalInv, [RemovalNext]_vars, NEW a \in Attempt,
             attempt[a] = "admitted", attempt'[a] = "started"
      PROVE  state \notin {"issued", "deleted"} /\ \A k \in Ticket : ~MayAct(k)
  <2>1. exists
    <3>1. CASE \E b \in Attempt : StartExecutor(b)
      BY <3>1 DEF StartExecutor
    <3>2. CASE attempt' = attempt
      BY <1>1, <3>2
    <3>3. ASSUME NEW b \in Attempt, ClaimRecovery(b) \/ AdmitRecovery(b) \/ EndAttempt(b)
          PROVE  attempt'[a] # "started"
      BY <1>1, <3>3 DEF RemovalInv, RemovalTypeOK, ClaimRecovery, AdmitRecovery, EndAttempt,
         ToStage
    <3>4. CASE UNCHANGED vars
      BY <3>2, <3>4 DEF vars, removalVars, recovery
    <3>5. ASSUME NEW t \in Observation, ObserverStep(t) PROVE attempt' = attempt
      BY <3>5 DEF ObserverStep, OpenUnlessRemoving, HearWhileThere, CloseAndBump,
         RecordAndVoid, EndAndBump, ObserverFails, removalVars, recovery
    <3>6. ASSUME NEW k \in Ticket, DeleterStep(k) PROVE attempt' = attempt
      BY <3>6 DEF DeleterStep, Decide, Authorize, AuthorizeRefused, Issue, IssueRefused,
         Send, Renew, Complete, ReleaseDeletion, OutcomeUnknown, DeleterDies, TakeOver,
         recovery
    <3>7. CASE RuntimeStep \/ TimePasses
      BY <3>2, <3>7 DEF RuntimeStep, TimePasses, RuntimeRemoves, RuntimeRefuses, PassBound,
         RebootWhileThere, RemoveDiscarded, removalVars, recovery
    <3>8. CASE RowStep
      BY <3>2, <3>8 DEF RowStep, AttestCompletion, LapseHold, ReconcileGone, ReleaseFenced,
         RequestDiscard, MarkRetained, EndRetention, LapseClaim, recovery
    <3> QED BY <1>1, <3>1, <3>2, <3>3, <3>4, <3>5, <3>6, <3>7, <3>8
            DEF RemovalNext, RecoveryStep
  <2>2. state \notin {"issued", "deleted"}
    BY <1>1, <2>1 DEF RemovalInv, ClaimInv, DeletedIsGone
  <2> QED BY <1>1, <2>2, NoneMayAct
<1>2. RemovalInv /\ [RemovalNext]_vars =>
        [\A a \in Attempt :
           attempt[a] = "admitted" /\ attempt'[a] = "started" =>
              /\ state \notin {"issued", "deleted"}
              /\ \A k \in Ticket : ~MayAct(k)]_vars
  BY <1>1
<1> QED BY <1>2, RemovalInvariant, PTL DEF RemovalSpec, NoBootUnderRemoval

-----------------------------------------------------------------------------
(***************************************************************************)
(* What IssuedRemovalSettles rests on beside fairness.                     *)
(***************************************************************************)

\* Nothing renews what an issued removal rests on once its evidence moved, adds
\* a request to it, or takes back a bound that passed.
MovedOnlyEnds ==
    [][state = "issued" /\ ~current =>
         \/ state' # "issued"
         \/ /\ ~current' /\ issuer' = issuer /\ token' = token /\ past \subseteq past'
            /\ \A k \in Ticket : requests'[k] = "unknown" => requests[k] = "unknown"]_vars

\* Once its bounds passed and its hold lapsed, such a removal may be given up.
MovedMayEnd ==
    state = "issued" /\ ~current /\ ~live /\ {k \in Ticket : requests[k] # "none"} \subseteq past
        => Fenced

\* However many deleters, observers and recoveries interleave, an issued removal
\* whose evidence moved only comes nearer to its end: whoever holds it may send
\* no further request, and those sent run out (reconcileIssuedDeletion).
THEOREM MovedRemovalsEnd == RemovalSpec => MovedOnlyEnds /\ []MovedMayEnd
<1> DEFINE Nearer ==
       state = "issued" /\ ~current =>
         \/ state' # "issued"
         \/ /\ ~current' /\ issuer' = issuer /\ token' = token /\ past \subseteq past'
            /\ \A k \in Ticket : requests'[k] = "unknown" => requests[k] = "unknown"
<1>1. RemovalInv /\ [RemovalNext]_vars => [Nearer]_vars
  <2> SUFFICES ASSUME RemovalInv, RemovalNext, state = "issued", ~current, state' = "issued"
               PROVE  /\ ~current' /\ issuer' = issuer /\ token' = token /\ past \subseteq past'
                      /\ \A k \in Ticket : requests'[k] = "unknown" => requests[k] = "unknown"
    OBVIOUS
  <2> USE DEF removal, versions, deleters, recovery, removalVars, BumpVersion, VoidDeleting
  <2>1. ASSUME NEW t \in Observation, ObserverStep(t)
        PROVE  ~current' /\ UNCHANGED <<issuer, token, past, requests>>
    BY <2>1 DEF ObserverStep, OpenUnlessRemoving, HearWhileThere, CloseAndBump, RecordAndVoid,
       EndAndBump, ObserverFails
  <2>2. ASSUME NEW k \in Ticket,
               \/ \E a \in Attempt \cup {Nobody} : Decide(k, a)
               \/ Authorize(k) \/ AuthorizeRefused(k) \/ Issue(k) \/ IssueRefused(k) \/ TakeOver(k)
               \/ Send(k) \/ Renew(k) \/ OutcomeUnknown(k) \/ DeleterDies(k)
        PROVE  ~current' /\ UNCHANGED <<issuer, token, past, requests>>
    BY <2>2 DEF Decide, Authorize, MayAuthorize, AuthorizeRefused, Issue, MayIssue, EvidenceCurrent,
       IssueRefused, TakeOver, Send, Renew, OutcomeUnknown, DeleterDies
  <2>3. ASSUME NEW k \in Ticket, Complete(k) PROVE FALSE
    BY <2>3 DEF Complete
  <2>4. ASSUME NEW k \in Ticket, ReleaseDeletion(k)
        PROVE  /\ ~current' /\ UNCHANGED <<issuer, token, past>>
               /\ requests' = SettleRequest(k, "refused")
    BY <2>4 DEF ReleaseDeletion, NoDeletion
  <2>5. ASSUME NEW k \in Ticket, requests' = SettleRequest(k, "refused"),
               NEW j \in Ticket, requests'[j] = "unknown"
        PROVE  requests[j] = "unknown"
    BY <2>5 DEF SettleRequest, RemovalInv, RemovalTypeOK
  <2>6. ASSUME NEW a \in Attempt, RecoveryStep(a)
        PROVE  ~current' /\ UNCHANGED <<issuer, token, past, requests>>
    BY <2>6 DEF RecoveryStep, ClaimRecovery, AdmitRecovery, StartExecutor, EndAttempt
  <2>7. CASE RuntimeStep
    BY <2>7 DEF RuntimeStep, RuntimeRemoves, RuntimeRefuses, PassBound, RebootWhileThere, RemoveDiscarded
  <2>8. CASE RowStep
    BY <2>8 DEF RowStep, AttestCompletion, LapseHold, ReconcileGone, ReleaseFenced, NoDeletion,
       RequestDiscard, MarkRetained, EndRetention, LapseClaim
  <2>9. CASE TimePasses
    BY <2>9 DEF TimePasses
  <2> QED BY <2>1, <2>2, <2>3, <2>4, <2>5, <2>6, <2>7, <2>8, <2>9 DEF RemovalNext, DeleterStep
<1>2. RemovalInv => MovedMayEnd
  BY RemovalAssumption DEF RemovalInv, RemovalTypeOK, RowShape, MovedMayEnd, Fenced
<1> QED BY <1>1, <1>2, RemovalInvariant, PTL DEF RemovalSpec, MovedOnlyEnds

=============================================================================
