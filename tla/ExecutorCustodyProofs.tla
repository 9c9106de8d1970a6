------------------------ MODULE ExecutorCustodyProofs ------------------------
(***************************************************************************)
(* ExecutorRemoval implements ExecutorCustody, for any observations,       *)
(* tickets, attempts and bounds: behind fences, versions, leases and late  *)
(* answers, the executor is removed only on the last word it gave to       *)
(* ANYONE, or on its owner's.                                              *)
(***************************************************************************)
EXTENDS ExecutorRemovalProofs

\* Once the executor answered anyone, its latest answer is somebody's.
NewestInv ==
    (\E t \in Observation : Heard(t)) => \E t \in Observation : Heard(t) /\ Number(t) = made

\* A request that may still act was issued on the last word.
VerdictInv == \A k \in Ticket : MayAct(k) => Verdict = "saved"

CustodyInv == RemovalInv /\ NewestInv /\ VerdictInv

-----------------------------------------------------------------------------
(***************************************************************************)
(* The last word.                                                          *)
(***************************************************************************)

\* What an observation's answers leave unchanged leaves the last word.
LEMMA VerdictStays ==
    ASSUME answer' = answer, made' = made
    PROVE  Verdict' = Verdict /\ (NewestInv => NewestInv')
BY DEF Verdict, NewestInv, Heard, Number

\* An answer is the last word as it is heard.
LEMMA VerdictHeard ==
    ASSUME RemovalInv, NEW t \in Observation, HearAnswer(t)
    PROVE  Verdict' \in {"unsaved", "saved"} /\ NewestInv'
<1>1. PICK saved \in BOOLEAN : answer' = [answer EXCEPT ![t] = NextAnswer(saved)]
  BY DEF HearAnswer
<1>2. answer'[t] = NextAnswer(saved) /\ answer'[t].observation = made + 1 /\ made' = made + 1
  BY <1>1 DEF RemovalInv, EvidenceInv, TypeOK, HearAnswer, NextAnswer
<1>3. NextAnswer(saved) # NoAnswer
  BY NoAnswerAssumption DEF RemovalInv, EvidenceInv, TypeOK, NextAnswer, Answer, Daemon, Launch
<1>4. Verdict' \in {"unsaved", "saved"}
  BY <1>2, <1>3 DEF Verdict
<1>5. NewestInv'
  BY <1>2, <1>3 DEF NewestInv, Heard, Number
<1> QED BY <1>4, <1>5

\* Evidence that reads saved with nothing in flight is the last word.
LEMMA CurrentlySavedIsLastWord ==
    ASSUME EvidenceInv, NewestInv, CurrentlySaved
    PROVE  Verdict = "saved"
<1>1. \E t \in Observation : Heard(t)
  BY DEF EvidenceInv, RecordInv, PhaseInv, Recorded, CurrentlySaved, ReadsSaved
<1>2. PICK t \in Observation : Heard(t) /\ Number(t) = made
  BY <1>1 DEF NewestInv
<1>3. answer[t].saved
  <2>1. SUFFICES ASSUME ~answer[t].saved PROVE FALSE
    OBVIOUS
  <2>2. Outranked(t)
    BY <1>2, <2>1, SavedOutranksUnsaved DEF HeardUnsaved, Heard
  <2>3. PICK u \in Observation : Recorded(u) /\ Number(t) < Number(u)
    BY <2>2 DEF Outranked, Recorded, Number
  <2>4. Heard(u) /\ Number(u) <= made
    BY <2>3 DEF EvidenceInv, PhaseInv, HistoryInv, Recorded
  <2>5. Number(u) \in Nat /\ made \in Nat
    BY <2>4, HeardIsAnswer DEF EvidenceInv, TypeOK
  <2> QED BY <1>2, <2>3, <2>4, <2>5
<1> QED BY <1>2, <1>3 DEF Verdict, Heard, Number

-----------------------------------------------------------------------------
(***************************************************************************)
(* What each step is to the custody.                                       *)
(***************************************************************************)

\* Steps that neither ask the runtime for anything nor hear from it.
Elsewhere == UNCHANGED <<answer, made, exists, discarded, sent, past>>

\* Every step but these leaves the custody, and the last word, as they are.
LEMMA StepsOfCustody ==
    ASSUME [RemovalNext]_vars
    PROVE  \/ Elsewhere
           \/ \E t \in Observation : HearWhileThere(t)
           \/ \E k \in Ticket : Send(k) \/ RuntimeRemoves(k) \/ RuntimeRefuses(k) \/ PassBound(k)
           \/ RequestDiscard \/ RemoveDiscarded
<1> USE DEF Elsewhere, evidenceVars, executor, removalVars, deleters
<1>1. ASSUME NEW t \in Observation, ObserverStep(t) PROVE Elsewhere \/ HearWhileThere(t)
  BY <1>1 DEF ObserverStep, OpenUnlessRemoving, CloseAndBump, RecordAndVoid, EndAndBump,
     ObserverFails, OpenObservation, CloseObservation, RecordStatus, EndObservation,
     RecordFails, AbandonObservation
<1>2. ASSUME NEW k \in Ticket, DeleterStep(k) PROVE Elsewhere \/ Send(k)
  BY <1>2 DEF DeleterStep, Decide, Authorize, AuthorizeRefused, Issue, IssueRefused,
     Renew, Complete, ReleaseDeletion, OutcomeUnknown, DeleterDies, TakeOver
<1>3. ASSUME NEW a \in Attempt, RecoveryStep(a) PROVE Elsewhere
  BY <1>3 DEF RecoveryStep, ClaimRecovery, AdmitRecovery, StartExecutor, EndAttempt, Reboot
<1>4. CASE TimePasses \/ RebootWhileThere
  BY <1>4 DEF TimePasses, RebootWhileThere, Tick, Reboot
<1>5. CASE RowStep
  BY <1>5 DEF RowStep, AttestCompletion, LapseHold, ReconcileGone, ReleaseFenced,
     MarkRetained, EndRetention, LapseClaim
<1>6. CASE UNCHANGED vars
  BY <1>6 DEF vars
<1> QED BY <1>1, <1>2, <1>3, <1>4, <1>5, <1>6 DEF RemovalNext, RuntimeStep

\* Nothing but issuing it makes a request able to act.
LEMMA IssueMakesActing ==
    ASSUME RemovalInv, [RemovalNext]_vars, NEW k \in Ticket, MayAct(k)', ~MayAct(k)
    PROVE  Issue(k)
<1> USE DEF MayAct, RemovalInv, RemovalTypeOK
<1>1. ASSUME NEW j \in Ticket, DeleterStep(j) PROVE Issue(k)
  <2>1. CASE Issue(j)
    BY <1>1, <2>1 DEF Issue, MoveTo
  <2>2. CASE Send(j)
    BY <1>1, <2>2 DEF Send, MoveTo
  <2>3. CASE \/ Authorize(j) \/ AuthorizeRefused(j) \/ TakeOver(j)
             \/ \E a \in Attempt \cup {Nobody} : Decide(j, a)
    BY <1>1, <2>3 DEF Decide, Authorize, AuthorizeRefused, TakeOver, MoveTo
  <2>4. CASE IssueRefused(j) \/ Renew(j) \/ OutcomeUnknown(j) \/ DeleterDies(j)
    BY <1>1, <2>4 DEF IssueRefused, Renew, OutcomeUnknown, DeleterDies, MoveTo, deleters
  <2>5. CASE Complete(j) \/ ReleaseDeletion(j)
    BY <1>1, <2>5 DEF Complete, ReleaseDeletion, MoveTo
  <2> QED BY <1>1, <2>1, <2>2, <2>3, <2>4, <2>5 DEF DeleterStep
<1>2. CASE \E t \in Observation : ObserverStep(t)
  BY <1>2 DEF ObserverStep, OpenUnlessRemoving, HearWhileThere, CloseAndBump,
     RecordAndVoid, EndAndBump, ObserverFails, removalVars, deleters
<1>3. CASE \E a \in Attempt : RecoveryStep(a)
  BY <1>3 DEF RecoveryStep, ClaimRecovery, AdmitRecovery, StartExecutor, EndAttempt, deleters
<1>4. CASE RuntimeStep \/ TimePasses
  BY <1>4 DEF RuntimeStep, TimePasses, RuntimeRemoves, RuntimeRefuses, PassBound, CanAct,
     RebootWhileThere, RemoveDiscarded, removalVars, deleters
<1>5. CASE RowStep \/ UNCHANGED vars
  BY <1>5 DEF RowStep, AttestCompletion, LapseHold, ReconcileGone, ReleaseFenced,
     RequestDiscard, MarkRetained, EndRetention, LapseClaim, vars, removalVars, deleters
<1> QED BY <1>1, <1>2, <1>3, <1>4, <1>5 DEF RemovalNext

\* The invariant holds initially.
LEMMA CustodyInitInv == RemovalInit => CustodyInv
BY RemovalInitInv DEF CustodyInv, NewestInv, VerdictInv, RemovalInit, Init, Heard, MayAct

\* And every step keeps it.
LEMMA CustodyStepKeepsInv ==
    ASSUME CustodyInv, [RemovalNext]_vars
    PROVE  CustodyInv'
<1> USE DEF CustodyInv
<1>1. RemovalInv'
  BY RemovalStepKeepsInv
<1>2. CASE \E t \in Observation : HearWhileThere(t)
  <2>1. PICK t \in Observation : HearWhileThere(t)
    BY <1>2
  <2>2. \A k \in Ticket : ~MayAct(k) /\ (MayAct(k)' <=> MayAct(k))
    BY <2>1 DEF RemovalInv, NothingAskedWhileRemovable, HearWhileThere, HearAnswer,
       removalVars, deleters, MayAct
  <2> QED BY <1>1, <2>1, <2>2, VerdictHeard DEF HearWhileThere, VerdictInv
<1>3. CASE answer' = answer /\ made' = made
  <2>1. CASE \A k \in Ticket : MayAct(k)' => MayAct(k)
    BY <1>1, <1>3, <2>1, VerdictStays DEF VerdictInv
  <2>2. CASE \E k \in Ticket : MayAct(k)' /\ ~MayAct(k)
    <3>1. CurrentlySaved
      <4>1. PICK k \in Ticket : MayAct(k)' /\ ~MayAct(k)
        BY <2>2
      <4>2. Issue(k)
        BY <4>1, IssueMakesActing
      <4> QED BY <4>2 DEF Issue, MayIssue, EvidenceCurrent, RemovalInv, VersionInv
    <3>2. Verdict' = "saved"
      BY <1>3, <3>1, VerdictStays, CurrentlySavedIsLastWord DEF RemovalInv
    <3> QED BY <1>1, <1>3, <3>2, VerdictStays DEF VerdictInv
  <2> QED BY <2>1, <2>2
<1> QED BY <1>2, <1>3, StepsOfCustody DEF Elsewhere, Send, RuntimeRemoves, RuntimeRefuses,
           PassBound, RequestDiscard, RemoveDiscarded, evidenceVars, executor

\* Every step of the removal is a step of the custody, or none.
LEMMA CustodyStep ==
    ASSUME CustodyInv, [RemovalNext]_vars
    PROVE  [Custody!CustodyNext]_(Custody!custodyVars)
<1> USE DEF Custody!CustodyNext, Custody!custodyVars
<1>1. CASE Elsewhere
  <2>1. CustodyNow' = CustodyNow
    BY <1>1 DEF Elsewhere, CustodyNow, CanAct
  <2> QED BY <1>1, <2>1, VerdictStays DEF Elsewhere
<1>2. ASSUME NEW t \in Observation, HearWhileThere(t) PROVE Custody!Answers
  <2>1. CustodyNow = "kept" /\ CustodyNow' = "kept"
    BY <1>2 DEF CustodyInv, RemovalInv, NothingAskedWhileRemovable, HearWhileThere,
       HearAnswer, removalVars, deleters, CustodyNow, CanAct, MayAct
  <2> QED BY <1>2, <2>1, VerdictHeard DEF Custody!Answers, CustodyInv, HearWhileThere,
             removalVars
<1>3. ASSUME NEW k \in Ticket, Send(k)
      PROVE  Custody!BeginRemoval \/ UNCHANGED <<Verdict, CustodyNow, discarded>>
  <2>1. Verdict' = Verdict
    BY <1>3, VerdictStays DEF Send, evidenceVars, executor
  <2>2. Verdict = "saved"
    BY <1>3 DEF Send, MayAct, CustodyInv, VerdictInv
  <2>3. exists' = exists /\ discarded' = discarded /\ CanAct(k)'
    BY <1>3 DEF Send, CanAct, CustodyInv, RemovalInv, RemovalTypeOK
  <2>4. CustodyNow' = IF exists THEN "removing" ELSE "gone"
    BY <2>3 DEF CustodyNow
  <2>5. CustodyNow \in {"kept", "removing"} <=> exists
    BY DEF CustodyNow
  <2>6. ~exists => CustodyNow = "gone"
    BY DEF CustodyNow
  <2> QED BY <2>1, <2>2, <2>3, <2>4, <2>5, <2>6 DEF Custody!BeginRemoval
<1>4. ASSUME NEW k \in Ticket, RuntimeRemoves(k)
      PROVE  Custody!Remove \/ UNCHANGED <<Verdict, CustodyNow, discarded>>
  BY <1>4, VerdictStays DEF RuntimeRemoves, evidenceVars, executor, CustodyNow, Custody!Remove
<1>5. ASSUME NEW k \in Ticket, RuntimeRefuses(k) \/ PassBound(k)
      PROVE  Custody!GiveUp \/ UNCHANGED <<Verdict, CustodyNow, discarded>>
  <2>1. Verdict' = Verdict /\ exists' = exists /\ discarded' = discarded
    BY <1>5, VerdictStays DEF RuntimeRefuses, PassBound, evidenceVars, executor
  <2>2. \A j \in Ticket : CanAct(j)' => CanAct(j)
    BY <1>5 DEF RuntimeRefuses, PassBound, CanAct, CustodyInv, RemovalInv, RemovalTypeOK
  <2> QED BY <2>1, <2>2 DEF CustodyNow, Custody!GiveUp
<1>6. ASSUME RequestDiscard PROVE Custody!Discard
  <2>1. CustodyNow' = CustodyNow
    BY <1>6 DEF RequestDiscard, deleters, CustodyNow, CanAct
  <2> QED BY <1>6, <2>1, VerdictStays DEF RequestDiscard, evidenceVars, executor, Custody!Discard
<1>7. ASSUME RemoveDiscarded PROVE Custody!Remove
  BY <1>7, VerdictStays DEF RemoveDiscarded, evidenceVars, executor, CustodyNow, Custody!Remove
<1> QED BY <1>1, <1>2, <1>3, <1>4, <1>5, <1>6, <1>7, StepsOfCustody

\* The executor is removed only on the last word it gave anyone, or on its
\* owner's: nothing it said after is overruled, whoever heard it, recorded or not
\* (the whole of recordStatus, openObservation, authorizeDeletion, issueDeletion,
\* reconcileIssuedDeletion).
THEOREM RemovalImplementsCustody == RemovalSpec => ImplementsCustody
<1>1. RemovalInit => Custody!CustodyInit
  <2>1. RemovalInit => Verdict = "unknown" /\ CustodyNow = "kept"
    BY NoAnswerAssumption DEF RemovalInit, Init, Verdict, CustodyNow, CanAct
  <2>2. RemovalInit => discarded \in BOOLEAN
    BY DEF RemovalInit
  <2> QED BY <2>1, <2>2 DEF Custody!CustodyInit
<1>2. CustodyInv /\ [RemovalNext]_vars => CustodyInv'
  BY CustodyStepKeepsInv
<1>3. CustodyInv /\ [RemovalNext]_vars => [Custody!CustodyNext]_(Custody!custodyVars)
  BY CustodyStep
<1> QED BY <1>1, <1>2, <1>3, CustodyInitInv, PTL
        DEF RemovalSpec, ImplementsCustody, Custody!CustodySpec

=============================================================================
