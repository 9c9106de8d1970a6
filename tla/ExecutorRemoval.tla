--------------------------- MODULE ExecutorRemoval ---------------------------
(***************************************************************************)
(* The removal of a run's executor, on the evidence of CaptureEvidence:    *)
(* the deletion_* and recovery_lease_* columns of the same row, the        *)
(* deleters that decide, authorize, issue, send and settle a removal, the  *)
(* runtime that carries requests out (late, or never), and the recovery    *)
(* attempts that start a retained executor again.                          *)
(*                                                                         *)
(* A removal is held under a ticket (deletion_token).  Every authorization *)
(* and every takeover draws a new one (randomUUID), so a deleter's attempt *)
(* IS its ticket, and a recovery attempt is its claim's token.  Leases     *)
(* lapse at any moment: a hold's owner may be slow.                        *)
(*                                                                         *)
(* evidence_version is only ever compared for equality with a copy taken   *)
(* earlier, so the copies' being current is kept instead of the counter:   *)
(* every write that bumps the version makes all of them stale.             *)
(***************************************************************************)
EXTENDS CaptureEvidence

CONSTANTS
    Ticket,     \* removal tickets that may ever be drawn
    Attempt,    \* recovery attempts that may ever be made
    Nobody      \* the null token

ASSUME RemovalAssumption == Nobody \notin Ticket /\ Nobody \notin Attempt

VARIABLES
    exists,        \* the runtime has the executor and its disk
    discarded,     \* discard_requested_at is set
    state,         \* deletion_state
    token,         \* deletion_token
    live,          \* deletion_expires_at > now()
    issuer,        \* the ticket deletion_issued_at was written for
    requests,      \* deletion_requests: the outcome recorded per ticket
    current,       \* deletion_evidence_version = evidence_version
    seen,          \* tickets decided on what is still evidence_version
    step,          \* per ticket: where its deleter stands
    asker,         \* per ticket: the recovery attempt it removes for
    sent,          \* per ticket: its request, as the runtime knows it
    past,          \* tickets issued longer ago than the runtime's bound
    retained,      \* retained_at is set
    claimant,      \* recovery_lease_token
    claimLive,     \* recovery_lease_until > now()
    attempt        \* per recovery attempt: where it stands

removal  == <<state, token, live, issuer, requests>>
versions == <<current, seen>>
deleters == <<step, asker, sent, past>>
recovery == <<retained, claimant, claimLive, attempt>>
removalVars == <<exists, discarded, removal, versions, deleters, recovery>>
vars == <<evidenceVars, removalVars>>

DeletionState == {"none", "deleting", "issued", "deleted"}
Outcome  == {"none", "unknown", "refused", "done", "fenced"}
Step     == {"new", "decided", "held", "issued", "calling", "over"}
Request  == {"none", "travelling", "acted", "refused"}
Stage    == {"new", "claimed", "admitted", "started", "over"}

\* The columns that only go together.
RowShape ==
    /\ state = "none" => token = Nobody /\ issuer = Nobody
    /\ live => state \in {"deleting", "issued"}
    /\ current => state \in {"deleting", "issued"}
    /\ state = "issued" => issuer # Nobody /\ requests[issuer] # "none"

RemovalTypeOK ==
    /\ TypeOK
    /\ exists \in BOOLEAN /\ discarded \in BOOLEAN
    /\ state \in DeletionState
    /\ token \in Ticket \cup {Nobody}
    /\ live \in BOOLEAN
    /\ issuer \in Ticket \cup {Nobody}
    /\ requests \in [Ticket -> Outcome]
    /\ current \in BOOLEAN
    /\ seen \in SUBSET Ticket
    /\ step \in [Ticket -> Step]
    /\ asker \in [Ticket -> Attempt \cup {Nobody}]
    /\ sent \in [Ticket -> Request]
    /\ past \in SUBSET Ticket
    /\ retained \in BOOLEAN
    /\ claimant \in Attempt \cup {Nobody}
    /\ claimLive \in BOOLEAN
    /\ attempt \in [Attempt -> Stage]
    /\ RowShape

RemovalInit ==
    /\ Init
    /\ exists = TRUE /\ discarded = FALSE
    /\ state = "none" /\ token = Nobody /\ live = FALSE /\ issuer = Nobody
    /\ requests = [k \in Ticket |-> "none"]
    /\ current = FALSE /\ seen = {}
    /\ step = [k \in Ticket |-> "new"]
    /\ asker = [k \in Ticket |-> Nobody]
    /\ sent = [k \in Ticket |-> "none"]
    /\ past = {}
    /\ retained = FALSE /\ claimant = Nobody /\ claimLive = FALSE
    /\ attempt = [a \in Attempt |-> "new"]

-----------------------------------------------------------------------------
(***************************************************************************)
(* What the row's transactions share.                                      *)
(***************************************************************************)

\* Mutant: the increment is lost.
BumpVersion_Lost == UNCHANGED versions

\* evidence_version + 1.
BumpVersion == current' = FALSE /\ seen' = {}

\* Mutant: a voided removal keeps its hold.
NoDeletion_KeepsHold(left) ==
    /\ state' = "none" /\ token' = Nobody /\ issuer' = Nobody
    /\ requests' = left
    /\ UNCHANGED live

\* NO_DELETION, with the requests it leaves on the row.
NoDeletion(left) ==
    /\ state' = "none" /\ token' = Nobody /\ live' = FALSE /\ issuer' = Nobody
    /\ requests' = left

\* A removal that was authorized and not issued is voided.
VoidDeleting ==
    \/ state = "deleting" /\ NoDeletion([k \in Ticket |-> "none"])
    \/ state # "deleting" /\ UNCHANGED removal

HeldDeleting == state = "deleting" /\ live

\* deletionEvidenceCurrent.
EvidenceCurrent == current /\ open = {}

SettleRequest(k, outcome) ==
    [requests EXCEPT ![k] = IF @ = "unknown" THEN outcome ELSE @]

\* Mutant: a request of unknown outcome is never past its bound.
Fenced_NeverUnknown ==
    /\ issuer # Nobody /\ issuer \in past
    /\ \A k \in Ticket : requests[k] # "unknown"

\* Every request whose outcome is unknown, and the last one issued, is past
\* the runtime's bound.
Fenced ==
    /\ issuer # Nobody /\ issuer \in past
    /\ \A k \in Ticket : requests[k] = "unknown" => k \in past

\* The request is on its way to the runtime and within its bound.
CanAct(k) == sent[k] = "travelling" /\ k \notin past

\* The same of a request about to be sent.
MayAct(k) == k \notin past /\ (sent[k] = "travelling" \/ step[k] = "issued")

Active(k) == step[k] \in {"decided", "held", "issued", "calling"}
RemovingFor(a) == \E k \in Ticket : Active(k) /\ asker[k] = a

MoveTo(k, s) == step' = [step EXCEPT ![k] = s]

-----------------------------------------------------------------------------
(***************************************************************************)
(* Observations, with what they mean for a removal.                        *)
(***************************************************************************)

\* Mutant: an issued removal whose hold lapsed refuses nothing.
OpenUnlessRemoving_LiveOnly(t) ==
    /\ state # "deleted" /\ ~live
    /\ OpenObservation(t)
    /\ VoidDeleting
    /\ BumpVersion
    /\ UNCHANGED <<exists, discarded, deleters, recovery>>

\* openObservation: refused while a removal is under way or done; a removal
\* whose hold lapsed before it was issued is voided by what this admits.
OpenUnlessRemoving(t) ==
    /\ state \notin {"issued", "deleted"} /\ ~HeldDeleting
    /\ OpenObservation(t)
    /\ VoidDeleting
    /\ BumpVersion
    /\ UNCHANGED <<exists, discarded, deleters, recovery>>

CloseAndBump(t) ==
    /\ CloseObservation(t)
    /\ BumpVersion
    /\ UNCHANGED <<exists, discarded, removal, deleters, recovery>>

\* endObservation writes nothing once another observation resolved the fence.
EndAndBump(t) ==
    /\ EndObservation(t)
    /\ \/ t \in open /\ BumpVersion
       \/ t \notin open /\ UNCHANGED versions
    /\ UNCHANGED <<exists, discarded, removal, deleters, recovery>>

\* recordStatus: received evidence voids a removal decided before it, unless
\* it was issued already.
RecordAndVoid(t) ==
    /\ RecordStatus(t)
    /\ VoidDeleting
    /\ BumpVersion
    /\ UNCHANGED <<exists, discarded, deleters, recovery>>

\* Only an executor the runtime still has answers, or boots again.
HearWhileThere(t) == exists /\ HearAnswer(t) /\ UNCHANGED removalVars

RebootWhileThere == exists /\ Reboot /\ UNCHANGED removalVars

ObserverFails(t) ==
    /\ RecordFails(t) \/ AbandonObservation(t)
    /\ UNCHANGED removalVars

\* Mutant: an attestation clears the unsaved answers on record.
AttestCompletion_ClearsUnsaved ==
    /\ BumpVersion
    /\ unsaved' = {}
    /\ UNCHANGED <<clock, executor, phase, answer, heardAt, fences, last, lastAt,
                   exists, discarded, removal, deleters, recovery>>

\* attestCompletion, as far as a removal sees it: the evidence moved.
AttestCompletion ==
    /\ BumpVersion
    /\ UNCHANGED <<evidenceVars, exists, discarded, removal, deleters, recovery>>

-----------------------------------------------------------------------------
(***************************************************************************)
(* A deleter: decide on the record, authorize, issue, send, settle.        *)
(***************************************************************************)

\* authorizedDeletion reads the record and the policy lets the executor go on
\* an observed complete; `a' is the recovery attempt it removes for, if any.
Decide(k, a) ==
    /\ step[k] = "new"
    /\ state # "issued"
    /\ CurrentlySaved
    /\ a \in Attempt => attempt[a] \in {"claimed", "started"}
    /\ MoveTo(k, "decided")
    /\ asker' = [asker EXCEPT ![k] = a]
    /\ seen' = seen \cup {k}
    /\ UNCHANGED <<evidenceVars, exists, discarded, removal, current, sent, past, recovery>>

\* Mutant: a recovery claim keeps no deleter off.
ClaimedByAnother_Never(k) == FALSE

ClaimedByAnother(k) == claimLive /\ claimant # asker[k]

\* Mutant: authorized whatever version the decision was made on.
MayAuthorize_AnyVersion(k) ==
    /\ state \notin {"issued", "deleted"}
    /\ ~ClaimedByAnother(k)
    /\ ~HeldDeleting
    /\ open = {}

MayAuthorize(k) ==
    /\ state \notin {"issued", "deleted"}
    /\ ~ClaimedByAnother(k)
    /\ ~HeldDeleting
    /\ k \in seen /\ open = {}

\* authorizeDeletion, granted.
Authorize(k) ==
    /\ step[k] = "decided"
    /\ MayAuthorize(k)
    /\ state' = "deleting" /\ token' = k /\ live' = TRUE /\ issuer' = Nobody
    /\ requests' = [j \in Ticket |-> "none"]
    /\ current' = TRUE
    /\ seen' = seen \ {k}
    /\ MoveTo(k, "held")
    /\ UNCHANGED <<evidenceVars, exists, discarded, asker, sent, past, recovery>>

\* authorizeDeletion, refused: nothing is written, so the ticket is still
\* unknown to anyone and the deleter decides again as if it were new.
AuthorizeRefused(k) ==
    /\ step[k] = "decided"
    /\ ~MayAuthorize(k)
    /\ MoveTo(k, "new")
    /\ asker' = [asker EXCEPT ![k] = Nobody]
    /\ seen' = seen \ {k}
    /\ UNCHANGED <<evidenceVars, exists, discarded, removal, current, sent, past, recovery>>

MayIssue(k) ==
    /\ token = k
    /\ state \in {"deleting", "issued"}
    /\ EvidenceCurrent
    /\ requests[k] = "none"

\* issueDeletion: checked and marked issued in one step, before the call.
Issue(k) ==
    /\ step[k] = "held"
    /\ MayIssue(k)
    /\ state' = "issued" /\ live' = TRUE /\ issuer' = k
    /\ requests' = [requests EXCEPT ![k] = "unknown"]
    /\ MoveTo(k, "issued")
    /\ UNCHANGED <<evidenceVars, exists, discarded, token, versions, asker, sent, past, recovery>>

\* issueDeletion answers no: nothing is sent.  A removal taken over whose
\* evidence moved stays issued, its hold ended.
IssueRefused(k) ==
    /\ step[k] = "held"
    /\ ~MayIssue(k)
    /\ live' = (live /\ ~(token = k /\ state = "issued" /\ ~EvidenceCurrent))
    /\ MoveTo(k, "over")
    /\ UNCHANGED <<evidenceVars, exists, discarded, state, token, issuer, requests,
                   versions, asker, sent, past, recovery>>

\* The runtime call.  A deleter is not stalled past the runtime's own bound
\* between the two.
Send(k) ==
    /\ step[k] = "issued"
    /\ k \notin past
    /\ sent' = [sent EXCEPT ![k] = "travelling"]
    /\ MoveTo(k, "calling")
    /\ UNCHANGED <<evidenceVars, exists, discarded, removal, versions, asker, past, recovery>>

\* confirmDeletion, repeated while the runtime call runs.
Renew(k) ==
    /\ step[k] = "calling"
    /\ token = k
    /\ state = "issued" \/ (state = "deleting" /\ EvidenceCurrent)
    /\ ~live
    /\ live' = TRUE
    /\ UNCHANGED <<evidenceVars, exists, discarded, state, token, issuer, requests,
                   versions, deleters, recovery>>

\* Mutant: recorded deleted however the call ended.
Complete_OnAnyExit(k) ==
    /\ step[k] = "calling"
    /\ state' = "deleted" /\ token' = k /\ live' = FALSE
    /\ requests' = SettleRequest(k, "done")
    /\ BumpVersion
    /\ MoveTo(k, "over")
    /\ UNCHANGED <<evidenceVars, exists, discarded, issuer, asker, sent, past, recovery>>

\* completeDeletion: the call succeeded; recorded whoever holds the removal.
Complete(k) ==
    /\ step[k] = "calling" /\ sent[k] = "acted"
    /\ state' = "deleted" /\ token' = k /\ live' = FALSE
    /\ requests' = SettleRequest(k, "done")
    /\ BumpVersion
    /\ MoveTo(k, "over")
    /\ UNCHANGED <<evidenceVars, exists, discarded, issuer, asker, sent, past, recovery>>

-----------------------------------------------------------------------------
\* Mutant: a refusal gives the removal up whatever its other requests do.
ReleaseDeletion_GivesUp(k) ==
    /\ step[k] = "calling" /\ sent[k] = "refused"
    /\ MoveTo(k, "over")
    /\ state \in {"deleting", "issued"} /\ token = k
    /\ NoDeletion(SettleRequest(k, "refused"))
    /\ current' = FALSE
    /\ UNCHANGED <<evidenceVars, exists, discarded, seen, asker, sent, past, recovery>>

\* releaseDeletion: the runtime refused definitively.  Its request is settled;
\* the removal is given up only by its holder, and only with no other request
\* of it left unknown.
ReleaseDeletion(k) ==
    /\ step[k] = "calling" /\ sent[k] = "refused"
    /\ MoveTo(k, "over")
    /\ \/ /\ state \notin {"deleting", "issued"}
          /\ UNCHANGED <<removal, versions>>
       \/ /\ state \in {"deleting", "issued"}
          /\ token # k
          /\ requests' = SettleRequest(k, "refused")
          /\ UNCHANGED <<state, token, live, issuer, versions>>
       \/ /\ state \in {"deleting", "issued"}
          /\ token = k
          /\ \E j \in Ticket \ {k} : requests[j] = "unknown"
          /\ requests' = SettleRequest(k, "refused")
          /\ live' = FALSE
          /\ UNCHANGED <<state, token, issuer, versions>>
       \/ /\ state \in {"deleting", "issued"}
          /\ token = k
          /\ \A j \in Ticket \ {k} : requests[j] # "unknown"
          /\ NoDeletion(SettleRequest(k, "refused"))
          /\ current' = FALSE
          /\ UNCHANGED seen
    /\ UNCHANGED <<evidenceVars, exists, discarded, asker, sent, past, recovery>>

\* removalFailed, lapseIssuedDeletion: the call failed or was interrupted and
\* nobody knows whether the runtime will act on it.
OutcomeUnknown(k) ==
    /\ step[k] = "calling"
    /\ live' = (live /\ ~(state = "issued" /\ token = k))
    /\ MoveTo(k, "over")
    /\ UNCHANGED <<evidenceVars, exists, discarded, state, token, issuer, requests,
                   versions, asker, sent, past, recovery>>

\* A deleter's process dies, or cannot reach the database: whatever it held
\* is left on the row.
DeleterDies(k) ==
    /\ Active(k)
    /\ MoveTo(k, "over")
    /\ seen' = seen \ {k}
    /\ UNCHANGED <<evidenceVars, exists, discarded, removal, current, asker, sent,
                   past, recovery>>

LapseHold ==
    /\ live
    /\ live' = FALSE
    /\ UNCHANGED <<evidenceVars, exists, discarded, state, token, issuer, requests,
                   versions, deleters, recovery>>

-----------------------------------------------------------------------------
(***************************************************************************)
(* reconcileIssuedDeletion: a removal found issued with its hold lapsed is *)
(* settled from what the runtime said of the executor when the caller last *)
(* looked.  "Gone" is final; "present" may be out of date by now, and an   *)
(* executor that is gone was once present, so it may always be said.       *)
(***************************************************************************)
IssuedAndLapsed == state = "issued" /\ ~live

ReconcileGone ==
    /\ IssuedAndLapsed
    /\ ~exists
    /\ state' = "deleted"
    /\ BumpVersion
    /\ UNCHANGED <<evidenceVars, exists, discarded, token, live, issuer, requests,
                   deleters, recovery>>

\* "reissue": taken over on the evidence it was authorized on.
TakeOver(k) ==
    /\ IssuedAndLapsed
    /\ step[k] = "new"
    /\ EvidenceCurrent
    /\ token' = k /\ live' = TRUE
    /\ MoveTo(k, "held")
    /\ UNCHANGED <<evidenceVars, exists, discarded, state, issuer, requests, versions,
                   asker, sent, past, recovery>>

\* "released": the evidence moved and nothing it sent can act any more.
ReleaseFenced ==
    /\ IssuedAndLapsed
    /\ ~EvidenceCurrent
    /\ Fenced
    /\ NoDeletion([k \in Ticket |-> IF requests[k] = "unknown" THEN "fenced" ELSE requests[k]])
    /\ BumpVersion
    /\ UNCHANGED <<evidenceVars, exists, discarded, deleters, recovery>>

-----------------------------------------------------------------------------
(***************************************************************************)
(* The runtime.                                                            *)
(***************************************************************************)
RuntimeRemoves(k) ==
    /\ CanAct(k)
    /\ exists' = FALSE
    /\ sent' = [sent EXCEPT ![k] = "acted"]
    /\ UNCHANGED <<evidenceVars, discarded, removal, versions, step, asker, past, recovery>>

RuntimeRefuses(k) ==
    /\ CanAct(k)
    /\ sent' = [sent EXCEPT ![k] = "refused"]
    /\ UNCHANGED <<evidenceVars, exists, discarded, removal, versions, step, asker,
                   past, recovery>>

\* removalFenceMs passes since ticket k was issued.
PassBound(k) ==
    /\ step[k] \in {"issued", "calling"} \/ sent[k] # "none" \/ requests[k] # "none"
    /\ k \notin past
    /\ past' = past \cup {k}
    /\ UNCHANGED <<evidenceVars, exists, discarded, removal, versions, step, asker,
                   sent, recovery>>

\* requestDiscard, and a removal that rests on it: no ticket, no record.
RequestDiscard ==
    /\ ~discarded
    /\ discarded' = TRUE
    /\ UNCHANGED <<evidenceVars, exists, removal, versions, deleters, recovery>>

RemoveDiscarded ==
    /\ discarded /\ exists
    /\ exists' = FALSE
    /\ UNCHANGED <<evidenceVars, discarded, removal, versions, deleters, recovery>>

-----------------------------------------------------------------------------
(***************************************************************************)
(* Recovery attempts of a retained executor.                               *)
(***************************************************************************)
ToStage(a, s) == attempt' = [attempt EXCEPT ![a] = s]

\* markRetained: the policy kept it.
MarkRetained ==
    /\ exists /\ ~retained
    /\ retained' = TRUE
    /\ UNCHANGED <<evidenceVars, exists, discarded, removal, versions, deleters,
                   claimant, claimLive, attempt>>

\* recordObservation with a state that ends the retention.
EndRetention ==
    /\ retained
    /\ state = "deleted" \/ ~exists
    /\ retained' = FALSE
    /\ UNCHANGED <<evidenceVars, exists, discarded, removal, versions, deleters,
                   claimant, claimLive, attempt>>

ClaimRecovery(a) ==
    /\ attempt[a] = "new"
    /\ retained
    /\ ~claimLive
    /\ claimant' = a /\ claimLive' = TRUE
    /\ ToStage(a, "claimed")
    /\ UNCHANGED <<evidenceVars, exists, discarded, removal, versions, deleters, retained>>

\* admitRecovery, granted.  A removal whose hold lapsed unissued is voided.
AdmitRecovery(a) ==
    /\ attempt[a] = "claimed" /\ ~RemovingFor(a)
    /\ state \notin {"issued", "deleted"} /\ ~HeldDeleting
    /\ claimLive /\ claimant = a
    /\ VoidDeleting
    /\ \/ state = "deleting" /\ BumpVersion
       \/ state # "deleting" /\ UNCHANGED versions
    /\ ToStage(a, "admitted")
    /\ UNCHANGED <<evidenceVars, exists, discarded, deleters, retained, claimant, claimLive>>

\* adapter.recover: the executor boots again on its own disk, or runs already.
StartExecutor(a) ==
    /\ attempt[a] = "admitted"
    /\ exists
    /\ Reboot \/ UNCHANGED evidenceVars
    /\ ToStage(a, "started")
    /\ UNCHANGED <<exists, discarded, removal, versions, deleters, retained,
                   claimant, claimLive>>

Underway(a) == attempt[a] \in {"claimed", "admitted", "started"}

\* The attempt is over, whatever came of it; what it was removing is settled
\* or interrupted first.  releaseRecovery, or its process died.
EndAttempt(a) ==
    /\ Underway(a) /\ ~RemovingFor(a)
    /\ ToStage(a, "over")
    /\ \/ claimant = a /\ claimant' = Nobody /\ claimLive' = FALSE
       \/ UNCHANGED <<claimant, claimLive>>
    /\ UNCHANGED <<evidenceVars, exists, discarded, removal, versions, deleters, retained>>

\* An attempt is bounded (attemptMs) and its claim outlives the bound.
LapseClaim ==
    /\ claimLive
    /\ ~Underway(claimant)
    /\ claimLive' = FALSE
    /\ UNCHANGED <<evidenceVars, exists, discarded, removal, versions, deleters,
                   retained, claimant, attempt>>

-----------------------------------------------------------------------------
TimePasses == Tick /\ UNCHANGED removalVars

ObserverStep(t) ==
    \/ OpenUnlessRemoving(t) \/ HearWhileThere(t) \/ CloseAndBump(t)
    \/ RecordAndVoid(t) \/ EndAndBump(t) \/ ObserverFails(t)

DeleterStep(k) ==
    \/ \E a \in Attempt \cup {Nobody} : Decide(k, a)
    \/ Authorize(k) \/ AuthorizeRefused(k)
    \/ Issue(k) \/ IssueRefused(k) \/ Send(k) \/ Renew(k)
    \/ Complete(k) \/ ReleaseDeletion(k) \/ OutcomeUnknown(k)
    \/ DeleterDies(k) \/ TakeOver(k)

RuntimeStep ==
    \/ \E k \in Ticket : RuntimeRemoves(k) \/ RuntimeRefuses(k) \/ PassBound(k)
    \/ RebootWhileThere \/ RemoveDiscarded

RecoveryStep(a) ==
    \/ ClaimRecovery(a) \/ AdmitRecovery(a) \/ StartExecutor(a) \/ EndAttempt(a)

RowStep ==
    \/ AttestCompletion \/ LapseHold \/ ReconcileGone \/ ReleaseFenced
    \/ RequestDiscard \/ MarkRetained \/ EndRetention \/ LapseClaim

RemovalNext ==
    \/ TimePasses
    \/ \E t \in Observation : ObserverStep(t)
    \/ \E k \in Ticket : DeleterStep(k)
    \/ \E a \in Attempt : RecoveryStep(a)
    \/ RuntimeStep
    \/ RowStep

RemovalSpec == RemovalInit /\ [][RemovalNext]_vars

(***************************************************************************)
(* What the scheduling justifies: a deleter's runtime call is bounded, so  *)
(* its step ends one way or another; time passes, so a hold nobody renews  *)
(* lapses and the runtime's bound passes; and the sweeps come back to a    *)
(* removal found issued until it is settled.  Nothing is assumed of the    *)
(* runtime, which may never act, or of recoveries and observations.        *)
(***************************************************************************)
DeleterMoves(k) ==
    \/ Issue(k) \/ IssueRefused(k) \/ Send(k)
    \/ Complete(k) \/ ReleaseDeletion(k) \/ OutcomeUnknown(k) \/ DeleterDies(k)

Fairness ==
    /\ \A k \in Ticket : WF_vars(DeleterMoves(k)) /\ WF_vars(PassBound(k))
    /\ WF_vars(LapseHold)
    /\ WF_vars(ReconcileGone) /\ WF_vars(ReleaseFenced)

FairRemovalSpec == RemovalSpec /\ Fairness

-----------------------------------------------------------------------------
\* While the runtime may still carry out a request, no answer any process ever
\* received from the executor says its work is unsaved without a later saved
\* one on record: issuing checks the evidence, and nothing asks after it
\* (issueDeletion, openObservation, reconcileIssuedDeletion).
RequestRestsOnSaved ==
    \A k \in Ticket : MayAct(k) =>
        \A t \in Observation : HeardUnsaved(t) => Outranked(t)

\* While the runtime may still carry out a request, nobody is waiting on an
\* answer from the executor: whatever it would say could no longer stop it.
NothingAskedWhileRemovable ==
    \A k \in Ticket : MayAct(k) =>
        \A t \in Observation : phase[t] # "asking"

\* A request that may still act is on record with an unknown outcome, and the
\* removal is not over but by the executor being gone: neither a lapsed hold,
\* a takeover, a refusal of another request nor voided evidence forgets it.
RequestOnRecord ==
    \A k \in Ticket : MayAct(k) =>
        requests[k] = "unknown" /\ state \in {"issued", "deleted"}

\* The row says deleted only of an executor the runtime no longer has.
DeletedIsGone == state = "deleted" => ~exists

\* A recovery attempt never boots an executor a request in flight may remove,
\* nor one whose removal is decided, whichever was first
\* (admitRecovery, authorizeDeletion, claimRecovery).
NoBootUnderRemoval ==
    [][\A a \in Attempt :
         attempt[a] = "admitted" /\ attempt'[a] = "started" =>
            /\ state \notin {"issued", "deleted"}
            /\ \A k \in Ticket : ~MayAct(k)]_vars

\* An issued removal whose evidence moved since always ends, recorded deleted
\* or given up, whatever became of its requests: on a runtime with a bound, the
\* executor it excludes from observation and recovery is never wedged
\* (reconcileIssuedDeletion).
IssuedRemovalSettles ==
    state = "issued" /\ ~current ~> state # "issued"

-----------------------------------------------------------------------------
(***************************************************************************)
(* What it implements.                                                     *)
(***************************************************************************)

\* The last answer the executor gave to anyone, whether it was recorded or not.
Verdict ==
    LET newest == {t \in Observation : /\ answer[t] # NoAnswer
                                       /\ answer[t].observation = made}
    IN  IF newest = {} THEN "unknown"
        ELSE IF \E t \in newest : answer[t].saved THEN "saved" ELSE "unsaved"

\* A removal is under way only while the runtime may carry out its request.
CustodyNow ==
    IF ~exists THEN "gone"
    ELSE IF \E k \in Ticket : CanAct(k) THEN "removing" ELSE "kept"

Custody == INSTANCE ExecutorCustody WITH
    verdict <- Verdict, custody <- CustodyNow, discard <- discarded, lost <- FALSE

\* The executor is removed only on the last word it gave anyone, or on its
\* owner's: all of the above implements ExecutorCustody.
ImplementsCustody == Custody!CustodySpec

\* A removal only ever restricts what CaptureEvidence does, so what holds of
\* the evidence alone holds of it here.
ImplementsEvidence == Spec

=============================================================================
