--------------------------- MODULE CaptureEvidence ---------------------------
(***************************************************************************)
(* The evidence columns of one run's workspace_capture_drains row, the     *)
(* executor whose daemon answers, and everyone who asks it: drains,        *)
(* probes, the deadline sweep and the public capture routes.               *)
(*                                                                         *)
(* An observation is one round trip: its fence is opened in a transaction  *)
(* before anything is asked, the answer is recorded as it arrives, and the *)
(* fence is resolved if nothing arrived.  Observations run concurrently;   *)
(* their answers are recorded in any order, some not at all, and any of    *)
(* the processes may die between two steps.  Each observation has a token  *)
(* of its own (randomUUID), so an observation IS its token.                *)
(*                                                                         *)
(* The row's removal columns and evidence_version are ExecutorRemoval's,    *)
(* which conjoins its own guards and effects to the operations here.       *)
(***************************************************************************)
EXTENDS EvidenceOrder

CONSTANTS
    Observation,   \* the tokens of observations that may ever be opened
    TTL,           \* how long a fence stays open: request bound plus margin
    MaxClock,      \* bound: the database clock stops here
    MaxBoots,      \* bound: daemon processes that may ever run on the disk
    MaxEpoch       \* bound: lease epochs the executor may hold

ASSUME EvidenceAssumption ==
    /\ TTL \in Nat \ {0}
    /\ MaxClock \in Nat
    /\ MaxBoots \in Nat
    /\ MaxEpoch \in Nat

VARIABLES
    clock,       \* the one database clock
    daemon,      \* the daemon process running on the executor's disk
    made,        \* how many answers the executor ever made (its own history)
    phase,       \* per observation: where its process stands
    answer,      \* per observation: what it heard, if anything
    heardAt,     \* per observation: the clock when it heard it
    open,        \* observation_fences: the tokens in the map
    openedAt,    \* observation_fences[t].openedAt
    expiresAt,   \* observation_fences[t].expiresAt
    last,        \* last_status
    lastAt,      \* last_status_recorded_at
    unsaved      \* unsaved_statuses

executor == <<daemon, made>>
fences   == <<open, openedAt, expiresAt>>
statuses == <<last, lastAt, unsaved>>
evidenceVars == <<clock, executor, phase, answer, heardAt, fences, statuses>>

Phase == {"new", "asking", "heard", "unrecorded", "recorded", "over"}

Daemon == [boot : Nat, generation : Nat, epoch : Nat, stamps : BOOLEAN]

\* The run's one launch: every position of its executor carries it.
Launch == "launch"

Answer == [observation : Nat, boot : Nat, generation : Nat, epoch : Nat,
           launch : {Launch}, head : SUBSET Nat, stamped : BOOLEAN,
           saved : BOOLEAN]

ASSUME NoAnswerAssumption == NoAnswer \notin Answer

TypeOK ==
    /\ clock \in Nat \ {0}
    /\ daemon \in Daemon
    /\ made \in Nat
    /\ phase \in [Observation -> Phase]
    /\ answer \in [Observation -> Answer \cup {NoAnswer}]
    /\ heardAt \in [Observation -> Nat]
    /\ open \in SUBSET Observation
    /\ openedAt \in [Observation -> Nat]
    /\ expiresAt \in [Observation -> Nat]
    /\ last \in Answer \cup {NoAnswer}
    /\ lastAt \in Nat
    /\ unsaved \in SUBSET [status : Answer, at : Nat]

Init ==
    /\ clock = 1
    /\ daemon \in {[boot |-> 1, generation |-> g, epoch |-> 1, stamps |-> s] :
                      g \in {0, 1}, s \in BOOLEAN}
    /\ made = 0
    /\ phase = [t \in Observation |-> "new"]
    /\ answer = [t \in Observation |-> NoAnswer]
    /\ heardAt = [t \in Observation |-> 0]
    /\ open = {}
    /\ openedAt = [t \in Observation |-> 0]
    /\ expiresAt = [t \in Observation |-> 0]
    /\ last = NoAnswer
    /\ lastAt = 0
    /\ unsaved = {}

-----------------------------------------------------------------------------
(***************************************************************************)
(* The row's operations.  A timestamp a transaction writes is now() of its *)
(* START: it may have waited for the row lock behind transactions that     *)
(* started later, so `at' is any instant since the step before it.         *)
(***************************************************************************)

\* openObservation: the fence, before anything is asked.  The process is not
\* stalled past its own fence (TTL is the request's bound plus a margin).
OpenObservation(t) ==
    /\ phase[t] = "new"
    /\ \E at \in 1..clock :
          /\ clock < at + TTL
          /\ openedAt' = [openedAt EXCEPT ![t] = at]
          /\ expiresAt' = [expiresAt EXCEPT ![t] = at + TTL]
    /\ open' = open \cup {t}
    /\ phase' = [phase EXCEPT ![t] = "asking"]
    /\ UNCHANGED <<clock, executor, answer, heardAt, statuses>>

\* closeObservation: nothing was received (a failure, a timeout, a refusal,
\* an interruption before the answer).
CloseObservation(t) ==
    /\ phase[t] = "asking"
    /\ open' = open \ {t}
    /\ phase' = [phase EXCEPT ![t] = "over"]
    /\ UNCHANGED <<clock, executor, answer, heardAt, openedAt, expiresAt, statuses>>

\* endObservation: the request is over and its answer could not be recorded;
\* the fence lapses now, and counts until a later observation is recorded.
EndObservation(t) ==
    /\ phase[t] = "unrecorded"
    /\ phase' = [phase EXCEPT ![t] = "over"]
    /\ \/ /\ t \in open
          /\ \E at \in heardAt[t]..clock :
                expiresAt' = [expiresAt EXCEPT ![t] = IF at < @ THEN at ELSE @]
       \/ t \notin open /\ UNCHANGED expiresAt
    /\ UNCHANGED <<clock, executor, answer, heardAt, open, openedAt, statuses>>

\* When the answer's request was sent, from its fence; unknown once another
\* observation resolved that fence.
AskedAt(t) == IF t \in open THEN openedAt[t] ELSE NoTime

CausallyAfterLast(t) == last = NoAnswer \/ lastAt < AskedAt(t)

\* Mutant: a recorded answer resolves every fence.
FencesLeft_None(t) == {}

\* The fences a recorded answer leaves: not its own, and not those that
\* lapsed before it was asked.
FencesLeft(t) ==
    {f \in open \ {t} : AskedAt(t) # NoTime => expiresAt[f] >= openedAt[t]}

\* recordStatus, under the row lock.
RecordStatus(t) ==
    /\ phase[t] = "heard"
    /\ \E now \in heardAt[t]..clock :
          /\ unsaved' = NextUnsavedObservations(unsaved, last, lastAt,
                                                answer[t], AskedAt(t), now)
          /\ IF StatusSupersedes(last, answer[t], CausallyAfterLast(t))
             THEN last' = answer[t] /\ lastAt' = now
             ELSE UNCHANGED <<last, lastAt>>
    /\ open' = FencesLeft(t)
    /\ phase' = [phase EXCEPT ![t] = "recorded"]
    /\ UNCHANGED <<clock, executor, answer, heardAt, openedAt, expiresAt>>

-----------------------------------------------------------------------------
(***************************************************************************)
(* What happens between the row's operations.                              *)
(***************************************************************************)

\* The answer the daemon would make now, `saved' or not.
NextAnswer(saved) ==
    [observation |-> made + 1, boot |-> daemon.boot,
     generation |-> daemon.generation, epoch |-> daemon.epoch,
     launch |-> Launch, head |-> {}, stamped |-> daemon.stamps,
     saved |-> saved]

\* The daemon answers and the process that asked receives it.
HearAnswer(t) ==
    /\ phase[t] = "asking"
    /\ \E saved \in BOOLEAN : answer' = [answer EXCEPT ![t] = NextAnswer(saved)]
    /\ made' = made + 1
    /\ heardAt' = [heardAt EXCEPT ![t] = clock]
    /\ phase' = [phase EXCEPT ![t] = "heard"]
    /\ UNCHANGED <<clock, daemon, fences, statuses>>

\* recordStatus failed: the database was out of reach.
RecordFails(t) ==
    /\ phase[t] = "heard"
    /\ phase' = [phase EXCEPT ![t] = "unrecorded"]
    /\ UNCHANGED <<clock, executor, answer, heardAt, fences, statuses>>

\* The process dies, or its close or end could not be written: its fence stays.
AbandonObservation(t) ==
    /\ phase[t] \in {"asking", "heard", "unrecorded"}
    /\ phase' = [phase EXCEPT ![t] = "over"]
    /\ UNCHANGED <<clock, executor, answer, heardAt, fences, statuses>>

\* Another daemon process opens the disk: its generation may not persist, and
\* it may hold a later lease epoch.
Reboot ==
    /\ daemon.boot < MaxBoots
    /\ \E g \in {0, daemon.boot + 1}, e \in {daemon.epoch, daemon.epoch + 1} :
          /\ e <= MaxEpoch
          /\ daemon' = [daemon EXCEPT !.boot = @ + 1, !.generation = g, !.epoch = e]
    /\ UNCHANGED <<clock, made, phase, answer, heardAt, fences, statuses>>

\* A request is over before its fence lapses: the round trip is bounded, and
\* the fence outlives the bound.
Tick ==
    /\ clock < MaxClock
    /\ \A t \in Observation : phase[t] = "asking" => clock + 1 < expiresAt[t]
    /\ clock' = clock + 1
    /\ UNCHANGED <<executor, phase, answer, heardAt, fences, statuses>>

ObservationStep(t) ==
    \/ OpenObservation(t)
    \/ HearAnswer(t)
    \/ CloseObservation(t)
    \/ RecordStatus(t)
    \/ RecordFails(t)
    \/ EndObservation(t)
    \/ AbandonObservation(t)

Next == Tick \/ Reboot \/ \E t \in Observation : ObservationStep(t)

Spec == Init /\ [][Next]_evidenceVars

-----------------------------------------------------------------------------
(***************************************************************************)
(* What the record says, and what it may be relied on for.                 *)
(***************************************************************************)

\* observedComplete: the latest status says saved, and no unsaved answer on
\* record is left uncovered.
ReadsSaved == last # NoAnswer /\ last.saved /\ unsaved = {}

\* recordedDeletionEvidence: it counts only while nothing is in flight.
CurrentlySaved == ReadsSaved /\ open = {}

HeardUnsaved(t) == answer[t] # NoAnswer /\ ~answer[t].saved

\* The executor itself said "saved", later in its own history, and that is on
\* record.
Outranked(t) ==
    \E u \in Observation :
        /\ phase[u] = "recorded"
        /\ answer[u].saved
        /\ answer[t].observation < answer[u].observation

\* Whatever order answers are recorded in, and whatever the stamps can order,
\* the record reads saved only once every unsaved answer ever recorded is
\* followed, in the executor's own history, by a recorded saved one
\* (capture-evidence-order.ts: statusSupersedes, nextUnsavedObservations).
RecordedUnsavedOutranked ==
    ReadsSaved => \A t \in Observation :
                     phase[t] = "recorded" /\ HeardUnsaved(t) => Outranked(t)

\* The same for every unsaved answer any process ever RECEIVED, recorded or
\* not: one whose recording failed, or whose reader died with it in hand,
\* still counts, because its fence is left behind until an answer asked for
\* after it is recorded (openObservation, endObservation, recordStatus).
HeardUnsavedOutranked ==
    CurrentlySaved => \A t \in Observation : HeardUnsaved(t) => Outranked(t)

\* The unsaved answers on record are an antichain of the executor's history:
\* what one of them covers never lingers (nextUnsavedObservations).
UnsavedIsAntichain ==
    \A m, k \in unsaved : m # k => Unordered(m.status, k.status)

\* Whether the positions order every two answers recorded.
AllOrdered ==
    \A t, u \in Observation :
        phase[t] = "recorded" /\ phase[u] = "recorded" /\ t # u =>
            Precedes(answer[t], answer[u]) \/ Precedes(answer[u], answer[t])

\* What the positions order, they decide: the record is then the latest answer of
\* the executor's own history, and reads saved just when that one does, in
\* whatever order the answers were recorded and whenever they were asked for
\* (capture-evidence-order.ts: statusSupersedes, nextUnsavedObservations).
OrderedRecordIsLatest ==
    AllOrdered =>
        \A t \in Observation :
            /\ phase[t] = "recorded"
            /\ \A u \in Observation :
                  phase[u] = "recorded" => answer[u].observation <= answer[t].observation
            => last = answer[t] /\ (ReadsSaved <=> answer[t].saved)

\* The record cannot be wedged: a saved answer asked for after everything on
\* record was recorded and every other fence lapsed makes it read saved,
\* whatever stamps it and they carry (recordStatus).
LateSavedAnswerSettles ==
    [][\A t \in Observation :
         /\ phase[t] = "heard" /\ phase'[t] = "recorded"
         /\ answer[t].saved
         /\ t \in open
         /\ last = NoAnswer \/ lastAt < openedAt[t]
         /\ \A m \in unsaved : m.at < openedAt[t]
         /\ \A f \in open \ {t} : expiresAt[f] < openedAt[t]
         => CurrentlySaved']_evidenceVars

=============================================================================
