---------------------------- MODULE EvidenceOrder ----------------------------
(***************************************************************************)
(* How the control plane orders the capture answers it receives from one   *)
(* executor (packages/db/src/capture-evidence-order.ts).  An answer        *)
(* carries the position its daemon stamped on it: the lease epoch, the     *)
(* launch, the daemon boot, how many boots opened the disk (0 when that    *)
(* could not be persisted) and an observation number that only grows       *)
(* within the boot.  Positions order answers of one history; where they    *)
(* cannot, only causality does: an answer asked for after another was      *)
(* recorded is the newer one.  Evidence that neither orders fails closed.  *)
(*                                                                         *)
(* The module is constant-level: no state, and no recursion.               *)
(***************************************************************************)
EXTENDS Naturals

CONSTANT NoAnswer   \* the value of "no status on record"

\* When a request was sent, once its fence is gone: unknown.  Clocks start at 1.
NoTime == 0

(***************************************************************************)
(* Positions.  `stamped' is FALSE for a daemon that predates the stamp.    *)
(* `head' is the newest registered capture as a set of at most one number. *)
(* Precedes and SamePosition are compareExecutorOrigins' "before" and       *)
(* "same"; "after" is Precedes the other way round.                        *)
(***************************************************************************)
SameHistory(a, b) ==
    /\ a.stamped /\ b.stamped
    /\ a.epoch = b.epoch
    /\ a.launch = b.launch

BootsOrdered(a, b) ==
    /\ a.boot # b.boot
    /\ a.generation > 0 /\ b.generation > 0
    /\ a.generation # b.generation

HeadsContradict(a, b) == \E h \in a.head, k \in b.head : h # k

Precedes(a, b) ==
    /\ SameHistory(a, b)
    /\ \/ a.boot = b.boot /\ a.observation < b.observation
       \/ BootsOrdered(a, b) /\ a.generation < b.generation

SamePosition(a, b) ==
    /\ SameHistory(a, b)
    /\ a.boot = b.boot
    /\ a.observation = b.observation
    /\ ~HeadsContradict(a, b)

\* compareExecutorOrigins' "incomparable".
Unordered(a, b) == ~Precedes(a, b) /\ ~Precedes(b, a) /\ ~SamePosition(a, b)

(***************************************************************************)
(* Whether a status just received replaces the one on record.              *)
(***************************************************************************)
\* Mutant: what the stamps cannot order never replaces.
StatusSupersedes_NoCausality(stored, incoming, causallyAfter) ==
    \/ stored = NoAnswer
    \/ Precedes(stored, incoming) \/ SamePosition(stored, incoming)
    \/ ~Precedes(incoming, stored) /\ (incoming.saved => stored.saved)

\* Mutant: an answer that is not saved replaces a later one.
StatusSupersedes_Late(stored, incoming, causallyAfter) ==
    \/ stored = NoAnswer
    \/ Precedes(stored, incoming) \/ SamePosition(stored, incoming)
    \/ Unordered(stored, incoming) /\ causallyAfter
    \/ incoming.saved => stored.saved

StatusSupersedes(stored, incoming, causallyAfter) ==
    \/ stored = NoAnswer
    \/ Precedes(stored, incoming) \/ SamePosition(stored, incoming)
    \/ Unordered(stored, incoming) /\ causallyAfter
    \/ /\ ~(Precedes(incoming, stored) /\ ~causallyAfter)
       /\ incoming.saved => stored.saved

(***************************************************************************)
(* Unsaved answers on record: records [status, at], `at' being when each   *)
(* was recorded.                                                           *)
(***************************************************************************)
\* Mutant: an answer asked for in the same instant counts as later.
AskedAfter_SameInstant(askedAt, recordedAt) == askedAt # NoTime /\ recordedAt <= askedAt

AskedAfter(askedAt, recordedAt) == askedAt # NoTime /\ recordedAt < askedAt

AnswerCovers(answer, askedAt, member) ==
    \/ Precedes(member.status, answer) \/ SamePosition(member.status, answer)
    \/ Unordered(member.status, answer) /\ AskedAfter(askedAt, member.at)

\* An answer an earlier recorded one is known to follow changes nothing.
StaleAgainst(incoming, askedAt, known) ==
    \/ SamePosition(incoming, known.status)
    \/ Precedes(incoming, known.status) /\ ~AskedAfter(askedAt, known.at)

\* Mutant: what an answer covers is never dropped.
NextUnsavedObservations_Accumulates(unsaved, stored, storedAt, incoming, askedAt, now) ==
    unsaved \cup {m \in {[status |-> incoming, at |-> now]} : ~incoming.saved}

NextUnsavedObservations(unsaved, stored, storedAt, incoming, askedAt, now) ==
    LET known == unsaved \cup
                 {k \in {[status |-> stored, at |-> storedAt]} : stored # NoAnswer}
        kept  == {m \in unsaved : ~AnswerCovers(incoming, askedAt, m)}
    IN  IF \E k \in known : StaleAgainst(incoming, askedAt, k) THEN unsaved
        ELSE kept \cup {m \in {[status |-> incoming, at |-> now]} : ~incoming.saved}
=============================================================================
