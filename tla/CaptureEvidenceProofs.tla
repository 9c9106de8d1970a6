------------------------ MODULE CaptureEvidenceProofs ------------------------
(***************************************************************************)
(* Proofs about CaptureEvidence, for any observations, fence lifetime and  *)
(* bounds: the record reads saved only of an executor whose every unsaved  *)
(* answer was followed by a saved one.                                     *)
(***************************************************************************)
EXTENDS CaptureEvidence, TLAPS

(***************************************************************************)
(* The inductive invariant, as the conjunction of TypeOK and the parts     *)
(* below.                                                                  *)
(***************************************************************************)
Heard(t)    == answer[t] # NoAnswer
Recorded(t) == phase[t] = "recorded"
Number(t)   == answer[t].observation

\* An observation's phase says whether it has an answer.
PhaseInv ==
    \A t \in Observation :
        /\ phase[t] \in {"new", "asking"} => answer[t] = NoAnswer
        /\ phase[t] \in {"heard", "unrecorded", "recorded"} => Heard(t)

\* Answers are numbered in the executor's own history, boot after boot, and a
\* boot's generation is its own or was not persisted.
HistoryInv ==
    /\ daemon.generation \in {0, daemon.boot}
    /\ \A t \in Observation : Heard(t) =>
          /\ Number(t) <= made
          /\ answer[t].boot <= daemon.boot
          /\ answer[t].generation \in {0, answer[t].boot}
    /\ \A t, u \in Observation :
          /\ Heard(t) /\ Heard(u) /\ t # u => Number(t) # Number(u)
          /\ Heard(t) /\ Heard(u) /\ Number(t) < Number(u) =>
                answer[t].boot <= answer[u].boot

\* The database clock agrees with that history.
TimeInv ==
    /\ \A t \in Observation : Heard(t) =>
          /\ openedAt[t] <= heardAt[t]
          /\ heardAt[t] <= clock
          /\ heardAt[t] <= expiresAt[t]
    /\ \A t, u \in Observation :
          Heard(t) /\ Heard(u) /\ Number(t) < Number(u) => heardAt[t] <= heardAt[u]

\* A request under way has its fence on record, open and not lapsed.
AskingInv ==
    \A t \in Observation : phase[t] = "asking" =>
        t \in open /\ openedAt[t] <= clock /\ clock < expiresAt[t]

\* What is on record was answered, and recorded no earlier than it was heard.
RecordInv ==
    /\ last # NoAnswer =>
          \E t \in Observation : Recorded(t) /\ last = answer[t] /\ heardAt[t] <= lastAt
    /\ \A m \in unsaved :
          \E t \in Observation :
             Recorded(t) /\ m.status = answer[t] /\ heardAt[t] <= m.at

\* Every unsaved answer recorded is outranked, or an unsaved one on record is
\* no earlier than it.
CoverInv ==
    \A t \in Observation : Recorded(t) /\ ~answer[t].saved =>
        \/ Outranked(t)
        \/ \E m \in unsaved : Number(t) <= m.status.observation

\* Every answer received and not recorded still has its fence, or a later
\* answer was recorded.
FenceInv ==
    \A t \in Observation : Heard(t) /\ ~Recorded(t) =>
        \/ t \in open
        \/ \E u \in Observation : Recorded(u) /\ Number(t) < Number(u)

EvidenceInv ==
    /\ TypeOK /\ PhaseInv /\ HistoryInv /\ TimeInv
    /\ AskingInv /\ RecordInv /\ CoverInv /\ FenceInv

-----------------------------------------------------------------------------
(***************************************************************************)
(* What orders two answers puts them in the executor's own order.          *)
(***************************************************************************)

\* An answer received is one (NoAnswer is not).
LEMMA HeardIsAnswer ==
    ASSUME TypeOK, NEW t \in Observation, Heard(t)
    PROVE  answer[t] \in Answer /\ Number(t) \in Nat
BY DEF TypeOK, Heard, Answer, Number

\* compareExecutorOrigins never says "before" against the executor's history.
LEMMA PrecedesIsEarlier ==
    ASSUME TypeOK, HistoryInv, NEW t \in Observation, NEW u \in Observation,
           Heard(t), Heard(u), Precedes(answer[t], answer[u])
    PROVE  Number(t) < Number(u)
<1>1. answer[t] \in Answer /\ answer[u] \in Answer
  BY HeardIsAnswer
<1>2. CASE answer[t].boot = answer[u].boot /\ answer[t].observation < answer[u].observation
  BY <1>2 DEF Number
<1>3. CASE BootsOrdered(answer[t], answer[u]) /\ answer[t].generation < answer[u].generation
  <2>1. answer[t].boot < answer[u].boot
    BY <1>1, <1>3 DEF HistoryInv, BootsOrdered, Answer
  <2>2. t # u /\ Number(t) # Number(u) /\ ~(Number(u) < Number(t))
    BY <1>1, <2>1 DEF HistoryInv, Answer
  <2> QED BY <1>1, <2>2 DEF Answer, Number
<1> QED BY <1>2, <1>3 DEF Precedes

\* Nor "same" of two answers.
LEMMA SamePositionIsSame ==
    ASSUME TypeOK, HistoryInv, NEW t \in Observation, NEW u \in Observation,
           Heard(t), Heard(u), SamePosition(answer[t], answer[u])
    PROVE  t = u
BY DEF HistoryInv, SamePosition, Number

\* An answer asked for after another was heard is the later one.
LEMMA AskedLaterIsLater ==
    ASSUME TypeOK, HistoryInv, TimeInv, NEW t \in Observation, NEW u \in Observation,
           Heard(t), Heard(u), heardAt[t] < openedAt[u]
    PROVE  Number(t) < Number(u)
<1>1. Number(t) \in Nat /\ Number(u) \in Nat
  BY HeardIsAnswer
<1>2. heardAt[t] \in Nat /\ heardAt[u] \in Nat /\ openedAt[u] \in Nat
  BY DEF TypeOK
<1>3. heardAt[t] < heardAt[u]
  BY <1>2 DEF TimeInv
<1>4. t # u /\ ~(Number(u) < Number(t))
  BY <1>2, <1>3 DEF TimeInv
<1> QED BY <1>1, <1>4 DEF HistoryInv

\* What an answer covers is earlier than it.
LEMMA CoveredIsEarlier ==
    ASSUME TypeOK, HistoryInv, TimeInv, RecordInv, NEW u \in Observation,
           phase[u] = "heard", Heard(u), NEW m \in unsaved,
           AnswerCovers(answer[u], AskedAt(u), m)
    PROVE  m.status.observation < Number(u)
<1>1. PICK t \in Observation :
         Recorded(t) /\ m.status = answer[t] /\ heardAt[t] <= m.at
  BY DEF RecordInv
<1>2. m.at \in Nat /\ m.status \in Answer
  BY DEF TypeOK
<1>3. Heard(t) /\ t # u
  BY <1>1, <1>2, NoAnswerAssumption DEF Heard, Recorded
<1>4. CASE Precedes(m.status, answer[u])
  BY <1>1, <1>3, <1>4, PrecedesIsEarlier DEF Number
<1>5. CASE SamePosition(m.status, answer[u])
  BY <1>1, <1>3, <1>5, SamePositionIsSame
<1>6. CASE AskedAfter(AskedAt(u), m.at)
  <2>1. m.at < openedAt[u]
    BY <1>6 DEF AskedAfter, AskedAt
  <2>2. heardAt[t] \in Nat /\ openedAt[u] \in Nat
    BY DEF TypeOK
  <2>3. heardAt[t] < openedAt[u]
    BY <1>1, <1>2, <2>1, <2>2
  <2> QED BY <1>1, <1>3, <2>3, AskedLaterIsLater DEF Number
<1> QED BY <1>4, <1>5, <1>6 DEF AnswerCovers

-----------------------------------------------------------------------------
(***************************************************************************)
(* The invariant holds initially and every step keeps it.                  *)
(***************************************************************************)
\* Before anything is asked, everything is empty.
LEMMA InitInv == Init => EvidenceInv
<1> SUFFICES ASSUME Init PROVE EvidenceInv
  OBVIOUS
<1> USE DEF Init
<1>1. TypeOK
  BY DEF TypeOK, Daemon, Phase
<1>2. PhaseInv
  BY DEF PhaseInv
<1>3. HistoryInv /\ TimeInv
  BY DEF HistoryInv, TimeInv, Heard
<1>4. AskingInv /\ RecordInv
  BY DEF AskingInv, RecordInv
<1>5. CoverInv /\ FenceInv
  BY DEF CoverInv, FenceInv, Recorded, Heard
<1> QED BY <1>1, <1>2, <1>3, <1>4, <1>5 DEF EvidenceInv

\* A fence opened before its request keeps the invariant.
LEMMA OpenKeepsInv ==
    ASSUME EvidenceInv, NEW t \in Observation, OpenObservation(t)
    PROVE  EvidenceInv'
<1> USE EvidenceAssumption DEF EvidenceInv, OpenObservation, executor, statuses
<1>1. TypeOK'
  BY DEF TypeOK, Phase
<1>2. answer[t] = NoAnswer
  BY DEF PhaseInv
<1>3. PhaseInv'
  BY <1>2 DEF TypeOK, PhaseInv, Heard
<1>4. HistoryInv'
  BY DEF HistoryInv, Heard, Number
<1>5. TimeInv'
  BY <1>2 DEF TypeOK, TimeInv, Heard, Number
<1>6. AskingInv'
  BY DEF TypeOK, AskingInv
<1>7. \A u \in Observation : Recorded(u)' <=> Recorded(u)
  BY DEF TypeOK, Recorded
<1>8. RecordInv'
  BY <1>7 DEF RecordInv
<1>9. CoverInv'
  BY <1>7 DEF CoverInv, Outranked, Recorded, Number
<1>10. FenceInv'
  BY <1>2, <1>7 DEF FenceInv, Heard, Number
<1> QED BY <1>1, <1>3, <1>4, <1>5, <1>6, <1>8, <1>9, <1>10

\* A fence may go when its request received nothing.
LEMMA CloseKeepsInv ==
    ASSUME EvidenceInv, NEW t \in Observation, CloseObservation(t)
    PROVE  EvidenceInv'
<1> USE DEF EvidenceInv, CloseObservation, executor, statuses
<1>1. TypeOK'
  BY DEF TypeOK, Phase
<1>2. answer[t] = NoAnswer
  BY DEF PhaseInv
<1>3. PhaseInv'
  BY DEF TypeOK, PhaseInv, Heard
<1>4. HistoryInv' /\ TimeInv'
  BY DEF HistoryInv, TimeInv, Heard, Number
<1>5. AskingInv'
  BY DEF TypeOK, AskingInv
<1>6. \A u \in Observation : Recorded(u)' <=> Recorded(u)
  BY DEF TypeOK, Recorded
<1>7. RecordInv'
  BY <1>6 DEF RecordInv
<1>8. CoverInv'
  BY <1>6 DEF CoverInv, Outranked, Recorded, Number
<1>9. FenceInv'
  BY <1>2, <1>6 DEF FenceInv, Heard, Number
<1> QED BY <1>1, <1>3, <1>4, <1>5, <1>7, <1>8, <1>9

\* An answer received is the executor's latest, heard while its fence is open.
LEMMA HearKeepsInv ==
    ASSUME EvidenceInv, NEW t \in Observation, HearAnswer(t)
    PROVE  EvidenceInv'
<1> USE DEF EvidenceInv, executor, fences, statuses
<1>1. PICK saved \in BOOLEAN : answer' = [answer EXCEPT ![t] = NextAnswer(saved)]
  BY DEF HearAnswer
<1>2. NextAnswer(saved) \in Answer
  BY DEF TypeOK, NextAnswer, Answer, Daemon, Launch
<1>3. NextAnswer(saved) # NoAnswer
  BY <1>2, NoAnswerAssumption
<1>4. TypeOK'
  BY <1>1, <1>2 DEF TypeOK, HearAnswer, Phase
<1>5. answer[t] = NoAnswer /\ Heard(t)' /\ answer'[t] = NextAnswer(saved)
  BY <1>1, <1>3 DEF PhaseInv, HearAnswer, TypeOK, Heard
<1>6. \A u \in Observation \ {t} :
         /\ answer'[u] = answer[u] /\ phase'[u] = phase[u]
         /\ heardAt'[u] = heardAt[u]
         /\ Heard(u)' <=> Heard(u)
         /\ Number(u)' = Number(u)
  BY <1>1 DEF TypeOK, HearAnswer, Heard, Number
<1>7. Number(t)' = made + 1 /\ made' = made + 1 /\ heardAt'[t] = clock /\ phase'[t] = "heard"
  BY <1>5 DEF Number, NextAnswer, HearAnswer, TypeOK
<1>8. \A u \in Observation \ {t} : Heard(u) =>
         /\ Number(u) \in Nat /\ Number(u) <= made
         /\ answer[u].boot \in Nat /\ answer[u].boot <= daemon.boot
         /\ heardAt[u] \in Nat /\ heardAt[u] <= clock
  BY HeardIsAnswer DEF HistoryInv, TimeInv, Answer, TypeOK
<1>9. made \in Nat /\ clock \in Nat /\ daemon.boot \in Nat
  BY DEF TypeOK, Daemon
<1>10. PhaseInv'
  BY <1>5, <1>6, <1>7 DEF PhaseInv
<1>11. HistoryInv'
  <2>1. answer'[t].boot = daemon.boot /\ answer'[t].generation = daemon.generation
    BY <1>5 DEF NextAnswer
  <2>2. daemon' = daemon
    BY DEF HearAnswer
  <2>3. daemon'.generation \in {0, daemon'.boot}
    BY <2>2 DEF HistoryInv
  <2>4. \A u \in Observation : Heard(u)' =>
           /\ Number(u)' <= made'
           /\ answer'[u].boot <= daemon'.boot
           /\ answer'[u].generation \in {0, answer'[u].boot}
    BY <1>6, <1>7, <1>8, <1>9, <2>1, <2>2, <2>3 DEF HistoryInv
  <2>5. ASSUME NEW u \in Observation, NEW v \in Observation, Heard(u)', Heard(v)'
        PROVE  /\ u # v => Number(u)' # Number(v)'
               /\ Number(u)' < Number(v)' => answer'[u].boot <= answer'[v].boot
    <3>1. CASE u # t /\ v # t
      BY <1>6, <2>5, <3>1 DEF HistoryInv
    <3>2. CASE u = t /\ v # t
      BY <1>6, <1>7, <1>8, <1>9, <2>5, <3>2
    <3>3. CASE u # t /\ v = t
      BY <1>6, <1>7, <1>8, <1>9, <2>1, <2>5, <3>3
    <3>4. CASE u = t /\ v = t
      BY <1>7, <1>9, <3>4
    <3> QED BY <3>1, <3>2, <3>3, <3>4
  <2> QED BY <2>3, <2>4, <2>5 DEF HistoryInv
<1>12. TimeInv'
  <2>1. openedAt' = openedAt /\ expiresAt' = expiresAt /\ clock' = clock
    BY DEF HearAnswer
  <2>2. openedAt[t] <= clock /\ clock <= expiresAt[t]
    BY <1>9 DEF AskingInv, HearAnswer, TypeOK
  <2>3. ASSUME NEW u \in Observation, NEW v \in Observation, Heard(u)', Heard(v)',
               Number(u)' < Number(v)'
        PROVE  heardAt'[u] <= heardAt'[v]
    <3>1. CASE u # t /\ v # t
      BY <1>6, <2>3, <3>1 DEF TimeInv
    <3>2. CASE u = t /\ v # t
      BY <1>6, <1>7, <1>8, <1>9, <2>3, <3>2
    <3>3. CASE v = t
      BY <1>6, <1>7, <1>8, <1>9, <2>3, <3>3
    <3> QED BY <3>1, <3>2, <3>3
  <2> QED BY <1>6, <1>7, <1>9, <2>1, <2>2, <2>3 DEF TimeInv
<1>13. AskingInv'
  BY <1>6, <1>7 DEF AskingInv, HearAnswer
<1>14. RecordInv'
  BY <1>6 DEF RecordInv, HearAnswer, Recorded
<1>15. \A u \in Observation : Outranked(u) /\ u # t => Outranked(u)'
  BY <1>6 DEF Outranked, Number, HearAnswer
<1>16. CoverInv'
  BY <1>6, <1>7, <1>15 DEF CoverInv, HearAnswer, Recorded
<1>17. FenceInv'
  BY <1>6, <1>7 DEF FenceInv, HearAnswer, Recorded, AskingInv
<1> QED BY <1>4, <1>10, <1>11, <1>12, <1>13, <1>14, <1>16, <1>17

\* What recordStatus leaves of the unsaved answers: it invents none.
LEMMA UnsavedComesFrom ==
    ASSUME NEW U, NEW stored, NEW storedAt, NEW incoming, NEW askedAt, NEW now,
           NEW m \in NextUnsavedObservations(U, stored, storedAt, incoming, askedAt, now)
    PROVE  m \in U \/ (m = [status |-> incoming, at |-> now] /\ ~incoming.saved)
BY DEF NextUnsavedObservations

\* It loses none but what the incoming answer covers, and keeps the incoming
\* answer if unsaved, unless one on record already follows it.
LEMMA UnsavedGoesTo ==
    ASSUME NEW U, NEW stored, NEW storedAt, NEW incoming, NEW askedAt, NEW now,
           \A k \in U : ~StaleAgainst(incoming, askedAt, k),
           stored # NoAnswer =>
              ~StaleAgainst(incoming, askedAt, [status |-> stored, at |-> storedAt])
    PROVE  LET V == NextUnsavedObservations(U, stored, storedAt, incoming, askedAt, now)
           IN  /\ \A m \in U : m \in V \/ AnswerCovers(incoming, askedAt, m)
               /\ ~incoming.saved => [status |-> incoming, at |-> now] \in V
BY DEF NextUnsavedObservations

\* An answer that one on record follows leaves the unsaved answers alone.
LEMMA UnsavedStaleStays ==
    ASSUME NEW U, NEW stored, NEW storedAt, NEW incoming, NEW askedAt, NEW now,
           \/ \E k \in U : StaleAgainst(incoming, askedAt, k)
           \/ /\ stored # NoAnswer
              /\ StaleAgainst(incoming, askedAt, [status |-> stored, at |-> storedAt])
    PROVE  NextUnsavedObservations(U, stored, storedAt, incoming, askedAt, now) = U
BY DEF NextUnsavedObservations

\* Recording an answer keeps the invariant: what it covers is earlier than it,
\* and the fences it resolves are of answers heard before it was asked.
LEMMA RecordKeepsInv ==
    ASSUME EvidenceInv, NEW t \in Observation, RecordStatus(t)
    PROVE  EvidenceInv'
<1> USE DEF EvidenceInv, executor
<1>1. PICK now \in heardAt[t]..clock :
         /\ unsaved' = NextUnsavedObservations(unsaved, last, lastAt,
                                               answer[t], AskedAt(t), now)
         /\ \/ last' = answer[t] /\ lastAt' = now
            \/ last' = last /\ lastAt' = lastAt
  BY DEF RecordStatus
<1>2. now \in Nat /\ heardAt[t] <= now
  BY <1>1 DEF TypeOK
<1>3. phase[t] = "heard" /\ Heard(t) /\ answer[t] \in Answer
  BY HeardIsAnswer DEF RecordStatus, PhaseInv
<1>4. phase' = [phase EXCEPT ![t] = "recorded"] /\ answer' = answer /\ heardAt' = heardAt
      /\ clock' = clock /\ daemon' = daemon /\ made' = made
      /\ openedAt' = openedAt /\ expiresAt' = expiresAt /\ open' = FencesLeft(t)
  BY DEF RecordStatus
<1>5. \A u \in Observation : /\ Recorded(u) => Recorded(u)'
                             /\ Recorded(u)' <=> Recorded(u) \/ u = t
                             /\ u # t => phase'[u] = phase[u]
                             /\ Heard(u)' <=> Heard(u)
                             /\ Number(u)' = Number(u)
  BY <1>4 DEF TypeOK, Recorded, Heard, Number
<1>6. TypeOK'
  <2>1. unsaved' \in SUBSET [status : Answer, at : Nat]
    BY <1>1, <1>2, <1>3, UnsavedComesFrom DEF TypeOK
  <2>2. last' \in Answer \cup {NoAnswer} /\ lastAt' \in Nat
    BY <1>1, <1>2, <1>3 DEF TypeOK
  <2>3. open' \in SUBSET Observation
    BY <1>4 DEF TypeOK, FencesLeft
  <2> QED BY <1>4, <2>1, <2>2, <2>3 DEF TypeOK, Phase
<1>7. PhaseInv'
  BY <1>3, <1>4, <1>5 DEF PhaseInv, Heard
<1>8. HistoryInv' /\ TimeInv'
  BY <1>4, <1>5 DEF HistoryInv, TimeInv
<1>9. AskingInv'
  <2>1. ASSUME NEW u \in Observation, phase'[u] = "asking" PROVE u \in open'
    <3>1. u # t /\ phase[u] = "asking"
      BY <1>3, <1>4, <2>1 DEF TypeOK
    <3>2. u \in open /\ clock < expiresAt[u]
      BY <3>1 DEF AskingInv
    <3>3. openedAt[t] <= clock
      BY <1>3 DEF TimeInv, TypeOK
    <3>4. expiresAt[u] >= openedAt[t]
      BY <3>2, <3>3 DEF TypeOK
    <3> QED BY <1>4, <3>1, <3>2, <3>4 DEF FencesLeft
  <2> QED BY <1>3, <1>4, <1>5, <2>1 DEF AskingInv, TypeOK
<1>10. RecordInv'
  <2>1. last' # NoAnswer =>
           \E u \in Observation : Recorded(u)' /\ last' = answer'[u] /\ heardAt'[u] <= lastAt'
    BY <1>1, <1>2, <1>4, <1>5 DEF RecordInv
  <2>2. ASSUME NEW m \in unsaved'
        PROVE  \E u \in Observation :
                  Recorded(u)' /\ m.status = answer'[u] /\ heardAt'[u] <= m.at
    <3>1. CASE m \in unsaved
      BY <1>4, <1>5, <3>1 DEF RecordInv
    <3>2. CASE m = [status |-> answer[t], at |-> now]
      BY <1>2, <1>4, <1>5, <3>2
    <3> QED BY <1>1, <2>2, <3>1, <3>2, UnsavedComesFrom
  <2> QED BY <2>1, <2>2 DEF RecordInv
<1>11. \A u \in Observation : Outranked(u) => Outranked(u)'
  BY <1>4, <1>5 DEF Outranked, Recorded
<1>12. ASSUME NEW u \in Observation, Recorded(u), Number(t) < Number(u), ~answer[t].saved
       PROVE  Outranked(t) \/ \E m \in unsaved : Number(t) <= m.status.observation
  <2>1. Heard(u) /\ Number(t) \in Nat /\ Number(u) \in Nat
    BY <1>3, <1>12, HeardIsAnswer DEF PhaseInv, Recorded
  <2>2. CASE answer[u].saved
    BY <1>12, <2>2 DEF Outranked, Recorded, Number
  <2>3. CASE ~answer[u].saved /\ Outranked(u)
    <3>1. PICK v \in Observation : phase[v] = "recorded" /\ answer[v].saved
                                   /\ Number(u) < Number(v)
      BY <2>3 DEF Outranked, Number
    <3>2. Number(v) \in Nat
      BY <3>1, HeardIsAnswer DEF PhaseInv
    <3>3. Number(t) < Number(v)
      BY <1>12, <2>1, <3>1, <3>2
    <3> QED BY <3>1, <3>3 DEF Outranked, Number
  <2>4. CASE ~answer[u].saved /\ ~Outranked(u)
    <3>1. PICK m \in unsaved : Number(u) <= m.status.observation
      BY <1>12, <2>4 DEF CoverInv
    <3>2. m.status.observation \in Nat
      BY DEF TypeOK, Answer
    <3> QED BY <1>12, <2>1, <3>1, <3>2
  <2> QED BY <2>2, <2>3, <2>4
<1> DEFINE Entry == [status |-> answer[t], at |-> now]
           Stored == [status |-> last, at |-> lastAt]
           Stale == \/ \E k \in unsaved : StaleAgainst(answer[t], AskedAt(t), k)
                    \/ last # NoAnswer /\ StaleAgainst(answer[t], AskedAt(t), Stored)
<1>13. ASSUME Stale PROVE CoverInv'
  <2>1. unsaved' = unsaved
    BY <1>1, <1>13, UnsavedStaleStays
  <2>2. PICK u \in Observation : /\ Recorded(u)
                                 /\ \/ SamePosition(answer[t], answer[u])
                                    \/ Precedes(answer[t], answer[u])
    <3>1. CASE \E k \in unsaved : StaleAgainst(answer[t], AskedAt(t), k)
      BY <3>1 DEF StaleAgainst, RecordInv
    <3>2. CASE last # NoAnswer /\ StaleAgainst(answer[t], AskedAt(t), Stored)
      BY <3>2 DEF StaleAgainst, RecordInv
    <3> QED BY <1>13, <3>1, <3>2
  <2>3. Heard(u) /\ u # t
    BY <1>3, <2>2 DEF PhaseInv, Recorded
  <2>4. Number(t) < Number(u)
    BY <1>3, <2>2, <2>3, SamePositionIsSame, PrecedesIsEarlier
  <2>5. ASSUME NEW v \in Observation, Recorded(v)', ~answer'[v].saved
        PROVE  Outranked(v)' \/ \E m \in unsaved' : Number(v)' <= m.status.observation
    <3>1. CASE v = t
      BY <1>4, <1>5, <1>11, <1>12, <2>1, <2>2, <2>4, <2>5, <3>1
    <3>2. CASE v # t
      BY <1>4, <1>5, <1>11, <2>1, <2>5, <3>2 DEF CoverInv
    <3> QED BY <3>1, <3>2
  <2> QED BY <2>5 DEF CoverInv
<1>14. ASSUME ~Stale PROVE CoverInv'
  <2>1. /\ \A m \in unsaved : m \in unsaved' \/ AnswerCovers(answer[t], AskedAt(t), m)
        /\ ~answer[t].saved => Entry \in unsaved'
    BY <1>1, <1>14, UnsavedGoesTo
  <2>2. ASSUME NEW v \in Observation, Recorded(v)', ~answer'[v].saved
        PROVE  Outranked(v)' \/ \E m \in unsaved' : Number(v)' <= m.status.observation
    <3>1. CASE v = t
      <4>1. Entry \in unsaved' /\ Entry.status.observation = Number(t) /\ Number(t) \in Nat
        BY <1>3, <1>4, <2>1, <2>2, <3>1, HeardIsAnswer DEF Number
      <4> QED BY <1>5, <3>1, <4>1
    <3>2. CASE v # t /\ Outranked(v)
      BY <1>11, <3>2
    <3>3. CASE v # t /\ ~Outranked(v)
      <4>1. Recorded(v) /\ ~answer[v].saved
        BY <1>4, <1>5, <2>2, <3>3
      <4>2. PICK m \in unsaved : Number(v) <= m.status.observation
        BY <3>3, <4>1 DEF CoverInv
      <4>3. CASE m \in unsaved'
        BY <1>5, <4>2, <4>3
      <4>4. CASE AnswerCovers(answer[t], AskedAt(t), m)
        <5>1. m.status.observation < Number(t)
          BY <1>3, <4>4, CoveredIsEarlier
        <5>2. Number(v) \in Nat /\ Number(t) \in Nat /\ m.status.observation \in Nat
          BY <1>3, <4>1, HeardIsAnswer DEF PhaseInv, Recorded, TypeOK, Answer
        <5>3. Number(v) < Number(t)
          BY <4>2, <5>1, <5>2
        <5>4. CASE answer[t].saved
          BY <1>4, <1>5, <5>3, <5>4 DEF Outranked, Recorded, Number
        <5>5. CASE ~answer[t].saved
          <6>1. Entry \in unsaved' /\ Entry.status.observation = Number(t)
            BY <2>1, <5>5 DEF Number
          <6> QED BY <1>5, <5>2, <5>3, <6>1
        <5> QED BY <5>4, <5>5
      <4> QED BY <2>1, <4>3, <4>4
    <3> QED BY <3>1, <3>2, <3>3
  <2> QED BY <2>2 DEF CoverInv
<1>15. CoverInv'
  BY <1>13, <1>14
<1>16. FenceInv'
  <2>1. ASSUME NEW u \in Observation, Heard(u)', ~Recorded(u)'
        PROVE  \/ u \in open'
               \/ \E v \in Observation : Recorded(v)' /\ Number(u)' < Number(v)'
    <3>1. u # t /\ Heard(u) /\ ~Recorded(u)
      BY <1>5, <2>1
    <3>2. CASE \E v \in Observation : Recorded(v) /\ Number(u) < Number(v)
      BY <1>5, <3>2
    <3>3. CASE u \in open /\ u \in FencesLeft(t)
      BY <1>4, <3>3
    <3>4. CASE u \in open /\ u \notin FencesLeft(t)
      <4>1. ~(expiresAt[u] >= openedAt[t])
        BY <3>1, <3>4 DEF FencesLeft, AskedAt
      <4>2. heardAt[u] < openedAt[t]
        BY <3>1, <4>1 DEF TimeInv, TypeOK
      <4>3. Number(u) < Number(t)
        BY <1>3, <3>1, <4>2, AskedLaterIsLater
      <4> QED BY <1>5, <4>3
    <3> QED BY <3>1, <3>2, <3>3, <3>4 DEF FenceInv
  <2> QED BY <2>1 DEF FenceInv
<1> QED BY <1>6, <1>7, <1>8, <1>9, <1>10, <1>15, <1>16

\* A step that only moves an observation's process on, with its fence's end
\* brought forward no earlier than its answer, keeps the invariant.
LEMMA QuietKeepsInv ==
    ASSUME EvidenceInv, NEW t \in Observation, NEW p \in {"unrecorded", "over"},
           phase[t] \in {"asking", "heard", "unrecorded"},
           p = "unrecorded" => phase[t] = "heard",
           phase' = [phase EXCEPT ![t] = p],
           expiresAt' \in [Observation -> Nat],
           \A u \in Observation \ {t} : expiresAt'[u] = expiresAt[u],
           Heard(t) => heardAt[t] <= expiresAt'[t],
           UNCHANGED <<clock, executor, answer, heardAt, open, openedAt, statuses>>
    PROVE  EvidenceInv'
<1> USE DEF EvidenceInv, executor, statuses
<1>1. TypeOK'
  BY DEF TypeOK, Phase
<1>2. PhaseInv'
  BY DEF TypeOK, PhaseInv, Heard
<1>3. HistoryInv'
  BY DEF HistoryInv, Heard, Number
<1>4. TimeInv'
  BY DEF TimeInv, Heard, Number
<1>5. AskingInv'
  BY DEF TypeOK, AskingInv
<1>6. \A u \in Observation : Recorded(u)' <=> Recorded(u)
  BY DEF TypeOK, Recorded
<1>7. RecordInv'
  BY <1>6 DEF RecordInv
<1>8. CoverInv'
  BY <1>6 DEF CoverInv, Outranked, Recorded, Number
<1>9. FenceInv'
  BY <1>6 DEF FenceInv, Heard, Number
<1> QED BY <1>1, <1>2, <1>3, <1>4, <1>5, <1>7, <1>8, <1>9

\* An answer that could not be recorded keeps its fence, lapsed no earlier than
\* it was heard.
LEMMA EndKeepsInv ==
    ASSUME EvidenceInv, NEW t \in Observation, EndObservation(t)
    PROVE  EvidenceInv'
<1>1. CASE expiresAt' = expiresAt
  BY <1>1, QuietKeepsInv DEF EndObservation, EvidenceInv, TypeOK, TimeInv
<1>2. CASE \E at \in heardAt[t]..clock :
              expiresAt' = [expiresAt EXCEPT ![t] = IF at < @ THEN at ELSE @]
  <2>1. PICK at \in heardAt[t]..clock :
           expiresAt' = [expiresAt EXCEPT ![t] = IF at < @ THEN at ELSE @]
    BY <1>2
  <2>2. at \in Nat /\ heardAt[t] <= at
    BY <2>1 DEF EvidenceInv, TypeOK
  <2>3. expiresAt' \in [Observation -> Nat]
        /\ \A u \in Observation \ {t} : expiresAt'[u] = expiresAt[u]
    BY <2>1, <2>2 DEF EvidenceInv, TypeOK
  <2>4. Heard(t) => heardAt[t] <= expiresAt'[t]
    BY <2>1, <2>2 DEF EvidenceInv, TypeOK, TimeInv
  <2> QED BY <2>3, <2>4, QuietKeepsInv DEF EndObservation
<1> QED BY <1>1, <1>2 DEF EndObservation

\* A process that dies, or cannot record, leaves its fence behind.
LEMMA FailKeepsInv ==
    ASSUME EvidenceInv, NEW t \in Observation, RecordFails(t) \/ AbandonObservation(t)
    PROVE  EvidenceInv'
<1>1. expiresAt' = expiresAt
      /\ UNCHANGED <<clock, executor, answer, heardAt, open, openedAt, statuses>>
  BY DEF RecordFails, AbandonObservation, fences
<1>2. expiresAt' \in [Observation -> Nat] /\ (Heard(t) => heardAt[t] <= expiresAt'[t])
  BY <1>1 DEF EvidenceInv, TypeOK, TimeInv
<1>3. CASE RecordFails(t)
  BY <1>1, <1>2, <1>3, QuietKeepsInv DEF RecordFails
<1>4. CASE AbandonObservation(t)
  BY <1>1, <1>2, <1>4, QuietKeepsInv DEF AbandonObservation
<1> QED BY <1>3, <1>4

\* A later boot's answers are ordered after the earlier boots'.
LEMMA RebootKeepsInv ==
    ASSUME EvidenceInv, Reboot
    PROVE  EvidenceInv'
<1> USE DEF EvidenceInv, fences, statuses
<1>1. UNCHANGED <<clock, made, phase, answer, heardAt, open, openedAt, expiresAt,
                  last, lastAt, unsaved>>
  BY DEF Reboot
<1>2. daemon' \in Daemon /\ daemon'.boot = daemon.boot + 1
      /\ daemon'.generation \in {0, daemon'.boot}
  <2>1. PICK g \in {0, daemon.boot + 1}, e \in {daemon.epoch, daemon.epoch + 1} :
           daemon' = [daemon EXCEPT !.boot = daemon.boot + 1, !.generation = g, !.epoch = e]
    BY DEF Reboot
  <2>2. daemon \in Daemon /\ daemon.boot \in Nat /\ daemon.epoch \in Nat
    BY DEF TypeOK, Daemon
  <2>3. g \in Nat /\ e \in Nat /\ daemon.boot + 1 \in Nat
    BY <2>1, <2>2
  <2>4. daemon' = [boot |-> daemon.boot + 1, generation |-> g, epoch |-> e,
                   stamps |-> daemon.stamps]
    BY <2>1, <2>2 DEF Daemon
  <2> QED BY <2>1, <2>2, <2>3, <2>4 DEF Daemon
<1>3. TypeOK'
  BY <1>1, <1>2 DEF TypeOK
<1>4. daemon.boot \in Nat
  BY DEF TypeOK, Daemon
<1>5. HistoryInv'
  <2>1. \A t \in Observation : Heard(t)' => answer'[t].boot <= daemon'.boot
    BY <1>1, <1>2, <1>4, HeardIsAnswer DEF HistoryInv, Heard, Answer
  <2> QED BY <1>1, <1>2, <2>1 DEF HistoryInv, Heard, Number
<1>6. PhaseInv' /\ TimeInv' /\ AskingInv'
  BY <1>1 DEF PhaseInv, TimeInv, AskingInv, Heard, Number
<1>7. RecordInv' /\ CoverInv' /\ FenceInv'
  BY <1>1 DEF RecordInv, CoverInv, FenceInv, Outranked, Recorded, Heard, Number
<1> QED BY <1>3, <1>5, <1>6, <1>7

\* Time passes no request's fence.
LEMMA TickKeepsInv ==
    ASSUME EvidenceInv, Tick
    PROVE  EvidenceInv'
<1> USE DEF EvidenceInv, Tick, executor, fences, statuses
<1>1. TypeOK'
  BY DEF TypeOK
<1>2. PhaseInv' /\ HistoryInv'
  BY DEF PhaseInv, HistoryInv, Heard, Number
<1>3. TimeInv'
  BY DEF TypeOK, TimeInv, Heard, Number
<1>4. AskingInv'
  BY DEF TypeOK, AskingInv
<1>5. RecordInv' /\ CoverInv' /\ FenceInv'
  BY DEF RecordInv, CoverInv, FenceInv, Outranked, Recorded, Heard, Number
<1> QED BY <1>1, <1>2, <1>3, <1>4, <1>5

\* Every step keeps the invariant.
LEMMA StepKeepsInv == EvidenceInv /\ [Next]_evidenceVars => EvidenceInv'
<1> SUFFICES ASSUME EvidenceInv, [Next]_evidenceVars PROVE EvidenceInv'
  OBVIOUS
<1>1. CASE Tick
  BY <1>1, TickKeepsInv
<1>2. CASE Reboot
  BY <1>2, RebootKeepsInv
<1>3. ASSUME NEW t \in Observation, ObservationStep(t) PROVE EvidenceInv'
  BY <1>3, OpenKeepsInv, HearKeepsInv, CloseKeepsInv, RecordKeepsInv, FailKeepsInv,
     EndKeepsInv DEF ObservationStep
<1>4. CASE UNCHANGED evidenceVars
  BY <1>4 DEF evidenceVars, executor, fences, statuses, EvidenceInv, TypeOK, PhaseInv,
     HistoryInv, TimeInv, AskingInv, RecordInv, CoverInv, FenceInv, Outranked,
     Recorded, Heard, Number
<1> QED BY <1>1, <1>2, <1>3, <1>4 DEF Next

-----------------------------------------------------------------------------
(***************************************************************************)
(* The theorems.                                                           *)
(***************************************************************************)

\* The strengthening is an invariant: the record, the fences and the clock
\* always agree with the executor's own history.
THEOREM EvidenceInvariant == Spec => []EvidenceInv
BY InitInv, StepKeepsInv, PTL DEF Spec

\* Every column and every process keeps its type.
THEOREM EvidenceTypeOK == Spec => []TypeOK
<1>1. EvidenceInv => TypeOK
  BY DEF EvidenceInv
<1> QED BY <1>1, EvidenceInvariant, PTL

\* The record reads saved only once every unsaved answer recorded is followed,
\* in the executor's history, by a recorded saved one (statusSupersedes,
\* nextUnsavedObservations).
THEOREM RecordedUnsavedIsOutranked == Spec => []RecordedUnsavedOutranked
<1>1. EvidenceInv => RecordedUnsavedOutranked
  BY DEF EvidenceInv, RecordedUnsavedOutranked, ReadsSaved, CoverInv, Recorded, HeardUnsaved
<1> QED BY <1>1, EvidenceInvariant, PTL

\* Under the invariant, with nothing in flight, a record that reads saved
\* outranks every unsaved answer received: one recorded, directly; one not, through
\* the later answer that resolved its fence.
LEMMA EvidenceInvIsSafe == EvidenceInv => HeardUnsavedOutranked
<1>1. ASSUME EvidenceInv, CurrentlySaved, NEW t \in Observation, HeardUnsaved(t)
      PROVE  Outranked(t)
  <2>1. \A u \in Observation : Recorded(u) /\ ~answer[u].saved => Outranked(u)
    BY <1>1 DEF EvidenceInv, CoverInv, CurrentlySaved, ReadsSaved
  <2>2. CASE Recorded(t)
    BY <1>1, <2>1, <2>2 DEF HeardUnsaved
  <2>3. CASE ~Recorded(t)
    <3>1. Heard(t)
      BY <1>1 DEF HeardUnsaved, Heard
    <3>2. PICK u \in Observation : Recorded(u) /\ Number(t) < Number(u)
      BY <1>1, <2>3, <3>1 DEF EvidenceInv, FenceInv, CurrentlySaved
    <3>3. CASE answer[u].saved
      BY <3>2, <3>3 DEF Outranked, Recorded, Number
    <3>4. CASE ~answer[u].saved
      <4>1. PICK v \in Observation : phase[v] = "recorded" /\ answer[v].saved
                                     /\ Number(u) < Number(v)
        BY <2>1, <3>2, <3>4 DEF Outranked, Number
      <4>2. Number(t) \in Nat /\ Number(u) \in Nat /\ Number(v) \in Nat
        BY <1>1, <3>1, <3>2, <4>1, HeardIsAnswer DEF EvidenceInv, PhaseInv, Recorded
      <4>3. Number(t) < Number(v)
        BY <3>2, <4>1, <4>2
      <4> QED BY <4>1, <4>3 DEF Outranked, Number
    <3> QED BY <3>3, <3>4
  <2> QED BY <2>2, <2>3
<1> QED BY <1>1 DEF HeardUnsavedOutranked

\* With nothing in flight, so is every unsaved answer anyone RECEIVED, whether
\* or not it could be recorded (openObservation, endObservation, recordStatus).
THEOREM HeardUnsavedIsOutranked == Spec => []HeardUnsavedOutranked
BY EvidenceInvIsSafe, EvidenceInvariant, PTL

-----------------------------------------------------------------------------
(***************************************************************************)
(* What is kept of the unsaved answers, and when the record settles.       *)
(***************************************************************************)

\* Which of two answers is named first makes no difference.
LEMMA UnorderedBothWays ==
    ASSUME NEW a, NEW b, Unordered(a, b)
    PROVE  Unordered(b, a)
BY DEF Unordered, SamePosition, SameHistory, HeadsContradict

\* An answer in hand is at no position on record, and follows what was
\* recorded before it was asked.
LEMMA InHandFollows ==
    ASSUME EvidenceInv, NEW t \in Observation, phase[t] = "heard",
           NEW u \in Observation, Recorded(u), NEW at \in Nat, heardAt[u] <= at
    PROVE  /\ ~SamePosition(answer[u], answer[t]) /\ ~SamePosition(answer[t], answer[u])
           /\ AskedAfter(AskedAt(t), at) => ~Precedes(answer[t], answer[u])
<1> USE DEF EvidenceInv
<1>1. Heard(t) /\ Heard(u) /\ t # u
  BY DEF PhaseInv, Recorded
<1>2. ASSUME AskedAfter(AskedAt(t), at), Precedes(answer[t], answer[u])
      PROVE  FALSE
  <2>1. at < openedAt[t]
    BY <1>2 DEF AskedAfter, AskedAt
  <2>2. heardAt[u] \in Nat /\ openedAt[t] \in Nat
    BY DEF TypeOK
  <2>3. heardAt[u] < openedAt[t]
    BY <2>1, <2>2
  <2>4. Number(u) < Number(t)
    BY <1>1, <2>3, AskedLaterIsLater
  <2>5. Number(t) < Number(u)
    BY <1>1, <1>2, PrecedesIsEarlier
  <2>6. Number(t) \in Nat /\ Number(u) \in Nat
    BY <1>1, HeardIsAnswer
  <2> QED BY <2>4, <2>5, <2>6
<1> QED BY <1>1, <1>2, SamePositionIsSame

\* An unsaved answer a recorded one neither covers nor is stale against cannot
\* be ordered with it.
LEMMA KeptIsUnordered ==
    ASSUME EvidenceInv, NEW t \in Observation, phase[t] = "heard",
           NEW m \in unsaved,
           ~AnswerCovers(answer[t], AskedAt(t), m),
           ~StaleAgainst(answer[t], AskedAt(t), m)
    PROVE  Unordered(m.status, answer[t])
<1>1. PICK u \in Observation :
         Recorded(u) /\ m.status = answer[u] /\ heardAt[u] <= m.at
  BY DEF EvidenceInv, RecordInv
<1>2. m.at \in Nat
  BY DEF EvidenceInv, TypeOK
<1>3. /\ ~SamePosition(m.status, answer[t])
      /\ AskedAfter(AskedAt(t), m.at) => ~Precedes(answer[t], m.status)
  BY <1>1, <1>2, InHandFollows
<1>4. ~Precedes(m.status, answer[t])
  BY DEF AnswerCovers
<1>5. ~Precedes(answer[t], m.status)
  BY <1>3 DEF StaleAgainst
<1> QED BY <1>3, <1>4, <1>5 DEF Unordered

\* What recordStatus leaves: all there was, or what is neither covered nor
\* ahead, with the incoming answer if unsaved.
LEMMA UnsavedIsSifted ==
    ASSUME NEW U, NEW stored, NEW storedAt, NEW incoming, NEW askedAt, NEW now,
           NEW m \in NextUnsavedObservations(U, stored, storedAt, incoming, askedAt, now),
           NextUnsavedObservations(U, stored, storedAt, incoming, askedAt, now) # U
    PROVE  \/ m \in U /\ ~AnswerCovers(incoming, askedAt, m)
                      /\ ~StaleAgainst(incoming, askedAt, m)
           \/ m = [status |-> incoming, at |-> now]
BY DEF NextUnsavedObservations

\* Recording an answer keeps the unsaved ones mutually unordered.
LEMMA RecordKeepsAntichain ==
    ASSUME EvidenceInv, UnsavedIsAntichain, NEW t \in Observation, RecordStatus(t)
    PROVE  UnsavedIsAntichain'
<1>1. PICK now \in heardAt[t]..clock :
         unsaved' = NextUnsavedObservations(unsaved, last, lastAt, answer[t], AskedAt(t), now)
  BY DEF RecordStatus
<1>2. phase[t] = "heard"
  BY DEF RecordStatus
<1>3. SUFFICES ASSUME unsaved' # unsaved, NEW m \in unsaved', NEW k \in unsaved', m # k
               PROVE  Unordered(m.status, k.status)
  BY DEF UnsavedIsAntichain
<1> DEFINE New == [status |-> answer[t], at |-> now]
<1>4. \A n \in unsaved' : n # New => n \in unsaved /\ Unordered(n.status, answer[t])
  BY <1>1, <1>2, <1>3, UnsavedIsSifted, KeptIsUnordered
<1>5. New.status = answer[t]
  OBVIOUS
<1> HIDE DEF New
<1>6. CASE m # New /\ k # New
  BY <1>3, <1>4, <1>6 DEF UnsavedIsAntichain
<1>7. CASE k = New
  BY <1>3, <1>4, <1>5, <1>7
<1>8. CASE m = New
  BY <1>3, <1>4, <1>5, <1>8, UnorderedBothWays
<1> QED BY <1>6, <1>7, <1>8

\* No other step changes them.
LEMMA OthersKeepAntichain ==
    ASSUME UnsavedIsAntichain, UNCHANGED unsaved
    PROVE  UnsavedIsAntichain'
BY DEF UnsavedIsAntichain

\* The unsaved answers on record are mutually unordered, whatever comes in and
\* in whatever order (nextUnsavedObservations).
THEOREM UnsavedStaysAntichain == Spec => []UnsavedIsAntichain
<1>1. Init => UnsavedIsAntichain
  BY DEF Init, UnsavedIsAntichain
<1>2. EvidenceInv /\ UnsavedIsAntichain /\ [Next]_evidenceVars => UnsavedIsAntichain'
  <2> SUFFICES ASSUME EvidenceInv, UnsavedIsAntichain, [Next]_evidenceVars
               PROVE  UnsavedIsAntichain'
    OBVIOUS
  <2>1. CASE Tick
    BY <2>1, OthersKeepAntichain DEF Tick, statuses
  <2>2. CASE Reboot
    BY <2>2, OthersKeepAntichain DEF Reboot, statuses
  <2>3. ASSUME NEW t \in Observation, ObservationStep(t) PROVE UnsavedIsAntichain'
    <3>1. CASE RecordStatus(t)
      BY <3>1, RecordKeepsAntichain
    <3>2. CASE ~RecordStatus(t)
      BY <2>3, <3>2, OthersKeepAntichain
         DEF ObservationStep, OpenObservation, HearAnswer, CloseObservation, RecordFails,
             EndObservation, AbandonObservation, statuses
    <3> QED BY <3>1, <3>2
  <2>4. CASE UNCHANGED evidenceVars
    BY <2>4, OthersKeepAntichain DEF evidenceVars, statuses
  <2> QED BY <2>1, <2>2, <2>3, <2>4 DEF Next
<1> QED BY <1>1, <1>2, EvidenceInvariant, PTL DEF Spec

\* A saved answer asked after everything on record, and every other fence,
\* leaves nothing of them.
LEMMA LateSavedSettles ==
    ASSUME EvidenceInv, NEW t \in Observation, RecordStatus(t),
           answer[t].saved, t \in open,
           last = NoAnswer \/ lastAt < openedAt[t],
           \A m \in unsaved : m.at < openedAt[t],
           \A f \in open \ {t} : expiresAt[f] < openedAt[t]
    PROVE  CurrentlySaved'
<1>1. phase[t] = "heard" /\ Heard(t) /\ answer[t] \in Answer /\ openedAt[t] \in Nat
  BY HeardIsAnswer DEF RecordStatus, EvidenceInv, PhaseInv, TypeOK
<1>2. AskedAt(t) = openedAt[t]
  BY DEF AskedAt
<1>3. \A m \in unsaved :
         /\ AskedAfter(AskedAt(t), m.at) /\ m.at \in Nat
         /\ ~SamePosition(answer[t], m.status) /\ ~Precedes(answer[t], m.status)
  <2> TAKE m \in unsaved
  <2>1. m.at \in Nat /\ m.at < openedAt[t]
    BY DEF EvidenceInv, TypeOK
  <2>2. AskedAfter(AskedAt(t), m.at)
    BY <1>1, <1>2, <2>1 DEF AskedAfter, NoTime
  <2>3. PICK u \in Observation :
           Recorded(u) /\ m.status = answer[u] /\ heardAt[u] <= m.at
    BY DEF EvidenceInv, RecordInv
  <2> QED BY <1>1, <2>1, <2>2, <2>3, InHandFollows
<1>4. last # NoAnswer =>
         /\ AskedAfter(AskedAt(t), lastAt)
         /\ ~SamePosition(answer[t], last) /\ ~Precedes(answer[t], last)
  <2> SUFFICES ASSUME last # NoAnswer
               PROVE  /\ AskedAfter(AskedAt(t), lastAt)
                      /\ ~SamePosition(answer[t], last) /\ ~Precedes(answer[t], last)
    OBVIOUS
  <2>1. lastAt \in Nat
    BY DEF EvidenceInv, TypeOK
  <2>2. AskedAfter(AskedAt(t), lastAt)
    BY <1>1, <1>2, <2>1 DEF AskedAfter, NoTime
  <2>3. PICK u \in Observation : Recorded(u) /\ last = answer[u] /\ heardAt[u] <= lastAt
    BY DEF EvidenceInv, RecordInv
  <2> QED BY <1>1, <2>1, <2>2, <2>3, InHandFollows
<1>5. unsaved' = {}
  <2>1. PICK now : unsaved' = NextUnsavedObservations(unsaved, last, lastAt,
                                                      answer[t], AskedAt(t), now)
    BY DEF RecordStatus
  <2>2. \A m \in unsaved : /\ AnswerCovers(answer[t], AskedAt(t), m)
                          /\ ~StaleAgainst(answer[t], AskedAt(t), m)
    BY <1>3 DEF AnswerCovers, StaleAgainst, Unordered
  <2>3. last # NoAnswer =>
           ~StaleAgainst(answer[t], AskedAt(t), [status |-> last, at |-> lastAt])
    BY <1>4 DEF StaleAgainst
  <2> QED BY <2>1, <2>2, <2>3 DEF NextUnsavedObservations
<1>6. last' = answer[t]
  <2>1. StatusSupersedes(last, answer[t], CausallyAfterLast(t))
    BY <1>2, <1>4 DEF StatusSupersedes, CausallyAfterLast, Unordered
  <2> QED BY <2>1 DEF RecordStatus
<1>7. open' = {}
  BY <1>1, <1>2 DEF RecordStatus, FencesLeft, AskedAt, NoTime, EvidenceInv, TypeOK
<1> QED BY <1>1, <1>5, <1>6, <1>7, NoAnswerAssumption DEF CurrentlySaved, ReadsSaved

\* A saved answer asked after everything else always settles the record, so no
\* history of answers wedges it (recordStatus).
THEOREM LateSavedAnswersSettle == Spec => LateSavedAnswerSettles
<1>1. EvidenceInv /\ [Next]_evidenceVars =>
         [\A t \in Observation :
            /\ phase[t] = "heard" /\ phase'[t] = "recorded"
            /\ answer[t].saved
            /\ t \in open
            /\ last = NoAnswer \/ lastAt < openedAt[t]
            /\ \A m \in unsaved : m.at < openedAt[t]
            /\ \A f \in open \ {t} : expiresAt[f] < openedAt[t]
            => CurrentlySaved']_evidenceVars
  <2> SUFFICES ASSUME EvidenceInv, Next, NEW t \in Observation,
                      phase[t] = "heard", phase'[t] = "recorded",
                      answer[t].saved, t \in open,
                      last = NoAnswer \/ lastAt < openedAt[t],
                      \A m \in unsaved : m.at < openedAt[t],
                      \A f \in open \ {t} : expiresAt[f] < openedAt[t]
               PROVE  CurrentlySaved'
    OBVIOUS
  <2>1. RecordStatus(t)
    <3>1. ~Tick /\ ~Reboot
      BY DEF Tick, Reboot
    <3>2. PICK u \in Observation : ObservationStep(u)
      BY <3>1 DEF Next
    <3>3. ObservationStep(t)
      BY <3>2 DEF ObservationStep, OpenObservation, HearAnswer, CloseObservation,
         RecordStatus, RecordFails, EndObservation, AbandonObservation, EvidenceInv, TypeOK
    <3> QED BY <3>3 DEF ObservationStep, OpenObservation, HearAnswer, CloseObservation,
          RecordFails, EndObservation, AbandonObservation, EvidenceInv, TypeOK
  <2> QED BY <2>1, LateSavedSettles
<1> QED BY <1>1, EvidenceInvariant, PTL DEF Spec, LateSavedAnswerSettles

-----------------------------------------------------------------------------
(***************************************************************************)
(* What the positions order, they decide.                                  *)
(***************************************************************************)

\* The record as positions that order everything leave it: the latest answer, and
\* that one alone among the unsaved.
OrderInv ==
    /\ \A m \in unsaved : ~m.status.saved
    /\ AllOrdered =>
         /\ \A t \in Observation : Recorded(t) =>
               last # NoAnswer /\ Number(t) <= last.observation
         /\ \A m \in unsaved : m.status = last
         /\ last # NoAnswer /\ ~last.saved => unsaved # {}

\* Recording an answer keeps it: one that precedes the record changes nothing,
\* and one that follows it leaves nothing else.
LEMMA RecordKeepsOrder ==
    ASSUME EvidenceInv, OrderInv, NEW t \in Observation, RecordStatus(t)
    PROVE  OrderInv'
<1>1. PICK now \in heardAt[t]..clock :
         unsaved' = NextUnsavedObservations(unsaved, last, lastAt, answer[t], AskedAt(t), now)
  BY DEF RecordStatus
<1>2. phase[t] = "heard" /\ Heard(t) /\ answer[t] \in Answer /\ Number(t) \in Nat
  BY HeardIsAnswer DEF RecordStatus, EvidenceInv, PhaseInv
<1>3. answer' = answer /\ \A u \in Observation : Recorded(u)' <=> Recorded(u) \/ u = t
  BY DEF RecordStatus, Recorded, EvidenceInv, TypeOK
<1>4. \A u \in Observation : Recorded(u) =>
         u # t /\ Heard(u) /\ answer[u] \in Answer /\ Number(u) \in Nat
  BY <1>2, HeardIsAnswer DEF EvidenceInv, PhaseInv, Recorded
<1>5. \A m \in unsaved' : ~m.status.saved
  BY <1>1, UnsavedComesFrom DEF OrderInv
<1>6. SUFFICES ASSUME AllOrdered'
               PROVE  /\ \A u \in Observation : Recorded(u)' =>
                            last' # NoAnswer /\ Number(u)' <= last'.observation
                      /\ \A m \in unsaved' : m.status = last'
                      /\ last' # NoAnswer /\ ~last'.saved => unsaved' # {}
  BY <1>5 DEF OrderInv
<1>7. AllOrdered
  BY <1>3, <1>6 DEF AllOrdered, Recorded
<1>8. ASSUME last' = answer[t],
             unsaved' = {m \in {[status |-> answer[t], at |-> now]} : ~answer[t].saved},
             \A u \in Observation : Recorded(u) => Number(u) <= Number(t)
      PROVE  /\ \A u \in Observation : Recorded(u)' =>
                   last' # NoAnswer /\ Number(u)' <= last'.observation
             /\ \A m \in unsaved' : m.status = last'
             /\ last' # NoAnswer /\ ~last'.saved => unsaved' # {}
  <2>1. last' # NoAnswer
    BY <1>2, <1>8 DEF Heard
  <2>2. \A u \in Observation : Recorded(u)' => Number(u)' <= last'.observation
    BY <1>2, <1>3, <1>8 DEF Number
  <2>3. \A m \in unsaved' : m.status = last'
    BY <1>8
  <2>4. ~last'.saved => unsaved' # {}
    BY <1>8
  <2> QED BY <2>1, <2>2, <2>3, <2>4
<1>9. CASE last = NoAnswer
  <2>1. \A u \in Observation : ~Recorded(u)
    BY <1>7, <1>9 DEF OrderInv
  <2>2. unsaved = {}
    BY <2>1 DEF EvidenceInv, RecordInv
  <2>3. unsaved' = {m \in {[status |-> answer[t], at |-> now]} : ~answer[t].saved}
    BY <1>1, <1>9, <2>2 DEF NextUnsavedObservations
  <2>4. last' = answer[t]
    BY <1>9 DEF RecordStatus, StatusSupersedes
  <2> QED BY <1>8, <2>1, <2>3, <2>4
<1>10. CASE last # NoAnswer
  <2>1. PICK v \in Observation : Recorded(v) /\ last = answer[v] /\ heardAt[v] <= lastAt
    BY <1>10 DEF EvidenceInv, RecordInv
  <2>2. lastAt \in Nat /\ v # t
    BY <1>4, <2>1 DEF EvidenceInv, TypeOK
  <2>3. /\ ~SamePosition(last, answer[t]) /\ ~SamePosition(answer[t], last)
        /\ AskedAfter(AskedAt(t), lastAt) => ~Precedes(answer[t], last)
    BY <1>2, <2>1, <2>2, InHandFollows
  <2>4. \A m \in unsaved : m.status = last
    BY <1>7 DEF OrderInv
  <2>5. CASE Precedes(last, answer[t])
    <3>1. Number(v) < Number(t)
      BY <1>2, <1>4, <2>1, <2>5, PrecedesIsEarlier DEF EvidenceInv
    <3>2. ~Precedes(answer[t], last)
      BY <1>2, <1>4, <2>1, <3>1, PrecedesIsEarlier DEF EvidenceInv
    <3>3. \A m \in unsaved : /\ AnswerCovers(answer[t], AskedAt(t), m)
                            /\ ~StaleAgainst(answer[t], AskedAt(t), m)
      BY <2>3, <2>4, <2>5, <3>2 DEF AnswerCovers, StaleAgainst
    <3>4. ~StaleAgainst(answer[t], AskedAt(t), [status |-> last, at |-> lastAt])
      BY <2>3, <3>2 DEF StaleAgainst
    <3>5. unsaved' = {m \in {[status |-> answer[t], at |-> now]} : ~answer[t].saved}
      BY <1>1, <3>3, <3>4 DEF NextUnsavedObservations
    <3>6. last' = answer[t]
      BY <2>5 DEF RecordStatus, StatusSupersedes
    <3>7. \A u \in Observation : Recorded(u) => Number(u) <= Number(v)
      BY <1>7, <2>1 DEF OrderInv, Number
    <3>8. \A u \in Observation : Recorded(u) => Number(u) <= Number(t)
      BY <1>2, <1>4, <2>1, <3>1, <3>7
    <3> QED BY <1>8, <3>5, <3>6, <3>8
  <2>6. CASE Precedes(answer[t], last)
    <3>1. Number(t) < Number(v)
      BY <1>2, <1>4, <2>1, <2>6, PrecedesIsEarlier DEF EvidenceInv
    <3>2. ~Precedes(last, answer[t])
      BY <1>2, <1>4, <2>1, <3>1, PrecedesIsEarlier DEF EvidenceInv
    <3>3. ~AskedAfter(AskedAt(t), lastAt) /\ ~CausallyAfterLast(t)
      <4>1. ~AskedAfter(AskedAt(t), lastAt)
        BY <2>3, <2>6
      <4>2. ~(lastAt < AskedAt(t))
        BY <2>2, <4>1 DEF AskedAfter, NoTime
      <4> QED BY <1>10, <4>1, <4>2 DEF CausallyAfterLast
    <3>4. unsaved' = unsaved
      <4>1. StaleAgainst(answer[t], AskedAt(t), [status |-> last, at |-> lastAt])
        BY <2>6, <3>3 DEF StaleAgainst
      <4> QED BY <1>1, <1>10, <4>1, UnsavedStaleStays
    <3>5. last' = last
      BY <1>10, <2>3, <2>6, <3>2, <3>3 DEF RecordStatus, StatusSupersedes, Unordered
    <3>6. Number(t) <= last.observation
      BY <1>2, <1>4, <2>1, <3>1 DEF Number
    <3> QED BY <1>3, <1>7, <1>10, <3>4, <3>5, <3>6 DEF OrderInv, Number
  <2>7. Precedes(last, answer[t]) \/ Precedes(answer[t], last)
    BY <1>3, <1>6, <2>1, <2>2 DEF AllOrdered, Recorded
  <2> QED BY <2>5, <2>6, <2>7
<1> QED BY <1>9, <1>10

\* No other step records anything, or changes an answer recorded.
LEMMA OthersKeepOrder ==
    ASSUME OrderInv, UNCHANGED <<last, unsaved>>,
           \A t \in Observation : Recorded(t)' <=> Recorded(t),
           \A t \in Observation : Recorded(t) => answer'[t] = answer[t]
    PROVE  OrderInv'
<1>1. AllOrdered' => AllOrdered
  BY DEF AllOrdered, Recorded
<1> QED BY <1>1 DEF OrderInv, Number

\* Under the invariants, the record is the latest answer where the positions
\* order them all.
LEMMA OrderInvIsLatest ==
    ASSUME EvidenceInv, OrderInv, AllOrdered, NEW t \in Observation, Recorded(t),
           \A u \in Observation : Recorded(u) => Number(u) <= Number(t)
    PROVE  last = answer[t] /\ (ReadsSaved <=> answer[t].saved)
<1>1. last # NoAnswer /\ Number(t) <= last.observation
  BY DEF OrderInv
<1>2. PICK v \in Observation : Recorded(v) /\ last = answer[v]
  BY <1>1 DEF EvidenceInv, RecordInv
<1>3. Heard(t) /\ Heard(v) /\ Number(t) \in Nat /\ Number(v) \in Nat
  BY <1>2, HeardIsAnswer DEF EvidenceInv, PhaseInv, Recorded
<1>4. Number(t) = Number(v)
  BY <1>1, <1>2, <1>3 DEF Number
<1>5. t = v
  BY <1>3, <1>4 DEF EvidenceInv, HistoryInv
<1>6. last.saved => unsaved = {}
  BY DEF OrderInv
<1>7. ~last.saved => unsaved # {}
  BY <1>1 DEF OrderInv
<1> QED BY <1>1, <1>2, <1>5, <1>6, <1>7 DEF ReadsSaved

\* Where the positions order every answer recorded, the record is the latest of
\* the executor's own history, whatever order they were recorded in
\* (statusSupersedes, nextUnsavedObservations).
THEOREM OrderedRecordIsTheLatest == Spec => []OrderedRecordIsLatest
<1>1. Init => OrderInv
  BY DEF Init, OrderInv, Recorded
<1>2. EvidenceInv /\ OrderInv /\ [Next]_evidenceVars => OrderInv'
  <2> SUFFICES ASSUME EvidenceInv, OrderInv, [Next]_evidenceVars
               PROVE  OrderInv'
    OBVIOUS
  <2>1. CASE Tick
    BY <2>1, OthersKeepOrder DEF Tick, statuses, Recorded
  <2>2. CASE Reboot
    BY <2>2, OthersKeepOrder DEF Reboot, statuses, Recorded
  <2>3. ASSUME NEW t \in Observation, ObservationStep(t) PROVE OrderInv'
    <3>1. CASE RecordStatus(t)
      BY <3>1, RecordKeepsOrder
    <3>2. CASE ~RecordStatus(t)
      <4>1. UNCHANGED <<last, unsaved>> /\ phase[t] # "recorded"
            /\ \E p \in Phase \ {"recorded"} : phase' = [phase EXCEPT ![t] = p]
        BY <2>3, <3>2
           DEF ObservationStep, OpenObservation, HearAnswer, CloseObservation, RecordFails,
               EndObservation, AbandonObservation, statuses, Phase
      <4>2. \A u \in Observation : Recorded(u)' <=> Recorded(u)
        BY <4>1 DEF Recorded, EvidenceInv, TypeOK
      <4>3. \A u \in Observation \ {t} : answer'[u] = answer[u]
        BY <2>3, <3>2
           DEF ObservationStep, OpenObservation, HearAnswer, CloseObservation, RecordFails,
               EndObservation, AbandonObservation, EvidenceInv, TypeOK
      <4> QED BY <4>1, <4>2, <4>3, OthersKeepOrder DEF Recorded
    <3> QED BY <3>1, <3>2
  <2>4. CASE UNCHANGED evidenceVars
    BY <2>4, OthersKeepOrder DEF evidenceVars, statuses, Recorded
  <2> QED BY <2>1, <2>2, <2>3, <2>4 DEF Next
<1>3. EvidenceInv /\ OrderInv => OrderedRecordIsLatest
  BY OrderInvIsLatest DEF OrderedRecordIsLatest, Recorded, Number
<1> QED BY <1>1, <1>2, <1>3, EvidenceInvariant, PTL DEF Spec

=============================================================================
