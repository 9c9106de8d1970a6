------------------------ MODULE CreateReservationProofs ------------------------
(***************************************************************************)
(* Proofs about CreateReservation, for any number of creates, callers and  *)
(* restarts: it implements CreateDecision, and no create that lost its key *)
(* is left without an answer but under a restart that is half written.     *)
(***************************************************************************)
EXTENDS CreateReservation, TLAPS

(***************************************************************************)
(* The inductive invariant.                                                *)
(***************************************************************************)
\* What the record says of the rows.
KeyInv ==
    /\ reservation = "created" =>
          /\ row /\ latest \in (jobs \cap Create) \cup Restart
          /\ \E c \in Create : jobs \cap Create = {c}
    /\ reservation # "created" => jobs = {} /\ latest \in {Nobody, Earlier}

\* Past its lookup a create that found no workspace knows that any there is by
\* now was committed since.
CreatorInv(c) ==
    /\ pc[c] \in {"looked", "reserved", "admitted", "clashed"} /\ c \notin resuming /\ row
          => reservation = "created"
    /\ pc[c] \in {"reserved", "admitted"} => reservation # "none"
    /\ pc[c] = "lost" => reservation \in {"created", "cancelled"}
    /\ pc[c] = "clashed" => reservation = "created"
    /\ pc[c] = "committed" => c \in jobs

\* An answer is of what was decided, and restarts are of what was made.
AnswerInv(q) ==
    /\ pc[q] \in {"committed", "found", "relaunching", "linked"} => reservation = "created"
    /\ pc[q] = "refused" => reservation = "cancelled"
    /\ pc[q] = "decided" => reservation \in {"created", "cancelled"}

CreateInv ==
    /\ CreateTypeOK /\ KeyInv
    /\ \A c \in Create : CreatorInv(c)
    /\ \A q \in Request : AnswerInv(q)

-----------------------------------------------------------------------------
LEMMA CreateInitInv == CreateInit => CreateInv
BY CreateAssumption
   DEF CreateInit, CreateInv, CreateTypeOK, KeyInv, CreatorInv, AnswerInv, State, Stand, Request

\* What a request that moves leaves of the others, and where it is.
LEMMA Moves ==
    ASSUME NEW q \in Request, NEW s \in Stand, pc \in [Request -> Stand], Goto(q, s)
    PROVE  /\ pc' \in [Request -> Stand] /\ pc'[q] = s
           /\ \A p \in Request : p # q => pc'[p] = pc[p]
BY DEF Goto

\* What is decided stays so, and what it is decided of is not taken back.
Onward ==
    /\ reservation = "created" => reservation' = "created"
    /\ reservation = "cancelled" => reservation' = "cancelled"
    /\ reservation # "none" => reservation' # "none"
    /\ row' => row \/ reservation' = "created"
    /\ jobs \subseteq jobs'
    /\ resuming \subseteq resuming'

\* A step that goes onward takes nothing back of a request that does not move.
LEMMA OthersKeep ==
    ASSUME CreateInv, Onward, NEW p \in Request, pc'[p] = pc[p]
    PROVE  /\ p \in Create => CreatorInv(p)'
           /\ AnswerInv(p)'
<1>1. AnswerInv(p)
  BY DEF CreateInv
<1>2. AnswerInv(p)'
  BY <1>1 DEF Onward, AnswerInv
<1>3. ASSUME p \in Create
      PROVE  CreatorInv(p)'
  <2>1. CreatorInv(p)
    BY <1>3 DEF CreateInv
  <2>2. QED
    BY <2>1 DEF Onward, CreatorInv
<1> QED BY <1>2, <1>3

\* So only the one that moves needs a look.
LEMMA OneMoves ==
    ASSUME CreateInv, Onward, NEW q \in Request, NEW s \in Stand, Goto(q, s),
           CreateTypeOK', KeyInv',
           q \in Create => CreatorInv(q)', AnswerInv(q)'
    PROVE  CreateInv'
<1>1. /\ pc'[q] = s
      /\ \A p \in Request : p # q => pc'[p] = pc[p]
  BY Moves DEF CreateInv, CreateTypeOK
<1>2. \A c \in Create : CreatorInv(c)'
  <2> SUFFICES ASSUME NEW c \in Create PROVE CreatorInv(c)'
    OBVIOUS
  <2>1. CASE c = q BY <2>1
  <2>2. CASE c # q
    BY <2>2, <1>1, OthersKeep DEF Request
  <2> QED BY <2>1, <2>2
<1>3. \A p \in Request : AnswerInv(p)'
  <2> SUFFICES ASSUME NEW p \in Request PROVE AnswerInv(p)'
    OBVIOUS
  <2>1. CASE p = q BY <2>1
  <2>2. CASE p # q
    BY <2>2, <1>1, OthersKeep
  <2> QED BY <2>1, <2>2
<1> QED BY <1>2, <1>3 DEF CreateInv

\* A step that moves one request and changes neither the record nor the rows.
LEMMA OnlyMoves ==
    ASSUME CreateInv, NEW q \in Request, NEW s \in Stand, Goto(q, s),
           UNCHANGED <<reservation, workspace>>,
           resuming \subseteq resuming', resuming' \subseteq Create, told' \subseteq {"made", "cancelled"},
           q \in Create => CreatorInv(q)', AnswerInv(q)'
    PROVE  CreateInv'
<1>1. Onward
  BY DEF Onward, workspace
<1>2. CreateTypeOK'
  BY Moves DEF CreateInv, CreateTypeOK, workspace
<1>3. KeyInv'
  BY DEF CreateInv, KeyInv, workspace
<1> QED BY <1>1, <1>2, <1>3, OneMoves

-----------------------------------------------------------------------------
(***************************************************************************)
(* Each step keeps the invariant.                                          *)
(***************************************************************************)
LEMMA LookupKeepsInv ==
    ASSUME CreateInv, NEW c \in Create, Lookup(c)
    PROVE  CreateInv'
<1> c \in Request BY DEF Request
<1>1. PICK s \in {"found", "looked"} : Goto(c, s)
  BY DEF Lookup, From
<1>2. s \in Stand /\ pc'[c] = s
  BY <1>1, Moves DEF Stand, CreateInv, CreateTypeOK
<1>3. /\ UNCHANGED <<reservation, workspace>>
      /\ resuming \subseteq resuming' /\ resuming' \subseteq Create
      /\ told' \subseteq {"made", "cancelled"}
  BY DEF Lookup, CreateInv, CreateTypeOK, TellOf
<1>4. AnswerInv(c)'
  BY <1>1, <1>2, <1>3 DEF Lookup, From, AnswerInv, CreateInv, KeyInv, CreatorInv, Finished, CreateTypeOK, State, Goto, workspace
<1>5. c \in Create => CreatorInv(c)'
  BY <1>1, <1>2, <1>3 DEF Lookup, From, CreatorInv, AnswerInv, CreateInv, KeyInv, CreateTypeOK, State, Goto, workspace
<1> QED BY <1>1, <1>2, <1>3, <1>4, <1>5, OnlyMoves

LEMMA CheckReservationKeepsInv ==
    ASSUME CreateInv, NEW c \in Create, CheckReservation(c)
    PROVE  CreateInv'
<1> c \in Request BY DEF Request
<1>1. PICK s \in {"refused", "found", "unanswered", "admitted"} : Goto(c, s)
  BY DEF CheckReservation, From
<1>2. s \in Stand /\ pc'[c] = s
  BY <1>1, Moves DEF Stand, CreateInv, CreateTypeOK
<1>3. /\ UNCHANGED <<reservation, workspace>>
      /\ resuming \subseteq resuming' /\ resuming' \subseteq Create
      /\ told' \subseteq {"made", "cancelled"}
  BY DEF CheckReservation, CreateInv, CreateTypeOK, TellOf
<1>4. AnswerInv(c)'
  BY <1>1, <1>2, <1>3 DEF CheckReservation, From, AnswerInv, CreateInv, KeyInv, CreatorInv, Finished, CreateTypeOK, State, Goto, workspace
<1>5. c \in Create => CreatorInv(c)'
  BY <1>1, <1>2, <1>3 DEF CheckReservation, From, CreatorInv, AnswerInv, CreateInv, KeyInv, CreateTypeOK, State, Goto, workspace
<1> QED BY <1>1, <1>2, <1>3, <1>4, <1>5, OnlyMoves

LEMMA CommitFailsKeepsInv ==
    ASSUME CreateInv, NEW c \in Create, CommitFails(c)
    PROVE  CreateInv'
<1> c \in Request BY DEF Request
<1>1. PICK s \in {"lost", "clashed"} : Goto(c, s)
  BY DEF CommitFails, From
<1>2. s \in Stand /\ pc'[c] = s
  BY <1>1, Moves DEF Stand, CreateInv, CreateTypeOK
<1>3. /\ UNCHANGED <<reservation, workspace>>
      /\ resuming \subseteq resuming' /\ resuming' \subseteq Create
      /\ told' \subseteq {"made", "cancelled"}
  BY DEF CommitFails, CreateInv, CreateTypeOK, TellOf
<1>4. AnswerInv(c)'
  BY <1>1, <1>2, <1>3 DEF CommitFails, From, AnswerInv, CreateInv, KeyInv, CreatorInv, Finished, CreateTypeOK, State, Goto, workspace
<1>5. c \in Create => CreatorInv(c)'
  BY <1>1, <1>2, <1>3 DEF CommitFails, From, CreatorInv, AnswerInv, CreateInv, KeyInv, CreateTypeOK, State, Goto, workspace
<1> QED BY <1>1, <1>2, <1>3, <1>4, <1>5, OnlyMoves

LEMMA AnswerLoserKeepsInv ==
    ASSUME CreateInv, NEW c \in Create, AnswerLoser(c)
    PROVE  CreateInv'
<1> c \in Request BY DEF Request
<1>1. PICK s \in {"refused", "found", "unanswered"} : Goto(c, s)
  BY DEF AnswerLoser, From
<1>2. s \in Stand /\ pc'[c] = s
  BY <1>1, Moves DEF Stand, CreateInv, CreateTypeOK
<1>3. /\ UNCHANGED <<reservation, workspace>>
      /\ resuming \subseteq resuming' /\ resuming' \subseteq Create
      /\ told' \subseteq {"made", "cancelled"}
  BY DEF AnswerLoser, CreateInv, CreateTypeOK, TellOf
<1>4. AnswerInv(c)'
  BY <1>1, <1>2, <1>3 DEF AnswerLoser, From, AnswerInv, CreateInv, KeyInv, CreatorInv, Finished, CreateTypeOK, State, Goto, workspace
<1>5. c \in Create => CreatorInv(c)'
  BY <1>1, <1>2, <1>3 DEF AnswerLoser, From, CreatorInv, AnswerInv, CreateInv, KeyInv, CreateTypeOK, State, Goto, workspace
<1> QED BY <1>1, <1>2, <1>3, <1>4, <1>5, OnlyMoves

LEMMA RespondKeepsInv ==
    ASSUME CreateInv, NEW c \in Create, Respond(c)
    PROVE  CreateInv'
<1> c \in Request BY DEF Request
<1>1. PICK s \in {"over"} : Goto(c, s)
  BY DEF Respond, From
<1>2. s \in Stand /\ pc'[c] = s
  BY <1>1, Moves DEF Stand, CreateInv, CreateTypeOK
<1>3. /\ UNCHANGED <<reservation, workspace>>
      /\ resuming \subseteq resuming' /\ resuming' \subseteq Create
      /\ told' \subseteq {"made", "cancelled"}
  BY DEF Respond, CreateInv, CreateTypeOK, TellOf
<1>4. AnswerInv(c)'
  BY <1>1, <1>2, <1>3 DEF Respond, From, AnswerInv, CreateInv, KeyInv, CreatorInv, Finished, CreateTypeOK, State, Goto, workspace
<1>5. c \in Create => CreatorInv(c)'
  BY <1>1, <1>2, <1>3 DEF Respond, From, CreatorInv, AnswerInv, CreateInv, KeyInv, CreateTypeOK, State, Goto, workspace
<1> QED BY <1>1, <1>2, <1>3, <1>4, <1>5, OnlyMoves

LEMMA ReadReservationKeepsInv ==
    ASSUME CreateInv, NEW k \in Asker, ReadReservation(k)
    PROVE  CreateInv'
<1> k \in Request BY DEF Request
<1>1. PICK s \in {"refused", "asked"} : Goto(k, s)
  BY DEF ReadReservation, From
<1>2. s \in Stand /\ pc'[k] = s
  BY <1>1, Moves DEF Stand, CreateInv, CreateTypeOK
<1>3. /\ UNCHANGED <<reservation, workspace>>
      /\ resuming \subseteq resuming' /\ resuming' \subseteq Create
      /\ told' \subseteq {"made", "cancelled"}
  BY DEF ReadReservation, CreateInv, CreateTypeOK, TellOf
<1>4. AnswerInv(k)'
  BY <1>1, <1>2, <1>3 DEF ReadReservation, From, AnswerInv, CreateInv, KeyInv, CreatorInv, Finished, CreateTypeOK, State, Goto, workspace
<1>5. k \in Create => CreatorInv(k)'
  BY <1>1, <1>2, <1>3 DEF ReadReservation, From, CreatorInv, AnswerInv, CreateInv, KeyInv, CreateTypeOK, State, workspace
<1> QED BY <1>1, <1>2, <1>3, <1>4, <1>5, OnlyMoves

LEMMA ReadWorkspaceKeepsInv ==
    ASSUME CreateInv, NEW k \in Asker, ReadWorkspace(k)
    PROVE  CreateInv'
<1> k \in Request BY DEF Request
<1>1. PICK s \in {"found", "undecided", "over"} : Goto(k, s)
  BY DEF ReadWorkspace, From
<1>2. s \in Stand /\ pc'[k] = s
  BY <1>1, Moves DEF Stand, CreateInv, CreateTypeOK
<1>3. /\ UNCHANGED <<reservation, workspace>>
      /\ resuming \subseteq resuming' /\ resuming' \subseteq Create
      /\ told' \subseteq {"made", "cancelled"}
  BY DEF ReadWorkspace, CreateInv, CreateTypeOK, TellOf
<1>4. AnswerInv(k)'
  BY <1>1, <1>2, <1>3 DEF ReadWorkspace, From, AnswerInv, CreateInv, KeyInv, CreatorInv, Finished, CreateTypeOK, State, Goto, workspace
<1>5. k \in Create => CreatorInv(k)'
  BY <1>1, <1>2, <1>3 DEF ReadWorkspace, From, CreatorInv, AnswerInv, CreateInv, KeyInv, CreateTypeOK, State, workspace
<1> QED BY <1>1, <1>2, <1>3, <1>4, <1>5, OnlyMoves

LEMMA AfterCancelKeepsInv ==
    ASSUME CreateInv, NEW k \in Asker, AfterCancel(k)
    PROVE  CreateInv'
<1> k \in Request BY DEF Request
<1>1. PICK s \in {"refused", "found", "over"} : Goto(k, s)
  BY DEF AfterCancel, From
<1>2. s \in Stand /\ pc'[k] = s
  BY <1>1, Moves DEF Stand, CreateInv, CreateTypeOK
<1>3. /\ UNCHANGED <<reservation, workspace>>
      /\ resuming \subseteq resuming' /\ resuming' \subseteq Create
      /\ told' \subseteq {"made", "cancelled"}
  BY DEF AfterCancel, CreateInv, CreateTypeOK, TellOf
<1>4. AnswerInv(k)'
  BY <1>1, <1>2, <1>3 DEF AfterCancel, From, AnswerInv, CreateInv, KeyInv, CreatorInv, Finished, CreateTypeOK, State, Goto, workspace
<1>5. k \in Create => CreatorInv(k)'
  BY <1>1, <1>2, <1>3 DEF AfterCancel, From, CreatorInv, AnswerInv, CreateInv, KeyInv, CreateTypeOK, State, workspace
<1> QED BY <1>1, <1>2, <1>3, <1>4, <1>5, OnlyMoves

LEMMA ReportKeepsInv ==
    ASSUME CreateInv, NEW k \in Asker, Report(k)
    PROVE  CreateInv'
<1> k \in Request BY DEF Request
<1>1. PICK s \in {"over"} : Goto(k, s)
  BY DEF Report, From
<1>2. s \in Stand /\ pc'[k] = s
  BY <1>1, Moves DEF Stand, CreateInv, CreateTypeOK
<1>3. /\ UNCHANGED <<reservation, workspace>>
      /\ resuming \subseteq resuming' /\ resuming' \subseteq Create
      /\ told' \subseteq {"made", "cancelled"}
  BY DEF Report, CreateInv, CreateTypeOK, TellOf
<1>4. AnswerInv(k)'
  BY <1>1, <1>2, <1>3 DEF Report, From, AnswerInv, CreateInv, KeyInv, CreatorInv, Finished, CreateTypeOK, State, Goto, workspace
<1>5. k \in Create => CreatorInv(k)'
  BY <1>1, <1>2, <1>3 DEF Report, From, CreatorInv, AnswerInv, CreateInv, KeyInv, CreateTypeOK, State, workspace
<1> QED BY <1>1, <1>2, <1>3, <1>4, <1>5, OnlyMoves

LEMMA BeginRestartKeepsInv ==
    ASSUME CreateInv, NEW r \in Restart, BeginRestart(r)
    PROVE  CreateInv'
<1> r \in Request BY DEF Request
<1>1. PICK s \in {"relaunching"} : Goto(r, s)
  BY DEF BeginRestart, From
<1>2. s \in Stand /\ pc'[r] = s
  BY <1>1, Moves DEF Stand, CreateInv, CreateTypeOK
<1>3. /\ UNCHANGED <<reservation, workspace>>
      /\ resuming \subseteq resuming' /\ resuming' \subseteq Create
      /\ told' \subseteq {"made", "cancelled"}
  BY DEF BeginRestart, CreateInv, CreateTypeOK, TellOf
<1>4. AnswerInv(r)'
  BY <1>1, <1>2, <1>3 DEF BeginRestart, From, AnswerInv, CreateInv, KeyInv, CreatorInv, Finished, CreateTypeOK, State, Goto, workspace
<1>5. r \in Create => CreatorInv(r)'
  BY <1>1, <1>2, <1>3 DEF BeginRestart, From, CreatorInv, AnswerInv, CreateInv, KeyInv, CreateTypeOK, State, workspace
<1> QED BY <1>1, <1>2, <1>3, <1>4, <1>5, OnlyMoves

LEMMA DiesKeepsInv ==
    ASSUME CreateInv, NEW q \in Request, Dies(q)
    PROVE  CreateInv'
<1> q \in Request BY DEF Request
<1>1. PICK s \in {"over"} : Goto(q, s)
  BY DEF Dies, From
<1>2. s \in Stand /\ pc'[q] = s
  BY <1>1, Moves DEF Stand, CreateInv, CreateTypeOK
<1>3. /\ UNCHANGED <<reservation, workspace>>
      /\ resuming \subseteq resuming' /\ resuming' \subseteq Create
      /\ told' \subseteq {"made", "cancelled"}
  BY DEF Dies, CreateInv, CreateTypeOK, TellOf
<1>4. AnswerInv(q)'
  BY <1>1, <1>2, <1>3 DEF Dies, From, AnswerInv, CreateInv, KeyInv, CreatorInv, Finished, CreateTypeOK, State, Goto, workspace
<1>5. q \in Create => CreatorInv(q)'
  BY <1>1, <1>2, <1>3 DEF Dies, From, CreatorInv, AnswerInv, CreateInv, KeyInv, CreateTypeOK, State, workspace
<1> QED BY <1>1, <1>2, <1>3, <1>4, <1>5, OnlyMoves

LEMMA ReserveKeepsInv ==
    ASSUME CreateInv, NEW c \in Create, Reserve(c)
    PROVE  CreateInv'
<1> c \in Request BY DEF Request
<1>1. Goto(c, "reserved") /\ "reserved" \in Stand
  BY DEF Reserve, From, Stand
<1>2. pc' \in [Request -> Stand] /\ pc'[c] = "reserved"
  BY <1>1, Moves DEF CreateInv, CreateTypeOK
<1>3. CreateTypeOK'
  BY <1>2, CreateAssumption DEF Reserve, CreateInv, CreateTypeOK, State, workspace
<1>4. KeyInv'
  BY CreateAssumption DEF Reserve, From, CreateInv, CreateTypeOK, KeyInv, AnswerInv, State, workspace
<1>5. Onward
  BY DEF Reserve, CreateInv, CreateTypeOK, Onward, workspace
<1>6. AnswerInv(c)'
  BY <1>2 DEF Reserve, From, AnswerInv, CreateInv, CreateTypeOK, State
<1>7. c \in Create => CreatorInv(c)'
  BY <1>2, CreateAssumption DEF Reserve, From, CreatorInv, CreateInv, CreateTypeOK, State, workspace
<1> QED BY <1>1, <1>3, <1>4, <1>5, <1>6, <1>7, OneMoves

LEMMA CommitKeepsInv ==
    ASSUME CreateInv, NEW c \in Create, Commit(c)
    PROVE  CreateInv'
<1> c \in Request BY DEF Request
<1>1. Goto(c, "committed") /\ "committed" \in Stand
  BY DEF Commit, From, Stand
<1>2. pc' \in [Request -> Stand] /\ pc'[c] = "committed"
  BY <1>1, Moves DEF CreateInv, CreateTypeOK
<1>3. CreateTypeOK'
  BY <1>2, CreateAssumption DEF Commit, CreateInv, CreateTypeOK, State, workspace
<1>4. KeyInv'
  BY CreateAssumption DEF Commit, From, CreateInv, CreateTypeOK, KeyInv, AnswerInv, State, workspace
<1>5. Onward
  BY DEF Commit, CreateInv, CreateTypeOK, Onward, workspace
<1>6. AnswerInv(c)'
  BY <1>2 DEF Commit, From, AnswerInv, CreateInv, CreateTypeOK, State
<1>7. c \in Create => CreatorInv(c)'
  BY <1>2, CreateAssumption DEF Commit, From, CreatorInv, CreateInv, CreateTypeOK, State, workspace
<1> QED BY <1>1, <1>3, <1>4, <1>5, <1>6, <1>7, OneMoves

LEMMA PublishFailsKeepsInv ==
    ASSUME CreateInv, NEW c \in Create, PublishFails(c)
    PROVE  CreateInv'
<1> c \in Request BY DEF Request
<1>1. Goto(c, "over") /\ "over" \in Stand
  BY DEF PublishFails, From, Stand
<1>2. pc' \in [Request -> Stand] /\ pc'[c] = "over"
  BY <1>1, Moves DEF CreateInv, CreateTypeOK
<1>3. CreateTypeOK'
  BY <1>2, CreateAssumption DEF PublishFails, From, CreatorInv, CreateInv, CreateTypeOK, State, workspace
<1>4. KeyInv'
  BY CreateAssumption DEF PublishFails, From, CreateInv, CreateTypeOK, KeyInv, AnswerInv, State, workspace
<1>5. Onward
  BY DEF PublishFails, CreateInv, CreateTypeOK, Onward, workspace
<1>6. AnswerInv(c)'
  BY <1>2 DEF PublishFails, From, AnswerInv, CreateInv, CreateTypeOK, State
<1>7. c \in Create => CreatorInv(c)'
  BY <1>2, CreateAssumption DEF PublishFails, From, CreatorInv, CreateInv, CreateTypeOK, State, workspace
<1> QED BY <1>1, <1>3, <1>4, <1>5, <1>6, <1>7, OneMoves

LEMMA CancelKeepsInv ==
    ASSUME CreateInv, NEW k \in Asker, Cancel(k)
    PROVE  CreateInv'
<1> k \in Request BY DEF Request
<1>1. Goto(k, "decided") /\ "decided" \in Stand
  BY DEF Cancel, From, Stand
<1>2. pc' \in [Request -> Stand] /\ pc'[k] = "decided"
  BY <1>1, Moves DEF CreateInv, CreateTypeOK
<1>3. CreateTypeOK'
  BY <1>2, CreateAssumption DEF Cancel, CreateInv, CreateTypeOK, State, workspace
<1>4. KeyInv'
  BY CreateAssumption DEF Cancel, From, CreateInv, CreateTypeOK, KeyInv, AnswerInv, State, workspace
<1>5. Onward
  BY DEF Cancel, CreateInv, CreateTypeOK, Onward, workspace
<1>6. AnswerInv(k)'
  BY <1>2 DEF Cancel, From, AnswerInv, CreateInv, CreateTypeOK, State
<1>7. k \in Create => CreatorInv(k)'
  BY <1>2, CreateAssumption DEF Cancel, From, CreatorInv, CreateInv, CreateTypeOK, State, workspace
<1> QED BY <1>1, <1>3, <1>4, <1>5, <1>6, <1>7, OneMoves

LEMMA LinkRestartKeepsInv ==
    ASSUME CreateInv, NEW r \in Restart, LinkRestart(r)
    PROVE  CreateInv'
<1> r \in Request BY DEF Request
<1>1. Goto(r, "linked") /\ "linked" \in Stand
  BY DEF LinkRestart, From, Stand
<1>2. pc' \in [Request -> Stand] /\ pc'[r] = "linked"
  BY <1>1, Moves DEF CreateInv, CreateTypeOK
<1>3. CreateTypeOK'
  BY <1>2, CreateAssumption DEF LinkRestart, CreateInv, CreateTypeOK, State, workspace
<1>4. KeyInv'
  BY CreateAssumption DEF LinkRestart, From, CreateInv, CreateTypeOK, KeyInv, AnswerInv, State, workspace
<1>5. Onward
  BY DEF LinkRestart, CreateInv, CreateTypeOK, Onward, workspace
<1>6. AnswerInv(r)'
  BY <1>2 DEF LinkRestart, From, AnswerInv, CreateInv, CreateTypeOK, State
<1>7. r \in Create => CreatorInv(r)'
  BY <1>2, CreateAssumption DEF LinkRestart, From, CreatorInv, CreateInv, CreateTypeOK, State, workspace
<1> QED BY <1>1, <1>3, <1>4, <1>5, <1>6, <1>7, OneMoves

LEMMA QueueRestartKeepsInv ==
    ASSUME CreateInv, NEW r \in Restart, QueueRestart(r)
    PROVE  CreateInv'
<1> r \in Request BY DEF Request
<1>1. Goto(r, "over") /\ "over" \in Stand
  BY DEF QueueRestart, From, Stand
<1>2. pc' \in [Request -> Stand] /\ pc'[r] = "over"
  BY <1>1, Moves DEF CreateInv, CreateTypeOK
<1>3. CreateTypeOK'
  BY <1>2, CreateAssumption DEF QueueRestart, CreateInv, CreateTypeOK, State, workspace
<1>4. KeyInv'
  BY CreateAssumption DEF QueueRestart, From, CreateInv, CreateTypeOK, KeyInv, AnswerInv, State, workspace
<1>5. Onward
  BY DEF QueueRestart, CreateInv, CreateTypeOK, Onward, workspace
<1>6. AnswerInv(r)'
  BY <1>2 DEF QueueRestart, From, AnswerInv, CreateInv, CreateTypeOK, State
<1>7. r \in Create => CreatorInv(r)'
  BY <1>2, CreateAssumption DEF QueueRestart, From, CreatorInv, CreateInv, CreateTypeOK, State, workspace
<1> QED BY <1>1, <1>3, <1>4, <1>5, <1>6, <1>7, OneMoves

LEMMA AttemptEndsKeepsInv ==
    ASSUME CreateInv, NEW run \in jobs, AttemptEnds(run)
    PROVE  CreateInv'
<1>1. Onward /\ pc' = pc
  BY DEF AttemptEnds, Onward
<1>2. CreateTypeOK'
  BY DEF AttemptEnds, CreateInv, CreateTypeOK
<1>3. KeyInv'
  BY DEF AttemptEnds, CreateInv, KeyInv
<1>4. \A q \in Request : (q \in Create => CreatorInv(q)') /\ AnswerInv(q)'
  BY <1>1, OthersKeep
<1> QED BY <1>2, <1>3, <1>4 DEF CreateInv, Request

LEMMA StepsKeepInv ==
    ASSUME CreateInv, NEW q \in Request, Steps(q)
    PROVE  CreateInv'
<1>1. CASE Lookup(q) \/ Reserve(q) \/ CheckReservation(q) \/ Commit(q) \/ CommitFails(q)
  <2> q \in Create BY <1>1 DEF Lookup, Reserve, CheckReservation, Commit, CommitFails
  <2> QED BY <1>1, LookupKeepsInv, ReserveKeepsInv, CheckReservationKeepsInv, CommitKeepsInv,
             CommitFailsKeepsInv
<1>2. CASE AnswerLoser(q) \/ PublishFails(q) \/ Respond(q)
  <2> q \in Create BY <1>2 DEF AnswerLoser, PublishFails, Respond
  <2> QED BY <1>2, AnswerLoserKeepsInv, PublishFailsKeepsInv, RespondKeepsInv
<1>3. CASE ReadReservation(q) \/ ReadWorkspace(q) \/ Cancel(q) \/ AfterCancel(q) \/ Report(q)
  <2> q \in Asker BY <1>3 DEF ReadReservation, ReadWorkspace, Cancel, AfterCancel, Report
  <2> QED BY <1>3, ReadReservationKeepsInv, ReadWorkspaceKeepsInv, CancelKeepsInv,
             AfterCancelKeepsInv, ReportKeepsInv
<1>4. CASE BeginRestart(q) \/ LinkRestart(q) \/ QueueRestart(q)
  <2> q \in Restart BY <1>4 DEF BeginRestart, LinkRestart, QueueRestart
  <2> QED BY <1>4, BeginRestartKeepsInv, LinkRestartKeepsInv, QueueRestartKeepsInv
<1> QED BY <1>1, <1>2, <1>3, <1>4 DEF Steps

LEMMA CreateStepKeepsInv == CreateInv /\ [CreateNext]_createVars => CreateInv'
<1> SUFFICES ASSUME CreateInv, [CreateNext]_createVars PROVE CreateInv'
  OBVIOUS
<1>1. CASE \E q \in Request : Steps(q) \/ Dies(q)
  BY <1>1, StepsKeepInv, DiesKeepsInv
<1>2. CASE \E run \in jobs : AttemptEnds(run)
  BY <1>2, AttemptEndsKeepsInv
<1>3. CASE UNCHANGED createVars
  BY <1>3 DEF createVars, workspace, CreateInv, CreateTypeOK, KeyInv, CreatorInv, AnswerInv
<1> QED BY <1>1, <1>2, <1>3 DEF CreateNext

\* The whole of what is known of a key's rows and requests, in every state: what
\* was decided, by which create, and how far each request may be
\* (workspace-create-reservations.ts, createWorkspace, cancelWorkspaceCreate).
THEOREM CreateInvariant == CreateSpec => []CreateInv
BY CreateInitInv, CreateStepKeepsInv, PTL DEF CreateSpec

\* Every variable has its type; no attempt is over that has no job
\* (the columns of workspace_create_reservations and workspaces).
THEOREM CreateTypeCorrect == CreateSpec => []CreateTypeOK
BY CreateInvariant, PTL DEF CreateInv

-----------------------------------------------------------------------------
(***************************************************************************)
(* Each step is one of the decision's, or none.                            *)
(***************************************************************************)
\* The decision is made of the record, of what creates launched, and of answers.
Same == UNCHANGED <<reservation, jobs, told>>

LEMMA SameStutters == ASSUME Same PROVE UNCHANGED Decision!decisionVars
BY DEF Same, Decision!decisionVars, Outcome

\* A step that leaves the record and the jobs may only tell.
LEMMA Answering ==
    ASSUME NEW answer, TellOf(answer), answer = Outcome, answer # "open",
           UNCHANGED <<reservation, jobs>>
    PROVE  Decision!DecisionNext
<1>1. Decision!Tell
  BY DEF Decision!Tell, TellOf, Outcome
<1> QED BY <1>1 DEF Decision!DecisionNext

LEMMA CreatesDecide ==
    ASSUME CreateInv, NEW c \in Create, Steps(c)
    PROVE  [Decision!DecisionNext]_(Decision!decisionVars)
<1> c \in Request /\ c \notin Asker /\ c \notin Restart BY CreateAssumption DEF Request
<1>1. CASE Lookup(c) \/ CheckReservation(c) \/ CommitFails(c) \/ AnswerLoser(c) \/ PublishFails(c)
  <2>1. Same
    BY <1>1 DEF Same, Lookup, CheckReservation, CommitFails, AnswerLoser, PublishFails, workspace
  <2> QED BY <2>1, SameStutters
<1>2. CASE Reserve(c)
  <2>1. Outcome' = Outcome /\ jobs' = jobs /\ told' = told
    BY <1>2 DEF Reserve, Outcome, workspace
  <2> QED BY <2>1 DEF Decision!decisionVars
<1>3. CASE Commit(c)
  <2>1. Outcome = "open" /\ Outcome' = "made" /\ told' = told
    BY <1>3 DEF Commit, Outcome
  <2>2. jobs = {} /\ jobs' = jobs \cup {c}
    BY <1>3 DEF Commit, CreateInv, KeyInv
  <2>3. jobs' \cap Create = {c}
    BY <2>2
  <2>4. Decision!Make
    BY <2>1, <2>3 DEF Decision!Make
  <2> QED BY <2>4 DEF Decision!DecisionNext
<1>4. CASE Respond(c)
  <2>1. UNCHANGED <<reservation, jobs>>
    BY <1>4 DEF Respond, workspace
  <2>2. CASE pc[c] \in {"committed", "found"} /\ TellOf("made")
    <3>1. Outcome = "made"
      BY <2>2 DEF CreateInv, AnswerInv, Outcome
    <3> QED BY <2>1, <2>2, <3>1, Answering
  <2>3. CASE pc[c] = "refused" /\ TellOf("cancelled")
    <3>1. Outcome = "cancelled"
      BY <2>3 DEF CreateInv, AnswerInv, Outcome
    <3> QED BY <2>1, <2>3, <3>1, Answering
  <2> QED BY <1>4, <2>2, <2>3 DEF Respond
<1> QED BY <1>1, <1>2, <1>3, <1>4
        DEF Steps, ReadReservation, ReadWorkspace, Cancel, AfterCancel, Report, BeginRestart,
            LinkRestart, QueueRestart

LEMMA AskersDecide ==
    ASSUME CreateInv, NEW k \in Asker, Steps(k)
    PROVE  [Decision!DecisionNext]_(Decision!decisionVars)
<1> k \in Request /\ k \notin Create /\ k \notin Restart BY CreateAssumption DEF Request
<1>1. CASE ReadReservation(k) \/ ReadWorkspace(k) \/ AfterCancel(k)
  <2>1. Same
    BY <1>1 DEF Same, ReadReservation, ReadWorkspace, AfterCancel, workspace
  <2> QED BY <2>1, SameStutters
<1>2. CASE Cancel(k)
  <2>1. jobs' = jobs /\ told' = told
    BY <1>2 DEF Cancel, workspace
  <2>2. CASE reservation \in {"none", "pending"}
    <3>1. Outcome = "open" /\ Outcome' = "cancelled"
      BY <1>2, <2>2 DEF Cancel, Outcome
    <3>2. Decision!CancelIt
      BY <2>1, <3>1 DEF Decision!CancelIt
    <3> QED BY <3>2 DEF Decision!DecisionNext
  <2>3. CASE reservation \notin {"none", "pending"}
    <3>1. Same
      BY <1>2, <2>1, <2>3 DEF Cancel, Same
    <3> QED BY <3>1, SameStutters
  <2> QED BY <2>2, <2>3
<1>3. CASE Report(k)
  <2>1. UNCHANGED <<reservation, jobs>>
    BY <1>3 DEF Report, workspace
  <2>2. CASE pc[k] = "found" /\ TellOf("made")
    <3>1. Outcome = "made"
      BY <2>2 DEF CreateInv, AnswerInv, Outcome
    <3> QED BY <2>1, <2>2, <3>1, Answering
  <2>3. CASE pc[k] = "refused" /\ TellOf("cancelled")
    <3>1. Outcome = "cancelled"
      BY <2>3 DEF CreateInv, AnswerInv, Outcome
    <3> QED BY <2>1, <2>3, <3>1, Answering
  <2> QED BY <1>3, <2>2, <2>3 DEF Report
<1> QED BY <1>1, <1>2, <1>3
        DEF Steps, Lookup, Reserve, CheckReservation, Commit, CommitFails, AnswerLoser,
            PublishFails, Respond, BeginRestart, LinkRestart, QueueRestart

\* A restart's run is no create's.
LEMMA RestartsDecideNothing ==
    ASSUME CreateInv, NEW r \in Restart, Steps(r)
    PROVE  UNCHANGED Decision!decisionVars
<1> r \notin Create /\ r \notin Asker BY CreateAssumption
<1>1. CASE BeginRestart(r) \/ LinkRestart(r)
  <2>1. Same
    BY <1>1 DEF Same, BeginRestart, LinkRestart, workspace
  <2> QED BY <2>1, SameStutters
<1>2. CASE QueueRestart(r)
  <2>1. jobs' \cap Create = jobs \cap Create /\ Outcome' = Outcome /\ told' = told
    BY <1>2 DEF QueueRestart, Outcome
  <2> QED BY <2>1 DEF Decision!decisionVars
<1> QED BY <1>1, <1>2
        DEF Steps, Lookup, Reserve, CheckReservation, Commit, CommitFails, AnswerLoser,
            PublishFails, Respond, ReadReservation, ReadWorkspace, Cancel, AfterCancel, Report

LEMMA StepDecides ==
    CreateInv /\ [CreateNext]_createVars => [Decision!DecisionNext]_(Decision!decisionVars)
<1> SUFFICES ASSUME CreateInv, [CreateNext]_createVars
             PROVE  [Decision!DecisionNext]_(Decision!decisionVars)
  OBVIOUS
<1>1. ASSUME NEW q \in Request, Steps(q)
      PROVE  [Decision!DecisionNext]_(Decision!decisionVars)
  BY <1>1, CreatesDecide, AskersDecide, RestartsDecideNothing DEF Request
<1>2. ASSUME NEW q \in Request, Dies(q)
      PROVE  UNCHANGED Decision!decisionVars
  BY <1>2, SameStutters DEF Dies, Same, workspace
<1>3. ASSUME NEW run \in jobs, AttemptEnds(run)
      PROVE  UNCHANGED Decision!decisionVars
  BY <1>3, SameStutters DEF AttemptEnds, Same
<1>4. CASE UNCHANGED createVars
  BY <1>4, SameStutters DEF createVars, Same, workspace
<1> QED BY <1>1, <1>2, <1>3, <1>4 DEF CreateNext

\* A key's create is decided once, launches once or not at all, and is told as
\* decided, for any creates, callers and restarts
\* (markCreated's and cancel's fences, createWorkspace's one transaction).
THEOREM CreateImplementsDecision == CreateSpec => ImplementsDecision
<1>1. CreateInit => Decision!DecisionInit
  BY DEF CreateInit, Decision!DecisionInit, Outcome
<1> QED BY <1>1, CreateInvariant, StepDecides, PTL
        DEF CreateSpec, ImplementsDecision, Decision!DecisionSpec

\* Who is left without an answer is so under a restart that is half written
\* (createWorkspace after reserve, and after its transaction failed).
THEOREM LosersHaveAnswers == CreateSpec => LosersAreAnswered
<1> DEFINE Answered ==
      \A c \in Create : pc[c] # "unanswered" /\ pc'[c] = "unanswered"
            => latest \in Restart \ jobs
<1>1. CreateInv /\ [CreateNext]_createVars => [Answered]_createVars
  <2> SUFFICES ASSUME CreateInv, CreateNext, NEW c \in Create,
                      pc[c] # "unanswered", pc'[c] = "unanswered"
               PROVE  latest \in Restart \ jobs
    BY DEF Answered
  <2>1. CheckReservation(c) \/ AnswerLoser(c)
    <3>1. PICK q \in Request : Steps(q) \/ Dies(q)
      BY DEF CreateNext, AttemptEnds
    <3>2. q = c
      BY <3>1 DEF Steps, Dies, Lookup, Reserve, CheckReservation, Commit, CommitFails,
             AnswerLoser, PublishFails, Respond, ReadReservation, ReadWorkspace, Cancel,
             AfterCancel, Report, BeginRestart, LinkRestart, QueueRestart, From, Goto,
             CreateInv, CreateTypeOK, Request
    <3> c \in Request /\ pc \in [Request -> Stand]
      BY DEF Request, CreateInv, CreateTypeOK
    <3> QED
      BY <3>1, <3>2 DEF Steps, Dies, Lookup, Reserve, Commit, CommitFails,
             PublishFails, Respond, ReadReservation, ReadWorkspace, Cancel,
             AfterCancel, Report, BeginRestart, LinkRestart, QueueRestart, From, Goto
  <2>2. reservation = "created" /\ ~Finished
    <3>1. pc[c] \in {"reserved", "lost", "clashed"} /\ CreatorInv(c)
      BY <2>1 DEF CheckReservation, AnswerLoser, CreateInv
    <3>2. c \in Request /\ pc \in [Request -> Stand]
      BY DEF Request, CreateInv, CreateTypeOK
    <3>3. CASE CheckReservation(c)
      BY <3>2, <3>3 DEF CheckReservation, Goto
    <3>4. CASE AnswerLoser(c)
      BY <3>1, <3>2, <3>4 DEF AnswerLoser, Goto, CreatorInv
    <3> QED BY <2>1, <3>3, <3>4
  <2> QED BY <2>2 DEF Finished, CreateInv, KeyInv
<1> QED BY <1>1, CreateInvariant, PTL DEF CreateSpec, LosersAreAnswered
=============================================================================
