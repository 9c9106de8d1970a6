--------------------------- MODULE CreateReservation ---------------------------
(***************************************************************************)
(* The creates of one idempotency key: requests that repeat one another    *)
(* (createWorkspace), callers that ask what became of it or cancel it      *)
(* (workspaceCreateState, cancelWorkspaceCreate), and restarts of the      *)
(* workspace it made (restartWorkspace), which write the same rows with no *)
(* regard to the key.  Each request may die wherever it stands, and a      *)
(* delayed one is one that did not begin yet.                              *)
(*                                                                         *)
(* A run is named by the request that made it.  What a create refuses for  *)
(* reasons of its own (its spec, a budget) is one of its deaths.           *)
(***************************************************************************)
CONSTANTS
    Create,     \* the requests with the key
    Asker,      \* callers of its state or its cancellation
    Restart,    \* restarts of the workspace
    Earlier,    \* the run of a create from before creates were atomic
    Nobody      \* no run

ASSUME CreateAssumption ==
    /\ Create \cap Asker = {} /\ Create \cap Restart = {} /\ Asker \cap Restart = {}
    /\ Earlier \notin Create \cup Restart
    /\ Nobody \notin Create \cup Restart \cup {Earlier}

Request == Create \cup Asker \cup Restart

VARIABLES
    reservation,   \* workspace_create_reservations.state, or none
    row,           \* there is a workspace with the key
    latest,        \* its latest_run_id
    jobs,          \* the runs that have a launch job
    ended,         \* those whose attempt is over
    pc,            \* per request: where it stands
    resuming,      \* the creates that found a half-made workspace
    told           \* what callers were told for good

workspace == <<row, latest, jobs, ended>>
createVars == <<reservation, workspace, pc, resuming, told>>

State == {"none", "pending", "created", "cancelled"}
Stand == {"idle", "looked", "reserved", "admitted", "lost", "clashed", "committed",
          "found", "refused", "unanswered",
          "asked", "undecided", "decided", "relaunching", "linked", "over"}

CreateTypeOK ==
    /\ reservation \in State
    /\ row \in BOOLEAN
    /\ latest \in Create \cup Restart \cup {Earlier, Nobody}
    /\ jobs \subseteq Create \cup Restart
    /\ ended \subseteq jobs
    /\ pc \in [Request -> Stand]
    /\ resuming \subseteq Create
    /\ told \subseteq {"made", "cancelled"}

\* No create began; or one of before reservations died between its writes.
CreateInit ==
    /\ reservation = "none"
    /\ row \in BOOLEAN /\ latest \in {Nobody, Earlier} /\ (latest = Earlier => row)
    /\ jobs = {} /\ ended = {}
    /\ pc = [q \in Request |-> "idle"]
    /\ resuming = {} /\ told = {}

Goto(q, s) == pc' = [pc EXCEPT ![q] = s]
From(q, s, t) == pc[q] = s /\ Goto(q, t)
TellOf(answer) == told' = told \cup {answer}

\* workspaceCreateFinished: its latest run has its launch job.
Finished == row /\ latest \in jobs

-----------------------------------------------------------------------------
(***************************************************************************)
(* createWorkspace, of a request with the key.                             *)
(***************************************************************************)

\* findIdempotentWorkspace: replayed, to be finished, or not there.
Lookup(c) ==
    /\ c \in Create
    /\ From(c, "idle", IF Finished THEN "found" ELSE "looked")
    /\ resuming' = IF row /\ ~Finished THEN resuming \cup {c} ELSE resuming
    /\ UNCHANGED <<reservation, workspace, told>>

\* reserve: pending, unless there is a record.
Reserve(c) ==
    /\ c \in Create /\ From(c, "looked", "reserved")
    /\ reservation' = IF reservation = "none" THEN "pending" ELSE reservation
    /\ UNCHANGED <<workspace, resuming, told>>

\* It goes by the record as it now stands.
CheckReservation(c) ==
    /\ c \in Create /\ pc[c] = "reserved"
    /\ \/ reservation = "cancelled" /\ Goto(c, "refused")
       \/ reservation = "created" /\ Goto(c, IF Finished THEN "found" ELSE "unanswered")
       \/ reservation = "pending" /\ Goto(c, "admitted")
    /\ UNCHANGED <<reservation, workspace, resuming, told>>

\* Mutant: the commit is not fenced on the reservation.
Commit_Unfenced(c) ==
    /\ c \in Create
    /\ c \in resuming \/ ~row
    /\ From(c, "admitted", "committed")
    /\ reservation' = "created"
    /\ row' = TRUE /\ latest' = c /\ jobs' = jobs \cup {c}
    /\ UNCHANGED <<ended, resuming, told>>

\* The transaction: the workspace (unless it is there to be finished), its
\* attempt, the link, the launch job, and markCreated, while it is pending.
Commit(c) ==
    /\ c \in Create
    /\ c \in resuming \/ ~row
    /\ reservation = "pending"
    /\ From(c, "admitted", "committed")
    /\ reservation' = "created"
    /\ row' = TRUE /\ latest' = c /\ jobs' = jobs \cup {c}
    /\ UNCHANGED <<ended, resuming, told>>

\* CreateReservationLost, and the unique index on the owner's keys.
CommitFails(c) ==
    /\ c \in Create
    /\ \/ (c \in resuming \/ ~row) /\ reservation # "pending" /\ From(c, "admitted", "lost")
       \/ c \notin resuming /\ row /\ From(c, "admitted", "clashed")
    /\ UNCHANGED <<reservation, workspace, resuming, told>>

\* Mutant: a create that lost its key asks only for a workspace.
AnswerLoser_NotCancelled(c) ==
    /\ c \in Create
    /\ pc[c] \in {"lost", "clashed"}
    /\ Goto(c, IF Finished THEN "found" ELSE "unanswered")
    /\ UNCHANGED <<reservation, workspace, resuming, told>>

\* Who won: the owner who cancelled it, or another create.
AnswerLoser(c) ==
    /\ c \in Create
    /\ \/ pc[c] = "lost" /\ reservation = "cancelled" /\ Goto(c, "refused")
       \/ /\ pc[c] = "clashed" \/ (pc[c] = "lost" /\ reservation # "cancelled")
          /\ Goto(c, IF Finished THEN "found" ELSE "unanswered")
    /\ UNCHANGED <<reservation, workspace, resuming, told>>

\* publishRequested fails: job, attempt and workspace are failed.
PublishFails(c) ==
    /\ c \in Create /\ From(c, "committed", "over")
    /\ ended' = ended \cup {c}
    /\ UNCHANGED <<reservation, row, latest, jobs, resuming, told>>

\* The response: accepted or replayed, or refused as cancelled.
Respond(c) ==
    /\ c \in Create
    /\ \/ pc[c] \in {"committed", "found"} /\ TellOf("made")
       \/ pc[c] = "refused" /\ TellOf("cancelled")
    /\ Goto(c, "over")
    /\ UNCHANGED <<reservation, workspace, resuming>>

-----------------------------------------------------------------------------
(***************************************************************************)
(* getWorkspaceCreate and cancelWorkspaceCreate.                           *)
(***************************************************************************)

\* workspaceCreateState reads the record first ...
ReadReservation(k) ==
    /\ k \in Asker
    /\ From(k, "idle", IF reservation = "cancelled" THEN "refused" ELSE "asked")
    /\ UNCHANGED <<reservation, workspace, resuming, told>>

\* ... then the workspace.  Pending and none are not for good: a caller stops
\* there, or means to cancel.
ReadWorkspace(k) ==
    /\ k \in Asker
    /\ \/ Finished /\ From(k, "asked", "found")
       \/ ~Finished /\ From(k, "asked", "undecided")
       \/ ~Finished /\ From(k, "asked", "over")
    /\ UNCHANGED <<reservation, workspace, resuming, told>>

\* cancel: of an absent or pending record.
Cancel(k) ==
    /\ k \in Asker /\ From(k, "undecided", "decided")
    /\ reservation' = IF reservation \in {"none", "pending"} THEN "cancelled" ELSE reservation
    /\ UNCHANGED <<workspace, resuming, told>>

\* It committed between the read and the cancel: its state once more.
AfterCancel(k) ==
    /\ k \in Asker
    /\ \/ reservation = "cancelled" /\ From(k, "decided", "refused")
       \/ reservation # "cancelled" /\ Finished /\ From(k, "decided", "found")
       \/ reservation # "cancelled" /\ ~Finished /\ From(k, "decided", "over")
    /\ UNCHANGED <<reservation, workspace, resuming, told>>

Report(k) ==
    /\ k \in Asker
    /\ \/ pc[k] = "found" /\ TellOf("made")
       \/ pc[k] = "refused" /\ TellOf("cancelled")
    /\ Goto(k, "over")
    /\ UNCHANGED <<reservation, workspace, resuming>>

-----------------------------------------------------------------------------
(***************************************************************************)
(* restartWorkspace, whose writes are separate.                            *)
(***************************************************************************)

\* Of a workspace whose latest attempt is over and has its job.
BeginRestart(r) ==
    /\ r \in Restart
    /\ latest \in ended
    /\ From(r, "idle", "relaunching")
    /\ UNCHANGED <<reservation, workspace, resuming, told>>

\* createQueuedAttempt, linkWorkspaceAttempt
LinkRestart(r) ==
    /\ r \in Restart /\ From(r, "relaunching", "linked")
    /\ latest' = r
    /\ UNCHANGED <<reservation, row, jobs, ended, resuming, told>>

\* insertQueuedJob
QueueRestart(r) ==
    /\ r \in Restart /\ From(r, "linked", "over")
    /\ jobs' = jobs \cup {r}
    /\ UNCHANGED <<reservation, row, latest, ended, resuming, told>>

-----------------------------------------------------------------------------
\* The worker fails or finishes a launch, or a restart's publish fails.
AttemptEnds(run) ==
    /\ run \in jobs \ ended
    /\ ended' = ended \cup {run}
    /\ UNCHANGED <<reservation, row, latest, jobs, pc, resuming, told>>

Dies(q) ==
    /\ pc[q] \notin {"over", "unanswered"}
    /\ Goto(q, "over")
    /\ UNCHANGED <<reservation, workspace, resuming, told>>

Steps(q) ==
    \/ Lookup(q) \/ Reserve(q) \/ CheckReservation(q) \/ Commit(q) \/ CommitFails(q)
    \/ AnswerLoser(q) \/ PublishFails(q) \/ Respond(q)
    \/ ReadReservation(q) \/ ReadWorkspace(q) \/ Cancel(q) \/ AfterCancel(q) \/ Report(q)
    \/ BeginRestart(q) \/ LinkRestart(q) \/ QueueRestart(q)

CreateNext ==
    \/ \E q \in Request : Steps(q) \/ Dies(q)
    \/ \E run \in jobs : AttemptEnds(run)

CreateSpec == CreateInit /\ [][CreateNext]_createVars

-----------------------------------------------------------------------------
Outcome == CASE reservation = "created" -> "made"
             [] reservation = "cancelled" -> "cancelled"
             [] OTHER -> "open"

Decision == INSTANCE CreateDecision WITH
    outcome <- Outcome, launches <- jobs \cap Create, told <- told

\* The key is decided once, one launch comes of it if made and none if cancelled,
\* and no two callers are told differently, however delayed creates, repeats,
\* cancellations and restarts interleave (markCreated's and cancel's fences).
ImplementsDecision == Decision!DecisionSpec

\* A create whose key another one committed, or its owner cancelled, is answered
\* so: it ends with an error only while a restart of the workspace is half
\* written, or for ever once one died there, though "a created key replays its
\* workspace" (control-plane.ts:828; createWorkspace after reserve, and after its
\* transaction failed).
LosersAreAnswered ==
    [][\A c \in Create : pc[c] # "unanswered" /\ pc'[c] = "unanswered"
            => latest \in Restart \ jobs]_createVars
=============================================================================
