--------------------------- MODULE ExecutorCustody ---------------------------
(***************************************************************************)
(* What is promised the owner of an executor's work, with none of the      *)
(* machinery: no fences, no tickets, no leases, no versions, no orders of  *)
(* arrival, no rows and no sweeps.  CaptureEvidence and ExecutorRemoval    *)
(* promise it of every answer; RuntimeExit promises it of the stops,       *)
(* passes and recoveries that go by the record.                            *)
(*                                                                         *)
(* The executor tells whoever asks whether its work is saved.  It may be   *)
(* removed only while the last thing it told ANYONE is that it is; from    *)
(* then on it is told nothing more, so that nothing it could say is        *)
(* overruled; and a removal that comes to nothing gives it back.  Only its *)
(* platform may take it whatever it said, and that is known.               *)
(***************************************************************************)
VARIABLES
    verdict,   \* the last answer it gave to anyone
    custody,   \* whether a removal of it may still happen
    discard,   \* whether its unsaved work was given up, or it never held any
    lost       \* whether its platform took it

custodyVars == <<verdict, custody, discard, lost>>

CustodyTypeOK ==
    /\ verdict \in {"unknown", "unsaved", "saved"}
    /\ custody \in {"kept", "removing", "gone"}
    /\ discard \in BOOLEAN /\ lost \in BOOLEAN

CustodyInit ==
    /\ verdict = "unknown" /\ custody = "kept"
    /\ discard \in BOOLEAN /\ lost = FALSE

Answers ==
    /\ custody = "kept"
    /\ verdict' \in {"unsaved", "saved"}
    /\ UNCHANGED <<custody, discard, lost>>

BeginRemoval ==
    /\ custody = "kept"
    /\ verdict = "saved"
    /\ custody' = "removing"
    /\ UNCHANGED <<verdict, discard, lost>>

\* The runtime refused, or its bound on every request passed.
GiveUp ==
    /\ custody = "removing"
    /\ custody' = "kept"
    /\ UNCHANGED <<verdict, discard, lost>>

Remove ==
    /\ custody = "removing" \/ (custody = "kept" /\ discard)
    /\ custody' = "gone"
    /\ UNCHANGED <<verdict, discard, lost>>

Discard ==
    /\ discard' = TRUE
    /\ UNCHANGED <<verdict, custody, lost>>

\* Whatever was said, and whatever is under way.
Lose ==
    /\ custody # "gone"
    /\ custody' = "gone" /\ lost' = TRUE
    /\ UNCHANGED <<verdict, discard>>

\* What went unsaved, as far as anyone knew, may be found to have been saved.
LearnLate ==
    /\ custody = "gone" /\ (lost \/ discard)
    /\ verdict' = "saved"
    /\ UNCHANGED <<custody, discard, lost>>

CustodyNext ==
    \/ Answers \/ BeginRemoval \/ GiveUp \/ Remove \/ Discard
    \/ Lose \/ LearnLate

CustodySpec == CustodyInit /\ [][CustodyNext]_custodyVars
=============================================================================
