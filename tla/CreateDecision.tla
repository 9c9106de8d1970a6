---------------------------- MODULE CreateDecision ----------------------------
(***************************************************************************)
(* What an idempotency key promises the owner of a workspace: its create   *)
(* is decided once, made or cancelled; one launch comes of it when made    *)
(* and none when cancelled; and whoever is told how it was decided is told *)
(* so.                                                                     *)
(***************************************************************************)
VARIABLES
    outcome,    \* how the key was decided, if it was
    launches,   \* the creates that launched
    told        \* what callers were told of it for good

decisionVars == <<outcome, launches, told>>

DecisionInit == outcome = "open" /\ launches = {} /\ told = {}

Make ==
    /\ outcome = "open"
    /\ outcome' = "made"
    /\ \E c \in launches' : launches' = {c}
    /\ UNCHANGED told

CancelIt ==
    /\ outcome = "open"
    /\ outcome' = "cancelled"
    /\ UNCHANGED <<launches, told>>

Tell ==
    /\ outcome # "open"
    /\ told' = told \cup {outcome}
    /\ UNCHANGED <<outcome, launches>>

DecisionNext == Make \/ CancelIt \/ Tell

DecisionSpec == DecisionInit /\ [][DecisionNext]_decisionVars
=============================================================================
