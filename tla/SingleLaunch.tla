----------------------------- MODULE SingleLaunch -----------------------------
(***************************************************************************)
(* What LaunchOwnership promises of one run, with none of its machinery:   *)
(* no job, no claims, no leases, no sweeps and no worker that may die.     *)
(*                                                                         *)
(* The run is launched as if one process did it.  An executor is asked for *)
(* once, while the launch is pending; the launch is settled once, and then *)
(* nobody but a stop says otherwise; a ready or retained launch is found   *)
(* by whoever looks for its executor, and a lost one left none.            *)
(***************************************************************************)
VARIABLES
    outcome,    \* what is on record of the launch
    executor,   \* the one executor it may have asked for
    found,      \* whether the record leads to it
    holdsWork   \* whether the executor may hold the only copy of its run's work

launchVars == <<outcome, executor, found, holdsWork>>

LaunchInit ==
    /\ outcome = "none" /\ executor = "none" /\ found = FALSE
    /\ holdsWork \in BOOLEAN

Record == outcome = "none" /\ outcome' = "pending" /\ UNCHANGED <<executor, found, holdsWork>>

\* Before anything was asked for.
Refuse == outcome = "none" /\ outcome' = "failed" /\ UNCHANGED <<executor, found, holdsWork>>

Ask ==
    /\ outcome = "pending" /\ executor = "none"
    /\ executor' = "creating"
    /\ UNCHANGED <<outcome, found, holdsWork>>

\* Whatever the launch came to meanwhile.
Land ==
    /\ executor = "creating"
    /\ executor' \in {"up", "gone"}
    /\ UNCHANGED <<outcome, found, holdsWork>>

Find ==
    /\ outcome = "pending" /\ executor = "up"
    /\ found' = TRUE
    /\ UNCHANGED <<outcome, executor, holdsWork>>

Ready ==
    /\ outcome = "pending" /\ found
    /\ outcome' = "ready"
    /\ UNCHANGED <<executor, found, holdsWork>>

\* What a launch that failed leaves of its executor: one that holds work is kept,
\* any other may be cleaned up.
Leaves == IF executor = "up" /\ ~holdsWork THEN {"up", "gone"} ELSE {executor}

\* There is nothing to keep.
Fail ==
    /\ outcome = "pending"
    /\ executor \in {"none", "gone"} \/ (executor = "up" /\ ~holdsWork)
    /\ outcome' = "failed" /\ executor' \in Leaves
    /\ UNCHANGED <<found, holdsWork>>

Retain ==
    /\ outcome = "pending"
    /\ found \/ executor = "up"
    /\ outcome' = "retained" /\ found' = TRUE /\ executor' \in Leaves
    /\ UNCHANGED holdsWork

Lose ==
    /\ outcome = "pending" /\ ~found
    /\ executor \in {"none", "gone"}
    /\ outcome' = "lost"
    /\ UNCHANGED <<executor, found, holdsWork>>

\* Later, of any launch that was not made ready.
CleanUp ==
    /\ outcome \notin {"none", "ready"}
    /\ executor' \in Leaves
    /\ UNCHANGED <<outcome, found, holdsWork>>

\* A stop ends what it finds, and says so, of any launch that was recorded.
End ==
    /\ outcome # "none" /\ found /\ executor = "up"
    /\ executor' = "gone"
    /\ UNCHANGED <<outcome, found, holdsWork>>

Stop ==
    /\ outcome # "none"
    /\ outcome' = "stopped"
    /\ UNCHANGED <<executor, found, holdsWork>>

LaunchNext ==
    \/ Record \/ Refuse \/ Ask \/ Land \/ Find
    \/ Ready \/ Fail \/ Retain \/ Lose \/ CleanUp \/ End \/ Stop

LaunchSpec == LaunchInit /\ [][LaunchNext]_launchVars
=============================================================================
