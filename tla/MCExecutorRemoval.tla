--------------------------- MODULE MCExecutorRemoval ---------------------------
(***************************************************************************)
(* ExecutorRemoval for TLC: the tokens of observations, tickets and        *)
(* recovery attempts are interchangeable.                                  *)
(***************************************************************************)
EXTENDS ExecutorRemoval, TLC

TokenSymmetry ==
    Permutations(Observation) \cup Permutations(Ticket) \cup Permutations(Attempt)
=============================================================================
