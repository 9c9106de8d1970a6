-------------------------- MODULE MCCreateReservation --------------------------
(***************************************************************************)
(* CreateReservation for TLC: its requests of a kind are interchangeable.  *)
(***************************************************************************)
EXTENDS CreateReservation, TLC

RequestSymmetry ==
    Permutations(Create) \cup Permutations(Asker) \cup Permutations(Restart)
=============================================================================
