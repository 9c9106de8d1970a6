--------------------------- MODULE MCLaunchOwnership ---------------------------
(***************************************************************************)
(* LaunchOwnership for TLC: claims are interchangeable.                    *)
(***************************************************************************)
EXTENDS LaunchOwnership, TLC

ClaimSymmetry == Permutations(Claim)
=============================================================================
