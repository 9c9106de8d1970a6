--------------------------- MODULE MCCaptureEvidence ---------------------------
(***************************************************************************)
(* CaptureEvidence for TLC: observation tokens are interchangeable.        *)
(***************************************************************************)
EXTENDS CaptureEvidence, TLC

TokenSymmetry == Permutations(Observation)
=============================================================================
