----------------------------- MODULE MCRuntimeExit -----------------------------
(***************************************************************************)
(* RuntimeExit for TLC.  Liveness is checked of a capture-sourced run on a *)
(* runtime that keeps remains, where a removal takes the most steps, with  *)
(* an owner's discard only while nobody is at work on the run.             *)
(***************************************************************************)
EXTENDS RuntimeExit

KeptInit == ExitInit /\ captures /\ keeps

KeptNext == ExitNext /\ (discard' # discard => ~Attended)

FairKeptSpec == KeptInit /\ [][KeptNext]_vars /\ ExitFairness
=============================================================================
