-------------------------- MODULE MCRecoveryRunner --------------------------
(***************************************************************************)
(* RecoveryRunner for TLC: two epochs of three samples in groups of two,   *)
(* so that every epoch ends with a short group unless a sample is skipped. *)
(***************************************************************************)
EXTENDS RecoveryRunner

MCOversizedSets == {{}, {1}, {3}}
=============================================================================
