-------------------------- MODULE ExecutorContract --------------------------
(***************************************************************************)
(* The ModelExecutor contract as a specification: any sequence of returns  *)
(* that its methods may give a caller, whatever the executor.              *)
(***************************************************************************)
EXTENDS ModelExecutor

\* The engine prefills only where no session is.
PrefillFresh(n) == position = 0 /\ pending = 0 /\ PrefillOk(n)

ContractNext ==
  \/ LoadOk \/ WarmupOk
  \/ \E n \in 1 .. MaxContext : PrefillFresh(n)
  \/ \E mtp \in BOOLEAN, d \in 0 .. ExecutorDrafts : DecodeOk(mtp, d)
  \/ \E k \in 0 .. ExecutorDrafts : CommitOk(k)
  \/ PrefillErr \/ DecodeErr \/ CommitErr
  \/ ResetOk \/ ResetErr
  \/ \E residue \in BOOLEAN : UnloadDrops(residue)

ContractSpec == ExecutorInit /\ [][ContractNext]_executorVars

=============================================================================
