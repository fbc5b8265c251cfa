---------------------------- MODULE ModelExecutor ----------------------------
(***************************************************************************)
(* The contract of the ModelExecutor trait (src/engine.rs) as the engine   *)
(* uses it.  One action per possible return of one trait method; the three *)
(* executors of the crate (CPU, CUDA, Metal) and their threaded adapters   *)
(* differ only in which of these returns they can produce.                 *)
(*                                                                         *)
(* Data is abstracted: the recurrent and KV state is the number of target  *)
(* tokens it holds, a speculative branch is its number of drafts, and what *)
(* a method that returned an error leaves behind is "partial": some layers *)
(* may have advanced and others not.                                       *)
(***************************************************************************)
EXTENDS Naturals

CONSTANTS
  MaxContext,      \* MemoryProfile.context_tokens
  MaxDrafts,       \* MemoryProfile.mtp_draft_tokens, 0 disables MTP
  ExecutorDrafts   \* ExecutorCapabilities.maximum_draft_tokens

\* validate_executor refuses an executor whose draft depth is smaller than
\* the admitted profile's.
ASSUME ExecutorAssumption ==
  /\ MaxContext \in Nat \ {0}
  /\ MaxDrafts \in Nat
  /\ ExecutorDrafts \in Nat
  /\ MaxDrafts <= ExecutorDrafts

VARIABLES
  model,      \* "absent"; "resident" after load, "warm" after warmup; "residue"
              \* when the model is gone and allocations() is still not zero
  position,   \* target tokens held by the session state
  pending,    \* drafts of a branch not yet resolved by commit_speculative
  state       \* "whole", or "partial" once a method may have failed halfway

executorVars == <<model, position, pending, state>>

ExecutorTypeOK ==
  /\ model \in {"absent", "resident", "warm", "residue"}
  /\ position \in 0..MaxContext
  /\ pending \in 0..ExecutorDrafts
  /\ state \in {"whole", "partial"}

\* The executor value handed to load: nothing allocated.
ExecutorInit ==
  /\ model = "absent"
  /\ position = 0
  /\ pending = 0
  /\ state = "whole"

Allocations == IF model = "absent" THEN "zero" ELSE "nonzero"

-----------------------------------------------------------------------------
(* load and warmup *)

LoadOk ==
  /\ model' = "resident"
  /\ position' = 0 /\ pending' = 0
  /\ state' = "whole"

WarmupOk ==
  /\ model = "resident"
  /\ model' = "warm"
  /\ UNCHANGED <<position, pending, state>>

WarmupErr == UNCHANGED executorVars

-----------------------------------------------------------------------------
(* prefill and decode.  Both need a warm model; both advance the state      *)
(* before they can fail.                                                   *)

\* prefill(tokens) builds the session state anew from n tokens.
PrefillOk(n) ==
  /\ model = "warm"
  /\ position' = n
  /\ pending' = 0
  /\ state' = "whole"
  /\ UNCHANGED model

PrefillErr ==
  /\ state' = state \/ (model = "warm" /\ state' = "partial")
  /\ UNCHANGED <<model, position, pending>>

\* decode(token) advances the target by one token and, with MTP, leaves a
\* branch of d drafts, all of whose positions must fit the state.
DecodeOk(mtp, d) ==
  /\ model = "warm"
  /\ pending = 0
  /\ d \in IF mtp THEN 1..ExecutorDrafts ELSE {0}
  /\ position + 1 + d <= MaxContext
  /\ position' = position + 1
  /\ pending' = d
  /\ UNCHANGED <<model, state>>

DecodeErr ==
  /\ state' = state \/ (model = "warm" /\ state' = "partial")
  /\ UNCHANGED <<model, position, pending>>

\* Mutant: the whole branch is kept whatever prefix was accepted.
CommitWholeBranch(k) ==
  /\ pending > 0
  /\ k <= pending
  /\ position' = position + pending
  /\ pending' = 0
  /\ UNCHANGED <<model, state>>

\* commit_speculative(k) keeps the first k drafts of the branch.
CommitOk(k) ==
  /\ pending > 0
  /\ k <= pending
  /\ position' = position + k
  /\ pending' = 0
  /\ UNCHANGED <<model, state>>

CommitErr ==
  /\ state' = "partial"
  /\ pending' = 0
  /\ UNCHANGED <<model, position>>

-----------------------------------------------------------------------------
(* reset_session and unload *)

\* Succeeds with or without a resident model.
ResetOk ==
  /\ position' = 0 /\ pending' = 0
  /\ state' = "whole"
  /\ UNCHANGED model

ResetErr ==
  /\ state' = "partial"
  /\ pending' = 0
  /\ UNCHANGED <<model, position>>

\* unload drops the model; r says whether allocations() still reports bytes.
UnloadDrops(r) ==
  /\ model' = IF r THEN "residue" ELSE "absent"
  /\ position' = 0 /\ pending' = 0
  /\ state' = "whole"

\* An unload that fails before it drops anything (Metal's own reset failed).
UnloadErrEarly ==
  /\ state' = "partial"
  /\ pending' = 0
  /\ UNCHANGED <<model, position>>
=============================================================================
