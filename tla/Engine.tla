------------------------------- MODULE Engine -------------------------------
(***************************************************************************)
(* Engine<E> of src/engine.rs: the lifecycle that owns one model executor  *)
(* and at most one session.                                                *)
(*                                                                         *)
(* Every method takes &mut self, so at most one call is in progress; what  *)
(* does run beside a call is CancellationToken::cancel, from any thread.   *)
(* prefill and decode are therefore cut at the points where they look at   *)
(* the token: before the executor call, after it, and inside               *)
(* commit_speculative.  invalidate_session is a step of its own because    *)
(* every error path ends in it and its own failure has to be seen.         *)
(***************************************************************************)
EXTENDS ModelExecutor

CONSTANTS
  SessionIds,      \* SessionOptions.id
  Tokens,          \* identities of CancellationToken allocations
  NoSession,       \* None of Engine.session
  ExecutorMtp      \* ExecutorCapabilities.mtp

ASSUME EngineAssumption ==
  /\ NoSession \notin [id : SessionIds, context_tokens : 0..MaxContext,
                       mtp_enabled : BOOLEAN]
  /\ ExecutorMtp = (ExecutorDrafts > 0)

VARIABLES
  lifecycle,  \* Engine.lifecycle; "None" when no Engine value exists
  session,    \* Engine.session: NoSession or SessionStatus
  sampler,    \* Engine.sampler: "None" or "Some"
  artifact,   \* Engine.artifact: "None" or "Some"
  call,       \* the call in progress and where it is
  result,     \* what the last finished call returned
  cancelled   \* tokens whose AtomicBool is set

engineVars == <<lifecycle, session, sampler, artifact, call, result>>
vars == <<executorVars, engineVars, cancelled>>

Lifecycles == {"None", "Loaded", "Warm", "Active", "UnloadFailed", "Unloaded"}
Sessions == [id : SessionIds, context_tokens : 0..MaxContext,
             mtp_enabled : BOOLEAN]
Operations == {"none", "load", "warmup", "prefill", "decode",
               "reset_session", "unload", "drop"}
Statuses == {"ok", "rejected", "cancelled", "failed"}

Call == [op : {"prefill", "decode"},
         at : {"check", "execute", "finish", "commit", "invalidate"},
         token : Tokens, id : SessionIds, mtp : BOOLEAN,
         length : 0..MaxContext,         \* prompt tokens of a prefill
         drafts : 0..ExecutorDrafts,     \* ExecutorStep.draft_count
         accepted : 0..ExecutorDrafts,   \* prefix kept by verify_greedy_mtp
         valid : BOOLEAN,                \* ExecutorStep.validate
         status : Statuses]              \* what to return after invalidation

NoCall == [op |-> "none", at |-> "idle"]

\* What prefill or decode starts from.
NewCall(op, token, id, mtp, length) ==
  [op |-> op, at |-> "check", token |-> token, id |-> id, mtp |-> mtp,
   length |-> length, drafts |-> 0, accepted |-> 0, valid |-> TRUE,
   status |-> "ok"]

Result == [op : Operations, status : Statuses, tokens : 0..ExecutorDrafts + 1]

EngineTypeOK ==
  /\ ExecutorTypeOK
  /\ lifecycle \in Lifecycles
  /\ session \in Sessions \cup {NoSession}
  /\ sampler \in {"None", "Some"}
  /\ artifact \in {"None", "Some"}
  /\ call \in Call \cup {NoCall}
  /\ result \in Result
  /\ cancelled \in SUBSET Tokens

Idle == call = NoCall

\* A call returns: nothing in progress, its result recorded.
Returns(op, status, tokens) ==
  /\ call' = NoCall
  /\ result' = [op |-> op, status |-> status, tokens |-> tokens]

MoveTo(at) == call' = [call EXCEPT !.at = at] /\ UNCHANGED result

\* Mutant: return the error and leave the session as it is.
AbandonKeepingSession(status) == Returns(call.op, status, 0)

\* Leave the call for invalidate_session, to return status afterwards.
Abandon(status) ==
  /\ call' = [call EXCEPT !.at = "invalidate", !.status = status]
  /\ UNCHANGED result

Init ==
  /\ ExecutorInit
  /\ lifecycle = "None"
  /\ session = NoSession
  /\ sampler = "None"
  /\ artifact = "None"
  /\ call = NoCall
  /\ result = [op |-> "none", status |-> "ok", tokens |-> 0]
  /\ cancelled = {}

-----------------------------------------------------------------------------
(* load_preverified_release: a failed executor.load is unloaded and no      *)
(* Engine value is made.                                                    *)

LoadSucceeds ==
  /\ LoadOk
  /\ lifecycle' = "Loaded"
  /\ artifact' = "Some"
  /\ Returns("load", "ok", 0)
  /\ UNCHANGED <<session, sampler>>

LoadFails ==
  /\ Returns("load", "failed", 0)
  /\ UNCHANGED <<executorVars, lifecycle, session, sampler, artifact>>

Load ==
  /\ Idle /\ lifecycle = "None"
  /\ LoadSucceeds \/ LoadFails
  /\ UNCHANGED cancelled

Warmup ==
  /\ Idle /\ lifecycle # "None"
  /\ \/ /\ lifecycle = "Warm"
        /\ Returns("warmup", "ok", 0)
        /\ UNCHANGED <<executorVars, lifecycle>>
     \/ /\ lifecycle = "Loaded"
        /\ \/ WarmupOk /\ lifecycle' = "Warm" /\ Returns("warmup", "ok", 0)
           \/ WarmupErr /\ UNCHANGED lifecycle /\ Returns("warmup", "failed", 0)
     \/ /\ lifecycle \notin {"Warm", "Loaded"}
        /\ Returns("warmup", "rejected", 0)
        /\ UNCHANGED <<executorVars, lifecycle>>
  /\ UNCHANGED <<session, sampler, artifact, cancelled>>

-----------------------------------------------------------------------------
(* prefill *)

\* Mutant: the prompt is not compared with the profile's capacity.
PrefillAdmittedAnyLength(length, mtp, greedy) ==
  /\ lifecycle = "Warm" /\ session = NoSession
  /\ length > 0
  /\ mtp => ExecutorMtp /\ MaxDrafts > 0 /\ greedy

PrefillAdmitted(length, mtp, greedy) ==
  /\ lifecycle = "Warm" /\ session = NoSession
  /\ length \in 1..MaxContext
  /\ mtp => ExecutorMtp /\ MaxDrafts > 0 /\ greedy

PrefillCall(token, id, length, mtp, greedy) ==
  /\ Idle /\ lifecycle # "None"
  /\ IF PrefillAdmitted(length, mtp, greedy)
     THEN /\ call' = NewCall("prefill", token, id, mtp, length)
          /\ UNCHANGED result
     ELSE Returns("prefill", "rejected", 0)
  /\ UNCHANGED <<executorVars, lifecycle, session, sampler, artifact, cancelled>>

\* Mutant: the token is only looked at once the executor has returned.
CheckAfterwards ==
  /\ call.at = "check"
  /\ MoveTo("execute")
  /\ UNCHANGED <<executorVars, lifecycle, session, sampler, artifact, cancelled>>

\* cancelled(cancellation)? before the executor call: nothing is touched.
Check ==
  /\ call.at = "check"
  /\ IF call.token \in cancelled
     THEN Returns(call.op, "cancelled", 0)
     ELSE MoveTo("execute")
  /\ UNCHANGED <<executorVars, lifecycle, session, sampler, artifact, cancelled>>

PrefillExecute ==
  /\ call.op = "prefill" /\ call.at = "execute"
  /\ \/ /\ PrefillOk(call.length)
        /\ \E valid \in BOOLEAN :
             call' = [call EXCEPT !.at = "finish", !.valid = valid]
        /\ UNCHANGED result
     \/ PrefillErr /\ Abandon("failed")
     \/ PrefillErr /\ call.token \in cancelled /\ Abandon("cancelled")
  /\ UNCHANGED <<lifecycle, session, sampler, artifact, cancelled>>

\* After the executor returned: the token, the output, the sampled token.
PrefillFinish ==
  /\ call.op = "prefill" /\ call.at = "finish"
  /\ \/ /\ call.token \in cancelled
        /\ Abandon("cancelled")
        /\ UNCHANGED <<lifecycle, session, sampler>>
     \/ /\ call.token \notin cancelled /\ ~call.valid
        /\ Abandon("failed")
        /\ UNCHANGED <<lifecycle, session, sampler>>
     \/ /\ call.token \notin cancelled /\ call.valid
        /\ sampler' = "Some"
        /\ Abandon("failed")                        \* select_target_token
        /\ UNCHANGED <<lifecycle, session>>
     \/ /\ call.token \notin cancelled /\ call.valid
        /\ sampler' = "Some"
        /\ session' = [id |-> call.id, context_tokens |-> call.length,
                       mtp_enabled |-> call.mtp]
        /\ lifecycle' = "Active"
        /\ Returns("prefill", "ok", 1)
  /\ UNCHANGED <<executorVars, artifact, cancelled>>

-----------------------------------------------------------------------------
(* decode *)

\* Mutant: only the target step is reserved.
ExecutionTokensTargetOnly(mtp) == 1

\* Target step plus every reserved draft position.
ExecutionTokens(mtp) == 1 + IF mtp THEN MaxDrafts ELSE 0

DecodeAdmitted(id) ==
  /\ session # NoSession
  /\ lifecycle = "Active" /\ session.id = id
  /\ session.context_tokens < MaxContext
  /\ session.context_tokens + ExecutionTokens(session.mtp_enabled) <= MaxContext

DecodeCall(token, id) ==
  /\ Idle /\ lifecycle # "None"
  /\ IF DecodeAdmitted(id)
     THEN /\ call' = NewCall("decode", token, id, session.mtp_enabled, 0)
          /\ UNCHANGED result
     ELSE Returns("decode", "rejected", 0)
  /\ UNCHANGED <<executorVars, lifecycle, session, sampler, artifact, cancelled>>

DecodeExecute ==
  /\ call.op = "decode" /\ call.at = "execute"
  /\ \/ /\ \E d \in 0..ExecutorDrafts, valid \in BOOLEAN :
             /\ DecodeOk(call.mtp, d)
             /\ call' = [call EXCEPT !.at = "finish", !.valid = valid,
                                     !.drafts = d]
        /\ UNCHANGED result
     \/ DecodeErr /\ Abandon("failed")
     \/ DecodeErr /\ call.token \in cancelled /\ Abandon("cancelled")
  /\ UNCHANGED <<lifecycle, session, sampler, artifact, cancelled>>

\* Mutant: the accepted drafts are counted, the input token is not.
AdvanceByDrafts(k) ==
  /\ session' = [session EXCEPT !.context_tokens = @ + k]
  /\ Returns("decode", "ok", k + 1)

\* What decode does once the executor has accepted k drafts.
Advance(k) ==
  IF session.context_tokens + 1 + k <= MaxContext
  THEN /\ session' = [session EXCEPT !.context_tokens = @ + 1 + k]
       /\ Returns("decode", "ok", k + 1)
  ELSE Abandon("failed") /\ UNCHANGED session

DecodeFinish ==
  /\ call.op = "decode" /\ call.at = "finish"
  /\ \/ /\ call.token \in cancelled
        /\ Abandon("cancelled")
        /\ UNCHANGED session
     \/ /\ call.token \notin cancelled
        /\ ~call.valid \/ call.drafts > MaxDrafts
        /\ Abandon("failed")
        /\ UNCHANGED session
     \/ /\ call.token \notin cancelled /\ call.valid /\ call.drafts <= MaxDrafts
        /\ IF call.mtp
           THEN /\ \E k \in 0..call.drafts :       \* verify_greedy_mtp
                     call' = [call EXCEPT !.at = "commit", !.accepted = k]
                /\ UNCHANGED <<result, session>>
           ELSE \/ Advance(0)
                \/ Abandon("failed") /\ UNCHANGED session
  /\ UNCHANGED <<executorVars, lifecycle, sampler, artifact, cancelled>>

DecodeCommit ==
  /\ call.op = "decode" /\ call.at = "commit"
  /\ \/ CommitOk(call.accepted) /\ Advance(call.accepted)
     \/ CommitErr /\ Abandon("failed") /\ UNCHANGED session
     \/ /\ CommitErr /\ call.token \in cancelled
        /\ Abandon("cancelled") /\ UNCHANGED session
  /\ UNCHANGED <<lifecycle, sampler, artifact, cancelled>>

-----------------------------------------------------------------------------
(* invalidate_session, reset_session, unload, drop *)

\* Mutant: the engine goes back to Warm although the reset failed.
InvalidateSessionAlwaysWarm(op, status) ==
  /\ session' = NoSession
  /\ sampler' = "None"
  /\ lifecycle' = "Warm"
  /\ \/ ResetOk /\ Returns(op, status, 0)
     \/ ResetErr /\ Returns(op, "failed", 0)

\* The session goes whether or not the executor could reset; its error
\* replaces the one being returned.
InvalidateSession(op, status) ==
  /\ session' = NoSession
  /\ sampler' = "None"
  /\ \/ ResetOk /\ lifecycle' = "Warm" /\ Returns(op, status, 0)
     \/ ResetErr /\ lifecycle' = "UnloadFailed" /\ Returns(op, "failed", 0)

Invalidate ==
  /\ call.at = "invalidate"
  /\ InvalidateSession(call.op, call.status)
  /\ UNCHANGED <<artifact, cancelled>>

ResetSession ==
  /\ Idle /\ lifecycle # "None"
  /\ IF lifecycle = "Unloaded"
     THEN /\ Returns("reset_session", "rejected", 0)
          /\ UNCHANGED <<executorVars, lifecycle, session, sampler>>
     ELSE IF session # NoSession \/ lifecycle = "UnloadFailed"
     THEN InvalidateSession("reset_session", "ok")
     ELSE /\ Returns("reset_session", "ok", 0)
          /\ UNCHANGED <<executorVars, lifecycle, session, sampler>>
  /\ UNCHANGED <<artifact, cancelled>>

\* The executor's unload: it can leave bytes allocated, silently or with an
\* error, and can fail before dropping anything.  A repeated unload of an
\* executor that holds no model reports what it still retains, or nothing.
ExecutorUnload(failed) ==
  \/ \E r \in BOOLEAN : (model = "absent" => ~r) /\ UnloadDrops(r)
  \/ failed /\ UnloadErrEarly

\* Mutant: no early return, a second unload goes to the executor again.
AlreadyUnloadedNever == FALSE

AlreadyUnloaded == lifecycle = "Unloaded"

\* Mutant: the allocation counters are not read after unload.
UnloadFailsByErrorOnly(resetFailed, unloadFailed) == resetFailed \/ unloadFailed

\* The allocations are those the executor reports after unload.
UnloadFails(resetFailed, unloadFailed) ==
  resetFailed \/ unloadFailed \/ Allocations' = "nonzero"

Unload ==
  /\ Idle /\ lifecycle # "None"
  /\ IF AlreadyUnloaded
     THEN /\ Returns("unload", "ok", 0)
          /\ UNCHANGED <<executorVars, lifecycle, session, sampler, artifact>>
     ELSE \E resetFailed \in IF session # NoSession THEN BOOLEAN ELSE {FALSE},
             unloadFailed \in BOOLEAN :
            /\ ExecutorUnload(unloadFailed)
            /\ session' = NoSession
            /\ sampler' = "None"
            /\ IF UnloadFails(resetFailed, unloadFailed)
               THEN /\ lifecycle' = "UnloadFailed"
                    /\ Returns("unload", "failed", 0)
                    /\ UNCHANGED artifact
               ELSE /\ lifecycle' = "Unloaded"
                    /\ artifact' = "None"
                    /\ Returns("unload", "ok", 0)
  /\ UNCHANGED cancelled

\* Drop of the Engine value and of the executor it owns.
Drop ==
  /\ Idle /\ lifecycle # "None"
  /\ UnloadDrops(FALSE)
  /\ lifecycle' = "None"
  /\ session' = NoSession /\ sampler' = "None" /\ artifact' = "None"
  /\ Returns("drop", "ok", 0)
  /\ UNCHANGED cancelled

-----------------------------------------------------------------------------
(* The tokens, shared with other threads. *)

Cancel(token) ==
  /\ cancelled' = cancelled \cup {token}
  /\ UNCHANGED <<executorVars, engineVars>>

\* CancellationToken::default() for a later call.
NewToken(token) ==
  /\ ~Idle => call.token # token
  /\ cancelled' = cancelled \ {token}
  /\ UNCHANGED <<executorVars, engineVars>>

CallStep ==
  \/ Check
  \/ PrefillExecute \/ PrefillFinish
  \/ DecodeExecute \/ DecodeFinish \/ DecodeCommit
  \/ Invalidate

Request ==
  \/ Load \/ Warmup \/ ResetSession \/ Unload \/ Drop
  \/ \E token \in Tokens, id \in SessionIds :
       \/ \E length \in 0..MaxContext + 1, mtp, greedy \in BOOLEAN :
            PrefillCall(token, id, length, mtp, greedy)
       \/ DecodeCall(token, id)

Next ==
  \/ CallStep
  \/ Request
  \/ \E token \in Tokens : Cancel(token) \/ NewToken(token)

Spec == Init /\ [][Next]_vars

-----------------------------------------------------------------------------
(* Correctness *)

\* Between calls the session record and the executor describe the same
\* session: the executor holds exactly context_tokens tokens of a model that
\* is resident and warm, with no branch open and no failed step behind it.
\* Every path through prefill, decode and commit_speculative keeps this.
SessionAgreesWithExecutor ==
  Idle /\ session # NoSession =>
    /\ lifecycle = "Active" /\ sampler = "Some" /\ artifact = "Some"
    /\ model = "warm" /\ state = "whole" /\ pending = 0
    /\ position = session.context_tokens
    /\ position \in 1..MaxContext

\* An executor that prefill is about to use carries nothing of an earlier
\* session, however that session ended (answered, failed, cancelled, reset).
PrefillStartsClean ==
  \/ Idle /\ lifecycle \in {"Loaded", "Warm"}
  \/ call.op = "prefill" /\ call.at = "execute"
  =>
    /\ session = NoSession /\ sampler = "None"
    /\ position = 0 /\ pending = 0 /\ state = "whole"

\* Once decode has been admitted, no bound is met later on: the executor has
\* room for the target token and every reserved draft, and the check after
\* commit_speculative ("advanced beyond the admitted context capacity") does
\* not fail after the branch was committed.
AdmissionCoversTheBlock ==
  /\ call.op = "decode" /\ call.at \in {"check", "execute"} =>
       position + 1 + (IF call.mtp THEN MaxDrafts ELSE 0) <= MaxContext
  /\ call.at = "commit" =>
       session.context_tokens + 1 + call.accepted <= MaxContext

\* An engine that answered unload with success holds nothing, and nothing
\* but dropping it leads out of that state.
UnloadedHoldsNothing ==
  lifecycle = "Unloaded" =>
    /\ Idle /\ session = NoSession /\ sampler = "None" /\ artifact = "None"
    /\ Allocations = "zero"

UnloadedIsFinal ==
  [][lifecycle = "Unloaded" => lifecycle' \in {"Unloaded", "None"}]_vars

\* A call that reached the executor and is not answered takes the whole
\* session with it, so no caller continues a state that advanced in part.
PartialCallsLoseTheSession ==
  [][call.at \in {"execute", "finish", "commit", "invalidate"} /\ Idle' /\ result'.status # "ok"
       => session' = NoSession /\ lifecycle' # "Active" /\ pending' = 0]_vars

\* README.md: "any residual byte leaves the executor in `unload_failed`
\* instead of being hidden".
ResidueStaysUnloadFailed ==
  Idle /\ model = "residue" => lifecycle \in {"UnloadFailed", "None"}

-----------------------------------------------------------------------------
(* The engine implements SessionContract.  held is the executor's own count *)
(* between calls and the session record's during one, so the refinement     *)
(* also says that the two never part.                                       *)

ContractPhase ==
  CASE lifecycle = "None" -> "absent"
    [] lifecycle = "Loaded" -> "cold"
    [] lifecycle = "Warm" -> "ready"
    [] lifecycle = "Active" -> "open"
    [] lifecycle = "UnloadFailed" -> "failed"
    [] lifecycle = "Unloaded" -> "closed"

Contract == INSTANCE SessionContract WITH
  NoId <- NoSession,
  ContextTokens <- MaxContext,
  phase <- ContractPhase,
  owner <- IF session = NoSession THEN NoSession ELSE session.id,
  held <- IF session = NoSession THEN 0
          ELSE IF Idle THEN position ELSE session.context_tokens,
  answer <- result.tokens

ImplementsContract == Contract!ContractSpec
=============================================================================
