---------------------------- MODULE EngineProofs ----------------------------
(***************************************************************************)
(* Proofs about Engine, for every context size, draft depth and set of     *)
(* sessions and tokens.  The state properties are consequences of one      *)
(* inductive invariant, which says what the executor holds at each point   *)
(* of a call.                                                              *)
(***************************************************************************)
EXTENDS Engine, TLAPS

-----------------------------------------------------------------------------
(* The inductive invariant, in named parts. *)

\* lifecycle, session, sampler and artifact move together.
LifecycleInv ==
  /\ lifecycle = "Active" <=> session # NoSession
  /\ session # NoSession => sampler = "Some" /\ model = "warm" /\ session.context_tokens > 0
  /\ session = NoSession /\ Idle => sampler = "None"
  /\ artifact = "Some" <=> lifecycle \notin {"None", "Unloaded"}
  /\ lifecycle \in {"None", "Unloaded"} => Allocations = "zero"

\* Which calls run in which lifecycle.
CallInv ==
  /\ call.op = "prefill" =>
       /\ lifecycle = "Warm" /\ call.length > 0
       /\ call.at # "commit"
  /\ call.op = "decode" =>
       /\ lifecycle = "Active"
       /\ call.mtp = session.mtp_enabled

\* The executor between sessions and until prefill reaches it.
CleanInv ==
  \/ Idle /\ lifecycle \in {"None", "Loaded", "Warm"}
  \/ call.op = "prefill" /\ call.at \in {"check", "execute"}
  =>
    position = 0 /\ pending = 0 /\ state = "whole" /\ sampler = "None"

\* The executor between the calls of a session and inside them.
PositionInv ==
  /\ Idle /\ session # NoSession =>
       position = session.context_tokens /\ pending = 0 /\ state = "whole"
  /\ call.op = "prefill" /\ call.at = "finish" =>
       position = call.length /\ pending = 0 /\ state = "whole" /\ model = "warm"
  /\ call.op = "decode" /\ call.at \in {"check", "execute"} =>
       /\ position = session.context_tokens /\ pending = 0 /\ state = "whole"
  /\ call.op = "decode" /\ call.at \in {"finish", "commit"} =>
       /\ position = session.context_tokens + 1 /\ state = "whole"
       /\ pending = call.drafts
  /\ call.op = "decode" /\ call.at # "invalidate" =>
       session.context_tokens + ExecutionTokens(call.mtp) <= MaxContext
  /\ call.op = "decode" /\ call.at = "finish" /\ ~call.mtp => call.drafts = 0
  /\ call.at = "commit" =>
       call.mtp /\ call.drafts <= MaxDrafts /\ call.accepted <= call.drafts

EngineInv ==
  EngineTypeOK /\ LifecycleInv /\ CallInv /\ CleanInv /\ PositionInv

-----------------------------------------------------------------------------
(* Facts about the records of Engine. *)

\* A call that is somewhere inside prefill or decode is a Call.
LEMMA CallInProgress ==
  ASSUME call \in Call \cup {NoCall}
  PROVE  /\ ~Idle => call \in Call
         /\ call.at # "idle" <=> ~Idle
         /\ call.op # "none" <=> ~Idle
  BY DEF Call, NoCall, Idle

\* A session that is open is a SessionStatus.
LEMMA OpenSession ==
  ASSUME session \in Sessions \cup {NoSession}
  PROVE  session # NoSession => session \in Sessions
  OBVIOUS

\* Returns keeps call and result well typed.
LEMMA ReturnsType ==
  ASSUME NEW op \in Operations, NEW status \in Statuses,
         NEW tokens \in 0..ExecutorDrafts + 1,
         Returns(op, status, tokens)
  PROVE  /\ call' \in Call \cup {NoCall}
         /\ result' \in Result
  BY DEF Returns, Result, Operations, Statuses

\* So does leaving a call for invalidate_session.
LEMMA AbandonType ==
  ASSUME NEW status \in Statuses, call \in Call, result \in Result,
         Abandon(status)
  PROVE  call' \in Call /\ result' \in Result
  BY DEF Abandon, Call

-----------------------------------------------------------------------------
(* Type correctness *)

LEMMA InitType == Init => EngineTypeOK
  BY ExecutorAssumption
  DEF ExecutorAssumption, Init, ExecutorInit, EngineTypeOK, ExecutorTypeOK,
      Lifecycles, Result, Operations, Statuses

\* Every method of the executor that needs no bound leaves its state well
\* typed.
LEMMA ExecutorTypes ==
  ASSUME ExecutorTypeOK,
         \/ LoadOk \/ WarmupOk \/ WarmupErr \/ PrefillErr \/ DecodeErr
         \/ CommitErr \/ ResetOk \/ ResetErr \/ UnloadErrEarly
         \/ UNCHANGED executorVars
  PROVE  ExecutorTypeOK'
  BY ExecutorAssumption
  DEF ExecutorAssumption, ExecutorTypeOK, executorVars, LoadOk, WarmupOk,
      WarmupErr, PrefillErr, DecodeErr, CommitErr, ResetOk, ResetErr,
      UnloadErrEarly

LEMMA UnloadTypes ==
  ASSUME NEW r \in BOOLEAN, UnloadDrops(r)
  PROVE  ExecutorTypeOK'
  BY ExecutorAssumption DEF ExecutorAssumption, ExecutorTypeOK, UnloadDrops

\* The arithmetic of admission: a reserved block covers every accepted
\* prefix, so the bound checked after commit_speculative cannot be met.
LEMMA AdmittedBlockFits ==
  ASSUME EngineInv, call.at = "commit"
  PROVE  session.context_tokens + 1 + call.accepted <= MaxContext
<1>1. call \in Call /\ call.op \in {"prefill", "decode"}
  BY CallInProgress DEF EngineInv, EngineTypeOK, Idle, NoCall, Call
<1>2. call.op = "decode" /\ session \in Sessions
  BY <1>1 DEF EngineInv, EngineTypeOK, CallInv, LifecycleInv
<1> QED
  BY <1>1, <1>2, ExecutorAssumption
  DEF ExecutorAssumption, EngineInv, PositionInv, ExecutionTokens, Call, Sessions

\* The inductive invariant is needed for two actions only: the executor's
\* position stays inside the context because decode was admitted.
LEMMA StepType ==
  ASSUME EngineInv, [Next]_vars
  PROVE  EngineTypeOK'
<1> USE ExecutorAssumption DEF ExecutorAssumption, EngineInv
<1>t. EngineTypeOK
  OBVIOUS
<1>c. call.at # "idle" => call \in Call /\ ~Idle
  BY <1>t, CallInProgress DEF EngineTypeOK
<1>s. session # NoSession => session \in Sessions
  BY <1>t DEF EngineTypeOK
<1>1. CASE Load
  BY <1>1, <1>t, ReturnsType, ExecutorTypes
  DEF Load, LoadSucceeds, LoadFails, EngineTypeOK, Operations, Statuses, Lifecycles
<1>2. CASE Warmup
  BY <1>2, <1>t, ReturnsType, ExecutorTypes
  DEF Warmup, EngineTypeOK, Operations, Statuses, Lifecycles
<1>3. CASE ResetSession
  BY <1>3, <1>t, ReturnsType, ExecutorTypes
  DEF ResetSession, InvalidateSession, EngineTypeOK, Operations, Statuses, Lifecycles
<1>4. CASE Unload
  <2>1. CASE AlreadyUnloaded
    BY <2>1, <1>4, <1>t, ReturnsType, ExecutorTypes
    DEF Unload, EngineTypeOK, Operations, Statuses
  <2>2. CASE ~AlreadyUnloaded
    <3>1. PICK resetFailed \in BOOLEAN, unloadFailed \in BOOLEAN :
            /\ ExecutorUnload(unloadFailed)
            /\ session' = NoSession /\ sampler' = "None" /\ cancelled' = cancelled
            /\ \/ /\ lifecycle' = "UnloadFailed" /\ Returns("unload", "failed", 0)
                  /\ UNCHANGED artifact
               \/ /\ lifecycle' = "Unloaded" /\ Returns("unload", "ok", 0)
                  /\ artifact' = "None"
      BY <2>2, <1>4 DEF Unload
    <3>2. ExecutorTypeOK'
      BY <3>1, <1>t, ExecutorTypes, UnloadTypes DEF ExecutorUnload, EngineTypeOK
    <3> QED
      BY <3>1, <3>2, <1>t, ReturnsType
      DEF EngineTypeOK, Operations, Statuses, Lifecycles
  <2> QED
    BY <2>1, <2>2
<1>5. CASE Drop
  <2>1. ExecutorTypeOK'
    BY <1>5, UnloadTypes DEF Drop
  <2> QED
    BY <2>1, <1>5, <1>t, ReturnsType
    DEF Drop, EngineTypeOK, Operations, Statuses, Lifecycles
<1>6. ASSUME NEW token \in Tokens, NEW id \in SessionIds,
             NEW length \in 0..MaxContext + 1, NEW mtp \in BOOLEAN,
             NEW greedy \in BOOLEAN, PrefillCall(token, id, length, mtp, greedy)
      PROVE  EngineTypeOK'
  <2>1. ExecutorTypeOK' /\ UNCHANGED <<lifecycle, session, sampler, artifact, cancelled>>
    BY <1>6, <1>t, ExecutorTypes DEF PrefillCall, EngineTypeOK
  <2>2. CASE PrefillAdmitted(length, mtp, greedy)
    <3>1. NewCall("prefill", token, id, mtp, length) \in Call
      BY <2>2 DEF PrefillAdmitted, NewCall, Call, Statuses
    <3> QED
      BY <3>1, <2>1, <2>2, <1>6, <1>t DEF PrefillCall, EngineTypeOK
  <2>3. CASE ~PrefillAdmitted(length, mtp, greedy)
    BY <2>3, <2>1, <1>6, <1>t, ReturnsType
    DEF PrefillCall, EngineTypeOK, Operations, Statuses
  <2> QED
    BY <2>2, <2>3
<1>7. ASSUME NEW token \in Tokens, NEW id \in SessionIds, DecodeCall(token, id)
      PROVE  EngineTypeOK'
  <2>1. ExecutorTypeOK' /\ UNCHANGED <<lifecycle, session, sampler, artifact, cancelled>>
    BY <1>7, <1>t, ExecutorTypes DEF DecodeCall, EngineTypeOK
  <2>2. CASE DecodeAdmitted(id)
    <3>1. NewCall("decode", token, id, session.mtp_enabled, 0) \in Call
      BY <2>2, <1>s DEF DecodeAdmitted, NewCall, Call, Statuses, Sessions
    <3> QED
      BY <3>1, <2>1, <2>2, <1>7, <1>t DEF DecodeCall, EngineTypeOK
  <2>3. CASE ~DecodeAdmitted(id)
    BY <2>3, <2>1, <1>7, <1>t, ReturnsType
    DEF DecodeCall, EngineTypeOK, Operations, Statuses
  <2> QED
    BY <2>2, <2>3
<1>8. CASE Check
  BY <1>8, <1>t, <1>c, ReturnsType, ExecutorTypes
  DEF Check, MoveTo, EngineTypeOK, Call, Operations, Statuses
<1>9. CASE PrefillExecute
  <2>1. call \in Call /\ UNCHANGED <<lifecycle, session, sampler, artifact, cancelled>>
    BY <1>9, <1>c DEF PrefillExecute
  <2>2. CASE PrefillErr /\ (Abandon("failed") \/ Abandon("cancelled"))
    BY <2>2, <2>1, <1>t, AbandonType, ExecutorTypes DEF EngineTypeOK, Statuses
  <2>3. CASE /\ PrefillOk(call.length)
             /\ \E valid \in BOOLEAN : call' = [call EXCEPT !.at = "finish", !.valid = valid]
             /\ UNCHANGED result
    <3>1. call' \in Call
      BY <2>3, <2>1 DEF Call
    <3>2. ExecutorTypeOK'
      BY <2>3, <2>1, <1>t DEF PrefillOk, EngineTypeOK, ExecutorTypeOK, Call
    <3> QED
      BY <3>1, <3>2, <2>3, <2>1, <1>t DEF EngineTypeOK
  <2> QED
    BY <2>2, <2>3, <1>9 DEF PrefillExecute
<1>10. CASE PrefillFinish
  BY <1>10, <1>t, <1>c, ReturnsType, AbandonType, ExecutorTypes
  DEF PrefillFinish, EngineTypeOK, Call, Operations, Statuses, Lifecycles, Sessions
<1>11. CASE DecodeExecute
  <2>1. call \in Call /\ UNCHANGED <<lifecycle, session, sampler, artifact, cancelled>>
    BY <1>11, <1>c DEF DecodeExecute
  <2>2. CASE DecodeErr /\ (Abandon("failed") \/ Abandon("cancelled"))
    BY <2>2, <2>1, <1>t, AbandonType, ExecutorTypes DEF EngineTypeOK, Statuses
  <2>3. CASE \E d \in 0..ExecutorDrafts, valid \in BOOLEAN :
               /\ DecodeOk(call.mtp, d)
               /\ call' = [call EXCEPT !.at = "finish", !.valid = valid, !.drafts = d]
               /\ UNCHANGED result
    <3>1. PICK d \in 0..ExecutorDrafts, valid \in BOOLEAN :
                 /\ DecodeOk(call.mtp, d)
                 /\ call' = [call EXCEPT !.at = "finish", !.valid = valid, !.drafts = d]
      BY <2>3
    <3>2. call' \in Call
      BY <3>1, <2>1 DEF Call
    <3>3. ExecutorTypeOK'
      BY <3>1, <1>t DEF DecodeOk, EngineTypeOK, ExecutorTypeOK
    <3> QED
      BY <3>2, <3>3, <2>3, <2>1, <1>t DEF EngineTypeOK
  <2> QED
    BY <2>2, <2>3, <1>11 DEF DecodeExecute
<1>a. ASSUME NEW k \in 0..ExecutorDrafts, Advance(k), call.op = "decode"
      PROVE  /\ session' \in Sessions \cup {NoSession}
             /\ call' \in Call \cup {NoCall}
             /\ result' \in Result
  <2>1. session \in Sessions /\ call \in Call
    BY <1>a, <1>s, <1>c, <1>t, CallInProgress DEF CallInv, LifecycleInv, EngineTypeOK, NoCall
  <2>2. CASE session.context_tokens + 1 + k <= MaxContext
    BY <2>1, <2>2, <1>a, ReturnsType DEF Advance, Sessions, Operations, Statuses
  <2>3. CASE ~(session.context_tokens + 1 + k <= MaxContext)
    BY <2>1, <2>3, <1>a, <1>t, AbandonType DEF Advance, EngineTypeOK, Statuses
  <2> QED
    BY <2>2, <2>3
<1>12. CASE DecodeFinish
  <2>1. /\ call \in Call /\ ExecutorTypeOK'
        /\ UNCHANGED <<lifecycle, sampler, artifact, cancelled>>
    BY <1>12, <1>t, <1>c, ExecutorTypes DEF DecodeFinish, EngineTypeOK
  <2>2. CASE UNCHANGED session /\ (Abandon("failed") \/ Abandon("cancelled"))
    BY <2>2, <2>1, <1>t, AbandonType DEF EngineTypeOK, Statuses
  <2>3. CASE \E k \in 0..call.drafts :
               /\ call' = [call EXCEPT !.at = "commit", !.accepted = k]
               /\ UNCHANGED <<result, session>>
    <3>1. PICK k \in 0..call.drafts : call' = [call EXCEPT !.at = "commit", !.accepted = k]
      BY <2>3
    <3>2. k \in 0..ExecutorDrafts
      BY <2>1 DEF Call
    <3>3. call' \in Call
      BY <3>1, <3>2, <2>1 DEF Call
    <3> QED
      BY <3>3, <2>3, <2>1, <1>t DEF EngineTypeOK
  <2>4. CASE Advance(0)
    <3>1. 0 \in 0..ExecutorDrafts
      OBVIOUS
    <3> QED
      BY <3>1, <2>4, <2>1, <1>12, <1>a, <1>t DEF DecodeFinish, EngineTypeOK
  <2> QED
    BY <2>2, <2>3, <2>4, <1>12 DEF DecodeFinish
<1>13. CASE DecodeCommit
  <2>1. call \in Call /\ UNCHANGED <<lifecycle, sampler, artifact, cancelled>>
    BY <1>13, <1>c DEF DecodeCommit
  <2>2. CASE CommitErr /\ UNCHANGED session /\ (Abandon("failed") \/ Abandon("cancelled"))
    BY <2>2, <2>1, <1>t, AbandonType, ExecutorTypes DEF EngineTypeOK, Statuses
  <2>3. CASE CommitOk(call.accepted) /\ Advance(call.accepted)
    <3>1. /\ session \in Sessions
          /\ session.context_tokens + 1 + call.accepted <= MaxContext
          /\ position = session.context_tokens + 1
      BY <2>1, <1>13, <1>s, AdmittedBlockFits
      DEF DecodeCommit, LifecycleInv, CallInv, PositionInv
    <3>2. ExecutorTypeOK'
      BY <3>1, <2>3, <2>1, <1>t DEF CommitOk, ExecutorTypeOK, EngineTypeOK, Call, Sessions
    <3> QED
      BY <3>2, <2>3, <2>1, <1>13, <1>a, <1>t DEF DecodeCommit, EngineTypeOK, Call
  <2> QED
    BY <2>2, <2>3, <1>13 DEF DecodeCommit
<1>14. CASE Invalidate
  BY <1>14, <1>t, <1>c, ReturnsType, ExecutorTypes
  DEF Invalidate, InvalidateSession, EngineTypeOK, Call, Operations, Statuses, Lifecycles
<1>15. ASSUME NEW token \in Tokens, Cancel(token) \/ NewToken(token)
       PROVE  EngineTypeOK'
  BY <1>15, <1>t, ExecutorTypes DEF Cancel, NewToken, EngineTypeOK, engineVars
<1>16. CASE UNCHANGED vars
  BY <1>16, <1>t, ExecutorTypes DEF vars, engineVars, EngineTypeOK
<1> QED
  BY <1>1, <1>2, <1>3, <1>4, <1>5, <1>6, <1>7, <1>8, <1>9, <1>10, <1>11, <1>12,
     <1>13, <1>14, <1>15, <1>16
  DEF Next, CallStep, Request

-----------------------------------------------------------------------------
(* The inductive invariant *)

LEMMA InitInv == Init => EngineInv
  BY InitType
  DEF Init, ExecutorInit, EngineInv, LifecycleInv, CallInv, CleanInv, PositionInv,
      Idle, NoCall, Allocations

\* Every step keeps it; the conjuncts are those an action can disturb, the
\* rest of the state it leaves alone.
LEMMA StepInv ==
  ASSUME EngineInv, [Next]_vars
  PROVE  LifecycleInv' /\ CallInv' /\ CleanInv' /\ PositionInv'
<1> USE ExecutorAssumption
    DEF ExecutorAssumption, LifecycleInv, CallInv, CleanInv, PositionInv, Idle
<1>t. EngineTypeOK /\ LifecycleInv /\ CallInv /\ CleanInv /\ PositionInv
  BY DEF EngineInv
<1>c. /\ call.at # "idle" => call \in Call
      /\ call # NoCall => call \in Call
      /\ NoCall.op = "none" /\ NoCall.at = "idle"
      /\ call \in Call => call # NoCall /\ call.at # "idle" /\ call.op \in {"prefill", "decode"}
  BY <1>t DEF EngineTypeOK, NoCall, Call
<1>s. session # NoSession => session \in Sessions
  BY <1>t DEF EngineTypeOK
<1>1. CASE Load
  BY <1>1, <1>t, <1>c DEF Load, LoadSucceeds, LoadFails, LoadOk, Returns, executorVars, Allocations
<1>2. CASE Warmup
  BY <1>2, <1>t, <1>c DEF Warmup, WarmupOk, WarmupErr, Returns, executorVars, Allocations
<1>3. CASE ResetSession
  BY <1>3, <1>t, <1>c
  DEF ResetSession, InvalidateSession, ResetOk, ResetErr, Returns, executorVars, Allocations
<1>4. CASE Unload
  BY <1>4, <1>t, <1>c
  DEF Unload, AlreadyUnloaded, ExecutorUnload, UnloadDrops, UnloadErrEarly, UnloadFails,
      Returns, executorVars, Allocations
<1>5. CASE Drop
  BY <1>5, <1>t, <1>c DEF Drop, UnloadDrops, Returns, Allocations
<1>6. ASSUME NEW token \in Tokens, NEW id \in SessionIds,
             NEW length \in 0..MaxContext + 1, NEW mtp \in BOOLEAN,
             NEW greedy \in BOOLEAN, PrefillCall(token, id, length, mtp, greedy)
      PROVE  LifecycleInv' /\ CallInv' /\ CleanInv' /\ PositionInv'
  BY <1>6, <1>t, <1>c
  DEF PrefillCall, PrefillAdmitted, NewCall, Returns, executorVars, Allocations
<1>7. ASSUME NEW token \in Tokens, NEW id \in SessionIds, DecodeCall(token, id)
      PROVE  LifecycleInv' /\ CallInv' /\ CleanInv' /\ PositionInv'
  BY <1>7, <1>t, <1>c
  DEF DecodeCall, DecodeAdmitted, NewCall, Returns, executorVars, Allocations
<1>8. CASE Check
  <2>1. CASE Returns(call.op, "cancelled", 0)
    BY <2>1, <1>8, <1>t, <1>c DEF Check, Returns, executorVars, Allocations
  <2>2. CASE MoveTo("execute")
    <3>1. /\ call' \in Call /\ call'.at = "execute"
          /\ call' = [call EXCEPT !.at = "execute"]
      BY <2>2, <1>8, <1>c DEF Check, MoveTo, Call
    <3>2. /\ call'.op = call.op /\ call'.mtp = call.mtp /\ call'.length = call.length
      BY <3>1, <1>8, <1>c DEF Check, Call
    <3>3. call' # NoCall
      BY <3>1 DEF NoCall
    <3> QED
      BY <3>1, <3>2, <3>3, <1>8, <1>t, <1>c
      DEF Check, executorVars, ExecutionTokens, Allocations
  <2> QED
    BY <2>1, <2>2, <1>8 DEF Check
<1>a. ASSUME Abandon("failed") \/ Abandon("cancelled"), ~Idle,
             UNCHANGED <<lifecycle, session, artifact>>,
             session # NoSession => UNCHANGED <<model, sampler>>,
             lifecycle # "Active" => UNCHANGED model
      PROVE  LifecycleInv' /\ CallInv' /\ CleanInv' /\ PositionInv'
  <2>1. /\ call' \in Call /\ call'.op = call.op /\ call'.at = "invalidate"
        /\ call'.mtp = call.mtp /\ call'.length = call.length
    BY <1>a, <1>c, AbandonType, <1>t DEF Abandon, Call, EngineTypeOK, Statuses
  <2>2. call' # NoCall
    BY <2>1 DEF NoCall
  <2> QED
    BY <1>a, <1>t, <1>c, <2>1, <2>2 DEF Allocations
<1>9. CASE PrefillExecute
  <2>1. CASE PrefillErr /\ (Abandon("failed") \/ Abandon("cancelled"))
    BY <2>1, <1>9, <1>a, <1>c DEF PrefillExecute, PrefillErr
  <2>2. CASE PrefillOk(call.length)
             /\ \E valid \in BOOLEAN : call' = [call EXCEPT !.at = "finish", !.valid = valid]
    <3>1. /\ call' \in Call /\ call'.op = "prefill" /\ call'.at = "finish"
          /\ call'.mtp = call.mtp /\ call'.length = call.length
      BY <2>2, <1>9, <1>c DEF PrefillExecute, Call
    <3>2. call' # NoCall
      BY <3>1 DEF NoCall
    <3> QED
      BY <3>1, <3>2, <2>2, <1>9, <1>t, <1>c DEF PrefillExecute, PrefillOk, Allocations
  <2> QED
    BY <2>1, <2>2, <1>9 DEF PrefillExecute
<1>10. CASE PrefillFinish
  <2>1. CASE UNCHANGED <<lifecycle, session>> /\ (Abandon("failed") \/ Abandon("cancelled"))
    <3>1. session = NoSession /\ lifecycle # "Active" /\ ~Idle
      BY <1>10, <1>t, <1>c DEF PrefillFinish
    <3>2. UNCHANGED <<lifecycle, artifact, model>>
      BY <2>1, <1>10, <1>c, <3>1 DEF PrefillFinish, executorVars
    <3> QED
      BY <3>1, <3>2, <2>1, <1>a
  <2>2. CASE /\ session' = [id |-> call.id, context_tokens |-> call.length,
                            mtp_enabled |-> call.mtp]
             /\ Returns("prefill", "ok", 1)
             /\ lifecycle' = "Active" /\ sampler' = "Some"
    <3>1. call \in Call /\ session' \in Sessions /\ session' # NoSession
      BY <2>2, <1>10, <1>c, EngineAssumption
      DEF PrefillFinish, Call, Sessions, EngineAssumption
    <3> QED
      BY <3>1, <2>2, <1>10, <1>t, <1>c
      DEF PrefillFinish, Returns, executorVars, Allocations
  <2> QED
    BY <2>1, <2>2, <1>10 DEF PrefillFinish
<1>11. CASE DecodeExecute
  <2>1. CASE DecodeErr /\ (Abandon("failed") \/ Abandon("cancelled"))
    BY <2>1, <1>11, <1>a, <1>c DEF DecodeExecute, DecodeErr
  <2>2. CASE \E d \in 0..ExecutorDrafts, valid \in BOOLEAN :
               /\ DecodeOk(call.mtp, d)
               /\ call' = [call EXCEPT !.at = "finish", !.valid = valid, !.drafts = d]
    <3>1. PICK d \in 0..ExecutorDrafts, valid \in BOOLEAN :
               /\ DecodeOk(call.mtp, d)
               /\ call' = [call EXCEPT !.at = "finish", !.valid = valid, !.drafts = d]
      BY <2>2
    <3>2. /\ call' \in Call /\ call'.op = "decode" /\ call'.at = "finish"
          /\ call'.mtp = call.mtp /\ call'.drafts = d
      BY <3>1, <1>11, <1>c DEF DecodeExecute, Call
    <3>3. call' # NoCall
      BY <3>2 DEF NoCall
    <3> QED
      BY <3>1, <3>2, <3>3, <1>11, <1>t, <1>c, <1>s
      DEF DecodeExecute, DecodeOk, Sessions, Allocations
  <2> QED
    BY <2>1, <2>2, <1>11 DEF DecodeExecute
<1>b. ASSUME NEW k \in 0..ExecutorDrafts, call.op = "decode",
             session.context_tokens + 1 + k <= MaxContext, Advance(k),
             UNCHANGED <<lifecycle, sampler, artifact, model>>,
             position' = session.context_tokens + 1 + k,
             pending' = 0, state' = "whole"
      PROVE  LifecycleInv' /\ CallInv' /\ CleanInv' /\ PositionInv'
  <2>1. session \in Sessions /\ lifecycle = "Active"
    BY <1>b, <1>s, <1>t
  <2>2. /\ call' = NoCall /\ session' \in Sessions /\ session' # NoSession
        /\ session'.context_tokens = session.context_tokens + 1 + k
    BY <2>1, <1>b, EngineAssumption DEF Advance, Returns, Sessions, EngineAssumption
  <2> QED
    BY <2>1, <2>2, <1>b, <1>t, <1>c DEF Allocations, Sessions
<1>12. CASE DecodeFinish
  <2>1. CASE UNCHANGED session /\ (Abandon("failed") \/ Abandon("cancelled"))
    BY <2>1, <1>12, <1>a, <1>c DEF DecodeFinish, executorVars
  <2>2. CASE /\ call.mtp /\ call.drafts <= MaxDrafts
             /\ \E k \in 0..call.drafts : call' = [call EXCEPT !.at = "commit", !.accepted = k]
             /\ UNCHANGED session
    <3>1. PICK k \in 0..call.drafts : call' = [call EXCEPT !.at = "commit", !.accepted = k]
      BY <2>2
    <3>0. call \in Call /\ call.op = "decode" /\ call.at = "finish"
      BY <1>12, <1>c DEF DecodeFinish
    <3>2. k \in 0..ExecutorDrafts
      BY <3>0 DEF Call
    <3>3. /\ call' \in Call /\ call'.op = "decode" /\ call'.at = "commit"
          /\ call'.mtp = call.mtp /\ call'.drafts = call.drafts /\ call'.accepted = k
      BY <3>1, <3>2, <1>12, <1>c DEF DecodeFinish, Call
    <3>4. call' # NoCall
      BY <3>3 DEF NoCall
    <3>5. call.drafts \in 0..ExecutorDrafts /\ k <= call.drafts
      BY <3>0 DEF Call
    <3>6. UNCHANGED <<model, position, pending, state, lifecycle, session, sampler, artifact>>
      BY <2>2, <1>12 DEF DecodeFinish, executorVars
    <3> QED
      BY <3>0, <3>3, <3>4, <3>5, <3>6, <2>2, <1>t, <1>c, <1>s DEF ExecutionTokens, Allocations
  <2>3. CASE ~call.mtp /\ Advance(0)
    <3>1. 0 \in 0..ExecutorDrafts
      OBVIOUS
    <3>2. session \in Sessions
      BY <1>12, <1>s, <1>t DEF DecodeFinish
    <3>3. /\ session.context_tokens + 1 + 0 <= MaxContext
          /\ position = session.context_tokens + 1 + 0
          /\ pending = 0 /\ state = "whole"
      BY <3>2, <2>3, <1>12, <1>t DEF DecodeFinish, ExecutionTokens, Sessions
    <3> QED
      BY <3>1, <3>3, <2>3, <1>12, <1>b DEF DecodeFinish, executorVars
  <2> QED
    BY <2>1, <2>2, <2>3, <1>12 DEF DecodeFinish
<1>13. CASE DecodeCommit
  <2>1. CASE CommitErr /\ UNCHANGED session /\ (Abandon("failed") \/ Abandon("cancelled"))
    BY <2>1, <1>13, <1>a, <1>c DEF DecodeCommit, CommitErr
  <2>2. CASE CommitOk(call.accepted) /\ Advance(call.accepted)
    <3>1. call \in Call /\ call.accepted \in 0..ExecutorDrafts /\ session \in Sessions
      BY <1>13, <1>c, <1>s, <1>t DEF DecodeCommit, Call
    <3>2. session.context_tokens + 1 + call.accepted <= MaxContext
      BY <1>13, AdmittedBlockFits DEF DecodeCommit
    <3>3. position' = session.context_tokens + 1 + call.accepted
      BY <2>2, <1>13, <1>t DEF DecodeCommit, CommitOk
    <3> QED
      BY <3>1, <3>2, <3>3, <2>2, <1>13, <1>t, <1>b DEF DecodeCommit, CommitOk
  <2> QED
    BY <2>1, <2>2, <1>13 DEF DecodeCommit
<1>14. CASE Invalidate
  BY <1>14, <1>t, <1>c
  DEF Invalidate, InvalidateSession, ResetOk, ResetErr, Returns, Allocations
<1>15. CASE UNCHANGED <<executorVars, engineVars>>
  BY <1>15, <1>t DEF executorVars, engineVars, Allocations
<1> QED
  BY <1>1, <1>2, <1>3, <1>4, <1>5, <1>6, <1>7, <1>8, <1>9, <1>10, <1>11, <1>12,
     <1>13, <1>14, <1>15
  DEF Next, CallStep, Request, Cancel, NewToken, vars

-----------------------------------------------------------------------------
(* Theorems *)

\* The inductive invariant holds in every reachable state.
THEOREM Invariance == Spec => []EngineInv
<1>1. Init => EngineInv
  BY InitInv
<1>2. EngineInv /\ [Next]_vars => EngineInv'
  BY StepType, StepInv DEF EngineInv
<1> QED
  BY <1>1, <1>2, PTL DEF Spec

\* Type correctness: counters stay inside the admitted context and the
\* executor's draft depth, whatever the calls and their outcomes.
THEOREM TypeCorrect == Spec => []EngineTypeOK
<1>1. EngineInv => EngineTypeOK
  BY DEF EngineInv
<1> QED
  BY <1>1, Invariance, PTL

\* Between calls, Engine.session and the executor describe one session.
THEOREM SessionAgreement == Spec => []SessionAgreesWithExecutor
<1>1. EngineInv => SessionAgreesWithExecutor
  BY DEF EngineInv, EngineTypeOK, ExecutorTypeOK, LifecycleInv, PositionInv,
         Sessions, SessionAgreesWithExecutor
<1> QED
  BY <1>1, Invariance, PTL

\* No prefill starts on what an earlier session left behind.
THEOREM CleanStart == Spec => []PrefillStartsClean
<1>1. EngineInv => PrefillStartsClean
  BY CallInProgress
  DEF EngineInv, EngineTypeOK, LifecycleInv, CallInv, CleanInv, PrefillStartsClean, Idle
<1> QED
  BY <1>1, Invariance, PTL

\* What decode checks before it calls the executor is enough: the bound that
\* is checked again after commit_speculative cannot be exceeded.
THEOREM Admission == Spec => []AdmissionCoversTheBlock
<1>1. EngineInv => AdmissionCoversTheBlock
  <2> SUFFICES ASSUME EngineInv PROVE AdmissionCoversTheBlock
    OBVIOUS
  <2>1. ASSUME call.op = "decode", call.at \in {"check", "execute"}
        PROVE  position + 1 + (IF call.mtp THEN MaxDrafts ELSE 0) <= MaxContext
    <3>1. session \in Sessions
      BY <2>1 DEF EngineInv, EngineTypeOK, CallInv, LifecycleInv
    <3>2. position = session.context_tokens
      BY <2>1 DEF EngineInv, PositionInv
    <3>3. session.context_tokens + ExecutionTokens(call.mtp) <= MaxContext
      BY <2>1 DEF EngineInv, PositionInv
    <3> QED
      BY <3>1, <3>2, <3>3, ExecutorAssumption
      DEF ExecutorAssumption, Sessions, ExecutionTokens
  <2> QED
    BY <2>1, AdmittedBlockFits DEF AdmissionCoversTheBlock
<1> QED
  BY <1>1, Invariance, PTL

\* A successful unload leaves nothing allocated and no session.
THEOREM UnloadGuarantee == Spec => []UnloadedHoldsNothing
<1>1. EngineInv => UnloadedHoldsNothing
  BY CallInProgress
  DEF EngineInv, EngineTypeOK, LifecycleInv, CallInv, UnloadedHoldsNothing, Idle, Call
<1> QED
  BY <1>1, Invariance, PTL

-----------------------------------------------------------------------------
(* Action properties *)

\* Only dropping the engine leads out of Unloaded.
THEOREM UnloadFinality == Spec => UnloadedIsFinal
<1>1. EngineInv /\ [Next]_vars =>
        [lifecycle = "Unloaded" => lifecycle' \in {"Unloaded", "None"}]_vars
  <2> SUFFICES ASSUME EngineInv, [Next]_vars, lifecycle = "Unloaded"
               PROVE  lifecycle' \in {"Unloaded", "None"}
    OBVIOUS
  <2>1. Idle /\ call.at = "idle" /\ call.op = "none" /\ session = NoSession
    BY CallInProgress
    DEF EngineInv, EngineTypeOK, LifecycleInv, CallInv, Idle, Call, NoCall
  <2> QED
    BY <2>1
    DEF Next, CallStep, Request, Load, Warmup, ResetSession, Unload, AlreadyUnloaded,
        Drop, PrefillCall, DecodeCall, Check, PrefillExecute, PrefillFinish,
        DecodeExecute, DecodeFinish, DecodeCommit, Invalidate, Cancel, NewToken,
        engineVars, vars
<1> QED
  BY <1>1, Invariance, PTL DEF Spec, UnloadedIsFinal

\* A call that ends without an answer after it reached the executor ends the
\* session.
THEOREM NoPartialSession == Spec => PartialCallsLoseTheSession
<1>1. EngineInv /\ [Next]_vars =>
        [call.at \in {"execute", "finish", "commit", "invalidate"} /\ Idle' /\ result'.status # "ok"
           => session' = NoSession /\ lifecycle' # "Active" /\ pending' = 0]_vars
  <2> SUFFICES ASSUME EngineInv, [Next]_vars, Idle', result'.status # "ok",
                      call.at \in {"execute", "finish", "commit", "invalidate"}
               PROVE  session' = NoSession /\ lifecycle' # "Active" /\ pending' = 0
    OBVIOUS
  <2>1. ~Idle /\ call \in Call
    BY CallInProgress DEF EngineInv, EngineTypeOK, Idle, NoCall
  <2>2. ~UNCHANGED call
    BY <2>1 DEF Idle
  <2>3. ASSUME NEW at \in {"execute", "finish", "commit", "invalidate"},
               call'.at = at
        PROVE  FALSE
    BY <2>3 DEF Idle, NoCall
  <2>4. ~Request /\ call.at # "check"
    BY <2>1 DEF Request, Load, Warmup, ResetSession, Unload, Drop, PrefillCall, DecodeCall
  <2>5. ASSUME NEW status, Abandon(status) PROVE FALSE
    BY <2>5, <2>1, <2>3 DEF Abandon, Call
  <2>6. CASE PrefillExecute
    BY <2>6, <2>1, <2>3, <2>5 DEF PrefillExecute, Call
  <2>7. CASE PrefillFinish
    BY <2>7, <2>5 DEF PrefillFinish, Returns
  <2>8. CASE DecodeExecute
    BY <2>8, <2>1, <2>3, <2>5 DEF DecodeExecute, Call
  <2>9. CASE DecodeFinish
    <3>1. ASSUME NEW k, call' = [call EXCEPT !.at = "commit", !.accepted = k] PROVE FALSE
      BY <3>1, <2>1, <2>3 DEF Call
    <3>2. ~Advance(0)
      BY <2>5 DEF Advance, Returns
    <3> QED
      BY <2>9, <2>5, <3>1, <3>2 DEF DecodeFinish
  <2>10. CASE DecodeCommit
    BY <2>10, <2>5 DEF DecodeCommit, Advance, Returns
  <2>11. CASE Invalidate
    BY <2>11 DEF Invalidate, InvalidateSession, ResetOk, ResetErr
  <2> QED
    BY <2>2, <2>4, <2>6, <2>7, <2>8, <2>9, <2>10, <2>11
    DEF Next, CallStep, Check, Cancel, NewToken, engineVars, vars
<1> QED
  BY <1>1, Invariance, PTL DEF Spec, PartialCallsLoseTheSession

-----------------------------------------------------------------------------
(* Refinement: every step of the engine is a step of SessionContract or     *)
(* leaves the mapped state alone.                                           *)

\* The engine implements the contract: at most one session, extended by
\* exactly what is answered, and gone after a call that was not answered.
THEOREM Implementation == Spec => ImplementsContract
<1>1. Init => Contract!ContractInit
  BY DEF Init, Contract!ContractInit, ContractPhase
<1>2. EngineInv /\ EngineInv' /\ [Next]_vars
        => [Contract!ContractNext]_(Contract!contractVars)
  <2> SUFFICES ASSUME EngineInv, EngineInv', [Next]_vars
               PROVE  [Contract!ContractNext]_(Contract!contractVars)
    OBVIOUS
  <2> DEFINE length == IF session = NoSession THEN 0
                       ELSE IF Idle THEN position ELSE session.context_tokens
             id == IF session = NoSession THEN NoSession ELSE session.id
  <2>h. length = IF session = NoSession THEN 0 ELSE session.context_tokens
    BY DEF EngineInv, PositionInv, length
  <2>i. length' = IF session' = NoSession THEN 0 ELSE session'.context_tokens
    BY DEF EngineInv, PositionInv, length
  <2>s. /\ session # NoSession => session \in Sessions /\ lifecycle = "Active"
        /\ session' # NoSession => session' \in Sessions /\ lifecycle' = "Active"
        /\ lifecycle \in Lifecycles /\ lifecycle' \in Lifecycles
        /\ lifecycle = "Active" => session # NoSession
    BY DEF EngineInv, EngineTypeOK, LifecycleInv
  <2> HIDE DEF length
  <2>1. CASE UNCHANGED <<lifecycle, session, result>>
    BY <2>1, <2>h, <2>i DEF ContractPhase, Contract!contractVars, length
  <2>2. CASE UNCHANGED <<lifecycle, session>> /\ result'.tokens = 0
    BY <2>2, <2>h, <2>i DEF ContractPhase, Contract!ContractNext, Contract!Refuse, length
  <2>3. CASE lifecycle = "None" /\ lifecycle' = "Loaded" /\ UNCHANGED session
             /\ result'.tokens = 0
    BY <2>3, <2>h, <2>i DEF ContractPhase, Contract!ContractNext, Contract!Create, length
  <2>4. CASE lifecycle = "Loaded" /\ lifecycle' = "Warm" /\ UNCHANGED session
             /\ result'.tokens = 0
    BY <2>4, <2>h, <2>i DEF ContractPhase, Contract!ContractNext, Contract!BecomeReady, length
  <2>5. CASE /\ lifecycle \in {"Warm", "Active", "UnloadFailed"}
             /\ lifecycle' \in {"Warm", "UnloadFailed"}
             /\ session' = NoSession /\ result'.tokens = 0
    BY <2>5, <2>h, <2>i
    DEF ContractPhase, Contract!ContractNext, Contract!Discard, Contract!NoOpenSession, length
  <2>6. CASE /\ lifecycle \notin {"None", "Unloaded"}
             /\ lifecycle' \in {"Unloaded", "UnloadFailed"}
             /\ session' = NoSession /\ result'.tokens = 0
    BY <2>6, <2>h, <2>i, <2>s
    DEF ContractPhase, Contract!ContractNext, Contract!Close, Contract!NoOpenSession,
        Lifecycles, length
  <2>7. CASE /\ lifecycle # "None" /\ lifecycle' = "None"
             /\ session' = NoSession /\ result'.tokens = 0
    BY <2>7, <2>h, <2>i, <2>s
    DEF ContractPhase, Contract!ContractNext, Contract!Destroy, Contract!NoOpenSession,
        Lifecycles, length
  <2>8. CASE /\ lifecycle = "Warm" /\ lifecycle' = "Active"
             /\ session' # NoSession /\ session'.context_tokens > 0
             /\ result'.tokens = 1
    BY <2>8, <2>h, <2>i, <2>s
    DEF ContractPhase, Contract!ContractNext, Contract!Open, Sessions, length
  <2>9. CASE /\ lifecycle = "Active" /\ UNCHANGED lifecycle /\ session # NoSession
             /\ \E k \in 0..ExecutorDrafts :
                  /\ session.context_tokens + 1 + k <= MaxContext
                  /\ session' = [session EXCEPT !.context_tokens = @ + 1 + k]
                  /\ result'.tokens = k + 1
    <3>1. PICK k \in 0..ExecutorDrafts :
            /\ session.context_tokens + 1 + k <= MaxContext
            /\ session' = [session EXCEPT !.context_tokens = @ + 1 + k]
            /\ result'.tokens = k + 1
      BY <2>9
    <3>2. /\ session' \in Sessions /\ session' # NoSession
          /\ session'.id = session.id
          /\ session'.context_tokens = session.context_tokens + 1 + k
      BY <3>1, <2>9, <2>s, EngineAssumption DEF Sessions, EngineAssumption
    <3>3. /\ length' = length + result'.tokens /\ length' <= MaxContext
          /\ result'.tokens \in Nat \ {0}
      BY <3>1, <3>2, <2>9, <2>h, <2>i, <2>s DEF Sessions
    <3> QED
      BY <3>2, <3>3, <2>9
      DEF ContractPhase, Contract!ContractNext, Contract!Extend, length
  <2>a. CASE Load
    BY <2>a, <2>2, <2>3 DEF Load, LoadSucceeds, LoadFails, Returns
  <2>b. CASE Warmup
    BY <2>b, <2>2, <2>4 DEF Warmup, Returns
  <2>c. CASE ResetSession
    <3>1. CASE session # NoSession \/ lifecycle = "UnloadFailed"
      BY <3>1, <2>c, <2>5, <2>s, <2>2 DEF ResetSession, InvalidateSession, Returns
    <3>2. CASE ~(session # NoSession \/ lifecycle = "UnloadFailed")
      BY <3>2, <2>c, <2>2 DEF ResetSession, Returns
    <3> QED
      BY <3>1, <3>2
  <2>d. CASE Unload
    <3>1. CASE lifecycle = "Unloaded"
      BY <3>1, <2>d, <2>2 DEF Unload, AlreadyUnloaded, Returns
    <3>2. CASE lifecycle # "Unloaded"
      <4>1. /\ lifecycle # "None" /\ lifecycle' \in {"Unloaded", "UnloadFailed"}
            /\ session' = NoSession /\ result'.tokens = 0
        <5>1. ~AlreadyUnloaded
          BY <3>2 DEF AlreadyUnloaded
        <5>2. \/ lifecycle' = "UnloadFailed" /\ Returns("unload", "failed", 0)
              \/ lifecycle' = "Unloaded" /\ Returns("unload", "ok", 0)
          BY <5>1, <2>d DEF Unload
        <5>3. lifecycle # "None" /\ session' = NoSession
          BY <5>1, <2>d DEF Unload
        <5> QED
          BY <5>2, <5>3 DEF Returns
      <4> QED
        BY <4>1, <3>2, <2>6
    <3> QED
      BY <3>1, <3>2
  <2>e. CASE Drop
    BY <2>e, <2>7 DEF Drop, Returns
  <2>f. ASSUME NEW token \in Tokens, NEW ident \in SessionIds,
               \/ \E n \in 0..MaxContext + 1, mtp, greedy \in BOOLEAN :
                    PrefillCall(token, ident, n, mtp, greedy)
               \/ DecodeCall(token, ident)
        PROVE  [Contract!ContractNext]_(Contract!contractVars)
    BY <2>f, <2>1, <2>2 DEF PrefillCall, DecodeCall, Returns
  <2>g. CASE Check
    BY <2>g, <2>1, <2>2 DEF Check, MoveTo, Returns
  <2>j. CASE PrefillExecute
    BY <2>j, <2>1 DEF PrefillExecute, Abandon
  <2>k. CASE PrefillFinish
    <3>1. lifecycle = "Warm" /\ call \in Call /\ call.length > 0
      BY <2>k, CallInProgress DEF PrefillFinish, EngineInv, EngineTypeOK, CallInv, Idle, NoCall
    <3>2. CASE UNCHANGED <<lifecycle, session>> /\ UNCHANGED result
      BY <3>2, <2>1
    <3>3. CASE /\ session' = [id |-> call.id, context_tokens |-> call.length,
                              mtp_enabled |-> call.mtp]
               /\ lifecycle' = "Active" /\ Returns("prefill", "ok", 1)
      BY <3>1, <3>3, <2>8, EngineAssumption
      DEF EngineAssumption, Call, Returns
    <3> QED
      BY <3>2, <3>3, <2>k DEF PrefillFinish, Abandon
  <2>l. CASE DecodeExecute
    BY <2>l, <2>1 DEF DecodeExecute, Abandon
  <2>m. ASSUME lifecycle = "Active", UNCHANGED lifecycle, NEW n \in 0..ExecutorDrafts, Advance(n)
        PROVE  [Contract!ContractNext]_(Contract!contractVars)
    BY <2>m, <2>1, <2>9, <2>s DEF Advance, Abandon, Returns
  <2>n. CASE DecodeFinish \/ DecodeCommit
    <3>1. /\ lifecycle = "Active" /\ UNCHANGED lifecycle
          /\ call.accepted \in 0..ExecutorDrafts /\ 0 \in 0..ExecutorDrafts
      <4>1. call.op = "decode" /\ call.at \in {"finish", "commit"} /\ UNCHANGED lifecycle
        BY <2>n DEF DecodeFinish, DecodeCommit
      <4>2. call \in Call
        BY <4>1, CallInProgress DEF EngineInv, EngineTypeOK, Idle, NoCall
      <4> QED
        BY <4>1, <4>2, ExecutorAssumption DEF EngineInv, CallInv, Call, ExecutorAssumption
    <3>2. CASE UNCHANGED <<session, result>>
      BY <3>1, <3>2, <2>1
    <3>3. \/ UNCHANGED <<session, result>>
          \/ Advance(0) \/ Advance(call.accepted)
      BY <2>n DEF DecodeFinish, DecodeCommit, Abandon
    <3> QED
      BY <3>1, <3>2, <3>3, <2>m
  <2>o. CASE Invalidate
    <3>1. lifecycle \in {"Warm", "Active"}
      BY <2>o, CallInProgress
      DEF Invalidate, EngineInv, EngineTypeOK, CallInv, Idle, NoCall, Call
    <3> QED
      BY <3>1, <2>o, <2>5 DEF Invalidate, InvalidateSession, Returns
  <2>p. CASE UNCHANGED engineVars
    BY <2>p, <2>1 DEF engineVars
  <2> QED
    BY <2>a, <2>b, <2>c, <2>d, <2>e, <2>f, <2>g, <2>j, <2>k, <2>l, <2>n, <2>o, <2>p
    DEF Next, CallStep, Request, Cancel, NewToken, vars
<1> QED
  BY <1>1, <1>2, Invariance, PTL DEF Spec, ImplementsContract, Contract!ContractSpec
=============================================================================
