------------------------- MODULE EngineServerProofs -------------------------
(***************************************************************************)
(* Proofs about EngineServer, for every number of connections, identifiers *)
(* and tokens.  Every step of the server is a step of Engine or leaves it  *)
(* alone, so the engine's inductive invariant holds here as well; ServerInv *)
(* adds what the threads, the registry and the mutex say of each other.     *)
(***************************************************************************)
EXTENDS EngineServer, EngineProofs

-----------------------------------------------------------------------------
(* The inductive invariant, in named parts. *)

\* Threads inside engine.lock().
Holding == {"running", "streaming", "closing"}

\* What each thread's request can be where the thread is.
JobInv ==
  \A c \in Connections :
    /\ pc[c] \in Registered =>
         /\ job[c].kind \in {"prefill", "decode", "responses"}
         /\ job[c].operation \in SessionIds /\ job[c].session \in SessionIds
         /\ job[c].kind = "responses" => job[c].session = job[c].operation
    /\ pc[c] \in {"streaming", "closing"} => job[c].kind = "responses"
    /\ job[c].kind \in {"prefill", "decode"} => c \in TokenClients

\* One thread has the mutex; a call in progress is its call, for the session
\* its request names.
HolderInv ==
  /\ lifecycle # "None"
  /\ \A c \in Connections : engine = c <=> pc[c] \in Holding
  /\ ~Idle =>
       /\ engine # Free /\ pc[engine] = "running"
       /\ call.token = engine /\ call.id = job[engine].session
       /\ job[engine].kind = "prefill" => call.op = "prefill"
       /\ call.op = "decode" => session.id = call.id
       /\ call.at = "invalidate" => call.status # "ok"

\* What the engine's last answer means to the thread that will take it.
AnswerInv ==
  /\ \A c \in Connections :
       pc[c] = "running" /\ Idle /\ result.status = "ok" =>
         /\ session # NoSession /\ session.id = job[c].session
         /\ job[c].kind = "prefill" => result.tokens = 1
  /\ \A c \in Connections :
       pc[c] = "streaming" => session # NoSession /\ session.id = job[c].session

\* A clone is the token of a registered operation that was asked for, or
\* of none.
CloneInv ==
  \A c \in Connections :
    /\ pc[c] = "found" <=> job[c].clone # Free
    /\ job[c].clone \in Connections =>
         pc[job[c].clone] \in Registered /\ job[c].clone \in asked

\* Only registered operations are cancelled, and only those asked for; one
\* cancelled in the queue never gets past the first look at its token.
CancelInv ==
  /\ \A c \in cancelled : pc[c] \in Registered /\ c \in asked
  /\ \A c \in queuedCancel :
       /\ c \in cancelled
       /\ pc[c] # "streaming"
       /\ pc[c] = "running" =>
            IF Idle THEN result.status # "ok" ELSE call.at = "check"
       /\ pc[c] \in {"closing", "unlocked"} => job[c].outcome # "ok"

\* The counts of the running generation.
StreamInv ==
  engine # Free =>
    /\ stream.emitted + stream.pending + stream.stopped = stream.generated
    /\ pc[engine] \in {"running", "streaming"} => stream.stopped = 0
    /\ pc[engine] = "closing" /\ job[engine].outcome = "ok" => stream.pending = 0

ThreadInv ==
  /\ RegistryIsExact
  /\ JobInv /\ HolderInv /\ AnswerInv /\ CloneInv /\ CancelInv /\ StreamInv

ServerInv == EngineInv /\ ThreadInv

\* There is one token-ID client, as the numbering of its tokens needs.
OneTokenClient == \A c, d \in TokenClients : c = d

\* A thread whose tokens the engine has answered and the counter not yet
\* numbered.
Numbering(c) ==
  \/ pc[c] \in {"renumber", "number"}
  \/ /\ pc[c] = "unlocked" /\ job[c].kind \in {"prefill", "decode"}
     /\ job[c].outcome = "ok"

\* The counter against what was answered: it lags behind by the tokens of that
\* answer and by nothing else.
NumberInv ==
  /\ \A c \in Connections : Numbering(c) =>
       /\ c \in TokenClients
       /\ answered = job[c].rank + job[c].count
       /\ pc[c] = "unlocked" =>
            job[c].rank = IF job[c].kind = "prefill" THEN 0 ELSE sequence_index
       /\ pc[c] = "renumber" => job[c].rank = 0
       /\ pc[c] = "number" => job[c].rank = sequence_index
  /\ (\A c \in TokenClients : ~Numbering(c)) => answered = sequence_index

-----------------------------------------------------------------------------
(* Steps of the engine, as the server sees them. *)

\* A step inside a call: the call keeps its token and session id, and its
\* answer ok means that the named session is open.
LEMMA CallStepAnswers ==
  ASSUME EngineInv, CallStep,
         call.op = "decode" => session.id = call.id,
         call.at = "invalidate" => call.status # "ok"
  PROVE  /\ ~Idle /\ call \in Call /\ lifecycle' # "None" /\ cancelled' = cancelled
         /\ ~Idle' => /\ call'.token = call.token /\ call'.id = call.id
                      /\ call'.op = call.op
                      /\ call'.op = "decode" => session'.id = call'.id
                      /\ call'.at = "invalidate" => call'.status # "ok"
         /\ Idle' /\ result'.status = "ok" =>
              /\ session' # NoSession /\ session'.id = call.id
              /\ call.op = "prefill" => result'.tokens = 1
         /\ call.at = "check" /\ call.token \in cancelled =>
              /\ Idle' /\ result'.status = "cancelled"
              /\ UNCHANGED <<executorVars, session, lifecycle>>
<1> USE DEF Idle
<1>1. ~Idle /\ call \in Call
  BY CallInProgress
  DEF CallStep, Check, PrefillExecute, PrefillFinish, DecodeExecute, DecodeFinish,
      DecodeCommit, Invalidate, EngineInv, EngineTypeOK
<1>2. /\ call.op \in {"prefill", "decode"}
      /\ call.op = "prefill" => lifecycle = "Warm"
      /\ call.op = "decode" => lifecycle = "Active" /\ session \in Sessions
  BY <1>1 DEF EngineInv, EngineTypeOK, CallInv, LifecycleInv, Call
<1>a. ASSUME NEW status \in {"failed", "cancelled"}, Abandon(status)
      PROVE  /\ call' \in Call /\ ~Idle' /\ call'.token = call.token /\ call'.id = call.id
             /\ call'.op = call.op /\ call'.status # "ok"
  BY <1>a, <1>1 DEF Abandon, Call, Statuses, NoCall
<1>3. CASE Check
  BY <1>1, <1>2, <1>3 DEF Check, MoveTo, Returns, Call, NoCall
<1>4. CASE PrefillExecute
  BY <1>1, <1>2, <1>4, <1>a DEF PrefillExecute, Call, NoCall
<1>5. CASE PrefillFinish
  BY <1>1, <1>2, <1>5, <1>a, EngineAssumption
  DEF PrefillFinish, Returns, Call, NoCall, EngineAssumption
<1>6. CASE DecodeExecute
  BY <1>1, <1>2, <1>6, <1>a DEF DecodeExecute, Call, NoCall
<1>b. ASSUME NEW k \in 0..ExecutorDrafts, Advance(k), call.op = "decode"
      PROVE  /\ session'.id = session.id /\ session' # NoSession
             /\ ~Idle' => /\ call'.token = call.token /\ call'.id = call.id
                          /\ call'.op = call.op /\ call'.status # "ok"
  BY <1>b, <1>1, <1>2, <1>a, EngineAssumption
  DEF Advance, Returns, Sessions, EngineAssumption
<1>7. CASE DecodeFinish
  <2>0. 0 \in 0..ExecutorDrafts
    BY ExecutorAssumption DEF ExecutorAssumption
  <2>1. /\ call.op = "decode" /\ call.at = "finish"
        /\ UNCHANGED <<lifecycle, cancelled>>
    BY <1>7 DEF DecodeFinish
  <2>2. CASE UNCHANGED session /\ (Abandon("failed") \/ Abandon("cancelled"))
    BY <2>1, <2>2, <1>1, <1>2, <1>a
  <2>3. CASE Advance(0)
    BY <2>0, <2>1, <2>3, <1>1, <1>2, <1>b DEF Advance, Returns
  <2>4. CASE /\ \E k \in 0..call.drafts :
                  call' = [call EXCEPT !.at = "commit", !.accepted = k]
             /\ UNCHANGED <<result, session>>
    BY <2>1, <2>4, <1>1, <1>2 DEF Call, NoCall
  <2> QED
    BY <2>2, <2>3, <2>4, <1>7 DEF DecodeFinish
<1>8. CASE DecodeCommit
  BY <1>1, <1>2, <1>8, <1>a, <1>b DEF DecodeCommit, Call, NoCall
<1>9. CASE Invalidate
  BY <1>1, <1>2, <1>9 DEF Invalidate, InvalidateSession, Returns, Call, NoCall
<1> QED
  BY <1>3, <1>4, <1>5, <1>6, <1>7, <1>8, <1>9 DEF CallStep

-----------------------------------------------------------------------------
(* The inductive invariant *)

\* A server that starts has an empty registry and no request under way.
LEMMA ServerInitInv == ServerInit => ServerInv
<1> SUFFICES ASSUME ServerInit PROVE ServerInv
  OBVIOUS
<1> USE ServerAssumption, ExecutorAssumption DEF ServerAssumption, ExecutorAssumption
<1>1. EngineTypeOK
  BY DEF ServerInit, EngineTypeOK, ExecutorTypeOK, Lifecycles, Result, Operations, Statuses
<1>2. EngineInv
  BY <1>1
  DEF ServerInit, EngineInv, LifecycleInv, CallInv, CleanInv, PositionInv, Idle, NoCall,
      Allocations
<1>3. NoJob \in Job /\ NoJob.kind = "none" /\ NoJob.clone = Free
  BY DEF NoJob, Job, Statuses
<1>4. ServerTypeOK
  BY <1>1, <1>3 DEF ServerInit, ServerTypeOK, NoStream
<1>5. RegistryIsExact
  BY <1>4 DEF ServerInit, RegistryIsExact, Registered
<1>6. JobInv /\ HolderInv /\ AnswerInv /\ CloneInv /\ CancelInv /\ StreamInv
  BY <1>3
  DEF ServerInit, JobInv, HolderInv, AnswerInv, CloneInv, CancelInv, StreamInv, Holding,
      Registered, Idle
<1> QED
  BY <1>2, <1>5, <1>6 DEF ServerInv, ThreadInv

\* Every step of the server is a step of the engine it owns.
LEMMA ServerStepIsEngineStep ==
  ASSUME ServerInv, [ServerNext]_allVars
  PROVE  [Next]_vars
<1> USE ServerAssumption DEF ServerAssumption
<1>1. CASE UNCHANGED allVars
  BY <1>1 DEF allVars
<1>2. CASE TokenRequest \/ ResponsesRequest
  BY <1>2 DEF TokenRequest, ResponsesRequest, BeginOperation
<1>3. CASE EngineRuns
  BY <1>3 DEF EngineRuns, Next
<1>4. ASSUME NEW c \in Connections, Operation(c)
      PROVE  [Next]_vars
  <2>1. CASE LockEngine(c)
    <3>1. c \in Tokens /\ job[c].session \in SessionIds
      BY <2>1 DEF LockEngine, ServerInv, ThreadInv, JobInv, Registered
    <3>2. ASSUME NEW length \in 1..MaxContext
          PROVE  length \in 0..MaxContext + 1
      BY <3>2, ExecutorAssumption DEF ExecutorAssumption
    <3> QED
      BY <2>1, <3>1, <3>2 DEF LockEngine, Next, Request
  <2>2. CASE AfterOperation(c)
    BY <2>2 DEF AfterOperation, DropToken, Next
  <2>3. CASE StreamDecodes(c)
    <3>1. c \in Tokens /\ job[c].session \in SessionIds
      BY <2>3 DEF StreamDecodes, Holds, ServerInv, ThreadInv, JobInv, Registered
    <3> QED
      BY <2>3, <3>1 DEF StreamDecodes, Next, Request
  <2>4. CASE CloseStream(c)
    BY <2>4 DEF CloseStream, GenerationReset, Next, Request
  <2> QED
    BY <1>4, <2>1, <2>2, <2>3, <2>4
    DEF Operation, UnlockEngine, ResetSequenceIndex, NextSequenceIndices, TakeStep,
        StreamToken, ReadMetrics
<1>5. ASSUME NEW c \in Connections, CancelOperation(c)
      PROVE  [Next]_vars
  <2>1. job[c].clone \in Connections \cup {Stale}
    BY <1>5
    DEF CancelOperation, ServerInv, ThreadInv, RegistryIsExact, ServerTypeOK, CloneInv, Job
  <2> QED
    BY <1>5, <2>1 DEF CancelOperation, CancelToken, Next
<1>6. ASSUME NEW c \in Connections, Respond(c)
      PROVE  [Next]_vars
  BY <1>6 DEF Respond
<1>7. ASSUME NEW c \in ControlClients, Control(c)
      PROVE  [Next]_vars
  BY <1>7
  DEF Control, CancelRequest, ResetRequest, WarmupRequest, UnloadRequest, Next, Request
<1> QED
  BY <1>1, <1>2, <1>3, <1>4, <1>5, <1>6, <1>7 DEF ServerNext

\* begin_operation: the thread enters the registry under a free id.
LEMMA BeginKeepsInv ==
  ASSUME ServerInv, EngineInv', NEW c \in Connections,
         NEW kind \in {"prefill", "decode", "responses"},
         NEW id \in SessionIds, NEW sid \in SessionIds,
         kind = "responses" => id = sid,
         kind \in {"prefill", "decode"} => c \in TokenClients,
         BeginOperation(c, kind, id, sid)
  PROVE  ThreadInv'
<1> USE ServerAssumption DEF ServerAssumption, ServerInv, ThreadInv
<1> DEFINE new == [NoJob EXCEPT !.kind = kind, !.operation = id, !.session = sid]
<1>1. /\ new \in Job /\ new.kind = kind /\ new.operation = id /\ new.session = sid
      /\ new.clone = Free
  BY DEF NoJob, Job, Statuses
<1>2. /\ job' = [job EXCEPT ![c] = new] /\ pc' = [pc EXCEPT ![c] = "queued"]
      /\ operations' = [operations EXCEPT ![id] = c]
      /\ pc[c] = "ready" /\ operations[id] = Free
      /\ UNCHANGED <<vars, engine, sequence_index, stream, answered, queuedCancel, asked>>
  BY DEF BeginOperation, Goes, historyVars
<1> HIDE DEF new
<1>u. \A b \in Connections : /\ pc'[b] = IF b = c THEN "queued" ELSE pc[b]
                             /\ job'[b] = IF b = c THEN new ELSE job[b]
  BY <1>2 DEF RegistryIsExact, ServerTypeOK
<1>t. ServerTypeOK'
  BY <1>1, <1>2 DEF RegistryIsExact, ServerTypeOK, EngineInv, Registered
<1>3. RegistryIsExact'
  BY <1>1, <1>2, <1>t DEF RegistryIsExact, ServerTypeOK, Registered
<1>4. JobInv'
  BY <1>1, <1>2 DEF RegistryIsExact, ServerTypeOK, Registered, JobInv
<1>5. HolderInv'
  BY <1>1, <1>2
  DEF RegistryIsExact, ServerTypeOK, Holding, HolderInv, vars, engineVars, Idle
<1>6. AnswerInv' /\ StreamInv'
  BY <1>1, <1>2
  DEF RegistryIsExact, ServerTypeOK, AnswerInv, StreamInv, HolderInv, Holding, vars, engineVars, Idle
<1>7. CloneInv'
  <2> SUFFICES ASSUME NEW b \in Connections
               PROVE  /\ pc'[b] = "found" <=> job'[b].clone # Free
                      /\ job'[b].clone \in Connections =>
                           pc'[job'[b].clone] \in Registered /\ job'[b].clone \in asked'
    BY DEF CloneInv
  <2>1. pc[b] = "found" <=> job[b].clone # Free
    BY DEF CloneInv
  <2>2. job[b].clone \in Connections => pc[job[b].clone] \in Registered /\ job[b].clone \in asked
    BY DEF CloneInv
  <2>3. CASE b = c
    BY <1>1, <1>u, <2>3
  <2>4. CASE b # c
    <3>1. job'[b] = job[b] /\ pc'[b] = pc[b] /\ asked' = asked
      BY <1>2, <1>u, <2>4
    <3> QED
      BY <3>1, <1>u, <2>1, <2>2 DEF Registered
  <2> QED
    BY <2>3, <2>4
<1>8. CancelInv'
  BY <1>1, <1>2
  DEF RegistryIsExact, ServerTypeOK, CancelInv, Registered, vars, engineVars, Idle
<1> QED
  BY <1>3, <1>4, <1>5, <1>6, <1>7, <1>8

\* A step in which every thread keeps its request, and is registered after it
\* if it was before.
LEMMA SameRequests ==
  ASSUME ThreadInv, ServerTypeOK',
         UNCHANGED <<operations, asked>>,
         \A b \in Connections :
           /\ job'[b].kind = job[b].kind /\ job'[b].operation = job[b].operation
           /\ job'[b].session = job[b].session /\ job'[b].clone = job[b].clone
           /\ pc'[b] \in Registered <=> pc[b] \in Registered
           /\ pc'[b] = "found" <=> pc[b] = "found"
           /\ pc'[b] \in {"streaming", "closing"} => job[b].kind = "responses"
  PROVE  RegistryIsExact' /\ JobInv' /\ CloneInv'
<1>1. RegistryIsExact'
  BY DEF ThreadInv, RegistryIsExact
<1>2. JobInv'
  BY DEF ThreadInv, JobInv
<1>3. CloneInv'
  BY DEF ThreadInv, CloneInv
<1> QED
  BY <1>1, <1>2, <1>3

\* An answer of the engine fits the fields of a job and of a stream.
LEMMA AnswerFits ==
  ASSUME EngineTypeOK
  PROVE  /\ result.status \in Statuses /\ result.tokens \in Nat
         /\ result.tokens \in 0..ExecutorDrafts + 1
  BY ExecutorAssumption DEF ExecutorAssumption, EngineTypeOK, Result

\* Tokens that are set belong to connections.
LEMMA SetTokens ==
  ASSUME ServerInv
  PROVE  cancelled \subseteq Connections /\ queuedCancel \subseteq Connections
  BY ServerAssumption
  DEF ServerAssumption, ServerInv, ThreadInv, RegistryIsExact, ServerTypeOK, EngineTypeOK

\* The thread gets the engine mutex, with or without having to wait for it.
LEMMA LockKeepsInv ==
  ASSUME ServerInv, EngineInv', NEW c \in Connections, LockEngine(c)
  PROVE  ThreadInv'
<1> USE DEF ServerInv, ThreadInv
<1>1. /\ pc[c] = "queued" /\ engine = Free /\ engine' = c /\ Idle
      /\ pc' = [pc EXCEPT ![c] = "running"] /\ stream' = NoStream
      /\ UNCHANGED <<executorVars, lifecycle, session, cancelled, operations,
                     sequence_index, job, answered, queuedCancel, asked>>
  BY DEF LockEngine, Goes, historyVars, PrefillCall, DecodeCall
<1>u. \A b \in Connections : pc'[b] = IF b = c THEN "running" ELSE pc[b]
  BY <1>1 DEF RegistryIsExact, ServerTypeOK
<1>2. \/ Idle' /\ result'.status = "rejected"
      \/ /\ ~Idle' /\ call'.token = c /\ call'.id = job[c].session
         /\ call'.at = "check" /\ call'.op \in {"prefill", "decode"}
         /\ job[c].kind = "prefill" => call'.op = "prefill"
         /\ call'.op = "decode" => session.id = call'.id
  <2>1. CASE /\ job[c].kind # "decode"
             /\ \E length \in 1..MaxContext, mtp \in BOOLEAN :
                  PrefillCall(c, job[c].session, length, mtp, TRUE)
    <3>1. PICK length \in 1..MaxContext, mtp \in BOOLEAN :
            PrefillCall(c, job[c].session, length, mtp, TRUE)
      BY <2>1
    <3>2. \/ call' = NewCall("prefill", c, job[c].session, mtp, length)
          \/ Returns("prefill", "rejected", 0)
      BY <3>1 DEF PrefillCall
    <3> QED
      BY <2>1, <3>2 DEF NewCall, NoCall, Returns, Idle
  <2>2. CASE job[c].kind = "decode" /\ DecodeCall(c, job[c].session)
    BY <2>2 DEF DecodeCall, DecodeAdmitted, NewCall, NoCall, Returns, Idle
  <2> QED
    BY <2>1, <2>2 DEF LockEngine
<1>t. ServerTypeOK'
  BY <1>1, ServerAssumption, ExecutorAssumption
  DEF RegistryIsExact, ServerTypeOK, EngineInv, Registered, NoStream, ServerAssumption,
      ExecutorAssumption
<1>3. RegistryIsExact' /\ JobInv' /\ CloneInv'
  BY <1>1, <1>u, <1>t, SameRequests DEF JobInv, Registered
<1>4. HolderInv'
  BY <1>1, <1>u, <1>2, ServerAssumption DEF HolderInv, Holding, ServerAssumption
<1>5. AnswerInv'
  BY <1>1, <1>u, <1>2, ServerAssumption DEF AnswerInv, HolderInv, Holding, ServerAssumption
<1>6. CancelInv'
  BY <1>1, <1>u, <1>2, ServerAssumption
  DEF CancelInv, HolderInv, Holding, Registered, ServerAssumption
<1>7. StreamInv'
  BY <1>1, <1>u DEF StreamInv, NoStream
<1> QED
  BY <1>3, <1>4, <1>5, <1>6, <1>7

\* The record of a request whose call has returned.
LEMMA UnlockedJobs ==
  ASSUME ServerInv, NEW c \in Connections, UnlockEngine(c)
  PROVE  /\ job' \in [Connections -> Job] /\ job'[c].outcome = result.status
         /\ job'[c].count = result.tokens
         /\ job'[c].rank = IF job[c].kind = "prefill" THEN 0 ELSE answered
         /\ \A b \in Connections : /\ b # c => job'[b] = job[b]
                                   /\ job'[b].kind = job[b].kind
                                   /\ job'[b].operation = job[b].operation
                                   /\ job'[b].session = job[b].session
                                   /\ job'[b].clone = job[b].clone
<1> DEFINE numbered == IF job[c].kind = "prefill" THEN 0 ELSE answered
           ended == [job EXCEPT ![c].outcome = result.status]
           counted == [ended EXCEPT ![c].count = result.tokens]
           ranked == [counted EXCEPT ![c].rank = numbered]
<1>1. /\ job \in [Connections -> Job] /\ numbered \in Nat
      /\ result.status \in Statuses /\ result.tokens \in Nat
  BY AnswerFits DEF ServerInv, ThreadInv, RegistryIsExact, ServerTypeOK, EngineInv
<1>2. job' = ranked
  BY DEF UnlockEngine
<1> HIDE DEF numbered
<1>3. /\ ended \in [Connections -> Job] /\ ended[c].outcome = result.status
      /\ \A b \in Connections : /\ b # c => ended[b] = job[b]
                                /\ ended[b].kind = job[b].kind
                                /\ ended[b].operation = job[b].operation
                                /\ ended[b].session = job[b].session
                                /\ ended[b].clone = job[b].clone
  BY <1>1 DEF Job
<1> HIDE DEF ended
<1>4. /\ counted \in [Connections -> Job] /\ counted[c].outcome = result.status
      /\ counted[c].count = result.tokens
      /\ \A b \in Connections : /\ b # c => counted[b] = job[b]
                                /\ counted[b].kind = job[b].kind
                                /\ counted[b].operation = job[b].operation
                                /\ counted[b].session = job[b].session
                                /\ counted[b].clone = job[b].clone
  BY <1>1, <1>3 DEF Job
<1> HIDE DEF counted
<1>5. /\ ranked \in [Connections -> Job] /\ ranked[c].outcome = result.status
      /\ ranked[c].count = result.tokens /\ ranked[c].rank = numbered
      /\ \A b \in Connections : /\ b # c => ranked[b] = job[b]
                                /\ ranked[b].kind = job[b].kind
                                /\ ranked[b].operation = job[b].operation
                                /\ ranked[b].session = job[b].session
                                /\ ranked[b].clone = job[b].clone
  BY <1>1, <1>4 DEF Job
<1> HIDE DEF ranked
<1> QED
  BY <1>2, <1>5 DEF numbered

\* The thread gives the engine back and goes on to its epilogue.
LEMMA UnlockKeepsInv ==
  ASSUME ServerInv, EngineInv', NEW c \in Connections, UnlockEngine(c)
  PROVE  ThreadInv'
<1> USE DEF ServerInv, ThreadInv
<1>1. /\ pc[c] = "running" /\ engine = c /\ engine' = Free /\ Idle
      /\ pc' = [pc EXCEPT ![c] = "unlocked"]
      /\ answered' \in {answered, 1, answered + result.tokens}
      /\ UNCHANGED <<vars, operations, sequence_index, stream, queuedCancel, asked>>
  BY DEF UnlockEngine, Goes
<1>j. /\ job' \in [Connections -> Job] /\ job'[c].outcome = result.status
      /\ job'[c].count = result.tokens
      /\ job'[c].rank = IF job[c].kind = "prefill" THEN 0 ELSE answered
      /\ \A b \in Connections : /\ b # c => job'[b] = job[b]
                                /\ job'[b].kind = job[b].kind
                                /\ job'[b].operation = job[b].operation
                                /\ job'[b].session = job[b].session
                                /\ job'[b].clone = job[b].clone
  BY UnlockedJobs
<1>u. \A b \in Connections : pc'[b] = IF b = c THEN "unlocked" ELSE pc[b]
  BY <1>1 DEF RegistryIsExact, ServerTypeOK
<1>t. ServerTypeOK'
  <2>1. answered' \in Nat
    BY <1>1, AnswerFits DEF RegistryIsExact, ServerTypeOK, EngineInv
  <2> QED
    BY <1>1, <1>j, <2>1 DEF RegistryIsExact, ServerTypeOK, EngineInv, Registered
<1>3. RegistryIsExact' /\ JobInv' /\ CloneInv'
  BY <1>1, <1>j, <1>u, <1>t, SameRequests DEF JobInv, Registered
<1>4. HolderInv'
  BY <1>1, <1>j, <1>u, ServerAssumption
  DEF HolderInv, Holding, ServerAssumption, vars, engineVars, Idle
<1>5. AnswerInv' /\ StreamInv'
  BY <1>1, <1>j, <1>u, ServerAssumption
  DEF AnswerInv, StreamInv, HolderInv, Holding, ServerAssumption, vars, engineVars, Idle
<1>6. CancelInv'
  BY <1>1, <1>j, <1>u, SetTokens DEF CancelInv, Registered, vars, engineVars, Idle
<1> QED
  BY <1>3, <1>4, <1>5, <1>6

\* A thread that only leaves its job behind: its operation is over and it
\* holds neither the engine nor a clone.
LEMMA EpilogueKeepsInv ==
  ASSUME ServerInv, EngineInv', NEW c \in Connections,
         ResetSequenceIndex(c) \/ NextSequenceIndices(c) \/ Respond(c) \/ ReadMetrics(c)
  PROVE  ThreadInv'
<1> USE DEF ServerInv, ThreadInv
<1>1. PICK to \in {"number", "respond", "ready"} :
        /\ pc[c] \in {"renumber", "number", "respond", "metrics"}
        /\ pc' = [pc EXCEPT ![c] = to]
        /\ job' = job \/ job' = [job EXCEPT ![c] = NoJob]
        /\ sequence_index' \in {sequence_index, 0, sequence_index + job[c].count}
        /\ UNCHANGED <<vars, engine, operations, stream, answered, queuedCancel, asked>>
  BY DEF ResetSequenceIndex, NextSequenceIndices, Respond, ReadMetrics, Goes, historyVars
<1>j. NoJob \in Job /\ NoJob.kind = "none" /\ NoJob.clone = Free
  BY DEF NoJob, Job, Statuses
<1>t. ServerTypeOK'
  <2>1. job' \in [Connections -> Job] /\ sequence_index' \in Nat
    BY <1>1, <1>j DEF RegistryIsExact, ServerTypeOK, Job
  <2> QED
    BY <1>1, <2>1 DEF RegistryIsExact, ServerTypeOK, EngineInv
<1>u. \A b \in Connections : /\ pc'[b] = IF b = c THEN to ELSE pc[b]
                             /\ b # c => job'[b] = job[b]
                             /\ b = c => job'[b] = job[b] \/ job'[b] = NoJob
  BY <1>1 DEF RegistryIsExact, ServerTypeOK
<1>3. RegistryIsExact'
  BY <1>1, <1>u, <1>t DEF RegistryIsExact, Registered
<1>4. JobInv'
  BY <1>1, <1>j, <1>u DEF JobInv, Registered
<1>c. CloneInv'
  <2>1. job[c].clone = Free
    BY <1>1 DEF CloneInv
  <2>2. ASSUME NEW b \in Connections PROVE job'[b].clone = job[b].clone
    <3>1. CASE b = c
      BY <3>1, <1>j, <1>u, <2>1
    <3>2. CASE b # c
      BY <3>2, <1>u
    <3> QED
      BY <3>1, <3>2
  <2>3. \A b \in Connections : /\ pc'[b] = "found" <=> pc[b] = "found"
                               /\ pc[b] \in Registered => pc'[b] = pc[b]
    BY <1>1, <1>u DEF Registered
  <2> QED
    BY <1>1, <2>2, <2>3 DEF CloneInv
<1>5. HolderInv'
  <2>1. engine # c
    BY <1>1 DEF HolderInv, Holding
  <2>2. engine # Free => engine \in Connections
    BY DEF RegistryIsExact, ServerTypeOK
  <2>3. engine # Free => job'[engine] = job[engine] /\ pc'[engine] = pc[engine]
    BY <2>1, <2>2, <1>u
  <2>4. \A b \in Connections : pc'[b] \in Holding <=> pc[b] \in Holding
    BY <1>1, <1>u DEF Holding
  <2> QED
    BY <1>1, <2>3, <2>4 DEF HolderInv, vars, engineVars, Idle
<1>a. AnswerInv'
  BY <1>1, <1>u DEF AnswerInv, vars, engineVars, Idle
<1>6. CancelInv'
  BY <1>1, <1>u, SetTokens DEF CancelInv, Registered, vars, engineVars, Idle
<1>7. StreamInv'
  BY <1>1, <1>u DEF StreamInv, HolderInv, Holding, RegistryIsExact, ServerTypeOK
<1> QED
  BY <1>3, <1>4, <1>c, <1>5, <1>a, <1>6, <1>7

\* DropToken changes the clones of c's token and nothing else of the others.
LEMMA AfterJobs ==
  ASSUME ServerInv, NEW c \in Connections, AfterOperation(c)
  PROVE  /\ job' = [b \in Connections |-> job'[b]] /\ job'[c] = Leftover(c)
         /\ \A b \in Connections \ {c} :
              /\ job'[b] \in Job
              /\ job'[b].kind = job[b].kind /\ job'[b].operation = job[b].operation
              /\ job'[b].session = job[b].session /\ job'[b].outcome = job[b].outcome
              /\ job'[b].count = job[b].count /\ job'[b].rank = job[b].rank
              /\ job'[b].clone = IF job[b].clone = c THEN Stale ELSE job[b].clone
<1> DEFINE left == Leftover(c)
<1>1. job \in [Connections -> Job]
  BY DEF ServerInv, ThreadInv, RegistryIsExact, ServerTypeOK
<1>2. /\ job' = [b \in Connections |-> job'[b]]
      /\ \A b \in Connections :
           job'[b] = IF b = c THEN left
                     ELSE IF job[b].clone = c THEN [job[b] EXCEPT !.clone = Stale]
                     ELSE job[b]
  BY DEF AfterOperation, DropToken
<1> HIDE DEF left
<1>3. ASSUME NEW b \in Connections \ {c}
      PROVE  /\ job'[b] \in Job
             /\ job'[b].kind = job[b].kind /\ job'[b].operation = job[b].operation
             /\ job'[b].session = job[b].session /\ job'[b].outcome = job[b].outcome
             /\ job'[b].count = job[b].count /\ job'[b].rank = job[b].rank
             /\ job'[b].clone = IF job[b].clone = c THEN Stale ELSE job[b].clone
  <2>1. job[b] \in Job
    BY <1>1
  <2>2. CASE job[b].clone = c
    <3> DEFINE old == job[b]
    <3>1. old \in Job /\ job'[b] = [old EXCEPT !.clone = Stale]
      BY <1>2, <2>1, <2>2
    <3> HIDE DEF old
    <3>2. /\ job'[b] \in Job /\ job'[b].clone = Stale
          /\ job'[b].kind = old.kind /\ job'[b].operation = old.operation
          /\ job'[b].session = old.session /\ job'[b].outcome = old.outcome
          /\ job'[b].count = old.count /\ job'[b].rank = old.rank
      BY <3>1 DEF Job
    <3> QED
      BY <3>2, <2>2 DEF old
  <2>3. CASE job[b].clone # c
    BY <1>2, <2>1, <2>3
  <2> QED
    BY <2>2, <2>3
<1> QED
  BY <1>2, <1>3 DEF left

\* finish_operation: the thread leaves the registry and its token is replaced.
LEMMA AfterKeepsInv ==
  ASSUME ServerInv, EngineInv', NEW c \in Connections, AfterOperation(c)
  PROVE  ThreadInv'
<1> USE DEF ServerInv, ThreadInv
<1> DEFINE to == AfterCall(c)
           left == Leftover(c)
<1>1. /\ pc[c] = "unlocked" /\ pc' = [pc EXCEPT ![c] = to]
      /\ operations' = [operations EXCEPT ![job[c].operation] = Free]
      /\ cancelled' = cancelled \ {c} /\ UNCHANGED <<executorVars, engineVars>>
      /\ queuedCancel' = queuedCancel \ {c} /\ asked' = asked \ {c}
      /\ UNCHANGED <<engine, sequence_index, stream, answered>>
  BY DEF AfterOperation, FinishOperation, DropToken, NewToken, Goes
<1>2. /\ job \in [Connections -> Job] /\ pc \in [Connections -> Registered \cup
           {"ready", "renumber", "number", "respond", "metrics", "found"}]
      /\ job[c].operation \in SessionIds /\ job[c].clone = Free
  BY <1>1 DEF RegistryIsExact, ServerTypeOK, JobInv, CloneInv, Registered
<1>3. /\ to \in {"renumber", "number", "respond", "metrics"}
      /\ left \in Job /\ left.clone = Free /\ left.kind \in {job[c].kind, "none"}
  BY <1>2 DEF AfterCall, Leftover, NoJob, Job, Statuses
<1>4. job' = [b \in Connections |-> job'[b]]
  BY AfterJobs
<1>5. \A b \in Connections \ {c} :
        /\ job'[b] \in Job
        /\ job'[b].kind = job[b].kind /\ job'[b].operation = job[b].operation
        /\ job'[b].session = job[b].session /\ job'[b].outcome = job[b].outcome
        /\ job'[b].clone = IF job[b].clone = c THEN Stale ELSE job[b].clone
  BY AfterJobs
<1>6. job'[c] = left /\ pc'[c] = to
  BY <1>1, <1>2, AfterJobs
<1> HIDE DEF to, left
<1>7. \A b \in Connections \ {c} : pc'[b] = pc[b]
  BY <1>1, <1>2
<1>t. ServerTypeOK'
  <2>1. job' \in [Connections -> Job]
    <3>1. \A b \in Connections : job'[b] \in Job
      BY <1>3, <1>5, <1>6
    <3> QED
      BY <1>4, <3>1
  <2>2. pc' \in [Connections -> Registered \cup
                   {"ready", "renumber", "number", "respond", "metrics", "found"}]
    BY <1>1, <1>2, <1>3
  <2> QED
    BY <1>1, <1>2, <2>1, <2>2 DEF RegistryIsExact, ServerTypeOK, EngineInv
<1>8. RegistryIsExact'
  <2> SUFFICES ASSUME NEW id \in SessionIds, NEW b \in Connections
               PROVE  operations'[id] = b <=> pc'[b] \in Registered /\ job'[b].operation = id
    BY <1>t DEF RegistryIsExact
  <2>1. /\ operations[id] = b <=> pc[b] \in Registered /\ job[b].operation = id
        /\ operations[id] = c <=> job[c].operation = id
    BY <1>1 DEF RegistryIsExact, Registered
  <2>2. operations'[id] = IF id = job[c].operation THEN Free ELSE operations[id]
    BY <1>1, <1>2 DEF RegistryIsExact, ServerTypeOK
  <2>3. CASE b = c
    BY <1>3, <1>6, <2>1, <2>2, <2>3, ServerAssumption DEF Registered, ServerAssumption
  <2>4. CASE b # c
    BY <1>5, <1>7, <2>1, <2>2, <2>4, ServerAssumption DEF ServerAssumption
  <2> QED
    BY <2>3, <2>4
<1>9. JobInv'
  BY <1>3, <1>5, <1>6, <1>7 DEF JobInv, Registered
<1>10. CloneInv'
  <2> SUFFICES ASSUME NEW b \in Connections
               PROVE  /\ pc'[b] = "found" <=> job'[b].clone # Free
                      /\ job'[b].clone \in Connections =>
                           pc'[job'[b].clone] \in Registered /\ job'[b].clone \in asked'
    BY DEF CloneInv
  <2>1. CASE b = c
    BY <1>3, <1>6, <2>1, ServerAssumption DEF ServerAssumption
  <2>2. CASE b # c
    BY <1>1, <1>5, <1>7, <2>2, ServerAssumption DEF CloneInv, ServerAssumption
  <2> QED
    BY <2>1, <2>2
<1>11. HolderInv'
  <2>1. engine # c /\ (engine # Free => engine \in Connections \ {c})
    BY <1>1 DEF HolderInv, Holding, RegistryIsExact, ServerTypeOK
  <2>2. \A b \in Connections : pc'[b] \in Holding <=> pc[b] \in Holding
    BY <1>1, <1>3, <1>6, <1>7 DEF Holding
  <2> QED
    BY <1>1, <1>5, <1>7, <2>1, <2>2 DEF HolderInv, engineVars, Idle
<1>12. AnswerInv'
  BY <1>1, <1>3, <1>5, <1>6, <1>7 DEF AnswerInv, engineVars, Idle
<1>13. CancelInv'
  BY <1>1, <1>5, <1>7, SetTokens DEF CancelInv, Registered, engineVars, Idle
<1>14. StreamInv'
  BY <1>1, <1>5, <1>7 DEF StreamInv, HolderInv, Holding, RegistryIsExact, ServerTypeOK
<1> QED
  BY <1>8, <1>9, <1>10, <1>11, <1>12, <1>13, <1>14

-----------------------------------------------------------------------------
(* The steps of a generation. *)

\* The thread that has the engine goes to another point of its generation,
\* with at most the outcome of its job changed.
LEMMA GenerationStep ==
  ASSUME ServerInv, EngineInv', NEW c \in Connections,
         NEW to \in Registered, NEW outcome \in Statuses,
         engine = c, job[c].kind = "responses",
         pc' = [pc EXCEPT ![c] = to],
         job' = [job EXCEPT ![c].outcome = outcome],
         engine' \in Connections \cup {Free},
         stream' \in [generated : 0..MaxOutput, left : 0..ExecutorDrafts + 1,
                      pending : 0..MaxOutput, emitted : 0..MaxOutput, stopped : 0..1],
         UNCHANGED <<operations, sequence_index, answered, queuedCancel, asked>>
  PROVE  /\ RegistryIsExact' /\ JobInv' /\ CloneInv'
         /\ job'[c].outcome = outcome /\ pc'[c] = to
         /\ \A b \in Connections : /\ b # c => pc'[b] = pc[b] /\ job'[b] = job[b]
                                   /\ job'[b].kind = job[b].kind
                                   /\ job'[b].operation = job[b].operation
                                   /\ job'[b].session = job[b].session
                                   /\ job'[b].clone = job[b].clone
<1> USE DEF ServerInv, ThreadInv
<1>1. /\ job' \in [Connections -> Job] /\ job'[c].outcome = outcome
      /\ \A b \in Connections : /\ b # c => job'[b] = job[b]
                                /\ job'[b].kind = job[b].kind
                                /\ job'[b].operation = job[b].operation
                                /\ job'[b].session = job[b].session
                                /\ job'[b].clone = job[b].clone
  BY DEF RegistryIsExact, ServerTypeOK, Job
<1>2. /\ pc' \in [Connections -> Registered \cup
                    {"ready", "renumber", "number", "respond", "metrics", "found"}]
      /\ pc'[c] = to
      /\ \A b \in Connections : b # c => pc'[b] = pc[b]
  BY DEF RegistryIsExact, ServerTypeOK
<1>3. ServerTypeOK'
  BY <1>1, <1>2 DEF RegistryIsExact, ServerTypeOK, EngineInv
<1>4. pc[c] \in Registered
  BY DEF HolderInv, Holding, Registered
<1>5. RegistryIsExact' /\ JobInv' /\ CloneInv'
  <2>1. ASSUME NEW b \in Connections
        PROVE  /\ pc'[b] \in Registered <=> pc[b] \in Registered
               /\ pc'[b] = "found" <=> pc[b] = "found"
               /\ pc'[b] \in {"streaming", "closing"} => job[b].kind = "responses"
    BY <1>2, <1>4 DEF Registered, JobInv
  <2> QED
    BY <1>1, <1>3, <2>1, SameRequests
<1> QED
  BY <1>1, <1>2, <1>5

\* The end of a generation, for whatever reason: the outcome is in the job,
\* the counts agree, and only a finish reason needs nothing to be pending.
LEMMA EndKeepsInv ==
  ASSUME ServerInv, EngineInv', NEW c \in Connections, NEW outcome \in Statuses,
         engine = c, job[c].kind = "responses", Idle,
         EndStream(c, outcome),
         stream' \in [generated : 0..MaxOutput, left : 0..ExecutorDrafts + 1,
                      pending : 0..MaxOutput, emitted : 0..MaxOutput, stopped : 0..1],
         stream'.emitted + stream'.pending + stream'.stopped = stream'.generated,
         outcome = "ok" => stream'.pending = 0 /\ c \notin queuedCancel,
         UNCHANGED <<vars, engine, operations, sequence_index, historyVars>>
  PROVE  ThreadInv'
<1> USE DEF ServerInv, ThreadInv
<1>1. /\ RegistryIsExact' /\ JobInv' /\ CloneInv'
      /\ job'[c].outcome = outcome /\ pc'[c] = "closing"
      /\ \A b \in Connections : /\ b # c => pc'[b] = pc[b] /\ job'[b] = job[b]
                                /\ job'[b].kind = job[b].kind
                                /\ job'[b].operation = job[b].operation
                                /\ job'[b].session = job[b].session
                                /\ job'[b].clone = job[b].clone
  <2>1. "closing" \in Registered /\ engine' \in Connections \cup {Free}
    BY DEF Registered, RegistryIsExact, ServerTypeOK
  <2>2. UNCHANGED <<operations, sequence_index, answered, queuedCancel, asked>>
    BY DEF historyVars
  <2>3. pc' = [pc EXCEPT ![c] = "closing"] /\ job' = [job EXCEPT ![c].outcome = outcome]
    BY DEF EndStream, Goes
  <2> QED
    BY <2>1, <2>2, <2>3, GenerationStep
<1>2. pc[c] \in Holding
  BY DEF HolderInv
<1>3. HolderInv'
  BY <1>1, <1>2 DEF HolderInv, Holding, vars, engineVars, Idle
<1>4. AnswerInv'
  BY <1>1 DEF AnswerInv, vars, engineVars, Idle
<1>5. CancelInv'
  BY <1>1, <1>2, SetTokens
  DEF CancelInv, Registered, Holding, vars, engineVars, Idle, historyVars
<1>6. StreamInv'
  BY <1>1 DEF StreamInv
<1> QED
  BY <1>1, <1>3, <1>4, <1>5, <1>6

\* What is not finished yet can still be counted within the types.
LEMMA StreamArithmetic ==
  ASSUME ServerInv, engine # Free, pc[engine] \in {"running", "streaming"}
  PROVE  /\ stream.generated \in 0..MaxOutput /\ stream.left \in 0..ExecutorDrafts + 1
         /\ stream.pending \in 0..MaxOutput /\ stream.emitted \in 0..MaxOutput
         /\ stream.emitted + stream.pending = stream.generated /\ stream.stopped = 0
         /\ NoStream.emitted + NoStream.pending + NoStream.stopped = NoStream.generated
         /\ NoStream \in [generated : 0..MaxOutput, left : 0..ExecutorDrafts + 1,
                          pending : 0..MaxOutput, emitted : 0..MaxOutput, stopped : 0..1]
  BY ServerAssumption, ExecutorAssumption
  DEF ServerAssumption, ExecutorAssumption, ServerInv, ThreadInv, RegistryIsExact,
      ServerTypeOK, StreamInv, NoStream

\* A generation that fails drops what it had not emitted.
LEMMA FailKeepsInv ==
  ASSUME ServerInv, EngineInv', NEW c \in Connections, NEW outcome \in Statuses \ {"ok"},
         engine = c, job[c].kind = "responses", Idle,
         pc[c] \in {"running", "streaming"},
         FailStream(c, outcome),
         UNCHANGED <<vars, engine, operations, sequence_index, historyVars>>
  PROVE  ThreadInv'
<1>1. engine # Free /\ pc[engine] \in {"running", "streaming"}
  BY ServerAssumption DEF ServerAssumption
<1>2. EndStream(c, outcome) /\ stream' = NoStream
  BY DEF FailStream
<1> QED
  BY <1>1, <1>2, StreamArithmetic, EndKeepsInv

\* A finish reason: everything pending is emitted, or the emission fails.
LEMMA FinishKeepsInv ==
  ASSUME ServerInv, EngineInv', NEW c \in Connections, engine = c, job[c].kind = "responses",
         Idle, pc[c] = "streaming",
         NEW s \in [generated : 0..MaxOutput, left : 0..ExecutorDrafts + 1,
                    pending : 0..MaxOutput, emitted : 0..MaxOutput, stopped : 0..1],
         s.emitted + s.pending + s.stopped = s.generated,
         FinishStream(c, s),
         UNCHANGED <<vars, engine, operations, sequence_index, historyVars>>
  PROVE  ThreadInv'
<1>1. CASE EndStream(c, "ok") /\ stream' = Emitted(s)
  <2>1. /\ Emitted(s) \in [generated : 0..MaxOutput, left : 0..ExecutorDrafts + 1,
                          pending : 0..MaxOutput, emitted : 0..MaxOutput, stopped : 0..1]
        /\ Emitted(s).emitted + Emitted(s).pending + Emitted(s).stopped = Emitted(s).generated
        /\ Emitted(s).pending = 0
    <3> DEFINE moved == [s EXCEPT !.emitted = @ + s.pending]
    <3>1. s.emitted + s.pending \in 0..MaxOutput
      BY ServerAssumption DEF ServerAssumption
    <3>2. /\ moved \in [generated : 0..MaxOutput, left : 0..ExecutorDrafts + 1,
                       pending : 0..MaxOutput, emitted : 0..MaxOutput, stopped : 0..1]
          /\ moved.emitted + moved.stopped = moved.generated
      BY <3>1
    <3>3. Emitted(s) = [moved EXCEPT !.pending = 0]
      BY DEF Emitted
    <3> HIDE DEF moved
    <3> QED
      BY <3>2, <3>3, ServerAssumption DEF ServerAssumption
  <2>2. c \notin queuedCancel
    BY DEF ServerInv, ThreadInv, CancelInv
  <2>3. "ok" \in Statuses
    BY DEF Statuses
  <2> QED
    BY <1>1, <2>1, <2>2, <2>3, EndKeepsInv
<1>2. CASE FailStream(c, "failed")
  BY <1>2, FailKeepsInv DEF Statuses
<1> QED
  BY <1>1, <1>2 DEF FinishStream

\* One decode of a generation: its answer is pending until it is written.
LEMMA TakeStepKeepsInv ==
  ASSUME ServerInv, EngineInv', NEW c \in Connections, TakeStep(c)
  PROVE  ThreadInv'
<1> USE DEF ServerInv, ThreadInv
<1>1. /\ pc[c] = "running" /\ engine = c /\ job[c].kind = "responses" /\ Idle
      /\ UNCHANGED <<vars, engine, operations, sequence_index, historyVars>>
      /\ engine # Free /\ pc[engine] \in {"running", "streaming"}
      /\ result.status \in Statuses /\ result.tokens \in 0..ExecutorDrafts + 1
  BY AnswerFits, ServerAssumption DEF TakeStep, Holds, ServerAssumption, EngineInv
<1>2. CASE result.status # "ok"
  BY <1>1, <1>2, FailKeepsInv DEF TakeStep, StepAnswered
<1>3. CASE result.status = "ok"
  <2>1. /\ stream' = [stream EXCEPT !.left = result.tokens]
        /\ pc' = [pc EXCEPT ![c] = "streaming"] /\ job' = job
    BY <1>3 DEF TakeStep, StepAnswered, Goes
  <2>2. /\ stream' \in [generated : 0..MaxOutput, left : 0..ExecutorDrafts + 1,
                       pending : 0..MaxOutput, emitted : 0..MaxOutput, stopped : 0..1]
        /\ stream'.emitted = stream.emitted /\ stream'.pending = stream.pending
        /\ stream'.stopped = stream.stopped /\ stream'.generated = stream.generated
    BY <1>1, <2>1 DEF RegistryIsExact, ServerTypeOK
  <2>3. job[c].outcome \in Statuses /\ job' = [job EXCEPT ![c].outcome = job[c].outcome]
    BY <2>1 DEF RegistryIsExact, ServerTypeOK, Job
  <2>p. pc' = [pc EXCEPT ![c] = "streaming"]
    BY <2>1
  <2>4. /\ RegistryIsExact' /\ JobInv' /\ CloneInv' /\ pc'[c] = "streaming"
        /\ \A b \in Connections : b # c => pc'[b] = pc[b]
    <3>1. /\ "streaming" \in Registered /\ engine' \in Connections \cup {Free}
          /\ UNCHANGED <<operations, sequence_index, answered, queuedCancel, asked>>
      BY <1>1 DEF Registered, RegistryIsExact, ServerTypeOK, historyVars
    <3> QED
      <4> DEFINE outcome == job[c].outcome
      <4>1. outcome \in Statuses /\ job' = [job EXCEPT ![c].outcome = outcome]
        BY <2>3
      <4> HIDE DEF outcome
      <4> QED
        BY <1>1, <2>p, <2>2, <3>1, <4>1, GenerationStep, ZenonT(60)
  <2>5. HolderInv'
    BY <1>1, <2>1, <2>4 DEF HolderInv, Holding, vars, engineVars, Idle
  <2>6. AnswerInv'
    BY <1>1, <1>3, <2>1, <2>4 DEF AnswerInv, vars, engineVars, Idle
  <2>7. CancelInv'
    BY <1>1, <1>3, <2>1, <2>4, SetTokens
    DEF CancelInv, Registered, vars, engineVars, Idle, historyVars
  <2>8. StreamInv'
    BY <1>1, <2>1, <2>2, <2>4 DEF StreamInv
  <2> QED
    BY <2>4, <2>5, <2>6, <2>7, <2>8
<1> QED
  BY <1>2, <1>3

\* One token of a generation is looked at and written to the peer.
LEMMA StreamTokenKeepsInv ==
  ASSUME ServerInv, EngineInv', NEW c \in Connections, StreamToken(c)
  PROVE  ThreadInv'
<1> USE DEF ServerInv, ThreadInv
<1>1. /\ pc[c] = "streaming" /\ engine = c /\ job[c].kind = "responses"
      /\ UNCHANGED <<vars, engine, operations, sequence_index, historyVars>>
      /\ engine # Free /\ pc[engine] \in {"running", "streaming"} /\ stream.left > 0
  BY ServerAssumption DEF StreamToken, Holds, ServerAssumption
<1>2. Idle
  BY <1>1 DEF HolderInv
<1>3. /\ stream \in [generated : 0..MaxOutput, left : 0..ExecutorDrafts + 1,
                    pending : 0..MaxOutput, emitted : 0..MaxOutput, stopped : 0..1]
      /\ stream.emitted + stream.pending + stream.stopped = stream.generated
      /\ stream.stopped = 0
  BY <1>1 DEF StreamInv, RegistryIsExact, ServerTypeOK
<1>4. CASE OutputFull /\ FinishStream(c, stream)
  BY <1>1, <1>2, <1>3, <1>4, FinishKeepsInv
<1>5. CASE \/ FailStream(c, "cancelled")
           \/ FailStream(c, "failed")
  BY <1>1, <1>2, <1>5, FailKeepsInv DEF Statuses
<1> DEFINE advanced == [stream EXCEPT !.generated = @ + 1]
           counted == [advanced EXCEPT !.left = @ - 1]
           stopped == [counted EXCEPT !.stopped = 1]
           pushed == [counted EXCEPT !.pending = @ + 1]
           moved == [pushed EXCEPT !.emitted = @ + pushed.pending]
           emitted == [moved EXCEPT !.pending = 0]
<1>6. CASE /\ ~OutputFull
           /\ \/ FinishStream(c, stopped)
              \/ stream' \in {pushed, emitted} /\ UNCHANGED <<pc, job>>
  <2>1. stream.generated + 1 \in 0..MaxOutput /\ stream.left - 1 \in 0..ExecutorDrafts + 1
    BY <1>1, <1>3, <1>6, ServerAssumption, ExecutorAssumption
    DEF OutputFull, ServerAssumption, ExecutorAssumption
  <2>2. /\ advanced \in [generated : 0..MaxOutput, left : 0..ExecutorDrafts + 1,
                        pending : 0..MaxOutput, emitted : 0..MaxOutput, stopped : 0..1]
        /\ advanced.left = stream.left
        /\ advanced.emitted + advanced.pending + 1 = advanced.generated
        /\ advanced.stopped = 0
    BY <1>3, <2>1
  <2> HIDE DEF advanced
  <2>3. /\ counted \in [generated : 0..MaxOutput, left : 0..ExecutorDrafts + 1,
                        pending : 0..MaxOutput, emitted : 0..MaxOutput, stopped : 0..1]
        /\ counted.emitted + counted.pending + 1 = counted.generated
        /\ counted.stopped = 0
    BY <2>1, <2>2
  <2> HIDE DEF counted
  <2>4. /\ stopped \in [generated : 0..MaxOutput, left : 0..ExecutorDrafts + 1,
                        pending : 0..MaxOutput, emitted : 0..MaxOutput, stopped : 0..1]
        /\ stopped.emitted + stopped.pending + stopped.stopped = stopped.generated
    BY <2>3
  <2>5. /\ pushed \in [generated : 0..MaxOutput, left : 0..ExecutorDrafts + 1,
                        pending : 0..MaxOutput, emitted : 0..MaxOutput, stopped : 0..1]
        /\ pushed.emitted + pushed.pending = pushed.generated
        /\ pushed.stopped = 0
    <3>1. counted.pending + 1 \in 0..MaxOutput
      BY <2>3, ServerAssumption DEF ServerAssumption
    <3> QED
      BY <2>3, <3>1
  <2> HIDE DEF stopped, pushed
  <2>6. /\ moved \in [generated : 0..MaxOutput, left : 0..ExecutorDrafts + 1,
                        pending : 0..MaxOutput, emitted : 0..MaxOutput, stopped : 0..1]
        /\ moved.emitted = moved.generated
        /\ moved.stopped = 0
    BY <2>5
  <2> HIDE DEF moved
  <2>7. /\ emitted \in [generated : 0..MaxOutput, left : 0..ExecutorDrafts + 1,
                        pending : 0..MaxOutput, emitted : 0..MaxOutput, stopped : 0..1]
        /\ emitted.emitted + emitted.pending = emitted.generated
        /\ emitted.stopped = 0
    BY <2>6, ServerAssumption DEF ServerAssumption
  <2> HIDE DEF emitted
  <2>8. CASE FinishStream(c, stopped)
    BY <1>1, <1>2, <2>4, <2>8, FinishKeepsInv
  <2>9. CASE stream' \in {pushed, emitted} /\ UNCHANGED <<pc, job>>
    <3>1. /\ stream' \in [generated : 0..MaxOutput, left : 0..ExecutorDrafts + 1,
                         pending : 0..MaxOutput, emitted : 0..MaxOutput, stopped : 0..1]
          /\ stream'.emitted + stream'.pending + stream'.stopped = stream'.generated
          /\ stream'.stopped = 0
      BY <2>5, <2>7, <2>9
    <3>2. ServerTypeOK'
      BY <1>1, <2>9, <3>1 DEF RegistryIsExact, ServerTypeOK, EngineInv, historyVars
    <3>3. RegistryIsExact' /\ JobInv' /\ CloneInv'
      BY <1>1, <2>9, <3>2 DEF RegistryIsExact, JobInv, CloneInv, historyVars
    <3>4. HolderInv' /\ AnswerInv' /\ CancelInv'
      BY <1>1, <2>9
      DEF HolderInv, AnswerInv, CancelInv, vars, engineVars, Idle, historyVars
    <3>5. StreamInv'
      BY <1>1, <2>9, <3>1 DEF StreamInv
    <3> QED
      BY <3>3, <3>4, <3>5
  <2> QED
    BY <1>6, <2>8, <2>9
<1> QED
  <2>1. Emitted(pushed) = emitted
    BY DEF Emitted
  <2> QED
    BY <1>4, <1>5, <1>6, <2>1 DEF StreamToken

\* The step is used up: the generation is full, or it decodes again.
LEMMA StreamDecodesKeepsInv ==
  ASSUME ServerInv, EngineInv', NEW c \in Connections, StreamDecodes(c)
  PROVE  ThreadInv'
<1> USE DEF ServerInv, ThreadInv
<1>1. /\ pc[c] = "streaming" /\ engine = c /\ job[c].kind = "responses"
      /\ UNCHANGED <<engine, operations, sequence_index, historyVars>>
      /\ engine # Free /\ c \notin queuedCancel
  BY ServerAssumption DEF StreamDecodes, Holds, ServerAssumption, CancelInv
<1>2. Idle
  BY <1>1 DEF HolderInv
<1>3. CASE FinishStream(c, stream) /\ UNCHANGED vars
  <2>1. /\ stream \in [generated : 0..MaxOutput, left : 0..ExecutorDrafts + 1,
                      pending : 0..MaxOutput, emitted : 0..MaxOutput, stopped : 0..1]
        /\ stream.emitted + stream.pending + stream.stopped = stream.generated
    BY <1>1 DEF StreamInv, RegistryIsExact, ServerTypeOK
  <2> QED
    BY <1>1, <1>2, <1>3, <2>1, FinishKeepsInv
<1>4. CASE DecodeCall(c, job[c].session) /\ Goes(c, "running") /\ UNCHANGED <<job, stream>>
  <2>1. /\ pc' = [pc EXCEPT ![c] = "running"] /\ UNCHANGED <<job, stream>>
        /\ UNCHANGED <<executorVars, lifecycle, session, cancelled>>
    BY <1>4 DEF DecodeCall, Goes
  <2>u. \A b \in Connections : pc'[b] = IF b = c THEN "running" ELSE pc[b]
    BY <2>1 DEF RegistryIsExact, ServerTypeOK
  <2>2. \/ Idle' /\ result'.status = "rejected"
        \/ /\ ~Idle' /\ call'.token = c /\ call'.id = job[c].session
           /\ call'.at = "check" /\ call'.op = "decode" /\ session.id = call'.id
    BY <1>4 DEF DecodeCall, DecodeAdmitted, NewCall, NoCall, Returns, Idle
  <2>t. ServerTypeOK'
    BY <1>1, <2>1 DEF RegistryIsExact, ServerTypeOK, EngineInv, Registered, historyVars
  <2>3. RegistryIsExact' /\ JobInv' /\ CloneInv'
    <3>1. UNCHANGED <<operations, asked>>
      BY <1>1 DEF historyVars
    <3> QED
      BY <1>1, <2>1, <2>u, <2>t, <3>1, SameRequests DEF JobInv, Registered
  <2>4. HolderInv'
    BY <1>1, <2>1, <2>u, <2>2 DEF HolderInv, Holding
  <2>5. AnswerInv'
    BY <1>1, <2>1, <2>u, <2>2 DEF AnswerInv, HolderInv, Holding
  <2>6. CancelInv'
    BY <1>1, <2>1, <2>u, SetTokens DEF CancelInv, HolderInv, Holding, Registered, historyVars
  <2>7. StreamInv'
    BY <1>1, <2>1, <2>u DEF StreamInv
  <2> QED
    BY <2>3, <2>4, <2>5, <2>6, <2>7
<1> QED
  BY <1>3, <1>4 DEF StreamDecodes

\* What reset_session, warmup and unload leave alone.
LEMMA BetweenCalls ==
  ASSUME EngineInv, EngineInv', ResetSession \/ Warmup \/ Unload
  PROVE  Idle /\ Idle' /\ lifecycle' # "None" /\ UNCHANGED cancelled
<1>1. CASE ResetSession
  BY <1>1 DEF ResetSession, InvalidateSession, Returns, Idle
<1>2. CASE Warmup
  BY <1>2 DEF Warmup, Returns, Idle
<1>3. CASE Unload
  BY <1>3 DEF Unload, Returns, Idle, AlreadyUnloaded
<1> QED
  BY <1>1, <1>2, <1>3

\* A generation resets the session and gives the engine back.
LEMMA CloseStreamKeepsInv ==
  ASSUME ServerInv, EngineInv', NEW c \in Connections, CloseStream(c)
  PROVE  ThreadInv'
<1> USE DEF ServerInv, ThreadInv
<1>0. result'.status \in Statuses /\ job[c].outcome \in Statuses
  BY DEF RegistryIsExact, ServerTypeOK, Job, EngineInv, EngineTypeOK, Result
<1>3. PICK outcome \in Statuses :
        /\ job' = [job EXCEPT ![c].outcome = outcome]
        /\ job[c].outcome # "ok" => outcome # "ok"
  BY <1>0 DEF CloseStream
<1>1. /\ pc[c] = "closing" /\ engine = c /\ job[c].kind = "responses" /\ engine' = Free
      /\ pc' = [pc EXCEPT ![c] = "unlocked"]
      /\ UNCHANGED <<operations, sequence_index, stream, answered, queuedCancel, asked>>
  BY DEF CloseStream, Holds, Goes, historyVars
<1>2. Idle /\ Idle' /\ lifecycle' # "None" /\ UNCHANGED cancelled
  BY BetweenCalls DEF CloseStream, GenerationReset
<1>4. /\ RegistryIsExact' /\ JobInv' /\ CloneInv'
      /\ job'[c].outcome = outcome /\ pc'[c] = "unlocked"
      /\ \A b \in Connections : b # c => pc'[b] = pc[b] /\ job'[b] = job[b]
  <2>1. /\ "unlocked" \in Registered /\ engine' \in Connections \cup {Free}
        /\ stream' \in [generated : 0..MaxOutput, left : 0..ExecutorDrafts + 1,
                        pending : 0..MaxOutput, emitted : 0..MaxOutput, stopped : 0..1]
    BY <1>1 DEF Registered, RegistryIsExact, ServerTypeOK
  <2> HIDE DEF ServerInv, ThreadInv
  <2>2. UNCHANGED <<operations, sequence_index, answered, queuedCancel, asked>>
    BY <1>1
  <2> QED
    BY <1>1, <1>3, <2>1, <2>2, GenerationStep, ZenonT(60)
<1>5. \A b \in Connections : pc'[b] \notin Holding
  BY <1>1, <1>4 DEF HolderInv, Holding
<1>6. HolderInv' /\ StreamInv'
  BY <1>1, <1>2, <1>5, ServerAssumption DEF HolderInv, StreamInv, ServerAssumption
<1>7. AnswerInv'
  BY <1>5 DEF AnswerInv, Holding
<1>8. CancelInv'
  <2>1. \A b \in queuedCancel :
          /\ b \in cancelled /\ b \in Connections
          /\ pc[b] \in {"closing", "unlocked"} => job[b].outcome # "ok"
          /\ pc[b] # "streaming"
          /\ b # c => pc[b] # "running"
    BY <1>1, SetTokens DEF CancelInv, HolderInv, Holding
  <2>2. \A b \in cancelled : b \in Connections /\ pc[b] \in Registered /\ b \in asked
    BY SetTokens DEF CancelInv
  <2>3. \A b \in queuedCancel' :
          /\ b \in cancelled' /\ pc'[b] # "streaming" /\ pc'[b] # "running"
          /\ pc'[b] \in {"closing", "unlocked"} => job'[b].outcome # "ok"
    BY <1>1, <1>2, <1>3, <1>4, <2>1
  <2>4. \A b \in cancelled' : pc'[b] \in Registered /\ b \in asked'
    BY <1>1, <1>2, <1>4, <2>2 DEF Registered
  <2> QED
    BY <2>3, <2>4 DEF CancelInv
<1> QED
  BY <1>4, <1>6, <1>7, <1>8

\* A request that is one engine call under the mutex.
LEMMA AtEngineKeepsInv ==
  ASSUME ServerInv, EngineInv', NEW c \in Connections, AtEngine(c),
         ResetSession \/ Warmup \/ Unload
  PROVE  ThreadInv'
<1> USE DEF ServerInv, ThreadInv
<1>1. /\ engine = Free
      /\ UNCHANGED <<engine, operations, sequence_index, pc, job, stream, answered,
                    queuedCancel, asked>>
  BY DEF AtEngine, serverVars, historyVars
<1>2. Idle /\ Idle' /\ lifecycle' # "None" /\ UNCHANGED cancelled
  BY BetweenCalls
<1>3. \A b \in Connections : pc[b] \notin Holding
  BY <1>1, ServerAssumption DEF HolderInv, ServerAssumption
<1>4. RegistryIsExact' /\ JobInv' /\ CloneInv'
  BY <1>1 DEF RegistryIsExact, ServerTypeOK, EngineInv, JobInv, CloneInv
<1>5. HolderInv' /\ StreamInv'
  BY <1>1, <1>2 DEF HolderInv, StreamInv
<1>6. AnswerInv' /\ CancelInv'
  BY <1>1, <1>2, <1>3, SetTokens DEF AnswerInv, CancelInv, Holding
<1> QED
  BY <1>4, <1>5, <1>6

\* The engine goes on with the call it is in.
LEMMA EngineRunsKeepsInv ==
  ASSUME ServerInv, EngineInv', EngineRuns
  PROVE  ThreadInv'
<1> USE DEF ServerInv, ThreadInv
<1>1. /\ CallStep
      /\ UNCHANGED <<engine, operations, sequence_index, pc, job, stream, answered,
                    queuedCancel, asked>>
  BY DEF EngineRuns, serverVars, historyVars
<1>2. ~Idle
  BY <1>1, CallInProgress
  DEF CallStep, Check, PrefillExecute, PrefillFinish, DecodeExecute, DecodeFinish,
      DecodeCommit, Invalidate, EngineInv, EngineTypeOK
<1>3. /\ engine \in Connections /\ pc[engine] = "running" /\ call.token = engine
      /\ call.id = job[engine].session
      /\ job[engine].kind = "prefill" => call.op = "prefill"
      /\ \A b \in Connections : pc[b] \in Holding => b = engine
  BY <1>2 DEF HolderInv, RegistryIsExact, ServerTypeOK
<1>4. /\ lifecycle' # "None" /\ cancelled' = cancelled
      /\ ~Idle' => /\ call'.token = call.token /\ call'.id = call.id
                   /\ call'.op = call.op
                   /\ call'.op = "decode" => session'.id = call'.id
                   /\ call'.at = "invalidate" => call'.status # "ok"
      /\ Idle' /\ result'.status = "ok" =>
           /\ session' # NoSession /\ session'.id = call.id
           /\ call.op = "prefill" => result'.tokens = 1
      /\ call.at = "check" /\ call.token \in cancelled =>
           Idle' /\ result'.status = "cancelled"
  BY <1>1, <1>2, CallStepAnswers DEF HolderInv
<1>5. RegistryIsExact' /\ JobInv' /\ CloneInv'
  BY <1>1 DEF RegistryIsExact, ServerTypeOK, EngineInv, JobInv, CloneInv
<1>6. HolderInv'
  BY <1>1, <1>2, <1>3, <1>4 DEF HolderInv
<1>7. AnswerInv'
  BY <1>1, <1>3, <1>4 DEF AnswerInv, Holding
<1>8. CancelInv'
  BY <1>1, <1>2, <1>3, <1>4, SetTokens DEF CancelInv, Holding
<1>9. StreamInv'
  BY <1>1 DEF StreamInv
<1> QED
  BY <1>5, <1>6, <1>7, <1>8, <1>9

-----------------------------------------------------------------------------
(* Cancel requests *)

\* Cancel looks its operation up and keeps a clone of the token.
LEMMA CancelRequestKeepsInv ==
  ASSUME ServerInv, EngineInv', NEW c \in Connections, NEW id \in SessionIds,
         CancelRequest(c, id)
  PROVE  ThreadInv'
<1> USE DEF ServerInv, ThreadInv
<1> DEFINE owner == operations[id]
           new == [NoJob EXCEPT !.kind = "cancel", !.clone = owner]
<1>1. /\ pc[c] = "ready" /\ pc' = [pc EXCEPT ![c] = "found"]
      /\ job' = [job EXCEPT ![c] = new] /\ asked' = asked \cup {owner}
      /\ UNCHANGED <<vars, engine, operations, sequence_index, stream, answered, queuedCancel>>
  BY DEF CancelRequest, Goes
<1>2. owner \in Connections /\ pc[owner] \in Registered
  BY DEF CancelRequest, RegistryIsExact, ServerTypeOK
<1>3. new \in Job /\ new.kind = "cancel" /\ new.clone = owner
  BY <1>2 DEF NoJob, Job, Statuses
<1> HIDE DEF owner, new
<1>4. \A b \in Connections : /\ pc'[b] = IF b = c THEN "found" ELSE pc[b]
                             /\ job'[b] = IF b = c THEN new ELSE job[b]
  BY <1>1 DEF RegistryIsExact, ServerTypeOK
<1>t. ServerTypeOK'
  <2>1. job' \in [Connections -> Job] /\ asked' \subseteq Connections
    BY <1>1, <1>2, <1>3 DEF RegistryIsExact, ServerTypeOK
  <2>2. pc' \in [Connections -> Registered \cup
                   {"ready", "renumber", "number", "respond", "metrics", "found"}]
    BY <1>1 DEF RegistryIsExact, ServerTypeOK
  <2> QED
    BY <1>1, <2>1, <2>2 DEF RegistryIsExact, ServerTypeOK, EngineInv
<1>5. RegistryIsExact'
  BY <1>1, <1>4, <1>t DEF RegistryIsExact, Registered
<1>6. JobInv'
  BY <1>1, <1>3, <1>4 DEF JobInv, Registered
<1>7. CloneInv'
  <2> SUFFICES ASSUME NEW b \in Connections
               PROVE  /\ pc'[b] = "found" <=> job'[b].clone # Free
                      /\ job'[b].clone \in Connections =>
                           pc'[job'[b].clone] \in Registered /\ job'[b].clone \in asked'
    BY DEF CloneInv
  <2>1. \A a \in Connections : pc[a] \in Registered => pc'[a] = pc[a]
    BY <1>1, <1>4 DEF Registered
  <2>2. CASE b = c
    BY <1>1, <1>2, <1>3, <1>4, <2>1, <2>2, ServerAssumption DEF ServerAssumption
  <2>3. CASE b # c
    BY <1>1, <1>4, <2>1, <2>3 DEF CloneInv
  <2> QED
    BY <2>2, <2>3
<1>8. HolderInv' /\ StreamInv'
  <2>1. engine # c /\ (engine # Free => engine \in Connections \ {c})
    BY <1>1 DEF HolderInv, Holding, RegistryIsExact, ServerTypeOK
  <2>2. \A b \in Connections : pc'[b] \in Holding <=> pc[b] \in Holding
    BY <1>1, <1>4 DEF Holding
  <2>3. engine # Free => pc'[engine] = pc[engine] /\ job'[engine] = job[engine]
    BY <1>4, <2>1
  <2> QED
    BY <1>1, <2>2, <2>3 DEF HolderInv, StreamInv, vars, engineVars, Idle
<1>9. AnswerInv' /\ CancelInv'
  BY <1>1, <1>4, SetTokens DEF AnswerInv, CancelInv, Registered, vars, engineVars, Idle
<1> QED
  BY <1>5, <1>6, <1>7, <1>8, <1>9

\* The token of the clone is set, unless its operation has ended.
LEMMA CancelOperationKeepsInv ==
  ASSUME ServerInv, EngineInv', NEW c \in Connections, CancelOperation(c)
  PROVE  ThreadInv'
<1> USE DEF ServerInv, ThreadInv
<1> DEFINE owner == job[c].clone
<1>1. /\ pc[c] = "found" /\ pc' = [pc EXCEPT ![c] = "respond"]
      /\ job' = [job EXCEPT ![c] = NoJob]
      /\ UNCHANGED <<engine, operations, sequence_index, stream, answered, asked>>
      /\ UNCHANGED <<executorVars, engineVars>>
  BY DEF CancelOperation, CancelToken, Cancel, Goes, vars
<1>2. \/ UNCHANGED <<cancelled, queuedCancel>>
      \/ /\ owner \in Connections /\ pc[owner] \in Registered /\ owner \in asked
         /\ cancelled' = cancelled \cup {owner}
         /\ queuedCancel' = IF pc[owner] = "queued" THEN queuedCancel \cup {owner}
                            ELSE queuedCancel
  <2>1. owner # Stale => owner \in Connections
    BY <1>1 DEF CloneInv, RegistryIsExact, ServerTypeOK, Job
  <2> QED
    BY <2>1 DEF CancelOperation, CancelToken, Cancel, CloneInv, vars
<1>3. NoJob \in Job /\ NoJob.kind = "none" /\ NoJob.clone = Free
  BY DEF NoJob, Job, Statuses
<1> HIDE DEF owner
<1>4. \A b \in Connections : /\ pc'[b] = IF b = c THEN "respond" ELSE pc[b]
                             /\ job'[b] = IF b = c THEN NoJob ELSE job[b]
  BY <1>1 DEF RegistryIsExact, ServerTypeOK
<1>t. ServerTypeOK'
  <2>1. job' \in [Connections -> Job] /\ queuedCancel' \subseteq Connections
    BY <1>1, <1>2, <1>3 DEF RegistryIsExact, ServerTypeOK
  <2>2. pc' \in [Connections -> Registered \cup
                   {"ready", "renumber", "number", "respond", "metrics", "found"}]
    BY <1>1 DEF RegistryIsExact, ServerTypeOK
  <2> QED
    BY <1>1, <2>1, <2>2 DEF RegistryIsExact, ServerTypeOK, EngineInv
<1>5. RegistryIsExact'
  BY <1>1, <1>4, <1>t DEF RegistryIsExact, Registered
<1>6. JobInv'
  BY <1>1, <1>3, <1>4 DEF JobInv, Registered
<1>7. CloneInv'
  <2> SUFFICES ASSUME NEW b \in Connections
               PROVE  /\ pc'[b] = "found" <=> job'[b].clone # Free
                      /\ job'[b].clone \in Connections =>
                           pc'[job'[b].clone] \in Registered /\ job'[b].clone \in asked'
    BY DEF CloneInv
  <2>1. \A a \in Connections : pc[a] \in Registered => pc'[a] = pc[a]
    BY <1>1, <1>4 DEF Registered
  <2>2. CASE b = c
    BY <1>3, <1>4, <2>2, ServerAssumption DEF ServerAssumption
  <2>3. CASE b # c
    BY <1>1, <1>4, <2>1, <2>3 DEF CloneInv
  <2> QED
    BY <2>2, <2>3
<1>8. HolderInv' /\ StreamInv'
  <2>1. engine # c /\ (engine # Free => engine \in Connections \ {c})
    BY <1>1 DEF HolderInv, Holding, RegistryIsExact, ServerTypeOK
  <2>2. \A b \in Connections : pc'[b] \in Holding <=> pc[b] \in Holding
    BY <1>1, <1>4 DEF Holding
  <2>3. engine # Free => pc'[engine] = pc[engine] /\ job'[engine] = job[engine]
    BY <1>4, <2>1
  <2> QED
    BY <1>1, <2>2, <2>3 DEF HolderInv, StreamInv, engineVars, Idle
<1>9. AnswerInv'
  BY <1>1, <1>4 DEF AnswerInv, engineVars, Idle
<1>10. CancelInv'
  <2>1. \A b \in Connections : pc[b] \in Registered => pc'[b] = pc[b] /\ job'[b] = job[b]
    BY <1>1, <1>4 DEF Registered
  <2>2. \A b \in cancelled' : pc'[b] \in Registered /\ b \in asked'
    BY <1>1, <1>2, <2>1, SetTokens DEF CancelInv
  <2>3. ASSUME NEW b \in queuedCancel'
        PROVE  /\ b \in cancelled' /\ pc'[b] # "streaming"
               /\ pc'[b] = "running" =>
                    IF Idle' THEN result'.status # "ok" ELSE call'.at = "check"
               /\ pc'[b] \in {"closing", "unlocked"} => job'[b].outcome # "ok"
    <3>1. CASE b \in queuedCancel
      BY <1>1, <1>2, <2>1, <3>1, SetTokens DEF CancelInv, engineVars, Idle
    <3>2. CASE b \notin queuedCancel
      BY <1>2, <2>1, <2>3, <3>2
    <3> QED
      BY <3>1, <3>2
  <2> QED
    BY <2>2, <2>3 DEF CancelInv
<1> QED
  BY <1>5, <1>6, <1>7, <1>8, <1>9, <1>10

-----------------------------------------------------------------------------
(* Every step *)

\* Every action of the server keeps the invariant.
LEMMA ServerStepInv ==
  ASSUME ServerInv, [ServerNext]_allVars
  PROVE  ServerInv'
<1>1. EngineInv'
  BY ServerStepIsEngineStep, StepType, StepInv DEF ServerInv, EngineInv
<1>2. CASE UNCHANGED allVars
  BY <1>1, <1>2
  DEF ServerInv, ThreadInv, RegistryIsExact, ServerTypeOK, EngineInv, JobInv, HolderInv,
      AnswerInv, CloneInv, CancelInv, StreamInv, allVars, vars, engineVars, serverVars,
      historyVars, Idle
<1>3. CASE TokenRequest
  <2>1. PICK c \in TokenClients, kind \in {"prefill", "decode"}, id \in SessionIds,
             sid \in SessionIds : BeginOperation(c, kind, id, sid)
    BY <1>3 DEF TokenRequest
  <2>2. c \in Connections /\ kind \in {"prefill", "decode", "responses"}
    BY ServerAssumption DEF ServerAssumption
  <2> QED
    BY <1>1, <2>1, <2>2, BeginKeepsInv DEF ServerInv
<1>4. CASE ResponsesRequest
  <2>1. PICK c \in StreamClients, id \in SessionIds : BeginOperation(c, "responses", id, id)
    BY <1>4 DEF ResponsesRequest
  <2>2. c \in Connections
    BY ServerAssumption DEF ServerAssumption
  <2> QED
    BY <1>1, <2>1, <2>2, BeginKeepsInv DEF ServerInv
<1>5. CASE EngineRuns
  BY <1>1, <1>5, EngineRunsKeepsInv DEF ServerInv
<1>6. ASSUME NEW c \in Connections, Operation(c) \/ CancelOperation(c) \/ Respond(c)
      PROVE  ServerInv'
  BY <1>1, <1>6, LockKeepsInv, UnlockKeepsInv, AfterKeepsInv, EpilogueKeepsInv,
     TakeStepKeepsInv, StreamTokenKeepsInv, StreamDecodesKeepsInv, CloseStreamKeepsInv,
     CancelOperationKeepsInv
  DEF Operation, ServerInv
<1>7. ASSUME NEW c \in ControlClients, Control(c)
      PROVE  ServerInv'
  <2>1. c \in Connections
    BY ServerAssumption DEF ServerAssumption
  <2> QED
    BY <1>1, <1>7, <2>1, CancelRequestKeepsInv, AtEngineKeepsInv
    DEF Control, ResetRequest, WarmupRequest, UnloadRequest, ServerInv
<1> QED
  BY <1>2, <1>3, <1>4, <1>5, <1>6, <1>7 DEF ServerNext

\* The invariant holds in every behaviour of the server.
LEMMA ServerInvariance == ServerSpec => []ServerInv
  BY ServerInitInv, ServerStepInv, PTL DEF ServerSpec

-----------------------------------------------------------------------------
(* The numbers of the token-ID client *)

\* Nothing is numbered before the first generation.
LEMMA NumberInit == ServerInit => NumberInv
  BY DEF ServerInit, NumberInv, Numbering

\* A step that leaves the counts alone, and whatever is being numbered as well.
LEMMA NumbersUntouched ==
  ASSUME ServerInv, NumberInv, UNCHANGED <<sequence_index, answered>>,
         \A b \in Connections :
           \/ ~Numbering(b) /\ ~Numbering(b)'
           \/ /\ pc'[b] = pc[b] /\ job'[b].kind = job[b].kind
              /\ job'[b].outcome = job[b].outcome
              /\ job'[b].count = job[b].count /\ job'[b].rank = job[b].rank
  PROVE  NumberInv'
<1>1. \A b \in Connections : Numbering(b)' <=> Numbering(b)
  BY DEF Numbering
<1>2. TokenClients \subseteq Connections
  BY ServerAssumption DEF ServerAssumption
<1> QED
  BY <1>1, <1>2 DEF NumberInv, Numbering

\* For a client of one token per answer every action keeps the numbering.
LEMMA NumberStep ==
  ASSUME OneTokenClient, ServerInv, NumberInv, [ServerNext]_allVars
  PROVE  NumberInv'
<1> USE DEF ServerInv, ThreadInv
<1>a. /\ pc \in [Connections -> Registered \cup
                   {"ready", "renumber", "number", "respond", "metrics", "found"}]
      /\ job \in [Connections -> Job] /\ TokenClients \subseteq Connections
      /\ sequence_index \in Nat /\ answered \in Nat
  BY ServerAssumption DEF RegistryIsExact, ServerTypeOK, ServerAssumption
<1>1. ASSUME UNCHANGED <<sequence_index, answered, pc, job>>
      PROVE  NumberInv'
  BY <1>1, NumbersUntouched
\* A thread that is not numbering before the step and not after it.
<1>2. ASSUME UNCHANGED <<sequence_index, answered>>, NEW c \in Connections,
             ~Numbering(c), ~Numbering(c)',
             \A b \in Connections \ {c} : pc'[b] = pc[b] /\ job'[b] = job[b]
      PROVE  NumberInv'
  BY <1>2, NumbersUntouched
<1>3. ASSUME NEW c \in Connections, NEW kind, NEW id, NEW sid,
             BeginOperation(c, kind, id, sid)
      PROVE  NumberInv'
  <2>1. /\ pc[c] = "ready" /\ pc'[c] = "queued"
        /\ UNCHANGED <<sequence_index, answered>>
        /\ \A b \in Connections \ {c} : pc'[b] = pc[b] /\ job'[b] = job[b]
    BY <1>3, <1>a DEF BeginOperation, Goes, historyVars
  <2> QED
    BY <2>1, <1>2 DEF Numbering
<1>4. CASE EngineRuns
  BY <1>4, <1>1 DEF EngineRuns, serverVars, historyVars
<1>5. ASSUME NEW c \in Connections, LockEngine(c) PROVE NumberInv'
  <2>1. /\ pc[c] = "queued" /\ pc'[c] = "running"
        /\ UNCHANGED <<sequence_index, answered>>
        /\ \A b \in Connections \ {c} : pc'[b] = pc[b] /\ job'[b] = job[b]
    BY <1>5, <1>a DEF LockEngine, Goes, historyVars
  <2> QED
    BY <2>1, <1>2 DEF Numbering
<1>6. ASSUME NEW c \in Connections, UnlockEngine(c) PROVE NumberInv'
  <2>1. /\ pc[c] = "running" /\ Idle /\ job[c].kind \in {"prefill", "decode"}
        /\ UNCHANGED sequence_index /\ pc'[c] = "unlocked"
        /\ answered' = IF result.status # "ok" THEN answered
                       ELSE IF job[c].kind = "prefill" THEN 1 ELSE answered + result.tokens
        /\ \A b \in Connections \ {c} : pc'[b] = pc[b]
    BY <1>6, <1>a DEF UnlockEngine, Goes
  <2>2. /\ job'[c].outcome = result.status /\ job'[c].kind = job[c].kind
        /\ job'[c].count = result.tokens
        /\ job'[c].rank = IF job[c].kind = "prefill" THEN 0 ELSE answered
        /\ \A b \in Connections \ {c} : job'[b] = job[b]
    BY <1>6, UnlockedJobs
  <2>3. c \in TokenClients /\ \A b \in TokenClients : b = c
    BY <2>1 DEF JobInv, OneTokenClient
  <2>4. answered = sequence_index /\ \A b \in Connections : ~Numbering(b)
    BY <2>1, <2>3 DEF NumberInv, Numbering
  <2>5. CASE result.status # "ok"
    BY <1>2, <2>1, <2>2, <2>4, <2>5 DEF Numbering
  <2>6. CASE result.status = "ok"
    <3>1. job[c].kind = "prefill" => result.tokens = 1
      BY <2>1, <2>6 DEF AnswerInv
    <3>2. result.tokens \in Nat
      BY AnswerFits DEF EngineInv
    <3>3. Numbering(c)' /\ \A b \in Connections \ {c} : ~Numbering(b)'
      BY <2>1, <2>2, <2>4, <2>6 DEF Numbering
    <3>4. answered' = job'[c].rank + job'[c].count
      BY <1>a, <2>1, <2>2, <2>6, <3>1, <3>2
    <3>5. job'[c].rank = IF job'[c].kind = "prefill" THEN 0 ELSE sequence_index'
      BY <2>1, <2>2, <2>4
    <3> QED
      BY <2>1, <2>3, <3>3, <3>4, <3>5 DEF NumberInv
  <2> QED
    BY <2>5, <2>6
<1>7. ASSUME NEW c \in Connections, AfterOperation(c) PROVE NumberInv'
  <2>1. /\ pc[c] = "unlocked" /\ pc'[c] = AfterCall(c)
        /\ UNCHANGED <<sequence_index, answered>>
        /\ \A b \in Connections \ {c} : pc'[b] = pc[b]
    BY <1>7, <1>a DEF AfterOperation, Goes
  <2>2. /\ job'[c] = Leftover(c)
        /\ \A b \in Connections \ {c} :
             /\ job'[b].kind = job[b].kind /\ job'[b].outcome = job[b].outcome
             /\ job'[b].count = job[b].count /\ job'[b].rank = job[b].rank
    BY <1>7, AfterJobs
  <2>3. CASE ~Numbering(c)
    <3>1. pc'[c] \in {"respond", "metrics"}
      BY <2>1, <2>3 DEF AfterCall, Numbering, JobInv, Registered
    <3>2. ~Numbering(c)'
      BY <3>1 DEF Numbering
    <3> QED
      BY <2>1, <2>2, <2>3, <3>2, NumbersUntouched
  <2>4. CASE Numbering(c)
    <3>1. /\ job[c].kind \in {"prefill", "decode"} /\ job[c].outcome = "ok"
          /\ pc'[c] = IF job[c].kind = "prefill" THEN "renumber" ELSE "number"
      BY <2>1, <2>4 DEF Numbering, AfterCall
    <3>2. job'[c].count = job[c].count /\ job'[c].rank = job[c].rank
      BY <1>a, <2>2, <3>1 DEF Leftover, NoJob, Job
    <3>3. c \in TokenClients
      BY <2>4 DEF NumberInv
    <3>4. \A b \in Connections \ {c} : ~Numbering(b) /\ ~Numbering(b)'
      BY <2>1, <2>2, <3>3 DEF NumberInv, Numbering, OneTokenClient
    <3>5. Numbering(c)'
      BY <3>1 DEF Numbering
    <3>6. /\ answered = job[c].rank + job[c].count
          /\ job[c].rank = IF job[c].kind = "prefill" THEN 0 ELSE sequence_index
      BY <2>1, <2>4 DEF NumberInv
    <3> QED
      BY <2>1, <3>1, <3>2, <3>3, <3>4, <3>5, <3>6 DEF NumberInv
  <2> QED
    BY <2>3, <2>4
<1>8. ASSUME NEW c \in Connections, ResetSequenceIndex(c) \/ NextSequenceIndices(c)
      PROVE  NumberInv'
  <2>1. Numbering(c) /\ c \in TokenClients /\ answered = job[c].rank + job[c].count
    BY <1>8 DEF ResetSequenceIndex, NextSequenceIndices, Numbering, NumberInv
  <2>2. \A b \in Connections \ {c} : ~Numbering(b)
    BY <2>1 DEF NumberInv, OneTokenClient
  <2>3. /\ UNCHANGED answered
        /\ \A b \in Connections \ {c} : pc'[b] = pc[b] /\ job'[b] = job[b]
    BY <1>8, <1>a DEF ResetSequenceIndex, NextSequenceIndices, Goes, historyVars
  <2>4. \A b \in Connections \ {c} : ~Numbering(b)'
    BY <2>2, <2>3 DEF Numbering
  <2>5. CASE ResetSequenceIndex(c)
    <3>1. /\ pc[c] = "renumber" /\ pc'[c] = "number" /\ sequence_index' = 0 /\ job' = job
      BY <2>5, <1>a DEF ResetSequenceIndex, Goes
    <3>2. job[c].rank = 0
      BY <2>1, <3>1 DEF NumberInv
    <3> QED
      BY <2>1, <2>3, <2>4, <3>1, <3>2 DEF NumberInv, Numbering
  <2>6. CASE NextSequenceIndices(c)
    <3>1. /\ pc[c] = "number" /\ pc'[c] = "respond"
          /\ sequence_index' = sequence_index + job[c].count
      BY <2>6, <1>a DEF NextSequenceIndices, Goes
    <3>2. job[c].rank = sequence_index
      BY <2>1, <3>1 DEF NumberInv
    <3>3. ~Numbering(c)'
      BY <3>1 DEF Numbering
    <3> QED
      BY <2>1, <2>3, <2>4, <3>1, <3>2, <3>3 DEF NumberInv
  <2> QED
    BY <1>8, <2>5, <2>6
<1>9. ASSUME NEW c \in Connections, Respond(c) \/ ReadMetrics(c) PROVE NumberInv'
  <2>1. /\ pc[c] \in {"respond", "metrics"} /\ pc'[c] \in {"ready", "respond"}
        /\ UNCHANGED <<sequence_index, answered>>
        /\ \A b \in Connections \ {c} : pc'[b] = pc[b] /\ job'[b] = job[b]
    BY <1>9, <1>a DEF Respond, ReadMetrics, Goes, historyVars
  <2> QED
    BY <2>1, <1>2 DEF Numbering
\* The generations: their job is not one of token IDs.
<1>10. ASSUME NEW c \in Connections, job[c].kind = "responses", pc[c] \in Holding,
              pc'[c] \in Registered, job'[c].kind = "responses",
              UNCHANGED <<sequence_index, answered>>,
              \A b \in Connections \ {c} : pc'[b] = pc[b] /\ job'[b] = job[b]
       PROVE  NumberInv'
  BY <1>10, <1>2 DEF Numbering, Holding, Registered
<1>11. ASSUME NEW c \in Connections,
              TakeStep(c) \/ StreamToken(c) \/ StreamDecodes(c) \/ CloseStream(c)
       PROVE  NumberInv'
  <2>1. /\ job[c].kind = "responses" /\ pc[c] \in Holding
        /\ UNCHANGED <<sequence_index, answered>>
    BY <1>11
    DEF TakeStep, StreamToken, StreamDecodes, CloseStream, Holds, Holding, historyVars
  <2>2. ASSUME NEW outcome, EndStream(c, outcome)
        PROVE  /\ pc'[c] \in Registered /\ job'[c].kind = "responses"
               /\ \A b \in Connections \ {c} : pc'[b] = pc[b] /\ job'[b] = job[b]
    BY <2>1, <2>2, <1>a DEF EndStream, Goes, Registered, Job
  <2>3. ASSUME NEW to \in Registered, Goes(c, to), UNCHANGED job
        PROVE  /\ pc'[c] \in Registered /\ job'[c].kind = "responses"
               /\ \A b \in Connections \ {c} : pc'[b] = pc[b] /\ job'[b] = job[b]
    BY <2>1, <2>3, <1>a DEF Goes
  <2>4. CASE TakeStep(c)
    BY <1>10, <2>1, <2>2, <2>3, <2>4 DEF TakeStep, FailStream, Registered
  <2>5. CASE StreamToken(c)
    <3>1. \/ UNCHANGED <<pc, job>>
          \/ \E outcome \in Statuses : EndStream(c, outcome)
      BY <2>5 DEF StreamToken, FinishStream, FailStream, Statuses
    <3> QED
      BY <1>1, <1>10, <2>1, <2>2, <3>1
  <2>6. CASE StreamDecodes(c)
    <3>1. \/ Goes(c, "running") /\ UNCHANGED job
          \/ \E outcome \in Statuses : EndStream(c, outcome)
      BY <2>6 DEF StreamDecodes, FinishStream, FailStream, Statuses
    <3> QED
      BY <1>10, <2>1, <2>2, <2>3, <3>1 DEF Registered
  <2>7. CASE CloseStream(c)
    <3>1. /\ pc'[c] = "unlocked" /\ job'[c].kind = "responses"
          /\ \A b \in Connections \ {c} : pc'[b] = pc[b] /\ job'[b] = job[b]
      BY <2>1, <2>7, <1>a DEF CloseStream, Goes, Job
    <3> QED
      BY <1>10, <2>1, <3>1 DEF Registered
  <2> QED
    BY <1>11, <2>4, <2>5, <2>6, <2>7
<1>12. ASSUME NEW c \in Connections, CancelOperation(c) PROVE NumberInv'
  <2>1. /\ pc[c] = "found" /\ pc'[c] = "respond"
        /\ UNCHANGED <<sequence_index, answered>>
        /\ \A b \in Connections \ {c} : pc'[b] = pc[b] /\ job'[b] = job[b]
    BY <1>12, <1>a DEF CancelOperation, Goes
  <2> QED
    BY <2>1, <1>2 DEF Numbering
<1>13. ASSUME NEW c \in ControlClients, Control(c) PROVE NumberInv'
  <2>0. c \in Connections
    BY ServerAssumption DEF ServerAssumption
  <2>1. ASSUME NEW id \in SessionIds, CancelRequest(c, id) PROVE NumberInv'
    <3>1. /\ pc[c] = "ready" /\ pc'[c] = "found"
          /\ UNCHANGED <<sequence_index, answered>>
          /\ \A b \in Connections \ {c} : pc'[b] = pc[b] /\ job'[b] = job[b]
      BY <2>0, <2>1, <1>a DEF CancelRequest, Goes
    <3> QED
      BY <2>0, <3>1, <1>2 DEF Numbering
  <2>2. CASE AtEngine(c)
    BY <2>2, <1>1 DEF AtEngine, serverVars, historyVars
  <2> QED
    BY <1>13, <2>1, <2>2 DEF Control, ResetRequest, WarmupRequest, UnloadRequest
<1>14. CASE UNCHANGED allVars
  BY <1>14, <1>1 DEF allVars, serverVars, historyVars
<1>15. CASE TokenRequest \/ ResponsesRequest
  BY <1>15, <1>3, ServerAssumption DEF TokenRequest, ResponsesRequest, ServerAssumption
<1> QED
  BY <1>4, <1>5, <1>6, <1>7, <1>8, <1>9, <1>11, <1>12, <1>13, <1>14, <1>15
  DEF ServerNext, Operation

-----------------------------------------------------------------------------
(* The properties *)

\* The registry is exact and everything is well typed: an id is owned by one
\* thread while its operation is in progress, and by none afterwards
\* (begin_operation, finish_operation).
THEOREM Registry == ServerSpec => []RegistryIsExact
<1>1. ServerInv => RegistryIsExact
  BY DEF ServerInv, ThreadInv
<1> QED
  BY <1>1, ServerInvariance, PTL

\* A Cancel request stops the operation it found and none that follows it on
\* the same connection or under the same id.
THEOREM CancelsAreExact == ServerSpec => []CancelHitsOnlyWhatItNamed
<1>1. ServerInv => CancelHitsOnlyWhatItNamed
  BY DEF ServerInv, ThreadInv, CancelInv, CancelHitsOnlyWhatItNamed
<1> QED
  BY <1>1, ServerInvariance, PTL

\* An operation that was cancelled in the queue is not answered with tokens.
THEOREM CancelInTheQueueWins == ServerSpec => []QueuedCancelWins
<1>1. ServerInv => QueuedCancelWins
  BY DEF ServerInv, ThreadInv, CancelInv, QueuedCancelWins
<1> QED
  BY <1>1, ServerInvariance, PTL

\* A generation streams from its own session.
THEOREM SessionOwnership == ServerSpec => []GenerationOwnsTheSession
<1>1. ServerInv => GenerationOwnsTheSession
  BY DEF ServerInv, ThreadInv, AnswerInv, HolderInv, JobInv, Holding, Registered,
         GenerationOwnsTheSession
<1> QED
  BY <1>1, ServerInvariance, PTL

\* The numbers of the tokens follow the session, for one token-ID client.
THEOREM Numbers ==
  ASSUME OneTokenClient
  PROVE  ServerSpec => []IndicesFollowTheSession
<1>1. ServerInv /\ NumberInv /\ [ServerNext]_allVars => NumberInv'
  BY NumberStep
<1>2. ServerInv /\ NumberInv => IndicesFollowTheSession
  <2> SUFFICES ASSUME ServerInv, NumberInv, NEW c \in Connections
               PROVE  /\ pc[c] = "number" => sequence_index = job[c].rank
                      /\ pc[c] \in {"streaming", "closing"} =>
                           stream.emitted + stream.pending + stream.stopped = stream.generated
                      /\ pc[c] = "closing" /\ job[c].outcome = "ok" => stream.pending = 0
    BY DEF IndicesFollowTheSession
  <2>1. pc[c] = "number" => sequence_index = job[c].rank
    BY DEF NumberInv, Numbering
  <2>2. pc[c] \in {"streaming", "closing"} => engine = c /\ engine # Free
    BY ServerAssumption DEF ServerInv, ThreadInv, HolderInv, Holding, ServerAssumption
  <2> QED
    BY <2>1, <2>2 DEF ServerInv, ThreadInv, StreamInv
<1> QED
  BY <1>1, <1>2, NumberInit, ServerInvariance, PTL DEF ServerSpec

\* A token-ID operation that was cancelled in the queue leaves the active
\* session and the executor as it found them.
THEOREM CancelledInTheQueue == ServerSpec => QueuedCancelLeavesTheSession
<1>1. ServerInv /\ [ServerNext]_allVars =>
        [(engine \in queuedCancel) /\ job[engine].kind \in {"prefill", "decode"}
           => UNCHANGED <<executorVars, session, lifecycle>>]_allVars
  <2> SUFFICES ASSUME ServerInv, [ServerNext]_allVars, engine \in queuedCancel,
                      job[engine].kind \in {"prefill", "decode"}
               PROVE  UNCHANGED <<executorVars, session, lifecycle>>
    OBVIOUS
  <2> USE DEF ServerInv, ThreadInv
  <2>1. engine \in Connections /\ engine # Free /\ engine \in cancelled
    BY SetTokens, ServerAssumption DEF CancelInv, ServerAssumption
  <2>2. /\ pc[engine] \in Holding
        /\ \A c \in Connections : engine = c <=> pc[c] \in Holding
    BY <2>1 DEF HolderInv
  <2>3. CASE EngineRuns
    <3>1. CallStep /\ ~Idle
      BY <2>3, CallInProgress
      DEF EngineRuns, CallStep, Check, PrefillExecute, PrefillFinish, DecodeExecute,
          DecodeFinish, DecodeCommit, Invalidate, EngineInv, EngineTypeOK
    <3>2. call.token \in cancelled /\ call.at = "check"
      BY <2>1, <3>1 DEF HolderInv, CancelInv
    <3> QED
      BY <3>1, <3>2, CallStepAnswers DEF HolderInv
  <2>4. ASSUME NEW c \in Connections,
               TakeStep(c) \/ StreamToken(c) \/ StreamDecodes(c) \/ CloseStream(c)
        PROVE  FALSE
    BY <2>2, <2>4 DEF TakeStep, StreamToken, StreamDecodes, CloseStream, Holds
  <2>5. ASSUME NEW c \in Connections, LockEngine(c) \/ AtEngine(c) PROVE FALSE
    BY <2>1, <2>5 DEF LockEngine, AtEngine
  <2>6. ASSUME NEW c \in Connections,
               UnlockEngine(c) \/ AfterOperation(c) \/ ResetSequenceIndex(c)
                 \/ NextSequenceIndices(c) \/ ReadMetrics(c) \/ CancelOperation(c)
                 \/ Respond(c)
        PROVE  UNCHANGED <<executorVars, session, lifecycle>>
    BY <2>6
    DEF UnlockEngine, AfterOperation, DropToken, NewToken, ResetSequenceIndex,
        NextSequenceIndices, ReadMetrics, CancelOperation, CancelToken, Cancel, Respond,
        vars, engineVars
  <2>7. ASSUME NEW c \in ControlClients, Control(c)
        PROVE  UNCHANGED <<executorVars, session, lifecycle>>
    <3>1. c \in Connections
      BY ServerAssumption DEF ServerAssumption
    <3> QED
      BY <2>5, <2>7, <3>1
      DEF Control, CancelRequest, ResetRequest, WarmupRequest, UnloadRequest, vars, engineVars
  <2>8. CASE TokenRequest \/ ResponsesRequest \/ UNCHANGED allVars
    BY <2>8 DEF TokenRequest, ResponsesRequest, BeginOperation, allVars, vars, engineVars
  <2> QED
    BY <2>3, <2>4, <2>5, <2>6, <2>7, <2>8 DEF ServerNext, Operation
<1> QED
  BY <1>1, ServerInvariance, PTL DEF ServerSpec, QueuedCancelLeavesTheSession

\* A generation gives the engine back without a session, however it ended.
THEOREM GenerationsEndClean == ServerSpec => GenerationLeavesNoSession
<1>1. ServerInv /\ [ServerNext]_allVars =>
        [engine # Free /\ engine' = Free /\ job[engine].kind = "responses" =>
           /\ session' = NoSession
           /\ lifecycle' \in {"Loaded", "Warm", "UnloadFailed", "Unloaded"}]_allVars
  <2> SUFFICES ASSUME ServerInv, ServerNext, engine # Free, engine' = Free,
                      job[engine].kind = "responses"
               PROVE  /\ session' = NoSession
                      /\ lifecycle' \in {"Loaded", "Warm", "UnloadFailed", "Unloaded"}
    BY DEF allVars, serverVars
  <2>1. ASSUME NEW c \in Connections, UnlockEngine(c) PROVE FALSE
    BY <2>1 DEF UnlockEngine
  <2>2. ASSUME NEW c \in Connections, LockEngine(c) \/ AtEngine(c) PROVE FALSE
    BY <2>2 DEF LockEngine, AtEngine
  <2>3. PICK c \in Connections : CloseStream(c)
    <3>1. ~TokenRequest /\ ~ResponsesRequest /\ ~EngineRuns
      BY DEF TokenRequest, ResponsesRequest, BeginOperation, EngineRuns, serverVars
    <3>2. ASSUME NEW c \in Connections,
                 AfterOperation(c) \/ ResetSequenceIndex(c) \/ NextSequenceIndices(c)
                   \/ TakeStep(c) \/ StreamToken(c) \/ StreamDecodes(c) \/ ReadMetrics(c)
                   \/ CancelOperation(c) \/ Respond(c)
          PROVE  FALSE
      BY <3>2
      DEF AfterOperation, ResetSequenceIndex, NextSequenceIndices, TakeStep, StreamToken,
          StreamDecodes, ReadMetrics, CancelOperation, Respond
    <3>3. ASSUME NEW c \in ControlClients, Control(c) PROVE FALSE
      <4>1. c \in Connections
        BY ServerAssumption DEF ServerAssumption
      <4> QED
        BY <2>2, <3>3, <4>1
        DEF Control, CancelRequest, ResetRequest, WarmupRequest, UnloadRequest
    <3> QED
      BY <2>1, <2>2, <3>1, <3>2, <3>3 DEF ServerNext, Operation
  <2>4. ResetSession
    BY <2>3 DEF CloseStream, GenerationReset
  <2> QED
    BY <2>4
    DEF ResetSession, InvalidateSession, ServerInv, EngineInv, EngineTypeOK, LifecycleInv,
        Lifecycles
<1> QED
  BY <1>1, ServerInvariance, PTL DEF ServerSpec, GenerationLeavesNoSession

=============================================================================
