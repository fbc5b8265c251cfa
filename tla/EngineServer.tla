---------------------------- MODULE EngineServer ----------------------------
(***************************************************************************)
(* EngineServer<E> of src/server.rs: one Engine behind a mutex, a registry *)
(* of cancellation tokens by operation id, one sequence counter for the    *)
(* token-ID calls, and one thread per connection (run_unix).               *)
(*                                                                         *)
(* A thread serves its connection's requests one after the other, so the   *)
(* token an operation owns is named by its connection: Tokens is           *)
(* Connections.  The registry and counter mutexes are held for one step    *)
(* and never together with another lock; the engine mutex is held for a    *)
(* whole call and, by a Responses generation, for the whole stream.        *)
(* Requests that lock, call and unlock with nothing in between (warmup,    *)
(* reset_session, unload) are one step taken while the mutex is free.      *)
(***************************************************************************)
EXTENDS Engine, FiniteSets

CONSTANTS
  Connections,     \* threads of run_unix; also Tokens
  TokenClients,    \* connections that send prefill and decode
  StreamClients,   \* connections that send Responses requests
  ControlClients,  \* connections that send every other request
  Free,            \* nobody holds the engine mutex; no operation
  Stale,           \* a cloned token whose operation is over
  MaxOutput        \* max_output_tokens of a Responses request

\* Operation ids, session ids and request ids are all u64 chosen by callers;
\* SessionIds stands for the three.
ASSUME ServerAssumption ==
  /\ Tokens = Connections
  /\ TokenClients \cup StreamClients \cup ControlClients \subseteq Connections
  /\ Free \notin Connections /\ Stale \notin Connections /\ Free # Stale
  /\ MaxOutput \in Nat \ {0}

VARIABLES
  engine,          \* who holds the engine mutex, or Free
  operations,      \* EngineServer.cancellations: the owner of each id, or Free
  sequence_index,  \* EngineServer.sequence_index
  pc,              \* where each connection's thread is
  job,             \* the request each thread is serving
  stream,          \* the running generation: tokens generated, left of the step,
                   \* pending without a text delta, emitted; a stop token met
  answered,        \* history: tokens the engine answered in the token-ID session
  queuedCancel,    \* history: connections whose operation was cancelled in the queue
  asked            \* history: connections whose operation a Cancel request named

serverVars == <<engine, operations, sequence_index, pc, job, stream>>
historyVars == <<answered, queuedCancel, asked>>
allVars == <<vars, serverVars, historyVars>>

Job == [kind : {"none", "prefill", "decode", "responses", "cancel"},
        operation : SessionIds \cup {Free},
        session : SessionIds \cup {Free},
        clone : Connections \cup {Free, Stale},   \* token cloned by Cancel
        outcome : Statuses,
        count : Nat,                              \* tokens to number
        rank : Nat]                               \* history: tokens answered before them

NoJob == [kind |-> "none", operation |-> Free, session |-> Free, clone |-> Free,
          outcome |-> "ok", count |-> 0, rank |-> 0]

\* Threads that own a registered operation.
Registered == {"queued", "running", "streaming", "closing", "unlocked"}

ServerTypeOK ==
  /\ EngineTypeOK
  /\ engine \in Connections \cup {Free}
  /\ operations \in [SessionIds -> Connections \cup {Free}]
  /\ sequence_index \in Nat
  /\ pc \in [Connections -> Registered \cup
               {"ready", "renumber", "number", "respond", "metrics", "found"}]
  /\ job \in [Connections -> Job]
  /\ stream \in [generated : 0..MaxOutput, left : 0..ExecutorDrafts + 1,
                 pending : 0..MaxOutput, emitted : 0..MaxOutput, stopped : 0..1]
  /\ answered \in Nat
  /\ queuedCancel \subseteq Connections
  /\ asked \subseteq Connections

NoStream == [generated |-> 0, left |-> 0, pending |-> 0, emitted |-> 0, stopped |-> 0]

ServerInit ==
  /\ model = "resident" /\ position = 0 /\ pending = 0 /\ state = "whole"
  /\ lifecycle = "Loaded" /\ artifact = "Some"
  /\ session = NoSession /\ sampler = "None"
  /\ call = NoCall
  /\ result = [op |-> "load", status |-> "ok", tokens |-> 0]
  /\ cancelled = {}
  /\ engine = Free
  /\ operations = [id \in SessionIds |-> Free]
  /\ sequence_index = 0
  /\ pc = [c \in Connections |-> "ready"]
  /\ job = [c \in Connections |-> NoJob]
  /\ stream = NoStream
  /\ answered = 0 /\ queuedCancel = {} /\ asked = {}

Goes(c, to) == pc' = [pc EXCEPT ![c] = to]

-----------------------------------------------------------------------------
(* begin_operation and finish_operation *)

BeginOperation(c, kind, id, sid) ==
  /\ pc[c] = "ready"
  /\ operations[id] = Free              \* else operation_conflict: no change
  /\ operations' = [operations EXCEPT ![id] = c]
  /\ Goes(c, "queued")
  /\ job' = [job EXCEPT ![c] = [NoJob EXCEPT !.kind = kind, !.operation = id,
                                            !.session = sid]]
  /\ UNCHANGED <<vars, engine, sequence_index, stream, historyVars>>

\* Mutant: only an answered operation is taken out of the registry.
FinishOperationIfAnswered(c) ==
  operations' = IF job[c].outcome = "ok"
                THEN [operations EXCEPT ![job[c].operation] = Free] ELSE operations

FinishOperation(c) == operations' = [operations EXCEPT ![job[c].operation] = Free]

\* What is left of a job once it has finished: tokens to number, or nothing.
Leftover(c) ==
  IF job[c].outcome = "ok" /\ job[c].kind # "responses"
  THEN [NoJob EXCEPT !.kind = job[c].kind, !.count = job[c].count, !.rank = job[c].rank]
  ELSE NoJob

\* Mutant: every connection has one token, used for all its operations.
DropNoToken(c) ==
  /\ job' = [job EXCEPT ![c] = Leftover(c)]
  /\ UNCHANGED vars

\* Nobody looks at c's token any more and c's next operation has a new one: a
\* clone that a Cancel request still holds is one of another allocation.
DropToken(c) ==
  /\ NewToken(c)
  /\ job' = [b \in Connections |->
       IF b = c THEN Leftover(c)
       ELSE IF job[b].clone = c THEN [job[b] EXCEPT !.clone = Stale]
       ELSE job[b]]

TokenRequest ==
  \E c \in TokenClients, kind \in {"prefill", "decode"}, id, sid \in SessionIds :
    BeginOperation(c, kind, id, sid)

\* The request id of a Responses request is its operation and session id.
ResponsesRequest ==
  \E c \in StreamClients, id \in SessionIds : BeginOperation(c, "responses", id, id)

-----------------------------------------------------------------------------
(* prefill_response and decode_response, and the prefill of a generation *)

\* engine.lock() and the entry of the call.
LockEngine(c) ==
  /\ pc[c] = "queued" /\ engine = Free
  /\ engine' = c
  /\ Goes(c, "running")
  /\ stream' = NoStream
  /\ \/ /\ job[c].kind # "decode"
        /\ \E length \in 1..MaxContext, mtp \in BOOLEAN :
             PrefillCall(c, job[c].session, length, mtp, TRUE)
     \/ /\ job[c].kind = "decode"
        /\ DecodeCall(c, job[c].session)
  /\ UNCHANGED <<operations, sequence_index, job, historyVars>>

\* The call goes on inside the engine.
EngineRuns ==
  /\ CallStep
  /\ UNCHANGED <<serverVars, historyVars>>

\* A token-ID call has returned: take the result and drop the guard.
UnlockEngine(c) ==
  /\ pc[c] = "running" /\ job[c].kind \in {"prefill", "decode"}
  /\ engine = c /\ Idle
  /\ engine' = Free
  /\ Goes(c, "unlocked")
  /\ job' = [job EXCEPT ![c].outcome = result.status,
                        ![c].count = result.tokens,
                        ![c].rank = IF job[c].kind = "prefill" THEN 0 ELSE answered]
  /\ answered' = IF result.status # "ok" THEN answered
                 ELSE IF job[c].kind = "prefill" THEN 1 ELSE answered + result.tokens
  /\ UNCHANGED <<vars, operations, sequence_index, stream, queuedCancel, asked>>

\* Mutant: the counter is reset before the outcome of the prefill is looked at.
AfterCallRenumbering(c) ==
  IF job[c].kind = "responses"
  THEN IF job[c].outcome = "cancelled" THEN "metrics" ELSE "respond"
  ELSE IF job[c].kind = "prefill" THEN "renumber"
  ELSE IF job[c].outcome = "ok" THEN "number" ELSE "respond"

AfterCall(c) ==
  IF job[c].kind = "responses"
  THEN IF job[c].outcome = "cancelled" THEN "metrics" ELSE "respond"
  ELSE IF job[c].outcome # "ok" THEN "respond"
  ELSE IF job[c].kind = "prefill" THEN "renumber" ELSE "number"

\* finish_operation, then the response or, for tokens, their numbers.
AfterOperation(c) ==
  /\ pc[c] = "unlocked"
  /\ FinishOperation(c)
  /\ DropToken(c)
  /\ queuedCancel' = queuedCancel \ {c}
  /\ asked' = asked \ {c}
  /\ Goes(c, AfterCall(c))
  /\ UNCHANGED <<engine, sequence_index, stream, answered>>

\* reset_sequence_index and next_sequence_indices: two separate locks of the
\* counter, both after the engine was released.
ResetSequenceIndex(c) ==
  /\ pc[c] = "renumber"
  /\ sequence_index' = 0
  /\ Goes(c, "number")
  /\ UNCHANGED <<vars, engine, operations, job, stream, historyVars>>

NextSequenceIndices(c) ==
  /\ pc[c] = "number"
  /\ sequence_index' = sequence_index + job[c].count
  /\ job' = [job EXCEPT ![c] = NoJob]
  /\ Goes(c, "respond")
  /\ UNCHANGED <<vars, engine, operations, stream, historyVars>>

\* The response is written and the thread reads its next line.
Respond(c) ==
  /\ pc[c] = "respond"
  /\ Goes(c, "ready")
  /\ UNCHANGED <<vars, engine, operations, sequence_index, job, stream, historyVars>>

-----------------------------------------------------------------------------
(* run_response_generation, after its prefill.  The guard is held until the *)
(* session has been reset.                                                  *)

Holds(c, at) == pc[c] = at /\ engine = c /\ job[c].kind = "responses"

\* Mutant: a refused decode counts as a step without tokens.
StepAnsweredUnlessFailed == result.status \in {"ok", "rejected"}

StepAnswered == result.status = "ok"

\* The generation ends with a finish reason (ok) or an error, with which its
\* pending tokens are dropped.
EndStream(c, outcome) ==
  /\ job' = [job EXCEPT ![c].outcome = outcome]
  /\ Goes(c, "closing")

FailStream(c, outcome) == EndStream(c, outcome) /\ stream' = NoStream

\* emit_pending_tokens: every pending token, in order.
Emitted(s) == [s EXCEPT !.emitted = @ + s.pending, !.pending = 0]

\* A finish reason. Tokens that still wait for the end of a character are
\* emitted with what text there is; the emission fails when the peer is gone.
FinishStream(c, s) ==
  \/ EndStream(c, "ok") /\ stream' = Emitted(s)
  \/ s.pending > 0 /\ FailStream(c, "failed")

\* engine.prefill or engine.decode has returned.
TakeStep(c) ==
  /\ Holds(c, "running") /\ Idle
  /\ IF StepAnswered
     THEN /\ stream' = [stream EXCEPT !.left = result.tokens]
          /\ Goes(c, "streaming")
          /\ UNCHANGED job
     ELSE FailStream(c, result.status)
  /\ UNCHANGED <<vars, engine, operations, sequence_index, historyVars>>

OutputFull == stream.generated = MaxOutput

\* One token of the step: the output limit, the cancellation token, a stop
\* token, which counts and is not emitted, or one more pending token, emitted
\* with those before it once the decoder has text for them.
StreamToken(c) ==
  /\ Holds(c, "streaming") /\ stream.left > 0
  /\ \/ OutputFull /\ FinishStream(c, stream)
     \/ ~OutputFull /\ c \in cancelled /\ FailStream(c, "cancelled")
     \/ /\ ~OutputFull /\ c \notin cancelled
        /\ LET counted == [stream EXCEPT !.generated = @ + 1, !.left = @ - 1]
               pushed == [counted EXCEPT !.pending = @ + 1]
           IN  \/ FinishStream(c, [counted EXCEPT !.stopped = 1])
               \/ stream' \in {pushed, Emitted(pushed)} /\ UNCHANGED <<pc, job>>
               \/ FailStream(c, "failed")
  /\ UNCHANGED <<vars, engine, operations, sequence_index, historyVars>>

\* The step is used up: the length limit, or the next decode.
StreamDecodes(c) ==
  /\ Holds(c, "streaming") /\ stream.left = 0
  /\ IF OutputFull
     THEN FinishStream(c, stream) /\ UNCHANGED vars
     ELSE DecodeCall(c, job[c].session) /\ Goes(c, "running") /\ UNCHANGED <<job, stream>>
  /\ UNCHANGED <<engine, operations, sequence_index, historyVars>>

\* Mutant: a generation that failed or was cancelled returns early.
GenerationResetIfFinished(c) ==
  IF job[c].outcome = "ok" THEN ResetSession ELSE UNCHANGED vars

\* engine.reset_session(), whatever happened.
GenerationReset(c) == ResetSession

CloseStream(c) ==
  /\ Holds(c, "closing")
  /\ GenerationReset(c)
  /\ job' = [job EXCEPT ![c].outcome =
                IF @ = "ok" THEN result'.status ELSE @]
  /\ engine' = Free
  /\ Goes(c, "unlocked")
  /\ UNCHANGED <<operations, sequence_index, stream, historyVars>>

\* A cancelled generation locks the engine once more, for the metrics of its
\* completion record.
ReadMetrics(c) ==
  /\ pc[c] = "metrics" /\ engine = Free
  /\ Goes(c, "respond")
  /\ UNCHANGED <<vars, engine, operations, sequence_index, job, stream, historyVars>>

-----------------------------------------------------------------------------
(* control_response *)

\* Look the operation up and clone its token.  An operation that is not
\* registered is answered operation_not_found.
CancelRequest(c, id) ==
  /\ pc[c] = "ready" /\ operations[id] # Free
  /\ job' = [job EXCEPT ![c] = [NoJob EXCEPT !.kind = "cancel", !.clone = operations[id]]]
  /\ asked' = asked \cup {operations[id]}
  /\ Goes(c, "found")
  /\ UNCHANGED <<vars, engine, operations, sequence_index, stream, answered, queuedCancel>>

\* Mutant: only the operation that holds the engine can be cancelled.
CancelTokenIfRunning(owner) ==
  IF engine = owner THEN Cancel(owner) ELSE UNCHANGED vars

CancelToken(owner) == Cancel(owner)

\* Mutant: the lifecycle of the answer is read under lock().
LifecycleAfterLock == engine = Free

\* The lifecycle of the answer comes from try_lock, which never waits.
LifecycleWithoutWaiting == TRUE

\* operation.cancel(), with no lock held.
CancelOperation(c) ==
  /\ pc[c] = "found"
  /\ LifecycleWithoutWaiting
  /\ IF job[c].clone = Stale
     THEN UNCHANGED <<vars, queuedCancel>>
     ELSE /\ CancelToken(job[c].clone)
          /\ queuedCancel' = IF pc[job[c].clone] = "queued"
                             THEN queuedCancel \cup {job[c].clone} ELSE queuedCancel
  /\ Goes(c, "respond")
  /\ job' = [job EXCEPT ![c] = NoJob]
  /\ UNCHANGED <<engine, operations, sequence_index, stream, answered, asked>>

\* Mutant: a generation takes the engine anew for every step.
AtEngineBetweenCalls(c) ==
  /\ pc[c] = "ready" /\ Idle
  /\ UNCHANGED <<serverVars, historyVars>>

\* A request that needs nothing but one engine call under the mutex.
AtEngine(c) ==
  /\ pc[c] = "ready" /\ engine = Free
  /\ UNCHANGED <<serverVars, historyVars>>

WarmupRequest(c) == AtEngine(c) /\ Warmup

\* Mutant: the session id of the request is not compared.
ResetNamesAnySession(id) == TRUE

\* Another active session is answered session_identity_mismatch.
ResetNamesTheSession(id) == session # NoSession => session.id = id

ResetRequest(c, id) == AtEngine(c) /\ ResetNamesTheSession(id) /\ ResetSession

UnloadRequest(c) == AtEngine(c) /\ Unload

-----------------------------------------------------------------------------

Operation(c) ==
  \/ LockEngine(c) \/ UnlockEngine(c) \/ AfterOperation(c)
  \/ ResetSequenceIndex(c) \/ NextSequenceIndices(c)
  \/ TakeStep(c) \/ StreamToken(c) \/ StreamDecodes(c) \/ CloseStream(c)
  \/ ReadMetrics(c)

Control(c) ==
  \/ \E id \in SessionIds : CancelRequest(c, id) \/ ResetRequest(c, id)
  \/ WarmupRequest(c) \/ UnloadRequest(c)

ServerNext ==
  \/ TokenRequest \/ ResponsesRequest \/ EngineRuns
  \/ \E c \in Connections : Operation(c) \/ CancelOperation(c) \/ Respond(c)
  \/ \E c \in ControlClients : Control(c)

ServerSpec == ServerInit /\ [][ServerNext]_allVars

\* Only the thread of a Cancel request is assumed to be scheduled; the
\* operation it cancels may be stuck in the executor for ever.
CancelFairSpec ==
  /\ ServerSpec
  /\ \A c \in Connections : WF_allVars(CancelOperation(c)) /\ WF_allVars(Respond(c))

\* Every thread is scheduled, the executor returns and peers read what is
\* written to them.  Nothing is assumed of who gets the mutex.
HolderFairness ==
  /\ WF_allVars(EngineRuns)
  /\ \A c \in Connections :
       WF_allVars(UnlockEngine(c) \/ TakeStep(c) \/ StreamToken(c)
                    \/ StreamDecodes(c) \/ CloseStream(c))

-----------------------------------------------------------------------------
(* Correctness *)

\* The registry holds exactly the operations in progress: an id is never
\* owned by two threads, an operation that is over (answered, failed,
\* cancelled) never stays behind and blocks its id, and its answer is only
\* written once the id is free again.
RegistryIsExact ==
  /\ ServerTypeOK
  /\ \A id \in SessionIds, c \in Connections :
       operations[id] = c <=> pc[c] \in Registered /\ job[c].operation = id

\* A Cancel request that found an earlier operation of the same connection
\* (or of the same id) never stops a later one.
CancelHitsOnlyWhatItNamed ==
  \A c \in Connections : pc[c] \in Registered /\ c \in cancelled => c \in asked

\* An operation cancelled while it waited for the engine is not answered
\* with tokens, and a token-ID operation leaves the session that is active
\* then as it found it.
QueuedCancelWins ==
  \A c \in queuedCancel :
    pc[c] \in {"streaming", "closing", "unlocked"} => job[c].outcome # "ok"

QueuedCancelLeavesTheSession ==
  [][(engine \in queuedCancel) /\ job[engine].kind \in {"prefill", "decode"}
       => UNCHANGED <<executorVars, session, lifecycle>>]_allVars

\* "Normal completion resets the session before the server accepts another
\* generation" (docs/WIRE_PROTOCOL_V1.md), and so does every other end: a
\* generation never leaves its session to whoever locks the engine next.
GenerationLeavesNoSession ==
  [][engine # Free /\ engine' = Free /\ job[engine].kind = "responses"
       => session' = NoSession /\ lifecycle' \in {"Loaded", "Warm", "UnloadFailed", "Unloaded"}]_allVars

\* While a generation streams, the session is its own.
GenerationOwnsTheSession ==
  \A c \in Connections : pc[c] = "streaming" =>
    engine = c /\ session # NoSession /\ session.id = job[c].operation

\* With one token-ID client the numbers it receives count the tokens of its
\* session from 0 without a gap, although the counter is read after the
\* engine mutex was released and whatever the other connections do.  A
\* generation numbers its own: every token it generated up to a stop token
\* has the next number or waits for the end of a character, and none still
\* waits when it ends with a finish reason, wherever in a step that was.
IndicesFollowTheSession ==
  \A c \in Connections :
    /\ pc[c] = "number" => sequence_index = job[c].rank
    /\ pc[c] \in {"streaming", "closing"} =>
         stream.emitted + stream.pending + stream.stopped = stream.generated
    /\ pc[c] = "closing" /\ job[c].outcome = "ok" => stream.pending = 0

\* "a cancel request does not wait behind the inference call"
\* (docs/WIRE_PROTOCOL_V1.md): it is answered even when nothing else moves.
CancelsReturn ==
  \A c \in ControlClients : (pc[c] = "found") ~> (pc[c] = "ready")

\* Whoever got the engine gives it back: a generation ends at its output
\* limit or, if that is larger, at the end of the context, even when nobody
\* cancels it, no stop token comes and its peer stays connected.  It holds when
\* the thread that has the engine is scheduled, the executor returns and the
\* peer reads.
EngineIsReleased ==
  HolderFairness => \A c \in Connections : (engine = c) ~> (engine # c)

\* "session IDs bind recurrent and KV state", "reset by session_id"
\* (docs/WIRE_PROTOCOL_V1.md): a request for another session that is refused
\* leaves the active one alone.
RefusedGenerationLeavesOthersAlone ==
  [][engine # Free /\ session # NoSession /\ session.id # job[engine].session
       => session' # NoSession]_allVars
=============================================================================
