# CTOX-LLM in TLA+

This directory is a verification development of CTOX-LLM: the Rust inference
engine for one 27B model (`models/qwen38_27b`) and the Python recovery-training
pipeline around it (`training`). The modules say in TLA+ what the code does,
TLC checks them on small instances, and TLAPS proves the main results for every
value of the constants. `PROJECT.json` maps each definition to the source lines
it stands for.

Paths below are relative to `models/qwen38_27b/src/` unless they name another
top directory.

## 1. Inventory

### Components

| component | state | operations | with whom |
|---|---|---|---|
| **Engine** `engine.rs` | lifecycle (Loaded, Warm, Active, UnloadFailed, Unloaded), at most one session (id, context tokens, MTP flag), sampler, artifact, the executor | load, warmup, prefill, decode, reset_session, unload, drop | owns one `ModelExecutor`; looks at a `CancellationToken` other threads set |
| **ModelExecutor** `engine.rs:322` (trait) | weights, session state (recurrent and KV), an open speculative branch, allocation counters | load, warmup, prefill, decode, commit_speculative, reset_session, unload, allocations | implemented by CPU, CUDA, Metal and by adapters that run an executor in a thread of its own |
| **EngineServer** `server.rs`, `wire.rs` | the engine behind a mutex, a registry operation id -> cancellation token, a counter that numbers tokens | token-ID prefill/decode, Responses generation (prefill, decode until finished, reset), cancel, reset, warmup, unload, health | one thread per Unix connection |
| **KV caches** `kv_cache.rs` | packed pages (paged cache) or tokens (mixed cache) at Q2 or Q4, retention policy (sink, recent window) | push, reset; in test builds also begin and restore a branch | state of the CPU executor, reference for the device caches; `memory.rs` budgets it |
| **Metal paged KV** `backend/metal_runtime.rs` (`PreparedMetalPagedGqa`) | page metadata, page -> Q4 slot table, free-slot stack, two device arenas, poison flag, checkpoint | append_and_dispatch, begin/restore/commit_speculative, reset | one per full-attention layer |
| **Metal target layers and MTP** `backend/metal_runtime.rs` | 16+1 attention owners, 48 linear layers with a convolution and a recurrence each, the target hidden MTP reads, one branch over all of them | begin, encode a transition, commit or roll back, reset | driven by the Metal executor |
| **Metal executor** `backend/metal_executor.rs` | resident owners, admitted depth, one pending acknowledgement, allocation snapshot | as ModelExecutor | runs every transition in a branch; a threaded adapter reaches it over channels |
| **CUDA executor** `backend/cuda_executor.rs` | loaded flag, hidden and mode of the open draft block | as ModelExecutor | drives one CUDA graph; a threaded adapter reaches it over channels |
| **CUDA graph** `backend/cuda_graph.rs` | 48 recurrent mixers, 16 KV owners of the target and one of the MTP layer, position, branch checkpoint, captured graphs | prefill chunk, decode token, draft, verify, begin/restore/commit branch, replay, reset | owns every device resource of the executor |
| **CUDA paged KV** `backend/cuda_runtime.rs` (`PreparedCudaGraphPagedGqa`) | token count, checkpoint, Q2 pages, ring of Q4 pages | append rows, begin/restore/commit, reset | one per full-attention layer |
| **CPU executor** `decoder.rs` | decoder state (48 linear, 16 attention layers, position), MTP cache, last hidden vector, candidate tokens of the open branch | as ModelExecutor | reference of the others; arithmetic in `backend/cpu.rs`, `reference.rs` |
| sampler, tokenizer | none that outlives a call | pure functions | used by engine and server |
| artifact, loader, release, tensor contract | immutable files | validation | feed Engine::load |
| memory plan, roofline, fan-out | none | closed arithmetic | admission of a profile |
| **Recovery trainer** `training/train_recovery.py`, `recovery_io.py` | model and optimizer, cursor, checkpoints, three output files | restore, train, checkpoint, commit outputs | one process per run, killed at any point |
| **Recovery runner** `training/run_recovery_execution_plan.py` | state file of finished stages, log of attempts | run next stage, resume, verify recorded outputs | starts the trainer and later stages; survives crashes |
| teacher and corpus pipeline `training/*.py` | immutable datasets | batch scripts | feeds the runner |
| kernels, vendored CUDA, verifier binaries | none | numeric | called by executors |

### How the running system interacts

A connection thread reads a request, registers its operation (registry mutex),
waits for the engine mutex, calls the engine, releases it, removes the operation
and writes the answer. A generation keeps the engine mutex for its whole stream.
A cancel request takes no engine mutex: it finds the operation's token in the
registry and sets it, so the token can change between any two steps of the
operation, before it has the engine, inside the executor, or after its end. The
engine calls the executor, which may fail halfway; every error path ends in
`invalidate_session`.

### What is hard here, and which property answers it

- **Session record against executor.** The engine counts tokens itself; nothing
  in the types ties the count to the executor. `SessionAgreesWithExecutor`,
  `ImplementsContract`.
- **Failure or cancellation halfway.** `PartialCallsLoseTheSession`,
  `PrefillStartsClean`.
- **Admission at the end of the context.** `AdmissionCoversTheBlock`.
- **Unload, reset, unload in any order.** `UnloadedHoldsNothing`,
  `UnloadedIsFinal`; see finding 1.
- **Registry and cancellation races.** `RegistryIsExact`,
  `CancelHitsOnlyWhatItNamed`, `QueuedCancelWins`,
  `QueuedCancelLeavesTheSession`, `CancelsReturn`.
- **Who owns the session, and which number a token gets.** `GenerationOwnsTheSession`,
  `GenerationLeavesNoSession`, `IndicesFollowTheSession`, `EngineIsReleased`;
  see finding 2.
- **Demotion at window and page boundaries.** `PushSettlesTheBudget`,
  `PagesCoverTheTokens`, `PrecisionIsExact`; with branches that suppress it, on the
  Metal device, `OrdinaryAppendAlwaysFits`.
- **Undoing a branch of the Metal owner without copying memory.**
  `ImplementsRetention`, `SlotsArePartitioned`.
- **A bounded slot pool on the device.** `SlotsArePartitioned`,
  `OrdinaryAppendAlwaysFits`; see finding 3.
- **Seventy device owners that must move together.** `OwnersAgree`,
  `BranchIsAllOrNothing`, `CancelledCallsLeaveNoBranch`, `ImplementsExecutor`.
- **An oracle that speculates on clones and computes accepted tokens again.**
  `CpuOwnersAgree`, `BoundsNeverRefuse`, `ImplementsExecutor`.
- **A fused block that is rejected after it ran.** The Metal executor rolls it back
  and replays the accepted part, so that commit_speculative has nothing left to do.
  `MetalOwnersAgree`, `TransactionIsAllOrNothing`, `ImplementsExecutor`.
- **A ring of Q4 pages that a branch writes and a rollback does not undo.**
  `DamageIsConfined`; see finding 4.
- **A crash between any two durable steps of training.**
  `EvidenceIsTheCommitMarker`, `RecordsHold`, `ResumedTrainingIsUninterrupted`,
  `ResumingEnds`.

The full list, each at its line, is under "hazards" in `PROJECT.json`.

## 2. Modules

```
SessionContract  <--- refined by ---  Engine  --extends-->  ModelExecutor
                                        ^
                                        | extends
                                   EngineServer

KvRetention  <--- refined by ---  MixedKvCache, PagedKvCache, MetalPagedKv

ExecutorContract  --extends-->  ModelExecutor      (no engine around it)
        ^
        | refined by
   CudaExecutor  --extends-->  CudaGraph         --extends-->  CudaGraphKv
   MetalExecutor --extends-->  MetalTransaction  --extends-->  MetalPagedKv
   CpuExecutor   --extends-->  PagedKvCache

RecoveryRunner   --extends-->  RecoveryTraining

EngineProofs        : Engine
KvRetentionProofs   : KvRetention
MixedKvCacheProofs  : MixedKvCache
EngineServerProofs  : EngineServer
CudaExecutorProofs  : CudaExecutor, CudaGraphKv
RecoveryRunnerProofs: RecoveryRunner
MetalExecutorProofs : MetalExecutor, MetalPagedKv
CpuExecutorProofs   : CpuExecutor, PagedKvCache
MCEngine, MCEngineServer, MCPagedKvCache, MCCpuExecutor,
MCMetalPagedKv, MCMetalExecutor, MCCudaExecutor, MCRecoveryRunner        : instances for TLC
```

### SessionContract
What a caller of `engine.rs` may rely on (`docs/ENGINE_ABI_V1.md`): a phase, the
owner of the open session, how many tokens it holds and how many tokens the last
answer had. The session only grows by what was answered; a call that is not
answered leaves it unchanged or gone.

### ModelExecutor
One action per return of a trait method. Data is reduced to what the engine can
tell apart: `position` (target tokens in the state), `pending` (drafts of the
open branch), `state` ("partial" once a method failed after it may have advanced
some layers), `model` ("residue" when `allocations()` is not zero although the
model is gone). The three executors of the crate differ in which returns they can
produce; the engine has to work with all of them.

### Engine
`lifecycle`, `session`, `sampler`, `artifact` are the fields of `Engine<E>`;
`call` is the local state of the prefill or decode in progress; `result` is what
the last call returned. `&mut self` allows one call at a time, so all requests
need `Idle`. Prefill and decode are cut where they look at the cancellation
token, because another thread can set it in between:

| `call.at` | code |
|---|---|
| `check` | `cancelled(cancellation)?` before the executor is called |
| `execute` | `executor.prefill` / `executor.decode` |
| `finish` | token, `validate`, sampling, `verify_greedy_mtp` |
| `commit` | `executor.commit_speculative` and the session counter |
| `invalidate` | `invalidate_session`, which can itself fail |

`verify_greedy_mtp` is the choice of any accepted prefix of the drafts; sampled
token values do not matter to any property. `NewToken` stands for a fresh
`CancellationToken::default()`.

### EngineServer
Extends `Engine` with one thread per connection. `engine`, `operations` and
`sequence_index` are the three mutex-protected fields; `pc` and `job` are a
thread's place and request; `stream` is the running generation with the tokens that
still wait for the end of a character (`emit_pending_tokens`). The handlers:

| code | actions |
|---|---|
| `begin_operation`, `finish_operation` | `TokenRequest`, `ResponsesRequest`, `AfterOperation` |
| `prefill_response`, `decode_response` | `LockEngine`, `EngineRuns`, `UnlockEngine`, `AfterOperation`, `ResetSequenceIndex`, `NextSequenceIndices`, `Respond` |
| `run_response_generation` | `LockEngine`, `EngineRuns`, `TakeStep`, `StreamToken`, `StreamDecodes`, `CloseStream`, `AfterOperation`, `ReadMetrics`, `Respond` |
| `control_response` | `CancelRequest` then `CancelOperation`; `WarmupRequest`, `ResetRequest`, `UnloadRequest` |

A token belongs to an operation, and a thread has one operation at a time, so a
token is named by its connection; a clone that outlived its operation is `Stale`.
`answered`, `queuedCancel` and `asked` are history variables for the properties.

### KvRetention
The contract of a KV store with a retention policy: `held` is what attention can
read, in order, with the precision it can be read at; sink and recent window at
Q4; `branch` is what a rollback returns to; `readable` turns false when a device
failed.

### PagedKvCache, MixedKvCache
`kv_cache.rs`. The paged cache keeps pages with a precision each and demotes whole
pages that left the window. The mixed cache requantizes at most one token per
append. Both are shown to implement `KvRetention`.

The branch of the paged cache exists in test builds only: `push_retaining_q4`,
`append_checkpoint`, `restore_append_checkpoint` and `PagedKvAppendCheckpoint` are
`#[cfg(test)]` (`kv_cache.rs:308-316`, `385-392`, `431-461`). There the cache is the
oracle that `PreparedMetalPagedGqa` keeps next to its device arenas (`verifier_cache`);
during a branch it demotes nothing, so that a checkpoint is a length. `PushRetainingQ4`,
`AppendCheckpoint` and `RestoreAppendCheckpoint` model it. The cache has no commit:
`DropCheckpoint` is its user dropping the mark, as `commit_speculative` of the Metal
owner does. The shipped program only pushes and resets: the CPU executor speculates
on clones (`CpuExecutor`), so what the cache's properties say of branches is about
that oracle.

### MetalPagedKv
`PreparedMetalPagedGqa`: the metadata on the host, the slot table and free stack,
and the two device arenas as memory that is overwritten. `Plan` is
`plan_paged_gqa_append`, which mutates before it can fail; the command buffer runs
demotions first and packs the new token last, and can fail with any part written.
The view of attention (`DeviceView`) is computed through the descriptors and shown
to implement `KvRetention`, the branch included, although arenas are never copied.

### MetalTransaction
The owners of a session and the branch over them. One attention owner (that of
`MetalPagedKv`, with its slots and arenas) stands for the sixteen of the target,
which one loop calls with one configuration; two recurrent owners stand for
those the loop meets before and after it; of the MTP owner the rows and the number
of its slots are kept; `hidden` is the slot of the workspace that MTP reads,
with its checkpoint. The state of a recurrent owner is named by what it has consumed.

| code (`metal_runtime.rs`) | definitions |
|---|---|
| `PreparedMappedMetalTargetLayers::begin_speculative`, `begin_mapped_greedy_mtp_target` | `BeginTransaction`, `BeginFails`: what had begun is restored, and a copy back can fail |
| one transition of a command buffer: MTP, then the target layers | `Transition`, `TransitionFails`; `Described` says whether the descriptors of a transition survive until the buffer runs |
| `commit_mapped_greedy_mtp_target`, `commit_ready` | `CommitTransaction` |
| `restore_mapped_greedy_mtp_target` | `RestoreTransaction`, `RestoreIncomplete` |
| `reset_session` of both owners | `ResetTransaction` |

### MetalExecutor
The trait methods over that branch. `call` holds the branches a method is still to
run (the tokens each consumes, and whether it is kept) and what it answers then.

| code (`metal_executor.rs`) | actions |
|---|---|
| `prefill` | `Prefill`, `PrefillCancelled`, one branch per token, the first without MTP |
| `decode`, target only | `DecodeTarget` |
| `decode` with drafts | `DecodeWithDrafts`: at full depth one fused block and, when its prefix is rejected, a replay (`Reject`, then one branch per token, `ReplayDiverges`); below it one branch per draft up to the first rejected one |
| the dispatch functions of `metal_runtime.rs` | `Begin`, `BeginStops`, `Encode`, `EncodeStops`, `CompletionStops`, `Commit`, `Restore`, `Select`, `Stop` |
| `commit_speculative` | `Acknowledge`, `AcknowledgeRefused` |
| `load`, `warmup`, `reset_session`, `unload` | actions of the same names |

The number of accepted drafts is chosen when a decode starts. As the target is one
branch ahead of its answer, `ImplementsExecutor` maps `position` to what the
answers imply: the token of a decode at the decode, its accepted drafts at the
acknowledgement. The caller is the engine as `Engine` has it: after an unanswered
call it resets or unloads. `MetalSpec` lets the attention owner go through its own
operations until an executor is loaded, as the verifier binaries drive it.

### CpuExecutor
`CpuCorrectnessExecutor`, the scalar oracle. It has no checkpoints: a method advances
the session in place and an error leaves it where it stopped, so that everything
rests on the caller dropping it. One attention layer, whose state is the cache of
`PagedKvCache`, stands between two linear layers for the 64 the loop meets; `counted`
are the token counters of the layer states, which a failure inside a layer leaves
behind what the layer absorbed. A recurrent state is named by the tokens it absorbed,
a hidden vector by the tokens before it, an MTP row by its token and that vector.
`CpuSpec` starts with the cache on its own, under every policy, until an executor is
loaded.

| code (`decoder.rs`) | definitions |
|---|---|
| `decode_target_step`, the two `..._attention_residual` | `TargetStep`, `TargetStepFails` (at any layer, before or after its state moved) |
| `mtp_final_hidden`, `mtp_restricted_draft`, `mtp_advance` | `MtpAccepts`, `MtpStep`, `MtpStepFails` |
| `prefill` | `Prefill`, `PrefillToken` |
| `decode` | `Decode`, `DecodeToken`, then one `DecodeDraft` per draft on clones, of which the model keeps the token counts |
| `commit_speculative` | `CommitSpeculative`, `CommitToken` |
| cancellation and errors of all of them | `Refused`, `Cancelled`, `Fails` |
| `load`, `warmup`, `reset_session`, `unload` | actions of the same names |

### ExecutorContract
`ModelExecutor` was written from what the engine may assume. `ExecutorContract`
closes it into a specification of its own, with any sequence of trait calls, so
that an executor can be shown to keep what the engine was checked against.

### CudaGraphKv
`PreparedCudaGraphPagedGqa`: an owner is a record, its methods are operators. It
has no page table: a page behind the sink packs at Q4 into a slot of a ring, so
that a captured kernel finds everything from the position. An append of a block is
written as what its rows do together. A checkpoint is a count. A packed row is named by the position of the token it belongs to; a row
that belongs to no committed token is `Junk`.

### CudaGraph
The graph under the executor: one recurrent mixer stands for the 48 (they are
moved by the same loops and fail like one), one KV owner for the 16 of the target,
one for the MTP layer. A device call either succeeds or stops the graph halfway,
so an operation has a form `...Admitted` (its guards) and a form `...Broken` (an
error after some owner moved: `healthy` is cleared). `overwritten` remembers which
committed rows lost their Q4 bytes, `tainted` that a captured block ran at another
position than the one baked into it; both are history for the properties.

### CudaExecutor
| code (`cuda_executor.rs`) | actions |
|---|---|
| `prefill` | `Prefill`, `PrefillChunk`, `PrefillCancelled`: the cancellation is looked at before each chunk |
| `decode`, admission and choice of the path | `Decode`, `DecodeRefused` |
| `decode`, captured block | `Seed` (captures the four programs, one per step), `CapturedBlock`, `CapturedBlockFails` |
| `decode`, one token and serial drafts | `FirstToken`, `FirstTokenFails`, `SerialCandidate`, `SerialCandidateFails`, `SerialCancelled` |
| `commit_speculative` | `CommitCancelled`, `CommitRefused`, `CommitCaptured`, `CommitWhole`, `CommitPrefix`, then `Replay`, `ReplayStops`, `ReplayEnds` |
| `reset_session`, `unload` | actions of the same names, with their failures |

`ImplementsExecutor` maps the graph's counters to the `position`, `pending` and
`state` of `ModelExecutor`.

### RecoveryTraining, RecoveryRunner
`RecoveryTraining` is the trainer as a process over durable files: `Prepare`,
`Restore`, `TrainSample`, `FlushGroup`, `EndEpoch`, `FinalCheckpoint`,
`WriteOutput`. What survives a crash is the checkpoints and the output files; what
does not is the process. A model is named by the sequence of samples and optimizer
steps that made it, so that equality with an uninterrupted run can be stated.
`RecoveryRunner` adds the plan runner over it: `StartRunner`, `NextStage`,
`StartProcess`, `StageEnded`, `FinishPlan`; a `Crash` of everything between any two
steps; and what an operator does by hand, `RunTrainerByHand` and
`MoveOutputsAway`.

## 3. Runs

| run | question | bounds |
|---|---|---|
| `engine_safety` | do session record and executor ever part, whatever the executor returns and whenever the token is set; does the engine implement `SessionContract` | 2 session ids, 2 tokens, context 6, 2 admitted drafts of an executor that can do 3 |
| `engine_residue` | finding 1 | same |
| `server_safety` | registry, cancellation, ownership, numbering under every schedule of three threads | 2 ids, context 3, 1 draft, 2 output tokens |
| `server_liveness` | is a cancel answered when only its thread runs; does every holder of the engine give it back | 1 id |
| `server_foreign_reset` | finding 2 | as `server_safety` |
| `kv_paged` | pages, bytes and precision for every policy; as the state of the CPU executor, do all owners agree, does a bound ever refuse an admitted call, does the executor keep the contract, with a failure or cancellation at every token and layer | the cache alone: all policies up to 6 tokens; the executor: 5 tokens, pages of 2, sink 0 or 2, window 2, depth 0 to 2, prompts of one or two tokens |
| `kv_mixed` | the same, token-grained | all policies up to 6 tokens |
| `metal_kv` | slots, views and rollbacks with failures; in the executor's hands, do all owners agree, is a branch over all or none, does the executor keep the contract | the owner alone: listed window/page alignments, up to 6 tokens; the executor: 9 tokens, pages of 3, sink 3, window 0 or 6, depth 1 or 2 of 2, prompts and drafts of one or two tokens |
| `metal_boundary_slot` | finding 3 | production shape scaled: pages of 2, sink of 2 pages, window of 4 |
| `cuda_executor` | do all owners agree, is a branch over all or none, does the executor keep the contract, with a failure or cancellation at every device call | 17 tokens, pages of 4, sink 4, window 4 (ring of 2), 3 drafts, chunks of 4, prompts of 1, 6 and 11, both output modes |
| `cuda_undone_branch` | finding 4 | same, full verifier logits only |
| `recovery` | does evidence or a record ever lie, is resumed training the uninterrupted one, does resuming end | 3 samples, 2 epochs, groups of 2, checkpoint every 2 steps, oversized samples none, 1 or 3; 3 failures, 2 manual runs, 2 clean-ups |

Why these bounds are enough to be interesting. Context 6 with 1+2 tokens per
decode meets the end of the context exactly, one short and two short of it; the
executor that offers 3 drafts exercises the refusal of a depth beyond the
admitted one. Context 3 with 2 output tokens lets a generation end by limit in
the middle of a step, at its end, and by the context. Six tokens with pages of
1..6 and every sink/window give aligned, straddling and sub-page windows, a
demotion inside and after a branch (of the test oracle), and a branch that crosses a page. Session ids
are interchangeable (only compared), so are token rows; both are symmetry sets,
in runs without liveness properties.

For the CPU executor: a context of 5 with a block of up to three tokens is met exactly
and missed by one, in the target, in the MTP cache and in the clones; pages of two
with a window of two demote inside a prompt, a decode and a commit.

For CUDA: a prompt of 1 starts a branch at the first page, 6 in the middle of one,
11 just before the window has to demote; 17 tokens are four pages and one token,
so that ring slots are reused twice and a block of drafts crosses a page at every
offset. For Metal: a block of two drafts is three transitions, one page exactly, so
that it ends, straddles or begins at a page (production: 5 of 64); a sink of one
page without window gives a pool that runs out, where a begin is refused, and one
with a window of two pages a pool as large as the context. Two drafts that differ
make a row of the wrong token visible. The run starts with the owner alone and
hands it to the executor by `Load`. For recovery: 3 samples in groups of 2 leave a short group at the end of an
epoch, 2 epochs make the cursor wrap, and the checkpoint of a run that spent its
budget lies in the middle of an epoch; 3 failures are enough to crash in the
trainer, in the runner that resumes it, and between its last two durable steps.

`CHECK_DEADLOCK FALSE` appears where the system really stops: a mixed cache that
is full refuses every append and has no other operation.

Fairness. `server_liveness` runs under `CancelFairSpec`, which schedules only the
thread that cancels: `CancelsReturn` needs no more, and would not hold if a cancel
waited for the engine. `EngineIsReleased` takes the rest as its hypothesis
(`HolderFairness`): the engine's own steps and the steps of the thread that holds
the mutex are weakly fair, i.e. threads are scheduled, the executor returns, peers
read what is written to them (the sockets have no timeout). Nothing is assumed of
who gets the mutex next, because `std::sync::Mutex` promises nothing; hence no
property says that a queued operation is served. `recovery` checks its liveness
under `ResumeSpec`: processes that run go on, and the operator keeps starting the
runner with `--resume`, as `training/README.md:532-541` describes; failures, manual
runs and clean-ups are not fair and happen finitely often.

## 4. Proofs

All for every value of the constants that satisfies the named assumptions.

**EngineProofs.** `ExecutorAssumption` (positive context, executor at least as
deep as the profile) and `EngineAssumption` (`NoSession` is not a session, MTP
capability agrees with the depth). The properties are not inductive: that the
record agrees with the executor between calls depends on what holds inside a call.
`EngineInv` adds it in named parts:
`LifecycleInv` (lifecycle, session, sampler, artifact move together),
`CallInv` (which calls run in which lifecycle),
`CleanInv` (the executor is empty until prefill reaches it),
`PositionInv` (how far the executor is ahead of the record at each point of a
decode, and that the reserved block fits). `StepType` and `StepInv` go action by
action; `Invariance` concludes. From it: `TypeCorrect`, `SessionAgreement`,
`CleanStart`, `Admission`, `UnloadGuarantee`, the action properties
`UnloadFinality` and `NoPartialSession`, and the refinement `Implementation`
(initial states map to initial states, every step to a contract step or a
stutter).

**KvRetentionProofs.** `WindowStaysQ4`: anything that implements the contract
reads sink and window at Q4, through branches, rollbacks and failures.

**MixedKvCacheProofs.** `PrecisionStaysExact`: exactly the tokens between sink
and window are at Q2, for every policy and capacity. It rests on `Requantizing`:
the one candidate of an append is the one token that leaves the window.
`MixedImplementsRetention` is the refinement.

**EngineServerProofs.** `ServerInv` says, for every operation that is in progress,
at which point its thread is, which token the registry holds for it and whether the
mutex is held, and relates the generation that streams to the engine's session.
Every step of the server is a step of `Engine` or leaves the engine alone, so
`EngineInv` is taken over instead of being proved again. From it: `Registry`,
`CancelsAreExact`, `CancelInTheQueueWins`, `SessionOwnership`, and the action
properties `CancelledInTheQueue` and `GenerationsEndClean`. `Numbers` has a
hypothesis, `OneTokenClient`, because only then does the code number tokens (see
section 6); the run `server_safety` meets it.

**CudaExecutorProofs**, first the ring of Q4 pages. Under `PagedAssumption` (whole pages, as the graph demands of
its geometry). `RingIsEnough`: the pages one append packs, demotes or reads at Q4
lie less than a ring apart, so no two of them share a slot. `AppendKeepsEveryRow`:
if every committed row is intact before an append that is not undone, every row
including the new one is intact after it; a row that stays at Q4 keeps its slot, a
row that leaves the window is copied in the same append, a row at Q2 is not
touched. Rollbacks are outside these two theorems on purpose: finding 4
is the case they exclude.

Then the executor, for every geometry, batch width, chunk, draft depth and
failure. Effect lemmas say, for each method of the graph, what becomes of each
counter of each owner; `CudaInv` then has one part for each phase of a call: at
rest, in a prompt, in a branch, and emptied by a reset. From it: `OwnersAlwaysAgree`,
`BranchesAreWhole`, `CancelledCallsUndo`. `DamageInv` is about rows: every committed
row can be read, or its page was overwritten by a branch that was taken back, or its
owner was fed from a stale hidden vector or by an earlier capture. Inside a branch it
is not enough to speak of the tokens it holds: what a rollback will bring back must be
intact as well, except where `overwritten` says so; that strengthening, and the two
theorems about the ring, give `DamageAlwaysConfined`.

`CudaImplementsExecutor` is the refinement of the contract. The contract speaks of the
answers a caller got (`reported`), the invariant so far of the graph; `ReportedInv` ties
the two: a model is there for every call; `position` is where the target is, less the
drafts of a branch; and until a commit or its replay has answered, the position that was
promised is the old one and the accepted drafts. Each step of the executor then is a
step of the contract (an answer, a failure, a change of the model's life) or leaves its
variables alone (a chunk, a seed, a candidate, a replayed token, of which the caller
sees nothing).

**RecoveryRunnerProofs.** `AbsentAssumption` says that "no such file" is not the
content of a file. `RecoveryInv` has the steps of the commit protocol
(`TransactionInv`: which files exist at each point of the trainer), which processes
run beside which state of the runner (`ProcessInv`), and that an output which nobody
recorded yet belongs to the stage after the recorded ones and was made from what they
record (`ArtifactInv`); the last is what makes a record hold after a clean-up by hand.
From it: `CommitMarker` and `RecordsAlwaysHold`.
`ResumedIsUninterrupted` is about training itself, for every number of samples and
epochs, every accumulation and checkpoint interval and every set of oversized samples
that leaves one to train. `InStep` relates a cursor, the open group and the parameters:
what was applied is the uninterrupted run up to here, the open group is what follows
in it, and only the group that ends an epoch is short. `TrainingInv` says it of the
trainer and of every checkpoint; the lemmas count the samples that are kept
(`SampleOfItsCount`) and divide an epoch into groups (`GroupIs`, `GroupContinues`).
`LeastNatural` (a nonempty set of numbers has a least element) takes the place of
induction where a maximum has to exist.

**MetalExecutorProofs**, the attention owner. For every policy, value and order of
failures. `MetalInv` has
the metadata (`BookInv`: every page but the last is full), the pool (`Partition` and
`SlotInv`: each slot is free once or backs one page, the backed pages are those at Q4,
a page at Q2 is full and never written again) and the branch (`MarkInv`: what a rollback
returns to is a state as good as the present one, and the branch took slots from its
pool only). The last is what makes a rollback without copies right: no slot that the
base of a branch reads is free inside the branch. From it: `SlotsStayPartitioned` and
`BranchesReturn` (a restore is never refused). `OrdinaryAppendsFit` counts the pages of
sink and window (`KeptPages`) against the slots of the pool. `MetalImplementsRetention`
compares what attention reads through the descriptors before and after an append
(`AppendShows`), also from the base of an open branch (`BranchStays`).

`PoliciesAssumption` says that a policy with a window has a sink of whole pages.
`cache_config` (`metal_executor.rs:214-232`), the only caller outside the tests, gives
no other: a window begins behind a sink of two pages. `prepare` itself does not ask for
it, and the theorem needs it: it rounds the sink down, so that with 5 tokens in pages of
2, a sink of 1 and a window of 2 the append of the fifth token finds the pool empty.

**MetalExecutorProofs**, the executor. For every context, policy, draft depth, prompt
and drafts, and every order of calls, cancellations and failures. `OwnerInTheExecutor`
comes first: whatever the executor does to its attention owner is a step of that owner,
so that `MetalInv` and all that was proved from it hold there. Of the owner the rest of
the argument uses only what it shows to its callers: its rows (`TargetRows`) and the
rows a rollback returns to (`Base`), which an append extends or leaves and a restore
exchanges (`RowsAreSeen`, `BaseStays`).

`ExecutorInv` says what all owners hold, one part per place a call can be at:
- between calls (`IdleInv`) no branch is open and every owner holds exactly the tokens
  answered and acknowledged, MTP one behind; after a call that failed (`Settled`) they
  do so at one prefix of the target, unless a mark (a poisoned owner, a checkpoint of the
  hidden vector that nobody took) says that a rollback was not complete;
- in a call (`WorkingInv`) what was consumed (`done`) and what the branches to come
  consume and keep (`rest`) make up what will be answered; `Phase` has the owners at
  `done` before a branch begins, at `done` and a part of its tokens while it is encoded,
  at all of them before it is kept or rejected, and its base at `done` throughout;
- before the method returns the owners hold the answer (`select`), or the call was
  stopped and what it leaves is settled (`stop`).

`MetalOwnersAgree` alone is not inductive: it speaks of sessions between calls, and that
a rollback reaches the answered tokens again rests on what `Phase` says of the base. A
fused block is rejected only after every owner ran it, so `Consumes` keeps the tokens of
the replay apart from those of the block. The transitions of a block share one command
buffer, and none may take the descriptors of another: `BlocksAreDescribed` counts
positions modulo the descriptor sets, of which there is one more than drafts.
From it: `MetalOwnersAlwaysAgree`, `TransactionsAreWhole` and the refinement
`MetalImplementsExecutor`. `StatesAssumption` (`MetalTransaction`) says that a state nobody
knows (`Junk`) is not one that consumed a known sequence of tokens: it is about the names
the model gives to states, not about the code.

**CpuExecutorProofs.** For every capacity, policy, context, draft depth and prompt.
What a reader of the paged cache gets is `FlattenSeq` of its pages, which is recursive
in the library; `Flattened` gives its closed form for pages of which all but the last
are full (the argument is by the least counterexample, `LeastNatural`, in the place of
induction). `PagedInv` has the pages (`BookInv`), a checkpoint (`MarkInv`: the bytes it
recorded of the last page are whole tokens at that page's precision, a page of a branch
is not demoted; the part that is about test builds) and what a rollback would leave (`Cut`). From it `PagesAlwaysCover`, and
`PagedImplementsRetention` reads the same token at the same place before and after a
demotion, and from the base of a branch.

`PushAlwaysSettlesTheBudget` compares two sums: what the cache counts page by page and
what `projected_packed_bytes` computed from the length alone. The folds of the library
over pages and over tokens are tables of partial sums (`SumTable`, one exists by
`SumExists`, and the fold is its last entry by `SumIs`). After a demotion every page is
settled, Q2 exactly when it lies outside sink and window; hence both sums are the bytes
of a Q4 token times the hot tokens plus those of a Q2 token times the cold ones. The hot
tokens lie in the sink or are among the last `recent_tokens` and one page less a token,
which is the bound on Q4 tokens.

`CpuInv` has one part per phase of a method: `ConsumingInv` (what was consumed and what
is still to be consumed make up what will be answered, and every owner holds the former),
`SpeculatingInv` (how far the clones are ahead) and `IdleInv`. From it
`CpuOwnersAlwaysAgree`, `BoundsNeverBite`, the refinement `CpuImplementsExecutor`, and
`CacheInTheExecutor`: what the executor does to the cache are steps of the cache, so the
theorems about the cache hold of it there.

Only model-checked: everything about liveness (`CancelsReturn`, `EngineIsReleased`,
`ResumingEnds`), because the prover has no rule for fairness and ENABLED. Every safety
property of a run that passes is stated by a theorem.

## 5. Findings

1. **Residue is forgotten** (`engine.rs:750`, run `engine_residue`). An unload
   that leaves bytes allocated enters UnloadFailed; `reset_session` accepts that
   lifecycle and, when the executor's reset succeeds, sets Warm without reading
   the allocation counters. `models/qwen38_27b/README.md:390-392` says any residual byte leaves the
   executor in `unload_failed`.
2. **A refused generation resets another client's session** (`server.rs:900`, run
   `server_foreign_reset`). `run_response_generation` resets the engine whatever
   its prefill returned, also when it was refused because another session is
   active. The reset handler compares ids and refuses exactly this
   (`server.rs:531`), and `docs/WIRE_PROTOCOL_V1.md` binds state to session ids.
3. **The boundary slot is not there** (`metal_runtime.rs:1950`, run
   `metal_boundary_slot`). `begin_speculative` needs a free Q4 slot and its
   comment says the extra slot guarantees one; the page that straddles the window
   has taken it. In the production shape the pool is empty whenever the token
   count is not a multiple of the page size. The Metal executor opens a branch
   for every token (`metal_runtime.rs:12333`) and a branch never demotes, so
   there the pool only empties: with pages of 64, a sink of 128 and 384 retained
   tokens the seven slots are used up after 385 tokens or so.
4. **A rejected branch leaves its rows in the ring** (`cuda_runtime.rs:6919`, run
   `cuda_undone_branch`). Serial drafts append one row at a time; a draft that
   enters a new page packs it into the ring slot of a page that the base of the
   branch still reads at Q4. The rollback restores counters only. With pages of
   128, a sink of 128, a window of 256 and a ring of 3, a branch opened at 511
   tokens puts page 4 into the slot of page 1. `docs/CUDA_KERNEL_NOTES.md:388-391`
   and the comment at `cuda_runtime.rs:12391-12397` say metadata rollback suffices
   because no write aliases a live page. The alias guard of block appends tests the
   pages live at the crossing, not at the base, and serial drafts do not run it.

Observations that are not findings, because no line of the repository claims
otherwise or because no property was given to them:

- CUDA: the captured verification takes the host position of the moment of capture
  (`cuda_graph.rs:4653`); a fully accepted captured block leaves the target hidden
  of an earlier row (`cuda_graph.rs:4956`); a reset that fails halfway leaves the
  graph healthy (`cuda_graph.rs:3294`); `verify_greedy_mtp` can fail in
  `engine.rs:698` without the session being invalidated.
- Metal: only the unload that drops the model measures the allocator; a repeated one
  reports zero whatever is left (`metal_executor.rs:953`). After a rejected block
  whose replay stopped, the owners are poisoned although they hold a common prefix;
  the caller has to reset in any case.
- CPU: a decode cancelled between two drafts leaves position and MTP cache one token
  ahead of the hidden vector (`decoder.rs:1346`); every counter check would accept the
  next decode. Only the engine's rule to drop the session after an error excludes it.
- Recovery: `CHECKPOINT_PATTERN` does not match `recovery-final-step-N`, so that
  after a crash between the final checkpoint and the evidence the runner resumes an
  earlier checkpoint and is refused for ever by `train_recovery.py:529`.
  `ResumingEnds` names this as the one place where an operator is needed
  (`NeedsAnOperator`). The number of skipped samples is not in a checkpoint: under
  the policy `skip` a resumed run reports a complete pass (admitted plans use
  `fail`). A bounded run that is resumed at its bound trains one more group
  (`train_recovery.py:388`).

## 6. Not modelled

- Kernels, graph capture, buffer layout, quantization error, sampling
  distribution: numeric, or outside what states can say.
- Artifact, loader, release, tensor contract, tokenizer, memory and roofline
  arithmetic: checks of immutable inputs, without interleaving.
- CPU: the dense storage of geometries other than the model's, refusals that the engine
  never meets (a decode without a session, more accepted drafts than candidates).
- Metal: the threaded adapter, `select_target_token` with a temperature, a load that
  fails, the verifier-only dispatches, and `PreparedMetalSpeculativeTransaction`,
  which only tests use. Plans that fail inside a branch: a branch begins with a free
  slot and, with pages no shorter than a block, needs at most that one.
- CUDA: the threaded adapter (one command at a time, as the engine's `&mut self`
  already has it), `select_target_token`, gathered verification, failures of load.
- Recovery: loss values, `--max-optimizer-steps` and `--sample-limit`, the resume
  policy of release preparation, a trainer that outlives a killed runner, and the
  teacher cache.
- Wire formats, health and capabilities answers, metrics: no state depends on
  them. Which token completes a character is a choice.
- More than one token-ID client on one engine: the counter that numbers tokens
  belongs to the server and the protocol promises nothing for it, so
  `IndicesFollowTheSession` is stated for one.
- Poisoned mutexes: a panic inside a handler is not modelled.

## 7. Plan

1. The threaded adapters of the executors with their channels.
2. A teacher-batch runner with its resume rule, beside the recovery runner.
