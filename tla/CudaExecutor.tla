---------------------------- MODULE CudaExecutor ----------------------------
(***************************************************************************)
(* CudaModelExecutor (cuda_executor.rs), the methods of the ModelExecutor  *)
(* trait over one CudaGraph. A method runs alone; its steps end where it   *)
(* looks at the cancellation token, and every driver call may fail.        *)
(*                                                                         *)
(* The caller is the engine: after a call that was not answered it resets  *)
(* or unloads, it prefills without a session and decodes within one, and   *)
(* it commits the branch a decode has left with the accepted drafts.       *)
(***************************************************************************)
EXTENDS CudaGraph

CONSTANTS
  Drafts,          \* admitted_draft_tokens of the profile
  PromptLengths,   \* bound: lengths of the prompts a caller sends
  OutputModes      \* the CudaMtpOutputMode values of a run

ASSUME ExecutorAssumption ==
  /\ Drafts \in 1 .. MaximumDrafts
  /\ PromptLengths \subseteq 1 .. MaximumTokens
  /\ OutputModes \subseteq {"CompactGreedy", "FullVerifierLogits"}

VARIABLES
  model,             \* the fields runtime, graph and warmed
  mtp_output_mode,
  seeded,            \* mtp4_session_seeded
  pending,           \* pending_speculative: << >> or one branch
  graph,
  call,              \* the method under way, between two looks at the token
  result,            \* of the last method
  session,           \* the caller's: none, open, or lost by a failed call
  reported           \* history: the state the answers so far imply, and the
                     \* tokens it must hold once the branch is resolved

vars == <<model, mtp_output_mode, seeded, pending, graph, call, result, session, reported>>

IdleCall == [at |-> "idle", total |-> 0, accepted |-> 0, done |-> 0]

\* Fields that only some steps of a call use are 0 elsewhere.
Call == [at : {"idle", "chunk", "seed", "block", "first", "serial", "replay"},
         total : Count, accepted : 0 .. MaximumDrafts, done : 0 .. MaximumDrafts + 2]

Pending == [kind : {"Serial", "CapturedMtp4"}, drafts : 1 .. Drafts, accepted : 0 .. Drafts]

CudaTypeOK ==
  /\ model \in {"new", "resident", "warm", "unloaded"}
  /\ mtp_output_mode \in OutputModes
  /\ seeded \in BOOLEAN
  /\ pending \in {<< >>} \cup {<<p>> : p \in Pending}
  /\ graph \in Graph
  /\ call \in Call
  /\ result \in {"none", "ok", "cancelled", "error"}
  /\ session \in [status : {"none", "open", "lost"}, mtp : BOOLEAN]
  /\ reported \in [position : Count, pending : 0 .. Drafts, state : {"whole", "partial"},
                   promised : Count]

Untouched == [position |-> 0, pending |-> 0, state |-> "whole", promised |-> 0]

CudaInit ==
  /\ model = "new" /\ mtp_output_mode \in OutputModes
  /\ seeded = FALSE /\ pending = << >> /\ graph = FreshGraph
  /\ call = IdleCall /\ result = "none"
  /\ session = [status |-> "none", mtp |-> FALSE]
  /\ reported = Untouched

-----------------------------------------------------------------------------
(* How a method returns *)

Idle == call.at = "idle"

AnswerOk ==
  /\ call' = IdleCall /\ result' = "ok"
  /\ session' = [session EXCEPT !.status = "open"]
  /\ reported' =
       LET drafts == IF pending' = << >> THEN 0 ELSE pending'[1].drafts
           accepted == IF pending' = << >> THEN 0 ELSE pending'[1].accepted
           position == graph'.target_tokens - drafts
       IN  [position |-> position, pending |-> drafts, state |-> "whole",
            promised |-> IF reported.pending > 0 THEN reported.promised ELSE position + accepted]

AnswerError(outcome) ==
  /\ call' = IdleCall /\ result' = outcome
  /\ session' = [session EXCEPT !.status = "lost"]
  /\ reported' = [reported EXCEPT !.pending = 0, !.state = "partial"]

\* A graph call that is refused leaves the graph, one that fails breaks it.
Fails(admitted, broken) ==
  /\ graph' \in IF admitted THEN broken ELSE {graph}
  /\ AnswerError("error")

\* restore_speculative_branch on the way out, from a graph the call reached.
RollBack(g, outcome) ==
  \/ graph' = Restored(g) /\ AnswerError(outcome)
  \/ graph' \in RestoreBroken(g) /\ AnswerError("error")

Continue(step) ==
  /\ call' = step
  /\ UNCHANGED <<result, session, reported>>

ExecutorUnchanged == UNCHANGED <<model, mtp_output_mode, seeded, pending>>

-----------------------------------------------------------------------------
(* prefill *)

Prefill ==
  /\ Idle /\ model = "warm" /\ session.status = "none"
  /\ \E n \in PromptLengths, mtp \in BOOLEAN :
       \/ /\ graph' = Reset(graph) /\ seeded' = FALSE
          /\ call' = [IdleCall EXCEPT !.at = "chunk", !.total = n]
          /\ session' = [session EXCEPT !.mtp = mtp]
          /\ UNCHANGED <<result, reported>>
       \/ graph' \in ResetBroken(graph) /\ AnswerError("error") /\ UNCHANGED seeded
       \/ AnswerError("cancelled") /\ UNCHANGED <<graph, seeded>>
  /\ UNCHANGED <<model, mtp_output_mode, pending>>

PrefillChunk ==
  /\ call.at = "chunk"
  /\ ExecutorUnchanged
  /\ LET n == Smaller(ChunkTokens, call.total - graph.target_tokens)
         admitted == PrefillAdmitted(graph, n, session.mtp)
         prefilled == Prefilled(graph, n, session.mtp)
     IN  \/ /\ admitted
            /\ graph' = prefilled
            /\ IF graph'.target_tokens = call.total THEN AnswerOk ELSE Continue(call)
         \/ Fails(admitted, PrefillBroken(graph, n, session.mtp) \cup {prefilled})

PrefillCancelled ==
  /\ call.at = "chunk"
  /\ \/ graph' = Reset(graph) /\ AnswerError("cancelled")
     \/ graph' \in ResetBroken(graph) /\ AnswerError("error")
  /\ ExecutorUnchanged

-----------------------------------------------------------------------------
(* decode *)

DraftCount ==
  IF session.mtp THEN Smaller(Drafts, SaturatingSub(MaximumTokens, graph.target_tokens + 1))
  ELSE 0

CanDecode == Idle /\ model = "warm" /\ session.status = "open" /\ pending = << >>

HasRoom == graph.target_tokens < MaximumTokens /\ (session.mtp => DraftCount > 0)

TakesCapturedPath ==
  session.mtp /\ DraftCount = MaximumDrafts /\ mtp_output_mode = "CompactGreedy"

\* Which drafts the target will accept is the model's choice, made here.
Decode ==
  /\ CanDecode
  /\ HasRoom
  /\ IF TakesCapturedPath
     THEN Continue([IdleCall EXCEPT !.at = IF seeded THEN "block" ELSE "seed"])
     ELSE \E accepted \in 0 .. DraftCount :
            Continue([at |-> "first", total |-> DraftCount, accepted |-> accepted, done |-> 0])
  /\ UNCHANGED graph /\ ExecutorUnchanged

DecodeRefused ==
  /\ CanDecode
  /\ \/ AnswerError("cancelled")
     \/ ~HasRoom /\ AnswerError("error")
  /\ UNCHANGED graph /\ ExecutorUnchanged

\* The graphs a session needs, in the order of their capture; the target one
\* is captured anew for every session.
SeedOrder == <<"target", "mtp", "drafts", "verify">>

NeedsCapture(program) == program = "target" \/ program \notin graph.captured

CaptureAdmitted(program) ==
  CASE program = "target" -> CaptureTargetAdmitted(graph)
    [] program = "verify" -> CaptureVerifyAdmitted(graph)
    [] OTHER -> CaptureMtpAdmitted(graph)

CapturedWith(program) ==
  CASE program = "target" -> CaptureTarget(graph)
    [] program = "verify" -> CaptureVerify(graph)
    [] OTHER -> CaptureMtp(graph, program)

CaptureBroken(program) ==
  CASE program = "target" -> CaptureTargetBroken(graph)
    [] program = "verify" -> CaptureVerifyBroken(graph)
    [] OTHER -> CaptureMtpBroken(graph, program)

Seed ==
  /\ call.at = "seed"
  /\ LET program == SeedOrder[call.done + 1]
         last == call.done + 1 = Len(SeedOrder)
     IN  \/ /\ graph' = IF NeedsCapture(program) THEN CapturedWith(program) ELSE graph
            /\ NeedsCapture(program) => CaptureAdmitted(program)
            /\ seeded' = last
            /\ Continue(IF last THEN [IdleCall EXCEPT !.at = "block"]
                        ELSE [call EXCEPT !.done = @ + 1])
         \/ /\ NeedsCapture(program)
            /\ Fails(CaptureAdmitted(program), CaptureBroken(program))
            /\ UNCHANGED seeded
  /\ UNCHANGED <<model, mtp_output_mode, pending>>

\* Drafts, verifier and the read of the accepted count, as one submission.
CapturedBlock ==
  /\ call.at = "block"
  /\ LaunchDraftsAdmitted(Begun(graph)) /\ BeginAdmitted(graph)
  /\ \E accepted \in 0 .. MaximumDrafts :
       LET drafted == LaunchDrafts(Begun(graph), accepted)
       IN  /\ LaunchVerifyAdmitted(drafted)
           /\ graph' = LaunchVerify(drafted, accepted)
           /\ pending' = <<[kind |-> "CapturedMtp4", drafts |-> MaximumDrafts,
                            accepted |-> accepted]>>
  /\ AnswerOk
  /\ UNCHANGED <<model, mtp_output_mode, seeded>>

CapturedBlockFails ==
  /\ call.at = "block"
  /\ \/ Fails(BeginAdmitted(graph), BeginBroken(graph))
     \/ /\ BeginAdmitted(graph)
        /\ LET drafted == LaunchDrafts(Begun(graph), 0)
           IN  \E reached \in {Begun(graph), drafted, LaunchVerify(drafted, 0)} :
                 RollBack(reached, "error")
  /\ ExecutorUnchanged

-----------------------------------------------------------------------------
(* decode without the captured block *)

\* The given token: MTP first, then the target, then the branch.
FirstToken ==
  /\ call.at = "first"
  /\ ExecutorUnchanged
  /\ LET row == graph.target_tokens
         drafted == IF session.mtp THEN MtpToken(graph, row) ELSE graph
         computed == TargetToken(drafted, row)
     IN  /\ session.mtp => MtpAdmitted(graph)
         /\ TargetAdmitted(drafted)
         /\ IF session.mtp
            THEN /\ BeginAdmitted(computed)
                 /\ graph' = Begun(computed)
                 /\ Continue([call EXCEPT !.at = "serial"])
            ELSE graph' = computed /\ AnswerOk

FirstTokenFails ==
  /\ call.at = "first"
  /\ LET row == graph.target_tokens
         drafted == IF session.mtp THEN MtpToken(graph, row) ELSE graph
     IN  \/ session.mtp /\ Fails(MtpAdmitted(graph), MtpTokenBroken(graph, row))
         \/ Fails(TRUE, {drafted, TargetToken(drafted, row)} \cup TargetTokenBroken(drafted, row))
  /\ ExecutorUnchanged

CandidateRow == IF call.done < call.accepted THEN graph.target_tokens ELSE Junk

Pair(g, row) == TargetToken(MtpToken(g, row), row)

PairAdmitted(g) == MtpAdmitted(g) /\ TargetAdmitted(g)

PairBroken(g, row) ==
  MtpTokenBroken(g, row) \cup TargetTokenBroken(MtpToken(g, row), row)
    \cup {MtpToken(g, row), Pair(g, row)}

SerialCandidate ==
  /\ call.at = "serial"
  /\ PairAdmitted(graph)
  /\ graph' = Pair(graph, CandidateRow)
  /\ IF call.done + 1 < call.total
     THEN Continue([call EXCEPT !.done = @ + 1]) /\ UNCHANGED pending
     ELSE /\ pending' = <<[kind |-> "Serial", drafts |-> call.total, accepted |-> call.accepted]>>
          /\ AnswerOk
  /\ UNCHANGED <<model, mtp_output_mode, seeded>>

\* A failed candidate returns at once: the branch stays open.
SerialCandidateFails ==
  /\ call.at = "serial"
  /\ Fails(PairAdmitted(graph), PairBroken(graph, CandidateRow))
  /\ ExecutorUnchanged

\* Slip: the branch is left to the reset that follows.
SerialCancelledWithoutRestore ==
  /\ call.at = "serial"
  /\ UNCHANGED graph /\ AnswerError("cancelled")
  /\ ExecutorUnchanged

SerialCancelled ==
  /\ call.at = "serial"
  /\ RollBack(graph, "cancelled")
  /\ ExecutorUnchanged

-----------------------------------------------------------------------------
(* commit_speculative. The branch is taken from pending first, whatever     *)
(* happens then.                                                            *)

\* A caller other than the engine may name more drafts than there are.
CommitDepths(branch) == {branch.accepted, branch.drafts + 1}

CanCommit == Idle /\ model = "warm" /\ session.status = "open" /\ pending # << >>

CommitCancelled ==
  /\ CanCommit
  /\ pending' = << >>
  /\ RollBack(graph, "cancelled")
  /\ UNCHANGED <<model, mtp_output_mode, seeded>>

CommitRefused ==
  /\ CanCommit
  /\ \E k \in CommitDepths(pending[1]) : k > pending[1].drafts
  /\ pending' = << >>
  /\ RollBack(graph, "error")
  /\ UNCHANGED <<model, mtp_output_mode, seeded>>

CommitCaptured ==
  /\ CanCommit /\ pending[1].kind = "CapturedMtp4"
  /\ pending' = << >>
  /\ LET k == pending[1].accepted
     IN  \/ ResolveAdmitted(graph, k) /\ graph' = Resolve(graph, k) /\ AnswerOk
         \/ Fails(ResolveAdmitted(graph, k), ResolveBroken(graph, k))
  /\ UNCHANGED <<model, mtp_output_mode, seeded>>

CommitWhole ==
  /\ CanCommit /\ pending[1].kind = "Serial" /\ pending[1].accepted = pending[1].drafts
  /\ pending' = << >>
  /\ \/ CommitAdmitted(graph) /\ graph' = Committed(graph) /\ AnswerOk
     \/ Fails(CommitAdmitted(graph), CommitBroken(graph))
  /\ UNCHANGED <<model, mtp_output_mode, seeded>>

\* Restored; a prefix is replayed in a branch of its own.
CommitPrefix ==
  /\ CanCommit /\ pending[1].kind = "Serial" /\ pending[1].accepted < pending[1].drafts
  /\ pending' = << >>
  /\ LET k == pending[1].accepted
         restored == Restored(graph)
     IN  \/ k = 0 /\ graph' = restored /\ AnswerOk
         \/ /\ k > 0 /\ BeginAdmitted(restored) /\ graph' = Begun(restored)
            /\ Continue([IdleCall EXCEPT !.at = "replay", !.accepted = k])
         \/ Fails(RestoreAdmitted(graph), RestoreBroken(graph))
         \/ k > 0 /\ Fails(TRUE, BeginBroken(restored))
  /\ UNCHANGED <<model, mtp_output_mode, seeded>>

Replay ==
  /\ call.at = "replay" /\ call.done < call.accepted
  /\ PairAdmitted(graph)
  /\ graph' = Pair(graph, CandidateRow)
  /\ Continue([call EXCEPT !.done = @ + 1])
  /\ ExecutorUnchanged

ReplayStops ==
  /\ call.at = "replay" /\ call.done < call.accepted
  /\ \/ RollBack(graph, "cancelled")
     \/ \E reached \in PairBroken(graph, CandidateRow) : RollBack(reached, "error")
  /\ ExecutorUnchanged

ReplayEnds ==
  /\ call.at = "replay" /\ call.done = call.accepted
  /\ ExecutorUnchanged
  /\ \/ CommitAdmitted(graph) /\ graph' = Committed(graph) /\ AnswerOk
     \/ Fails(CommitAdmitted(graph), CommitBroken(graph))

-----------------------------------------------------------------------------
(* load, warmup, reset_session and unload *)

\* unload takes the runtime, so an executor is loaded once.
Load ==
  /\ Idle /\ model = "new" /\ model' = "resident" /\ result' = "ok"
  /\ UNCHANGED <<mtp_output_mode, seeded, pending, graph, call, session, reported>>

Warmup ==
  /\ Idle /\ model = "resident" /\ model' = "warm" /\ result' = "ok"
  /\ UNCHANGED <<mtp_output_mode, seeded, pending, graph, call, session, reported>>

ResetSession ==
  /\ Idle
  /\ pending' = << >> /\ seeded' = FALSE
  /\ \/ /\ graph' = Reset(graph) /\ result' = "ok"
        /\ session' = [status |-> "none", mtp |-> FALSE]
        /\ reported' = Untouched
        /\ UNCHANGED call
     \/ /\ model \in {"resident", "warm"}
        /\ graph' \in ResetBroken(graph) /\ AnswerError("error")
  /\ UNCHANGED <<model, mtp_output_mode>>

\* The error reports a drift of free memory; the graph is dropped either way.
Unload ==
  /\ Idle
  /\ model' = "unloaded" /\ graph' = FreshGraph
  /\ pending' = << >> /\ seeded' = FALSE
  /\ result' \in {"ok"} \cup (IF model = "resident" \/ model = "warm" THEN {"error"} ELSE {})
  /\ session' = [status |-> "none", mtp |-> FALSE]
  /\ reported' = Untouched
  /\ UNCHANGED <<mtp_output_mode, call>>

-----------------------------------------------------------------------------

CudaNext ==
  \/ Load \/ Warmup \/ ResetSession \/ Unload
  \/ Prefill \/ PrefillChunk \/ PrefillCancelled
  \/ Decode \/ DecodeRefused \/ Seed \/ CapturedBlock \/ CapturedBlockFails
  \/ FirstToken \/ FirstTokenFails
  \/ SerialCandidate \/ SerialCandidateFails \/ SerialCancelled
  \/ CommitCancelled \/ CommitRefused \/ CommitCaptured \/ CommitWhole \/ CommitPrefix
  \/ Replay \/ ReplayStops \/ ReplayEnds

CudaSpec == CudaInit /\ [][CudaNext]_vars

-----------------------------------------------------------------------------
(* Properties *)

InSession == Idle /\ session.status = "open"
Settled == InSession /\ pending = << >>

BlockTokens == MaximumDrafts + 1

(* Between two calls of a live session every owner of state agrees: the     *)
(* host counters, the counters in the KV owners, the positions in device    *)
(* memory and, once no branch is pending, the recurrent state, and all hold *)
(* the token given and exactly the accepted drafts. MTP is one token        *)
(* behind. The retained hidden vector may lag by whole blocks: the captured *)
(* verifier leaves it behind when all of a block is accepted.               *)
OwnersAgree ==
  /\ CudaTypeOK
  /\ InSession =>
       /\ Healthy(graph)
       /\ graph.mtp_tokens = IF session.mtp THEN graph.target_tokens - 1 ELSE 0
       /\ \A l \in Layers :
            LET tokens == IF l = "target" THEN graph.target_tokens ELSE graph.mtp_tokens
            IN  /\ graph.kv[l].tokens = tokens /\ ~graph.kv[l].poisoned
                /\ graph.position[l] = tokens
       /\ Branched(graph) = (pending # << >>)
       /\ pending = << >> =>
            /\ graph.target_tokens = reported.promised
            /\ graph.mixers.state = graph.target_tokens
            /\ session.mtp =>
                 /\ graph.hidden.state # Junk
                 /\ (graph.target_tokens - graph.hidden.state) % BlockTokens = 0
                 /\ mtp_output_mode = "FullVerifierLogits" => graph.hidden.state = graph.target_tokens

(* A branch is over all owners or over none, from the same base: as long    *)
(* as the graph is healthy and no reset has failed, no error path leaves a  *)
(* checkpoint behind that a later begin would trip over.                    *)
BranchIsAllOrNothing ==
  Healthy(graph) /\ session.status # "lost" =>
    IF Branched(graph)
    THEN /\ graph.kv.target.checkpoint = <<graph.speculative_base[1]>>
         /\ graph.kv.mtp.checkpoint = <<graph.speculative_base[2]>>
         /\ graph.mixers.checkpoint = <<graph.speculative_base[1]>>
         /\ graph.hidden.checkpoint # << >>
    ELSE /\ \A l \in Layers : graph.kv[l].checkpoint = << >>
         /\ graph.mixers.checkpoint = << >> /\ graph.hidden.checkpoint = << >>

(* A call that reports Cancelled has put the session back: no branch, no    *)
(* pending record, healthy, MTP one behind and the recurrent state on the   *)
(* committed path.                                                          *)
CancelledCallsLeaveNoBranch ==
  Idle /\ result = "cancelled" =>
    /\ Healthy(graph) /\ ~Branched(graph) /\ pending = << >>
    /\ graph.mixers.state = graph.target_tokens
    /\ graph.kv.target.tokens = graph.target_tokens
    /\ session.mtp /\ graph.target_tokens > 0 => OneAhead(graph)

RowsRead(l) ==
  LET tokens == graph.kv[l].tokens
  IN  [q \in 0 .. tokens - 1 |-> RowRead(graph.kv[l], tokens, q)]

(* What attention reads for a committed token is the row of that token, on  *)
(* either side of the window and in the slot of a ring that later pages     *)
(* take over, except in the pages an undone branch wrote over, and in an    *)
(* owner whose rows came from a stale hidden vector or went to the place of *)
(* an earlier capture.                                                      *)
DamageIsConfined ==
  Settled =>
    \A l \in Layers \ graph.tainted :
      \A q \in DOMAIN RowsRead(l) :
        PageOf(q) \notin graph.overwritten[l] => RowsRead(l)[q] = q

(* docs/CUDA_KERNEL_NOTES.md: restoring the page metadata never refers to   *)
(* overwritten state, so every committed row of the target is intact.       *)
CommittedRowsAreIntact ==
  Settled => \A q \in DOMAIN RowsRead("target") : RowsRead("target")[q] = q

(* The executor answers as the trait promises: one token and a branch for a *)
(* decode, exactly the accepted prefix for a commit.                        *)
Contract ==
  INSTANCE ExecutorContract WITH
    MaxContext <- MaximumTokens, MaxDrafts <- Drafts, ExecutorDrafts <- MaximumDrafts,
    model <- IF model \in {"new", "unloaded"} THEN "absent" ELSE model,
    position <- reported.position, pending <- reported.pending, state <- reported.state

ImplementsExecutor == Contract!ContractSpec

=============================================================================
