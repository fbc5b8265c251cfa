------------------------------ MODULE CudaGraph ------------------------------
(***************************************************************************)
(* The session state of PreparedCudaProjectionGraph (cuda_graph.rs): the   *)
(* target and the MTP layer, their host counters and device positions, the *)
(* recurrent mixers, the retained target hidden vector, the paged KV       *)
(* owners, the branch over all of them, and the captured CUDA graphs.      *)
(*                                                                         *)
(* The graph is a record. An operation on it has up to three operators:    *)
(* when it is admitted, the graph it returns, and the graphs it may leave  *)
(* when a driver call fails on the way ("...Broken"). One KV owner stands  *)
(* for the sixteen target layers and one mixer for the forty-eight linear  *)
(* layers: a call reaches all of a kind or none.                           *)
(***************************************************************************)
EXTENDS CudaGraphKv

CONSTANTS
  MaximumDrafts,   \* MAXIMUM_CHAINED_MTP_DRAFTS: the width of a captured block
  ChunkTokens      \* PreparedCudaPrefillWorkspaces::max_chunk_tokens

ASSUME GraphAssumption == MaximumDrafts \in Nat \ {0} /\ ChunkTokens \in Nat \ {0}

-----------------------------------------------------------------------------
(* State *)

Layers == {"target", "mtp"}
Programs == {"target", "mtp", "drafts", "verify"}
Count == 0 .. MaximumTokens

\* A device buffer with a device checkpoint, by the tokens it has seen.
Buffer == [state : Count \cup {Junk}, checkpoint : {<< >>} \cup {<<c>> : c \in Count \cup {Junk}}]
EmptyBuffer == [state |-> 0, checkpoint |-> << >>]

Graph ==
  [target_tokens : Count, mtp_tokens : Count,
   poisoned : BOOLEAN, mtp_poisoned : BOOLEAN,
   speculative_base : {<< >>} \cup {<<t, m>> : t \in Count, m \in Count},
   mixers : Buffer,
   hidden : Buffer,               \* of the last target token: counted by it
   kv : [Layers -> Owner],
   position : [Layers -> Count],  \* in device memory, read by the kernels
   captured : SUBSET Programs,
   verify_base : {<< >>} \cup {<<t>> : t \in Count},  \* baked into "verify"
   overwritten : [Layers -> SUBSET Pages],  \* history: pages an undone branch wrote over
   tainted : SUBSET Layers]                 \* history: rows of a stale input or place

FreshGraph ==
  [target_tokens |-> 0, mtp_tokens |-> 0, poisoned |-> FALSE, mtp_poisoned |-> FALSE,
   speculative_base |-> << >>, mixers |-> EmptyBuffer, hidden |-> EmptyBuffer,
   kv |-> [l \in Layers |-> EmptyOwner], position |-> [l \in Layers |-> 0],
   captured |-> {}, verify_base |-> << >>,
   overwritten |-> [l \in Layers |-> {}], tainted |-> {}]

Healthy(g) == ~g.poisoned /\ ~g.mtp_poisoned
Branched(g) == g.speculative_base # << >>
OneAhead(g) == g.target_tokens = g.mtp_tokens + 1

-----------------------------------------------------------------------------
(* Kernels. A row is the position of its token, or Junk off the path.       *)

After(row) == IF row = Junk THEN Junk ELSE row + 1

\* Recurrent state is right only as long as it consumes the very next token.
Consumed(state, rows) ==
  IF state # Junk /\ \A i \in DOMAIN rows : rows[i] = state + i - 1
  THEN state + Len(rows) ELSE Junk

TargetKernels(g, start, rows) ==
  [g EXCEPT !.kv.target = Recorded(AppendRows(@, start, rows), Len(rows)),
            !.mixers.state = Consumed(@, rows),
            !.position.target = start + Len(rows)]

MtpKernels(g, start, rows) ==
  [g EXCEPT !.kv.mtp = Recorded(AppendRows(@, start, rows), Len(rows)),
            !.position.mtp = start + Len(rows)]

\* The cache row of the MTP layer for the token at position: it needs the
\* target hidden vector of the token before.
MtpRow(hidden, position) == IF hidden = position THEN position - 1 ELSE Junk

\* n rows from a position on: the first takes the retained hidden vector, the
\* others that of the row before.
MtpRows(hidden, first, n) ==
  [i \in 1 .. n |->
     MtpRow(IF i = 1 THEN hidden ELSE first + i - 1, first + i - 1)]

-----------------------------------------------------------------------------
(* Prompt chunks *)

PrefillAdmitted(g, n, mtp) ==
  /\ ~g.poisoned /\ ~(mtp /\ g.mtp_poisoned) /\ ~Branched(g)
  /\ n \in 1 .. ChunkTokens
  /\ mtp => IF g.target_tokens = 0 THEN g.mtp_tokens = 0 ELSE OneAhead(g)

\* The first token of a prompt has no MTP row; the first row of a later chunk
\* takes the hidden vector retained from the chunk before.
MtpPrefillRows(g, n) ==
  IF g.target_tokens = 0 THEN MtpRows(1, 1, n - 1)
  ELSE MtpRows(g.hidden.state, g.target_tokens, n)

ChunkRows(g, n) == [i \in 1 .. n |-> g.target_tokens + i - 1]

Prefilled(g, n, mtp) ==
  LET end == g.target_tokens + n
      target == [TargetKernels(g, g.target_tokens, ChunkRows(g, n)) EXCEPT !.target_tokens = end]
  IN  IF mtp THEN [MtpKernels(target, g.mtp_tokens, MtpPrefillRows(g, n))
                     EXCEPT !.hidden.state = end, !.mtp_tokens = end - 1]
      ELSE target

PrefillBroken(g, n, mtp) ==
  LET marked == [g EXCEPT !.poisoned = TRUE, !.mtp_poisoned = @ \/ mtp]
  IN  {marked, [TargetKernels(marked, g.target_tokens, ChunkRows(g, n))
                  EXCEPT !.kv.target.poisoned = TRUE, !.position = g.position]}

-----------------------------------------------------------------------------
(* One token. Host calls write the device position before they launch.      *)

TargetAdmitted(g) == ~g.poisoned

TargetStep(g, start, row) ==
  [TargetKernels(g, start, <<row>>) EXCEPT !.hidden.state = After(row), !.target_tokens = @ + 1]

TargetToken(g, row) == TargetStep(g, g.target_tokens, row)

TargetTokenBroken(g, row) ==
  LET marked == [g EXCEPT !.poisoned = TRUE]
  IN  {marked, TargetKernels(marked, g.target_tokens, <<row>>)}

MtpAdmitted(g) == Healthy(g) /\ OneAhead(g)

\* A token on the path that meets the hidden vector of another token.
StaleHidden(g, row) == row # Junk /\ g.hidden.state # row

MtpStep(g, start, row) ==
  [MtpKernels(g, start, <<IF row = Junk THEN Junk ELSE MtpRow(g.hidden.state, row)>>)
     EXCEPT !.mtp_tokens = @ + 1,
            !.tainted = IF StaleHidden(g, row) THEN @ \cup {"mtp"} ELSE @]

\* row is the token fed, at the position the target has not computed yet.
MtpToken(g, row) == MtpStep(g, g.mtp_tokens, row)

MtpTokenBroken(g, row) ==
  LET marked == [g EXCEPT !.mtp_poisoned = TRUE]
  IN  {marked, MtpKernels(marked, g.mtp_tokens, <<Junk>>)}

-----------------------------------------------------------------------------
(* The branch *)

Snapshot(buffer) == [buffer EXCEPT !.checkpoint = <<buffer.state>>]
Rewound(buffer) == [state |-> buffer.checkpoint[1], checkpoint |-> << >>]
Dropped(buffer) == [buffer EXCEPT !.checkpoint = << >>]

BeginAdmitted(g) ==
  /\ Healthy(g) /\ ~Branched(g)
  /\ g.target_tokens > 0 /\ OneAhead(g)
  /\ g.mixers.checkpoint = << >> /\ g.hidden.checkpoint = << >>
  /\ \A l \in Layers : OwnerCanBegin(g.kv[l])

Begun(g) ==
  [g EXCEPT !.hidden = Snapshot(@), !.mixers = Snapshot(@),
            !.kv = [l \in Layers |-> OwnerBegun(@[l])],
            !.speculative_base = <<g.target_tokens, g.mtp_tokens>>]

\* A begin that fails drops every checkpoint it took.
BeginBroken(g) == {g}

\* Pages that were read at Q4 when the branch began and whose slot it took.
WrittenOver(owner) ==
  LET base == owner.checkpoint[1]
      entered == {p \in Pages : base <= p * PageTokens /\ p * PageTokens < owner.tokens}
  IN  {p \in Pages : /\ p * PageTokens < base /\ ReadAtQ4(base, p)
                     /\ \E q \in entered : Q4Slot(q) = Q4Slot(p)}

RestoreAdmitted(g) == Branched(g)

RestoredOwners(g) ==
  [g EXCEPT !.speculative_base = << >>,
            !.mixers = Rewound(g.mixers), !.hidden = Rewound(g.hidden),
            !.kv = [l \in Layers |-> OwnerRestored(g.kv[l])],
            !.target_tokens = g.speculative_base[1], !.mtp_tokens = g.speculative_base[2],
            !.overwritten = [l \in Layers |-> g.overwritten[l] \cup WrittenOver(g.kv[l])]]

Restored(g) ==
  [RestoredOwners(g) EXCEPT
     !.position = [l \in Layers |-> g.speculative_base[IF l = "target" THEN 1 ELSE 2]],
     !.poisoned = FALSE, !.mtp_poisoned = FALSE]

\* In the owners; or in the last two writes, which leave the health as it was.
RestoreBroken(g) ==
  {[g EXCEPT !.speculative_base = << >>, !.mixers = Rewound(@),
             !.poisoned = TRUE, !.mtp_poisoned = TRUE],
   RestoredOwners(g)}

CommitAdmitted(g) == OneAhead(g) /\ Branched(g)

Committed(g) ==
  [g EXCEPT !.speculative_base = << >>, !.mixers = Dropped(@), !.hidden = Dropped(@),
            !.kv = [l \in Layers |-> OwnerCommitted(@[l])]]

CommitBroken(g) ==
  {[g EXCEPT !.speculative_base = << >>, !.mixers = Dropped(@),
             !.poisoned = TRUE, !.mtp_poisoned = TRUE]}

\* Slip: the checkpoint of the hidden vector is not cleared.
ResetKeepsACheckpoint(g) ==
  [FreshGraph EXCEPT !.captured = g.captured, !.verify_base = g.verify_base,
                     !.hidden.checkpoint = g.hidden.checkpoint]

\* reset_session keeps the captured graphs and what they were captured with.
Reset(g) == [FreshGraph EXCEPT !.captured = g.captured, !.verify_base = g.verify_base]

ResetBroken(g) ==
  {[g EXCEPT !.mixers = EmptyBuffer],
   [g EXCEPT !.mixers = EmptyBuffer, !.kv.mtp = EmptyOwner]}

-----------------------------------------------------------------------------
(* Capture: the kernels are recorded, not run, with the arguments of then.  *)

CaptureTargetAdmitted(g) == ~g.poisoned /\ ~Branched(g) /\ g.target_tokens > 0

CaptureTarget(g) ==
  [g EXCEPT !.position.target = g.target_tokens, !.captured = @ \cup {"target"}]

CaptureTargetBroken(g) ==
  {[g EXCEPT !.captured = @ \ {"target"}, !.poisoned = TRUE]}

CaptureMtpAdmitted(g) == Healthy(g) /\ ~Branched(g) /\ OneAhead(g)

\* capture_mtp_decode_graph, and capture_mtp4_draft_graph with a branch of the
\* MTP owner alone around the tokens it records.
CaptureMtp(g, program) == [g EXCEPT !.captured = @ \cup {program}]

CaptureMtpBroken(g, program) ==
  {[g EXCEPT !.captured = @ \ {program}, !.mtp_poisoned = TRUE]}

\* The only place where the append of a block is checked against the ring.
CaptureVerifyAdmitted(g) ==
  /\ BeginAdmitted(g)
  /\ g.target_tokens + MaximumDrafts + 1 <= MaximumTokens
  /\ SpeculativeAppendAdmitted(OwnerBegun(g.kv.target), MaximumDrafts + 1)

\* Slot, page offset and token count of every pack are arguments by value.
CaptureVerify(g) ==
  [g EXCEPT !.captured = @ \cup {"verify"}, !.verify_base = <<g.target_tokens>>]

CaptureVerifyBroken(g) ==
  {[g EXCEPT !.captured = @ \ {"verify"}]} \cup RestoreBroken(Begun(g))

-----------------------------------------------------------------------------
(* Replay. Host counters follow the launch; rows land where the kernel has  *)
(* been told: at the device position, or at the base of the capture. The    *)
(* first accepted drafts of a block are on the path.                        *)

BlockRows(g, accepted) ==
  [i \in 1 .. MaximumDrafts + 1 |->
     IF i - 1 <= accepted THEN g.target_tokens + i - 1 ELSE Junk]

LaunchDraftsAdmitted(g) ==
  Healthy(g) /\ Branched(g) /\ OneAhead(g) /\ "drafts" \in g.captured

\* Draft zero takes the target hidden vector, the others chain their own.
LaunchDrafts(g, accepted) ==
  LET rows == [i \in 1 .. MaximumDrafts + 1 |->
                 IF i = 1 THEN MtpRow(g.hidden.state, g.target_tokens)
                 ELSE IF i - 1 <= accepted THEN g.mtp_tokens + i - 1 ELSE Junk]
  IN  [MtpKernels(g, g.position.mtp, rows) EXCEPT
         !.mtp_tokens = @ + MaximumDrafts + 1,
         !.tainted = IF StaleHidden(g, g.target_tokens) THEN @ \cup {"mtp"} ELSE @]

LaunchVerifyAdmitted(g) ==
  /\ Healthy(g) /\ Branched(g) /\ "verify" \in g.captured
  /\ g.mtp_tokens = g.target_tokens + MaximumDrafts

\* The hidden vector of the last row stays in the batch workspace. The program
\* ends with one increment of the position per row of the block, whatever was
\* accepted (commit_decode_state_from_mtp_bonus_device).
LaunchVerify(g, accepted) ==
  [TargetKernels(g, g.verify_base[1], BlockRows(g, accepted)) EXCEPT
     !.target_tokens = @ + MaximumDrafts + 1,
     !.position.target = g.position.target + MaximumDrafts + 1,
     !.tainted = IF g.verify_base[1] # g.target_tokens THEN @ \cup {"target"} ELSE @]

ReplayMtp(g) == MtpStep(g, g.position.mtp, g.target_tokens)

\* n launches of both programs, each pair for the next token.
ReplayPairs(g, n) ==
  LET rows == [i \in 1 .. n |-> g.target_tokens + i - 1]
      mtp == MtpRows(g.hidden.state, g.target_tokens, n)
      stale == n > 0 /\ StaleHidden(g, g.target_tokens)
  IN  [TargetKernels(MtpKernels(g, g.position.mtp, mtp), g.position.target, rows) EXCEPT
         !.target_tokens = @ + n, !.mtp_tokens = @ + n,
         !.hidden.state = IF n = 0 THEN @ ELSE g.target_tokens + n,
         !.tainted = IF stale THEN @ \cup {"mtp"} ELSE @]

ResolveAdmitted(g, accepted) ==
  /\ accepted <= MaximumDrafts /\ Branched(g)
  /\ IF accepted = MaximumDrafts THEN CommitAdmitted(g)
     ELSE {"target", "mtp"} \subseteq g.captured

\* Slip: a pair for every accepted draft.
ResolveOnlyDrafts(g, accepted) ==
  IF accepted = MaximumDrafts THEN Committed(g) ELSE ReplayPairs(Restored(g), accepted)

\* The verified token and every accepted draft are replayed: one pair more.
Resolve(g, accepted) ==
  IF accepted = MaximumDrafts THEN Committed(g) ELSE ReplayPairs(Restored(g), accepted + 1)

ResolveBroken(g, accepted) ==
  IF accepted = MaximumDrafts THEN CommitBroken(g)
  ELSE LET replayed == {ReplayPairs(Restored(g), n) : n \in 0 .. accepted}
       IN  RestoreBroken(g) \cup replayed \cup {ReplayMtp(r) : r \in replayed}

=============================================================================
