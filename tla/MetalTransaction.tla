-------------------------- MODULE MetalTransaction --------------------------
(***************************************************************************)
(* The device owners of one Metal session and the branch that is opened    *)
(* over all of them for every transition (metal_runtime.rs): the target    *)
(* layers with their recurrent owners and paged KV owners, the KV owner of *)
(* the MTP layer, and the target's hidden vector that MTP reads.           *)
(*                                                                         *)
(* The attention owner is that of MetalPagedKv; it stands for the sixteen  *)
(* of the target, which are called one after the other with the same       *)
(* configuration. The recurrent owners (a convolution and a recurrence per *)
(* linear layer) are two, for a pass over the layers meets some of them    *)
(* before an attention owner and some after. Of the MTP owner only its     *)
(* rows and the number of its Q4 slots are kept.                           *)
(*                                                                         *)
(* Every step of this module calls the attention owner at most once.       *)
(***************************************************************************)
EXTENDS MetalPagedKv

CONSTANT MaximumDrafts        \* METAL_MTP4_RECORDS

ASSUME DraftsAssumption == MaximumDrafts \in Nat \ {0}
(* What an owner has consumed is told from a state nobody knows.            *)
ASSUME StatesAssumption == Junk \notin Seq(Values)

VARIABLES linear,             \* the recurrent owners of the target layers
          layers,             \* PreparedMappedMetalTargetLayers
          mtp,                \* PreparedMappedMetalMtpCore
          hidden              \* the slot Normalized and target_hidden_checkpoint

transactionVars == <<linear, layers, mtp, hidden>>

Transitions == MaximumDrafts + 1

LinearOwners == {"before", "after"}

(* What an owner has consumed stands for its state; Junk is a state that a  *)
(* failed command or copy left, whatever it is.                             *)
FreshState == [state |-> << >>, checkpoint |-> << >>]
FreshLinear == [owner \in LinearOwners |->
                   [state |-> << >>, poisoned |-> FALSE, checkpoint |-> << >>]]
IdleLayers == [transaction_active |-> FALSE, poisoned |-> FALSE]
FreshMtp(slots) ==
    [rows |-> << >>, poisoned |-> FALSE, checkpoint |-> << >>, q4_slots |-> slots]

Extended(state, value) == IF state = Junk THEN Junk ELSE Append(state, value)

(* What the attention owner reads for a count of tokens. *)
RowsOf(book, table, count) == [t \in 1 .. count |-> ReadAt(book, table, t).value]
TargetRows == RowsOf(pages, page_to_q4_slot, tokens)

TransactionInit ==
    /\ linear = FreshLinear
    /\ layers = IdleLayers
    /\ mtp = FreshMtp(0)
    /\ hidden = FreshState

-----------------------------------------------------------------------------
(* Opening a branch *)

Snapshot(owner) == [owner EXCEPT !.checkpoint = << owner.state >>]
Rewound(owner) == [owner EXCEPT !.state = owner.checkpoint[1], !.checkpoint = << >>]
Dropped(owner) == [owner EXCEPT !.checkpoint = << >>]

(* A copy back that failed keeps its checkpoint.                            *)
Unrestored(owner) == [owner EXCEPT !.state = Junk]

Healed(owner) == [owner EXCEPT !.poisoned = FALSE]

TargetIsIdle ==
    /\ layers = IdleLayers
    /\ \A owner \in LinearOwners :
          ~linear[owner].poisoned /\ linear[owner].checkpoint = << >>

(* In a branch no page is demoted, and under the executor every token is    *)
(* appended in one: all pages of the MTP owner are at Q4.                   *)
MtpSlotsFor(count) == CeilDiv(count, policy.page_tokens)

MtpCanBegin ==
    /\ ~mtp.poisoned /\ mtp.checkpoint = << >>
    /\ MtpSlotsFor(Len(mtp.rows)) < mtp.q4_slots
    /\ hidden.checkpoint = << >>

MtpBegun == [mtp EXCEPT !.checkpoint = << mtp.rows >>]

(* The execution cursor and the checks of a joint transition.               *)
CursorAdmitted(joint, width) ==
    /\ tokens + width <= policy.maximum_tokens
    /\ joint => tokens # 0 /\ tokens = Len(mtp.rows) + 1

BeginTransaction(joint, width) ==
    /\ CursorAdmitted(joint, width)
    /\ TargetIsIdle
    /\ BeginSpeculative
    /\ linear' = [owner \in LinearOwners |-> Snapshot(linear[owner])]
    /\ layers' = [layers EXCEPT !.transaction_active = TRUE]
    /\ IF joint
       THEN MtpCanBegin /\ mtp' = MtpBegun /\ hidden' = Snapshot(hidden)
       ELSE UNCHANGED <<mtp, hidden>>

(* Slip: owners that had begun keep their checkpoints.                      *)
BeginFailsMidway ==
    /\ UNCHANGED <<vars, layers, mtp, hidden>>
    /\ \/ UNCHANGED linear
       \/ /\ TargetIsIdle
          /\ linear' = [linear EXCEPT !["before"] = Snapshot(@)]

(* The branch is refused, or an owner refuses or a copy fails: what had     *)
(* begun is restored, which may fail for recurrent owners.                  *)
BeginFails ==
    /\ UNCHANGED <<vars, mtp, hidden>>
    /\ \/ UNCHANGED <<linear, layers>>
       \/ /\ TargetIsIdle
          /\ \E stuck \in SUBSET LinearOwners \ {{}} :
                linear' = [owner \in LinearOwners |->
                              IF owner \in stuck THEN Unrestored(Snapshot(linear[owner]))
                                                 ELSE linear[owner]]
          /\ layers' = [layers EXCEPT !.poisoned = TRUE]

-----------------------------------------------------------------------------
(* One transition: MTP consumes the token first, with the hidden vector of  *)
(* the token before, then the target.                                       *)

(* Slip: one descriptor slot per draft. *)
DispatchSlotsPerDraft == MaximumDrafts

(* Each attention layer has one set of descriptor buffers per transition of *)
(* a block; the host fills them while it encodes and the device reads them  *)
(* when the command buffer runs.                                            *)
DispatchSlots == MaximumDrafts + 1

(* The descriptors of a transition survive until the command buffer runs if *)
(* none of the transitions encoded after it uses the same set.              *)
Described(following) ==
    \A later \in 1 .. following : (tokens + later) % DispatchSlots # tokens % DispatchSlots

MtpRow(value) == IF hidden.state = TargetRows THEN value ELSE Junk

MtpAppended(row) == [mtp EXCEPT !.rows = Append(@, row)]

Advanced(owner, value) == [owner EXCEPT !.state = Extended(@, value)]
Spoiled(owner) == [owner EXCEPT !.state = Junk, !.poisoned = TRUE]
LinearSpoiled == [owner \in LinearOwners |-> Spoiled(linear[owner])]

MtpSpoiled == [MtpAppended(Junk) EXCEPT !.poisoned = TRUE]

Transition(joint, value, following) ==
    /\ LET intact == Described(following)
       IN  /\ \E plan \in {Plan} : AppendAndDispatch(plan, IF intact THEN value ELSE Junk)
           /\ IF joint
              THEN mtp' = MtpAppended(IF intact THEN MtpRow(value) ELSE Junk)
              ELSE UNCHANGED mtp
    /\ linear' = [owner \in LinearOwners |-> Advanced(linear[owner], value)]
    /\ hidden' = [hidden EXCEPT !.state = Extended(linear["after"].state, value)]
    /\ UNCHANGED layers

(* The command buffer does not complete. The plans do not fail: a branch    *)
(* began with a free slot and opens one page at most.                       *)
TransitionFails(joint, value) ==
    /\ \E plan \in {Plan} : AppendFailed(plan, value)
    /\ linear' = LinearSpoiled
    /\ mtp' = IF joint THEN MtpSpoiled ELSE mtp
    /\ hidden' = [hidden EXCEPT !.state = Junk]
    /\ UNCHANGED layers

-----------------------------------------------------------------------------
(* Closing a branch. That MTP takes part shows in its checkpoint.           *)

Joint == mtp.checkpoint # << >>

CommitReady ==
    /\ layers.transaction_active /\ ~layers.poisoned
    /\ \A owner \in LinearOwners :
          ~linear[owner].poisoned /\ linear[owner].checkpoint # << >>
    /\ Joint => ~mtp.poisoned /\ hidden.checkpoint # << >>

CommitTransaction ==
    /\ CommitReady
    /\ CommitSpeculative
    /\ linear' = [owner \in LinearOwners |-> Dropped(linear[owner])]
    /\ layers' = IdleLayers
    /\ mtp' = Dropped(mtp)
    /\ hidden' = Dropped(hidden)

MtpRestored ==
    [mtp EXCEPT !.rows = mtp.checkpoint[1], !.checkpoint = << >>, !.poisoned = FALSE]

HiddenRestored == Rewound(hidden)

RestoreTransaction ==
    /\ layers.transaction_active
    /\ RestoreSpeculative
    /\ linear' = [owner \in LinearOwners |-> Healed(Rewound(linear[owner]))]
    /\ layers' = IdleLayers
    /\ IF Joint
       THEN mtp' = MtpRestored /\ hidden' = HiddenRestored
       ELSE UNCHANGED <<mtp, hidden>>

(* Copies into recurrent owners, or that of the hidden vector, fail: the    *)
(* former poison the layers, the latter keeps only its own checkpoint.      *)
RestoreIncomplete ==
    /\ layers.transaction_active
    /\ RestoreSpeculative
    /\ \E stuck \in SUBSET LinearOwners, lost \in BOOLEAN :
          /\ stuck # {} \/ lost
          /\ lost => Joint
          /\ linear' = [owner \in LinearOwners |->
                           IF owner \in stuck THEN Unrestored(linear[owner])
                                              ELSE Healed(Rewound(linear[owner]))]
          /\ layers' = [transaction_active |-> FALSE, poisoned |-> stuck # {}]
          /\ hidden' = IF lost THEN Unrestored(hidden)
                       ELSE IF Joint THEN HiddenRestored ELSE hidden
    /\ mtp' = IF Joint THEN MtpRestored ELSE mtp

ResetTransaction ==
    /\ Reset
    /\ linear' = FreshLinear
    /\ layers' = IdleLayers
    /\ mtp' = FreshMtp(mtp.q4_slots)
    /\ hidden' = FreshState

(* What a replay that failed or diverged marks.                             *)
PoisonTransaction ==
    /\ layers' = [layers EXCEPT !.poisoned = TRUE]
    /\ mtp' = [mtp EXCEPT !.poisoned = TRUE]
    /\ UNCHANGED <<vars, linear, hidden>>

=============================================================================
