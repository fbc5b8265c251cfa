---------------------------- MODULE MetalExecutor ----------------------------
(***************************************************************************)
(* MetalModelExecutor (metal_executor.rs), the methods of the              *)
(* ModelExecutor trait over the owners of MetalTransaction. A method runs  *)
(* alone. Every transition runs in a branch over all owners that is        *)
(* committed or restored before the method returns, so that a decode has   *)
(* already kept the accepted drafts when it answers and commit_speculative *)
(* only acknowledges them. The last transition of the fused block may      *)
(* reject the block: it is restored, and the accepted part is replayed,    *)
(* one branch per token.                                                   *)
(*                                                                         *)
(* The caller is the engine: after a call that was not answered it resets  *)
(* or unloads, it prefills without a session, it decodes within one and    *)
(* only where the token and all admitted drafts fit the context.           *)
(***************************************************************************)
EXTENDS MetalTransaction

CONSTANTS
    Context,            \* admitted_context
    ExecutorPolicies,   \* what cache_config gives for the target
    Prompts,            \* BOUND: the prompts a caller sends
    Proposals           \* BOUND: the drafts MTP proposes for a block

ASSUME MetalExecutorAssumption ==
    /\ ExecutorPolicies \subseteq Policies
    /\ \A p \in ExecutorPolicies :
          p.maximum_tokens = Context /\ p.page_tokens >= Lesser(Context, Transitions)
    /\ Prompts \cup Proposals \subseteq Seq(Values) \ {<< >>}

VARIABLES
    model,              \* is_loaded, runtime and warmed
    drafts,             \* admitted_draft_tokens
    allocations,        \* what allocations() reports
    pending_ack,        \* << >> or one acknowledgement
    call,               \* the method under way, between two steps
    result,             \* of the last method
    session,            \* the caller's: none, open, or lost by a failed call
    reported            \* history: what the answers so far imply

executorVars == <<model, drafts, allocations, pending_ack, call, result, session, reported>>

(* The branches still to be run, as the tokens each consumes and whether it *)
(* is to be kept; gives is what the session holds once the call is          *)
(* answered, ack what commit_speculative is to acknowledge then.            *)
IdleCall == [at |-> "idle", method |-> "none", todo |-> << >>, replay |-> FALSE,
             gives |-> << >>, ack |-> << >>]

Untouched == [tokens |-> << >>, position |-> 0, pending |-> 0, state |-> "whole"]

ExecutorInit ==
    /\ TransactionInit
    /\ model = "new" /\ drafts = 0 /\ allocations = "zero"
    /\ pending_ack = << >>
    /\ call = IdleCall /\ result = "none"
    /\ session = [status |-> "none", mtp |-> FALSE]
    /\ reported = Untouched

-----------------------------------------------------------------------------
(* How a method goes on and how it returns *)

Idle == call.at = "idle"
InSession == Idle /\ session.status = "open"

Continue(step) ==
    /\ call' = step
    /\ UNCHANGED <<model, drafts, allocations, pending_ack, result, session, reported>>

To(at) == [call EXCEPT !.at = at]

AnswerOk(gives, ack) ==
    /\ call' = IdleCall /\ result' = "ok"
    /\ pending_ack' = ack
    /\ session' = [session EXCEPT !.status = "open"]
    /\ reported' = [tokens |-> gives, state |-> "whole",
                    position |-> tokens - (IF ack = << >> THEN 0 ELSE ack[1].accepted),
                    pending |-> IF ack = << >> THEN 0 ELSE ack[1].records]
    /\ UNCHANGED <<model, drafts, allocations>>

AnswerError(outcome) ==
    /\ call' = IdleCall /\ result' = outcome
    /\ pending_ack' = << >>
    /\ session' = [session EXCEPT !.status = "lost"]
    /\ reported' = [reported EXCEPT !.pending = 0, !.state = "partial"]
    /\ UNCHANGED <<model, drafts, allocations>>

OwnersUnchanged == UNCHANGED <<vars, transactionVars>>

-----------------------------------------------------------------------------
(* prefill and decode: what they are going to run *)

Kept(sequence) == [tokens |-> sequence, keep |-> TRUE]
Rejected(sequence) == [tokens |-> sequence, keep |-> FALSE]

OneByOne(sequence) == [t \in DOMAIN sequence |-> Kept(<<sequence[t]>>)]

Prefill ==
    /\ Idle /\ model = "warm" /\ session.status = "none"
    /\ \E prompt \in Prompts, with_mtp \in BOOLEAN :
          /\ ResetTransaction
          /\ call' = [IdleCall EXCEPT !.at = "begin", !.method = "prefill",
                                      !.todo = OneByOne(prompt), !.gives = prompt]
          /\ session' = [session EXCEPT !.mtp = with_mtp]
    /\ UNCHANGED <<model, drafts, allocations, pending_ack, result, reported>>

(* The token is looked at before the reset and before every further token.  *)
PrefillCancelled ==
    \/ /\ Idle /\ model = "warm" /\ session.status = "none"
       /\ OwnersUnchanged
       /\ AnswerError("cancelled")
    \/ /\ call.at = "begin" /\ call.method = "prefill" /\ tokens > 0
       /\ ResetTransaction
       /\ AnswerError("cancelled")

CanDecode == InSession /\ model = "warm" /\ pending_ack = << >>

Speculates == session.mtp

HasRoom == tokens + 1 + (IF Speculates THEN drafts ELSE 0) <= Context

DecodeTarget ==
    /\ CanDecode /\ HasRoom /\ ~Speculates
    /\ \E token \in Values :
          Continue([IdleCall EXCEPT !.at = "begin", !.method = "decode",
                                    !.todo = OneByOne(<<token>>),
                                    !.gives = Append(reported.tokens, token)])
    /\ OwnersUnchanged

(* Slip: the replay of a rejected block leaves the last accepted draft out. *)
BlockReplayedShort(token, draft, accepted) ==
    IF drafts < MaximumDrafts THEN OneByOne(<<token>> \o SubSeq(draft, 1, accepted))
    ELSE IF accepted = drafts THEN << Kept(<<token>> \o draft) >>
    ELSE << Rejected(<<token>> \o draft) >>
           \o OneByOne(<<token>> \o SubSeq(draft, 1, SaturatingSub(accepted, 1)))

(* The drafts of a block and how many of them the target will accept are    *)
(* chosen here. A depth below the fused block runs one transition after the *)
(* other up to the first rejected draft, whose token no owner consumes.     *)
Block(token, draft, accepted) ==
    LET path == <<token>> \o SubSeq(draft, 1, accepted)
    IN  IF drafts < MaximumDrafts THEN OneByOne(path)
        ELSE IF accepted = drafts THEN << Kept(path) >>
        ELSE << Rejected(<<token>> \o draft) >> \o OneByOne(path)

Records(accepted) ==
    IF drafts = MaximumDrafts THEN drafts ELSE Lesser(accepted + 1, drafts)

DecodeWithDrafts ==
    /\ CanDecode /\ HasRoom /\ Speculates
    /\ \E token \in Values, draft \in Proposals, accepted \in 0 .. drafts :
          /\ Len(draft) = drafts
          /\ Continue([IdleCall EXCEPT
                         !.at = "begin", !.method = "decode",
                         !.todo = Block(token, draft, accepted),
                         !.gives = reported.tokens \o <<token>> \o SubSeq(draft, 1, accepted),
                         !.ack = <<[accepted |-> accepted, records |-> Records(accepted)]>>])
    /\ OwnersUnchanged

DecodeRefused ==
    /\ CanDecode
    /\ OwnersUnchanged
    /\ AnswerError("cancelled")

-----------------------------------------------------------------------------
(* Running the branches *)

TakesMtp == session.mtp /\ tokens > 0

Begin ==
    /\ call.at = "begin"
    /\ BeginTransaction(TakesMtp, Len(Head(call.todo).tokens))
    /\ Continue(To("encode"))

BeginStops ==
    /\ call.at = "begin"
    /\ BeginFails
    /\ Continue(To("stop"))

Encoded == tokens - checkpoint[1].tokens

Encode ==
    /\ call.at = "encode"
    /\ LET branch == Head(call.todo)
           following == Len(branch.tokens) - Encoded - 1
       IN  /\ Transition(Joint, branch.tokens[Encoded + 1], following)
           /\ Continue(IF following > 0 THEN call
                       ELSE To(IF branch.keep THEN "commit" ELSE "reject"))

EncodeStops ==
    /\ call.at = "encode"
    /\ TransitionFails(Joint, Head(call.todo).tokens[Encoded + 1])
    /\ Continue(To("restore"))

(* A command that completed and whose records do not hold what they must.   *)
CompletionStops ==
    /\ call.at \in {"commit", "reject"}
    /\ OwnersUnchanged
    /\ Continue(To("restore"))

(* The branches after a rejected one are a replay of it. *)
Rest == [call EXCEPT !.todo = Tail(@), !.at = "begin", !.replay = TRUE]

Commit ==
    /\ call.at = "commit"
    /\ CommitTransaction
    /\ IF Len(call.todo) > 1 THEN Continue([call EXCEPT !.todo = Tail(@), !.at = "begin"])
       ELSE IF Speculates /\ call.method = "decode" THEN AnswerOk(call.gives, call.ack)
       ELSE Continue(To("select"))

(* A replayed transition that gives another record than the block did.      *)
ReplayDiverges ==
    /\ call.at = "commit" /\ call.replay
    /\ CommitTransaction
    /\ Continue(To("stop"))

Reject ==
    /\ call.at = "reject"
    /\ RestoreTransaction
    /\ Continue(Rest)

(* The rollback of a rejected block that failed is tried once more.         *)
Restore ==
    /\ call.at = "restore" \/ call.at = "reject"
    /\ RestoreTransaction \/ RestoreIncomplete
    /\ Continue(To("stop"))

(* The argmax over the target's logits, which prefill and a decode without  *)
(* drafts leave for select_target_token.                                    *)
Select ==
    /\ call.at = "select"
    /\ OwnersUnchanged
    /\ AnswerOk(call.gives, << >>) \/ Continue(To("stop"))

Stop ==
    /\ call.at = "stop"
    /\ IF call.method = "prefill" THEN ResetTransaction
       ELSE IF call.replay THEN PoisonTransaction
       ELSE OwnersUnchanged
    /\ AnswerError("error")

-----------------------------------------------------------------------------
(* commit_speculative *)

Acknowledge ==
    /\ InSession /\ pending_ack # << >>
    /\ OwnersUnchanged
    /\ AnswerOk(reported.tokens, << >>)

(* Cancelled, or another number of drafts than the device has kept.         *)
AcknowledgeRefused ==
    /\ InSession /\ pending_ack # << >>
    /\ ResetTransaction
    /\ \E outcome \in {"cancelled", "error"} : AnswerError(outcome)

-----------------------------------------------------------------------------
(* load, warmup, reset_session and unload *)

Loaded == model \in {"resident", "warm"}

(* Every owner as prepared; unload takes the runtime, so an executor is     *)
(* loaded once.                                                             *)
Load ==
    /\ Idle /\ model = "new" /\ policy \in ExecutorPolicies
    /\ tokens = 0 /\ checkpoint = << >> /\ ~poisoned
    /\ q4_pages = Zeroed(Slots, policy) /\ q2_pages = Zeroed(PageIndices, policy)
    /\ model' = "resident" /\ allocations' = "model" /\ result' = "ok"
    /\ drafts' \in 1 .. MaximumDrafts
    /\ \E p \in ExecutorPolicies : mtp' = FreshMtp(Q4Slots(p))
    /\ UNCHANGED <<vars, linear, layers, hidden, pending_ack, call, session, reported>>

Warmup ==
    /\ Idle /\ model = "resident" /\ model' = "warm" /\ result' = "ok"
    /\ OwnersUnchanged
    /\ UNCHANGED <<drafts, allocations, pending_ack, call, session, reported>>

ResetSession ==
    /\ Idle /\ model # "new"
    /\ IF Loaded THEN ResetTransaction ELSE OwnersUnchanged
    /\ pending_ack' = << >> /\ result' = "ok"
    /\ session' = [status |-> "none", mtp |-> FALSE]
    /\ reported' = Untouched
    /\ UNCHANGED <<model, drafts, allocations, call>>

(* Only the unload that drops the model measures what is left; one that is  *)
(* repeated reports nothing.                                                *)
Unload ==
    /\ Idle /\ model # "new"
    /\ IF Loaded THEN ResetTransaction ELSE OwnersUnchanged
    /\ model' = "unloaded" /\ drafts' = 0 /\ pending_ack' = << >>
    /\ allocations' \in {"zero"} \cup (IF Loaded THEN {"residue"} ELSE {})
    /\ result' = IF allocations' = "residue" THEN "error" ELSE "ok"
    /\ session' = [status |-> "none", mtp |-> FALSE]
    /\ reported' = Untouched
    /\ UNCHANGED call

ExecutorNext ==
    \/ Load \/ Warmup \/ ResetSession \/ Unload
    \/ Prefill \/ PrefillCancelled
    \/ DecodeTarget \/ DecodeWithDrafts \/ DecodeRefused
    \/ Begin \/ BeginStops \/ Encode \/ EncodeStops \/ CompletionStops
    \/ Commit \/ ReplayDiverges \/ Reject \/ Restore \/ Select \/ Stop
    \/ Acknowledge \/ AcknowledgeRefused

(* Until an executor has been loaded the attention owner goes through its   *)
(* own operations, as the verifier binaries drive it; Reset leaves it as    *)
(* Load wants it.                                                           *)
MetalNext ==
    \/ model = "new" /\ Next /\ UNCHANGED <<transactionVars, executorVars>>
    \/ ExecutorNext

MetalInit == Init /\ ExecutorInit

MetalSpec == MetalInit /\ [][MetalNext]_<<vars, transactionVars, executorVars>>

-----------------------------------------------------------------------------
(* Properties *)

MtpRows == IF session.mtp /\ tokens > 0 THEN Tail(TargetRows) ELSE << >>

NoBranch ==
    /\ checkpoint = << >> /\ ~layers.transaction_active
    /\ mtp.checkpoint = << >> /\ hidden.checkpoint = << >>
    /\ \A owner \in LinearOwners : linear[owner].checkpoint = << >>

(* All owners of session state hold the same tokens: recurrent state,       *)
(* attention rows, the rows of MTP, one behind, and the hidden vector MTP   *)
(* will read.                                                               *)
Agree ==
    /\ \A owner \in LinearOwners : linear[owner].state = TargetRows
    /\ mtp.rows = MtpRows
    /\ session.mtp => hidden.state = TargetRows

Usable ==
    /\ ~poisoned /\ ~layers.poisoned /\ ~mtp.poisoned
    /\ \A owner \in LinearOwners : ~linear[owner].poisoned

(* Between two calls of a live session every owner holds exactly the prompt *)
(* and, for every decode, its token and the drafts that were accepted: also *)
(* where the block was rejected by its last transition and replayed, and    *)
(* with a descriptor set for every transition of a command buffer.          *)
MetalOwnersAgree ==
    InSession => Usable /\ NoBranch /\ Agree /\ TargetRows = reported.tokens

(* A transition is over all owners or over none, from the same tokens, and  *)
(* can be taken back; and when a call has failed, whatever failed in it and *)
(* in its rollback, every owner is back at one common prefix without a      *)
(* branch, or a mark is left that keeps the next begin from using them.     *)
TransactionIsAllOrNothing ==
    /\ RestoreIsNeverRefused
    /\ layers.transaction_active =>
          LET base == RowsOf(Truncated(checkpoint[1]), checkpoint[1].page_to_q4_slot,
                             checkpoint[1].tokens)
          IN  /\ checkpoint # << >>
              /\ \A owner \in LinearOwners : linear[owner].checkpoint = << base >>
              /\ Joint => /\ mtp.checkpoint = << Tail(base) >>
                          /\ hidden.checkpoint = << base >>
    /\ Loaded /\ Idle /\ Usable /\ hidden.checkpoint = << >> =>
          NoBranch /\ Agree /\ (tokens = 0 \/ IsPrefix(reported.tokens, TargetRows))

(* The executor answers as the trait promises: one token and a branch for a *)
(* decode, exactly the accepted prefix for an acknowledgement.              *)
Contract ==
    INSTANCE ExecutorContract WITH
        MaxContext <- Context, MaxDrafts <- MaximumDrafts, ExecutorDrafts <- MaximumDrafts,
        model <- IF Loaded THEN model
                 ELSE IF allocations = "residue" THEN "residue" ELSE "absent",
        position <- reported.position, pending <- reported.pending,
        state <- reported.state

ImplementsExecutor == Contract!ContractSpec

=============================================================================
