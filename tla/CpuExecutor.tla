---------------------------- MODULE CpuExecutor ----------------------------
(***************************************************************************)
(* CpuCorrectnessExecutor (decoder.rs), the scalar oracle behind the       *)
(* ModelExecutor trait. It has no checkpoints: every method advances the   *)
(* session in place, layer after layer, and a failure or a cancellation    *)
(* leaves it where it stopped. Speculation runs on clones of the decoder   *)
(* and of the MTP cache that a decode throws away before it answers; only  *)
(* the candidate tokens are kept, and commit_speculative computes the      *)
(* accepted ones again in the session.                                     *)
(*                                                                         *)
(* The state of one full-attention layer is the cache of PagedKvCache,     *)
(* between two linear layers. A recurrent state is the sequence of tokens  *)
(* it has absorbed, a final hidden vector the tokens it was computed from. *)
(* The caller is the engine: after a call that was not answered it resets  *)
(* or unloads, it prefills without a session, it decodes within one, where *)
(* the token and all admitted drafts fit the context, and it commits at    *)
(* most the drafts it was given.                                           *)
(***************************************************************************)
EXTENDS PagedKvCache, FiniteSets

CONSTANTS
    Context,            \* admitted_context
    MaximumDrafts,      \* MAXIMUM_CHAINED_MTP_DRAFTS
    ExecutorPolicies,   \* what qwen_default gives for the context
    Prompts             \* BOUND: the prompts a caller sends

(* MtpState::new refuses a context of one token. *)
ASSUME CpuExecutorAssumption ==
    /\ Context \in Nat \ {0, 1} /\ MaximumDrafts \in Nat
    /\ ExecutorPolicies \subseteq {p \in Policies : Admitted(p)}
    /\ \A p \in ExecutorPolicies : p.maximum_tokens = Context
    /\ \A prompt \in Prompts : prompt \in Seq(Values) /\ Len(prompt) \in 1 .. Context

VARIABLES
    model,              \* artifact and warmed
    drafts,             \* admitted_draft_tokens
    position,           \* << >>, or << DecoderState.position >> while there is one
    recurrent,          \* what each linear layer has absorbed
    counted,            \* the tokens field of each layer state
    mtp_state,          \* << >>, or << the MtpState >>
    last_final_hidden,  \* << >> for None
    pending,            \* candidate_tokens of the branch, << >> for None
    session_bytes,      \* what allocations().session_bytes was computed from
    call,               \* the method under way, between two tokens
    session,            \* the caller's: none, open, or lost by a failed call
    reported            \* history: what the answers so far imply

stateVars == <<position, recurrent, counted, mtp_state, last_final_hidden, pending>>
methodVars == <<model, drafts, session_bytes, call, session, reported>>
executorVars == <<stateVars, methodVars>>

LinearLayers == {1, 3}
FullLayer == 2
LastLayer == 3
Layers == LinearLayers \cup {FullLayer}

(* todo are the tokens still to be consumed, gives what the session holds   *)
(* once the call is answered. Of a decode with drafts: the tokens held by   *)
(* the two clones, the drafts so far, and the hidden vector of its token.   *)
IdleCall == [method |-> "none", todo |-> << >>, mtp_branch |-> 0,
             target_branch |-> 0, candidates |-> << >>, hidden |-> << >>, gives |-> << >>]

Untouched == [tokens |-> << >>, position |-> 0, pending |-> 0, state |-> "whole"]

NoBytes == [target |-> << >>, mtp |-> << >>, hidden |-> FALSE, candidates |-> 0]

ExecutorInit ==
    /\ model = "new" /\ drafts = 0
    /\ position = << >> /\ mtp_state = << >>
    /\ recurrent = [l \in LinearLayers |-> << >>] /\ counted = [l \in Layers |-> 0]
    /\ last_final_hidden = << >> /\ pending = << >>
    /\ session_bytes = NoBytes
    /\ call = IdleCall
    /\ session = [status |-> "none", mtp |-> FALSE]
    /\ reported = Untouched

-----------------------------------------------------------------------------
(* The session state *)

ClearLayers ==
    /\ Reset
    /\ recurrent' = [l \in LinearLayers |-> << >>] /\ counted' = [l \in Layers |-> 0]

DropSession ==
    /\ ClearLayers
    /\ position' = << >> /\ mtp_state' = << >>
    /\ last_final_hidden' = << >> /\ pending' = << >>

FreshMtp == [rows |-> << >>, tokens |-> 0]

(* update_session_allocation: the sum over what there is. *)
SessionBytes ==
    [target |-> position, mtp |-> [m \in DOMAIN mtp_state |-> mtp_state[m].tokens],
     hidden |-> last_final_hidden # << >>, candidates |-> Len(pending)]

-----------------------------------------------------------------------------
(* One token through the target: decode_target_step *)

(* Its bounds, and the position check of every layer. *)
TargetAccepts ==
    /\ position[1] < Context
    /\ \A l \in Layers : counted[l] = position[1] /\ counted[l] < Context
    /\ tokens < policy.maximum_tokens

(* Convolution and recurrence of the linear layers among those that have    *)
(* gone so far.                                                             *)
LinearTake(token, gone) ==
    recurrent' = [l \in LinearLayers |->
        IF l \in gone THEN Append(recurrent[l], token) ELSE recurrent[l]]

(* An ordinary append, with its demotions, if attention has gone so far.    *)
FullTakes(token, gone) ==
    IF FullLayer \in gone THEN Push(token) ELSE UNCHANGED vars

(* The layers below stop have taken the token; the one at stop has changed  *)
(* its state and not its counter when half is set.                          *)
LayersUpTo(stop, half, token) ==
    LET gone == {l \in Layers : l < stop \/ (l = stop /\ half)}
    IN  /\ LinearTake(token, gone) /\ FullTakes(token, gone)
        /\ counted' = [l \in Layers |-> counted[l] + (IF l < stop THEN 1 ELSE 0)]

EveryLayer == Cardinality(Layers) + 1

TargetStep(token) ==
    /\ TargetAccepts
    /\ LayersUpTo(EveryLayer, FALSE, token)
    /\ position' = <<position[1] + 1>>

(* It stops at a layer, at the final norm or at the head. *)
TargetStepFails(token) ==
    /\ \E stop \in Layers \cup {EveryLayer}, half \in BOOLEAN :
          LayersUpTo(stop, half, token)
    /\ UNCHANGED position

-----------------------------------------------------------------------------
(* One token through the MTP layer: mtp_final_hidden *)

(* Slip: the cache is taken to hold as many rows as the context has tokens, *)
(* less the two at its ends.                                                *)
MtpAcceptsShort(held, at) == at = held + 1 /\ at + 1 < Context

(* The position must be the next one and inside the context; the attention  *)
(* state has one row less than the context.                                 *)
MtpAccepts(held, at) ==
    /\ at = held + 1 /\ at < Context
    /\ held < Context - 1

(* A row of the MTP cache is computed from a token and from the target's    *)
(* hidden vector before it.                                                 *)
MtpRow(token) == [token |-> token, from |-> last_final_hidden]

MtpStep(token) ==
    /\ MtpAccepts(mtp_state[1].tokens, position[1])
    /\ Len(mtp_state[1].rows) = mtp_state[1].tokens
    /\ mtp_state' = <<[rows |-> Append(mtp_state[1].rows, MtpRow(token)),
                       tokens |-> mtp_state[1].tokens + 1]>>

(* It stops before or after the attention state has taken the row. *)
MtpStepFails(token) ==
    mtp_state' \in {mtp_state, <<[mtp_state[1] EXCEPT !.rows = Append(@, MtpRow(token))]>>}

TakesMtp == session.mtp /\ position[1] > 0

(* The first token of a prompt has no hidden vector before it, and there is *)
(* no MTP row for it.                                                       *)
Consume(token) ==
    /\ IF TakesMtp THEN MtpStep(token) ELSE UNCHANGED mtp_state
    /\ TargetStep(token)

ConsumeFails(token) ==
    \/ /\ IF TakesMtp THEN MtpStep(token) ELSE UNCHANGED mtp_state
       /\ TargetStepFails(token)
    \/ /\ TakesMtp /\ MtpStepFails(token)
       /\ UNCHANGED <<vars, position, recurrent, counted>>

(* The step's hidden vector: what the last layer has absorbed by then.      *)
FinalHidden == recurrent'[LastLayer]

-----------------------------------------------------------------------------
(* How a method goes on and how it returns *)

Idle == call.method = "none"
InSession == Idle /\ session.status = "open"

Continue(step) ==
    /\ call' = step
    /\ UNCHANGED <<model, drafts, session_bytes, session, reported>>

AnswerOk(gives) ==
    /\ call' = IdleCall
    /\ session_bytes' = SessionBytes'
    /\ session' = [session EXCEPT !.status = "open"]
    /\ reported' = [tokens |-> gives, position |-> position'[1],
                    pending |-> Len(pending'), state |-> "whole"]
    /\ UNCHANGED <<model, drafts>>

(* The session is left as it is, and so are the bytes last counted. *)
AnswerError ==
    /\ call' = IdleCall
    /\ session' = [session EXCEPT !.status = "lost"]
    /\ reported' = [reported EXCEPT !.pending = 0, !.state = "partial"]
    /\ UNCHANGED <<model, drafts, session_bytes>>

-----------------------------------------------------------------------------
(* prefill *)

Prefill ==
    /\ Idle /\ model = "warm" /\ session.status = "none"
    /\ \E prompt \in Prompts, with_mtp \in BOOLEAN :
          /\ with_mtp => drafts > 0
          /\ mtp_state' = IF with_mtp THEN <<FreshMtp>> ELSE << >>
          /\ call' = [IdleCall EXCEPT !.method = "prefill", !.todo = prompt, !.gives = prompt]
          /\ session' = [session EXCEPT !.mtp = with_mtp]
    /\ ClearLayers
    /\ position' = <<0>>
    /\ last_final_hidden' = << >> /\ pending' = << >>
    /\ UNCHANGED <<model, drafts, session_bytes, reported>>

PrefillToken ==
    /\ call.method = "prefill"
    /\ Consume(Head(call.todo))
    /\ last_final_hidden' = FinalHidden
    /\ UNCHANGED pending
    /\ IF Len(call.todo) > 1 THEN Continue([call EXCEPT !.todo = Tail(@)])
                             ELSE AnswerOk(call.gives)

-----------------------------------------------------------------------------
(* decode *)

CanDecode == InSession /\ model = "warm" /\ pending = << >>

HasRoom == position[1] + 1 + (IF session.mtp THEN drafts ELSE 0) <= Context

Decode ==
    /\ CanDecode /\ HasRoom
    /\ \E token \in Values :
          Continue([IdleCall EXCEPT !.method = "decode", !.todo = <<token>>,
                                    !.gives = Append(reported.tokens, token)])
    /\ UNCHANGED <<vars, stateVars>>

(* With MTP the hidden vector of the session stays behind until the drafts  *)
(* are complete; the clones start from what the session now holds.          *)
DecodeToken ==
    /\ call.method = "decode"
    /\ Consume(Head(call.todo))
    /\ UNCHANGED pending
    /\ IF session.mtp
       THEN /\ UNCHANGED last_final_hidden
            /\ Continue([call EXCEPT !.method = "speculate", !.hidden = FinalHidden,
                                     !.target_branch = position'[1],
                                     !.mtp_branch = mtp_state'[1].tokens])
       ELSE /\ last_final_hidden' = FinalHidden
            /\ AnswerOk(call.gives)

(* Slip: the drafts advance the decoder itself, not a clone of it. *)
SpeculateInTheSession(candidate) ==
    /\ TargetStep(candidate)
    /\ UNCHANGED mtp_state

(* The target verifies a draft in its clone. *)
Speculate(candidate) == UNCHANGED <<vars, position, recurrent, counted, mtp_state>>

(* Slip: the loop over the admitted depth includes its end. *)
MoreDraftsInclusive(candidates) == Len(candidates) <= drafts

MoreDrafts(candidates) == Len(candidates) < drafts

(* Every draft but the last goes through the MTP clone as well, for the     *)
(* next one. At the last, the candidates become the pending branch.         *)
DecodeDraft ==
    /\ call.method = "speculate"
    /\ \E candidate \in Values :
          LET candidates == Append(call.candidates, candidate)
              more == MoreDrafts(candidates)
          IN  /\ call.target_branch < Context
              /\ more => MtpAccepts(call.mtp_branch, call.target_branch)
              /\ Speculate(candidate)
              /\ IF more
                 THEN /\ UNCHANGED <<last_final_hidden, pending>>
                      /\ Continue([call EXCEPT !.candidates = candidates,
                                               !.target_branch = @ + 1,
                                               !.mtp_branch = @ + 1])
                 ELSE /\ pending' = candidates
                      /\ last_final_hidden' = call.hidden
                      /\ AnswerOk(call.gives)

-----------------------------------------------------------------------------
(* commit_speculative *)

(* The branch is taken first, whatever then happens. Without an accepted    *)
(* draft there is nothing to do, cancelled or not.                          *)
CommitSpeculative ==
    /\ InSession /\ pending # << >>
    /\ pending' = << >>
    /\ UNCHANGED <<vars, position, recurrent, counted, mtp_state, last_final_hidden>>
    /\ \E accepted \in 0 .. Len(pending) :
          LET prefix == SubSeq(pending, 1, accepted)
          IN  IF accepted = 0 THEN AnswerOk(reported.tokens)
              ELSE Continue([IdleCall EXCEPT !.method = "commit", !.todo = prefix,
                                             !.gives = reported.tokens \o prefix])

CommitToken ==
    /\ call.method = "commit"
    /\ Consume(Head(call.todo))
    /\ last_final_hidden' = FinalHidden
    /\ UNCHANGED pending
    /\ IF Len(call.todo) > 1 THEN Continue([call EXCEPT !.todo = Tail(@)])
                             ELSE AnswerOk(call.gives)

-----------------------------------------------------------------------------
(* Cancellation and failure *)

(* A method that is refused before it changes anything. *)
Refused ==
    /\ CanDecode \/ (Idle /\ model = "warm" /\ session.status = "none")
    /\ UNCHANGED <<vars, stateVars>>
    /\ AnswerError

(* The cancellation token is read before every token of a prompt, every     *)
(* draft and every candidate. A draft that fails leaves the same behind: it *)
(* fails in the clones.                                                     *)
Cancelled ==
    /\ call.method \in {"prefill", "speculate", "commit"}
    /\ UNCHANGED <<vars, stateVars>>
    /\ AnswerError

Fails ==
    /\ call.method \in {"prefill", "decode", "commit"}
    /\ ConsumeFails(Head(call.todo))
    /\ UNCHANGED <<last_final_hidden, pending>>
    /\ AnswerError

-----------------------------------------------------------------------------
(* load, warmup, reset_session and unload *)

Loaded == model \in {"resident", "warm"}

Load ==
    /\ Idle /\ ~Loaded /\ policy \in ExecutorPolicies
    /\ tokens = 0 /\ pages = << >> /\ checkpoint = << >>
    /\ model' = "resident"
    /\ drafts' \in 0 .. MaximumDrafts
    /\ session_bytes' = NoBytes
    /\ UNCHANGED <<vars, stateVars, call, session, reported>>

Warmup ==
    /\ Idle /\ model = "resident" /\ model' = "warm"
    /\ UNCHANGED <<vars, stateVars, drafts, session_bytes, call, session, reported>>

ResetSession ==
    /\ Idle /\ model # "new"
    /\ DropSession
    /\ session_bytes' = NoBytes
    /\ session' = [status |-> "none", mtp |-> FALSE]
    /\ reported' = Untouched
    /\ UNCHANGED <<model, drafts, call>>

Unload ==
    /\ Idle /\ model # "new"
    /\ DropSession
    /\ model' = "unloaded" /\ drafts' = 0
    /\ session_bytes' = NoBytes
    /\ session' = [status |-> "none", mtp |-> FALSE]
    /\ reported' = Untouched
    /\ UNCHANGED call

ExecutorNext ==
    \/ Load \/ Warmup \/ ResetSession \/ Unload
    \/ Prefill \/ PrefillToken
    \/ Decode \/ DecodeToken \/ DecodeDraft
    \/ CommitSpeculative \/ CommitToken
    \/ Refused \/ Cancelled \/ Fails

(* Until an executor has been loaded the cache goes through its own         *)
(* operations, of which Reset leaves it as Load wants it.                   *)
CpuNext ==
    \/ model = "new" /\ Next /\ UNCHANGED executorVars
    \/ ExecutorNext

CpuInit == Init /\ ExecutorInit

CpuSpec == CpuInit /\ [][CpuNext]_<<vars, executorVars>>

-----------------------------------------------------------------------------
(* Properties *)

CpuTypeOK ==
    /\ model \in {"new", "resident", "warm", "unloaded"}
    /\ drafts \in 0 .. MaximumDrafts
    /\ position \in {<< >>} \cup {<<n>> : n \in 0 .. Context}
    /\ counted \in [Layers -> 0 .. Context]
    /\ Len(mtp_state) <= 1
    /\ \A m \in DOMAIN mtp_state : mtp_state[m].tokens \in 0 .. Context - 1
    /\ pending \in Seq(Values) /\ Len(pending) <= drafts
    /\ session.status \in {"none", "open", "lost"} /\ session.mtp \in BOOLEAN

TargetRows == [t \in DOMAIN ViewOf(pages) |-> ViewOf(pages)[t].value]

(* The MTP row of a token is computed from the hidden vector of all tokens  *)
(* before it.                                                               *)
MtpRowsOf(sequence) ==
    [t \in 1 .. Len(sequence) - 1 |->
        [token |-> sequence[t + 1], from |-> SubSeq(sequence, 1, t)]]

Owners(sequence) ==
    /\ position = <<Len(sequence)>>
    /\ \A l \in Layers : counted[l] = Len(sequence)
    /\ \A l \in LinearLayers : recurrent[l] = sequence
    /\ TargetRows = sequence
    /\ last_final_hidden = sequence
    /\ mtp_state = IF session.mtp
                   THEN <<[rows |-> MtpRowsOf(sequence), tokens |-> Len(sequence) - 1]>>
                   ELSE << >>

(* Between two calls of a live session every layer, the position, the       *)
(* hidden vector and the MTP cache hold exactly the prompt and, for every   *)
(* decode, its token and the accepted drafts: what the drafts did to the    *)
(* clones never reaches the session, and the MTP rows that commit computes  *)
(* again come from the hidden vectors the target really had. The bytes      *)
(* reported are those of the session as it is.                              *)
CpuOwnersAgree ==
    /\ CpuTypeOK
    /\ InSession => Owners(reported.tokens) /\ session_bytes = SessionBytes
    /\ Idle /\ session.status = "none" => session_bytes = NoBytes /\ mtp_state = << >>

(* A session that the engine admitted never fails on a bound of its own     *)
(* state, up to the last token of the context: every position that a call   *)
(* is about to take passes the checks of the target, of its layers and of   *)
(* the MTP cache, which has one row less, in the session and in the clones. *)
BoundsNeverRefuse ==
    /\ call.method \in {"prefill", "decode", "commit"} =>
          /\ TargetAccepts
          /\ position[1] + Len(call.todo) <= Context
          /\ TakesMtp => MtpAccepts(mtp_state[1].tokens, position[1])
    /\ call.method = "speculate" =>
          /\ call.target_branch < Context
          /\ Len(call.candidates) + 1 < drafts =>
                MtpAccepts(call.mtp_branch, call.target_branch)

(* The executor answers as the trait promises: one token and a branch for a *)
(* decode, exactly the accepted prefix for a commit, and no residue.        *)
Contract ==
    INSTANCE ExecutorContract WITH
        MaxContext <- Context, MaxDrafts <- MaximumDrafts, ExecutorDrafts <- MaximumDrafts,
        model <- IF Loaded THEN model ELSE "absent",
        position <- reported.position, pending <- reported.pending,
        state <- reported.state

ImplementsExecutor == Contract!ContractSpec

=============================================================================
