---------------------------- MODULE MixedKvCache ----------------------------
(***************************************************************************)
(* The token-grained retention policy of kv_cache.rs (MixedKvCache): every *)
(* append stores its token at Q4 and requantizes at most one other, the    *)
(* one that has just left the recent window. It has no reset, no branch    *)
(* and no failure after a change.                                          *)
(***************************************************************************)
EXTENDS Naturals, Sequences

CONSTANTS Values,
          Capacity            \* BOUND on max_tokens

ASSUME CapacityAssumption == Capacity \in Nat \ {0}

VARIABLES policy,             \* max_tokens, sink_tokens, recent_tokens
          tokens              \* tokens: QuantizedKvToken, in order

vars == <<policy, tokens>>

Q2 == 2
Q4 == 4

Policies == [maximum_tokens : 1 .. Capacity, sink_tokens : 0 .. Capacity,
             recent_tokens : 0 .. Capacity]

Admitted(p) == p.sink_tokens + p.recent_tokens <= p.maximum_tokens

(* Slip: the candidate is the oldest token of the window, not the one       *)
(* before it.                                                               *)
CandidateInTheWindow(length) == length - policy.recent_tokens + 1

(* Index, counted from 1, of the token that a cache of length tokens has    *)
(* just pushed out of its window; 0 when there is none.                     *)
Candidate(length) ==
    IF length > policy.recent_tokens THEN length - policy.recent_tokens ELSE 0

(* Slip: the first token after the sink is spared with it. *)
RequantizedOneLess(book) ==
    [i \in DOMAIN book |->
        IF i = Candidate(Len(book)) /\ i > policy.sink_tokens + 1
        THEN [book[i] EXCEPT !.precision = Q2] ELSE book[i]]

Requantized(book) ==
    [i \in DOMAIN book |->
        IF i = Candidate(Len(book)) /\ i > policy.sink_tokens
        THEN [book[i] EXCEPT !.precision = Q2] ELSE book[i]]

Init ==
    /\ policy \in {p \in Policies : Admitted(p)}
    /\ tokens = << >>

Push(value) ==
    /\ Len(tokens) < policy.maximum_tokens
    /\ tokens' = Requantized(Append(tokens, [value |-> value, precision |-> Q4]))
    /\ UNCHANGED policy

Next == \E value \in Values : Push(value)

Spec == Init /\ [][Next]_vars

-----------------------------------------------------------------------------

Retention == INSTANCE KvRetention WITH
    held <- tokens, branch <- << >>, readable <- TRUE

(* One requantization per append is enough: at every length exactly the     *)
(* tokens between the sink and the recent window are at Q2, which is what a *)
(* memory plan multiplies out, and none was missed or taken early.          *)
PrecisionIsExact ==
    \A i \in DOMAIN tokens :
        tokens[i].precision = Q2 <=> /\ i > policy.sink_tokens
                                     /\ i + policy.recent_tokens <= Len(tokens)

(* The token-grained policy implements the retention contract. *)
ImplementsRetention == Retention!Spec

=============================================================================
