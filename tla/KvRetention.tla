---------------------------- MODULE KvRetention ----------------------------
(***************************************************************************)
(* What every mixed-precision KV store of the engine promises its reader,  *)
(* without pages, slots or bytes: the tokens appended to a session can be  *)
(* read back in order, the sink and the recent window at the precision     *)
(* they were written with, older ones possibly reduced; a speculative      *)
(* branch can be taken back; a failed append makes the store unreadable    *)
(* until it is rolled back or reset.                                       *)
(*                                                                         *)
(* The CPU reference (PagedKvCache), the token-grained policy              *)
(* (MixedKvCache) and the Metal device cache (MetalPagedKv) are shown to   *)
(* implement this module.                                                  *)
(***************************************************************************)
EXTENDS Naturals, Sequences

CONSTANT Values               \* what a token's key and value rows may hold

VARIABLES policy,             \* capacity and retention windows, in tokens
          held,               \* the tokens, as a reader of the store gets them
          branch,             \* << >>, or << the tokens held at the branch >>
          readable            \* no append has failed half way

vars == <<policy, held, branch, readable>>

Q2 == 2                       \* KvPrecision::Q2
Q4 == 4                       \* KvPrecision::Q4

StoredToken == [value : Values, precision : {Q2, Q4}]

(***************************************************************************)
(* The tokens of a store of count tokens that neither the sink nor the     *)
(* recent window covers.                                                   *)
(***************************************************************************)
Outside(count) ==
    {i \in 1 .. count : /\ i > policy.sink_tokens
                        /\ i + policy.recent_tokens <= count}

Reduced(tokens, which) ==
    [i \in DOMAIN tokens |->
        IF i \in which THEN [tokens[i] EXCEPT !.precision = Q2] ELSE tokens[i]]

-----------------------------------------------------------------------------

TypedPolicy ==
    /\ policy.maximum_tokens \in Nat
    /\ policy.sink_tokens \in Nat
    /\ policy.recent_tokens \in Nat

Init ==
    /\ TypedPolicy
    /\ held = << >>
    /\ branch = << >>
    /\ readable = TRUE

(* Outside a branch any set of uncovered tokens may lose precision. In a    *)
(* branch no token held before may change, or the branch could not be taken *)
(* back.                                                                    *)
Push(value) ==
    LET count == Len(held) + 1
        written == Append(held, [value |-> value, precision |-> Q4])
    IN  /\ readable
        /\ Len(held) < policy.maximum_tokens
        /\ \E which \in SUBSET Outside(count) :
              /\ branch # << >> => which \subseteq {count}
              /\ held' = Reduced(written, which)
        /\ UNCHANGED <<policy, branch, readable>>

Break ==
    /\ readable
    /\ readable' = FALSE
    /\ held' = << >>
    /\ UNCHANGED <<policy, branch>>

Begin ==
    /\ readable
    /\ branch = << >>
    /\ branch' = <<held>>
    /\ UNCHANGED <<policy, held, readable>>

Rollback ==
    /\ branch # << >>
    /\ held' = branch[1]
    /\ branch' = << >>
    /\ readable' = TRUE
    /\ UNCHANGED policy

Commit ==
    /\ readable
    /\ branch # << >>
    /\ branch' = << >>
    /\ UNCHANGED <<policy, held, readable>>

Reset ==
    /\ held' = << >>
    /\ branch' = << >>
    /\ readable' = TRUE
    /\ UNCHANGED policy

Next ==
    \/ \E value \in Values : Push(value)
    \/ Break \/ Begin \/ Rollback \/ Commit \/ Reset

Spec == Init /\ [][Next]_vars

-----------------------------------------------------------------------------

(* A token of the sink or of the recent window is never read at reduced     *)
(* precision, rollbacks and branches included: "a page becomes Q2 only      *)
(* after every token in it has left the recent window".                     *)
WindowKeepsQ4 ==
    \A i \in DOMAIN held :
        held[i].precision = Q2 => i \in Outside(Len(held))

=============================================================================
