---------------------------- MODULE PagedKvCache ----------------------------
(***************************************************************************)
(* The reference paged KV cache of kv_cache.rs: pages of packed tokens,    *)
(* each wholly Q4 or wholly Q2, of which an append demotes those that left *)
(* the retention windows. One of several retention policies is admitted by *)
(* the constructor and kept for the life of the cache. The rows of a token *)
(* are one member of Values; packing keeps the value and fixes the         *)
(* precision it can be read at, and a Q2 page is never Q4 again.           *)
(*                                                                         *)
(* PushRetainingQ4, AppendCheckpoint and RestoreAppendCheckpoint are in    *)
(* test builds only, where the cache shadows the Metal owner through its   *)
(* branches: while a checkpoint is held, appends retain Q4. The CPU        *)
(* executor pushes and resets, and speculates on clones.                   *)
(***************************************************************************)
EXTENDS Naturals, Sequences, SequencesExt

CONSTANTS Values,
          Capacity,           \* BOUND on maximum_tokens
          Q2TokenBytes,       \* packed_bytes_for_values(.., Q2)
          Q4TokenBytes        \* packed_bytes_for_values(.., Q4)

ASSUME CapacityAssumption == Capacity \in Nat \ {0}
ASSUME BytesAssumption ==
    Q2TokenBytes \in Nat \ {0} /\ Q4TokenBytes \in Nat \ {0}

VARIABLES policy,             \* maximum_tokens, page_tokens, sink, recent
          tokens,             \* tokens
          pages,              \* pages
          checkpoint          \* << >>, or << a PagedKvAppendCheckpoint >>

vars == <<policy, tokens, pages, checkpoint>>

Q2 == 2
Q4 == 4

Policies == [maximum_tokens : 1 .. Capacity, page_tokens : 1 .. Capacity,
             sink_tokens : 0 .. Capacity, recent_tokens : 0 .. Capacity]

(* What PagedKvCache::new accepts of a retention policy. *)
Admitted(p) ==
    /\ p.sink_tokens <= p.maximum_tokens
    /\ p.recent_tokens <= p.maximum_tokens
    /\ p.sink_tokens % p.page_tokens = 0

-----------------------------------------------------------------------------
(* Pages *)

TokenBytes(precision) == IF precision = Q2 THEN Q2TokenBytes ELSE Q4TokenBytes

PageBytes(page) == Len(page.values) * TokenBytes(page.precision)

IsFull(page) == Len(page.values) = page.maximum_tokens

Lesser(a, b) == IF a <= b THEN a ELSE b

(* Slip: the token is counted before its page is sized.                     *)
NewPageCountedFirst ==
    [precision |-> Q4, values |-> << >>,
     maximum_tokens |-> Lesser(policy.page_tokens,
                               policy.maximum_tokens - (tokens + 1))]

NewPage == [precision |-> Q4, values |-> << >>,
            maximum_tokens |-> Lesser(policy.page_tokens,
                                      policy.maximum_tokens - tokens)]

PageStart(index) == (index - 1) * policy.page_tokens

SaturatingSub(a, b) == IF a >= b THEN a - b ELSE 0

(* Slip: a page that ends where the window starts is kept one append more.  *)
OldOneLate(book, count) ==
    {index \in DOMAIN book :
        /\ book[index].precision = Q4
        /\ PageStart(index) >= policy.sink_tokens
        /\ PageStart(index) + Len(book[index].values)
              < SaturatingSub(count, policy.recent_tokens)}

(* Slip: the sink is compared with the first token after the page.          *)
OldBySinkEnd(book, count) ==
    {index \in DOMAIN book :
        /\ book[index].precision = Q4
        /\ PageStart(index) + Len(book[index].values) >= policy.sink_tokens
        /\ PageStart(index) + Len(book[index].values)
              <= SaturatingSub(count, policy.recent_tokens)}

(* The pages that demote_old_pages requantizes when count tokens are held.  *)
Old(book, count) ==
    {index \in DOMAIN book :
        /\ book[index].precision = Q4
        /\ PageStart(index) >= policy.sink_tokens
        /\ PageStart(index) + Len(book[index].values)
              <= SaturatingSub(count, policy.recent_tokens)}

Demote(book, count) ==
    [index \in DOMAIN book |->
        IF index \in Old(book, count) THEN [book[index] EXCEPT !.precision = Q2]
                                      ELSE book[index]]

(* The pages after one more token was packed into the last one, or into a   *)
(* new page when there is none or it is full.                               *)
Packed(value) ==
    LET opened == IF pages = << >> \/ IsFull(Last(pages))
                  THEN Append(pages, NewPage) ELSE pages
    IN  [opened EXCEPT ![Len(opened)].values = Append(@, value)]

-----------------------------------------------------------------------------
(* The budget *)

PackedBytes == FoldLeft(LAMBDA sum, page : sum + PageBytes(page), 0, pages)

Q4Tokens ==
    FoldLeft(LAMBDA sum, page :
                IF page.precision = Q4 THEN sum + Len(page.values) ELSE sum,
             0, pages)

MaximumBoundaryQ4Tokens ==
    Lesser(policy.maximum_tokens,
           policy.sink_tokens + policy.recent_tokens + policy.page_tokens - 1)

(* projected_packed_bytes: what count tokens will occupy, computed from the *)
(* policy alone. The code walks page starts; here every token is charged at *)
(* its page's precision.                                                    *)
ProjectedPackedBytes(count) ==
    LET StartOf(i) == ((i - 1) \div policy.page_tokens) * policy.page_tokens
        EndOf(i) == Lesser(StartOf(i) + policy.page_tokens, count)
        Charge(i) == IF \/ StartOf(i) < policy.sink_tokens
                        \/ EndOf(i) > SaturatingSub(count, policy.recent_tokens)
                     THEN Q4TokenBytes ELSE Q2TokenBytes
    IN  FoldLeft(LAMBDA sum, i : sum + Charge(i), 0, [i \in 1 .. count |-> i])

-----------------------------------------------------------------------------

Init ==
    /\ policy \in {p \in Policies : Admitted(p)}
    /\ tokens = 0
    /\ pages = << >>
    /\ checkpoint = << >>

Push(value) ==
    /\ checkpoint = << >>
    /\ tokens < policy.maximum_tokens
    /\ tokens' = tokens + 1
    /\ pages' = Demote(Packed(value), tokens + 1)
    /\ UNCHANGED <<policy, checkpoint>>

PushRetainingQ4(value) ==
    /\ checkpoint # << >>
    /\ tokens < policy.maximum_tokens
    /\ tokens' = tokens + 1
    /\ pages' = Packed(value)
    /\ UNCHANGED <<policy, checkpoint>>

AppendCheckpoint ==
    /\ checkpoint = << >>
    /\ checkpoint' =
          << [tokens |-> tokens, pages |-> Len(pages),
              last_page_bytes |-> IF pages = << >> THEN 0 ELSE PageBytes(Last(pages))] >>
    /\ UNCHANGED <<policy, tokens, pages>>

(* The checks of restore_append_checkpoint. *)
IsPrefixOfCurrent(mark) ==
    /\ mark.tokens <= tokens
    /\ mark.pages <= Len(pages)
    /\ mark.pages = 0 => mark.last_page_bytes = 0
    /\ mark.pages > 0 => mark.last_page_bytes <= PageBytes(pages[mark.pages])

(* Truncation keeps whole tokens of the last page at its present precision. *)
Truncated(mark) ==
    [index \in 1 .. mark.pages |->
        IF index < mark.pages THEN pages[index]
        ELSE [pages[index] EXCEPT !.values =
                SubSeq(@, 1, mark.last_page_bytes \div TokenBytes(pages[index].precision))]]

RestoreAppendCheckpoint ==
    /\ checkpoint # << >>
    /\ IsPrefixOfCurrent(checkpoint[1])
    /\ tokens' = checkpoint[1].tokens
    /\ pages' = Truncated(checkpoint[1])
    /\ checkpoint' = << >>
    /\ UNCHANGED policy

(* The cache has no commit: the mark is a plain value, and its holder keeps *)
(* the branch by dropping it.                                               *)
DropCheckpoint ==
    /\ checkpoint # << >>
    /\ checkpoint' = << >>
    /\ UNCHANGED <<policy, tokens, pages>>

Reset ==
    /\ tokens' = 0
    /\ pages' = << >>
    /\ checkpoint' = << >>
    /\ UNCHANGED policy

Next ==
    \/ \E value \in Values : Push(value) \/ PushRetainingQ4(value)
    \/ AppendCheckpoint \/ RestoreAppendCheckpoint \/ DropCheckpoint
    \/ Reset

Spec == Init /\ [][Next]_vars

-----------------------------------------------------------------------------
(* What a reader gets: flattened_component walks the pages in order. *)

PageView(page) ==
    [t \in DOMAIN page.values |->
        [value |-> page.values[t], precision |-> page.precision]]

ViewOf(book) == FlattenSeq([index \in DOMAIN book |-> PageView(book[index])])

Retention == INSTANCE KvRetention WITH
    held <- ViewOf(pages),
    branch <- IF checkpoint = << >> THEN << >> ELSE <<ViewOf(Truncated(checkpoint[1]))>>,
    readable <- TRUE

PagedTypeOK ==
    /\ policy \in {p \in Policies : Admitted(p)}
    /\ tokens \in 0 .. policy.maximum_tokens
    /\ pages \in Seq([precision : {Q2, Q4}, maximum_tokens : 1 .. Capacity,
                      values : Seq(Values)])
    /\ Len(checkpoint) <= 1

(* The mark of a branch is always a prefix of the present state, so the     *)
(* restore of a rejected branch is never refused.                           *)
RestoreIsNeverRefused ==
    checkpoint # << >> => IsPrefixOfCurrent(checkpoint[1])

(* The cache keeps its shape and its capacity. The token counter, the page  *)
(* count and the fill of every page agree: all pages but the last are full, *)
(* and what is stored is what was counted, up to the short page at the end  *)
(* of the capacity. The demotion arithmetic (page_index * page_tokens)      *)
(* relies on it. In test builds so does the rollback, on a mark that is     *)
(* still a prefix of the cache.                                             *)
PagesCoverTheTokens ==
    /\ PagedTypeOK
    /\ RestoreIsNeverRefused
    /\ \A index \in DOMAIN pages :
          /\ pages[index].values # << >>
          /\ index < Len(pages) => Len(pages[index].values) = policy.page_tokens
    /\ tokens = Len(ViewOf(pages))

(* An ordinary append leaves exactly the bytes that projected_packed_bytes  *)
(* promised the memory plan for that many tokens, and no more Q4 tokens     *)
(* than maximum_boundary_q4_tokens; in test builds also when it follows     *)
(* committed branches that held back demotions.                             *)
PushSettlesTheBudget ==
    [][ tokens' = tokens + 1 /\ checkpoint = << >> =>
          /\ PackedBytes' = ProjectedPackedBytes(tokens + 1)
          /\ Q4Tokens' <= MaximumBoundaryQ4Tokens ]_vars

(* The paged cache implements the retention contract: in order, exact in    *)
(* the windows, and a branch restored from its mark reads as before it.     *)
ImplementsRetention == Retention!Spec

=============================================================================
