---------------------------- MODULE MetalPagedKv ----------------------------
(***************************************************************************)
(* The paged KV owner of one Metal full-attention layer                    *)
(* (PreparedMetalPagedGqa in metal_runtime.rs): page metadata on the host, *)
(* two device arenas (one Q2 area per page, a bounded pool of Q4 slots),   *)
(* the page-to-slot table, and the speculative checkpoint that copies the  *)
(* metadata but never the arenas. An append plans on the host, then runs   *)
(* one command buffer: demotions first, the new token last. Whatever fails *)
(* in between leaves the owner poisoned.                                   *)
(*                                                                         *)
(* Attention reads the arenas through descriptors derived from the         *)
(* metadata; DeviceView is what it gets. The module shows that view to     *)
(* implement KvRetention.                                                  *)
(***************************************************************************)
EXTENDS Naturals, Sequences, SequencesExt, FiniteSets

CONSTANTS Values,             \* key and value rows of a token
          Junk,               \* zeroed or partly written device memory
          Policies            \* the configurations prepare is called with

Policy == [maximum_tokens : Nat \ {0}, page_tokens : Nat \ {0},
           sink_tokens : Nat, recent_tokens : Nat]

ASSUME JunkAssumption == Junk \notin Values
(* cache_config, the only caller outside the tests, keeps a window only     *)
(* behind a whole sink, which is two pages; the verifier cache of a test    *)
(* build refuses any sink that is not whole pages.                          *)
ASSUME PoliciesAssumption ==
    /\ Policies \subseteq Policy
    /\ \A p \in Policies :
          /\ p.sink_tokens <= p.maximum_tokens
          /\ p.recent_tokens <= p.maximum_tokens
          /\ p.recent_tokens > 0 => p.sink_tokens % p.page_tokens = 0

VARIABLES policy,             \* the MetalPagedGqaConfig
          tokens, pages,      \* cache: MetalPagedKvMetadata
          page_to_q4_slot,    \* slot of each page, or NoSlot
          free_q4_slots,      \* a stack, its top last
          q2_pages, q4_pages, \* the device arenas
          poisoned,
          checkpoint          \* speculative_checkpoint: << >> or << it >>

metadata == <<tokens, pages, page_to_q4_slot, free_q4_slots>>
vars == <<policy, metadata, q2_pages, q4_pages, poisoned, checkpoint>>

Q2 == 2
Q4 == 4
NoSlot == 0                   \* None; slots and pages are counted from 1

-----------------------------------------------------------------------------
(* Geometry *)

CeilDiv(a, b) == (a + b - 1) \div b
Lesser(a, b) == IF a <= b THEN a ELSE b
SaturatingSub(a, b) == IF a >= b THEN a - b ELSE 0

MaximumPages(p) == CeilDiv(p.maximum_tokens, p.page_tokens)

(* Slip: no slot is kept for the page that straddles the window. *)
Q4SlotsWithoutBoundary(p) ==
    LET wanted == (p.sink_tokens \div p.page_tokens)
                    + CeilDiv(p.recent_tokens, p.page_tokens)
    IN  IF wanted = 0 THEN 1 ELSE Lesser(wanted, MaximumPages(p))

(* sink pages, recent pages and one boundary page, clamped to the pages     *)
(* there can be.                                                            *)
Q4Slots(p) ==
    Lesser((p.sink_tokens \div p.page_tokens)
               + CeilDiv(p.recent_tokens, p.page_tokens) + 1,
           MaximumPages(p))

PageIndices == 1 .. MaximumPages(policy)
Slots == 1 .. Q4Slots(policy)
Cells == 1 .. policy.page_tokens

AllSlotsFree(p) == [i \in 1 .. Q4Slots(p) |-> Q4Slots(p) + 1 - i]

NoPageMapped(p) == [index \in 1 .. MaximumPages(p) |-> NoSlot]
Zeroed(areas, p) == [area \in areas |-> [cell \in 1 .. p.page_tokens |-> Junk]]

-----------------------------------------------------------------------------
(* MetalPagedKvMetadata::push *)

Opened ==
    IF pages = << >> \/ Last(pages).tokens = policy.page_tokens
    THEN Append(pages, [tokens |-> 0, precision |-> Q4])
    ELSE pages

Counted(book) == [book EXCEPT ![Len(book)].tokens = @ + 1]

PageStart(index) == (index - 1) * policy.page_tokens

Demoted(book, count) ==
    {index \in DOMAIN book :
        /\ book[index].precision = Q4
        /\ PageStart(index) >= policy.sink_tokens
        /\ PageStart(index) + book[index].tokens
              <= SaturatingSub(count, policy.recent_tokens)}

InOrder(indices) ==
    CHOOSE s \in [1 .. Cardinality(indices) -> indices] :
        \A i, j \in DOMAIN s : i < j => s[i] < s[j]

(* The pages after the append and the pages it demotes, in order; an open   *)
(* branch retains Q4.                                                       *)
PushInto(book) ==
    LET gone == IF checkpoint # << >> THEN {} ELSE Demoted(book, tokens + 1)
    IN  [pages |-> [index \in DOMAIN book |->
                       IF index \in gone THEN [book[index] EXCEPT !.precision = Q2]
                                         ELSE book[index]],
         demoted |-> InOrder(gone)]

Pushed == PushInto(Counted(Opened))

-----------------------------------------------------------------------------
(* plan_paged_gqa_append: the slots of the demoted pages are freed one by   *)
(* one, then the current page gets a slot unless it has one. The plan fails *)
(* at the first demoted page that is partial or has no slot, at a current   *)
(* page that is not Q4, and at an empty pool; what was changed up to there  *)
(* stays changed.                                                           *)

(* Position of the first demoted page that is partial or has no slot, or 0. *)
Unreleasable(pushed) ==
    SelectInSeq(pushed.demoted,
                LAMBDA page : \/ pushed.pages[page].tokens # policy.page_tokens
                              \/ page_to_q4_slot[page] = NoSlot)

Released(pushed) ==
    IF Unreleasable(pushed) = 0 THEN pushed.demoted
    ELSE SubSeq(pushed.demoted, 1, Unreleasable(pushed) - 1)

Unmapped(released) ==
    [page \in DOMAIN page_to_q4_slot |->
        IF page \in ToSet(released) THEN NoSlot ELSE page_to_q4_slot[page]]

Returned(released) ==
    free_q4_slots \o [i \in DOMAIN released |-> page_to_q4_slot[released[i]]]

(* The plan for the page current, given the table and the pool after the    *)
(* releases.                                                                *)
Assign(pushed, released, current, table, pool) ==
    LET ok == /\ Len(released) = Len(pushed.demoted)
              /\ pushed.pages[current].precision = Q4
              /\ table[current] # NoSlot \/ pool # << >>
        takes == ok /\ table[current] = NoSlot
    IN  [ok |-> ok,
         pages |-> pushed.pages,
         released |-> released,
         page_to_q4_slot |-> IF takes THEN [table EXCEPT ![current] = Last(pool)] ELSE table,
         free_q4_slots |-> IF takes THEN Front(pool) ELSE pool,
         q4_slot |-> IF takes THEN Last(pool) ELSE table[current],
         cell |-> pushed.pages[current].tokens]

PlanFor(pushed, released) ==
    Assign(pushed, released, Len(pushed.pages), Unmapped(released), Returned(released))

Plan == LET pushed == Pushed IN PlanFor(pushed, Released(pushed))

PackedArena(plan, value) == [q4_pages EXCEPT ![plan.q4_slot][plan.cell] = value]

(* Slip: the demoted pages are copied after the token was packed. *)
DemotedArenaAfterPacking(plan, value) ==
    [page \in DOMAIN q2_pages |->
        IF page \in ToSet(plan.released) THEN PackedArena(plan, value)[page_to_q4_slot[page]]
                                         ELSE q2_pages[page]]

(* The command buffer runs its commands in order: every demoted page is     *)
(* converted from its old slot into its Q2 area before the token is packed, *)
(* for the token may go into a slot that was just released.                 *)
DemotedArena(plan, value) ==
    [page \in DOMAIN q2_pages |->
        IF page \in ToSet(plan.released) THEN q4_pages[page_to_q4_slot[page]]
                                         ELSE q2_pages[page]]

-----------------------------------------------------------------------------

Init ==
    /\ policy \in Policies
    /\ tokens = 0
    /\ pages = << >>
    /\ page_to_q4_slot = NoPageMapped(policy)
    /\ free_q4_slots = AllSlotsFree(policy)
    /\ q2_pages = Zeroed(PageIndices, policy)
    /\ q4_pages = Zeroed(Slots, policy)
    /\ poisoned = FALSE
    /\ checkpoint = << >>

(* The checks before anything is planned. *)
Appendable == ~poisoned /\ tokens < policy.maximum_tokens

(* What the plan leaves on the host, whatever becomes of it. *)
Planned(plan) ==
    /\ tokens' = tokens + 1
    /\ pages' = plan.pages
    /\ page_to_q4_slot' = plan.page_to_q4_slot
    /\ free_q4_slots' = plan.free_q4_slots
    /\ UNCHANGED <<policy, checkpoint>>

AppendAndDispatch(plan, value) ==
    /\ Planned(plan)
    /\ plan.ok
    /\ q2_pages' = DemotedArena(plan, value)
    /\ q4_pages' = PackedArena(plan, value)
    /\ UNCHANGED poisoned

(* The plan failed: nothing was encoded. *)
AppendNotPlanned(plan) ==
    /\ Planned(plan)
    /\ ~plan.ok
    /\ poisoned' = TRUE
    /\ UNCHANGED <<q2_pages, q4_pages>>

(* The command buffer did not complete, or its output was not finite: each  *)
(* place it writes holds what it held, what it should, or part of it.       *)
AppendFailed(plan, value) ==
    /\ Planned(plan)
    /\ plan.ok
    /\ poisoned' = TRUE
    /\ \E area \in {q2_pages, DemotedArena(plan, value)} : q2_pages' = area
    /\ \E written \in {q4_pages[plan.q4_slot][plan.cell], value, Junk} :
          q4_pages' = [q4_pages EXCEPT ![plan.q4_slot][plan.cell] = written]

BeginSpeculative ==
    /\ ~poisoned
    /\ checkpoint = << >>
    /\ free_q4_slots # << >>
    /\ checkpoint' =
          << [tokens |-> tokens, pages |-> Len(pages),
              last_page_tokens |-> IF pages = << >> THEN 0 ELSE Last(pages).tokens,
              page_to_q4_slot |-> page_to_q4_slot,
              free_q4_slots |-> free_q4_slots] >>
    /\ UNCHANGED <<policy, metadata, q2_pages, q4_pages, poisoned>>

(* The checks of MetalPagedKvMetadata::restore. *)
IsPrefixOfCurrent(mark) ==
    /\ mark.tokens <= tokens
    /\ mark.pages <= Len(pages)
    /\ mark.pages = 0 => mark.last_page_tokens = 0
    /\ mark.last_page_tokens <= policy.page_tokens

Truncated(mark) ==
    [index \in 1 .. mark.pages |->
        IF index < mark.pages THEN pages[index]
        ELSE [pages[index] EXCEPT !.tokens = mark.last_page_tokens]]

(* Slip: the pool keeps the slots the branch took. *)
RestoreKeepingThePool ==
    /\ checkpoint # << >>
    /\ IsPrefixOfCurrent(checkpoint[1])
    /\ tokens' = checkpoint[1].tokens
    /\ pages' = Truncated(checkpoint[1])
    /\ page_to_q4_slot' = checkpoint[1].page_to_q4_slot
    /\ checkpoint' = << >>
    /\ poisoned' = FALSE
    /\ UNCHANGED <<policy, free_q4_slots, q2_pages, q4_pages>>

RestoreSpeculative ==
    /\ checkpoint # << >>
    /\ IsPrefixOfCurrent(checkpoint[1])
    /\ tokens' = checkpoint[1].tokens
    /\ pages' = Truncated(checkpoint[1])
    /\ page_to_q4_slot' = checkpoint[1].page_to_q4_slot
    /\ free_q4_slots' = checkpoint[1].free_q4_slots
    /\ checkpoint' = << >>
    /\ poisoned' = FALSE
    /\ UNCHANGED <<policy, q2_pages, q4_pages>>

CommitSpeculative ==
    /\ ~poisoned
    /\ checkpoint # << >>
    /\ checkpoint' = << >>
    /\ UNCHANGED <<policy, metadata, q2_pages, q4_pages, poisoned>>

Reset ==
    /\ tokens' = 0
    /\ pages' = << >>
    /\ page_to_q4_slot' = NoPageMapped(policy)
    /\ free_q4_slots' = AllSlotsFree(policy)
    /\ q2_pages' = Zeroed(PageIndices, policy)
    /\ q4_pages' = Zeroed(Slots, policy)
    /\ poisoned' = FALSE
    /\ checkpoint' = << >>
    /\ UNCHANGED policy

Next ==
    \/ /\ Appendable
       /\ \E plan \in {Plan} :
             \/ \E value \in Values :
                   AppendAndDispatch(plan, value) \/ AppendFailed(plan, value)
             \/ AppendNotPlanned(plan)
    \/ BeginSpeculative \/ RestoreSpeculative \/ CommitSpeculative
    \/ Reset

Spec == Init /\ [][Next]_vars

-----------------------------------------------------------------------------
(* What attention reads through the descriptors of some metadata *)

ReadAt(book, table, t) ==
    LET index == ((t - 1) \div policy.page_tokens) + 1
        cell == ((t - 1) % policy.page_tokens) + 1
        q4 == book[index].precision = Q4
    IN  [value |-> IF q4 THEN q4_pages[table[index]][cell] ELSE q2_pages[index][cell],
         precision |-> book[index].precision]

DeviceView(book, table, count) == [t \in 1 .. count |-> ReadAt(book, table, t)]

Retention == INSTANCE KvRetention WITH
    held <- IF poisoned THEN << >> ELSE DeviceView(pages, page_to_q4_slot, tokens),
    branch <- IF checkpoint = << >> THEN << >>
              ELSE <<DeviceView(Truncated(checkpoint[1]),
                                checkpoint[1].page_to_q4_slot,
                                checkpoint[1].tokens)>>,
    readable <- ~poisoned

MetalTypeOK ==
    /\ policy \in Policies
    /\ tokens \in 0 .. policy.maximum_tokens
    /\ pages \in Seq([tokens : Cells, precision : {Q2, Q4}])
    /\ Len(pages) <= MaximumPages(policy)
    /\ page_to_q4_slot \in [PageIndices -> Slots \cup {NoSlot}]
    /\ free_q4_slots \in Seq(Slots)
    /\ q2_pages \in [PageIndices -> [Cells -> Values \cup {Junk}]]
    /\ q4_pages \in [Slots -> [Cells -> Values \cup {Junk}]]
    /\ poisoned \in BOOLEAN
    /\ Len(checkpoint) <= 1

(* The owner keeps its shape. Every Q4 slot is in the pool once or backs    *)
(* exactly one page, and exactly the Q4 pages are backed, through demotions *)
(* that free and reuse a slot in one append, rejected branches and resets:  *)
(* no two pages share memory and no slot leaks.                             *)
SlotsArePartitioned ==
    /\ MetalTypeOK
    /\ ~poisoned =>
          LET backed == {page \in PageIndices : page_to_q4_slot[page] # NoSlot}
              mapped == {page_to_q4_slot[page] : page \in backed}
          IN  /\ Cardinality(mapped) = Cardinality(backed)
              /\ IsInjective(free_q4_slots)
              /\ mapped \cap ToSet(free_q4_slots) = {}
              /\ mapped \cup ToSet(free_q4_slots) = Slots
              /\ backed = {page \in DOMAIN pages : pages[page].precision = Q4}

(* A branch can be taken back from any state it leads to, failed appends    *)
(* included.                                                                *)
RestoreIsNeverRefused ==
    checkpoint # << >> => IsPrefixOfCurrent(checkpoint[1])

(* With a recent window, an append outside a branch always finds the slot   *)
(* it needs: sink, window and one boundary page are enough at every         *)
(* alignment, and after any committed branch that held back demotions.      *)
OrdinaryAppendAlwaysFits ==
    Appendable /\ checkpoint = << >> /\ policy.recent_tokens > 0 => Plan.ok

(* What attention reads through the descriptors is what was appended, in    *)
(* order and at window precision, and a rejected branch, even one that      *)
(* failed on the device, reads as before it although the arenas were never  *)
(* copied.                                                                  *)
ImplementsRetention == Retention!Spec

(* The notes say of a branch that it may "use the memory-plan boundary      *)
(* slot", and begin_speculative that "the extra retained Q4 boundary slot"  *)
(* is what makes a four-token branch safe: a healthy owner with room left   *)
(* has that slot whenever a branch can begin.                               *)
BoundarySlotIsRetained ==
    Appendable /\ checkpoint = << >> => free_q4_slots # << >>

=============================================================================
