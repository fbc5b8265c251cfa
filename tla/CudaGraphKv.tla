----------------------------- MODULE CudaGraphKv -----------------------------
(***************************************************************************)
(* The paged KV owner of a captured CUDA graph (PreparedCudaGraphPagedGqa  *)
(* in cuda_runtime.rs). It has no page table: the Q2 area of a page is its *)
(* index, the Q4 slot of a page is the page itself in the sink and a slot  *)
(* of a ring behind it, so that a replayed kernel finds both from the      *)
(* position alone. A checkpoint is a token count.                          *)
(*                                                                         *)
(* An owner is a record; the operators return the owner after a kernel or  *)
(* a method. A packed row is named by the position of the token it belongs *)
(* to; Junk is memory that holds no row of the committed sequence. Pages,  *)
(* cells and positions are counted from 0, as in the code.                 *)
(***************************************************************************)
EXTENDS Naturals, Sequences, SequencesExt

CONSTANTS
  MaximumTokens, PageTokens, SinkTokens, RecentTokens,  \* CudaPagedGqaConfig
  Junk

\* prepare_graph_paged_q2q4_gqa refuses every other configuration.
ASSUME PagedAssumption ==
  /\ MaximumTokens \in Nat \ {0} /\ PageTokens \in Nat \ {0}
  /\ SinkTokens \in Nat /\ RecentTokens \in Nat
  /\ SinkTokens % PageTokens = 0 /\ RecentTokens % PageTokens = 0
  /\ SinkTokens <= MaximumTokens /\ RecentTokens <= MaximumTokens

ASSUME JunkAssumption == Junk \notin Nat

-----------------------------------------------------------------------------
(* Geometry *)

SaturatingSub(a, b) == IF a >= b THEN a - b ELSE 0
Smaller(a, b) == IF a <= b THEN a ELSE b

MaximumPages == (MaximumTokens + PageTokens - 1) \div PageTokens
SinkPages == SinkTokens \div PageTokens

\* Slip: the window without the page that leaves it.
RingPagesOfTheWindow ==
  Smaller(SaturatingSub(MaximumPages, SinkPages), RecentTokens \div PageTokens)

RingPages == Smaller(SaturatingSub(MaximumPages, SinkPages), RecentTokens \div PageTokens + 1)

Pages == 0 .. MaximumPages - 1
Slots == 0 .. SinkPages + RingPages - 1
Cells == 0 .. PageTokens - 1

PageOf(position) == position \div PageTokens

\* graph_q4_slot
Q4Slot(page) == IF page < SinkPages THEN page ELSE SinkPages + (page % RingPages)

\* A kernel that is told of committed tokens reads a page at Q4 from here on.
FirstRecentPage(committed) == SaturatingSub(committed, RecentTokens) \div PageTokens

ReadAtQ4(committed, page) ==
  page < SinkPages \/ page >= FirstRecentPage(committed)

-----------------------------------------------------------------------------
(* The owner *)

Owner == [tokens : 0 .. MaximumTokens,
          poisoned : BOOLEAN,
          checkpoint : {<< >>} \cup {<<t>> : t \in 0 .. MaximumTokens},
          q4 : [Slots -> [Cells -> Nat \cup {Junk}]],
          q2 : [Pages -> [Cells -> Nat \cup {Junk}]]]

Blank == [cell \in Cells |-> Junk]

\* prepare and reset zero both arenas.
EmptyOwner ==
  [tokens |-> 0, poisoned |-> FALSE, checkpoint |-> << >>,
   q4 |-> [slot \in Slots |-> Blank],
   q2 |-> [page \in Pages |-> Blank]]

\* What attention over committed tokens reads for the token at position.
RowRead(owner, committed, position) ==
  LET page == PageOf(position)
      cell == position % PageTokens
  IN  IF ReadAtQ4(committed, page) THEN owner.q4[Q4Slot(page)][cell]
      ELSE owner.q2[page][cell]

-----------------------------------------------------------------------------
(* Kernels of an append. A row is packed at Q4 in the place of its position; *)
(* the page that it pushes out of the window is converted next, with what   *)
(* its slot holds then, before attention reads either. A batch packs a      *)
(* segment that never passes the end of a page and converts at each of its  *)
(* ends; pages leave the window only there, so a batch is its rows in order. *)

\* The rows from position start on that land in a place before position end.
Landed(start, rows, end, slot, cell) ==
  {i \in DOMAIN rows :
     LET position == start + i - 1
     IN  /\ position < end /\ position < MaximumTokens
         /\ Q4Slot(PageOf(position)) = slot /\ position % PageTokens = cell}

\* The last one stays.
Packed(q4, start, rows, end) ==
  [slot \in Slots |->
     [cell \in Cells |->
        LET landed == Landed(start, rows, end, slot, cell)
        IN  IF landed = {} THEN q4[slot][cell] ELSE rows[Max(landed)]]]

\* The page whose last token leaves the window when committed tokens are there.
LeavesTheWindow(committed, page) ==
  /\ committed <= MaximumTokens
  /\ SaturatingSub(committed, RecentTokens) = (page + 1) * PageTokens
  /\ page >= SinkPages

Demoted(owner, start, rows) ==
  [page \in Pages |->
     IF \E committed \in start + 1 .. start + Len(rows) : LeavesTheWindow(committed, page)
     THEN Packed(owner.q4, start, rows, (page + 1) * PageTokens + RecentTokens)[Q4Slot(page)]
     ELSE owner.q2[page]]

AppendRows(owner, start, rows) ==
  [owner EXCEPT !.q4 = Packed(owner.q4, start, rows, start + Len(rows)),
                !.q2 = Demoted(owner, start, rows)]

-----------------------------------------------------------------------------
(* Methods *)

\* record_decode_token, n times; refused by a poisoned owner.
Recorded(owner, n) == [owner EXCEPT !.tokens = @ + n]

OwnerCanBegin(owner) == ~owner.poisoned /\ owner.checkpoint = << >>
OwnerBegun(owner) == [owner EXCEPT !.checkpoint = <<owner.tokens>>]
OwnerRestored(owner) ==
  [owner EXCEPT !.tokens = owner.checkpoint[1], !.checkpoint = << >>, !.poisoned = FALSE]
OwnerCommitted(owner) == [owner EXCEPT !.checkpoint = << >>]

(* validate_graph_speculative_prefill_append: a batch in an open branch is  *)
(* one append from the checkpoint, no wider than a page, and does not take  *)
(* the slot of a page still in the window when the new page begins.         *)
SpeculativeAppendAdmitted(owner, n) ==
  LET base == owner.checkpoint[1]
      last == PageOf(base - 1)
      touched == PageOf(base + n - 1)
      recent == FirstRecentPage(touched * PageTokens)
  IN  /\ n > 0 /\ n <= PageTokens /\ owner.tokens = base
      /\ \/ base = 0
         \/ touched = last
         \/ /\ touched = last + 1
            /\ \A page \in recent .. last :
                  page >= SinkPages => Q4Slot(page) # Q4Slot(touched)

=============================================================================
