------------------------- MODULE CudaExecutorProofs -------------------------
(***************************************************************************)
(* Proofs about CudaGraphKv and CudaExecutor, for every geometry of the    *)
(* cache, width of a block, chunk and draft depth.                         *)
(*                                                                         *)
(* First the ring of Q4 pages: it is large enough for every geometry that  *)
(* prepare admits, and as long as nothing is undone, attention reads every *)
(* token that was appended. That a rollback keeps this is not so: see      *)
(* CommittedRowsAreIntact in CudaExecutor. Then the executor.              *)
(***************************************************************************)
EXTENDS CudaExecutor, WellFoundedInduction, TLAPS

-----------------------------------------------------------------------------
(* Arithmetic of pages *)

LEMMA DivMod ==
  ASSUME NEW a \in Nat, NEW n \in Nat \ {0}
  PROVE  /\ a \div n \in Nat /\ a % n \in 0 .. n - 1
         /\ a = n * (a \div n) + (a % n)
OBVIOUS

\* Two numbers less than n apart fall into different slots of a ring of n.
LEMMA DistinctResidues ==
  ASSUME NEW n \in Nat \ {0}, NEW p \in Nat, NEW q \in Nat, p < q, q - p < n
  PROVE  p % n # q % n
<1> SUFFICES ASSUME p % n = q % n PROVE FALSE
  OBVIOUS
<1> DEFINE a == p \div n
           b == q \div n
<1>1. /\ a \in Nat /\ b \in Nat
      /\ p = n * a + (p % n)
      /\ q = n * b + (q % n)
  BY DivMod
<1> HIDE DEF a, b
<1>2. q - p = n * (b - a)
  BY <1>1, DivMod
<1>3. CASE b - a <= 0
  BY <1>1, <1>2, <1>3
<1>4. CASE b - a >= 1
  <2>1. n * (b - a) >= n
    BY <1>1, <1>4
  <2> QED BY <1>2, <2>1
<1> QED BY <1>1, <1>3, <1>4

LEMMA Monotone ==
  ASSUME NEW n \in Nat, NEW a \in Int, NEW b \in Int, a <= b
  PROVE  n * a <= n * b
<1>1. n * (b - a) >= 0
  OBVIOUS
<1> QED BY <1>1

-----------------------------------------------------------------------------
(* The geometry of an owner *)

\* Sink and window are whole pages.
LEMMA WholePages ==
  /\ PageTokens \in Nat \ {0} /\ RecentTokens \in Nat /\ MaximumTokens \in Nat
  /\ SinkPages \in Nat /\ MaximumPages \in Nat
  /\ RecentTokens \div PageTokens \in Nat
  /\ RecentTokens = PageTokens * (RecentTokens \div PageTokens)
<1>1. /\ PageTokens \in Nat \ {0} /\ RecentTokens \in Nat /\ MaximumTokens \in Nat
      /\ SinkTokens \in Nat /\ RecentTokens % PageTokens = 0
  BY PagedAssumption
<1>2. /\ RecentTokens \div PageTokens \in Nat
      /\ RecentTokens = PageTokens * (RecentTokens \div PageTokens)
  BY <1>1, DivMod
<1>3. SinkPages \in Nat
  BY <1>1, DivMod DEF SinkPages
<1>4. MaximumPages \in Nat
  <2>1. MaximumTokens + PageTokens - 1 \in Nat
    BY <1>1
  <2> QED BY <1>1, <2>1, DivMod DEF MaximumPages
<1> QED BY <1>1, <1>2, <1>3, <1>4

\* A page is inside the window as long as its end is.
LEMMA InsideTheWindow ==
  ASSUME NEW committed \in Nat, NEW page \in Nat
  PROVE  page >= FirstRecentPage(committed)
           <=> PageTokens * (page + 1) + RecentTokens > committed
<1> DEFINE start == SaturatingSub(committed, RecentTokens)
           first == start \div PageTokens
<1>1. PageTokens \in Nat \ {0} /\ RecentTokens \in Nat
  BY WholePages
<1>2. start \in Nat
  BY <1>1 DEF SaturatingSub
<1>4. FirstRecentPage(committed) = first
  BY DEF FirstRecentPage
<1>5. PageTokens * (page + 1) > start <=> PageTokens * (page + 1) + RecentTokens > committed
  <2>1. PageTokens * (page + 1) > 0
    BY <1>1
  <2> QED BY <1>1, <2>1 DEF SaturatingSub
<1> HIDE DEF start
<1>3. /\ first \in Nat /\ start >= PageTokens * first
      /\ start < PageTokens * first + PageTokens
  <2>1. first \in Nat /\ start % PageTokens \in 0 .. PageTokens - 1
    BY <1>1, <1>2, DivMod
  <2>2. start = PageTokens * first + (start % PageTokens)
    BY <1>1, <1>2, DivMod
  <2> HIDE DEF first
  <2>3. PageTokens * first \in Nat
    BY <1>1, <2>1
  <2> QED BY <1>1, <2>1, <2>2, <2>3
<1> HIDE DEF first
<1>6. CASE page >= first
  <2>1. PageTokens * (first + 1) <= PageTokens * (page + 1)
    BY <1>1, <1>3, <1>6, Monotone
  <2>2. PageTokens * (first + 1) = PageTokens * first + PageTokens
    BY <1>1, <1>3
  <2> QED BY <1>1, <1>2, <1>3, <1>4, <1>5, <1>6, <2>1, <2>2
<1>7. CASE page < first
  <2>1. PageTokens * (page + 1) <= PageTokens * first
    BY <1>1, <1>3, <1>7, Monotone
  <2> QED BY <1>1, <1>2, <1>3, <1>4, <1>5, <1>7, <2>1
<1> QED BY <1>3, <1>6, <1>7

\* The ring: never empty where it is used, and as long as the window and the
\* page that is being written.
LEMMA RingSize ==
  ASSUME NEW p \in Pages, NEW q \in Pages, SinkPages <= p, p <= q,
         q - p <= RecentTokens \div PageTokens
  PROVE  RingPages \in Nat \ {0} /\ q - p < RingPages
BY WholePages DEF Pages, RingPages, Smaller, SaturatingSub

(* The pages whose Q4 slot the kernels of the append that leads to committed *)
(* tokens use: the one that is packed, the one that leaves the window and is *)
(* converted, and those attention reads.                                     *)
Touched(committed, page) ==
  /\ page \in Pages /\ PageTokens * page < committed
  /\ page < SinkPages \/ PageTokens * (page + 1) + RecentTokens >= committed

(* No two pages that one append uses at Q4 share a slot, whatever the       *)
(* geometry and the number of tokens: the ring of graph_q4_slot is as large *)
(* as the window can be wide.                                               *)
THEOREM RingIsEnough ==
  ASSUME NEW committed \in Nat, NEW p \in Pages, NEW q \in Pages,
         Touched(committed, p), Touched(committed, q), p # q
  PROVE  Q4Slot(p) # Q4Slot(q)
<1>1. /\ PageTokens \in Nat \ {0} /\ RecentTokens \in Nat /\ SinkPages \in Nat
      /\ RecentTokens \div PageTokens \in Nat
      /\ RecentTokens = PageTokens * (RecentTokens \div PageTokens)
  BY WholePages
<1>2. Pages \subseteq Nat
  BY WholePages DEF Pages
<1>3. ASSUME NEW a \in Pages, NEW b \in Pages, a < b, SinkPages <= a,
             Touched(committed, a), Touched(committed, b)
      PROVE  /\ RingPages \in Nat \ {0} /\ b - a < RingPages
             /\ a % RingPages # b % RingPages
  <2> DEFINE width == RecentTokens \div PageTokens
  <2>1. PageTokens * (a + 1) + RecentTokens >= committed
    BY <1>1, <1>2, <1>3 DEF Touched
  <2>2. PageTokens * b < committed
    BY <1>3 DEF Touched
  <2>3. PageTokens * b < PageTokens * (a + 1 + width)
    <3>1. PageTokens * (a + 1 + width) = PageTokens * (a + 1) + PageTokens * width
      BY <1>1, <1>2
    <3> QED BY <1>1, <1>2, <2>1, <2>2, <3>1
  <2>4. b < a + 1 + width
    <3>1. CASE a + 1 + width <= b
      BY <1>1, <1>2, <2>3, <3>1, Monotone
    <3> QED BY <1>1, <1>2, <3>1
  <2>5. b - a <= width
    BY <1>1, <1>2, <2>4
  <2>6. RingPages \in Nat \ {0} /\ b - a < RingPages
    BY <1>3, <2>5, RingSize, <1>1, <1>2
  <2> QED BY <1>2, <1>3, <2>6, DistinctResidues
<1>4. CASE p < SinkPages \/ q < SinkPages
  <2>1. ASSUME NEW page \in Pages, page >= SinkPages
        PROVE  page % RingPages \in Nat
    <3>1. RingPages \in Nat \ {0}
      BY <1>1, <1>2, <2>1, RingSize
    <3> QED BY <1>2, <3>1, DivMod
  <2> QED BY <1>1, <1>2, <1>4, <2>1 DEF Q4Slot
<1>5. CASE p >= SinkPages /\ q >= SinkPages
  <2>1. p % RingPages # q % RingPages
    BY <1>1, <1>2, <1>3, <1>5
  <2>2. p % RingPages \in Nat /\ q % RingPages \in Nat
    <3>1. RingPages \in Nat \ {0}
      BY <1>1, <1>2, <1>5, RingSize
    <3> QED BY <1>2, <3>1, DivMod
  <2> QED BY <1>1, <1>2, <1>5, <2>1, <2>2 DEF Q4Slot
<1> QED BY <1>1, <1>2, <1>4, <1>5

-----------------------------------------------------------------------------
(* Places of positions *)

LEMMA PlaceOfAPosition ==
  ASSUME NEW position \in 0 .. MaximumTokens - 1
  PROVE  /\ PageOf(position) \in Pages /\ position % PageTokens \in Cells
         /\ position = PageTokens * PageOf(position) + (position % PageTokens)
         /\ PageTokens * PageOf(position) <= position
         /\ position < PageTokens * (PageOf(position) + 1)
<1> DEFINE page == position \div PageTokens
           cell == position % PageTokens
           padded == MaximumTokens + PageTokens - 1
<1>1. PageTokens \in Nat \ {0} /\ MaximumTokens \in Nat /\ position \in Nat
      /\ MaximumPages \in Nat /\ padded \in Nat
  BY WholePages
<1>2. page \in Nat /\ cell \in 0 .. PageTokens - 1
  BY <1>1, DivMod
<1>3. position = PageTokens * page + cell
  BY <1>1, DivMod
<1>4. MaximumPages = padded \div PageTokens
  BY DEF MaximumPages
<1> HIDE DEF page, cell
<1>5. PageTokens * page \in Nat /\ PageTokens * (page + 1) = PageTokens * page + PageTokens
  BY <1>1, <1>2
<1>6. padded < PageTokens * MaximumPages + PageTokens
  <2> HIDE DEF padded
  <2>1. padded % PageTokens \in 0 .. PageTokens - 1
        /\ padded = PageTokens * MaximumPages + (padded % PageTokens)
    BY <1>1, <1>4, DivMod
  <2>2. PageTokens * MaximumPages \in Nat
    BY <1>1
  <2> QED BY <1>1, <2>1, <2>2
<1>7. page < MaximumPages
  <2>1. CASE MaximumPages <= page
    <3>1. PageTokens * MaximumPages <= PageTokens * page
      BY <1>1, <1>2, <2>1, Monotone
    <3>2. PageTokens * MaximumPages \in Nat
      BY <1>1
    <3> QED BY <1>1, <1>2, <1>3, <1>5, <1>6, <3>1, <3>2
  <2> QED BY <1>1, <1>2, <2>1
<1>8. page \in Pages /\ cell \in Cells
  BY <1>1, <1>2, <1>7 DEF Pages, Cells
<1>9. PageOf(position) = page /\ position % PageTokens = cell
  BY DEF PageOf, page, cell
<1> QED BY <1>1, <1>2, <1>3, <1>5, <1>8, <1>9

LEMMA SlotOfAPage ==
  ASSUME NEW page \in Pages
  PROVE  Q4Slot(page) \in Slots
<1>1. SinkPages \in Nat /\ page \in Nat /\ RecentTokens \div PageTokens \in Nat
  BY WholePages DEF Pages
<1>2. RingPages \in Nat
  BY WholePages DEF RingPages, Smaller, SaturatingSub
<1>3. CASE page < SinkPages
  BY <1>1, <1>2, <1>3 DEF Q4Slot, Slots
<1>4. CASE page >= SinkPages
  <2>1. RingPages \in Nat \ {0}
    BY <1>1, <1>4, RingSize
  <2>2. page % RingPages \in 0 .. RingPages - 1
    BY <1>1, <2>1, DivMod
  <2>3. Q4Slot(page) = SinkPages + (page % RingPages)
    BY <1>1, <1>4 DEF Q4Slot
  <2> QED BY <1>1, <2>1, <2>2, <2>3 DEF Slots
<1> QED BY <1>1, <1>3, <1>4

-----------------------------------------------------------------------------
(* What a batch packs *)

Cell == Nat \cup {Junk}
Q4Arena == [Slots -> [Cells -> Cell]]

\* A non-empty set of indices has a largest one.
LEMMA Largest ==
  ASSUME NEW n \in Nat, NEW S \in SUBSET (1 .. n), S # {}
  PROVE  Max(S) \in S /\ \A i \in S : i <= Max(S)
<1> DEFINE T == {n - i : i \in S}
<1>1. T \subseteq Nat /\ T # {}
  <2>1. \A i \in S : i \in Nat /\ n - i \in Nat
    OBVIOUS
  <2> QED BY <2>1
<1> DEFINE R == OpToRel(<, Nat)
<1>2. \E x \in T : \A y \in T : ~ (<<y, x>> \in R)
  <2>1. IsWellFoundedOn(R, Nat)
    BY NatLessThanWellFounded
  <2> HIDE DEF T, R
  <2> QED BY <1>1, <2>1, WFMin
<1>3. \E x \in T : \A y \in T : ~ (y < x)
  BY <1>1, <1>2 DEF OpToRel
<1>4. \E i \in S : \A j \in S : i >= j
  <2>1. PICK x \in T : \A y \in T : ~ (y < x)
    BY <1>3
  <2>2. PICK i \in S : x = n - i
    OBVIOUS
  <2>3. ASSUME NEW j \in S PROVE i >= j
    <3>1. ~ (n - j < n - i)
      BY <2>1, <2>2
    <3> QED BY <3>1
  <2> QED BY <2>3
<1> QED BY <1>4 DEF Max

\* Packing keeps the type of the arena.
LEMMA PackedType ==
  ASSUME NEW q4 \in Q4Arena, NEW start \in Nat, NEW rows \in Seq(Cell), NEW end
  PROVE  Packed(q4, start, rows, end) \in Q4Arena
<1>1. ASSUME NEW slot \in Slots, NEW cell \in Cells
      PROVE  (LET landed == Landed(start, rows, end, slot, cell)
              IN  IF landed = {} THEN q4[slot][cell] ELSE rows[Max(landed)]) \in Cell
  <2> DEFINE landed == Landed(start, rows, end, slot, cell)
  <2>1. landed \in SUBSET (1 .. Len(rows)) /\ Len(rows) \in Nat
    BY DEF Landed
  <2>2. q4[slot][cell] \in Cell
    BY DEF Q4Arena
  <2> HIDE DEF landed
  <2>3. CASE landed # {}
    <3>1. Max(landed) \in 1 .. Len(rows)
      BY <2>1, <2>3, Largest
    <3> QED BY <2>3, <3>1 DEF landed
  <2> QED BY <2>2, <2>3 DEF landed
<1> QED BY <1>1 DEF Packed, Q4Arena

\* An append changes the arenas and keeps their type.
LEMMA AppendType ==
  ASSUME NEW owner \in Owner, NEW start \in Nat, NEW rows \in Seq(Cell)
  PROVE  LET after == AppendRows(owner, start, rows)
         IN  /\ after \in Owner
             /\ after.tokens = owner.tokens /\ after.poisoned = owner.poisoned
             /\ after.checkpoint = owner.checkpoint
             /\ after.q4 = Packed(owner.q4, start, rows, start + Len(rows))
             /\ after.q2 = Demoted(owner, start, rows)
<1> DEFINE q4 == Packed(owner.q4, start, rows, start + Len(rows))
           q2 == Demoted(owner, start, rows)
<1>1. owner.q4 \in Q4Arena /\ owner.q2 \in [Pages -> [Cells -> Cell]]
  BY DEF Owner, Q4Arena, Cell
<1>2. q4 \in Q4Arena
  BY <1>1, PackedType
<1>3. q2 \in [Pages -> [Cells -> Cell]]
  <2>1. ASSUME NEW page \in Pages
        PROVE  Packed(owner.q4, start, rows,
                      (page + 1) * PageTokens + RecentTokens)[Q4Slot(page)] \in [Cells -> Cell]
    <3>1. Packed(owner.q4, start, rows, (page + 1) * PageTokens + RecentTokens) \in Q4Arena
      BY <1>1, PackedType
    <3> QED BY <3>1, SlotOfAPage DEF Q4Arena
  <2> QED BY <1>1, <2>1 DEF Demoted
<1>4. AppendRows(owner, start, rows) = [owner EXCEPT !.q4 = q4, !.q2 = q2]
  BY DEF AppendRows
<1> HIDE DEF q4, q2
<1>5. LET after == [owner EXCEPT !.q4 = q4, !.q2 = q2]
      IN  /\ after \in Owner
          /\ after.tokens = owner.tokens /\ after.poisoned = owner.poisoned
          /\ after.checkpoint = owner.checkpoint /\ after.q4 = q4 /\ after.q2 = q2
  BY <1>2, <1>3 DEF Owner, Q4Arena, Cell
<1> QED BY <1>4, <1>5 DEF q4, q2

-----------------------------------------------------------------------------
(* What attention reads after an append *)

\* The page and the cell of a position, and where the page begins and ends.
LEMMA PlaceOf ==
  ASSUME NEW i \in 0 .. MaximumTokens - 1
  PROVE  /\ i \in Nat /\ PageOf(i) \in Pages /\ PageOf(i) \in Nat /\ i % PageTokens \in Cells
         /\ i = PageTokens * PageOf(i) + (i % PageTokens)
         /\ PageTokens * PageOf(i) <= i /\ i < PageTokens * (PageOf(i) + 1)
         /\ PageTokens * PageOf(i) \in Nat /\ PageTokens * (PageOf(i) + 1) \in Nat
<1> DEFINE page == PageOf(i)
<1>1. PageTokens \in Nat \ {0} /\ MaximumTokens \in Nat
  BY WholePages
<1>2. page \in Pages /\ page \in Nat
  BY PlaceOfAPosition, WholePages DEF Pages
<1> HIDE DEF page
<1>3. PageTokens * page \in Nat /\ PageTokens * (page + 1) \in Nat
  BY <1>1, <1>2
<1> QED BY <1>1, <1>2, <1>3, PlaceOfAPosition DEF page

\* Two positions that one append uses are in different places.
LEMMA OwnPlace ==
  ASSUME NEW end \in 0 .. MaximumTokens,
         NEW i \in 0 .. end - 1, NEW w \in 0 .. end - 1, i < w,
         Touched(end, PageOf(i))
  PROVE  Q4Slot(PageOf(i)) # Q4Slot(PageOf(w)) \/ i % PageTokens # w % PageTokens
<1>1. /\ PageTokens \in Nat \ {0} /\ MaximumTokens \in Nat /\ RecentTokens \in Nat
      /\ SinkPages \in Nat
  BY WholePages
<1>2. i \in 0 .. MaximumTokens - 1 /\ w \in 0 .. MaximumTokens - 1
  BY <1>1
<1>3. CASE PageOf(i) = PageOf(w)
  BY <1>2, <1>3, PlaceOf
<1>4. CASE PageOf(i) # PageOf(w)
  <2> DEFINE p == PageOf(i)
             q == PageOf(w)
  <2>1. /\ p \in Pages /\ q \in Pages /\ p \in Nat /\ q \in Nat
        /\ i < PageTokens * (p + 1) /\ PageTokens * q <= w
        /\ w < PageTokens * (q + 1) /\ PageTokens * p <= i
        /\ PageTokens * q \in Nat /\ PageTokens * (p + 1) \in Nat
        /\ PageTokens * (q + 1) \in Nat
    BY <1>2, PlaceOf
  <2>2. Touched(end, p)
    OBVIOUS
  <2>n. p # q
    BY <1>4
  <2> SUFFICES Q4Slot(p) # Q4Slot(q)
    OBVIOUS
  <2> HIDE DEF p, q
  <2>3. p < q
    <3>1. CASE q < p
      <4>1. PageTokens * (q + 1) <= PageTokens * p
        BY <1>1, <2>1, <3>1, Monotone
      <4>2. PageTokens * p \in Nat
        BY <1>1, <2>1
      <4> QED BY <1>1, <2>1, <4>1, <4>2
    <3> QED BY <2>1, <2>n, <3>1
  <2>4. CASE q < SinkPages \/ p >= SinkPages
    <3>1. CASE q < SinkPages
      BY <1>1, <2>1, <3>1, <2>2, <2>n, RingIsEnough DEF Touched
    <3>2. CASE q >= SinkPages /\ p >= SinkPages
      <4>1. PageTokens * (p + 1) <= PageTokens * (q + 1)
        BY <1>1, <2>1, <2>3, Monotone
      <4>2. PageTokens * (p + 1) + RecentTokens >= end
        BY <1>1, <2>1, <2>2, <3>2 DEF Touched
      <4>3. Touched(end, q)
        BY <1>1, <2>1, <4>1, <4>2 DEF Touched
      <4> QED BY <1>1, <2>1, <2>2, <2>n, <4>3, RingIsEnough
    <3> QED BY <1>1, <2>1, <2>4, <3>1, <3>2
  <2>5. CASE p < SinkPages /\ q >= SinkPages
    <3>1. RingPages \in Nat \ {0}
      BY <1>1, <2>1, <2>5, RingSize, WholePages
    <3>2. q % RingPages \in Nat
      BY <2>1, <3>1, DivMod
    <3> QED BY <1>1, <2>1, <2>5, <3>2 DEF Q4Slot
  <2> QED BY <1>1, <2>1, <2>4, <2>5
<1> QED BY <1>3, <1>4

\* The place of a position that is in use holds its own row: the batch's, or
\* the one that was there.
LEMMA LastInPlace ==
  ASSUME NEW q4 \in Q4Arena, NEW start \in Nat, NEW rows \in Seq(Cell),
         NEW end \in 0 .. MaximumTokens, start <= end, end <= start + Len(rows),
         NEW i \in 0 .. end - 1, Touched(end, PageOf(i))
  PROVE  Packed(q4, start, rows, end)[Q4Slot(PageOf(i))][i % PageTokens]
           = IF i >= start THEN rows[i - start + 1]
             ELSE q4[Q4Slot(PageOf(i))][i % PageTokens]
<1> DEFINE slot == Q4Slot(PageOf(i))
           cell == i % PageTokens
           landed == Landed(start, rows, end, slot, cell)
<1>1. MaximumTokens \in Nat /\ end \in Nat /\ Len(rows) \in Nat /\ DOMAIN rows = 1 .. Len(rows)
  BY WholePages
<1>2. i \in 0 .. MaximumTokens - 1
  BY <1>1
<1>3. slot \in Slots /\ cell \in Cells
  BY <1>2, PlaceOf, SlotOfAPage
<1>4. Packed(q4, start, rows, end)[slot][cell]
        = IF landed = {} THEN q4[slot][cell] ELSE rows[Max(landed)]
  BY <1>3 DEF Packed
<1>5. ASSUME NEW j \in landed
      PROVE  j \in 1 .. Len(rows) /\ start + j - 1 <= i
  <2> DEFINE w == start + j - 1
  <2>1. /\ j \in 1 .. Len(rows) /\ w < end
        /\ Q4Slot(PageOf(w)) = slot /\ w % PageTokens = cell
    BY <1>1 DEF Landed
  <2>2. w \in 0 .. end - 1
    BY <1>1, <2>1
  <2> HIDE DEF w
  <2>3. ~ (i < w)
    BY <2>1, <2>2, OwnPlace
  <2> QED BY <1>2, <2>1, <2>2, <2>3 DEF w
<1>6. CASE i < start
  <2>1. landed = {}
    BY <1>1, <1>2, <1>5, <1>6
  <2> QED BY <1>1, <1>2, <1>4, <1>6, <2>1
<1>7. CASE i >= start
  <2> DEFINE k == i - start + 1
  <2>1. k \in 1 .. Len(rows) /\ start + k - 1 = i
    BY <1>1, <1>7
  <2>2. k \in landed
    BY <1>1, <1>2, <2>1 DEF Landed
  <2>3. landed \in SUBSET (1 .. Len(rows)) /\ \A j \in landed : j <= k
    BY <1>1, <1>5
  <2> HIDE DEF landed, k
  <2>4. Max(landed) \in landed /\ \A j \in landed : j <= Max(landed)
    BY <1>1, <2>2, <2>3, Largest
  <2>5. Max(landed) = k
    <3>1. Max(landed) <= k /\ k <= Max(landed)
      BY <2>2, <2>3, <2>4
    <3>2. Max(landed) \in 1 .. Len(rows)
      BY <2>3, <2>4
    <3> QED BY <1>1, <2>1, <3>1, <3>2
  <2> QED BY <1>4, <1>7, <2>2, <2>5 DEF k
<1> QED BY <1>1, <1>6, <1>7

\* A page that is not read at Q4 any more has left the window at its end.
LEMMA OutsideTheWindow ==
  ASSUME NEW committed \in Nat, NEW page \in Nat
  PROVE  LET end == (page + 1) * PageTokens + RecentTokens
         IN  /\ end \in Nat
             /\ ReadAtQ4(committed, page) <=> page < SinkPages \/ end > committed
             /\ LeavesTheWindow(committed, page)
                  <=> committed <= MaximumTokens /\ page >= SinkPages /\ committed = end
             /\ PageTokens * (page + 1) + RecentTokens = end
<1> DEFINE whole == PageTokens * (page + 1)
<1>1. PageTokens \in Nat \ {0} /\ RecentTokens \in Nat /\ SinkPages \in Nat
  BY WholePages
<1>2. whole \in Nat \ {0} /\ (page + 1) * PageTokens = whole
  BY <1>1
<1>3. page >= FirstRecentPage(committed) <=> whole + RecentTokens > committed
  BY InsideTheWindow
<1>4. LeavesTheWindow(committed, page)
        <=> /\ committed <= MaximumTokens /\ SaturatingSub(committed, RecentTokens) = whole
            /\ page >= SinkPages
  BY <1>2 DEF LeavesTheWindow
<1>5. PageTokens * (page + 1) = whole
  OBVIOUS
<1> HIDE DEF whole
<1>6. SaturatingSub(committed, RecentTokens) = whole <=> committed = whole + RecentTokens
  BY <1>1, <1>2 DEF SaturatingSub
<1> QED BY <1>1, <1>2, <1>3, <1>4, <1>5, <1>6 DEF ReadAtQ4

\* After an append attention reads a position right if it was read right
\* before, or if its row is in the batch.
LEMMA AppendedRowIsRead ==
  ASSUME NEW owner \in Owner, NEW start \in Nat, NEW rows \in Seq(Cell),
         start + Len(rows) <= MaximumTokens,
         NEW i \in 0 .. start + Len(rows) - 1,
         IF i < start THEN RowRead(owner, start, i) = i ELSE rows[i - start + 1] = i
  PROVE  RowRead(AppendRows(owner, start, rows), start + Len(rows), i) = i
<1> DEFINE end == start + Len(rows)
           page == PageOf(i)
           cell == i % PageTokens
           left == (page + 1) * PageTokens + RecentTokens
           after == AppendRows(owner, start, rows)
<1>1. /\ PageTokens \in Nat \ {0} /\ RecentTokens \in Nat /\ MaximumTokens \in Nat
      /\ SinkPages \in Nat /\ Len(rows) \in Nat /\ end \in 0 .. MaximumTokens
  BY WholePages
<1>2. i \in 0 .. MaximumTokens - 1 /\ i \in 0 .. end - 1
  BY <1>1
<1>3. /\ page \in Pages /\ page \in Nat /\ cell \in Cells
      /\ PageTokens * page <= i /\ i < PageTokens * (page + 1)
      /\ PageTokens * page \in Nat /\ PageTokens * (page + 1) \in Nat
  BY <1>2, PlaceOf
<1>4. /\ after.q4 = Packed(owner.q4, start, rows, end)
      /\ after.q2 = Demoted(owner, start, rows)
      /\ owner.q4 \in Q4Arena
  BY AppendType DEF Owner, Q4Arena, Cell
<1>5. /\ left \in Nat /\ left = PageTokens * (page + 1) + RecentTokens
      /\ \A committed \in 0 .. MaximumTokens :
           /\ ReadAtQ4(committed, page) <=> page < SinkPages \/ left > committed
           /\ LeavesTheWindow(committed, page) <=> page >= SinkPages /\ committed = left
  <2> HIDE DEF page
  <2>1. left \in Nat /\ left = PageTokens * (page + 1) + RecentTokens
    BY <1>1, <1>3, OutsideTheWindow
  <2>2. ASSUME NEW committed \in 0 .. MaximumTokens
        PROVE  /\ ReadAtQ4(committed, page) <=> page < SinkPages \/ left > committed
               /\ LeavesTheWindow(committed, page) <=> page >= SinkPages /\ committed = left
    <3>1. committed \in Nat /\ committed <= MaximumTokens
      BY <1>1
    <3> QED BY <1>3, <3>1, OutsideTheWindow
  <2> QED BY <2>1, <2>2
<1>p. /\ start \in 0 .. MaximumTokens
      /\ start <= end /\ \A committed \in start + 1 .. end : committed \in 0 .. MaximumTokens
  BY <1>1
<1>d. /\ \A until : PageTokens * page < until /\ page \in Pages /\ (page < SinkPages \/ left >= until)
                      => Touched(until, page)
      /\ Demoted(owner, start, rows)[page]
           = IF \E committed \in start + 1 .. end : LeavesTheWindow(committed, page)
             THEN Packed(owner.q4, start, rows, left)[Q4Slot(page)]
             ELSE owner.q2[page]
  BY <1>3, <1>5 DEF Touched, Demoted
<1>6. ASSUME NEW until \in 0 .. end, start <= until, i < until, Touched(until, page),
             i < start => ReadAtQ4(start, page)
      PROVE  Packed(owner.q4, start, rows, until)[Q4Slot(page)][cell] = i
  <2>1. Packed(owner.q4, start, rows, until)[Q4Slot(page)][cell]
          = IF i >= start THEN rows[i - start + 1] ELSE owner.q4[Q4Slot(page)][cell]
    <3>1. until \in 0 .. MaximumTokens /\ i \in 0 .. until - 1 /\ until <= start + Len(rows)
      BY <1>1, <1>2, <1>6
    <3> QED BY <1>4, <1>6, <3>1, LastInPlace
  <2>2. i < start => owner.q4[Q4Slot(page)][cell] = i
    BY <1>6 DEF RowRead
  <2> QED BY <1>2, <2>1, <2>2
<1>7. RowRead(after, end, i) = IF ReadAtQ4(end, page) THEN after.q4[Q4Slot(page)][cell]
                               ELSE after.q2[page][cell]
  BY DEF RowRead
<1> SUFFICES RowRead(after, end, i) = i
  OBVIOUS
<1> DEFINE begin == PageTokens * page
<1>b. /\ begin \in Nat /\ begin <= i /\ i < end /\ i \in Nat /\ page \in Nat
      /\ i < PageTokens * (page + 1) /\ PageTokens * (page + 1) \in Nat
      /\ \A until : begin < until /\ (page < SinkPages \/ left >= until) => Touched(until, page)
  BY <1>1, <1>2, <1>3, <1>d
<1>c. i < left
  BY <1>1, <1>5, <1>b
<1> HIDE DEF end, page, cell, left, after, begin
<1>8. CASE ReadAtQ4(end, page)
  <2>1. Touched(end, page)
    <3>1. begin < end /\ (page < SinkPages \/ left >= end)
      BY <1>1, <1>5, <1>8, <1>b
    <3> QED BY <1>b, <3>1
  <2>2. i < start => ReadAtQ4(start, page)
    BY <1>1, <1>5, <1>8, <1>p
  <2> QED BY <1>1, <1>2, <1>4, <1>6, <1>7, <1>8, <1>p, <2>1, <2>2
<1>9. CASE ~ReadAtQ4(end, page) /\ left > start
  <2>1. left \in start + 1 .. end /\ left \in 0 .. end /\ LeavesTheWindow(left, page)
    <3>1. page >= SinkPages /\ left <= end
      BY <1>1, <1>5, <1>9, <1>b
    <3>2. left \in start + 1 .. end /\ left \in 0 .. MaximumTokens
      BY <1>1, <1>5, <1>9, <3>1
    <3> QED BY <1>1, <1>5, <3>1, <3>2
  <2>2. after.q2[page] = Packed(owner.q4, start, rows, left)[Q4Slot(page)]
    BY <1>4, <2>1, <1>d
  <2>3. Touched(left, page) /\ ReadAtQ4(start, page)
    <3>1. begin < left /\ left >= left
      BY <1>5, <1>b, <1>c
    <3> QED BY <1>5, <1>9, <1>b, <1>p, <3>1
  <2> QED BY <1>1, <1>6, <1>7, <1>9, <1>c, <2>1, <2>2, <2>3
<1>10. CASE ~ReadAtQ4(end, page) /\ left <= start
  <2>1. \A committed \in start + 1 .. end : ~LeavesTheWindow(committed, page)
    BY <1>1, <1>5, <1>10, <1>p
  <2>2. after.q2[page] = owner.q2[page]
    BY <1>4, <2>1, <1>d
  <2>3. i < start /\ ~ReadAtQ4(start, page)
    BY <1>1, <1>5, <1>10, <1>b, <1>c, <1>p
  <2>4. owner.q2[page][cell] = i
    BY <2>3 DEF RowRead, page, cell
  <2> QED BY <1>7, <1>10, <2>2, <2>4
<1> QED BY <1>5, <1>8, <1>9, <1>10

(* Every appended token is read as its own row. *)
Intact(owner, committed) ==
  \A position \in 0 .. committed - 1 : RowRead(owner, committed, position) = position

(* The kernels of an append leave every row intact, for every geometry and  *)
(* every batch: no row is packed over one that is still read, and the pages *)
(* that leave the window are converted complete.                            *)
THEOREM AppendKeepsEveryRow ==
  ASSUME NEW owner \in Owner, NEW start \in Nat, NEW rows \in Seq(Cell),
         start + Len(rows) <= MaximumTokens,
         Intact(owner, start), \A i \in 1 .. Len(rows) : rows[i] = start + i - 1
  PROVE  Intact(AppendRows(owner, start, rows), start + Len(rows))
<1>1. ASSUME NEW i \in 0 .. start + Len(rows) - 1
      PROVE  RowRead(AppendRows(owner, start, rows), start + Len(rows), i) = i
  <2>1. Len(rows) \in Nat /\ i \in Nat
    OBVIOUS
  <2>2. i < start => RowRead(owner, start, i) = i
    BY <2>1 DEF Intact
  <2>3. i >= start => rows[i - start + 1] = i
    <3>1. i >= start => i - start + 1 \in 1 .. Len(rows)
      BY <2>1
    <3> QED BY <2>1, <3>1
  <2> QED BY <2>1, <2>2, <2>3, AppendedRowIsRead
<1> QED BY <1>1 DEF Intact

(* A branch: rows are appended from start on, and what attention reads is   *)
(* asked for base tokens, the state a rollback returns to. A row is still   *)
(* read right unless a page that the branch has entered takes its slot.     *)
LEMMA BaseRowIsRead ==
  ASSUME NEW owner \in Owner, NEW start \in Nat, NEW rows \in Seq(Cell),
         start + Len(rows) <= MaximumTokens,
         NEW base \in 0 .. start, NEW i \in 0 .. base - 1,
         RowRead(owner, base, i) = i,
         ReadAtQ4(base, PageOf(i)) =>
           \A p \in Pages : base <= p * PageTokens /\ p * PageTokens < start + Len(rows)
                              => Q4Slot(p) # Q4Slot(PageOf(i))
  PROVE  RowRead(AppendRows(owner, start, rows), base, i) = i
<1> DEFINE end == start + Len(rows)
           page == PageOf(i)
           slot == Q4Slot(page)
           cell == i % PageTokens
           left == (page + 1) * PageTokens + RecentTokens
           after == AppendRows(owner, start, rows)
           landed == Landed(start, rows, end, slot, cell)
<1>1. /\ PageTokens \in Nat \ {0} /\ RecentTokens \in Nat /\ MaximumTokens \in Nat
      /\ SinkPages \in Nat /\ Len(rows) \in Nat /\ end \in 0 .. MaximumTokens
      /\ base \in Nat /\ DOMAIN rows = 1 .. Len(rows)
      /\ \A committed \in start + 1 .. end : committed \in 0 .. MaximumTokens
  BY WholePages
<1>2. i \in 0 .. MaximumTokens - 1 /\ base \in 0 .. MaximumTokens
  BY <1>1
<1>3. /\ page \in Pages /\ page \in Nat /\ cell \in Cells /\ slot \in Slots
      /\ PageTokens * page <= i /\ i < PageTokens * (page + 1)
      /\ PageTokens * page \in Nat /\ PageTokens * (page + 1) \in Nat
  BY <1>2, PlaceOf, SlotOfAPage
<1>4. /\ after.q4 = Packed(owner.q4, start, rows, end)
      /\ after.q2 = Demoted(owner, start, rows)
  BY AppendType
<1>5. /\ left \in Nat /\ left = PageTokens * (page + 1) + RecentTokens
      /\ \A committed \in 0 .. MaximumTokens :
           /\ ReadAtQ4(committed, page) <=> page < SinkPages \/ left > committed
           /\ LeavesTheWindow(committed, page) <=> page >= SinkPages /\ committed = left
  <2> HIDE DEF page
  <2>1. left \in Nat /\ left = PageTokens * (page + 1) + RecentTokens
    BY <1>1, <1>3, OutsideTheWindow
  <2>2. ASSUME NEW committed \in 0 .. MaximumTokens
        PROVE  /\ ReadAtQ4(committed, page) <=> page < SinkPages \/ left > committed
               /\ LeavesTheWindow(committed, page) <=> page >= SinkPages /\ committed = left
    <3>1. committed \in Nat /\ committed <= MaximumTokens
      BY <1>1
    <3> QED BY <1>3, <3>1, OutsideTheWindow
  <2> QED BY <2>1, <2>2
<1>6. RowRead(after, base, i) = IF ReadAtQ4(base, page) THEN after.q4[slot][cell]
                                ELSE after.q2[page][cell]
  BY DEF RowRead
<1>7. i = IF ReadAtQ4(base, page) THEN owner.q4[slot][cell] ELSE owner.q2[page][cell]
  BY DEF RowRead
<1>8. after.q4[slot][cell] = IF landed = {} THEN owner.q4[slot][cell] ELSE rows[Max(landed)]
  BY <1>3, <1>4 DEF Packed
<1>9. (\A committed \in start + 1 .. end : ~LeavesTheWindow(committed, page))
        => after.q2[page] = owner.q2[page]
  BY <1>3, <1>4 DEF Demoted
<1> SUFFICES RowRead(after, base, i) = i
  OBVIOUS
<1>10. CASE ReadAtQ4(base, page)
  <2>1. Touched(base, page)
    <3> DEFINE begin == PageTokens * page
               next == PageTokens * (page + 1)
    <3>1. page < SinkPages \/ left > base
      BY <1>2, <1>5, <1>10
    <3>2. begin \in Nat /\ begin <= i /\ next \in Nat /\ left = next + RecentTokens
      BY <1>3, <1>5
    <3> HIDE DEF page, left, begin, next
    <3>3. begin < base /\ (left > base => next + RecentTokens >= base)
      BY <1>1, <1>2, <3>2
    <3> QED BY <1>3, <3>1, <3>3 DEF Touched, begin, next
  <2>2. ASSUME NEW j \in landed
        PROVE  FALSE
    <3> DEFINE w == start + j - 1
    <3>1. /\ j \in 1 .. Len(rows) /\ w < end
          /\ Q4Slot(PageOf(w)) = slot /\ w % PageTokens = cell
      BY <1>1 DEF Landed
    <3>2. w \in 0 .. MaximumTokens - 1 /\ base <= w /\ i < w
      BY <1>1, <1>2, <3>1
    <3> HIDE DEF w
    <3>3. /\ w = PageTokens * PageOf(w) + (w % PageTokens)
          /\ i = PageTokens * page + cell
          /\ PageOf(w) \in Pages /\ PageOf(w) \in Nat
          /\ PageTokens * PageOf(w) <= w /\ w < PageTokens * (PageOf(w) + 1)
          /\ PageTokens * PageOf(w) \in Nat /\ PageTokens * (PageOf(w) + 1) \in Nat
      BY <1>2, <3>2, PlaceOf
    <3>4. PageOf(w) # page
      BY <3>1, <3>2, <3>3
    <3> DEFINE other == PageOf(w)
    <3> HIDE DEF other, page, slot, cell
    <3>5. other * PageTokens = PageTokens * other
      BY <1>1, <3>3 DEF other
    <3>6. CASE PageTokens * other < base
      <4> DEFINE begin == PageTokens * other
                 next == PageTokens * (other + 1)
      <4>0. /\ other \in Pages /\ begin < base /\ base <= w /\ w < next
            /\ next \in Nat /\ w \in Nat
        BY <3>2, <3>3, <3>6 DEF other
      <4> HIDE DEF begin, next
      <4>3. begin < base /\ next + RecentTokens >= base
        BY <1>1, <4>0
      <4>1. Touched(base, other)
        BY <4>0, <4>3 DEF Touched, begin, next
      <4>2. Q4Slot(other) # Q4Slot(page)
        BY <1>1, <1>3, <2>1, <3>3, <3>4, <4>1, RingIsEnough DEF other
      <4> QED BY <3>1, <4>2 DEF slot, other
    <3>7. CASE PageTokens * other >= base
      <4>1. base <= other * PageTokens /\ other * PageTokens < start + Len(rows)
        <5> DEFINE begin == PageTokens * other
        <5>1. /\ begin \in Nat /\ begin <= w /\ base <= begin /\ other * PageTokens = begin
              /\ w < end /\ w \in Nat /\ end \in Nat
          BY <1>1, <3>1, <3>2, <3>3, <3>5, <3>7 DEF other
        <5> HIDE DEF begin
        <5>2. end = start + Len(rows)
          OBVIOUS
        <5> HIDE DEF end
        <5>3. begin < end
          BY <5>1
        <5> QED BY <5>1, <5>2, <5>3
      <4>2. Q4Slot(other) # Q4Slot(page)
        BY <1>10, <3>3, <4>1 DEF page, other
      <4> QED BY <3>1, <4>2 DEF slot, other
    <3> QED BY <1>1, <3>3, <3>6, <3>7 DEF other
  <2>3. landed = {}
    BY <2>2, Zenon
  <2> HIDE DEF after, landed, page, slot, cell
  <2> QED BY <1>6, <1>7, <1>8, <1>10, <2>3
<1>11. CASE ~ReadAtQ4(base, page)
  <2> HIDE DEF left, page, end, after, cell
  <2>1. page >= SinkPages /\ left <= base
    BY <1>1, <1>2, <1>3, <1>5, <1>11
  <2>2. \A committed \in start + 1 .. end : ~LeavesTheWindow(committed, page)
    BY <1>1, <1>5, <2>1
  <2> QED BY <1>6, <1>7, <1>9, <1>11, <2>2
<1> QED BY <1>10, <1>11

-----------------------------------------------------------------------------
(* What the operators on a graph do, field by field *)

\* Rows as kernels get them: positions of tokens, or Junk.
Row == (0 .. MaximumTokens - 1) \cup {Junk}
Rows == Seq(Row)

\* r differs from g at most in these fields.
SameBut(r, g, fields) ==
  /\ "target_tokens" \in fields \/ r.target_tokens = g.target_tokens
  /\ "mtp_tokens" \in fields \/ r.mtp_tokens = g.mtp_tokens
  /\ "poisoned" \in fields \/ r.poisoned = g.poisoned
  /\ "mtp_poisoned" \in fields \/ r.mtp_poisoned = g.mtp_poisoned
  /\ "speculative_base" \in fields \/ r.speculative_base = g.speculative_base
  /\ "mixers" \in fields \/ r.mixers = g.mixers
  /\ "hidden" \in fields \/ r.hidden = g.hidden
  /\ "kv" \in fields \/ r.kv = g.kv
  /\ "position" \in fields \/ r.position = g.position
  /\ "captured" \in fields \/ r.captured = g.captured
  /\ "verify_base" \in fields \/ r.verify_base = g.verify_base
  /\ "overwritten" \in fields \/ r.overwritten = g.overwritten
  /\ "tainted" \in fields \/ r.tainted = g.tainted

(* An append with its counter. *)
LEMMA RecordedType ==
  ASSUME NEW owner \in Owner, NEW start \in Nat, NEW rows \in Rows,
         owner.tokens + Len(rows) <= MaximumTokens
  PROVE  LET after == Recorded(AppendRows(owner, start, rows), Len(rows))
         IN  /\ after \in Owner
             /\ after.tokens = owner.tokens + Len(rows)
             /\ after.checkpoint = owner.checkpoint /\ after.poisoned = owner.poisoned
<1>1. rows \in Seq(Cell) /\ Len(rows) \in Nat
  BY WholePages DEF Rows, Row, Cell
<1> DEFINE appended == AppendRows(owner, start, rows)
<1>2. /\ appended \in Owner /\ appended.tokens = owner.tokens
      /\ appended.poisoned = owner.poisoned /\ appended.checkpoint = owner.checkpoint
  BY <1>1, AppendType
<1>3. owner.tokens \in Nat /\ MaximumTokens \in Nat
  BY WholePages DEF Owner
<1> HIDE DEF appended
<1>4. LET after == Recorded(appended, Len(rows))
      IN  /\ after \in Owner
          /\ after.tokens = owner.tokens + Len(rows)
          /\ after.checkpoint = owner.checkpoint /\ after.poisoned = owner.poisoned
  BY <1>1, <1>2, <1>3 DEF Recorded, Owner
<1> QED BY <1>4 DEF appended

\* A function on 1 .. n is a sequence.
LEMMA RowsOfAFunction ==
  ASSUME NEW n \in Nat, NEW rows \in [1 .. n -> Row]
  PROVE  rows \in Rows /\ Len(rows) = n
BY DEF Rows

(* Recurrent state counts on as long as it consumes the very next tokens.   *)
LEMMA ConsumedType ==
  ASSUME NEW state \in Count \cup {Junk}, NEW rows \in Rows
  PROVE  /\ Consumed(state, rows) \in Count \cup {Junk}
         /\ (state # Junk /\ \A i \in DOMAIN rows : rows[i] = state + i - 1)
              => Consumed(state, rows) = state + Len(rows)
<1>1. Len(rows) \in Nat /\ MaximumTokens \in Nat
  BY WholePages DEF Rows
<1>2. CASE /\ state # Junk
           /\ \A i \in DOMAIN rows : rows[i] = state + i - 1
  <2>1. state \in Count /\ Consumed(state, rows) = state + Len(rows)
    BY <1>2 DEF Consumed
  <2>2. CASE Len(rows) = 0
    BY <1>1, <2>1, <2>2 DEF Count
  <2>3. CASE Len(rows) # 0
    <3>1. Len(rows) \in DOMAIN rows /\ rows[Len(rows)] \in Row
      BY <1>1, <2>3 DEF Rows
    <3>2. rows[Len(rows)] = state + Len(rows) - 1
      BY <1>2, <3>1
    <3>3. state \in Nat
      BY <1>1, <2>1 DEF Count
    <3>4. state + Len(rows) - 1 \in Nat
      BY <1>1, <2>3, <3>3
    <3>5. state + Len(rows) - 1 \in 0 .. MaximumTokens - 1
      BY <3>1, <3>2, <3>4, JunkAssumption DEF Row
    <3> QED BY <1>1, <2>1, <3>3, <3>5 DEF Count
  <2> QED BY <2>2, <2>3
<1>3. CASE ~ (/\ state # Junk
              /\ \A i \in DOMAIN rows : rows[i] = state + i - 1)
  BY <1>3 DEF Consumed
<1> QED BY <1>2, <1>3

\* What the kernels of the target leave.
LEMMA TargetKernelsEffect ==
  ASSUME NEW g \in Graph, NEW start \in Nat, NEW rows \in Rows,
         start + Len(rows) <= MaximumTokens,
         g.kv.target.tokens + Len(rows) <= MaximumTokens
  PROVE  LET r == TargetKernels(g, start, rows)
         IN  /\ r \in Graph
             /\ r.kv.target = Recorded(AppendRows(g.kv.target, start, rows), Len(rows))
             /\ r.kv.mtp = g.kv.mtp
             /\ r.mixers.state = Consumed(g.mixers.state, rows)
             /\ r.mixers.checkpoint = g.mixers.checkpoint
             /\ r.position.target = start + Len(rows) /\ r.position.mtp = g.position.mtp
             /\ SameBut(r, g, {"kv", "mixers", "position"})
<1> DEFINE owner == Recorded(AppendRows(g.kv.target, start, rows), Len(rows))
           state == Consumed(g.mixers.state, rows)
           place == start + Len(rows)
<1>1. /\ g.kv.target \in Owner /\ Len(rows) \in Nat /\ MaximumTokens \in Nat
      /\ g.mixers.state \in Count \cup {Junk}
  BY WholePages DEF Graph, Buffer, Layers, Rows
<1>2. owner \in Owner
  BY <1>1, RecordedType
<1>3. state \in Count \cup {Junk}
  BY <1>1, ConsumedType
<1>4. place \in Count
  BY <1>1 DEF Count
<1> DEFINE g1 == [g EXCEPT !.kv.target = owner]
           g2 == [g1 EXCEPT !.mixers.state = state]
           g3 == [g2 EXCEPT !.position.target = place]
<1>5. TargetKernels(g, start, rows) = g3
  BY DEF TargetKernels
<1> HIDE DEF owner, state, place, g3, g2
<1>6. /\ g1 \in Graph /\ SameBut(g1, g, {"kv"})
      /\ g1.kv.target = owner /\ g1.kv.mtp = g.kv.mtp
  BY <1>2 DEF Graph, Layers, SameBut
<1> HIDE DEF g1
<1>7. /\ g2 \in Graph /\ SameBut(g2, g1, {"mixers"})
      /\ g2.mixers.state = state /\ g2.mixers.checkpoint = g1.mixers.checkpoint
  BY SMTT(30), <1>3, <1>6 DEF Graph, Buffer, g2, SameBut
<1>8. /\ g3 \in Graph /\ SameBut(g3, g2, {"position"})
      /\ g3.position.target = place /\ g3.position.mtp = g2.position.mtp
  BY <1>4, <1>7 DEF Graph, Layers, g3, SameBut
<1>9. LET r == TargetKernels(g, start, rows)
      IN  /\ r \in Graph
          /\ r.kv.target = owner /\ r.kv.mtp = g.kv.mtp
          /\ r.mixers.state = state /\ r.mixers.checkpoint = g.mixers.checkpoint
          /\ r.position.target = place /\ r.position.mtp = g.position.mtp
          /\ SameBut(r, g, {"kv", "mixers", "position"})
  BY <1>5, <1>6, <1>7, <1>8 DEF SameBut
<1> QED BY <1>9 DEF owner, state, place

\* What the kernels of the MTP layer leave.
LEMMA MtpKernelsEffect ==
  ASSUME NEW g \in Graph, NEW start \in Nat, NEW rows \in Rows,
         start + Len(rows) <= MaximumTokens,
         g.kv.mtp.tokens + Len(rows) <= MaximumTokens
  PROVE  LET r == MtpKernels(g, start, rows)
         IN  /\ r \in Graph
             /\ r.kv.mtp = Recorded(AppendRows(g.kv.mtp, start, rows), Len(rows))
             /\ r.kv.target = g.kv.target
             /\ r.position.mtp = start + Len(rows) /\ r.position.target = g.position.target
             /\ SameBut(r, g, {"kv", "position"})
<1> DEFINE owner == Recorded(AppendRows(g.kv.mtp, start, rows), Len(rows))
           place == start + Len(rows)
<1>1. g.kv.mtp \in Owner /\ Len(rows) \in Nat /\ MaximumTokens \in Nat
  BY WholePages DEF Graph, Layers, Rows
<1>2. owner \in Owner
  BY <1>1, RecordedType
<1>3. place \in Count
  BY <1>1 DEF Count
<1> DEFINE g1 == [g EXCEPT !.kv.mtp = owner]
           g2 == [g1 EXCEPT !.position.mtp = place]
<1>4. MtpKernels(g, start, rows) = g2
  BY DEF MtpKernels
<1> HIDE DEF owner, place, g2
<1>5. /\ g1 \in Graph /\ SameBut(g1, g, {"kv"})
      /\ g1.kv.mtp = owner /\ g1.kv.target = g.kv.target
  BY <1>2 DEF Graph, Layers, SameBut
<1> HIDE DEF g1
<1>6. /\ g2 \in Graph /\ SameBut(g2, g1, {"position"})
      /\ g2.position.mtp = place /\ g2.position.target = g1.position.target
  BY <1>3, <1>5 DEF Graph, Layers, g2, SameBut
<1>7. LET r == MtpKernels(g, start, rows)
      IN  /\ r \in Graph
          /\ r.kv.mtp = owner /\ r.kv.target = g.kv.target
          /\ r.position.mtp = place /\ r.position.target = g.position.target
          /\ SameBut(r, g, {"kv", "position"})
  BY <1>4, <1>5, <1>6 DEF SameBut
<1> QED BY <1>7 DEF owner, place

\* The row after a row, and the row of the MTP layer.
LEMMA RowTypes ==
  /\ \A row \in Row : After(row) \in Count \cup {Junk}
  /\ \A hidden : \A position \in 1 .. MaximumTokens : MtpRow(hidden, position) \in Row
  /\ Junk \in Row
  /\ \A row \in Row : <<row>> \in Rows /\ Len(<<row>>) = 1
  /\ MaximumTokens \in Nat
<1>1. MaximumTokens \in Nat
  BY WholePages
<1>2. \A row \in Row : After(row) \in Count \cup {Junk}
  BY <1>1 DEF After, Row, Count
<1>3. \A hidden : \A position \in 1 .. MaximumTokens : MtpRow(hidden, position) \in Row
  BY <1>1 DEF MtpRow, Row
<1>4. \A row \in Row : <<row>> \in Rows /\ Len(<<row>>) = 1
  BY DEF Rows
<1> QED BY <1>1, <1>2, <1>3, <1>4 DEF Row

(* One token through the target. *)
LEMMA TargetStepEffect ==
  ASSUME NEW g \in Graph, NEW start \in Nat, NEW row \in Row,
         start < MaximumTokens, g.kv.target.tokens < MaximumTokens,
         g.target_tokens < MaximumTokens
  PROVE  LET r == TargetStep(g, start, row)
         IN  /\ r \in Graph
             /\ r.kv.target = Recorded(AppendRows(g.kv.target, start, <<row>>), 1)
             /\ r.kv.mtp = g.kv.mtp
             /\ r.mixers.state = Consumed(g.mixers.state, <<row>>)
             /\ r.mixers.checkpoint = g.mixers.checkpoint
             /\ r.hidden.state = After(row) /\ r.hidden.checkpoint = g.hidden.checkpoint
             /\ r.position.target = start + 1 /\ r.position.mtp = g.position.mtp
             /\ r.target_tokens = g.target_tokens + 1
             /\ SameBut(r, g, {"kv", "mixers", "hidden", "position", "target_tokens"})
<1> DEFINE g1 == TargetKernels(g, start, <<row>>)
           seen == After(row)
           count == g1.target_tokens + 1
           g2 == [g1 EXCEPT !.hidden.state = seen]
           g3 == [g2 EXCEPT !.target_tokens = count]
<1>1. /\ g.kv.target.tokens \in Nat /\ g.target_tokens \in Nat /\ MaximumTokens \in Nat
      /\ <<row>> \in Rows /\ Len(<<row>>) = 1 /\ seen \in Count \cup {Junk}
  BY RowTypes DEF Graph, Layers, Owner, Count
<1>2. /\ g1 \in Graph
      /\ g1.kv.target = Recorded(AppendRows(g.kv.target, start, <<row>>), 1)
      /\ g1.kv.mtp = g.kv.mtp
      /\ g1.mixers.state = Consumed(g.mixers.state, <<row>>)
      /\ g1.mixers.checkpoint = g.mixers.checkpoint
      /\ g1.position.target = start + 1 /\ g1.position.mtp = g.position.mtp
      /\ SameBut(g1, g, {"kv", "mixers", "position"})
  <2>1. start + Len(<<row>>) <= MaximumTokens /\ g.kv.target.tokens + Len(<<row>>) <= MaximumTokens
    BY <1>1
  <2> QED BY ONLY <1>1, <2>1, TargetKernelsEffect, g \in Graph, start \in Nat
<1>3. TargetStep(g, start, row) = g3
  <2>1. g2.target_tokens + 1 = count
    BY <1>2 DEF Graph
  <2> QED BY <2>1 DEF TargetStep
<1>4. count \in Count /\ count = g.target_tokens + 1
  BY <1>1, <1>2 DEF Count, SameBut
<1>5. g1 \in Graph /\ seen \in Count \cup {Junk}
  BY <1>1, <1>2
<1> HIDE DEF g1, seen, count, g2, g3
<1>6. /\ g2 \in Graph /\ SameBut(g2, g1, {"hidden"})
      /\ g2.hidden.state = seen /\ g2.hidden.checkpoint = g1.hidden.checkpoint
  BY SMTT(30), <1>5 DEF Graph, Buffer, SameBut, g2
<1>7. /\ g3 \in Graph /\ SameBut(g3, g2, {"target_tokens"}) /\ g3.target_tokens = count
  BY <1>4, <1>6 DEF Graph, SameBut, g3
<1> QED BY <1>2, <1>3, <1>4, <1>6, <1>7 DEF SameBut, seen

\* The row a token gives the MTP layer.
MtpRowOf(g, row) == IF row = Junk THEN Junk ELSE MtpRow(g.hidden.state, row)

(* One token through the MTP layer. *)
LEMMA MtpStepEffect ==
  ASSUME NEW g \in Graph, NEW start \in Nat, NEW row \in Row \ {0},
         start < MaximumTokens, g.kv.mtp.tokens < MaximumTokens,
         g.mtp_tokens < MaximumTokens
  PROVE  LET r == MtpStep(g, start, row)
         IN  /\ r \in Graph
             /\ r.kv.mtp = Recorded(AppendRows(g.kv.mtp, start, <<MtpRowOf(g, row)>>), 1)
             /\ r.kv.target = g.kv.target
             /\ MtpRowOf(g, row) \in Row
             /\ r.position.mtp = start + 1 /\ r.position.target = g.position.target
             /\ r.mtp_tokens = g.mtp_tokens + 1
             /\ r.tainted = IF StaleHidden(g, row) THEN g.tainted \cup {"mtp"} ELSE g.tainted
             /\ SameBut(r, g, {"kv", "position", "mtp_tokens", "tainted"})
<1> DEFINE fed == MtpRowOf(g, row)
           g1 == MtpKernels(g, start, <<fed>>)
           count == g1.mtp_tokens + 1
           stained == IF StaleHidden(g, row) THEN g1.tainted \cup {"mtp"} ELSE g1.tainted
           g2 == [g1 EXCEPT !.mtp_tokens = count]
           g3 == [g2 EXCEPT !.tainted = stained]
<1>1. /\ g.kv.mtp.tokens \in Nat /\ g.mtp_tokens \in Nat /\ MaximumTokens \in Nat
      /\ fed \in Row /\ <<fed>> \in Rows /\ Len(<<fed>>) = 1
  <2>1. g.kv.mtp.tokens \in Nat /\ g.mtp_tokens \in Nat /\ MaximumTokens \in Nat
    BY RowTypes DEF Graph, Layers, Owner, Count
  <2>2. row # Junk => row \in 1 .. MaximumTokens
    BY <2>1 DEF Row
  <2>3. fed \in Row
    BY <2>2, RowTypes DEF MtpRowOf
  <2> QED BY <2>1, <2>3, RowTypes
<1>2. /\ g1 \in Graph
      /\ g1.kv.mtp = Recorded(AppendRows(g.kv.mtp, start, <<fed>>), 1)
      /\ g1.kv.target = g.kv.target
      /\ g1.position.mtp = start + 1 /\ g1.position.target = g.position.target
      /\ SameBut(g1, g, {"kv", "position"})
  <2> HIDE DEF fed
  <2>1. start + Len(<<fed>>) <= MaximumTokens /\ g.kv.mtp.tokens + Len(<<fed>>) <= MaximumTokens
    BY <1>1
  <2> QED BY ONLY <1>1, <2>1, MtpKernelsEffect, g \in Graph, start \in Nat
<1>3. MtpStep(g, start, row) = g3
  <2>1. g2.mtp_tokens = count /\ g2.tainted = g1.tainted
    <3>1. g1 \in Graph
      BY <1>2
    <3> HIDE DEF g1, count
    <3> QED BY <3>1 DEF Graph
  <2> QED BY <2>1 DEF MtpStep, MtpRowOf
<1>4. count \in Count /\ count = g.mtp_tokens + 1
  BY <1>1, <1>2 DEF Count, SameBut
<1>5. g1 \in Graph /\ stained \in SUBSET Layers
  BY <1>2 DEF Graph, Layers
<1>6. stained = IF StaleHidden(g, row) THEN g.tainted \cup {"mtp"} ELSE g.tainted
  BY <1>2 DEF SameBut
<1> HIDE DEF g1, count, stained, g2, g3
<1>7. /\ g2 \in Graph /\ SameBut(g2, g1, {"mtp_tokens"}) /\ g2.mtp_tokens = count
  BY <1>4, <1>5 DEF Graph, SameBut, g2
<1>8. /\ g3 \in Graph /\ SameBut(g3, g2, {"tainted"}) /\ g3.tainted = stained
  BY <1>5, <1>7 DEF Graph, SameBut, g3
<1> QED BY <1>1, <1>2, <1>3, <1>4, <1>6, <1>7, <1>8 DEF SameBut

\* The rows of a block of drafts.
DraftRows(g, accepted) ==
  [i \in 1 .. MaximumDrafts + 1 |->
     IF i = 1 THEN MtpRow(g.hidden.state, g.target_tokens)
     ELSE IF i - 1 <= accepted THEN g.mtp_tokens + i - 1 ELSE Junk]

(* A block of drafts. *)
LEMMA LaunchDraftsEffect ==
  ASSUME NEW g \in Graph, NEW accepted \in Nat,
         g.target_tokens > 0, g.position.mtp + MaximumDrafts + 1 <= MaximumTokens,
         g.mtp_tokens + MaximumDrafts + 1 <= MaximumTokens,
         g.kv.mtp.tokens + MaximumDrafts + 1 <= MaximumTokens
  PROVE  LET r == LaunchDrafts(g, accepted)
         IN  /\ r \in Graph
             /\ DraftRows(g, accepted) \in Rows /\ Len(DraftRows(g, accepted)) = MaximumDrafts + 1
             /\ r.kv.mtp = Recorded(AppendRows(g.kv.mtp, g.position.mtp, DraftRows(g, accepted)),
                                    MaximumDrafts + 1)
             /\ r.kv.target = g.kv.target
             /\ r.position.mtp = g.position.mtp + MaximumDrafts + 1
             /\ r.position.target = g.position.target
             /\ r.mtp_tokens = g.mtp_tokens + MaximumDrafts + 1
             /\ r.tainted = IF StaleHidden(g, g.target_tokens) THEN g.tainted \cup {"mtp"}
                            ELSE g.tainted
             /\ SameBut(r, g, {"kv", "position", "mtp_tokens", "tainted"})
<1> DEFINE rows == DraftRows(g, accepted)
           start == g.position.mtp
           wide == MaximumDrafts + 1
           g1 == MtpKernels(g, start, rows)
           count == g1.mtp_tokens + MaximumDrafts + 1
           stained == IF StaleHidden(g, g.target_tokens) THEN g1.tainted \cup {"mtp"}
                      ELSE g1.tainted
           g2 == [g1 EXCEPT !.mtp_tokens = count]
           g3 == [g2 EXCEPT !.tainted = stained]
<1>1. /\ g.kv.mtp.tokens \in Nat /\ g.mtp_tokens \in Nat /\ MaximumTokens \in Nat
      /\ start \in Nat /\ MaximumDrafts \in Nat \ {0}
      /\ g.target_tokens \in 1 .. MaximumTokens
      /\ start + wide <= MaximumTokens /\ g.kv.mtp.tokens + wide <= MaximumTokens
      /\ start + wide = start + MaximumDrafts + 1
  BY SMTT(30), RowTypes, GraphAssumption DEF Graph, Layers, Owner, Count
<1>2. rows \in Rows /\ Len(rows) = wide
  <2> DEFINE first == MtpRow(g.hidden.state, g.target_tokens)
  <2>1. first \in Row
    BY <1>1, RowTypes
  <2> HIDE DEF first
  <2>2. \A i \in 1 .. MaximumDrafts + 1 : rows[i] \in Row
    BY <1>1, <2>1, RowTypes DEF DraftRows, Row, first
  <2>3. rows \in [1 .. MaximumDrafts + 1 -> Row]
    BY <2>2 DEF DraftRows
  <2> HIDE DEF rows
  <2> QED BY <1>1, <2>3, RowsOfAFunction
<1>3. /\ g1 \in Graph
      /\ g1.kv.mtp = Recorded(AppendRows(g.kv.mtp, start, rows), wide)
      /\ g1.kv.target = g.kv.target
      /\ g1.position.mtp = start + wide /\ g1.position.target = g.position.target
      /\ SameBut(g1, g, {"kv", "position"})
  <2> HIDE DEF rows, wide, start
  <2>1. start + Len(rows) <= MaximumTokens /\ g.kv.mtp.tokens + Len(rows) <= MaximumTokens
    BY <1>1, <1>2
  <2> QED BY ONLY <1>1, <1>2, <2>1, MtpKernelsEffect, g \in Graph
<1>4. LaunchDrafts(g, accepted) = g3
  <2>1. g2.mtp_tokens = count /\ g2.tainted = g1.tainted
    <3>1. g1 \in Graph
      BY <1>3
    <3> HIDE DEF g1, count
    <3> QED BY <3>1 DEF Graph
  <2> QED BY <2>1 DEF LaunchDrafts, DraftRows
<1>5. count \in Count /\ count = g.mtp_tokens + MaximumDrafts + 1
  BY <1>1, <1>3 DEF Count, SameBut
<1>6. g1 \in Graph /\ stained \in SUBSET Layers
  BY <1>3 DEF Graph, Layers
<1>7. stained = IF StaleHidden(g, g.target_tokens) THEN g.tainted \cup {"mtp"} ELSE g.tainted
  BY <1>3 DEF SameBut
<1> HIDE DEF g1, count, stained, g2, g3, rows, start, wide
<1>8. /\ g2 \in Graph /\ SameBut(g2, g1, {"mtp_tokens"}) /\ g2.mtp_tokens = count
  BY <1>5, <1>6 DEF Graph, SameBut, g2
<1>9. /\ g3 \in Graph /\ SameBut(g3, g2, {"tainted"}) /\ g3.tainted = stained
  BY <1>6, <1>8 DEF Graph, SameBut, g3
<1>10. /\ rows \in Rows /\ Len(rows) = wide
       /\ g3.kv.mtp = Recorded(AppendRows(g.kv.mtp, start, rows), wide)
       /\ g3.kv.target = g.kv.target
       /\ g3.position.mtp = start + MaximumDrafts + 1 /\ g3.position.target = g.position.target
       /\ SameBut(g3, g, {"kv", "position", "mtp_tokens", "tainted"})
  BY <1>1, <1>2, <1>3, <1>8, <1>9 DEF SameBut
<1>11. LET r == LaunchDrafts(g, accepted)
       IN  /\ r \in Graph
           /\ rows \in Rows /\ Len(rows) = wide
           /\ r.kv.mtp = Recorded(AppendRows(g.kv.mtp, start, rows), wide)
           /\ r.kv.target = g.kv.target
           /\ r.position.mtp = start + MaximumDrafts + 1
           /\ r.position.target = g.position.target
           /\ r.mtp_tokens = g.mtp_tokens + MaximumDrafts + 1
           /\ r.tainted = IF StaleHidden(g, g.target_tokens) THEN g.tainted \cup {"mtp"}
                          ELSE g.tainted
           /\ SameBut(r, g, {"kv", "position", "mtp_tokens", "tainted"})
  BY <1>4, <1>5, <1>7, <1>8, <1>9, <1>10 DEF SameBut
<1> QED BY <1>11, Zenon DEF rows, wide, start

(* The verification of a block. *)
LEMMA LaunchVerifyEffect ==
  ASSUME NEW g \in Graph, NEW accepted \in Nat, NEW start \in Nat,
         g.verify_base[1] = start, start + MaximumDrafts + 1 <= MaximumTokens,
         g.target_tokens + MaximumDrafts + 1 <= MaximumTokens,
         g.position.target + MaximumDrafts + 1 <= MaximumTokens,
         g.kv.target.tokens + MaximumDrafts + 1 <= MaximumTokens
  PROVE  LET r == LaunchVerify(g, accepted)
             rows == BlockRows(g, accepted)
         IN  /\ r \in Graph
             /\ rows \in Rows /\ Len(rows) = MaximumDrafts + 1
             /\ r.kv.target = Recorded(AppendRows(g.kv.target, start, rows), MaximumDrafts + 1)
             /\ r.kv.mtp = g.kv.mtp
             /\ r.mixers.state = Consumed(g.mixers.state, rows)
             /\ r.mixers.checkpoint = g.mixers.checkpoint
             /\ r.position.target = g.position.target + MaximumDrafts + 1
             /\ r.position.mtp = g.position.mtp
             /\ r.target_tokens = g.target_tokens + MaximumDrafts + 1
             /\ r.tainted = IF start # g.target_tokens THEN g.tainted \cup {"target"}
                            ELSE g.tainted
             /\ SameBut(r, g, {"kv", "mixers", "position", "target_tokens", "tainted"})
<1> DEFINE rows == BlockRows(g, accepted)
           wide == MaximumDrafts + 1
           g1 == TargetKernels(g, start, rows)
           count == g1.target_tokens + MaximumDrafts + 1
           place == g.position.target + MaximumDrafts + 1
           stained == IF start # g.target_tokens THEN g1.tainted \cup {"target"} ELSE g1.tainted
           g2 == [g1 EXCEPT !.target_tokens = count]
           g3 == [g2 EXCEPT !.position.target = place]
           g4 == [g3 EXCEPT !.tainted = stained]
<1>1. /\ g.kv.target.tokens \in Nat /\ g.target_tokens \in Nat /\ MaximumTokens \in Nat
      /\ g.position.target \in Nat /\ MaximumDrafts \in Nat \ {0}
      /\ start + wide <= MaximumTokens /\ g.kv.target.tokens + wide <= MaximumTokens
      /\ place \in Count
  <2>1. /\ g.kv.target.tokens \in Nat /\ g.target_tokens \in Nat /\ MaximumTokens \in Nat
        /\ g.position.target \in Nat /\ MaximumDrafts \in Nat \ {0}
    BY RowTypes, GraphAssumption DEF Graph, Layers, Owner, Count
  <2>2. start + wide <= MaximumTokens /\ g.kv.target.tokens + wide <= MaximumTokens
    BY <2>1
  <2>3. place \in Count
    BY <2>1 DEF Count
  <2> QED BY <2>1, <2>2, <2>3
<1>2. rows \in Rows /\ Len(rows) = wide
  <2>1. \A i \in 1 .. wide : rows[i] \in Row
    BY <1>1, RowTypes DEF BlockRows, Row
  <2>2. rows \in [1 .. wide -> Row]
    BY <2>1 DEF BlockRows
  <2>3. wide \in Nat
    BY <1>1
  <2> HIDE DEF rows, wide
  <2> QED BY <2>2, <2>3, RowsOfAFunction
<1>3. /\ g1 \in Graph
      /\ g1.kv.target = Recorded(AppendRows(g.kv.target, start, rows), wide)
      /\ g1.kv.mtp = g.kv.mtp
      /\ g1.mixers.state = Consumed(g.mixers.state, rows)
      /\ g1.mixers.checkpoint = g.mixers.checkpoint
      /\ g1.position.mtp = g.position.mtp
      /\ SameBut(g1, g, {"kv", "mixers", "position"})
  <2> HIDE DEF rows, wide
  <2>1. start + Len(rows) <= MaximumTokens /\ g.kv.target.tokens + Len(rows) <= MaximumTokens
    BY <1>1, <1>2
  <2> QED BY ONLY <1>1, <1>2, <2>1, TargetKernelsEffect, g \in Graph, start \in Nat
<1>4. count \in Count /\ count = g.target_tokens + MaximumDrafts + 1
  BY <1>1, <1>3 DEF Count, SameBut
<1>5. g1 \in Graph /\ stained \in SUBSET Layers /\ place \in Count
  BY SMTT(30), <1>1, <1>3 DEF Graph, Layers
<1>6. stained = IF start # g.target_tokens THEN g.tainted \cup {"target"} ELSE g.tainted
  BY <1>3 DEF SameBut
<1> HIDE DEF g1, g2, g3, g4, count, place, rows, wide, stained
<1>7. /\ g2 \in Graph /\ SameBut(g2, g1, {"target_tokens"}) /\ g2.target_tokens = count
  BY <1>4, <1>5 DEF Graph, SameBut, g2
<1>8. /\ g3 \in Graph /\ SameBut(g3, g2, {"position"})
      /\ g3.position.target = place /\ g3.position.mtp = g2.position.mtp
  BY <1>5, <1>7 DEF Graph, Layers, SameBut, g3
<1>9. /\ g4 \in Graph /\ SameBut(g4, g3, {"tainted"}) /\ g4.tainted = stained
  BY <1>5, <1>8 DEF Graph, SameBut, g4
<1>10. LaunchVerify(g, accepted) = g4
  <2>1. g2.tainted = g1.tainted /\ g3.tainted = g1.tainted
    BY <1>7, <1>8 DEF SameBut
  <2>2. stained = IF start # g.target_tokens THEN g3.tainted \cup {"target"} ELSE g3.tainted
    BY <2>1 DEF stained
  <2>3. g.verify_base[1] = start
    OBVIOUS
  <2> QED BY <2>2, <2>3, Zenon DEF LaunchVerify, g4, g3, g2, g1, count, place, rows
<1>11. LET r == LaunchVerify(g, accepted)
       IN  /\ r \in Graph
           /\ rows \in Rows /\ Len(rows) = wide
           /\ r.kv.target = Recorded(AppendRows(g.kv.target, start, rows), wide)
           /\ r.kv.mtp = g.kv.mtp
           /\ r.mixers.state = Consumed(g.mixers.state, rows)
           /\ r.mixers.checkpoint = g.mixers.checkpoint
           /\ r.position.target = place
           /\ r.position.mtp = g.position.mtp
           /\ r.target_tokens = g.target_tokens + MaximumDrafts + 1
           /\ r.tainted = IF start # g.target_tokens THEN g.tainted \cup {"target"}
                          ELSE g.tainted
           /\ SameBut(r, g, {"kv", "mixers", "position", "target_tokens", "tainted"})
  BY <1>2, <1>3, <1>4, <1>6, <1>7, <1>8, <1>9, <1>10 DEF SameBut
<1> QED BY <1>11, Zenon DEF rows, wide, place

\* Rows of the MTP layer.
LEMMA MtpRowsType ==
  ASSUME NEW hidden, NEW first \in Nat \ {0}, NEW n \in Nat, first + n <= MaximumTokens + 1
  PROVE  MtpRows(hidden, first, n) \in Rows /\ Len(MtpRows(hidden, first, n)) = n
<1> DEFINE rows == MtpRows(hidden, first, n)
<1>1. ASSUME NEW i \in 1 .. n
      PROVE  rows[i] \in Row
  <2>1. first + i - 1 \in 1 .. MaximumTokens
    BY RowTypes
  <2>2. rows[i] = MtpRow(IF i = 1 THEN hidden ELSE first + i - 1, first + i - 1)
    BY DEF MtpRows
  <2> HIDE DEF rows
  <2> QED BY <2>1, <2>2, RowTypes
<1>2. rows \in [1 .. n -> Row]
  BY <1>1 DEF MtpRows
<1> HIDE DEF rows
<1>3. rows \in Rows /\ Len(rows) = n
  BY <1>2, RowsOfAFunction
<1> QED BY <1>3 DEF rows

\* Rows of consecutive tokens on the path.
PathRows(first, n) == [i \in 1 .. n |-> first + i - 1]

\* Their type, and that recurrent state counts on over them.
LEMMA PathRowsType ==
  ASSUME NEW first \in Nat, NEW n \in Nat, first + n <= MaximumTokens
  PROVE  /\ PathRows(first, n) \in Rows /\ Len(PathRows(first, n)) = n
         /\ Consumed(first, PathRows(first, n)) = first + n
<1> DEFINE rows == PathRows(first, n)
<1>1. \A i \in 1 .. n : rows[i] = first + i - 1 /\ rows[i] \in Row
  BY RowTypes DEF PathRows, Row
<1>2. rows \in [1 .. n -> Row]
  BY <1>1 DEF PathRows
<1>3. first # Junk /\ first \in Count \cup {Junk}
  BY JunkAssumption, RowTypes DEF Count
<1> HIDE DEF rows
<1>4. rows \in Rows /\ Len(rows) = n /\ DOMAIN rows = 1 .. n
  BY <1>2, RowsOfAFunction
<1>5. Consumed(first, rows) = first + n
  BY <1>1, <1>3, <1>4, ConsumedType
<1> QED BY <1>4, <1>5 DEF rows

(* Replayed pairs. *)
LEMMA ReplayPairsEffect ==
  ASSUME NEW g \in Graph, NEW n \in Nat, g.target_tokens > 0,
         g.target_tokens + n <= MaximumTokens, g.mtp_tokens + n <= MaximumTokens,
         g.position.target = g.target_tokens, g.position.mtp = g.mtp_tokens,
         g.kv.target.tokens = g.target_tokens, g.kv.mtp.tokens = g.mtp_tokens
  PROVE  LET r == ReplayPairs(g, n)
             rows == PathRows(g.target_tokens, n)
             mtp == MtpRows(g.hidden.state, g.target_tokens, n)
         IN  /\ r \in Graph
             /\ r.kv.target = Recorded(AppendRows(g.kv.target, g.target_tokens, rows), n)
             /\ r.kv.mtp = Recorded(AppendRows(g.kv.mtp, g.mtp_tokens, mtp), n)
             /\ r.mixers.state = Consumed(g.mixers.state, rows)
             /\ r.mixers.checkpoint = g.mixers.checkpoint
             /\ r.hidden.state = IF n = 0 THEN g.hidden.state ELSE g.target_tokens + n
             /\ r.hidden.checkpoint = g.hidden.checkpoint
             /\ r.position.target = g.target_tokens + n /\ r.position.mtp = g.mtp_tokens + n
             /\ r.target_tokens = g.target_tokens + n /\ r.mtp_tokens = g.mtp_tokens + n
             /\ r.tainted = IF n > 0 /\ StaleHidden(g, g.target_tokens)
                            THEN g.tainted \cup {"mtp"} ELSE g.tainted
             /\ SameBut(r, g, {"kv", "mixers", "hidden", "position", "target_tokens",
                               "mtp_tokens", "tainted"})
<1> DEFINE first == g.target_tokens
           behind == g.mtp_tokens
           rows == PathRows(first, n)
           mtp == MtpRows(g.hidden.state, first, n)
           g1 == MtpKernels(g, behind, mtp)
           g2 == TargetKernels(g1, first, rows)
           end == first + n
           mtpend == behind + n
           seen == IF n = 0 THEN g2.hidden.state ELSE end
           stained == IF n > 0 /\ StaleHidden(g, first) THEN g2.tainted \cup {"mtp"}
                      ELSE g2.tainted
           g3 == [g2 EXCEPT !.target_tokens = end]
           g4 == [g3 EXCEPT !.mtp_tokens = mtpend]
           g5 == [g4 EXCEPT !.hidden.state = seen]
           g6 == [g5 EXCEPT !.tainted = stained]
<1>1. /\ first \in Nat \ {0} /\ behind \in Nat /\ MaximumTokens \in Nat
      /\ first + n <= MaximumTokens /\ behind + n <= MaximumTokens
      /\ first + n <= MaximumTokens + 1
      /\ g.position.target = first /\ g.position.mtp = behind
      /\ g.kv.target.tokens = first /\ g.kv.mtp.tokens = behind
  BY RowTypes DEF Graph, Count
<1>2. rows \in Rows /\ Len(rows) = n
  <2> HIDE DEF first
  <2> QED BY <1>1, PathRowsType
<1>3. mtp \in Rows /\ Len(mtp) = n
  <2> HIDE DEF first
  <2> QED BY <1>1, MtpRowsType
<1>4. end \in Count /\ mtpend \in Count
  BY <1>1 DEF Count
<1> HIDE DEF first, behind, rows, mtp
<1>5. /\ g1 \in Graph
      /\ g1.kv.mtp = Recorded(AppendRows(g.kv.mtp, behind, mtp), n)
      /\ g1.kv.target = g.kv.target
      /\ g1.position.mtp = mtpend /\ g1.position.target = first
      /\ SameBut(g1, g, {"kv", "position"})
  BY ONLY <1>1, <1>3, MtpKernelsEffect, g \in Graph DEF mtpend
<1> HIDE DEF g1
<1>6. /\ g2 \in Graph
      /\ g2.kv.target = Recorded(AppendRows(g.kv.target, first, rows), n)
      /\ g2.kv.mtp = g1.kv.mtp
      /\ g2.mixers.state = Consumed(g1.mixers.state, rows)
      /\ g2.mixers.checkpoint = g1.mixers.checkpoint
      /\ g2.position.target = end /\ g2.position.mtp = g1.position.mtp
      /\ SameBut(g2, g1, {"kv", "mixers", "position"})
  <2>1. g1.kv.target.tokens + Len(rows) <= MaximumTokens /\ first + Len(rows) <= MaximumTokens
    BY <1>1, <1>2, <1>5
  <2>2. /\ g2 \in Graph
        /\ g2.kv.target = Recorded(AppendRows(g1.kv.target, first, rows), Len(rows))
        /\ g2.kv.mtp = g1.kv.mtp
        /\ g2.mixers.state = Consumed(g1.mixers.state, rows)
        /\ g2.mixers.checkpoint = g1.mixers.checkpoint
        /\ g2.position.target = first + Len(rows) /\ g2.position.mtp = g1.position.mtp
        /\ SameBut(g2, g1, {"kv", "mixers", "position"})
    <3>1. g1 \in Graph /\ first \in Nat /\ rows \in Rows
      BY <1>1, <1>2, <1>5
    <3> QED BY ONLY <2>1, <3>1, TargetKernelsEffect
  <2>3. g1.kv.target = g.kv.target /\ Len(rows) = n
    BY <1>2, <1>5
  <2> HIDE DEF g2
  <2> QED BY ONLY <2>2, <2>3 DEF end
<1>7. g2 \in Graph
  BY <1>6
<1>8. /\ stained \in SUBSET Layers
      /\ stained = IF n > 0 /\ StaleHidden(g, first) THEN g.tainted \cup {"mtp"} ELSE g.tainted
      /\ seen \in Count \cup {Junk}
      /\ seen = IF n = 0 THEN g.hidden.state ELSE end
  <2>1. g2.tainted = g.tainted /\ g2.hidden = g.hidden
    BY <1>5, <1>6 DEF SameBut
  <2>2. g2.tainted \in SUBSET Layers /\ g2.hidden.state \in Count \cup {Junk}
    BY <1>7 DEF Graph, Buffer
  <2> HIDE DEF g2, end
  <2> QED BY <1>4, <2>1, <2>2 DEF Layers
<1>9. stained \in SUBSET Layers /\ seen \in Count \cup {Junk}
  BY <1>8
<1> HIDE DEF g2, g3, g4, g5, g6, seen, stained, end, mtpend
<1>10. /\ g3 \in Graph /\ SameBut(g3, g2, {"target_tokens"}) /\ g3.target_tokens = end
  BY <1>4, <1>7 DEF Graph, SameBut, g3
<1>11. /\ g4 \in Graph /\ SameBut(g4, g3, {"mtp_tokens"}) /\ g4.mtp_tokens = mtpend
  BY <1>4, <1>10 DEF Graph, SameBut, g4
<1>12. /\ g5 \in Graph /\ SameBut(g5, g4, {"hidden"})
       /\ g5.hidden.state = seen /\ g5.hidden.checkpoint = g4.hidden.checkpoint
  BY SMTT(30), <1>9, <1>11 DEF Graph, Buffer, SameBut, g5
<1>13. /\ g6 \in Graph /\ SameBut(g6, g5, {"tainted"}) /\ g6.tainted = stained
  BY <1>9, <1>12 DEF Graph, SameBut, g6
<1>14. ReplayPairs(g, n) = g6
  <2>1. g3.mtp_tokens = behind
    BY <1>5, <1>6, <1>10 DEF SameBut, behind
  <2>2. g2.target_tokens = first
    BY <1>5, <1>6 DEF SameBut, first
  <2>3. g4.hidden.state = g2.hidden.state /\ g5.tainted = g2.tainted
    BY <1>10, <1>11, <1>12 DEF SameBut
  <2>4. g.position.mtp = behind /\ g.position.target = first
    BY <1>1
  <2>5. /\ end = g2.target_tokens + n /\ mtpend = g3.mtp_tokens + n
        /\ seen = IF n = 0 THEN g4.hidden.state ELSE first + n
        /\ stained = IF n > 0 /\ StaleHidden(g, first) THEN g5.tainted \cup {"mtp"}
                     ELSE g5.tainted
    BY <2>1, <2>2, <2>3 DEF end, mtpend, seen, stained
  <2> QED BY <2>4, <2>5, ZenonT(30) DEF ReplayPairs, g6, g5, g4, g3, g2, g1, first, rows, mtp, PathRows
<1>15. LET r == ReplayPairs(g, n)
       IN  /\ r \in Graph
           /\ r.kv.target = Recorded(AppendRows(g.kv.target, first, rows), n)
           /\ r.kv.mtp = Recorded(AppendRows(g.kv.mtp, behind, mtp), n)
           /\ r.mixers.state = Consumed(g.mixers.state, rows)
           /\ r.mixers.checkpoint = g.mixers.checkpoint
           /\ r.hidden.state = IF n = 0 THEN g.hidden.state ELSE end
           /\ r.hidden.checkpoint = g.hidden.checkpoint
           /\ r.position.target = end /\ r.position.mtp = mtpend
           /\ r.target_tokens = end /\ r.mtp_tokens = mtpend
           /\ r.tainted = IF n > 0 /\ StaleHidden(g, first)
                          THEN g.tainted \cup {"mtp"} ELSE g.tainted
           /\ SameBut(r, g, {"kv", "mixers", "hidden", "position", "target_tokens",
                             "mtp_tokens", "tainted"})
  BY <1>5, <1>6, <1>8, <1>10, <1>11, <1>12, <1>13, <1>14 DEF SameBut
<1> QED BY <1>15, Zenon DEF first, behind, rows, mtp, end, mtpend

(* A chunk through the target. *)
LEMMA PrefilledTargetEffect ==
  ASSUME NEW g \in Graph, NEW n \in Nat, g.target_tokens + n <= MaximumTokens,
         g.kv.target.tokens = g.target_tokens
  PROVE  LET r == Prefilled(g, n, FALSE)
         IN  /\ r \in Graph
             /\ ChunkRows(g, n) \in Rows /\ Len(ChunkRows(g, n)) = n
             /\ r.kv.target = Recorded(AppendRows(g.kv.target, g.target_tokens, ChunkRows(g, n)), n)
             /\ r.kv.mtp = g.kv.mtp
             /\ r.mixers.state = Consumed(g.mixers.state, ChunkRows(g, n))
             /\ r.mixers.checkpoint = g.mixers.checkpoint
             /\ r.position.target = g.target_tokens + n /\ r.position.mtp = g.position.mtp
             /\ r.target_tokens = g.target_tokens + n
             /\ SameBut(r, g, {"kv", "mixers", "position", "target_tokens"})
<1> DEFINE first == g.target_tokens
           rows == ChunkRows(g, n)
           end == first + n
           g1 == TargetKernels(g, first, rows)
           g2 == [g1 EXCEPT !.target_tokens = end]
<1>1. /\ first \in Nat /\ MaximumTokens \in Nat /\ end <= MaximumTokens
      /\ g.kv.target.tokens = first /\ end \in Count
  BY RowTypes DEF Graph, Count
<1>2. rows \in Rows /\ Len(rows) = n
  <2>1. rows = PathRows(first, n)
    BY DEF ChunkRows, PathRows
  <2> HIDE DEF rows, first
  <2> QED BY <1>1, <2>1, PathRowsType
<1>3. Prefilled(g, n, FALSE) = g2
  BY DEF Prefilled
<1> HIDE DEF first, rows
<1>4. /\ g1 \in Graph
      /\ g1.kv.target = Recorded(AppendRows(g.kv.target, first, rows), n)
      /\ g1.kv.mtp = g.kv.mtp
      /\ g1.mixers.state = Consumed(g.mixers.state, rows)
      /\ g1.mixers.checkpoint = g.mixers.checkpoint
      /\ g1.position.target = end /\ g1.position.mtp = g.position.mtp
      /\ SameBut(g1, g, {"kv", "mixers", "position"})
  BY ONLY ZenonT(30), <1>1, <1>2, TargetKernelsEffect, g \in Graph DEF end
<1>5. g1 \in Graph
  BY <1>4
<1> HIDE DEF g1, g2, end
<1>6. g2 \in Graph /\ SameBut(g2, g1, {"target_tokens"}) /\ g2.target_tokens = end
  BY <1>1, <1>5 DEF Graph, SameBut, g2
<1>7. LET r == Prefilled(g, n, FALSE)
      IN  /\ r \in Graph
          /\ rows \in Rows /\ Len(rows) = n
          /\ r.kv.target = Recorded(AppendRows(g.kv.target, first, rows), n)
          /\ r.kv.mtp = g.kv.mtp
          /\ r.mixers.state = Consumed(g.mixers.state, rows)
          /\ r.mixers.checkpoint = g.mixers.checkpoint
          /\ r.position.target = end /\ r.position.mtp = g.position.mtp
          /\ r.target_tokens = end
          /\ SameBut(r, g, {"kv", "mixers", "position", "target_tokens"})
  BY <1>2, <1>3, <1>4, <1>6 DEF SameBut
<1> QED BY <1>7, Zenon DEF first, rows, end

(* A chunk through both. *)
LEMMA PrefilledEffect ==
  ASSUME NEW g \in Graph, NEW n \in Nat \ {0}, g.target_tokens + n <= MaximumTokens,
         g.kv.target.tokens = g.target_tokens, g.kv.mtp.tokens = g.mtp_tokens,
         g.mtp_tokens = IF g.target_tokens = 0 THEN 0 ELSE g.target_tokens - 1
  PROVE  LET r == Prefilled(g, n, TRUE)
             rows == MtpPrefillRows(g, n)
         IN  /\ r \in Graph
             /\ ChunkRows(g, n) \in Rows /\ Len(ChunkRows(g, n)) = n
             /\ rows \in Rows /\ g.mtp_tokens + Len(rows) = g.target_tokens + n - 1
             /\ r.kv.target = Recorded(AppendRows(g.kv.target, g.target_tokens, ChunkRows(g, n)), n)
             /\ r.kv.mtp = Recorded(AppendRows(g.kv.mtp, g.mtp_tokens, rows), Len(rows))
             /\ r.mixers.state = Consumed(g.mixers.state, ChunkRows(g, n))
             /\ r.mixers.checkpoint = g.mixers.checkpoint
             /\ r.hidden.state = g.target_tokens + n
             /\ r.hidden.checkpoint = g.hidden.checkpoint
             /\ r.position.target = g.target_tokens + n
             /\ r.position.mtp = g.target_tokens + n - 1
             /\ r.target_tokens = g.target_tokens + n
             /\ r.mtp_tokens = g.target_tokens + n - 1
             /\ SameBut(r, g, {"kv", "mixers", "hidden", "position", "target_tokens",
                               "mtp_tokens"})
<1> DEFINE first == g.target_tokens
           behind == g.mtp_tokens
           chunk == ChunkRows(g, n)
           rows == MtpPrefillRows(g, n)
           end == first + n
           last == end - 1
           g1 == Prefilled(g, n, FALSE)
           g2 == MtpKernels(g1, behind, rows)
           g3 == [g2 EXCEPT !.hidden.state = end]
           g4 == [g3 EXCEPT !.mtp_tokens = last]
<1>1. /\ first \in Nat /\ behind \in Nat /\ MaximumTokens \in Nat
      /\ end <= MaximumTokens /\ end \in Nat \ {0}
      /\ g.kv.target.tokens = first /\ g.kv.mtp.tokens = behind
      /\ behind = IF first = 0 THEN 0 ELSE first - 1
      /\ end \in Count /\ last \in Count
  BY RowTypes DEF Graph, Count
<1>2. rows \in Rows /\ behind + Len(rows) = last
  <2>1. CASE first = 0
    <3>1. rows = MtpRows(1, 1, n - 1)
      BY <2>1 DEF MtpPrefillRows
    <3> HIDE DEF rows, first, behind
    <3>2. n - 1 \in Nat /\ 1 + (n - 1) <= MaximumTokens + 1 /\ 1 \in Nat \ {0}
      BY <1>1, <2>1
    <3>3. rows \in Rows /\ Len(rows) = n - 1
      BY <3>1, <3>2, MtpRowsType
    <3> QED BY <1>1, <2>1, <3>3
  <2>2. CASE first # 0
    <3>1. rows = MtpRows(g.hidden.state, first, n)
      BY <2>2 DEF MtpPrefillRows
    <3> HIDE DEF rows, first, behind
    <3>2. first + n <= MaximumTokens + 1 /\ first \in Nat \ {0} /\ n \in Nat
      BY <1>1, <2>2
    <3>3. rows \in Rows /\ Len(rows) = n
      BY <3>1, <3>2, MtpRowsType
    <3> QED BY <1>1, <2>2, <3>3
  <2> QED BY <2>1, <2>2
<1>3. Prefilled(g, n, TRUE) = g4
  BY DEF Prefilled
<1> HIDE DEF first, behind, chunk, rows
<1>4. /\ g1 \in Graph
      /\ chunk \in Rows /\ Len(chunk) = n
      /\ g1.kv.target = Recorded(AppendRows(g.kv.target, first, chunk), n)
      /\ g1.kv.mtp = g.kv.mtp
      /\ g1.mixers.state = Consumed(g.mixers.state, chunk)
      /\ g1.mixers.checkpoint = g.mixers.checkpoint
      /\ g1.position.target = end /\ g1.position.mtp = g.position.mtp
      /\ g1.target_tokens = end
      /\ SameBut(g1, g, {"kv", "mixers", "position", "target_tokens"})
  <2>1. g.target_tokens + n <= MaximumTokens /\ g.kv.target.tokens = g.target_tokens
    OBVIOUS
  <2> QED BY <2>1, PrefilledTargetEffect, Zenon DEF first, chunk
<1> HIDE DEF g1
<1>5. /\ g2 \in Graph
      /\ g2.kv.mtp = Recorded(AppendRows(g.kv.mtp, behind, rows), Len(rows))
      /\ g2.kv.target = g1.kv.target
      /\ g2.position.mtp = last /\ g2.position.target = g1.position.target
      /\ SameBut(g2, g1, {"kv", "position"})
  <2>1. behind + Len(rows) <= MaximumTokens /\ g1.kv.mtp.tokens + Len(rows) <= MaximumTokens
    BY <1>1, <1>2, <1>4
  <2>2. /\ g2 \in Graph
        /\ g2.kv.mtp = Recorded(AppendRows(g1.kv.mtp, behind, rows), Len(rows))
        /\ g2.kv.target = g1.kv.target
        /\ g2.position.mtp = behind + Len(rows) /\ g2.position.target = g1.position.target
        /\ SameBut(g2, g1, {"kv", "position"})
    <3>1. g1 \in Graph /\ behind \in Nat /\ rows \in Rows
      BY <1>1, <1>2, <1>4
    <3> QED BY ONLY <2>1, <3>1, MtpKernelsEffect
  <2> HIDE DEF g2, last
  <2> QED BY <1>2, <1>4, <2>2
<1>6. g2 \in Graph /\ end \in Count \cup {Junk} /\ last \in Count
  BY <1>1, <1>5
<1> HIDE DEF g2, g3, g4, end, last
<1>7. /\ g3 \in Graph /\ SameBut(g3, g2, {"hidden"})
      /\ g3.hidden.state = end /\ g3.hidden.checkpoint = g2.hidden.checkpoint
  BY SMTT(30), <1>6 DEF Graph, Buffer, SameBut, g3
<1>8. g4 \in Graph /\ SameBut(g4, g3, {"mtp_tokens"}) /\ g4.mtp_tokens = last
  BY <1>6, <1>7 DEF Graph, SameBut, g4
<1>9. SameBut(g4, g, {"kv", "mixers", "hidden", "position", "target_tokens", "mtp_tokens"})
  BY <1>4, <1>5, <1>7, <1>8 DEF SameBut
<1>10. g4.kv = g2.kv /\ g4.position = g2.position /\ g4.hidden = g3.hidden /\ g4.mixers = g1.mixers
  BY <1>5, <1>7, <1>8 DEF SameBut
<1>11. g2.hidden = g.hidden /\ g4.target_tokens = end
  BY <1>4, <1>5, <1>7, <1>8 DEF SameBut
<1>12. LET r == Prefilled(g, n, TRUE)
       IN /\ r \in Graph
          /\ chunk \in Rows /\ Len(chunk) = n
          /\ rows \in Rows /\ behind + Len(rows) = last
          /\ r.kv.target = Recorded(AppendRows(g.kv.target, first, chunk), n)
          /\ r.kv.mtp = Recorded(AppendRows(g.kv.mtp, behind, rows), Len(rows))
          /\ r.mixers.state = Consumed(g.mixers.state, chunk)
          /\ r.mixers.checkpoint = g.mixers.checkpoint
          /\ r.hidden.state = end /\ r.hidden.checkpoint = g.hidden.checkpoint
          /\ r.position.target = end /\ r.position.mtp = last
          /\ r.target_tokens = end /\ r.mtp_tokens = last
          /\ SameBut(r, g, {"kv", "mixers", "hidden", "position", "target_tokens",
                            "mtp_tokens"})
  BY <1>2, <1>3, <1>4, <1>5, <1>7, <1>8, <1>9, <1>10, <1>11
<1>13. last = first + n - 1
  BY <1>1 DEF last, end
<1> QED BY <1>12, <1>13, Zenon DEF first, behind, chunk, rows, end

\* The checkpoint of a buffer.
LEMMA BufferCheckpoint ==
  ASSUME NEW b \in Buffer
  PROVE  /\ Snapshot(b) \in Buffer /\ Snapshot(b).state = b.state
         /\ Snapshot(b).checkpoint = <<b.state>>
         /\ Dropped(b) \in Buffer /\ Dropped(b).state = b.state /\ Dropped(b).checkpoint = << >>
         /\ b.checkpoint # << >> =>
              /\ Rewound(b) \in Buffer /\ Rewound(b).state = b.checkpoint[1]
              /\ Rewound(b).checkpoint = << >>
         /\ EmptyBuffer \in Buffer
<1>1. /\ Snapshot(b) \in Buffer /\ Snapshot(b).state = b.state
      /\ Snapshot(b).checkpoint = <<b.state>>
  BY DEF Buffer, Snapshot
<1>2. Dropped(b) \in Buffer /\ Dropped(b).state = b.state /\ Dropped(b).checkpoint = << >>
  BY DEF Buffer, Dropped
<1>3. ASSUME b.checkpoint # << >>
      PROVE  /\ Rewound(b) \in Buffer /\ Rewound(b).state = b.checkpoint[1]
             /\ Rewound(b).checkpoint = << >>
  <2>1. b.checkpoint[1] \in Count \cup {Junk}
    BY <1>3 DEF Buffer
  <2> QED BY <2>1 DEF Rewound, Buffer
<1>4. EmptyBuffer \in Buffer
  BY RowTypes DEF EmptyBuffer, Buffer, Count
<1> QED BY <1>1, <1>2, <1>3, <1>4

\* The checkpoint of an owner.
LEMMA OwnerCheckpoint ==
  ASSUME NEW o \in Owner
  PROVE  /\ OwnerBegun(o) \in Owner /\ OwnerBegun(o).tokens = o.tokens
         /\ OwnerBegun(o).poisoned = o.poisoned /\ OwnerBegun(o).checkpoint = <<o.tokens>>
         /\ OwnerBegun(o).q4 = o.q4 /\ OwnerBegun(o).q2 = o.q2
         /\ OwnerCommitted(o) \in Owner /\ OwnerCommitted(o).tokens = o.tokens
         /\ OwnerCommitted(o).poisoned = o.poisoned /\ OwnerCommitted(o).checkpoint = << >>
         /\ OwnerCommitted(o).q4 = o.q4 /\ OwnerCommitted(o).q2 = o.q2
         /\ o.checkpoint # << >> =>
              /\ OwnerRestored(o) \in Owner /\ OwnerRestored(o).tokens = o.checkpoint[1]
              /\ OwnerRestored(o).poisoned = FALSE /\ OwnerRestored(o).checkpoint = << >>
              /\ OwnerRestored(o).q4 = o.q4 /\ OwnerRestored(o).q2 = o.q2
<1>1. /\ OwnerBegun(o) \in Owner /\ OwnerBegun(o).tokens = o.tokens
      /\ OwnerBegun(o).poisoned = o.poisoned /\ OwnerBegun(o).checkpoint = <<o.tokens>>
      /\ OwnerBegun(o).q4 = o.q4 /\ OwnerBegun(o).q2 = o.q2
  BY DEF Owner, OwnerBegun
<1>2. /\ OwnerCommitted(o) \in Owner /\ OwnerCommitted(o).tokens = o.tokens
      /\ OwnerCommitted(o).poisoned = o.poisoned /\ OwnerCommitted(o).checkpoint = << >>
      /\ OwnerCommitted(o).q4 = o.q4 /\ OwnerCommitted(o).q2 = o.q2
  BY DEF Owner, OwnerCommitted
<1>3. ASSUME o.checkpoint # << >>
      PROVE  /\ OwnerRestored(o) \in Owner /\ OwnerRestored(o).tokens = o.checkpoint[1]
             /\ OwnerRestored(o).poisoned = FALSE /\ OwnerRestored(o).checkpoint = << >>
             /\ OwnerRestored(o).q4 = o.q4 /\ OwnerRestored(o).q2 = o.q2
  <2> DEFINE count == o.checkpoint[1]
             no == FALSE
             o1 == [o EXCEPT !.tokens = count]
             o2 == [o1 EXCEPT !.checkpoint = << >>]
             o3 == [o2 EXCEPT !.poisoned = no]
  <2>1. count \in 0 .. MaximumTokens
    BY <1>3 DEF Owner
  <2>2. OwnerRestored(o) = o3
    BY DEF OwnerRestored
  <2>3. no \in BOOLEAN
    OBVIOUS
  <2> HIDE DEF count, no, o1, o2, o3
  <2>4. o1 \in Owner /\ o1.tokens = count /\ o1.q4 = o.q4 /\ o1.q2 = o.q2
    BY <2>1 DEF Owner, o1
  <2>5. /\ o2 \in Owner /\ o2.tokens = o1.tokens /\ o2.q4 = o1.q4 /\ o2.q2 = o1.q2
        /\ o2.checkpoint = << >>
    BY <2>4 DEF Owner, o2
  <2>6. /\ o3 \in Owner /\ o3.tokens = o2.tokens /\ o3.q4 = o2.q4 /\ o3.q2 = o2.q2
        /\ o3.checkpoint = o2.checkpoint /\ o3.poisoned = no
    BY <2>3, <2>5 DEF Owner, o3
  <2> QED BY <2>2, <2>4, <2>5, <2>6, Zenon DEF count, no
<1> QED BY <1>1, <1>2, <1>3

(* A branch that is begun takes the checkpoint of every owner. *)
LEMMA BegunEffect ==
  ASSUME NEW g \in Graph
  PROVE  LET r == Begun(g)
         IN  /\ r \in Graph
             /\ r.kv.target = OwnerBegun(g.kv.target) /\ r.kv.mtp = OwnerBegun(g.kv.mtp)
             /\ r.mixers.state = g.mixers.state /\ r.mixers.checkpoint = <<g.mixers.state>>
             /\ r.hidden.state = g.hidden.state /\ r.hidden.checkpoint = <<g.hidden.state>>
             /\ r.speculative_base = <<g.target_tokens, g.mtp_tokens>>
             /\ SameBut(r, g, {"kv", "mixers", "hidden", "speculative_base"})
<1> DEFINE hidden == Snapshot(g.hidden)
           mixers == Snapshot(g.mixers)
           kv == [l \in Layers |-> OwnerBegun(g.kv[l])]
           base == <<g.target_tokens, g.mtp_tokens>>
           g1 == [g EXCEPT !.hidden = hidden]
           g2 == [g1 EXCEPT !.mixers = mixers]
           g3 == [g2 EXCEPT !.kv = kv]
           g4 == [g3 EXCEPT !.speculative_base = base]
<1>1. /\ g.hidden \in Buffer /\ g.mixers \in Buffer
      /\ \A l \in Layers : g.kv[l] \in Owner
      /\ base \in {<<t, m>> : t \in Count, m \in Count}
  BY DEF Graph
<1>2. hidden \in Buffer /\ mixers \in Buffer
  BY <1>1, BufferCheckpoint
<1>3. kv \in [Layers -> Owner]
  <2>1. ASSUME NEW o \in Owner
        PROVE  OwnerBegun(o) \in Owner
    BY OwnerCheckpoint
  <2>2. \A l \in Layers : OwnerBegun(g.kv[l]) \in Owner
    BY <1>1, <2>1
  <2> QED BY <2>2
<1>4. kv.target = OwnerBegun(g.kv.target) /\ kv.mtp = OwnerBegun(g.kv.mtp)
  BY DEF Layers
<1> HIDE DEF hidden, mixers, kv, base, g1, g2, g3, g4
<1>5. g1 \in Graph /\ SameBut(g1, g, {"hidden"}) /\ g1.hidden = hidden
  BY <1>2 DEF Graph, SameBut, g1
<1>6. g2 \in Graph /\ SameBut(g2, g1, {"mixers"}) /\ g2.mixers = mixers
  BY <1>2, <1>5 DEF Graph, SameBut, g2
<1>7. g3 \in Graph /\ SameBut(g3, g2, {"kv"}) /\ g3.kv = kv
  BY <1>3, <1>6 DEF Graph, SameBut, g3
<1>8. g4 \in Graph /\ SameBut(g4, g3, {"speculative_base"}) /\ g4.speculative_base = base
  BY <1>1, <1>7 DEF Graph, SameBut, g4
<1>9. Begun(g) = g4
  <2>1. g1.mixers = g.mixers /\ g2.kv = g.kv
    BY <1>5, <1>6 DEF SameBut
  <2>2. mixers = Snapshot(g1.mixers) /\ kv = [l \in Layers |-> OwnerBegun(g2.kv[l])]
    BY <2>1 DEF mixers, kv
  <2> QED BY <2>2, Zenon DEF Begun, g4, g3, g2, g1, hidden, base
<1>10. LET r == Begun(g)
       IN  /\ r \in Graph /\ r.kv = kv /\ r.mixers = mixers /\ r.hidden = hidden
           /\ r.speculative_base = base
           /\ SameBut(r, g, {"kv", "mixers", "hidden", "speculative_base"})
  BY <1>5, <1>6, <1>7, <1>8, <1>9 DEF SameBut
<1>11. /\ hidden.state = g.hidden.state /\ hidden.checkpoint = <<g.hidden.state>>
       /\ mixers.state = g.mixers.state /\ mixers.checkpoint = <<g.mixers.state>>
  BY <1>1, BufferCheckpoint DEF hidden, mixers
<1> QED BY <1>4, <1>10, <1>11, Zenon DEF base

(* A commit drops the checkpoint of every owner. *)
LEMMA CommittedEffect ==
  ASSUME NEW g \in Graph
  PROVE  LET r == Committed(g)
         IN  /\ r \in Graph
             /\ r.kv.target = OwnerCommitted(g.kv.target)
             /\ r.kv.mtp = OwnerCommitted(g.kv.mtp)
             /\ r.mixers.state = g.mixers.state /\ r.mixers.checkpoint = << >>
             /\ r.hidden.state = g.hidden.state /\ r.hidden.checkpoint = << >>
             /\ r.speculative_base = << >>
             /\ SameBut(r, g, {"kv", "mixers", "hidden", "speculative_base"})
<1> DEFINE hidden == Dropped(g.hidden)
           mixers == Dropped(g.mixers)
           kv == [l \in Layers |-> OwnerCommitted(g.kv[l])]
           g1 == [g EXCEPT !.speculative_base = << >>]
           g2 == [g1 EXCEPT !.mixers = mixers]
           g3 == [g2 EXCEPT !.hidden = hidden]
           g4 == [g3 EXCEPT !.kv = kv]
<1>1. /\ g.hidden \in Buffer /\ g.mixers \in Buffer
      /\ \A l \in Layers : g.kv[l] \in Owner
  BY DEF Graph
<1>2. hidden \in Buffer /\ mixers \in Buffer
  BY <1>1, BufferCheckpoint
<1>3. kv \in [Layers -> Owner]
  <2>1. ASSUME NEW o \in Owner
        PROVE  OwnerCommitted(o) \in Owner
    BY OwnerCheckpoint
  <2>2. \A l \in Layers : OwnerCommitted(g.kv[l]) \in Owner
    BY <1>1, <2>1
  <2> QED BY <2>2
<1>4. kv.target = OwnerCommitted(g.kv.target) /\ kv.mtp = OwnerCommitted(g.kv.mtp)
  BY DEF Layers
<1> HIDE DEF hidden, mixers, kv, g1, g2, g3, g4
<1>5. g1 \in Graph /\ SameBut(g1, g, {"speculative_base"}) /\ g1.speculative_base = << >>
  BY DEF Graph, SameBut, g1
<1>6. g2 \in Graph /\ SameBut(g2, g1, {"mixers"}) /\ g2.mixers = mixers
  BY <1>2, <1>5 DEF Graph, SameBut, g2
<1>7. g3 \in Graph /\ SameBut(g3, g2, {"hidden"}) /\ g3.hidden = hidden
  BY <1>2, <1>6 DEF Graph, SameBut, g3
<1>8. g4 \in Graph /\ SameBut(g4, g3, {"kv"}) /\ g4.kv = kv
  BY <1>3, <1>7 DEF Graph, SameBut, g4
<1>9. Committed(g) = g4
  <2>1. g1.mixers = g.mixers /\ g2.hidden = g.hidden /\ g3.kv = g.kv
    BY <1>5, <1>6, <1>7 DEF SameBut
  <2>2. /\ mixers = Dropped(g1.mixers) /\ hidden = Dropped(g2.hidden)
        /\ kv = [l \in Layers |-> OwnerCommitted(g3.kv[l])]
    BY <2>1 DEF mixers, hidden, kv
  <2> QED BY <2>2, Zenon DEF Committed, g4, g3, g2, g1
<1>10. LET r == Committed(g)
       IN  /\ r \in Graph /\ r.kv = kv /\ r.mixers = mixers /\ r.hidden = hidden
           /\ r.speculative_base = << >>
           /\ SameBut(r, g, {"kv", "mixers", "hidden", "speculative_base"})
  BY <1>5, <1>6, <1>7, <1>8, <1>9 DEF SameBut
<1>11. /\ hidden.state = g.hidden.state /\ hidden.checkpoint = << >>
       /\ mixers.state = g.mixers.state /\ mixers.checkpoint = << >>
  BY <1>1, BufferCheckpoint DEF hidden, mixers
<1> QED BY <1>4, <1>10, <1>11, Zenon

\* Every owner has a checkpoint.
Undoable(g) ==
  /\ g.speculative_base # << >>
  /\ g.mixers.checkpoint # << >> /\ g.hidden.checkpoint # << >>
  /\ g.kv.target.checkpoint # << >> /\ g.kv.mtp.checkpoint # << >>

(* A restore of the owners. *)
LEMMA RestoredOwnersEffect ==
  ASSUME NEW g \in Graph, Undoable(g)
  PROVE  LET r == RestoredOwners(g)
         IN  /\ r \in Graph
             /\ r.kv.target = OwnerRestored(g.kv.target)
             /\ r.kv.mtp = OwnerRestored(g.kv.mtp)
             /\ r.mixers.state = g.mixers.checkpoint[1] /\ r.mixers.checkpoint = << >>
             /\ r.hidden.state = g.hidden.checkpoint[1] /\ r.hidden.checkpoint = << >>
             /\ r.speculative_base = << >>
             /\ r.target_tokens = g.speculative_base[1]
             /\ r.mtp_tokens = g.speculative_base[2]
             /\ r.overwritten.target = g.overwritten.target \cup WrittenOver(g.kv.target)
             /\ r.overwritten.mtp = g.overwritten.mtp \cup WrittenOver(g.kv.mtp)
             /\ SameBut(r, g, {"kv", "mixers", "hidden", "speculative_base", "target_tokens",
                               "mtp_tokens", "overwritten"})
<1> DEFINE hidden == Rewound(g.hidden)
           mixers == Rewound(g.mixers)
           kv == [l \in Layers |-> OwnerRestored(g.kv[l])]
           target == g.speculative_base[1]
           mtp == g.speculative_base[2]
           over == [l \in Layers |-> g.overwritten[l] \cup WrittenOver(g.kv[l])]
           g1 == [g EXCEPT !.speculative_base = << >>]
           g2 == [g1 EXCEPT !.mixers = mixers]
           g3 == [g2 EXCEPT !.hidden = hidden]
           g4 == [g3 EXCEPT !.kv = kv]
           g5 == [g4 EXCEPT !.target_tokens = target]
           g6 == [g5 EXCEPT !.mtp_tokens = mtp]
           g7 == [g6 EXCEPT !.overwritten = over]
<1>1. /\ g.hidden \in Buffer /\ g.mixers \in Buffer
      /\ \A l \in Layers : g.kv[l] \in Owner /\ g.overwritten[l] \in SUBSET Pages
      /\ target \in Count /\ mtp \in Count
  BY DEF Graph, Undoable
<1>2. hidden \in Buffer /\ mixers \in Buffer
  BY <1>1, BufferCheckpoint DEF Undoable
<1>3. kv \in [Layers -> Owner]
  <2>1. ASSUME NEW o \in Owner, o.checkpoint # << >>
        PROVE  OwnerRestored(o) \in Owner
    BY <2>1, OwnerCheckpoint
  <2>2. \A l \in Layers : g.kv[l].checkpoint # << >>
    BY DEF Layers, Undoable
  <2>3. \A l \in Layers : OwnerRestored(g.kv[l]) \in Owner
    BY <1>1, <2>1, <2>2
  <2> QED BY <2>3
<1>4. /\ kv.target = OwnerRestored(g.kv.target) /\ kv.mtp = OwnerRestored(g.kv.mtp)
      /\ over.target = g.overwritten.target \cup WrittenOver(g.kv.target)
      /\ over.mtp = g.overwritten.mtp \cup WrittenOver(g.kv.mtp)
  BY DEF Layers
<1>5. over \in [Layers -> SUBSET Pages]
  <2>1. \A o : WrittenOver(o) \in SUBSET Pages
    BY DEF WrittenOver
  <2>2. \A l \in Layers : g.overwritten[l] \cup WrittenOver(g.kv[l]) \in SUBSET Pages
    BY <1>1, <2>1
  <2> QED BY <2>2
<1> HIDE DEF hidden, mixers, kv, target, mtp, over, g1, g2, g3, g4, g5, g6, g7
<1>6. g1 \in Graph /\ SameBut(g1, g, {"speculative_base"}) /\ g1.speculative_base = << >>
  BY DEF Graph, SameBut, g1
<1>7. g2 \in Graph /\ SameBut(g2, g1, {"mixers"}) /\ g2.mixers = mixers
  BY <1>2, <1>6 DEF Graph, SameBut, g2
<1>8. g3 \in Graph /\ SameBut(g3, g2, {"hidden"}) /\ g3.hidden = hidden
  BY <1>2, <1>7 DEF Graph, SameBut, g3
<1>9. g4 \in Graph /\ SameBut(g4, g3, {"kv"}) /\ g4.kv = kv
  BY <1>3, <1>8 DEF Graph, SameBut, g4
<1>10. g5 \in Graph /\ SameBut(g5, g4, {"target_tokens"}) /\ g5.target_tokens = target
  BY <1>1, <1>9 DEF Graph, SameBut, g5
<1>11. g6 \in Graph /\ SameBut(g6, g5, {"mtp_tokens"}) /\ g6.mtp_tokens = mtp
  BY <1>1, <1>10 DEF Graph, SameBut, g6
<1>12. g7 \in Graph /\ SameBut(g7, g6, {"overwritten"}) /\ g7.overwritten = over
  BY <1>5, <1>11 DEF Graph, SameBut, g7
<1>13. RestoredOwners(g) = g7
  BY Zenon DEF RestoredOwners, g7, g6, g5, g4, g3, g2, g1, hidden, mixers, kv, over, target, mtp
<1>14. LET r == RestoredOwners(g)
       IN  /\ r \in Graph /\ r.kv = kv /\ r.mixers = mixers /\ r.hidden = hidden
           /\ r.speculative_base = << >> /\ r.target_tokens = target /\ r.mtp_tokens = mtp
           /\ r.overwritten = over
           /\ SameBut(r, g, {"kv", "mixers", "hidden", "speculative_base", "target_tokens",
                             "mtp_tokens", "overwritten"})
  BY <1>6, <1>7, <1>8, <1>9, <1>10, <1>11, <1>12, <1>13 DEF SameBut
<1>15. /\ hidden.state = g.hidden.checkpoint[1] /\ hidden.checkpoint = << >>
       /\ mixers.state = g.mixers.checkpoint[1] /\ mixers.checkpoint = << >>
  BY <1>1, BufferCheckpoint DEF hidden, mixers, Undoable
<1> QED BY <1>4, <1>14, <1>15, Zenon DEF target, mtp

(* A whole restore. *)
LEMMA RestoredEffect ==
  ASSUME NEW g \in Graph, Undoable(g)
  PROVE  LET r == Restored(g)
         IN  /\ r \in Graph
             /\ r.position.target = g.speculative_base[1]
             /\ r.position.mtp = g.speculative_base[2]
             /\ ~r.poisoned /\ ~r.mtp_poisoned
             /\ SameBut(r, RestoredOwners(g), {"position", "poisoned", "mtp_poisoned"})
<1> DEFINE g1 == RestoredOwners(g)
           position == [l \in Layers |-> g.speculative_base[IF l = "target" THEN 1 ELSE 2]]
           no == FALSE
           g2 == [g1 EXCEPT !.position = position]
           g3 == [g2 EXCEPT !.poisoned = no]
           g4 == [g3 EXCEPT !.mtp_poisoned = no]
<1>1. g1 \in Graph
  BY RestoredOwnersEffect
<1>2. g.speculative_base[1] \in Count /\ g.speculative_base[2] \in Count
  BY DEF Graph, Undoable
<1>3. /\ position \in [Layers -> Count]
      /\ position.target = g.speculative_base[1] /\ position.mtp = g.speculative_base[2]
  BY <1>2 DEF Layers
<1>4. no \in BOOLEAN /\ ~no
  OBVIOUS
<1>5. Restored(g) = g4
  BY Zenon DEF Restored
<1> HIDE DEF g1, g2, g3, g4, position, no
<1>6. g2 \in Graph /\ SameBut(g2, g1, {"position"}) /\ g2.position = position
  BY <1>1, <1>3 DEF Graph, SameBut, g2
<1>7. g3 \in Graph /\ SameBut(g3, g2, {"poisoned"}) /\ g3.poisoned = no
  BY <1>4, <1>6 DEF Graph, SameBut, g3
<1>8. g4 \in Graph /\ SameBut(g4, g3, {"mtp_poisoned"}) /\ g4.mtp_poisoned = no
  BY <1>4, <1>7 DEF Graph, SameBut, g4
<1>9. /\ g4.position = position /\ g4.poisoned = no /\ g4.mtp_poisoned = no
      /\ SameBut(g4, g1, {"position", "poisoned", "mtp_poisoned"})
  BY <1>6, <1>7, <1>8 DEF SameBut
<1>10. LET r == Restored(g)
       IN  /\ r \in Graph
           /\ r.position.target = g.speculative_base[1]
           /\ r.position.mtp = g.speculative_base[2]
           /\ ~r.poisoned /\ ~r.mtp_poisoned
           /\ SameBut(r, g1, {"position", "poisoned", "mtp_poisoned"})
  BY <1>3, <1>4, <1>5, <1>8, <1>9
<1> QED BY <1>10, Zenon DEF g1

-----------------------------------------------------------------------------
(* What a failed operation leaves is a graph, with the captures it had      *)

SameCaptures(r, g) == r.captured = g.captured /\ r.verify_base = g.verify_base

\* Marks of an operation under way.
LEMMA PoisonedEffect ==
  ASSUME NEW g \in Graph
  PROVE  /\ [g EXCEPT !.poisoned = TRUE] \in Graph
         /\ SameBut([g EXCEPT !.poisoned = TRUE], g, {"poisoned"})
<1> DEFINE yes == TRUE
           r == [g EXCEPT !.poisoned = yes]
<1>1. yes \in BOOLEAN
  OBVIOUS
<1> HIDE DEF yes
<1>2. r \in Graph /\ SameBut(r, g, {"poisoned"})
  BY <1>1 DEF Graph, SameBut
<1> QED BY <1>2, Zenon DEF yes

\* The same for MTP.
LEMMA MtpPoisonedEffect ==
  ASSUME NEW g \in Graph, NEW mark \in BOOLEAN
  PROVE  /\ [g EXCEPT !.mtp_poisoned = mark] \in Graph
         /\ SameBut([g EXCEPT !.mtp_poisoned = mark], g, {"mtp_poisoned"})
BY DEF Graph, SameBut

\* Both marks.
LEMMA BothPoisonedEffect ==
  ASSUME NEW g \in Graph, NEW mark \in BOOLEAN
  PROVE  LET r == [g EXCEPT !.poisoned = TRUE, !.mtp_poisoned = mark]
         IN  r \in Graph /\ SameBut(r, g, {"poisoned", "mtp_poisoned"})
<1> DEFINE g1 == [g EXCEPT !.poisoned = TRUE]
           g2 == [g1 EXCEPT !.mtp_poisoned = mark]
<1>1. g1 \in Graph /\ SameBut(g1, g, {"poisoned"})
  BY PoisonedEffect
<1> HIDE DEF g1
<1>2. g2 \in Graph /\ SameBut(g2, g1, {"mtp_poisoned"})
  BY <1>1, MtpPoisonedEffect
<1> HIDE DEF g2
<1>3. g2 \in Graph /\ SameBut(g2, g, {"poisoned", "mtp_poisoned"})
  BY <1>1, <1>2 DEF SameBut
<1> QED BY <1>3, Zenon DEF g1, g2

\* A token that fails in the target.
LEMMA TargetTokenBrokenType ==
  ASSUME NEW g \in Graph, NEW row \in Row,
         g.target_tokens < MaximumTokens, g.kv.target.tokens < MaximumTokens,
         NEW r \in TargetTokenBroken(g, row)
  PROVE  r \in Graph /\ SameBut(r, g, {"poisoned", "kv", "mixers", "position"})
<1> DEFINE marked == [g EXCEPT !.poisoned = TRUE]
<1>1. marked \in Graph /\ SameBut(marked, g, {"poisoned"})
  BY PoisonedEffect
<1>2. r = marked \/ r = TargetKernels(marked, g.target_tokens, <<row>>)
  BY DEF TargetTokenBroken
<1> HIDE DEF marked
<1>3. CASE r = marked
  BY <1>1, <1>3 DEF SameBut
<1>4. CASE r = TargetKernels(marked, g.target_tokens, <<row>>)
  <2>1. /\ g.target_tokens \in Nat /\ <<row>> \in Rows
        /\ g.target_tokens + Len(<<row>>) <= MaximumTokens
        /\ g.kv.target.tokens + Len(<<row>>) <= MaximumTokens
    BY RowTypes DEF Graph, Count, Layers, Owner
  <2>2. marked.kv.target.tokens + Len(<<row>>) <= MaximumTokens
    BY <1>1, <2>1 DEF SameBut
  <2>3. r \in Graph /\ SameBut(r, marked, {"kv", "mixers", "position"})
    BY ONLY <1>1, <1>4, <2>1, <2>2, TargetKernelsEffect
  <2> QED BY <1>1, <2>3 DEF SameBut
<1> QED BY <1>2, <1>3, <1>4

\* A token that fails in the MTP layer.
LEMMA MtpTokenBrokenType ==
  ASSUME NEW g \in Graph, NEW row,
         g.mtp_tokens < MaximumTokens, g.kv.mtp.tokens < MaximumTokens,
         NEW r \in MtpTokenBroken(g, row)
  PROVE  /\ r \in Graph /\ SameBut(r, g, {"mtp_poisoned", "kv", "position"})
         /\ r.kv.target = g.kv.target
<1> DEFINE marked == [g EXCEPT !.mtp_poisoned = TRUE]
<1>1. marked \in Graph /\ SameBut(marked, g, {"mtp_poisoned"})
  BY MtpPoisonedEffect
<1>2. r = marked \/ r = MtpKernels(marked, g.mtp_tokens, <<Junk>>)
  BY DEF MtpTokenBroken
<1> HIDE DEF marked
<1>3. CASE r = marked
  BY <1>1, <1>3 DEF SameBut
<1>4. CASE r = MtpKernels(marked, g.mtp_tokens, <<Junk>>)
  <2>1. /\ g.mtp_tokens \in Nat /\ <<Junk>> \in Rows
        /\ g.mtp_tokens + Len(<<Junk>>) <= MaximumTokens
        /\ g.kv.mtp.tokens + Len(<<Junk>>) <= MaximumTokens
    BY RowTypes DEF Graph, Count, Layers, Owner
  <2>2. marked.kv = g.kv
    BY <1>1 DEF SameBut
  <2>3. marked.kv.mtp.tokens + Len(<<Junk>>) <= MaximumTokens
    BY <2>1, <2>2
  <2>4. /\ r \in Graph /\ SameBut(r, marked, {"kv", "position"})
        /\ r.kv.target = marked.kv.target
    BY ONLY <1>1, <1>4, <2>1, <2>3, MtpKernelsEffect
  <2> QED BY <1>1, <2>2, <2>4 DEF SameBut
<1> QED BY <1>2, <1>3, <1>4

\* A chunk that fails.
LEMMA PrefillBrokenType ==
  ASSUME NEW g \in Graph, NEW n \in Nat, NEW mtp \in BOOLEAN,
         g.target_tokens + n <= MaximumTokens, g.kv.target.tokens = g.target_tokens,
         NEW r \in PrefillBroken(g, n, mtp)
  PROVE  r \in Graph /\ SameCaptures(r, g)
<1> DEFINE mark == g.mtp_poisoned \/ mtp
           marked == [g EXCEPT !.poisoned = TRUE, !.mtp_poisoned = mark]
           rows == ChunkRows(g, n)
           g1 == TargetKernels(marked, g.target_tokens, rows)
           yes == TRUE
           place == g.position
           g2 == [g1 EXCEPT !.kv.target.poisoned = yes]
           g3 == [g2 EXCEPT !.position = place]
<1>1. r = marked \/ r = g3
  BY Zenon DEF PrefillBroken
<1>2. marked \in Graph /\ SameBut(marked, g, {"poisoned", "mtp_poisoned"})
  <2>1. mark \in BOOLEAN
    OBVIOUS
  <2> HIDE DEF mark
  <2> QED BY <2>1, BothPoisonedEffect
<1>3. /\ g.target_tokens \in Nat /\ rows \in Rows /\ Len(rows) = n
      /\ place \in [Layers -> Count] /\ yes \in BOOLEAN
  <2>1. rows = PathRows(g.target_tokens, n)
    BY DEF ChunkRows, PathRows
  <2>2. g.target_tokens \in Nat /\ place \in [Layers -> Count] /\ yes \in BOOLEAN
    BY RowTypes DEF Graph, Count
  <2> HIDE DEF rows, place, yes
  <2> QED BY <2>1, <2>2, PathRowsType
<1> HIDE DEF marked, rows, g3, yes, place
<1>4. CASE r = marked
  BY <1>2, <1>4 DEF SameBut, SameCaptures
<1>5. CASE r = g3
  <2>1. marked.kv.target.tokens + Len(rows) <= MaximumTokens
    BY <1>2, <1>3 DEF SameBut
  <2>2. g.target_tokens + Len(rows) <= MaximumTokens
    BY <1>3
  <2>3. g1 \in Graph /\ SameBut(g1, marked, {"kv", "mixers", "position"})
    BY ONLY <1>2, <1>3, <2>1, <2>2, TargetKernelsEffect
  <2> HIDE DEF g1, g2
  <2>4. g2 \in Graph /\ SameBut(g2, g1, {"kv"})
    <3> DEFINE owner == [g1.kv.target EXCEPT !.poisoned = yes]
    <3>1. g1.kv.target \in Owner
      BY <2>3 DEF Graph, Layers
    <3>2. owner \in Owner
      BY <1>3, <3>1 DEF Owner
    <3>3. g2 = [g1 EXCEPT !.kv.target = owner]
      BY Zenon DEF g2
    <3> HIDE DEF owner
    <3> QED BY <2>3, <3>2, <3>3 DEF Graph, Layers, SameBut
  <2>5. g3 \in Graph /\ SameBut(g3, g2, {"position"})
    BY <1>3, <2>4 DEF Graph, SameBut, g3
  <2> QED BY <1>2, <1>5, <2>3, <2>4, <2>5 DEF SameBut, SameCaptures
<1> QED BY <1>1, <1>4, <1>5

\* A commit or a restore that fails.
LEMMA ResolutionBrokenType ==
  ASSUME NEW g \in Graph
  PROVE  /\ \A r \in CommitBroken(g) : r \in Graph /\ SameCaptures(r, g)
         /\ Undoable(g) => \A r \in RestoreBroken(g) : r \in Graph /\ SameCaptures(r, g)
<1>1. ASSUME NEW mixers \in Buffer
      PROVE  LET r == [g EXCEPT !.speculative_base = << >>, !.mixers = mixers,
                                !.poisoned = TRUE, !.mtp_poisoned = TRUE]
             IN  r \in Graph /\ SameCaptures(r, g)
  <2> DEFINE g1 == [g EXCEPT !.speculative_base = << >>]
             g2 == [g1 EXCEPT !.mixers = mixers]
             g3 == [g2 EXCEPT !.poisoned = TRUE, !.mtp_poisoned = TRUE]
  <2>1. g1 \in Graph /\ SameBut(g1, g, {"speculative_base"})
    BY DEF Graph, SameBut
  <2> HIDE DEF g1
  <2>2. g2 \in Graph /\ SameBut(g2, g1, {"mixers"})
    BY <1>1, <2>1 DEF Graph, SameBut
  <2> HIDE DEF g2
  <2>3. g3 \in Graph /\ SameBut(g3, g2, {"poisoned", "mtp_poisoned"})
    BY <2>2, BothPoisonedEffect
  <2> HIDE DEF g3
  <2>4. g3 \in Graph /\ SameCaptures(g3, g)
    BY <2>1, <2>2, <2>3 DEF SameBut, SameCaptures
  <2> QED BY <2>4, Zenon DEF g1, g2, g3
<1>2. g.mixers \in Buffer
  BY DEF Graph
<1>3. ASSUME NEW r \in CommitBroken(g)
      PROVE  r \in Graph /\ SameCaptures(r, g)
  <2> DEFINE mixers == Dropped(g.mixers)
  <2>1. mixers \in Buffer
    BY <1>2, BufferCheckpoint
  <2>2. r = [g EXCEPT !.speculative_base = << >>, !.mixers = mixers,
                      !.poisoned = TRUE, !.mtp_poisoned = TRUE]
    <3>1. [g EXCEPT !.speculative_base = << >>].mixers = g.mixers
      BY DEF Graph
    <3> QED BY <1>3, <3>1, Zenon DEF CommitBroken
  <2> HIDE DEF mixers
  <2> QED BY <1>1, <2>1, <2>2
<1>4. ASSUME Undoable(g), NEW r \in RestoreBroken(g)
      PROVE  r \in Graph /\ SameCaptures(r, g)
  <2> DEFINE mixers == Rewound(g.mixers)
  <2>1. mixers \in Buffer
    BY <1>2, <1>4, BufferCheckpoint DEF Undoable
  <2>2. CASE r # RestoredOwners(g)
    <3>1. r = [g EXCEPT !.speculative_base = << >>, !.mixers = mixers,
                        !.poisoned = TRUE, !.mtp_poisoned = TRUE]
      <4>1. [g EXCEPT !.speculative_base = << >>].mixers = g.mixers
        BY DEF Graph
      <4> QED BY <1>4, <2>2, <4>1, Zenon DEF RestoreBroken
    <3> HIDE DEF mixers
    <3> QED BY <1>1, <2>1, <3>1
  <2>3. CASE r = RestoredOwners(g)
    BY <1>4, <2>3, RestoredOwnersEffect DEF SameBut, SameCaptures
  <2> QED BY <2>2, <2>3
<1> QED BY <1>3, <1>4

\* A new owner, and a new graph.
LEMMA FreshTypes ==
  EmptyOwner \in Owner /\ FreshGraph \in Graph
<1>1. EmptyOwner \in Owner
  <2>1. 0 \in 0 .. MaximumTokens
    BY RowTypes
  <2>2. Blank \in [Cells -> Nat \cup {Junk}]
    BY DEF Blank
  <2> QED BY <2>1, <2>2 DEF EmptyOwner, Owner
<1>2. 0 \in Count
  BY RowTypes DEF Count
<1>3. EmptyBuffer \in Buffer
  BY <1>2 DEF EmptyBuffer, Buffer
<1>4. FreshGraph \in Graph
  BY <1>1, <1>2, <1>3 DEF FreshGraph, Graph
<1> QED BY <1>1, <1>4

(* A reset. *)
LEMMA ResetEffect ==
  ASSUME NEW g \in Graph
  PROVE  /\ LET r == Reset(g)
            IN  r \in Graph /\ SameBut(r, FreshGraph, {"captured", "verify_base"})
                  /\ SameCaptures(r, g)
         /\ \A r \in ResetBroken(g) : r \in Graph /\ SameCaptures(r, g)
<1> DEFINE captured == g.captured
           base == g.verify_base
           f1 == [FreshGraph EXCEPT !.captured = captured]
           f2 == [f1 EXCEPT !.verify_base = base]
<1>1. captured \in SUBSET Programs /\ base \in {<< >>} \cup {<<t>> : t \in Count}
  BY DEF Graph
<1>2. Reset(g) = f2
  BY Zenon DEF Reset
<1> HIDE DEF captured, base, f1, f2
<1>3. f1 \in Graph /\ SameBut(f1, FreshGraph, {"captured"}) /\ f1.captured = captured
  BY <1>1, FreshTypes DEF Graph, SameBut, f1
<1>4. f2 \in Graph /\ SameBut(f2, f1, {"verify_base"}) /\ f2.verify_base = base
  BY <1>1, <1>3 DEF Graph, SameBut, f2
<1>5. LET r == Reset(g)
      IN  r \in Graph /\ SameBut(r, FreshGraph, {"captured", "verify_base"})
            /\ SameCaptures(r, g)
  <2>1. f2.captured = captured /\ SameBut(f2, FreshGraph, {"captured", "verify_base"})
    BY <1>3, <1>4 DEF SameBut
  <2> QED BY <1>2, <1>4, <2>1 DEF SameCaptures, captured, base
<1>6. ASSUME NEW r \in ResetBroken(g)
      PROVE  r \in Graph /\ SameCaptures(r, g)
  <2> DEFINE g1 == [g EXCEPT !.mixers = EmptyBuffer]
             g2 == [g1 EXCEPT !.kv.mtp = EmptyOwner]
  <2>1. r = g1 \/ r = g2
    BY Zenon DEF ResetBroken
  <2>2. EmptyBuffer \in Buffer
    BY RowTypes DEF EmptyBuffer, Buffer, Count
  <2>3. g1 \in Graph /\ SameBut(g1, g, {"mixers"})
    BY <2>2 DEF Graph, SameBut
  <2> HIDE DEF g1
  <2>4. g2 \in Graph /\ SameBut(g2, g1, {"kv"})
    BY <2>3, FreshTypes DEF Graph, Layers, SameBut
  <2> HIDE DEF g2
  <2> QED BY <2>1, <2>3, <2>4 DEF SameBut, SameCaptures
<1> QED BY <1>5, <1>6

\* A branch that was just begun can be undone.
LEMMA BegunIsUndoable ==
  ASSUME NEW g \in Graph
  PROVE  Undoable(Begun(g))
<1> DEFINE r == Begun(g)
<1>1. /\ r.kv.target = OwnerBegun(g.kv.target) /\ r.kv.mtp = OwnerBegun(g.kv.mtp)
      /\ r.mixers.checkpoint = <<g.mixers.state>> /\ r.hidden.checkpoint = <<g.hidden.state>>
      /\ r.speculative_base = <<g.target_tokens, g.mtp_tokens>>
  BY BegunEffect
<1>2. g.kv.target \in Owner /\ g.kv.mtp \in Owner
  BY DEF Graph, Layers
<1>3. /\ r.kv.target.checkpoint = <<g.kv.target.tokens>>
      /\ r.kv.mtp.checkpoint = <<g.kv.mtp.tokens>>
  <2>1. ASSUME NEW o \in Owner
        PROVE  OwnerBegun(o).checkpoint = <<o.tokens>>
    BY OwnerCheckpoint
  <2> HIDE DEF r
  <2> QED BY <1>1, <1>2, <2>1
<1> HIDE DEF r
<1>4. Undoable(r)
  BY <1>1, <1>3 DEF Undoable
<1> QED BY <1>4 DEF r

(* Captures. *)
LEMMA CaptureEffect ==
  ASSUME NEW g \in Graph
  PROVE  /\ LET r == CaptureTarget(g)
            IN  /\ r \in Graph /\ r.position.target = g.target_tokens
                /\ r.position.mtp = g.position.mtp
                /\ r.captured = g.captured \cup {"target"}
                /\ SameBut(r, g, {"position", "captured"})
         /\ \A program \in Programs :
              LET r == CaptureMtp(g, program)
              IN  /\ r \in Graph /\ r.captured = g.captured \cup {program}
                  /\ SameBut(r, g, {"captured"})
         /\ LET r == CaptureVerify(g)
            IN  /\ r \in Graph /\ r.captured = g.captured \cup {"verify"}
                /\ r.verify_base = <<g.target_tokens>>
                /\ SameBut(r, g, {"captured", "verify_base"})
<1>1. g.target_tokens \in Count /\ g.captured \in SUBSET Programs
  BY DEF Graph
<1>2. ASSUME NEW h \in Graph, NEW captured \in SUBSET Programs
      PROVE  LET r == [h EXCEPT !.captured = captured]
             IN  r \in Graph /\ r.captured = captured /\ SameBut(r, h, {"captured"})
  BY DEF Graph, SameBut
<1>3. ASSUME NEW program \in Programs
      PROVE  LET r == CaptureMtp(g, program)
             IN  /\ r \in Graph /\ r.captured = g.captured \cup {program}
                 /\ SameBut(r, g, {"captured"})
  <2> DEFINE captured == g.captured \cup {program}
  <2>1. captured \in SUBSET Programs
    BY <1>1
  <2>2. CaptureMtp(g, program) = [g EXCEPT !.captured = captured]
    BY Zenon DEF CaptureMtp
  <2> QED BY <1>2, <2>1, <2>2, Zenon
<1>4. LET r == CaptureTarget(g)
      IN  /\ r \in Graph /\ r.position.target = g.target_tokens
          /\ r.position.mtp = g.position.mtp
          /\ r.captured = g.captured \cup {"target"}
          /\ SameBut(r, g, {"position", "captured"})
  <2> DEFINE place == g.target_tokens
             captured == g.captured \cup {"target"}
             g1 == [g EXCEPT !.position.target = place]
             g2 == [g1 EXCEPT !.captured = captured]
  <2>1. captured \in SUBSET Programs
    BY <1>1 DEF Programs
  <2>2. /\ g1 \in Graph /\ SameBut(g1, g, {"position"})
        /\ g1.position.target = place /\ g1.position.mtp = g.position.mtp
    <3> HIDE DEF place
    <3>1. place \in Count
      BY <1>1 DEF place
    <3> QED BY <3>1 DEF Graph, Layers, SameBut
  <2>3. CaptureTarget(g) = g2
    <3>1. g1.captured = g.captured
      BY <2>2 DEF SameBut
    <3> QED BY <3>1, Zenon DEF CaptureTarget
  <2> HIDE DEF g1, g2, captured
  <2>4. g2 \in Graph /\ SameBut(g2, g1, {"captured"}) /\ g2.captured = captured
    BY <1>2, <2>1, <2>2 DEF g2
  <2>5. g2.position = g1.position /\ SameBut(g2, g, {"position", "captured"})
    BY <2>2, <2>4 DEF SameBut
  <2> QED BY <2>2, <2>3, <2>4, <2>5 DEF captured
<1>5. LET r == CaptureVerify(g)
      IN  /\ r \in Graph /\ r.captured = g.captured \cup {"verify"}
          /\ r.verify_base = <<g.target_tokens>>
          /\ SameBut(r, g, {"captured", "verify_base"})
  <2> DEFINE base == <<g.target_tokens>>
             captured == g.captured \cup {"verify"}
             g1 == [g EXCEPT !.captured = captured]
             g2 == [g1 EXCEPT !.verify_base = base]
  <2>1. captured \in SUBSET Programs /\ base \in {<<t>> : t \in Count}
    BY <1>1 DEF Programs
  <2>2. CaptureVerify(g) = g2
    BY Zenon DEF CaptureVerify
  <2> HIDE DEF g1, g2, captured, base
  <2>3. g1 \in Graph /\ SameBut(g1, g, {"captured"}) /\ g1.captured = captured
    BY <1>2, <2>1 DEF g1
  <2>4. g2 \in Graph /\ SameBut(g2, g1, {"verify_base"}) /\ g2.verify_base = base
    BY <2>1, <2>3 DEF Graph, SameBut, g2
  <2>5. g2.captured = g1.captured /\ SameBut(g2, g, {"captured", "verify_base"})
    BY <2>3, <2>4 DEF SameBut
  <2> QED BY <2>2, <2>3, <2>4, <2>5 DEF captured, base
<1> QED BY <1>3, <1>4, <1>5

\* A capture that fails leaves no program it had not.
LEMMA CaptureBrokenType ==
  ASSUME NEW g \in Graph, NEW r \in CaptureTargetBroken(g) \cup CaptureVerifyBroken(g)
                                      \cup UNION {CaptureMtpBroken(g, program) : program \in Programs}
  PROVE  r \in Graph /\ r.captured \subseteq g.captured /\ r.verify_base = g.verify_base
<1>1. ASSUME NEW h \in Graph, NEW program
      PROVE  LET q == [h EXCEPT !.captured = @ \ {program}]
             IN  /\ q \in Graph /\ q.captured \subseteq h.captured
                 /\ q.verify_base = h.verify_base
  <2> DEFINE captured == h.captured \ {program}
  <2>1. captured \in SUBSET Programs /\ captured \subseteq h.captured
    BY <1>1 DEF Graph
  <2> HIDE DEF captured
  <2> DEFINE q == [h EXCEPT !.captured = captured]
  <2>2. q \in Graph /\ q.captured = captured /\ q.verify_base = h.verify_base
    BY <1>1, <2>1 DEF Graph
  <2> HIDE DEF q
  <2>3. /\ q \in Graph /\ q.captured \subseteq h.captured
        /\ q.verify_base = h.verify_base
    BY <2>1, <2>2
  <2> QED BY <2>3, Zenon DEF q, captured
<1>2. CASE r \in CaptureTargetBroken(g)
  <2> DEFINE q == [g EXCEPT !.captured = @ \ {"target"}]
  <2>1. r = [q EXCEPT !.poisoned = TRUE]
    BY <1>2, Zenon DEF CaptureTargetBroken
  <2>2. q \in Graph /\ q.captured \subseteq g.captured /\ q.verify_base = g.verify_base
    BY <1>1
  <2> HIDE DEF q
  <2>3. r \in Graph /\ SameBut(r, q, {"poisoned"})
    BY <2>1, <2>2, PoisonedEffect
  <2> QED BY <2>2, <2>3 DEF SameBut
<1>3. ASSUME NEW program \in Programs, r \in CaptureMtpBroken(g, program)
      PROVE  r \in Graph /\ r.captured \subseteq g.captured /\ r.verify_base = g.verify_base
  <2> DEFINE q == [g EXCEPT !.captured = @ \ {program}]
  <2>1. r = [q EXCEPT !.mtp_poisoned = TRUE]
    BY <1>3, Zenon DEF CaptureMtpBroken
  <2>2. q \in Graph /\ q.captured \subseteq g.captured /\ q.verify_base = g.verify_base
    BY <1>1
  <2> HIDE DEF q
  <2>3. r \in Graph /\ SameBut(r, q, {"mtp_poisoned"})
    BY <2>1, <2>2, MtpPoisonedEffect
  <2> QED BY <2>2, <2>3 DEF SameBut
<1>4. CASE r \in CaptureVerifyBroken(g)
  <2>1. CASE r \in RestoreBroken(Begun(g))
    <3>1. Begun(g) \in Graph /\ Undoable(Begun(g)) /\ SameCaptures(Begun(g), g)
      BY BegunEffect, BegunIsUndoable DEF SameBut, SameCaptures
    <3>2. r \in Graph /\ SameCaptures(r, Begun(g))
      BY <2>1, <3>1, ResolutionBrokenType
    <3> QED BY <3>1, <3>2 DEF SameCaptures
  <2>2. CASE r = [g EXCEPT !.captured = @ \ {"verify"}]
    BY <1>1, <2>2, Zenon
  <2> QED BY <1>4, <2>1, <2>2 DEF CaptureVerifyBroken
<1> QED BY <1>2, <1>3, <1>4

-----------------------------------------------------------------------------
(* The phases of a session. Between two looks at the cancellation token the *)
(* graph is at rest, on the way through a prompt, or in a branch; mtp and   *)
(* mode are the session's and the executor's.                               *)

\* The counters of every owner of state are the host's.
Agrees(g) ==
  /\ Healthy(g)
  /\ g.kv.target.tokens = g.target_tokens /\ g.kv.mtp.tokens = g.mtp_tokens
  /\ ~g.kv.target.poisoned /\ ~g.kv.mtp.poisoned
  /\ g.position.target = g.target_tokens /\ g.position.mtp = g.mtp_tokens

NoBranch(g) ==
  /\ g.speculative_base = << >>
  /\ g.kv.target.checkpoint = << >> /\ g.kv.mtp.checkpoint = << >>
  /\ g.mixers.checkpoint = << >> /\ g.hidden.checkpoint = << >>

\* The hidden vector lags by whole blocks, which only the captured path does.
HiddenFits(mode, hidden, tokens) ==
  /\ hidden \in Nat /\ hidden <= tokens
  /\ (tokens - hidden) % BlockTokens = 0
  /\ mode = "FullVerifierLogits" => hidden = tokens

\* A graph between two calls, and while a decode has not opened its branch.
AtRest(g, mtp, mode) ==
  /\ Agrees(g) /\ NoBranch(g) /\ g.target_tokens > 0
  /\ g.mtp_tokens = IF mtp THEN g.target_tokens - 1 ELSE 0
  /\ g.mixers.state = g.target_tokens
  /\ mtp => HiddenFits(mode, g.hidden.state, g.target_tokens)

Emptied(g) ==
  /\ Agrees(g) /\ NoBranch(g)
  /\ g.target_tokens = 0 /\ g.mtp_tokens = 0 /\ g.mixers.state = 0 /\ g.hidden.state = 0

InPrompt(g, mtp) ==
  /\ Agrees(g) /\ NoBranch(g)
  /\ g.mtp_tokens = IF mtp /\ g.target_tokens > 0 THEN g.target_tokens - 1 ELSE 0
  /\ g.mixers.state = g.target_tokens
  /\ mtp => g.hidden.state = g.target_tokens

Base(g) == g.speculative_base[1]

(* A branch with the target at tokens: what it can be undone to, and, as    *)
(* long as every row since was right, what it can be committed as.          *)
InBranch(g, mode, tokens, right) ==
  /\ Agrees(g)
  /\ Base(g) \in 1 .. MaximumTokens /\ g.speculative_base = <<Base(g), Base(g) - 1>>
  /\ g.kv.target.checkpoint = <<Base(g)>> /\ g.kv.mtp.checkpoint = <<Base(g) - 1>>
  /\ g.mixers.checkpoint = <<Base(g)>>
  /\ g.hidden.checkpoint # << >> /\ HiddenFits(mode, g.hidden.checkpoint[1], Base(g))
  /\ g.target_tokens = tokens /\ g.mtp_tokens = tokens - 1 /\ Base(g) <= tokens
  /\ right => g.mixers.state = tokens /\ HiddenFits(mode, g.hidden.state, tokens)

(* What is captured fits the session: a block is launched only with the     *)
(* verifier captured, at a place that leaves it room.                       *)
CapturesFit(g) ==
  /\ "verify" \in g.captured => g.verify_base # << >>
  /\ g.verify_base # << >> => g.verify_base[1] + MaximumDrafts + 1 <= MaximumTokens

\* What an owner's counter, mark and checkpoint become.
LEMMA RecordedFields ==
  ASSUME NEW o \in Owner, NEW start \in Nat, NEW rows \in Rows, NEW n, n = Len(rows),
         o.tokens + n <= MaximumTokens
  PROVE  LET after == Recorded(AppendRows(o, start, rows), n)
         IN  /\ after.tokens = o.tokens + n
             /\ after.checkpoint = o.checkpoint /\ after.poisoned = o.poisoned
BY RecordedType

\* The owners and counters of a graph, as numbers.
LEMMA GraphNumbers ==
  ASSUME NEW g \in Graph
  PROVE  /\ g.target_tokens \in Nat /\ g.target_tokens <= MaximumTokens
         /\ g.mtp_tokens \in Nat /\ g.mtp_tokens <= MaximumTokens
         /\ g.position.target \in Nat /\ g.position.mtp \in Nat
         /\ g.kv.target \in Owner /\ g.kv.mtp \in Owner
         /\ g.kv.target.tokens \in Nat /\ g.kv.mtp.tokens \in Nat
         /\ g.mixers.state \in Count \cup {Junk} /\ g.hidden.state \in Count \cup {Junk}
         /\ g.poisoned \in BOOLEAN /\ g.mtp_poisoned \in BOOLEAN
         /\ MaximumTokens \in Nat \ {0} /\ MaximumDrafts \in Nat \ {0} /\ BlockTokens \in Nat \ {0}
<1>1. MaximumTokens \in Nat \ {0} /\ MaximumDrafts \in Nat \ {0} /\ BlockTokens \in Nat \ {0}
  BY PagedAssumption, GraphAssumption DEF BlockTokens
<1>2. /\ g.target_tokens \in Nat /\ g.target_tokens <= MaximumTokens
      /\ g.mtp_tokens \in Nat /\ g.mtp_tokens <= MaximumTokens
      /\ g.position.target \in Nat /\ g.position.mtp \in Nat
      /\ g.kv.target \in Owner /\ g.kv.mtp \in Owner
  BY <1>1 DEF Graph, Count, Layers
<1>3. g.kv.target.tokens \in Nat /\ g.kv.mtp.tokens \in Nat
  BY <1>1, <1>2 DEF Owner
<1>4. g.mixers.state \in Count \cup {Junk} /\ g.hidden.state \in Count \cup {Junk}
  BY DEF Graph, Buffer
<1>5. g.poisoned \in BOOLEAN /\ g.mtp_poisoned \in BOOLEAN
  BY DEF Graph
<1> QED BY <1>1, <1>2, <1>3, <1>4, <1>5

(* A reset empties the session. *)
LEMMA ResetEmpties ==
  ASSUME NEW g \in Graph
  PROVE  Reset(g) \in Graph /\ Emptied(Reset(g)) /\ SameCaptures(Reset(g), g)
<1>1. Emptied(FreshGraph)
  BY DEF Emptied, Agrees, NoBranch, Healthy, FreshGraph, EmptyOwner, EmptyBuffer, Layers
<1>2. /\ Reset(g) \in Graph /\ SameBut(Reset(g), FreshGraph, {"captured", "verify_base"})
      /\ SameCaptures(Reset(g), g)
  BY ResetEffect
<1> DEFINE r == Reset(g)
<1> HIDE DEF r
<1>3. r \in Graph /\ SameBut(r, FreshGraph, {"captured", "verify_base"}) => Emptied(r)
  BY <1>1 DEF SameBut, Emptied, Agrees, NoBranch, Healthy
<1> QED BY <1>2, <1>3 DEF r

\* The hidden vector of the last token fits, whatever the mode.
LEMMA ExactFits ==
  ASSUME NEW mode, NEW tokens \in Nat
  PROVE  HiddenFits(mode, tokens, tokens)
<1>1. BlockTokens \in Nat \ {0}
  BY GraphAssumption DEF BlockTokens
<1>2. tokens - tokens = 0 /\ 0 % BlockTokens = 0
  BY <1>1
<1> QED BY <1>2 DEF HiddenFits

(* A chunk goes on through the prompt, and the session that has all of it is at rest. *)
LEMMA PrefilledGoesOn ==
  ASSUME NEW g \in Graph, NEW mtp \in BOOLEAN, NEW mode, NEW n \in Nat \ {0},
         InPrompt(g, mtp), g.target_tokens + n <= MaximumTokens
  PROVE  LET r == Prefilled(g, n, mtp)
         IN  /\ r \in Graph /\ SameCaptures(r, g)
             /\ r.target_tokens = g.target_tokens + n
             /\ InPrompt(r, mtp) /\ AtRest(r, mtp, mode)
<1> DEFINE r == Prefilled(g, n, mtp)
           first == g.target_tokens
           end == first + n
           chunk == ChunkRows(g, n)
<1>1. /\ first \in Nat /\ end \in Nat \ {0} /\ end <= MaximumTokens
      /\ g.kv.target \in Owner /\ g.kv.mtp \in Owner
      /\ g.kv.target.tokens = first /\ g.kv.mtp.tokens = g.mtp_tokens /\ g.mtp_tokens \in Nat
      /\ g.mixers.state = first
      /\ MaximumTokens \in Nat
  BY GraphNumbers DEF InPrompt, Agrees
<1>2. Consumed(first, chunk) = end
  <2>1. chunk = PathRows(first, n)
    BY DEF ChunkRows, PathRows
  <2> HIDE DEF first, chunk
  <2> QED BY <1>1, <2>1, PathRowsType
<1>3. HiddenFits(mode, end, end)
  BY <1>1, ExactFits
<1>4. CASE mtp = FALSE
  <2>1. /\ r \in Graph /\ chunk \in Rows /\ Len(chunk) = n
        /\ r.kv.target = Recorded(AppendRows(g.kv.target, first, chunk), n)
        /\ r.kv.mtp = g.kv.mtp
        /\ r.mixers.state = Consumed(g.mixers.state, chunk)
        /\ r.mixers.checkpoint = g.mixers.checkpoint
        /\ r.position.target = end /\ r.position.mtp = g.position.mtp
        /\ r.target_tokens = end
        /\ SameBut(r, g, {"kv", "mixers", "position", "target_tokens"})
    <3>1. g.target_tokens + n <= MaximumTokens /\ g.kv.target.tokens = g.target_tokens /\ n \in Nat
      BY <1>1
    <3> QED BY <1>4, <3>1, PrefilledTargetEffect, Zenon
  <2> HIDE DEF r, first, end, chunk
  <2>2. /\ r.kv.target.tokens = end /\ r.kv.target.checkpoint = g.kv.target.checkpoint
        /\ r.kv.target.poisoned = g.kv.target.poisoned
    <3>1. /\ n = Len(chunk) /\ g.kv.target.tokens + n <= MaximumTokens
          /\ chunk \in Rows /\ g.kv.target \in Owner /\ first \in Nat
      BY <1>1, <2>1 DEF end
    <3>2. LET after == Recorded(AppendRows(g.kv.target, first, chunk), n)
          IN  /\ after.tokens = g.kv.target.tokens + n
              /\ after.checkpoint = g.kv.target.checkpoint
              /\ after.poisoned = g.kv.target.poisoned
      BY ONLY <3>1, RecordedFields
    <3> QED BY <1>1, <2>1, <3>2 DEF end
  <2>3. InPrompt(r, mtp) /\ AtRest(r, mtp, mode)
    BY <1>1, <1>2, <1>4, <2>1, <2>2
    DEF InPrompt, AtRest, Agrees, NoBranch, Healthy, SameBut
  <2>4. SameCaptures(r, g)
    BY <2>1 DEF SameBut, SameCaptures
  <2> QED BY <2>1, <2>3, <2>4 DEF r, first, end
<1>5. CASE mtp = TRUE
  <2> DEFINE rows == MtpPrefillRows(g, n)
  <2>1. /\ r \in Graph /\ chunk \in Rows /\ Len(chunk) = n
        /\ rows \in Rows /\ g.mtp_tokens + Len(rows) = first + n - 1
        /\ r.kv.target = Recorded(AppendRows(g.kv.target, first, chunk), n)
        /\ r.kv.mtp = Recorded(AppendRows(g.kv.mtp, g.mtp_tokens, rows), Len(rows))
        /\ r.mixers.state = Consumed(g.mixers.state, chunk)
        /\ r.mixers.checkpoint = g.mixers.checkpoint
        /\ r.hidden.state = end /\ r.hidden.checkpoint = g.hidden.checkpoint
        /\ r.position.target = end /\ r.position.mtp = first + n - 1
        /\ r.target_tokens = end /\ r.mtp_tokens = first + n - 1
        /\ SameBut(r, g, {"kv", "mixers", "hidden", "position", "target_tokens", "mtp_tokens"})
    <3>1. /\ g.target_tokens + n <= MaximumTokens /\ g.kv.target.tokens = g.target_tokens
          /\ g.kv.mtp.tokens = g.mtp_tokens
          /\ g.mtp_tokens = IF g.target_tokens = 0 THEN 0 ELSE g.target_tokens - 1
      BY <1>1, <1>5 DEF InPrompt
    <3> QED BY <1>5, <3>1, PrefilledEffect, Zenon
  <2> HIDE DEF r, first, end, chunk, rows
  <2>2. /\ r.kv.target.tokens = end /\ r.kv.target.checkpoint = g.kv.target.checkpoint
        /\ r.kv.target.poisoned = g.kv.target.poisoned
    <3>1. /\ n = Len(chunk) /\ g.kv.target.tokens + n <= MaximumTokens
          /\ chunk \in Rows /\ g.kv.target \in Owner /\ first \in Nat
      BY <1>1, <2>1 DEF end
    <3>2. LET after == Recorded(AppendRows(g.kv.target, first, chunk), n)
          IN  /\ after.tokens = g.kv.target.tokens + n
              /\ after.checkpoint = g.kv.target.checkpoint
              /\ after.poisoned = g.kv.target.poisoned
      BY ONLY <3>1, RecordedFields
    <3> QED BY <1>1, <2>1, <3>2 DEF end
  <2>3. /\ r.kv.mtp.tokens = end - 1 /\ r.kv.mtp.checkpoint = g.kv.mtp.checkpoint
        /\ r.kv.mtp.poisoned = g.kv.mtp.poisoned
    <3>1. /\ g.kv.mtp.tokens + Len(rows) <= MaximumTokens /\ end - 1 = first + n - 1
          /\ rows \in Rows /\ g.kv.mtp \in Owner /\ g.mtp_tokens \in Nat
      BY <1>1, <2>1 DEF end
    <3>2. LET after == Recorded(AppendRows(g.kv.mtp, g.mtp_tokens, rows), Len(rows))
          IN  /\ after.tokens = g.kv.mtp.tokens + Len(rows)
              /\ after.checkpoint = g.kv.mtp.checkpoint
              /\ after.poisoned = g.kv.mtp.poisoned
      BY ONLY <3>1, RecordedFields
    <3> QED BY <1>1, <2>1, <3>1, <3>2
  <2>4. InPrompt(r, mtp) /\ AtRest(r, mtp, mode)
    <3>1. /\ r.target_tokens = end /\ r.mtp_tokens = end - 1
          /\ r.position.target = end /\ r.position.mtp = end - 1
          /\ r.mixers.state = end /\ r.mixers.checkpoint = g.mixers.checkpoint
          /\ r.hidden.state = end /\ r.hidden.checkpoint = g.hidden.checkpoint
          /\ r.poisoned = g.poisoned /\ r.mtp_poisoned = g.mtp_poisoned
          /\ r.speculative_base = g.speculative_base
      BY <1>1, <1>2, <2>1 DEF SameBut, end
    <3> QED BY <1>1, <1>3, <1>5, <2>2, <2>3, <3>1
        DEF InPrompt, AtRest, Agrees, NoBranch, Healthy
  <2>5. SameCaptures(r, g)
    BY <2>1 DEF SameBut, SameCaptures
  <2> QED BY <2>1, <2>4, <2>5 DEF r, first, end
<1> QED BY <1>4, <1>5

\* Kernels keep every checkpoint.
SameBranch(r, g) ==
  /\ r.speculative_base = g.speculative_base
  /\ r.kv.target.checkpoint = g.kv.target.checkpoint
  /\ r.kv.mtp.checkpoint = g.kv.mtp.checkpoint
  /\ r.mixers.checkpoint = g.mixers.checkpoint
  /\ r.hidden.checkpoint = g.hidden.checkpoint

\* One row appended.
LEMMA RowRecorded ==
  ASSUME NEW o \in Owner, NEW start \in Nat, NEW row \in Row, o.tokens < MaximumTokens
  PROVE  LET after == Recorded(AppendRows(o, start, <<row>>), 1)
         IN  /\ after.tokens = o.tokens + 1
             /\ after.checkpoint = o.checkpoint /\ after.poisoned = o.poisoned
<1>1. <<row>> \in Rows /\ 1 = Len(<<row>>) /\ o.tokens + 1 <= MaximumTokens
  BY RowTypes DEF Owner
<1> QED BY ONLY <1>1, RecordedFields, o \in Owner, start \in Nat, ZenonT(30)

\* A token through the MTP layer of a graph that agrees.
LEMMA MtpTokenAgrees ==
  ASSUME NEW g \in Graph, NEW row \in Row \ {0}, Agrees(g), g.mtp_tokens < MaximumTokens
  PROVE  LET r == MtpToken(g, row)
         IN  /\ r \in Graph /\ Agrees(r) /\ SameCaptures(r, g) /\ SameBranch(r, g)
             /\ r.target_tokens = g.target_tokens /\ r.mtp_tokens = g.mtp_tokens + 1
             /\ r.hidden = g.hidden /\ r.mixers = g.mixers
<1> DEFINE r == MtpToken(g, row)
           fed == MtpRowOf(g, row)
           behind == g.mtp_tokens
<1>1. /\ behind \in Nat /\ g.kv.mtp.tokens = behind /\ g.kv.mtp \in Owner
      /\ g.position.mtp = behind /\ behind < MaximumTokens
  BY GraphNumbers DEF Agrees
<1>2. /\ r \in Graph /\ fed \in Row
      /\ r.kv.mtp = Recorded(AppendRows(g.kv.mtp, behind, <<fed>>), 1)
      /\ r.kv.target = g.kv.target
      /\ r.position.mtp = behind + 1 /\ r.position.target = g.position.target
      /\ r.mtp_tokens = behind + 1
      /\ SameBut(r, g, {"kv", "position", "mtp_tokens", "tainted"})
  BY <1>1, MtpStepEffect, Zenon DEF MtpToken
<1> HIDE DEF r, fed, behind
<1>3. /\ r.kv.mtp.tokens = g.kv.mtp.tokens + 1
      /\ r.kv.mtp.checkpoint = g.kv.mtp.checkpoint /\ r.kv.mtp.poisoned = g.kv.mtp.poisoned
  <2>1. fed \in Row /\ g.kv.mtp.tokens < MaximumTokens
    BY <1>1, <1>2
  <2>2. LET after == Recorded(AppendRows(g.kv.mtp, behind, <<fed>>), 1)
        IN  /\ after.tokens = g.kv.mtp.tokens + 1
            /\ after.checkpoint = g.kv.mtp.checkpoint /\ after.poisoned = g.kv.mtp.poisoned
    BY ONLY <1>1, <2>1, RowRecorded
  <2> QED BY <1>2, <2>2
<1>4. Agrees(r) /\ SameCaptures(r, g) /\ SameBranch(r, g)
  BY <1>1, <1>2, <1>3 DEF Agrees, Healthy, SameBut, SameCaptures, SameBranch
<1>5. r.target_tokens = g.target_tokens /\ r.hidden = g.hidden /\ r.mixers = g.mixers
  BY <1>2 DEF SameBut
<1> QED BY <1>2, <1>4, <1>5 DEF r, behind

\* A token through the target of a graph that agrees.
LEMMA TargetTokenAgrees ==
  ASSUME NEW g \in Graph, NEW row \in Row, Agrees(g), g.target_tokens < MaximumTokens
  PROVE  LET r == TargetToken(g, row)
         IN  /\ r \in Graph /\ Agrees(r) /\ SameCaptures(r, g) /\ SameBranch(r, g)
             /\ r.target_tokens = g.target_tokens + 1 /\ r.mtp_tokens = g.mtp_tokens
             /\ r.hidden.state = After(row)
             /\ (g.mixers.state = g.target_tokens /\ row = g.target_tokens)
                  => r.mixers.state = g.target_tokens + 1
<1> DEFINE r == TargetToken(g, row)
           first == g.target_tokens
<1>1. /\ first \in Nat /\ g.kv.target.tokens = first /\ g.kv.target \in Owner
      /\ g.position.target = first /\ first < MaximumTokens
      /\ g.mixers.state \in Count \cup {Junk}
  BY GraphNumbers DEF Agrees
<1>2. /\ r \in Graph
      /\ r.kv.target = Recorded(AppendRows(g.kv.target, first, <<row>>), 1)
      /\ r.kv.mtp = g.kv.mtp
      /\ r.mixers.state = Consumed(g.mixers.state, <<row>>)
      /\ r.mixers.checkpoint = g.mixers.checkpoint
      /\ r.hidden.state = After(row) /\ r.hidden.checkpoint = g.hidden.checkpoint
      /\ r.position.target = first + 1 /\ r.position.mtp = g.position.mtp
      /\ r.target_tokens = first + 1
      /\ SameBut(r, g, {"kv", "mixers", "hidden", "position", "target_tokens"})
  BY <1>1, TargetStepEffect, Zenon DEF TargetToken
<1> HIDE DEF r, first
<1>3. /\ r.kv.target.tokens = g.kv.target.tokens + 1
      /\ r.kv.target.checkpoint = g.kv.target.checkpoint
      /\ r.kv.target.poisoned = g.kv.target.poisoned
  <2>1. row \in Row /\ g.kv.target.tokens < MaximumTokens
    BY <1>1
  <2>2. LET after == Recorded(AppendRows(g.kv.target, first, <<row>>), 1)
        IN  /\ after.tokens = g.kv.target.tokens + 1
            /\ after.checkpoint = g.kv.target.checkpoint
            /\ after.poisoned = g.kv.target.poisoned
    BY ONLY <1>1, <2>1, RowRecorded
  <2> QED BY <1>2, <2>2
<1>4. Agrees(r) /\ SameCaptures(r, g) /\ SameBranch(r, g) /\ r.mtp_tokens = g.mtp_tokens
  BY <1>1, <1>2, <1>3 DEF Agrees, Healthy, SameBut, SameCaptures, SameBranch
<1>5. ASSUME g.mixers.state = first, row = first
      PROVE  r.mixers.state = first + 1
  <2>1. <<row>> \in Rows /\ Len(<<row>>) = 1 /\ DOMAIN <<row>> = {1} /\ <<row>>[1] = first
    BY <1>5, RowTypes
  <2>2. first # Junk /\ \A i \in DOMAIN <<row>> : <<row>>[i] = first + i - 1
    BY <1>1, <2>1, JunkAssumption
  <2>3. Consumed(first, <<row>>) = first + 1
    BY <1>1, <1>5, <2>1, <2>2, ConsumedType
  <2> QED BY <1>2, <1>5, <2>3
<1> QED BY <1>2, <1>4, <1>5 DEF r, first

\* A pair of both.
LEMMA PairAgrees ==
  ASSUME NEW g \in Graph, NEW row \in {g.target_tokens, Junk}, Agrees(g),
         g.target_tokens > 0, g.target_tokens < MaximumTokens,
         g.mtp_tokens = g.target_tokens - 1
  PROVE  LET r == Pair(g, row)
         IN  /\ r \in Graph /\ Agrees(r) /\ SameCaptures(r, g) /\ SameBranch(r, g)
             /\ r.target_tokens = g.target_tokens + 1 /\ r.mtp_tokens = g.mtp_tokens + 1
             /\ r.hidden.state = After(row)
             /\ (g.mixers.state = g.target_tokens /\ row = g.target_tokens)
                  => r.mixers.state = g.target_tokens + 1
<1> DEFINE mid == MtpToken(g, row)
           r == Pair(g, row)
<1>1. row \in Row /\ row \in Row \ {0} /\ g.mtp_tokens < MaximumTokens
  BY GraphNumbers, JunkAssumption DEF Row
<1>2. /\ mid \in Graph /\ Agrees(mid) /\ SameCaptures(mid, g) /\ SameBranch(mid, g)
      /\ mid.target_tokens = g.target_tokens /\ mid.mtp_tokens = g.mtp_tokens + 1
      /\ mid.hidden = g.hidden /\ mid.mixers = g.mixers
  BY <1>1, MtpTokenAgrees
<1>3. r = TargetToken(mid, row)
  BY DEF Pair
<1> HIDE DEF mid, r
<1>4. mid.target_tokens < MaximumTokens
  BY <1>2
<1>5. /\ r \in Graph /\ Agrees(r) /\ SameCaptures(r, mid) /\ SameBranch(r, mid)
      /\ r.target_tokens = mid.target_tokens + 1 /\ r.mtp_tokens = mid.mtp_tokens
      /\ r.hidden.state = After(row)
      /\ (mid.mixers.state = mid.target_tokens /\ row = mid.target_tokens)
           => r.mixers.state = mid.target_tokens + 1
  BY ONLY <1>1, <1>2, <1>3, <1>4, TargetTokenAgrees
<1>6. SameCaptures(r, g) /\ SameBranch(r, g)
  BY <1>2, <1>5 DEF SameCaptures, SameBranch
<1> QED BY <1>2, <1>5, <1>6 DEF r

\* A pair that fails on the way, in a branch or before it.
LEMMA PairBrokenType ==
  ASSUME NEW g \in Graph, NEW row \in {g.target_tokens, Junk}, Agrees(g),
         g.target_tokens > 0, g.target_tokens < MaximumTokens,
         g.mtp_tokens = g.target_tokens - 1,
         NEW r \in PairBroken(g, row)
  PROVE  r \in Graph /\ SameCaptures(r, g) /\ (Undoable(g) => Undoable(r))
<1> DEFINE mid == MtpToken(g, row)
<1>1. /\ row \in Row /\ row \in Row \ {0} /\ g.mtp_tokens < MaximumTokens
      /\ g.kv.mtp.tokens < MaximumTokens
  BY GraphNumbers, JunkAssumption DEF Row, Agrees
<1>2. /\ mid \in Graph /\ Agrees(mid) /\ SameCaptures(mid, g) /\ SameBranch(mid, g)
      /\ mid.target_tokens = g.target_tokens
  BY <1>1, MtpTokenAgrees
<1>3. ASSUME NEW q \in Graph, SameBranch(q, g), Undoable(g)
      PROVE  Undoable(q)
  BY <1>3 DEF SameBranch, Undoable
<1>4. CASE r \in MtpTokenBroken(g, row)
  <2> DEFINE marked == [g EXCEPT !.mtp_poisoned = TRUE]
  <2>1. /\ r \in Graph /\ SameBut(r, g, {"mtp_poisoned", "kv", "position"})
        /\ r.kv.target = g.kv.target
    BY <1>1, <1>4, MtpTokenBrokenType
  <2>2. r.kv.mtp.checkpoint = g.kv.mtp.checkpoint
    <3>1. marked \in Graph /\ SameBut(marked, g, {"mtp_poisoned"})
      BY MtpPoisonedEffect
    <3>2. r = marked \/ r = MtpKernels(marked, g.mtp_tokens, <<Junk>>)
      BY <1>4 DEF MtpTokenBroken
    <3> HIDE DEF marked
    <3>3. marked.kv = g.kv
      BY <3>1 DEF SameBut
    <3>4. ASSUME r = MtpKernels(marked, g.mtp_tokens, <<Junk>>)
          PROVE  r.kv.mtp.checkpoint = g.kv.mtp.checkpoint
      <4>1. /\ g.mtp_tokens \in Nat /\ <<Junk>> \in Rows /\ Len(<<Junk>>) = 1 /\ Junk \in Row
            /\ g.kv.mtp \in Owner /\ MaximumTokens \in Nat /\ g.kv.mtp.tokens \in Nat
        BY RowTypes, GraphNumbers
      <4>2. /\ g.mtp_tokens + Len(<<Junk>>) <= MaximumTokens
            /\ marked.kv.mtp.tokens + Len(<<Junk>>) <= MaximumTokens
        BY <1>1, <3>3, <4>1
      <4>3. r.kv.mtp = Recorded(AppendRows(marked.kv.mtp, g.mtp_tokens, <<Junk>>), Len(<<Junk>>))
        BY ONLY <3>1, <3>4, <4>1, <4>2, MtpKernelsEffect
      <4>4. LET after == Recorded(AppendRows(g.kv.mtp, g.mtp_tokens, <<Junk>>), 1)
            IN  after.checkpoint = g.kv.mtp.checkpoint
        BY ONLY <1>1, <4>1, RowRecorded
      <4> QED BY <3>3, <4>1, <4>3, <4>4
    <3> QED BY <3>2, <3>3, <3>4
  <2>3. SameBranch(r, g) /\ SameCaptures(r, g)
    BY <2>1, <2>2 DEF SameBut, SameBranch, SameCaptures
  <2> QED BY <1>3, <2>1, <2>3
<1>5. CASE r \in TargetTokenBroken(mid, row)
  <2> DEFINE marked == [mid EXCEPT !.poisoned = TRUE]
  <2>1. /\ marked \in Graph /\ SameBut(marked, mid, {"poisoned"})
    BY <1>2, PoisonedEffect
  <2>2. r = marked \/ r = TargetKernels(marked, mid.target_tokens, <<row>>)
    BY <1>5, Zenon DEF TargetTokenBroken
  <2> HIDE DEF marked, mid
  <2>3. marked.kv = mid.kv /\ mid.kv.target \in Owner
    BY <1>2, <2>1, GraphNumbers DEF SameBut
  <2>4. ASSUME r = TargetKernels(marked, mid.target_tokens, <<row>>)
        PROVE  /\ r \in Graph /\ r.kv.target.checkpoint = mid.kv.target.checkpoint
               /\ r.kv.mtp = marked.kv.mtp
               /\ r.mixers.checkpoint = marked.mixers.checkpoint
               /\ SameBut(r, marked, {"kv", "mixers", "position"})
    <3>1. /\ mid.target_tokens \in Nat /\ <<row>> \in Rows /\ Len(<<row>>) = 1
          /\ MaximumTokens \in Nat /\ mid.kv.target.tokens = mid.target_tokens
          /\ mid.target_tokens < MaximumTokens
      BY <1>1, <1>2, RowTypes, GraphNumbers DEF Agrees
    <3>2. /\ mid.target_tokens + Len(<<row>>) <= MaximumTokens
          /\ marked.kv.target.tokens + Len(<<row>>) <= MaximumTokens
          /\ mid.kv.target.tokens < MaximumTokens
      BY <2>3, <3>1
    <3>3. /\ r \in Graph
          /\ r.kv.target = Recorded(AppendRows(marked.kv.target, mid.target_tokens, <<row>>),
                                    Len(<<row>>))
          /\ r.kv.mtp = marked.kv.mtp
          /\ r.mixers.checkpoint = marked.mixers.checkpoint
          /\ SameBut(r, marked, {"kv", "mixers", "position"})
      BY ONLY <2>1, <2>4, <3>1, <3>2, TargetKernelsEffect
    <3>4. LET after == Recorded(AppendRows(mid.kv.target, mid.target_tokens, <<row>>), 1)
          IN  after.checkpoint = mid.kv.target.checkpoint
      BY ONLY <1>1, <2>3, <3>1, <3>2, RowRecorded
    <3> QED BY <2>3, <3>1, <3>3, <3>4
  <2>5. CASE r = marked
    <3>1. SameBranch(r, g) /\ SameCaptures(r, g) /\ r \in Graph
      BY <1>2, <2>1, <2>5 DEF SameBut, SameBranch, SameCaptures
    <3> QED BY <1>3, <3>1
  <2>6. CASE r = TargetKernels(marked, mid.target_tokens, <<row>>)
    <3>1. SameBranch(r, g) /\ SameCaptures(r, g) /\ r \in Graph
      BY <1>2, <2>1, <2>3, <2>4, <2>6 DEF SameBut, SameBranch, SameCaptures
    <3> QED BY <1>3, <3>1
  <2> QED BY <2>2, <2>5, <2>6
<1>6. CASE r = mid
  BY <1>2, <1>3, <1>6
<1>7. CASE r = Pair(g, row)
  BY <1>3, <1>7, PairAgrees
<1> QED BY <1>4, <1>5, <1>6, <1>7 DEF PairBroken

\* A restored branch is at rest at its base.
LEMMA RestoredIsAtRest ==
  ASSUME NEW g \in Graph, NEW mode, NEW tokens, NEW right, InBranch(g, mode, tokens, right)
  PROVE  LET r == Restored(g)
         IN  /\ Undoable(g) /\ r \in Graph /\ SameCaptures(r, g)
             /\ AtRest(r, TRUE, mode) /\ r.target_tokens = Base(g)
<1> DEFINE r == Restored(g)
           mid == RestoredOwners(g)
<1>1. Undoable(g)
  BY DEF InBranch, Undoable, Base
<1>2. /\ mid \in Graph
      /\ mid.kv.target = OwnerRestored(g.kv.target) /\ mid.kv.mtp = OwnerRestored(g.kv.mtp)
      /\ mid.mixers.state = g.mixers.checkpoint[1] /\ mid.mixers.checkpoint = << >>
      /\ mid.hidden.state = g.hidden.checkpoint[1] /\ mid.hidden.checkpoint = << >>
      /\ mid.speculative_base = << >>
      /\ mid.target_tokens = g.speculative_base[1] /\ mid.mtp_tokens = g.speculative_base[2]
      /\ mid.captured = g.captured /\ mid.verify_base = g.verify_base
  BY <1>1, RestoredOwnersEffect DEF SameBut
<1>3. /\ r \in Graph
      /\ r.position.target = g.speculative_base[1] /\ r.position.mtp = g.speculative_base[2]
      /\ ~r.poisoned /\ ~r.mtp_poisoned
      /\ SameBut(r, mid, {"position", "poisoned", "mtp_poisoned"})
  BY <1>1, RestoredEffect
<1> HIDE DEF r, mid
<1>4. /\ g.kv.target.checkpoint = <<Base(g)>> /\ g.kv.mtp.checkpoint = <<Base(g) - 1>>
      /\ g.mixers.checkpoint[1] = Base(g)
      /\ g.speculative_base[1] = Base(g) /\ g.speculative_base[2] = Base(g) - 1
      /\ Base(g) \in 1 .. MaximumTokens /\ HiddenFits(mode, g.hidden.checkpoint[1], Base(g))
  BY DEF InBranch, Base
<1>5. /\ mid.kv.target.tokens = Base(g) /\ ~mid.kv.target.poisoned
      /\ mid.kv.target.checkpoint = << >>
      /\ mid.kv.mtp.tokens = Base(g) - 1 /\ ~mid.kv.mtp.poisoned
      /\ mid.kv.mtp.checkpoint = << >>
  <2>1. g.kv.target \in Owner /\ g.kv.mtp \in Owner
    BY GraphNumbers
  <2>2. /\ g.kv.target.checkpoint # << >> /\ g.kv.target.checkpoint[1] = Base(g)
        /\ g.kv.mtp.checkpoint # << >> /\ g.kv.mtp.checkpoint[1] = Base(g) - 1
    BY <1>4
  <2>3. /\ OwnerRestored(g.kv.target).tokens = Base(g)
        /\ OwnerRestored(g.kv.target).poisoned = FALSE
        /\ OwnerRestored(g.kv.target).checkpoint = << >>
    BY <2>1, <2>2, OwnerCheckpoint
  <2>4. /\ OwnerRestored(g.kv.mtp).tokens = Base(g) - 1
        /\ OwnerRestored(g.kv.mtp).poisoned = FALSE
        /\ OwnerRestored(g.kv.mtp).checkpoint = << >>
    BY <2>1, <2>2, OwnerCheckpoint
  <2> QED BY <1>2, <2>3, <2>4
<1>6. AtRest(r, TRUE, mode) /\ r.target_tokens = Base(g)
  <2>1. /\ r.kv = mid.kv /\ r.mixers = mid.mixers /\ r.hidden = mid.hidden
        /\ r.speculative_base = << >> /\ r.target_tokens = Base(g)
        /\ r.mtp_tokens = Base(g) - 1
    BY <1>2, <1>3, <1>4 DEF SameBut
  <2>2. Agrees(r) /\ NoBranch(r)
    BY <1>2, <1>3, <1>4, <1>5, <2>1 DEF Agrees, NoBranch, Healthy
  <2> QED BY <1>2, <1>4, <2>1, <2>2 DEF AtRest
<1>7. SameCaptures(r, g)
  BY <1>2, <1>3 DEF SameBut, SameCaptures
<1> QED BY <1>1, <1>3, <1>6, <1>7 DEF r

\* A branch whose rows were all right is at rest once it is committed.
LEMMA CommittedIsAtRest ==
  ASSUME NEW g \in Graph, NEW mode, NEW tokens, InBranch(g, mode, tokens, TRUE)
  PROVE  LET r == Committed(g)
         IN  /\ r \in Graph /\ SameCaptures(r, g)
             /\ AtRest(r, TRUE, mode) /\ r.target_tokens = tokens
<1> DEFINE r == Committed(g)
<1>1. /\ r \in Graph
      /\ r.kv.target = OwnerCommitted(g.kv.target) /\ r.kv.mtp = OwnerCommitted(g.kv.mtp)
      /\ r.mixers.state = g.mixers.state /\ r.mixers.checkpoint = << >>
      /\ r.hidden.state = g.hidden.state /\ r.hidden.checkpoint = << >>
      /\ r.speculative_base = << >>
      /\ SameBut(r, g, {"kv", "mixers", "hidden", "speculative_base"})
  BY CommittedEffect
<1> HIDE DEF r
<1>2. /\ r.kv.target.tokens = g.kv.target.tokens
      /\ r.kv.target.poisoned = g.kv.target.poisoned /\ r.kv.target.checkpoint = << >>
      /\ r.kv.mtp.tokens = g.kv.mtp.tokens
      /\ r.kv.mtp.poisoned = g.kv.mtp.poisoned /\ r.kv.mtp.checkpoint = << >>
  <2>1. g.kv.target \in Owner /\ g.kv.mtp \in Owner
    BY GraphNumbers
  <2>2. /\ OwnerCommitted(g.kv.target).tokens = g.kv.target.tokens /\ OwnerCommitted(g.kv.target).poisoned = g.kv.target.poisoned
        /\ OwnerCommitted(g.kv.target).checkpoint = << >>
    BY <2>1, OwnerCheckpoint
  <2>3. /\ OwnerCommitted(g.kv.mtp).tokens = g.kv.mtp.tokens /\ OwnerCommitted(g.kv.mtp).poisoned = g.kv.mtp.poisoned
        /\ OwnerCommitted(g.kv.mtp).checkpoint = << >>
    BY <2>1, OwnerCheckpoint
  <2> QED BY <1>1, <2>2, <2>3
<1>3. /\ Agrees(g) /\ g.target_tokens = tokens /\ g.mtp_tokens = tokens - 1
      /\ tokens > 0 /\ g.mixers.state = tokens /\ HiddenFits(mode, g.hidden.state, tokens)
  BY GraphNumbers DEF InBranch
<1>4. Agrees(r) /\ NoBranch(r)
  BY <1>1, <1>2, <1>3 DEF Agrees, NoBranch, Healthy, SameBut
<1>5. r.target_tokens = tokens /\ r.mtp_tokens = tokens - 1 /\ SameCaptures(r, g)
  BY <1>1, <1>3 DEF SameBut, SameCaptures
<1> QED BY <1>1, <1>3, <1>4, <1>5 DEF AtRest, r

\* A branch that has just begun.
LEMMA BegunIsInBranch ==
  ASSUME NEW g \in Graph, NEW mode, AtRest(g, TRUE, mode)
  PROVE  LET r == Begun(g)
         IN  /\ r \in Graph /\ SameCaptures(r, g) /\ Base(r) = g.target_tokens
             /\ InBranch(r, mode, g.target_tokens, TRUE)
<1> DEFINE r == Begun(g)
           tokens == g.target_tokens
<1>1. /\ r \in Graph
      /\ r.kv.target = OwnerBegun(g.kv.target) /\ r.kv.mtp = OwnerBegun(g.kv.mtp)
      /\ r.mixers.state = g.mixers.state /\ r.mixers.checkpoint = <<g.mixers.state>>
      /\ r.hidden.state = g.hidden.state /\ r.hidden.checkpoint = <<g.hidden.state>>
      /\ r.speculative_base = <<g.target_tokens, g.mtp_tokens>>
      /\ SameBut(r, g, {"kv", "mixers", "hidden", "speculative_base"})
  BY BegunEffect
<1>2. /\ tokens \in 1 .. MaximumTokens /\ Agrees(g) /\ g.mtp_tokens = tokens - 1
      /\ g.mixers.state = tokens /\ HiddenFits(mode, g.hidden.state, tokens)
  BY GraphNumbers DEF AtRest
<1> HIDE DEF r
<1>3. /\ r.kv.target.tokens = g.kv.target.tokens
      /\ r.kv.target.poisoned = g.kv.target.poisoned
      /\ r.kv.target.checkpoint = <<g.kv.target.tokens>>
      /\ r.kv.mtp.tokens = g.kv.mtp.tokens
      /\ r.kv.mtp.poisoned = g.kv.mtp.poisoned
      /\ r.kv.mtp.checkpoint = <<g.kv.mtp.tokens>>
  <2>1. g.kv.target \in Owner /\ g.kv.mtp \in Owner
    BY GraphNumbers
  <2>2. /\ OwnerBegun(g.kv.target).tokens = g.kv.target.tokens /\ OwnerBegun(g.kv.target).poisoned = g.kv.target.poisoned
        /\ OwnerBegun(g.kv.target).checkpoint = <<g.kv.target.tokens>>
    BY <2>1, OwnerCheckpoint
  <2>3. /\ OwnerBegun(g.kv.mtp).tokens = g.kv.mtp.tokens /\ OwnerBegun(g.kv.mtp).poisoned = g.kv.mtp.poisoned
        /\ OwnerBegun(g.kv.mtp).checkpoint = <<g.kv.mtp.tokens>>
    BY <2>1, OwnerCheckpoint
  <2> QED BY <1>1, <2>2, <2>3
<1>4. Agrees(r) /\ SameCaptures(r, g) /\ r.target_tokens = tokens /\ r.mtp_tokens = tokens - 1
  BY <1>1, <1>2, <1>3 DEF Agrees, Healthy, SameBut, SameCaptures
<1>5. /\ Base(r) = tokens /\ r.speculative_base = <<Base(r), Base(r) - 1>>
  BY <1>1, <1>2 DEF Base
<1>6. /\ r.kv.target.checkpoint = <<Base(r)>> /\ r.kv.mtp.checkpoint = <<Base(r) - 1>>
      /\ r.mixers.checkpoint = <<Base(r)>>
      /\ r.hidden.checkpoint # << >> /\ HiddenFits(mode, r.hidden.checkpoint[1], Base(r))
      /\ r.mixers.state = tokens /\ HiddenFits(mode, r.hidden.state, tokens)
  BY <1>1, <1>2, <1>3, <1>5 DEF Agrees
<1>7. InBranch(r, mode, tokens, TRUE)
  BY <1>2, <1>4, <1>5, <1>6 DEF InBranch
<1> QED BY <1>1, <1>4, <1>5, <1>7 DEF r

\* A pair of tokens in a branch.
LEMMA PairInBranch ==
  ASSUME NEW g \in Graph, NEW mode, NEW tokens, NEW right \in BOOLEAN,
         InBranch(g, mode, tokens, right),
         NEW row \in {g.target_tokens, Junk}, g.target_tokens < MaximumTokens
  PROVE  LET r == Pair(g, row)
         IN  /\ r \in Graph /\ SameCaptures(r, g) /\ Base(r) = Base(g)
             /\ InBranch(r, mode, tokens + 1, right /\ row = tokens)
<1> DEFINE r == Pair(g, row)
<1>1. /\ Agrees(g) /\ g.target_tokens = tokens /\ tokens \in Nat /\ tokens > 0
      /\ g.mtp_tokens = tokens - 1
  BY GraphNumbers DEF InBranch
<1>2. /\ r \in Graph /\ Agrees(r) /\ SameCaptures(r, g) /\ SameBranch(r, g)
      /\ r.target_tokens = tokens + 1 /\ r.mtp_tokens = tokens
      /\ r.hidden.state = After(row)
      /\ (g.mixers.state = tokens /\ row = tokens) => r.mixers.state = tokens + 1
  BY <1>1, PairAgrees
<1> HIDE DEF r
<1>3. ASSUME right /\ row = tokens
      PROVE  r.mixers.state = tokens + 1 /\ HiddenFits(mode, r.hidden.state, tokens + 1)
  <2>1. g.mixers.state = tokens
    BY <1>3 DEF InBranch
  <2>2. r.hidden.state = tokens + 1
    BY <1>1, <1>2, <1>3, JunkAssumption DEF After
  <2> QED BY <1>1, <1>2, <1>3, <2>1, <2>2, ExactFits
<1>4. Base(r) = Base(g) /\ r.speculative_base = g.speculative_base
  BY <1>2 DEF SameBranch, Base
<1>5. /\ Base(g) \in 1 .. MaximumTokens /\ g.speculative_base = <<Base(g), Base(g) - 1>>
      /\ g.kv.target.checkpoint = <<Base(g)>> /\ g.kv.mtp.checkpoint = <<Base(g) - 1>>
      /\ g.mixers.checkpoint = <<Base(g)>>
      /\ g.hidden.checkpoint # << >> /\ HiddenFits(mode, g.hidden.checkpoint[1], Base(g))
      /\ Base(g) <= tokens
  BY DEF InBranch
<1>6. /\ r.kv.target.checkpoint = g.kv.target.checkpoint
      /\ r.kv.mtp.checkpoint = g.kv.mtp.checkpoint
      /\ r.mixers.checkpoint = g.mixers.checkpoint
      /\ r.hidden.checkpoint = g.hidden.checkpoint
  BY <1>2 DEF SameBranch
<1>7. r.mtp_tokens = (tokens + 1) - 1 /\ Base(g) <= tokens + 1
  BY <1>1, <1>2, <1>5
<1>8. InBranch(r, mode, tokens + 1, right /\ row = tokens)
  BY <1>2, <1>3, <1>4, <1>5, <1>6, <1>7 DEF InBranch
<1> QED BY <1>2, <1>4, <1>8 DEF r

\* The next token of a session at rest without MTP.
LEMMA FirstTokenWithoutMtp ==
  ASSUME NEW g \in Graph, NEW mode, AtRest(g, FALSE, mode), g.target_tokens < MaximumTokens
  PROVE  LET r == TargetToken(g, g.target_tokens)
         IN  /\ r \in Graph /\ SameCaptures(r, g)
             /\ AtRest(r, FALSE, mode) /\ r.target_tokens = g.target_tokens + 1
<1> DEFINE r == TargetToken(g, g.target_tokens)
<1>1. /\ Agrees(g) /\ g.target_tokens \in Row /\ g.target_tokens \in Nat
      /\ NoBranch(g) /\ g.mixers.state = g.target_tokens /\ g.mtp_tokens = 0
  BY GraphNumbers DEF AtRest, Row
<1>2. /\ r \in Graph /\ Agrees(r) /\ SameCaptures(r, g) /\ SameBranch(r, g)
      /\ r.target_tokens = g.target_tokens + 1 /\ r.mtp_tokens = g.mtp_tokens
      /\ r.mixers.state = g.target_tokens + 1
  BY <1>1, TargetTokenAgrees
<1> HIDE DEF r
<1>3. NoBranch(r)
  BY <1>1, <1>2 DEF NoBranch, SameBranch
<1> QED BY <1>1, <1>2, <1>3 DEF AtRest, r

\* The next token of a session at rest with MTP.
LEMMA FirstTokenWithMtp ==
  ASSUME NEW g \in Graph, NEW mode, AtRest(g, TRUE, mode), g.target_tokens < MaximumTokens
  PROVE  LET r == Pair(g, g.target_tokens)
         IN  /\ r \in Graph /\ SameCaptures(r, g)
             /\ AtRest(r, TRUE, mode) /\ r.target_tokens = g.target_tokens + 1
<1> DEFINE r == Pair(g, g.target_tokens)
           tokens == g.target_tokens
<1>1. /\ Agrees(g) /\ tokens \in Nat /\ tokens > 0
      /\ NoBranch(g) /\ g.mixers.state = tokens /\ g.mtp_tokens = tokens - 1
  BY GraphNumbers DEF AtRest
<1>2. /\ r \in Graph /\ Agrees(r) /\ SameCaptures(r, g) /\ SameBranch(r, g)
      /\ r.target_tokens = tokens + 1 /\ r.mtp_tokens = g.mtp_tokens + 1
      /\ r.hidden.state = After(tokens) /\ r.mixers.state = tokens + 1
  BY <1>1, PairAgrees
<1> HIDE DEF r
<1>3. NoBranch(r)
  BY <1>1, <1>2 DEF NoBranch, SameBranch
<1>4. HiddenFits(mode, r.hidden.state, tokens + 1)
  BY <1>1, <1>2, ExactFits, JunkAssumption DEF After
<1> QED BY <1>1, <1>2, <1>3, <1>4 DEF AtRest, r

\* A multiple, one further.
LEMMA NextMultiple ==
  ASSUME NEW d \in Nat, NEW n \in Nat \ {0}, d % n = 0
  PROVE  (d + n) % n = 0
<1> DEFINE a == d \div n
           b == (d + n) \div n
           c == (d + n) % n
<1>1. a \in Nat /\ d = n * a
  BY DivMod
<1>2. b \in Nat /\ c \in 0 .. n - 1 /\ d + n = n * b + c
  <2>1. d + n \in Nat
    OBVIOUS
  <2> QED BY ONLY <2>1, n \in Nat \ {0}, DivMod
<1> HIDE DEF a, b
<1>3. c = n * (a + 1 - b)
  BY <1>1, <1>2
<1>4. CASE a + 1 - b <= 0
  <2>1. n * (a + 1 - b) <= n * 0
    BY <1>1, <1>2, <1>4, Monotone
  <2> QED BY <1>2, <1>3, <2>1
<1>5. CASE a + 1 - b >= 1
  <2>1. n * 1 <= n * (a + 1 - b)
    BY <1>1, <1>2, <1>5, Monotone
  <2> QED BY <1>2, <1>3, <2>1
<1> QED BY <1>1, <1>2, <1>4, <1>5

(* A captured block: the session is in a branch that holds the token given  *)
(* and all drafts, right when the target accepted every one of them.        *)
LEMMA BlockInBranch ==
  ASSUME NEW g \in Graph, NEW accepted \in 0 .. MaximumDrafts,
         AtRest(g, TRUE, "CompactGreedy"), g.target_tokens + MaximumDrafts + 1 <= MaximumTokens,
         "verify" \in g.captured, CapturesFit(g)
  PROVE  LET drafted == LaunchDrafts(Begun(g), accepted)
             r == LaunchVerify(drafted, accepted)
         IN  /\ drafted \in Graph /\ SameCaptures(drafted, g) /\ Undoable(drafted)
             /\ r \in Graph /\ SameCaptures(r, g) /\ Undoable(r)
             /\ Base(r) = g.target_tokens
             /\ InBranch(r, "CompactGreedy", g.target_tokens + MaximumDrafts + 1,
                         accepted = MaximumDrafts)
<1> DEFINE tokens == g.target_tokens
           width == MaximumDrafts + 1
           begun == Begun(g)
           drafted == LaunchDrafts(begun, accepted)
           r == LaunchVerify(drafted, accepted)
           start == g.verify_base[1]
           fed == DraftRows(begun, accepted)
           rows == BlockRows(drafted, accepted)
<1>1. /\ begun \in Graph /\ SameCaptures(begun, g) /\ Base(begun) = tokens
      /\ InBranch(begun, "CompactGreedy", tokens, TRUE)
  BY BegunIsInBranch
<1>2. /\ tokens \in Nat /\ tokens > 0 /\ width \in Nat /\ MaximumTokens \in Nat
      /\ tokens + width <= MaximumTokens /\ MaximumDrafts \in Nat /\ accepted \in Nat
  BY GraphNumbers DEF AtRest
<1>3. /\ g.verify_base \in {<<t>> : t \in Count} /\ start \in Nat
      /\ start + MaximumDrafts + 1 <= MaximumTokens
  <2>1. g.verify_base # << >> /\ g.verify_base \in {<< >>} \cup {<<t>> : t \in Count}
    BY DEF CapturesFit, Graph
  <2> QED BY <1>2, <2>1 DEF CapturesFit, Count
<1>4. /\ Agrees(begun) /\ begun.target_tokens = tokens /\ begun.mtp_tokens = tokens - 1
      /\ begun.position.mtp = tokens - 1 /\ begun.kv.mtp.tokens = tokens - 1
      /\ begun.position.target = tokens /\ begun.kv.target.tokens = tokens
      /\ begun.mixers.state = tokens /\ HiddenFits("CompactGreedy", begun.hidden.state, tokens)
  BY <1>1 DEF InBranch, Agrees
<1> HIDE DEF begun
<1>5. /\ drafted \in Graph
      /\ fed \in Rows /\ Len(fed) = width
      /\ drafted.kv.mtp = Recorded(AppendRows(begun.kv.mtp, begun.position.mtp, fed), width)
      /\ drafted.kv.target = begun.kv.target
      /\ drafted.position.mtp = begun.position.mtp + MaximumDrafts + 1
      /\ drafted.position.target = begun.position.target
      /\ drafted.mtp_tokens = begun.mtp_tokens + MaximumDrafts + 1
      /\ SameBut(drafted, begun, {"kv", "position", "mtp_tokens", "tainted"})
  <2>1. /\ begun.target_tokens > 0
        /\ begun.position.mtp + MaximumDrafts + 1 <= MaximumTokens
        /\ begun.mtp_tokens + MaximumDrafts + 1 <= MaximumTokens
        /\ begun.kv.mtp.tokens + MaximumDrafts + 1 <= MaximumTokens
    BY <1>2, <1>4
  <2> QED BY <1>1, <1>2, <2>1, LaunchDraftsEffect, Zenon
<1> HIDE DEF drafted, fed
<1>6. /\ drafted.kv.mtp.tokens = tokens - 1 + width
      /\ drafted.kv.mtp.checkpoint = begun.kv.mtp.checkpoint
      /\ drafted.kv.mtp.poisoned = begun.kv.mtp.poisoned
  <2>1. /\ width = Len(fed) /\ begun.kv.mtp.tokens + width <= MaximumTokens
        /\ fed \in Rows /\ begun.kv.mtp \in Owner /\ begun.position.mtp \in Nat
    BY SMTT(30), <1>1, <1>2, <1>4, <1>5, GraphNumbers
  <2>2. LET after == Recorded(AppendRows(begun.kv.mtp, begun.position.mtp, fed), width)
        IN  /\ after.tokens = begun.kv.mtp.tokens + width
            /\ after.checkpoint = begun.kv.mtp.checkpoint
            /\ after.poisoned = begun.kv.mtp.poisoned
    BY ONLY <2>1, RecordedFields
  <2> QED BY <1>4, <1>5, <2>2
<1>7. /\ drafted.target_tokens = tokens /\ drafted.position.target = tokens
      /\ drafted.kv.target.tokens = tokens /\ drafted.kv.target \in Owner
      /\ drafted.verify_base[1] = start
      /\ drafted.mixers = begun.mixers /\ drafted.hidden = begun.hidden
      /\ drafted.speculative_base = begun.speculative_base
      /\ drafted.captured = g.captured /\ drafted.verify_base = g.verify_base
  <2>1. drafted.kv.target \in Owner
    BY <1>5, GraphNumbers
  <2> QED BY <1>1, <1>4, <1>5, <2>1 DEF SameBut, SameCaptures
<1>8. /\ r \in Graph
      /\ rows \in Rows /\ Len(rows) = width
      /\ r.kv.target = Recorded(AppendRows(drafted.kv.target, start, rows), width)
      /\ r.kv.mtp = drafted.kv.mtp
      /\ r.mixers.state = Consumed(drafted.mixers.state, rows)
      /\ r.mixers.checkpoint = drafted.mixers.checkpoint
      /\ r.position.target = drafted.position.target + MaximumDrafts + 1
      /\ r.position.mtp = drafted.position.mtp
      /\ r.target_tokens = drafted.target_tokens + MaximumDrafts + 1
      /\ SameBut(r, drafted, {"kv", "mixers", "position", "target_tokens", "tainted"})
  <2>1. /\ start + MaximumDrafts + 1 <= MaximumTokens
        /\ drafted.target_tokens + MaximumDrafts + 1 <= MaximumTokens
        /\ drafted.position.target + MaximumDrafts + 1 <= MaximumTokens
        /\ drafted.kv.target.tokens + MaximumDrafts + 1 <= MaximumTokens
    BY <1>2, <1>3, <1>7
  <2>2. drafted.verify_base[1] = start /\ start \in Nat /\ drafted \in Graph /\ accepted \in Nat
    BY <1>2, <1>3, <1>5, <1>7
  <2> HIDE DEF start
  <2> QED BY <2>1, <2>2, LaunchVerifyEffect, ZenonT(30)
<1>9. accepted = MaximumDrafts => Consumed(tokens, rows) = tokens + width
  <2>1. ASSUME accepted = MaximumDrafts
        PROVE  \A i \in DOMAIN rows : rows[i] = tokens + i - 1
    <3>1. rows = [i \in 1 .. MaximumDrafts + 1 |->
                    IF i - 1 <= accepted THEN tokens + i - 1 ELSE Junk]
      BY <1>7 DEF BlockRows
    <3> QED BY <1>2, <2>1, <3>1
  <2>2. tokens # Junk /\ tokens \in Count
    BY <1>2, JunkAssumption DEF Count
  <2> HIDE DEF rows, tokens, width
  <2> QED BY <1>8, <2>1, <2>2, ConsumedType
<1> HIDE DEF r, rows, start
<1>10. /\ r.kv.target.tokens = tokens + width
       /\ r.kv.target.checkpoint = drafted.kv.target.checkpoint
       /\ r.kv.target.poisoned = drafted.kv.target.poisoned
  <2>1. /\ width = Len(rows) /\ drafted.kv.target.tokens + width <= MaximumTokens
        /\ rows \in Rows /\ drafted.kv.target \in Owner /\ start \in Nat
    BY <1>2, <1>3, <1>7, <1>8
  <2>2. LET after == Recorded(AppendRows(drafted.kv.target, start, rows), width)
        IN  /\ after.tokens = drafted.kv.target.tokens + width
            /\ after.checkpoint = drafted.kv.target.checkpoint
            /\ after.poisoned = drafted.kv.target.poisoned
    BY ONLY <2>1, RecordedFields
  <2> QED BY <1>7, <1>8, <2>2
<1> DEFINE end == tokens + MaximumDrafts + 1
<1>11. /\ r.target_tokens = end /\ r.position.target = end /\ r.kv.target.tokens = end
       /\ r.mtp_tokens = end - 1 /\ r.position.mtp = end - 1 /\ r.kv.mtp.tokens = end - 1
       /\ r.poisoned = begun.poisoned /\ r.mtp_poisoned = begun.mtp_poisoned
       /\ r.hidden = begun.hidden /\ r.speculative_base = begun.speculative_base
       /\ r.captured = g.captured /\ r.verify_base = g.verify_base
  <2>1. /\ r.target_tokens = tokens + MaximumDrafts + 1
        /\ r.position.target = tokens + MaximumDrafts + 1
        /\ r.mtp_tokens = tokens - 1 + MaximumDrafts + 1
        /\ r.position.mtp = tokens - 1 + MaximumDrafts + 1
        /\ r.kv.mtp.tokens = tokens - 1 + width
    <3>1. r.mtp_tokens = drafted.mtp_tokens
      BY <1>8 DEF SameBut
    <3> QED BY <1>4, <1>5, <1>6, <1>7, <1>8, <3>1
  <2>2. /\ r.poisoned = begun.poisoned /\ r.mtp_poisoned = begun.mtp_poisoned
        /\ r.hidden = begun.hidden /\ r.speculative_base = begun.speculative_base
        /\ r.captured = g.captured /\ r.verify_base = g.verify_base
    BY <1>5, <1>7, <1>8 DEF SameBut
  <2> HIDE DEF tokens
  <2> QED BY <1>2, <1>10, <2>1, <2>2
<1>12. /\ r.kv.target.checkpoint = begun.kv.target.checkpoint
       /\ r.kv.target.poisoned = begun.kv.target.poisoned
       /\ r.kv.mtp.checkpoint = begun.kv.mtp.checkpoint
       /\ r.kv.mtp.poisoned = begun.kv.mtp.poisoned
       /\ r.mixers.checkpoint = begun.mixers.checkpoint
  BY <1>5, <1>6, <1>7, <1>8, <1>10
<1>13. Agrees(r)
  BY <1>4, <1>11, <1>12 DEF Agrees, Healthy
<1>14. ASSUME accepted = MaximumDrafts
       PROVE  r.mixers.state = end /\ HiddenFits("CompactGreedy", r.hidden.state, end)
  <2>1. r.mixers.state = end
    BY SMTT(30), <1>2, <1>4, <1>7, <1>8, <1>9, <1>14
  <2> DEFINE hidden == begun.hidden.state
             lag == tokens - hidden
  <2>2. hidden \in Nat /\ hidden <= tokens /\ lag % BlockTokens = 0
    BY <1>4 DEF HiddenFits
  <2>3. lag \in Nat /\ BlockTokens = width /\ BlockTokens \in Nat \ {0}
    BY <1>2, <2>2 DEF BlockTokens
  <2> HIDE DEF lag
  <2>4. (lag + BlockTokens) % BlockTokens = 0
    BY <2>2, <2>3, NextMultiple
  <2>5. lag + BlockTokens = end - hidden
    <3> HIDE DEF hidden, tokens
    <3> QED BY <1>2, <2>2, <2>3 DEF lag
  <2>6. hidden <= end /\ r.hidden.state = hidden
    BY <1>2, <1>11, <2>2
  <2> HIDE DEF hidden, end
  <2> QED BY <2>1, <2>2, <2>4, <2>5, <2>6 DEF HiddenFits
<1>15. Base(r) = tokens /\ Undoable(r) /\ Undoable(drafted) /\ SameCaptures(r, g)
       /\ SameCaptures(drafted, g)
  <2>1. Undoable(begun)
    BY BegunIsUndoable DEF begun
  <2>2. drafted.kv.target.checkpoint = begun.kv.target.checkpoint
    BY <1>5
  <2> QED BY <1>1, <1>6, <1>7, <1>11, <1>12, <2>1, <2>2 DEF Undoable, Base, SameCaptures
<1>16. InBranch(r, "CompactGreedy", end, accepted = MaximumDrafts)
  <2>1. /\ Base(begun) = Base(r) /\ Base(r) <= end
    BY <1>1, <1>2, <1>15
  <2> QED BY <1>1, <1>11, <1>12, <1>13, <1>14, <2>1 DEF InBranch
<1> QED BY <1>5, <1>8, <1>15, <1>16 DEF begun, drafted, r

\* A session at rest after replayed pairs.
LEMMA ReplayedIsAtRest ==
  ASSUME NEW g \in Graph, NEW mode, NEW n \in Nat,
         AtRest(g, TRUE, mode), g.target_tokens + n <= MaximumTokens
  PROVE  LET r == ReplayPairs(g, n)
         IN  /\ r \in Graph /\ SameCaptures(r, g)
             /\ AtRest(r, TRUE, mode) /\ r.target_tokens = g.target_tokens + n
<1> DEFINE r == ReplayPairs(g, n)
           first == g.target_tokens
           behind == g.mtp_tokens
           rows == PathRows(first, n)
           fed == MtpRows(g.hidden.state, first, n)
           end == first + n
<1>1. /\ first \in Nat /\ first > 0 /\ behind = first - 1 /\ behind \in Nat
      /\ end <= MaximumTokens /\ MaximumTokens \in Nat
      /\ g.kv.target \in Owner /\ g.kv.mtp \in Owner
      /\ g.kv.target.tokens = first /\ g.kv.mtp.tokens = behind
      /\ g.position.target = first /\ g.position.mtp = behind
      /\ g.mixers.state = first
      /\ Agrees(g) /\ NoBranch(g) /\ HiddenFits(mode, g.hidden.state, first)
  BY GraphNumbers DEF AtRest, Agrees
<1>2. /\ r \in Graph
      /\ r.kv.target = Recorded(AppendRows(g.kv.target, first, rows), n)
      /\ r.kv.mtp = Recorded(AppendRows(g.kv.mtp, behind, fed), n)
      /\ r.mixers.state = Consumed(g.mixers.state, rows)
      /\ r.mixers.checkpoint = g.mixers.checkpoint
      /\ r.hidden.state = IF n = 0 THEN g.hidden.state ELSE end
      /\ r.hidden.checkpoint = g.hidden.checkpoint
      /\ r.position.target = end /\ r.position.mtp = behind + n
      /\ r.target_tokens = end /\ r.mtp_tokens = behind + n
      /\ SameBut(r, g, {"kv", "mixers", "hidden", "position", "target_tokens",
                        "mtp_tokens", "tainted"})
  <2>1. /\ g.target_tokens > 0 /\ g.target_tokens + n <= MaximumTokens
        /\ g.mtp_tokens + n <= MaximumTokens
        /\ g.position.target = g.target_tokens /\ g.position.mtp = g.mtp_tokens
        /\ g.kv.target.tokens = g.target_tokens /\ g.kv.mtp.tokens = g.mtp_tokens
    BY <1>1
  <2> QED BY <2>1, ReplayPairsEffect, Zenon
<1>3. /\ rows \in Rows /\ Len(rows) = n /\ Consumed(first, rows) = end
      /\ fed \in Rows /\ Len(fed) = n
  <2>1. first \in Nat \ {0} /\ first + n <= MaximumTokens + 1
    BY <1>1
  <2> QED BY <1>1, <2>1, PathRowsType, MtpRowsType
<1> HIDE DEF r, rows, fed
<1>4. /\ r.kv.target.tokens = end /\ r.kv.target.checkpoint = g.kv.target.checkpoint
      /\ r.kv.target.poisoned = g.kv.target.poisoned
  <2>1. /\ n = Len(rows) /\ g.kv.target.tokens + n <= MaximumTokens
        /\ rows \in Rows /\ g.kv.target \in Owner /\ first \in Nat
    BY <1>1, <1>3
  <2>2. LET after == Recorded(AppendRows(g.kv.target, first, rows), n)
        IN  /\ after.tokens = g.kv.target.tokens + n
            /\ after.checkpoint = g.kv.target.checkpoint
            /\ after.poisoned = g.kv.target.poisoned
    BY ONLY <2>1, RecordedFields
  <2> QED BY <1>1, <1>2, <2>2
<1>5. /\ r.kv.mtp.tokens = behind + n /\ r.kv.mtp.checkpoint = g.kv.mtp.checkpoint
      /\ r.kv.mtp.poisoned = g.kv.mtp.poisoned
  <2>1. /\ n = Len(fed) /\ g.kv.mtp.tokens + n <= MaximumTokens
        /\ fed \in Rows /\ g.kv.mtp \in Owner /\ behind \in Nat
    BY <1>1, <1>3
  <2>2. LET after == Recorded(AppendRows(g.kv.mtp, behind, fed), n)
        IN  /\ after.tokens = g.kv.mtp.tokens + n
            /\ after.checkpoint = g.kv.mtp.checkpoint
            /\ after.poisoned = g.kv.mtp.poisoned
    BY ONLY <2>1, RecordedFields
  <2> QED BY <1>1, <1>2, <2>2
<1>6. HiddenFits(mode, r.hidden.state, end)
  <2>1. CASE n = 0
    <3>1. end = first /\ r.hidden.state = g.hidden.state
      BY <1>1, <1>2, <2>1
    <3> HIDE DEF end, first
    <3> QED BY <1>1, <3>1
  <2>2. CASE n # 0
    BY <1>1, <1>2, <2>2, ExactFits
  <2> QED BY <2>1, <2>2
<1>7. Agrees(r) /\ NoBranch(r) /\ SameCaptures(r, g)
  <2> HIDE DEF first, behind, end
  <2>1. /\ r.poisoned = g.poisoned /\ r.mtp_poisoned = g.mtp_poisoned
        /\ r.speculative_base = g.speculative_base
        /\ r.captured = g.captured /\ r.verify_base = g.verify_base
    BY <1>2 DEF SameBut
  <2> QED BY <1>1, <1>2, <1>4, <1>5, <2>1 DEF Agrees, NoBranch, Healthy, SameCaptures
<1>8. /\ r.target_tokens = end /\ end > 0 /\ r.mtp_tokens = end - 1 /\ r.mixers.state = end
  BY <1>1, <1>2, <1>3
<1> HIDE DEF end
<1>9. AtRest(r, TRUE, mode)
  BY <1>6, <1>7, <1>8 DEF AtRest
<1> QED BY <1>2, <1>7, <1>8, <1>9 DEF r, end

(* A captured block that is resolved: the token given and the accepted      *)
(* drafts stay.                                                             *)
LEMMA ResolvedIsAtRest ==
  ASSUME NEW g \in Graph, NEW mode, NEW accepted \in 0 .. MaximumDrafts,
         InBranch(g, mode, Base(g) + MaximumDrafts + 1, accepted = MaximumDrafts)
  PROVE  LET r == Resolve(g, accepted)
         IN  /\ r \in Graph /\ SameCaptures(r, g)
             /\ AtRest(r, TRUE, mode) /\ r.target_tokens = Base(g) + accepted + 1
<1> DEFINE r == Resolve(g, accepted)
           whole == Base(g) + MaximumDrafts + 1
<1>1. /\ Base(g) \in Nat /\ MaximumDrafts \in Nat /\ MaximumTokens \in Nat
      /\ accepted \in Nat /\ accepted <= MaximumDrafts
  BY GraphNumbers DEF InBranch
<1>2. whole <= MaximumTokens
  BY GraphNumbers DEF InBranch
<1>3. CASE accepted = MaximumDrafts
  <2>1. r = Committed(g)
    BY <1>3 DEF Resolve
  <2>2. InBranch(g, mode, whole, TRUE)
    BY <1>3
  <2> HIDE DEF r, whole
  <2>3. /\ r \in Graph /\ SameCaptures(r, g)
        /\ AtRest(r, TRUE, mode) /\ r.target_tokens = whole
    BY ONLY <2>1, <2>2, g \in Graph, CommittedIsAtRest
  <2> QED BY <1>3, <2>3 DEF r, whole
<1>4. CASE accepted # MaximumDrafts
  <2> DEFINE back == Restored(g)
  <2>1. r = ReplayPairs(back, accepted + 1)
    BY <1>4 DEF Resolve
  <2>2. /\ back \in Graph /\ SameCaptures(back, g)
        /\ AtRest(back, TRUE, mode) /\ back.target_tokens = Base(g)
    BY RestoredIsAtRest
  <2> HIDE DEF r, back
  <2>3. back.target_tokens + (accepted + 1) <= MaximumTokens /\ accepted + 1 \in Nat
    BY <1>1, <1>2, <2>2
  <2>4. /\ r \in Graph /\ SameCaptures(r, back)
        /\ AtRest(r, TRUE, mode) /\ r.target_tokens = back.target_tokens + (accepted + 1)
    BY ONLY <2>1, <2>2, <2>3, ReplayedIsAtRest
  <2>5. r.target_tokens = Base(g) + accepted + 1 /\ SameCaptures(r, g)
    BY <1>1, <2>2, <2>4 DEF SameCaptures
  <2> QED BY <2>4, <2>5 DEF r
<1> QED BY <1>3, <1>4

\* What a block is left as when its resolution fails.
LEMMA ResolveBrokenType ==
  ASSUME NEW g \in Graph, NEW mode, NEW accepted \in 0 .. MaximumDrafts, NEW right,
         InBranch(g, mode, Base(g) + MaximumDrafts + 1, right),
         NEW r \in ResolveBroken(g, accepted)
  PROVE  r \in Graph /\ SameCaptures(r, g)
<1>1. /\ Base(g) \in Nat /\ MaximumDrafts \in Nat /\ MaximumTokens \in Nat
      /\ accepted \in Nat /\ accepted <= MaximumDrafts
      /\ Base(g) + MaximumDrafts + 1 <= MaximumTokens
  BY GraphNumbers DEF InBranch
<1> DEFINE back == Restored(g)
<1>2. /\ Undoable(g) /\ back \in Graph /\ SameCaptures(back, g)
      /\ AtRest(back, TRUE, mode) /\ back.target_tokens = Base(g)
  BY RestoredIsAtRest
<1> HIDE DEF back
<1>3. ASSUME NEW n \in 0 .. accepted, accepted # MaximumDrafts
      PROVE  LET q == ReplayPairs(back, n)
             IN  /\ q \in Graph /\ SameCaptures(q, g)
                 /\ ReplayMtp(q) \in Graph /\ SameCaptures(ReplayMtp(q), g)
  <2> DEFINE q == ReplayPairs(back, n)
  <2>1. n \in Nat /\ back.target_tokens + n <= MaximumTokens
    BY <1>1, <1>2
  <2>2. /\ q \in Graph /\ SameCaptures(q, back)
        /\ AtRest(q, TRUE, mode) /\ q.target_tokens = back.target_tokens + n
    BY ONLY <1>2, <2>1, ReplayedIsAtRest
  <2> HIDE DEF q
  <2>3. SameCaptures(q, g)
    BY <1>2, <2>2 DEF SameCaptures
  <2>4. q.target_tokens > 0 /\ q.target_tokens < MaximumTokens /\ q.target_tokens \in Nat
    BY <1>1, <1>2, <1>3, <2>2 DEF AtRest
  <2>5. /\ q.mtp_tokens = q.target_tokens - 1 /\ Agrees(q)
    BY <2>2 DEF AtRest
  <2>6. /\ q.target_tokens \in Row \ {0} /\ q.position.mtp \in Nat
        /\ q.position.mtp < MaximumTokens /\ q.kv.mtp.tokens < MaximumTokens
        /\ q.mtp_tokens < MaximumTokens
    BY <1>1, <2>2, <2>4, <2>5, GraphNumbers DEF Agrees, Row
  <2>7. LET a == MtpStep(q, q.position.mtp, q.target_tokens)
        IN  a \in Graph /\ SameBut(a, q, {"kv", "position", "mtp_tokens", "tainted"})
    BY ONLY <2>2, <2>6, MtpStepEffect
  <2>8. ReplayMtp(q) \in Graph /\ SameCaptures(ReplayMtp(q), g)
    BY <2>3, <2>7 DEF ReplayMtp, SameBut, SameCaptures
  <2> QED BY <2>2, <2>3, <2>8 DEF q
<1>4. CASE r \in CommitBroken(g)
  BY <1>4, ResolutionBrokenType
<1>5. CASE r \in RestoreBroken(g)
  BY <1>2, <1>5, ResolutionBrokenType
<1>6. CASE /\ accepted # MaximumDrafts
           /\ \E n \in 0 .. accepted : \/ r = ReplayPairs(back, n)
                                       \/ r = ReplayMtp(ReplayPairs(back, n))
  BY <1>3, <1>6
<1>7. \/ r \in CommitBroken(g) \/ r \in RestoreBroken(g)
      \/ /\ accepted # MaximumDrafts
         /\ \E n \in 0 .. accepted : \/ r = ReplayPairs(back, n)
                                     \/ r = ReplayMtp(ReplayPairs(back, n))
  <2>1. CASE accepted = MaximumDrafts
    BY <2>1 DEF ResolveBroken
  <2>2. CASE accepted # MaximumDrafts
    <3> DEFINE replayed == {ReplayPairs(back, n) : n \in 0 .. accepted}
    <3>1. r \in RestoreBroken(g) \cup replayed \cup {ReplayMtp(q) : q \in replayed}
      BY <2>2, Zenon DEF ResolveBroken, back
    <3>2. CASE r \in {ReplayMtp(q) : q \in replayed}
      <4>1. PICK q \in replayed : r = ReplayMtp(q)
        BY <3>2, Zenon
      <4> QED BY <2>2, <4>1
    <3> QED BY <2>2, <3>1, <3>2
  <2> QED BY <2>1, <2>2
<1> QED BY <1>4, <1>5, <1>6, <1>7

-----------------------------------------------------------------------------
(* The inductive invariant *)

\* The captured path needs the whole width of a block.
RoomForABlock ==
  /\ session.mtp /\ Drafts = MaximumDrafts /\ mtp_output_mode = "CompactGreedy"
  /\ graph.target_tokens + MaximumDrafts + 1 <= MaximumTokens

Undecided ==
  session.status = "open" /\ pending = << >> /\ call.at \in {"idle", "seed", "block", "first"}

WhileAtRest ==
  Undecided =>
    /\ AtRest(graph, session.mtp, mtp_output_mode) /\ reported.pending = 0
    /\ Idle => reported.promised = graph.target_tokens
    /\ call.at \in {"seed", "block"} => RoomForABlock
    /\ call.at = "seed" => ~seeded /\ call.done \in 0 .. 3
    /\ call.at = "block" => "verify" \in graph.captured
    /\ call.at = "first" =>
         /\ graph.target_tokens < MaximumTokens /\ call.done = 0
         /\ call.total \in 0 .. Drafts /\ call.accepted \in 0 .. call.total
         /\ session.mtp => /\ call.total > 0
                           /\ graph.target_tokens + 1 + call.total <= MaximumTokens
         /\ ~session.mtp => call.total = 0

WhileDrafting ==
  call.at = "serial" =>
    /\ session.status = "open" /\ session.mtp
    /\ call.total \in 1 .. Drafts
    /\ call.accepted \in 0 .. call.total /\ call.done \in 0 .. call.total - 1
    /\ InBranch(graph, mtp_output_mode, Base(graph) + call.done, call.done <= call.accepted)
    /\ Base(graph) + call.total <= MaximumTokens
    /\ reported.pending = 0

WhileReplaying ==
  call.at = "replay" =>
    /\ session.status = "open" /\ session.mtp
    /\ call.done \in 0 .. call.accepted
    /\ InBranch(graph, mtp_output_mode, Base(graph) + call.done, TRUE)
    /\ Base(graph) + call.accepted <= MaximumTokens
    /\ reported.pending > 0 /\ reported.promised = Base(graph) + call.accepted

\* The tokens a branch holds ahead of its drafts.
Ahead(branch) == IF branch.kind = "Serial" THEN 0 ELSE 1

WhilePending ==
  pending # << >> =>
    /\ Idle /\ session.status = "open" /\ session.mtp
    /\ pending[1].accepted <= pending[1].drafts
    /\ InBranch(graph, mtp_output_mode, Base(graph) + pending[1].drafts + Ahead(pending[1]),
                pending[1].accepted = pending[1].drafts)
    /\ reported.pending > 0
    /\ reported.promised = Base(graph) + pending[1].accepted + Ahead(pending[1])
    /\ pending[1].kind = "CapturedMtp4" =>
         pending[1].drafts = MaximumDrafts /\ mtp_output_mode = "CompactGreedy"

WhileEmpty ==
  session.status = "none" =>
    /\ call.at \in {"idle", "chunk"} /\ reported.pending = 0
    /\ Idle => Emptied(graph)

WhileInPrompt ==
  call.at = "chunk" =>
    /\ session.status = "none" /\ InPrompt(graph, session.mtp)
    /\ call.total \in 1 .. MaximumTokens /\ graph.target_tokens < call.total

CudaInv ==
  /\ CudaTypeOK
  /\ session.status = "lost" => Idle
  /\ CapturesFit(graph) /\ (seeded => "verify" \in graph.captured)
  /\ WhileEmpty /\ WhileInPrompt /\ WhileAtRest
  /\ WhileDrafting /\ WhileReplaying /\ WhilePending
  /\ CancelledCallsLeaveNoBranch


\* What a cancelled call may leave behind.
Quiet(g, mtp) ==
  /\ Healthy(g) /\ ~Branched(g)
  /\ g.mixers.state = g.target_tokens /\ g.kv.target.tokens = g.target_tokens
  /\ mtp /\ g.target_tokens > 0 => OneAhead(g)

\* A session at rest is quiet, and so is one without a token.
LEMMA RestIsQuiet ==
  ASSUME NEW g \in Graph, NEW mtp \in BOOLEAN, NEW mode
  PROVE  /\ AtRest(g, mtp, mode) => Quiet(g, mtp)
         /\ Emptied(g) => Quiet(g, mtp)
<1>1. AtRest(g, mtp, mode) => Quiet(g, mtp)
  BY GraphNumbers DEF AtRest, Quiet, Agrees, NoBranch, Branched, OneAhead
<1>2. Emptied(g) => Quiet(g, mtp)
  BY GraphNumbers DEF Emptied, Quiet, Agrees, NoBranch, Branched
<1> QED BY <1>1, <1>2

\* What a graph was captured with is all that decides whether it fits.
LEMMA FitsWithSameCaptures ==
  ASSUME NEW g, NEW r, CapturesFit(g), r.verify_base = g.verify_base,
         r.captured \subseteq g.captured
  PROVE  CapturesFit(r)
BY DEF CapturesFit

\* Captures leave a session at rest, and what they record fits.
LEMMA CapturesKeepRest ==
  ASSUME NEW g \in Graph, NEW mtp, NEW mode, AtRest(g, mtp, mode), CapturesFit(g)
  PROVE  /\ LET r == CaptureTarget(g)
            IN  /\ r \in Graph /\ AtRest(r, mtp, mode) /\ r.target_tokens = g.target_tokens
                /\ CapturesFit(r)
         /\ \A program \in Programs \ {"verify"} :
              LET r == CaptureMtp(g, program)
              IN  /\ r \in Graph /\ AtRest(r, mtp, mode) /\ r.target_tokens = g.target_tokens
                  /\ CapturesFit(r)
         /\ g.target_tokens + MaximumDrafts + 1 <= MaximumTokens =>
              LET r == CaptureVerify(g)
              IN  /\ r \in Graph /\ AtRest(r, mtp, mode) /\ r.target_tokens = g.target_tokens
                  /\ CapturesFit(r) /\ "verify" \in r.captured
<1>1. ASSUME NEW r, NEW fields, SameBut(r, g, fields),
             fields \in {{"captured"}, {"captured", "verify_base"}}
      PROVE  AtRest(r, mtp, mode) /\ r.target_tokens = g.target_tokens
  <2>1. /\ r.target_tokens = g.target_tokens /\ r.mtp_tokens = g.mtp_tokens
        /\ r.poisoned = g.poisoned /\ r.mtp_poisoned = g.mtp_poisoned
        /\ r.speculative_base = g.speculative_base /\ r.mixers = g.mixers
        /\ r.hidden = g.hidden /\ r.kv = g.kv /\ r.position = g.position
    BY <1>1 DEF SameBut
  <2> QED BY <2>1 DEF AtRest, Agrees, NoBranch, Healthy
<1>2. LET r == CaptureTarget(g)
      IN  /\ r \in Graph /\ AtRest(r, mtp, mode) /\ r.target_tokens = g.target_tokens
          /\ CapturesFit(r)
  <2> DEFINE r == CaptureTarget(g)
  <2>1. /\ r \in Graph /\ r.position.target = g.target_tokens
        /\ r.position.mtp = g.position.mtp
        /\ r.captured = g.captured \cup {"target"}
        /\ SameBut(r, g, {"position", "captured"})
    BY CaptureEffect
  <2> HIDE DEF r
  <2>2. /\ r.target_tokens = g.target_tokens /\ r.mtp_tokens = g.mtp_tokens
        /\ r.poisoned = g.poisoned /\ r.mtp_poisoned = g.mtp_poisoned
        /\ r.speculative_base = g.speculative_base /\ r.mixers = g.mixers
        /\ r.hidden = g.hidden /\ r.kv = g.kv /\ r.verify_base = g.verify_base
    BY <2>1 DEF SameBut
  <2>3. AtRest(r, mtp, mode)
    BY <2>1, <2>2 DEF AtRest, Agrees, NoBranch, Healthy
  <2>4. CapturesFit(r)
    BY <2>1, <2>2 DEF CapturesFit
  <2> QED BY <2>1, <2>2, <2>3, <2>4 DEF r
<1>3. ASSUME NEW program \in Programs \ {"verify"}
      PROVE  LET r == CaptureMtp(g, program)
             IN  /\ r \in Graph /\ AtRest(r, mtp, mode) /\ r.target_tokens = g.target_tokens
                 /\ CapturesFit(r)
  <2> DEFINE r == CaptureMtp(g, program)
  <2>1. /\ r \in Graph /\ r.captured = g.captured \cup {program}
        /\ SameBut(r, g, {"captured"})
    BY <1>3, CaptureEffect
  <2> HIDE DEF r
  <2>2. AtRest(r, mtp, mode) /\ r.target_tokens = g.target_tokens
    BY <1>1, <2>1
  <2>3. r.verify_base = g.verify_base
    BY <2>1 DEF SameBut
  <2>4. CapturesFit(r)
    BY <1>3, <2>1, <2>3 DEF CapturesFit
  <2> QED BY <2>1, <2>2, <2>4 DEF r
<1>4. ASSUME g.target_tokens + MaximumDrafts + 1 <= MaximumTokens
      PROVE  LET r == CaptureVerify(g)
             IN  /\ r \in Graph /\ AtRest(r, mtp, mode) /\ r.target_tokens = g.target_tokens
                 /\ CapturesFit(r) /\ "verify" \in r.captured
  <2> DEFINE r == CaptureVerify(g)
  <2>1. /\ r \in Graph /\ r.captured = g.captured \cup {"verify"}
        /\ r.verify_base = <<g.target_tokens>>
        /\ SameBut(r, g, {"captured", "verify_base"})
    BY CaptureEffect
  <2> HIDE DEF r
  <2>2. AtRest(r, mtp, mode) /\ r.target_tokens = g.target_tokens
    BY <1>1, <2>1
  <2>3. CapturesFit(r)
    BY <1>4, <2>1 DEF CapturesFit
  <2> QED BY <2>1, <2>2, <2>3 DEF r
<1> QED BY <1>2, <1>3, <1>4

\* How the first token of a decode may fail.
LEMMA FirstTokenBrokenType ==
  ASSUME NEW g \in Graph, NEW mtp \in BOOLEAN, NEW mode, AtRest(g, mtp, mode),
         g.target_tokens < MaximumTokens,
         NEW drafted, drafted = IF mtp THEN MtpToken(g, g.target_tokens) ELSE g,
         NEW r \in {drafted, TargetToken(drafted, g.target_tokens)}
                     \cup TargetTokenBroken(drafted, g.target_tokens)
                     \cup (IF mtp THEN MtpTokenBroken(g, g.target_tokens) ELSE {})
  PROVE  r \in Graph /\ SameCaptures(r, g)
<1>1. Agrees(g) /\ g.target_tokens > 0
  BY DEF AtRest
<1>2. CASE mtp = TRUE
  <2>1. g.mtp_tokens = g.target_tokens - 1
    BY <1>2 DEF AtRest
  <2>2. r \in PairBroken(g, g.target_tokens)
    BY <1>2 DEF PairBroken, Pair
  <2> QED BY <1>1, <2>1, <2>2, PairBrokenType
<1>3. CASE mtp = FALSE
  <2>1. \/ r = g \/ r = TargetToken(g, g.target_tokens)
        \/ r \in TargetTokenBroken(g, g.target_tokens)
    BY <1>3
  <2>2. g.target_tokens \in Row /\ g.kv.target.tokens < MaximumTokens
    BY <1>1, GraphNumbers DEF Row, Agrees
  <2>3. ASSUME r \in TargetTokenBroken(g, g.target_tokens)
        PROVE  r \in Graph /\ SameCaptures(r, g)
    BY <2>2, <2>3, TargetTokenBrokenType DEF SameBut, SameCaptures
  <2>4. ASSUME r = TargetToken(g, g.target_tokens)
        PROVE  r \in Graph /\ SameCaptures(r, g)
    BY <1>1, <2>2, <2>4, TargetTokenAgrees
  <2> QED BY <2>1, <2>3, <2>4 DEF SameCaptures
<1> QED BY <1>2, <1>3

-----------------------------------------------------------------------------
(* How a call ends *)

\* No branch is pending while a call is under way or no session is open.
LEMMA NothingPending ==
  ASSUME CudaInv, ~Idle \/ session.status # "open"
  PROVE  pending = << >>
BY DEF CudaInv, WhilePending

\* A call that fails, with nothing pending, ends the session.
LEMMA SessionLost ==
  ASSUME CudaInv, NEW outcome \in {"cancelled", "error"}, AnswerError(outcome),
         outcome = "cancelled" => Quiet(graph', session.mtp),
         UNCHANGED <<model, mtp_output_mode>>, pending' = << >>, seeded' \in BOOLEAN,
         graph' \in Graph, CapturesFit(graph'), seeded' => "verify" \in graph'.captured
  PROVE  CudaInv'
<1>1. /\ call' = IdleCall /\ result' = outcome
      /\ session' = [session EXCEPT !.status = "lost"]
      /\ reported' = [reported EXCEPT !.pending = 0, !.state = "partial"]
  BY DEF AnswerError
<1>2. CudaTypeOK
  BY DEF CudaInv
<1>3. session'.status = "lost" /\ session'.mtp = session.mtp /\ call'.at = "idle"
  BY <1>1, <1>2 DEF CudaTypeOK, IdleCall
<1>4. CudaTypeOK'
  <2>1. call' \in Call
    BY <1>1, PagedAssumption, GraphAssumption DEF IdleCall, Call, Count
  <2>2. session' \in [status : {"none", "open", "lost"}, mtp : BOOLEAN]
    BY <1>1, <1>2 DEF CudaTypeOK
  <2>3. reported' \in [position : Count, pending : 0 .. Drafts, state : {"whole", "partial"},
                       promised : Count]
    <3>1. reported \in [position : Count, pending : 0 .. Drafts, state : {"whole", "partial"},
                        promised : Count]
      BY <1>2 DEF CudaTypeOK
    <3>2. 0 \in 0 .. Drafts
      BY ExecutorAssumption, GraphAssumption
    <3> QED BY <1>1, <3>1, <3>2
  <2> QED BY <1>1, <1>2, <2>1, <2>2, <2>3 DEF CudaTypeOK
<1>5. (WhileEmpty /\ WhileInPrompt /\ WhileAtRest /\ WhileDrafting /\ WhileReplaying
        /\ WhilePending)'
  BY <1>3 DEF WhileEmpty, WhileInPrompt, WhileAtRest, Undecided, WhileDrafting,
              WhileReplaying, WhilePending
<1>6. CancelledCallsLeaveNoBranch'
  BY <1>1, <1>3 DEF CancelledCallsLeaveNoBranch, Quiet, Healthy, Branched, OneAhead
<1>7. CapturesFit(graph)' /\ (seeded => "verify" \in graph.captured)'
  BY DEF CapturesFit
<1> QED BY <1>3, <1>4, <1>5, <1>6, <1>7 DEF CudaInv, Idle

\* A call that is answered with the session at rest.
LEMMA AnsweredAtRest ==
  ASSUME CudaInv, AnswerOk, UNCHANGED <<model, mtp_output_mode, seeded>>, pending' = << >>,
         graph' \in Graph, SameCaptures(graph', graph),
         AtRest(graph', session.mtp, mtp_output_mode),
         reported.pending > 0 => reported.promised = graph'.target_tokens
  PROVE  CudaInv'
<1> DEFINE promised == IF reported.pending > 0 THEN reported.promised
                       ELSE graph'.target_tokens
<1>1. CudaTypeOK /\ CapturesFit(graph) /\ (seeded => "verify" \in graph.captured)
  BY DEF CudaInv
<1>2. graph'.target_tokens \in Nat /\ graph'.target_tokens \in Count
  BY GraphNumbers DEF Graph
<1>3. reported' = [position |-> graph'.target_tokens, pending |-> 0, state |-> "whole",
                   promised |-> graph'.target_tokens]
  <2>1. graph'.target_tokens - 0 = graph'.target_tokens /\ graph'.target_tokens + 0 = graph'.target_tokens
    BY <1>2
  <2> QED BY <2>1 DEF AnswerOk
<1>4. /\ call' = IdleCall /\ result' = "ok" /\ session' = [session EXCEPT !.status = "open"]
      /\ call'.at = "idle"
  BY DEF AnswerOk, IdleCall
<1>5. session'.status = "open" /\ session'.mtp = session.mtp
  BY <1>1, <1>4 DEF CudaTypeOK
<1>6. CudaTypeOK'
  <2>1. call' \in Call
    BY <1>4, PagedAssumption, GraphAssumption DEF IdleCall, Call, Count
  <2>2. session' \in [status : {"none", "open", "lost"}, mtp : BOOLEAN]
    BY <1>1, <1>4 DEF CudaTypeOK
  <2>3. reported' \in [position : Count, pending : 0 .. Drafts, state : {"whole", "partial"},
                       promised : Count]
    BY <1>2, <1>3, ExecutorAssumption, GraphAssumption
  <2> QED BY <1>1, <1>4, <2>1, <2>2, <2>3 DEF CudaTypeOK
<1>7. WhileAtRest'
  BY <1>3, <1>4, <1>5 DEF WhileAtRest
<1>8. (WhileEmpty /\ WhileInPrompt /\ WhileDrafting /\ WhileReplaying /\ WhilePending)'
  BY <1>4, <1>5 DEF WhileEmpty, WhileInPrompt, WhileDrafting, WhileReplaying, WhilePending
<1>9. CancelledCallsLeaveNoBranch'
  BY <1>4 DEF CancelledCallsLeaveNoBranch
<1>10. CapturesFit(graph)' /\ (seeded => "verify" \in graph.captured)'
  BY <1>1 DEF CapturesFit, SameCaptures
<1> QED BY <1>4, <1>5, <1>6, <1>7, <1>8, <1>9, <1>10 DEF CudaInv, Idle

\* A decode that is answered with its branch pending.
LEMMA AnsweredPending ==
  ASSUME CudaInv, AnswerOk, UNCHANGED <<model, mtp_output_mode, seeded>>,
         NEW branch \in Pending, pending' = <<branch>>, branch.accepted <= branch.drafts,
         session.status = "open", session.mtp, reported.pending = 0,
         graph' \in Graph, SameCaptures(graph', graph),
         InBranch(graph', mtp_output_mode, Base(graph') + branch.drafts + Ahead(branch),
                  branch.accepted = branch.drafts),
         branch.kind = "CapturedMtp4" =>
           branch.drafts = MaximumDrafts /\ mtp_output_mode = "CompactGreedy"
  PROVE  CudaInv'
<1> DEFINE base == Base(graph')
           ahead == Ahead(branch)
           tokens == graph'.target_tokens
<1>1. CudaTypeOK /\ CapturesFit(graph) /\ (seeded => "verify" \in graph.captured)
  BY DEF CudaInv
<1>2. /\ tokens \in 0 .. MaximumTokens /\ MaximumTokens \in Nat /\ base \in 1 .. MaximumTokens
      /\ tokens = base + branch.drafts + ahead /\ ahead \in {0, 1}
      /\ branch.drafts \in 1 .. Drafts /\ branch.accepted \in 0 .. Drafts /\ Drafts \in Nat
  BY GraphNumbers, ExecutorAssumption, GraphAssumption DEF InBranch, Ahead, Pending
<1>3. /\ pending' # << >> /\ pending'[1] = branch
  OBVIOUS
<1> HIDE DEF base, ahead, tokens
<1>4. reported' = [position |-> base + ahead, pending |-> branch.drafts, state |-> "whole",
                   promised |-> base + branch.accepted + ahead]
  <2>1. tokens - branch.drafts = base + ahead
    BY <1>2
  <2>2. (base + ahead) + branch.accepted = base + branch.accepted + ahead
    BY <1>2
  <2>3. reported' = [position |-> tokens - branch.drafts, pending |-> branch.drafts,
                     state |-> "whole", promised |-> (tokens - branch.drafts) + branch.accepted]
    BY <1>3 DEF AnswerOk, tokens
  <2> QED BY <2>1, <2>2, <2>3
<1>5. /\ call' = IdleCall /\ result' = "ok" /\ session' = [session EXCEPT !.status = "open"]
      /\ call'.at = "idle"
  BY DEF AnswerOk, IdleCall
<1>6. session'.status = "open" /\ session'.mtp = session.mtp
  BY <1>1, <1>5 DEF CudaTypeOK
<1>7. CudaTypeOK'
  <2>1. call' \in Call
    BY <1>5, PagedAssumption, GraphAssumption DEF IdleCall, Call, Count
  <2>2. session' \in [status : {"none", "open", "lost"}, mtp : BOOLEAN]
    BY <1>1, <1>5 DEF CudaTypeOK
  <2>3. base + ahead \in Count /\ base + branch.accepted + ahead \in Count
    BY <1>2 DEF Count
  <2>4. reported' \in [position : Count, pending : 0 .. Drafts, state : {"whole", "partial"},
                       promised : Count]
    BY <1>2, <1>4, <2>3
  <2>5. pending' \in {<< >>} \cup {<<p>> : p \in Pending}
    OBVIOUS
  <2>6. model' \in {"new", "resident", "warm", "unloaded"} /\ mtp_output_mode' \in OutputModes
        /\ seeded' \in BOOLEAN
    BY <1>1 DEF CudaTypeOK
  <2> QED BY <1>5, <2>1, <2>2, <2>4, <2>5, <2>6 DEF CudaTypeOK
<1>8. WhilePending'
  <2>1. /\ reported'.pending > 0 /\ reported'.promised = base + branch.accepted + ahead
    BY <1>2, <1>4
  <2> QED BY <1>3, <1>5, <1>6, <2>1 DEF WhilePending, Idle, base, ahead
<1>9. (WhileEmpty /\ WhileInPrompt /\ WhileDrafting /\ WhileReplaying /\ WhileAtRest)'
  BY <1>3, <1>5, <1>6
  DEF WhileEmpty, WhileInPrompt, WhileDrafting, WhileReplaying, WhileAtRest, Undecided
<1>10. CancelledCallsLeaveNoBranch'
  BY <1>5 DEF CancelledCallsLeaveNoBranch
<1>11. CapturesFit(graph)' /\ (seeded => "verify" \in graph.captured)'
  BY <1>1 DEF CapturesFit, SameCaptures
<1> QED BY <1>5, <1>6, <1>7, <1>8, <1>9, <1>10, <1>11 DEF CudaInv, Idle

\* A branch that is restored on the way out.
LEMMA RolledBack ==
  ASSUME CudaInv, NEW g \in Graph, NEW outcome \in {"cancelled", "error"},
         RollBack(g, outcome), Undoable(g), SameCaptures(g, graph),
         outcome = "cancelled" => AtRest(Restored(g), session.mtp, mtp_output_mode),
         UNCHANGED <<model, mtp_output_mode, seeded>>, pending' = << >>
  PROVE  CudaInv'
<1>1. CudaTypeOK /\ CapturesFit(graph) /\ (seeded => "verify" \in graph.captured)
  BY DEF CudaInv
<1>2. session.mtp \in BOOLEAN /\ seeded' \in BOOLEAN
  BY <1>1 DEF CudaTypeOK
<1>3. ASSUME graph' \in Graph, SameCaptures(graph', graph)
      PROVE  CapturesFit(graph') /\ (seeded' => "verify" \in graph'.captured)
  BY <1>1, <1>3 DEF CapturesFit, SameCaptures
<1>4. CASE graph' = Restored(g) /\ AnswerError(outcome)
  <2>1. Restored(g) \in Graph /\ SameCaptures(Restored(g), g)
    BY RestoredOwnersEffect, RestoredEffect DEF SameBut, SameCaptures
  <2>2. graph' \in Graph /\ SameCaptures(graph', graph)
    BY <1>4, <2>1 DEF SameCaptures
  <2>3. outcome = "cancelled" => Quiet(graph', session.mtp)
    BY <1>2, <1>4, <2>1, RestIsQuiet
  <2> QED BY <1>2, <1>3, <1>4, <2>2, <2>3, SessionLost
<1>5. CASE graph' \in RestoreBroken(g) /\ AnswerError("error")
  <2>1. graph' \in Graph /\ SameCaptures(graph', graph)
    BY <1>5, ResolutionBrokenType DEF SameCaptures
  <2> QED BY <1>2, <1>3, <1>5, <2>1, SessionLost
<1> QED BY <1>4, <1>5 DEF RollBack

\* A graph call that fails: the graph is as it was, or as the failure leaves it.
LEMMA CallFailed ==
  ASSUME CudaInv, NEW admitted \in BOOLEAN, NEW broken, Fails(admitted, broken),
         admitted => \A r \in broken : r \in Graph /\ SameCaptures(r, graph),
         UNCHANGED <<model, mtp_output_mode, seeded>>, pending' = << >>
  PROVE  CudaInv'
<1>1. CudaTypeOK /\ CapturesFit(graph) /\ (seeded => "verify" \in graph.captured)
  BY DEF CudaInv
<1>2. graph \in Graph /\ seeded' \in BOOLEAN
  BY <1>1 DEF CudaTypeOK
<1>3. graph' \in Graph /\ SameCaptures(graph', graph) /\ AnswerError("error")
  BY <1>2 DEF Fails, SameCaptures
<1>4. CapturesFit(graph') /\ (seeded' => "verify" \in graph'.captured)
  BY <1>1, <1>3 DEF CapturesFit, SameCaptures
<1> QED BY <1>2, <1>3, <1>4, SessionLost

\* Steps that leave the session as it is.
LEMMA SessionUntouched ==
  ASSUME CudaInv, model' \in {"new", "resident", "warm", "unloaded"},
         result' = result \/ result' = "ok",
         UNCHANGED <<mtp_output_mode, seeded, pending, graph, call, session, reported>>
  PROVE  CudaInv'
<1>1. CudaTypeOK'
  BY DEF CudaInv, CudaTypeOK
<1>2. CancelledCallsLeaveNoBranch'
  BY DEF CudaInv, CancelledCallsLeaveNoBranch, Idle, Healthy, Branched, OneAhead
<1>3. CapturesFit(graph)' /\ (seeded => "verify" \in graph.captured)'
  BY DEF CudaInv, CapturesFit
<1>4. WhileEmpty' /\ WhileInPrompt' /\ WhileAtRest'
  BY DEF CudaInv, WhileEmpty, WhileInPrompt, WhileAtRest, Undecided, RoomForABlock, Idle
<1>5. WhileDrafting' /\ WhileReplaying' /\ WhilePending'
  BY DEF CudaInv, WhileDrafting, WhileReplaying, WhilePending, Idle
<1>6. (session.status = "lost" => Idle)'
  BY DEF CudaInv, Idle
<1> QED BY <1>1, <1>2, <1>3, <1>4, <1>5, <1>6 DEF CudaInv

\* A session that is given up.
LEMMA SessionEmptied ==
  ASSUME CudaTypeOK, Idle, UNCHANGED <<mtp_output_mode, call>>,
         model' \in {"new", "resident", "warm", "unloaded"}, result' \in {"ok", "error"},
         graph' \in Graph, Emptied(graph'), CapturesFit(graph'),
         pending' = << >>, seeded' = FALSE,
         session' = [status |-> "none", mtp |-> FALSE], reported' = Untouched
  PROVE  CudaInv'
<1>1. reported' \in [position : Count, pending : 0 .. Drafts, state : {"whole", "partial"},
                     promised : Count]
  BY PagedAssumption, GraphAssumption, ExecutorAssumption DEF Untouched, Count
<1>2. CudaTypeOK'
  BY <1>1 DEF CudaTypeOK
<1>3. (WhileEmpty /\ WhileInPrompt /\ WhileAtRest)'
  BY DEF WhileEmpty, WhileInPrompt, WhileAtRest, Undecided, Idle, Untouched
<1>4. (WhileDrafting /\ WhileReplaying /\ WhilePending)'
  BY DEF WhileDrafting, WhileReplaying, WhilePending, Idle
<1>5. CancelledCallsLeaveNoBranch'
  BY DEF CancelledCallsLeaveNoBranch
<1>6. CapturesFit(graph)'
  BY DEF CapturesFit
<1> QED BY <1>2, <1>3, <1>4, <1>5, <1>6 DEF CudaInv, Idle

-----------------------------------------------------------------------------
(* Every step keeps the invariant *)

\* A prompt that is begun.
LEMMA PrefillKeeps ==
  ASSUME CudaInv, Prefill
  PROVE  CudaInv'
<1>1. /\ CudaTypeOK /\ CapturesFit(graph) /\ (seeded => "verify" \in graph.captured)
      /\ pending = << >> /\ Emptied(graph) /\ reported.pending = 0
  BY NothingPending DEF CudaInv, WhileEmpty, Prefill
<1>2. graph \in Graph /\ session.mtp \in BOOLEAN /\ session.status = "none" /\ call \in Call
  BY <1>1 DEF CudaTypeOK, Prefill
<1>3. UNCHANGED <<model, mtp_output_mode>> /\ pending' = << >>
  BY <1>1 DEF Prefill
<1>4. CASE graph' \in ResetBroken(graph) /\ AnswerError("error") /\ UNCHANGED seeded
  <2>1. graph' \in Graph /\ SameCaptures(graph', graph)
    BY <1>2, <1>4, ResetEffect
  <2>2. CapturesFit(graph') /\ (seeded' => "verify" \in graph'.captured) /\ seeded' \in BOOLEAN
    BY <1>1, <1>4, <2>1 DEF CapturesFit, SameCaptures, CudaTypeOK
  <2> QED BY <1>3, <1>4, <2>1, <2>2, SessionLost
<1>5. CASE AnswerError("cancelled") /\ UNCHANGED <<graph, seeded>>
  <2>1. graph' \in Graph /\ Quiet(graph', session.mtp)
    BY <1>1, <1>2, <1>5, RestIsQuiet
  <2>2. CapturesFit(graph') /\ (seeded' => "verify" \in graph'.captured) /\ seeded' \in BOOLEAN
    BY <1>1, <1>5 DEF CapturesFit, CudaTypeOK
  <2> QED BY <1>3, <1>5, <2>1, <2>2, SessionLost
<1>6. ASSUME NEW n \in PromptLengths, NEW mtp \in BOOLEAN,
             graph' = Reset(graph), seeded' = FALSE,
             call' = [IdleCall EXCEPT !.at = "chunk", !.total = n],
             session' = [session EXCEPT !.mtp = mtp],
             UNCHANGED <<result, reported>>
      PROVE  CudaInv'
  <2>1. graph' \in Graph /\ Emptied(graph') /\ SameCaptures(graph', graph)
    BY <1>2, <1>6, ResetEmpties
  <2>2. n \in 1 .. MaximumTokens /\ MaximumTokens \in Nat
    BY ExecutorAssumption, PagedAssumption
  <2>3. call' \in Call /\ call'.at = "chunk" /\ call'.total = n
    <3>1. call' = [at |-> "chunk", total |-> n, accepted |-> 0, done |-> 0]
      BY <1>6 DEF IdleCall
    <3>2. n \in Count /\ 0 \in 0 .. MaximumDrafts /\ 0 \in 0 .. MaximumDrafts + 2
      BY <2>2, GraphAssumption DEF Count
    <3> QED BY <3>1, <3>2 DEF Call
  <2>4. /\ session' \in [status : {"none", "open", "lost"}, mtp : BOOLEAN]
        /\ session'.status = "none" /\ session'.mtp = mtp
    BY <1>1, <1>2, <1>6 DEF CudaTypeOK
  <2>5. CudaTypeOK'
    BY <1>1, <1>3, <1>6, <2>1, <2>3, <2>4 DEF CudaTypeOK
  <2>6. InPrompt(graph', mtp) /\ graph'.target_tokens < n
    BY <2>1, <2>2 DEF Emptied, InPrompt
  <2>7. WhileEmpty' /\ WhileInPrompt'
    BY <1>1, <1>6, <2>2, <2>3, <2>4, <2>6 DEF WhileEmpty, WhileInPrompt, Idle
  <2>8. (WhileAtRest /\ WhileDrafting /\ WhileReplaying /\ WhilePending)'
    BY <1>3, <2>3, <2>4
    DEF WhileAtRest, Undecided, WhileDrafting, WhileReplaying, WhilePending
  <2>9. CapturesFit(graph)' /\ (seeded => "verify" \in graph.captured)'
    BY <1>1, <1>6, <2>1 DEF CapturesFit, SameCaptures
  <2>10. CancelledCallsLeaveNoBranch'
    BY <2>3 DEF CancelledCallsLeaveNoBranch, Idle
  <2> QED BY <2>4, <2>5, <2>7, <2>8, <2>9, <2>10 DEF CudaInv
<1> QED BY <1>4, <1>5, <1>6 DEF Prefill

\* A chunk of a prompt.
LEMMA PrefillChunkKeeps ==
  ASSUME CudaInv, PrefillChunk
  PROVE  CudaInv'
<1> DEFINE n == Smaller(ChunkTokens, call.total - graph.target_tokens)
           admitted == PrefillAdmitted(graph, n, session.mtp)
           prefilled == Prefilled(graph, n, session.mtp)
<1>1. /\ CudaTypeOK /\ CapturesFit(graph) /\ (seeded => "verify" \in graph.captured)
      /\ session.status = "none" /\ InPrompt(graph, session.mtp)
      /\ call.total \in 1 .. MaximumTokens /\ graph.target_tokens < call.total
      /\ reported.pending = 0
  BY DEF CudaInv, PrefillChunk, WhileInPrompt, WhileEmpty
<1>2. pending = << >> /\ UNCHANGED <<model, mtp_output_mode, seeded>> /\ pending' = << >>
  <2>1. pending = << >>
    BY <1>1, NothingPending
  <2> QED BY <2>1 DEF PrefillChunk, ExecutorUnchanged
<1>3. graph \in Graph /\ session.mtp \in BOOLEAN /\ call \in Call /\ call.at = "chunk"
  BY <1>1 DEF CudaTypeOK, PrefillChunk
<1>4. n \in Nat \ {0} /\ graph.target_tokens + n <= call.total
      /\ graph.target_tokens + n <= MaximumTokens
  <2>1. graph.target_tokens \in Nat /\ MaximumTokens \in Nat /\ ChunkTokens \in Nat \ {0}
    BY <1>3, GraphNumbers, GraphAssumption
  <2> QED BY <1>1, <2>1 DEF Smaller
<1>5. /\ prefilled \in Graph /\ SameCaptures(prefilled, graph)
      /\ prefilled.target_tokens = graph.target_tokens + n
      /\ InPrompt(prefilled, session.mtp) /\ AtRest(prefilled, session.mtp, mtp_output_mode)
  <2> HIDE DEF n
  <2> QED BY <1>1, <1>3, <1>4, PrefilledGoesOn
<1>6. \/ /\ graph' = prefilled
         /\ IF graph'.target_tokens = call.total THEN AnswerOk ELSE Continue(call)
      \/ Fails(admitted, PrefillBroken(graph, n, session.mtp) \cup {prefilled})
  BY DEF PrefillChunk
<1>7. \A r \in PrefillBroken(graph, n, session.mtp) : r \in Graph /\ SameCaptures(r, graph)
  <2>1. graph.kv.target.tokens = graph.target_tokens /\ n \in Nat
    BY <1>1, <1>4 DEF InPrompt, Agrees
  <2> HIDE DEF n
  <2> QED BY <1>3, <1>4, <2>1, PrefillBrokenType
<1>8. admitted \in BOOLEAN
  BY <1>3, <1>1 DEF PrefillAdmitted
<1> HIDE DEF n, admitted, prefilled
<1>9. CASE graph' = prefilled /\ AnswerOk
  BY <1>1, <1>2, <1>5, <1>9, AnsweredAtRest
<1>10. CASE graph' = prefilled /\ graph'.target_tokens # call.total /\ Continue(call)
  <2>1. /\ call' = call /\ UNCHANGED <<result, session, reported>>
    BY <1>10 DEF Continue
  <2>2. graph'.target_tokens < call.total
    BY <1>3, <1>4, <1>5, <1>10, GraphNumbers, <1>1
  <2>3. CudaTypeOK'
    BY <1>1, <1>2, <1>5, <1>10, <2>1 DEF CudaTypeOK
  <2>4. WhileEmpty' /\ WhileInPrompt'
    BY <1>1, <1>3, <1>5, <1>10, <2>1, <2>2 DEF WhileEmpty, WhileInPrompt, Idle
  <2>5. (WhileAtRest /\ WhileDrafting /\ WhileReplaying /\ WhilePending)'
    BY <1>1, <1>2, <1>3, <2>1
    DEF WhileAtRest, Undecided, WhileDrafting, WhileReplaying, WhilePending
  <2>6. CapturesFit(graph)' /\ (seeded => "verify" \in graph.captured)'
    BY <1>1, <1>2, <1>5, <1>10 DEF CapturesFit, SameCaptures
  <2>7. CancelledCallsLeaveNoBranch'
    BY <1>3, <2>1 DEF CancelledCallsLeaveNoBranch, Idle
  <2> QED BY <1>1, <2>1, <2>3, <2>4, <2>5, <2>6, <2>7 DEF CudaInv
<1>11. CASE Fails(admitted, PrefillBroken(graph, n, session.mtp) \cup {prefilled})
  <2> DEFINE broken == PrefillBroken(graph, n, session.mtp) \cup {prefilled}
  <2>1. \A r \in broken : r \in Graph /\ SameCaptures(r, graph)
    BY <1>5, <1>7
  <2> HIDE DEF broken
  <2>2. Fails(admitted, broken)
    BY <1>11 DEF broken
  <2> QED BY <1>2, <1>8, <2>1, <2>2, CallFailed
<1> QED BY <1>6, <1>9, <1>10, <1>11

\* A prompt that is cancelled between two chunks.
LEMMA PrefillCancelledKeeps ==
  ASSUME CudaInv, PrefillCancelled
  PROVE  CudaInv'
<1>1. /\ CudaTypeOK /\ CapturesFit(graph) /\ (seeded => "verify" \in graph.captured)
      /\ pending = << >>
  <2>1. ~Idle
    BY DEF PrefillCancelled, Idle
  <2> QED BY <2>1, NothingPending DEF CudaInv
<1>2. graph \in Graph /\ session.mtp \in BOOLEAN
  BY <1>1 DEF CudaTypeOK
<1>3. UNCHANGED <<model, mtp_output_mode, seeded>> /\ pending' = << >>
  BY <1>1 DEF PrefillCancelled, ExecutorUnchanged
<1>4. \/ graph' = Reset(graph) /\ AnswerError("cancelled")
      \/ graph' \in ResetBroken(graph) /\ AnswerError("error")
  BY DEF PrefillCancelled
<1>5. ASSUME SameCaptures(graph', graph)
      PROVE  /\ CapturesFit(graph') /\ (seeded' => "verify" \in graph'.captured)
             /\ seeded' \in BOOLEAN
  BY <1>1, <1>3, <1>5 DEF CapturesFit, SameCaptures, CudaTypeOK
<1>6. CASE graph' = Reset(graph) /\ AnswerError("cancelled")
  <2>1. graph' \in Graph /\ Emptied(graph') /\ SameCaptures(graph', graph)
    BY <1>2, <1>6, ResetEmpties
  <2>2. Quiet(graph', session.mtp)
    BY <1>2, <2>1, RestIsQuiet
  <2> QED BY <1>3, <1>5, <1>6, <2>1, <2>2, SessionLost
<1>7. CASE graph' \in ResetBroken(graph) /\ AnswerError("error")
  <2>1. graph' \in Graph /\ SameCaptures(graph', graph)
    BY <1>2, <1>7, ResetEffect
  <2> QED BY <1>3, <1>5, <1>7, <2>1, SessionLost
<1> QED BY <1>4, <1>6, <1>7

\* A call of an open session that goes on.
LEMMA CallGoesOn ==
  ASSUME CudaInv, NEW step \in Call, Continue(step), step.at \notin {"idle", "chunk"},
         session.status = "open", UNCHANGED <<model, mtp_output_mode>>, seeded' \in BOOLEAN,
         pending' = << >>, graph' \in Graph, CapturesFit(graph'),
         seeded' => "verify" \in graph'.captured,
         WhileAtRest', WhileDrafting', WhileReplaying'
  PROVE  CudaInv'
<1>1. CudaTypeOK
  BY DEF CudaInv
<1>2. call' = step /\ UNCHANGED <<result, session, reported>>
  BY DEF Continue
<1>3. CudaTypeOK'
  BY <1>1, <1>2 DEF CudaTypeOK
<1>4. (WhileEmpty /\ WhileInPrompt /\ WhilePending /\ CancelledCallsLeaveNoBranch)'
  BY <1>2 DEF WhileEmpty, WhileInPrompt, WhilePending, CancelledCallsLeaveNoBranch, Idle
<1>5. CapturesFit(graph)' /\ (seeded => "verify" \in graph.captured)'
  BY DEF CapturesFit
<1> QED BY <1>2, <1>3, <1>4, <1>5 DEF CudaInv

\* How deep a decode drafts.
LEMMA DraftDepth ==
  ASSUME CudaTypeOK, HasRoom
  PROVE  /\ graph.target_tokens < MaximumTokens /\ DraftCount \in 0 .. Drafts
         /\ session.mtp => DraftCount > 0 /\ graph.target_tokens + 1 + DraftCount <= MaximumTokens
         /\ ~session.mtp => DraftCount = 0
         /\ TakesCapturedPath => RoomForABlock
<1>1. /\ graph.target_tokens \in Nat /\ MaximumTokens \in Nat /\ MaximumDrafts \in Nat
      /\ Drafts \in Nat /\ Drafts > 0 /\ Drafts <= MaximumDrafts /\ session.mtp \in BOOLEAN
  BY GraphNumbers, ExecutorAssumption DEF CudaTypeOK
<1>2. CASE session.mtp
  BY <1>1, <1>2 DEF DraftCount, Smaller, SaturatingSub, HasRoom, TakesCapturedPath, RoomForABlock
<1>3. CASE ~session.mtp
  BY <1>1, <1>3 DEF DraftCount, HasRoom, TakesCapturedPath
<1> QED BY <1>2, <1>3

\* A decode that starts.
LEMMA DecodeKeeps ==
  ASSUME CudaInv, Decode
  PROVE  CudaInv'
<1>1. /\ CudaTypeOK /\ CapturesFit(graph) /\ (seeded => "verify" \in graph.captured)
      /\ Undecided /\ Idle /\ session.status = "open" /\ pending = << >>
      /\ AtRest(graph, session.mtp, mtp_output_mode) /\ reported.pending = 0
  BY DEF CudaInv, Decode, CanDecode, Undecided, Idle, WhileAtRest
<1>2. /\ UNCHANGED <<model, mtp_output_mode, seeded, pending, graph>>
      /\ graph \in Graph /\ seeded \in BOOLEAN
  BY <1>1 DEF Decode, ExecutorUnchanged, CudaTypeOK
<1>3. /\ graph.target_tokens < MaximumTokens /\ DraftCount \in 0 .. Drafts
      /\ (session.mtp => DraftCount > 0 /\ graph.target_tokens + 1 + DraftCount <= MaximumTokens)
      /\ (~session.mtp => DraftCount = 0)
      /\ (TakesCapturedPath => RoomForABlock)
  BY <1>1, DraftDepth DEF Decode
<1>4. /\ MaximumDrafts \in Nat \ {0} /\ MaximumTokens \in Nat /\ Drafts \in 1 .. MaximumDrafts
  BY GraphAssumption, PagedAssumption, ExecutorAssumption
<1>5. CASE TakesCapturedPath
  <2> DEFINE place == IF seeded THEN "block" ELSE "seed"
             step == [at |-> place, total |-> 0, accepted |-> 0, done |-> 0]
  <2>1. Continue(step)
    BY <1>5 DEF Decode, IdleCall
  <2>2. place \in {"seed", "block"} /\ (place = "block" <=> seeded)
    BY <1>2
  <2>3. step \in Call /\ step.at = place /\ step.done = 0
    BY <1>4, <2>2 DEF Call, Count
  <2> HIDE DEF step, place
  <2>4. call' = step /\ UNCHANGED <<result, session, reported>>
    BY <2>1 DEF Continue
  <2>5. RoomForABlock'
    BY <1>2, <1>3, <1>5, <2>4 DEF RoomForABlock
  <2>6. WhileAtRest'
    BY <1>1, <1>2, <1>4, <2>2, <2>3, <2>4, <2>5 DEF WhileAtRest, Idle
  <2>7. WhileDrafting' /\ WhileReplaying'
    BY <2>2, <2>3, <2>4 DEF WhileDrafting, WhileReplaying
  <2> QED BY <1>1, <1>2, <2>1, <2>2, <2>3, <2>6, <2>7, CallGoesOn
<1>6. ASSUME NEW accepted \in 0 .. DraftCount,
             Continue([at |-> "first", total |-> DraftCount, accepted |-> accepted, done |-> 0])
      PROVE  CudaInv'
  <2> DEFINE step == [at |-> "first", total |-> DraftCount, accepted |-> accepted, done |-> 0]
  <2>1. DraftCount \in Nat /\ accepted \in 0 .. MaximumDrafts /\ DraftCount \in Count
    <3>1. DraftCount <= MaximumTokens
      <4>1. graph.target_tokens \in Nat
        BY <1>2, GraphNumbers
      <4>2. session.mtp \in BOOLEAN
        BY <1>1 DEF CudaTypeOK
      <4> QED BY <1>3, <1>4, <4>1, <4>2
    <3> QED BY <1>3, <1>4, <1>6, <3>1 DEF Count
  <2>2. /\ step \in Call /\ step.at = "first" /\ step.done = 0
        /\ step.total = DraftCount /\ step.accepted = accepted
    BY <1>4, <2>1 DEF Call
  <2>3. Continue(step)
    BY <1>6
  <2> HIDE DEF step
  <2>4. call' = step /\ UNCHANGED <<result, session, reported>>
    BY <2>3 DEF Continue
  <2>5. WhileAtRest'
    BY <1>1, <1>2, <1>3, <1>6, <2>2, <2>4 DEF WhileAtRest, Idle
  <2>6. WhileDrafting' /\ WhileReplaying'
    BY <2>2, <2>4 DEF WhileDrafting, WhileReplaying
  <2> QED BY <1>1, <1>2, <2>2, <2>3, <2>5, <2>6, CallGoesOn
<1> QED BY <1>5, <1>6 DEF Decode

\* A decode that is refused.
LEMMA DecodeRefusedKeeps ==
  ASSUME CudaInv, DecodeRefused
  PROVE  CudaInv'
<1>1. /\ CudaTypeOK /\ CapturesFit(graph) /\ (seeded => "verify" \in graph.captured)
      /\ pending = << >> /\ AtRest(graph, session.mtp, mtp_output_mode)
  BY DEF CudaInv, DecodeRefused, CanDecode, Undecided, Idle, WhileAtRest
<1>2. /\ UNCHANGED <<model, mtp_output_mode, seeded, graph>> /\ pending' = << >>
      /\ graph \in Graph /\ seeded \in BOOLEAN /\ session.mtp \in BOOLEAN
  BY <1>1 DEF DecodeRefused, ExecutorUnchanged, CudaTypeOK
<1>3. Quiet(graph, session.mtp)
  BY <1>1, <1>2, RestIsQuiet
<1>4. AnswerError("cancelled") \/ AnswerError("error")
  BY DEF DecodeRefused
<1> QED BY <1>1, <1>2, <1>3, <1>4, SessionLost

\* A capture before the first block of a session.
LEMMA SeedKeeps ==
  ASSUME CudaInv, Seed
  PROVE  CudaInv'
<1> DEFINE program == SeedOrder[call.done + 1]
           last == call.done + 1 = Len(SeedOrder)
<1>1. /\ CudaTypeOK /\ CapturesFit(graph) /\ call.at = "seed" /\ pending = << >>
      /\ ~Idle /\ session.status # "lost" /\ session.status # "none"
  BY NothingPending DEF CudaInv, Seed, Idle, WhileEmpty
<1>2. Undecided
  BY <1>1 DEF Undecided, CudaTypeOK
<1>3. /\ AtRest(graph, session.mtp, mtp_output_mode) /\ reported.pending = 0
      /\ RoomForABlock /\ ~seeded /\ call.done \in 0 .. 3
  BY <1>1, <1>2 DEF CudaInv, WhileAtRest
<1>4. /\ UNCHANGED <<model, mtp_output_mode>> /\ pending' = << >>
      /\ graph \in Graph /\ call \in Call /\ session.status = "open"
  BY <1>1, <1>2 DEF Seed, CudaTypeOK, Undecided
<1>5. /\ program \in Programs /\ (program = "verify" <=> call.done = 3)
      /\ (last <=> call.done = 3)
  BY <1>3 DEF SeedOrder, Programs
<1>6. /\ CaptureTarget(graph) \in Graph
      /\ AtRest(CaptureTarget(graph), session.mtp, mtp_output_mode)
      /\ CaptureTarget(graph).target_tokens = graph.target_tokens
      /\ CapturesFit(CaptureTarget(graph))
  BY <1>1, <1>3, <1>4, CapturesKeepRest
<1>7. ASSUME NEW p \in Programs \ {"verify"}
      PROVE  /\ CaptureMtp(graph, p) \in Graph
             /\ AtRest(CaptureMtp(graph, p), session.mtp, mtp_output_mode)
             /\ CaptureMtp(graph, p).target_tokens = graph.target_tokens
             /\ CapturesFit(CaptureMtp(graph, p))
  BY <1>1, <1>3, <1>4, CapturesKeepRest
<1>8. /\ CaptureVerify(graph) \in Graph
      /\ AtRest(CaptureVerify(graph), session.mtp, mtp_output_mode)
      /\ CaptureVerify(graph).target_tokens = graph.target_tokens
      /\ CapturesFit(CaptureVerify(graph)) /\ "verify" \in CaptureVerify(graph).captured
  <2>1. graph.target_tokens + MaximumDrafts + 1 <= MaximumTokens
    BY <1>3 DEF RoomForABlock
  <2> QED BY <1>1, <1>3, <1>4, <2>1, CapturesKeepRest
<1>9. ASSUME NEW r, r \in CaptureBroken(program)
      PROVE  r \in Graph /\ r.captured \subseteq graph.captured /\ r.verify_base = graph.verify_base
  <2>1. r \in CaptureTargetBroken(graph) \cup CaptureVerifyBroken(graph)
                \cup UNION {CaptureMtpBroken(graph, p) : p \in Programs}
    BY <1>5, <1>9 DEF CaptureBroken
  <2> QED BY <1>4, <2>1, CaptureBrokenType
<1> HIDE DEF program, last
<1>10. CASE NeedsCapture(program) /\ Fails(CaptureAdmitted(program), CaptureBroken(program))
            /\ UNCHANGED seeded
  <2>1. /\ AnswerError("error")
        /\ graph' \in CaptureBroken(program) \/ graph' = graph
    BY <1>10 DEF Fails
  <2>2. graph' \in Graph /\ graph'.captured \subseteq graph.captured
        /\ graph'.verify_base = graph.verify_base
    BY <1>4, <1>9, <2>1
  <2>3. CapturesFit(graph')
    BY <1>1, <2>2, FitsWithSameCaptures
  <2>4. seeded' \in BOOLEAN /\ ~seeded'
    BY <1>1, <1>3, <1>10 DEF CudaTypeOK
  <2> QED BY <1>4, <2>1, <2>2, <2>3, <2>4, SessionLost
<1>11. CASE /\ graph' = IF NeedsCapture(program) THEN CapturedWith(program) ELSE graph
            /\ seeded' = last
            /\ Continue(IF last THEN [IdleCall EXCEPT !.at = "block"]
                        ELSE [call EXCEPT !.done = @ + 1])
  <2>1. /\ graph' \in Graph /\ AtRest(graph', session.mtp, mtp_output_mode)
        /\ graph'.target_tokens = graph.target_tokens /\ CapturesFit(graph')
        /\ (program = "verify" => "verify" \in graph'.captured)
    <3>1. CASE ~NeedsCapture(program)
      BY <1>1, <1>3, <1>4, <1>11, <3>1 DEF NeedsCapture
    <3>2. CASE NeedsCapture(program) /\ program = "target"
      BY <1>6, <1>11, <3>2 DEF CapturedWith
    <3>3. CASE NeedsCapture(program) /\ program = "verify"
      BY <1>8, <1>11, <3>3 DEF CapturedWith
    <3>4. CASE NeedsCapture(program) /\ program \notin {"target", "verify"}
      <4>1. graph' = CaptureMtp(graph, program) /\ program \in Programs \ {"verify"}
        BY <1>5, <1>11, <3>4 DEF CapturedWith
      <4> QED BY <1>7, <3>4, <4>1
    <3> QED BY <3>1, <3>2, <3>3, <3>4
  <2>2. seeded' \in BOOLEAN /\ (seeded' => "verify" \in graph'.captured)
    BY <1>5, <1>11, <2>1 DEF last
  <2> DEFINE step == IF last THEN [IdleCall EXCEPT !.at = "block"] ELSE [call EXCEPT !.done = @ + 1]
  <2>3. /\ step \in Call
        /\ (last => step.at = "block")
        /\ (~last => step.at = "seed" /\ step.done \in 0 .. 3)
    <3>1. 0 \in Count /\ 0 \in 0 .. MaximumDrafts /\ 0 .. 3 \subseteq 0 .. MaximumDrafts + 2
          /\ 0 \in 0 .. MaximumDrafts + 2
      BY GraphAssumption, PagedAssumption DEF Count
    <3>2. CASE last
      <4>1. step = [at |-> "block", total |-> 0, accepted |-> 0, done |-> 0]
        BY <3>2 DEF IdleCall
      <4> QED BY <3>1, <3>2, <4>1 DEF Call
    <3>3. CASE ~last
      <4>1. call.done + 1 \in 0 .. 3
        BY <1>3, <1>5, <3>3
      <4>2. step = [call EXCEPT !.done = call.done + 1]
        BY <3>3
      <4> QED BY <1>1, <1>4, <3>1, <3>3, <4>1, <4>2 DEF Call
    <3> QED BY <3>2, <3>3
  <2>4. Continue(step)
    BY <1>11
  <2> HIDE DEF step
  <2>5. call' = step /\ UNCHANGED <<result, session, reported>>
    BY <2>4 DEF Continue
  <2>6. RoomForABlock'
    BY <1>3, <1>4, <2>1, <2>5 DEF RoomForABlock
  <2>7. WhileAtRest'
    BY <1>3, <1>4, <1>5, <1>11, <2>1, <2>2, <2>3, <2>5, <2>6 DEF WhileAtRest, Idle
  <2>8. WhileDrafting' /\ WhileReplaying'
    BY <2>3, <2>5 DEF WhileDrafting, WhileReplaying
  <2> QED BY <1>1, <1>4, <2>1, <2>2, <2>3, <2>4, <2>7, <2>8, CallGoesOn
<1> QED BY <1>10, <1>11 DEF Seed, program, last

\* What is known when a decode takes the captured path.
LEMMA AtABlock ==
  ASSUME CudaInv, call.at = "block"
  PROVE  /\ CudaTypeOK /\ CapturesFit(graph) /\ graph \in Graph
         /\ pending = << >> /\ session.status = "open" /\ session.mtp = TRUE
         /\ mtp_output_mode = "CompactGreedy" /\ reported.pending = 0
         /\ AtRest(graph, TRUE, "CompactGreedy") /\ "verify" \in graph.captured
         /\ graph.target_tokens + MaximumDrafts + 1 <= MaximumTokens
         /\ Drafts = MaximumDrafts
<1>1. /\ CudaTypeOK /\ CapturesFit(graph) /\ pending = << >>
      /\ session.status # "lost" /\ session.status # "none"
  BY NothingPending DEF CudaInv, Idle, WhileEmpty
<1>2. Undecided
  BY <1>1 DEF Undecided, CudaTypeOK
<1>3. /\ AtRest(graph, session.mtp, mtp_output_mode) /\ reported.pending = 0
      /\ RoomForABlock /\ "verify" \in graph.captured
  BY <1>2 DEF CudaInv, WhileAtRest
<1>4. session.mtp \in BOOLEAN /\ graph \in Graph
  BY <1>1 DEF CudaTypeOK
<1> QED BY <1>1, <1>2, <1>3, <1>4 DEF RoomForABlock, Undecided

\* A block that succeeds.
LEMMA CapturedBlockKeeps ==
  ASSUME CudaInv, CapturedBlock
  PROVE  CudaInv'
<1>1. /\ CapturesFit(graph) /\ graph \in Graph
      /\ pending = << >> /\ session.status = "open" /\ session.mtp = TRUE
      /\ mtp_output_mode = "CompactGreedy" /\ reported.pending = 0
      /\ AtRest(graph, TRUE, "CompactGreedy") /\ "verify" \in graph.captured
      /\ graph.target_tokens + MaximumDrafts + 1 <= MaximumTokens
      /\ Drafts = MaximumDrafts
  BY AtABlock DEF CapturedBlock
<1>2. PICK accepted \in 0 .. MaximumDrafts :
        /\ graph' = LaunchVerify(LaunchDrafts(Begun(graph), accepted), accepted)
        /\ pending' = <<[kind |-> "CapturedMtp4", drafts |-> MaximumDrafts,
                         accepted |-> accepted]>>
  BY DEF CapturedBlock
<1> DEFINE branch == [kind |-> "CapturedMtp4", drafts |-> MaximumDrafts, accepted |-> accepted]
<1>3. /\ graph' \in Graph /\ SameCaptures(graph', graph)
      /\ Base(graph') = graph.target_tokens
      /\ InBranch(graph', "CompactGreedy", graph.target_tokens + MaximumDrafts + 1,
                  accepted = MaximumDrafts)
  BY <1>1, <1>2, BlockInBranch
<1>4. /\ branch \in Pending /\ branch.accepted <= branch.drafts /\ Ahead(branch) = 1
      /\ branch.drafts = MaximumDrafts /\ branch.accepted = accepted
      /\ branch.kind = "CapturedMtp4"
  BY <1>1, GraphAssumption DEF Pending, Ahead
<1>5. AnswerOk /\ UNCHANGED <<model, mtp_output_mode, seeded>> /\ pending' = <<branch>>
  BY <1>2 DEF CapturedBlock
<1> HIDE DEF branch
<1>6. InBranch(graph', mtp_output_mode, Base(graph') + branch.drafts + Ahead(branch),
               branch.accepted = branch.drafts)
  BY <1>1, <1>3, <1>4
<1> QED BY <1>1, <1>3, <1>4, <1>5, <1>6, AnsweredPending

\* A block that fails is rolled back.
LEMMA CapturedBlockFailsKeeps ==
  ASSUME CudaInv, CapturedBlockFails
  PROVE  CudaInv'
<1>1. /\ CapturesFit(graph) /\ graph \in Graph /\ CudaTypeOK
      /\ pending = << >> /\ session.status = "open" /\ session.mtp = TRUE
      /\ AtRest(graph, TRUE, "CompactGreedy") /\ "verify" \in graph.captured
      /\ graph.target_tokens + MaximumDrafts + 1 <= MaximumTokens
  BY AtABlock DEF CapturedBlockFails
<1>2. UNCHANGED <<model, mtp_output_mode, seeded>> /\ pending' = << >>
  BY <1>1 DEF CapturedBlockFails, ExecutorUnchanged
<1>3. CASE Fails(BeginAdmitted(graph), BeginBroken(graph))
  <2>1. graph' = graph /\ AnswerError("error")
    BY <1>3 DEF Fails, BeginBroken
  <2>2. seeded' \in BOOLEAN /\ (seeded' => "verify" \in graph'.captured)
    BY <1>1, <1>2, <2>1 DEF CudaTypeOK
  <2>3. graph' \in Graph /\ CapturesFit(graph')
    BY <1>1, <2>1
  <2> QED BY <1>2, <2>1, <2>2, <2>3, SessionLost
<1>4. ASSUME NEW reached \in {Begun(graph), LaunchDrafts(Begun(graph), 0),
                              LaunchVerify(LaunchDrafts(Begun(graph), 0), 0)},
             RollBack(reached, "error")
      PROVE  CudaInv'
  <2>1. 0 \in 0 .. MaximumDrafts
    BY GraphAssumption
  <2>2. /\ Begun(graph) \in Graph /\ SameCaptures(Begun(graph), graph) /\ Undoable(Begun(graph))
    BY <1>1, BegunIsInBranch, BegunIsUndoable
  <2>3. reached \in Graph /\ SameCaptures(reached, graph) /\ Undoable(reached)
    BY <1>1, <1>4, <2>1, <2>2, BlockInBranch
  <2> QED BY <1>2, <1>4, <2>3, RolledBack
<1> QED BY <1>3, <1>4 DEF CapturedBlockFails

\* What is known when a decode feeds the token given.
LEMMA AtTheFirstToken ==
  ASSUME CudaInv, call.at = "first"
  PROVE  /\ CudaTypeOK /\ CapturesFit(graph) /\ graph \in Graph /\ call \in Call
         /\ pending = << >> /\ session.status = "open" /\ session.mtp \in BOOLEAN
         /\ reported.pending = 0 /\ AtRest(graph, session.mtp, mtp_output_mode)
         /\ graph.target_tokens < MaximumTokens /\ call.done = 0
         /\ call.total \in 0 .. Drafts /\ call.accepted \in 0 .. call.total
         /\ (session.mtp => /\ call.total > 0
                            /\ graph.target_tokens + 1 + call.total <= MaximumTokens)
<1>1. /\ CudaTypeOK /\ CapturesFit(graph) /\ pending = << >>
      /\ session.status # "lost" /\ session.status # "none"
  BY NothingPending DEF CudaInv, Idle, WhileEmpty
<1>2. Undecided
  BY <1>1 DEF Undecided, CudaTypeOK
<1>3. session.mtp \in BOOLEAN /\ graph \in Graph /\ call \in Call
  BY <1>1 DEF CudaTypeOK
<1> QED BY <1>1, <1>2, <1>3 DEF Undecided, CudaInv, WhileAtRest

\* The token given.
LEMMA FirstTokenKeeps ==
  ASSUME CudaInv, FirstToken
  PROVE  CudaInv'
<1> DEFINE row == graph.target_tokens
<1>1. /\ CudaTypeOK /\ CapturesFit(graph) /\ graph \in Graph /\ call \in Call
      /\ pending = << >> /\ session.status = "open" /\ session.mtp \in BOOLEAN
      /\ reported.pending = 0 /\ AtRest(graph, session.mtp, mtp_output_mode)
      /\ row < MaximumTokens /\ call.done = 0
      /\ call.total \in 0 .. Drafts /\ call.accepted \in 0 .. call.total
      /\ (session.mtp => call.total > 0 /\ row + 1 + call.total <= MaximumTokens)
      /\ call.at = "first"
  BY AtTheFirstToken DEF FirstToken
<1>2. /\ UNCHANGED <<model, mtp_output_mode, seeded>> /\ pending' = << >>
      /\ (seeded => "verify" \in graph.captured) /\ seeded \in BOOLEAN
  BY <1>1 DEF FirstToken, ExecutorUnchanged, CudaInv, CudaTypeOK
<1>3. CASE session.mtp = FALSE
  <2>1. graph' = TargetToken(graph, row) /\ AnswerOk
    BY <1>3 DEF FirstToken
  <2>2. /\ graph' \in Graph /\ SameCaptures(graph', graph)
        /\ AtRest(graph', session.mtp, mtp_output_mode)
    BY <1>1, <1>3, <2>1, FirstTokenWithoutMtp
  <2> QED BY <1>1, <1>2, <2>1, <2>2, AnsweredAtRest
<1>4. CASE session.mtp = TRUE
  <2> DEFINE computed == Pair(graph, row)
             step == [call EXCEPT !.at = "serial"]
  <2>1. graph' = Begun(computed) /\ Continue(step)
    BY <1>4, Zenon DEF FirstToken, Pair
  <2>2. /\ computed \in Graph /\ SameCaptures(computed, graph)
        /\ AtRest(computed, TRUE, mtp_output_mode) /\ computed.target_tokens = row + 1
    BY <1>1, <1>4, FirstTokenWithMtp
  <2> HIDE DEF computed
  <2>3. /\ graph' \in Graph /\ SameCaptures(graph', computed)
        /\ Base(graph') = row + 1 /\ InBranch(graph', mtp_output_mode, row + 1, TRUE)
    BY <2>1, <2>2, BegunIsInBranch
  <2>4. CapturesFit(graph') /\ (seeded' => "verify" \in graph'.captured)
    BY <1>1, <1>2, <2>2, <2>3 DEF CapturesFit, SameCaptures
  <2>5. /\ step \in Call /\ step.at = "serial" /\ step.done = 0
        /\ step.total = call.total /\ step.accepted = call.accepted
    BY <1>1 DEF Call
  <2> HIDE DEF step
  <2>6. call' = step /\ UNCHANGED <<result, session, reported>>
    BY <2>1 DEF Continue
  <2>7. WhileDrafting'
    <3>1. row \in Nat /\ MaximumTokens \in Nat /\ Drafts \in Nat
      BY <1>1, GraphNumbers, ExecutorAssumption, GraphAssumption
    <3>2. /\ call.total \in 1 .. Drafts /\ call.accepted \in 0 .. call.total
          /\ 0 \in 0 .. call.total - 1 /\ 0 <= call.accepted
          /\ Base(graph') + 0 = row + 1 /\ Base(graph') + call.total <= MaximumTokens
      BY <1>1, <1>4, <2>3, <3>1
    <3>3. InBranch(graph', mtp_output_mode, Base(graph') + 0, 0 <= call.accepted)
      BY <2>3, <3>2
    <3> QED BY <1>1, <1>2, <1>4, <2>5, <2>6, <3>2, <3>3 DEF WhileDrafting
  <2>8. WhileAtRest' /\ WhileReplaying'
    BY <2>5, <2>6 DEF WhileAtRest, Undecided, WhileReplaying
  <2> QED BY <1>1, <1>2, <2>1, <2>3, <2>4, <2>5, <2>7, <2>8, CallGoesOn
<1> QED BY <1>1, <1>3, <1>4

\* The token given, when a kernel fails.
LEMMA FirstTokenFailsKeeps ==
  ASSUME CudaInv, FirstTokenFails
  PROVE  CudaInv'
<1> DEFINE row == graph.target_tokens
           drafted == IF session.mtp THEN MtpToken(graph, row) ELSE graph
<1>1. /\ graph \in Graph /\ session.mtp \in BOOLEAN /\ pending = << >>
      /\ AtRest(graph, session.mtp, mtp_output_mode) /\ row < MaximumTokens
  BY AtTheFirstToken DEF FirstTokenFails
<1>2. UNCHANGED <<model, mtp_output_mode, seeded>> /\ pending' = << >>
  BY <1>1 DEF FirstTokenFails, ExecutorUnchanged
<1>3. ASSUME NEW r \in {drafted, TargetToken(drafted, row)} \cup TargetTokenBroken(drafted, row)
                         \cup (IF session.mtp THEN MtpTokenBroken(graph, row) ELSE {})
      PROVE  r \in Graph /\ SameCaptures(r, graph)
  BY <1>1, <1>3, FirstTokenBrokenType
<1>4. CASE session.mtp /\ Fails(MtpAdmitted(graph), MtpTokenBroken(graph, row))
  <2>1. \A r \in MtpTokenBroken(graph, row) : r \in Graph /\ SameCaptures(r, graph)
    BY <1>3, <1>4
  <2>2. MtpAdmitted(graph) \in BOOLEAN
    BY DEF MtpAdmitted, Healthy
  <2> QED BY <1>2, <1>4, <2>1, <2>2, CallFailed
<1>5. CASE Fails(TRUE, {drafted, TargetToken(drafted, row)} \cup TargetTokenBroken(drafted, row))
  <2> DEFINE broken == {drafted, TargetToken(drafted, row)} \cup TargetTokenBroken(drafted, row)
  <2>1. \A r \in broken : r \in Graph /\ SameCaptures(r, graph)
    BY <1>3
  <2>2. Fails(TRUE, broken)
    BY <1>5
  <2> HIDE DEF broken
  <2> QED BY <1>2, <2>1, <2>2, CallFailed
<1> QED BY <1>4, <1>5 DEF FirstTokenFails

\* What is known between two candidates of a decode.
LEMMA AtACandidate ==
  ASSUME CudaInv, call.at = "serial"
  PROVE  /\ CudaTypeOK /\ CapturesFit(graph) /\ graph \in Graph /\ call \in Call
         /\ (seeded => "verify" \in graph.captured) /\ seeded \in BOOLEAN
         /\ pending = << >> /\ session.status = "open" /\ session.mtp = TRUE
         /\ reported.pending = 0
         /\ call.total \in 1 .. Drafts /\ call.accepted \in 0 .. call.total
         /\ call.done \in 0 .. call.total - 1
         /\ Base(graph) \in Nat /\ Base(graph) + call.total <= MaximumTokens
         /\ graph.target_tokens = Base(graph) + call.done
         /\ InBranch(graph, mtp_output_mode, Base(graph) + call.done, call.done <= call.accepted)
<1>1. /\ CudaTypeOK /\ CapturesFit(graph) /\ (seeded => "verify" \in graph.captured)
      /\ pending = << >> /\ WhileDrafting
  BY NothingPending DEF CudaInv, Idle
<1>2. session.mtp \in BOOLEAN /\ graph \in Graph /\ call \in Call /\ seeded \in BOOLEAN
  BY <1>1 DEF CudaTypeOK
<1>3. InBranch(graph, mtp_output_mode, Base(graph) + call.done, call.done <= call.accepted)
  BY <1>1 DEF WhileDrafting
<1>4. Base(graph) \in Nat /\ graph.target_tokens = Base(graph) + call.done
  BY <1>3, PagedAssumption DEF InBranch
<1> QED BY <1>1, <1>2, <1>3, <1>4 DEF WhileDrafting

\* The row of the next candidate is the next token as long as it is accepted.
LEMMA RowOfACandidate ==
  ASSUME graph \in Graph
  PROVE  /\ CandidateRow \in {graph.target_tokens, Junk}
         /\ CandidateRow = graph.target_tokens <=> call.done < call.accepted
<1>1. Junk # graph.target_tokens
  BY GraphNumbers, JunkAssumption
<1> QED BY <1>1 DEF CandidateRow

\* A candidate.
LEMMA SerialCandidateKeeps ==
  ASSUME CudaInv, SerialCandidate
  PROVE  CudaInv'
<1> DEFINE base == Base(graph)
           tokens == base + call.done
           row == CandidateRow
           right == call.done <= call.accepted
<1>1. /\ CudaTypeOK /\ CapturesFit(graph) /\ graph \in Graph /\ call \in Call
      /\ (seeded => "verify" \in graph.captured) /\ seeded \in BOOLEAN
      /\ pending = << >> /\ session.status = "open" /\ session.mtp = TRUE
      /\ reported.pending = 0
      /\ call.total \in 1 .. Drafts /\ call.accepted \in 0 .. call.total
      /\ call.done \in 0 .. call.total - 1
      /\ base \in Nat /\ base + call.total <= MaximumTokens
      /\ graph.target_tokens = tokens
      /\ InBranch(graph, mtp_output_mode, tokens, right)
  BY AtACandidate DEF SerialCandidate
<1>2. /\ graph' = Pair(graph, row) /\ UNCHANGED <<model, mtp_output_mode, seeded>>
  BY DEF SerialCandidate
<1>3. row \in {graph.target_tokens, Junk} /\ (row = tokens <=> call.done < call.accepted)
  BY <1>1, RowOfACandidate
<1>4. /\ MaximumTokens \in Nat /\ MaximumDrafts \in Nat /\ Drafts \in Nat
      /\ Drafts <= MaximumDrafts /\ Drafts > 0
  BY GraphAssumption, PagedAssumption, ExecutorAssumption
<1>5. graph.target_tokens < MaximumTokens /\ right \in BOOLEAN
  BY <1>1, <1>4
<1> HIDE DEF row, tokens, base, right
<1>6. /\ graph' \in Graph /\ SameCaptures(graph', graph) /\ Base(graph') = base
      /\ InBranch(graph', mtp_output_mode, tokens + 1, right /\ row = tokens)
  BY <1>1, <1>2, <1>3, <1>5, PairInBranch DEF base
<1>7. tokens + 1 = base + (call.done + 1)
  BY <1>1, <1>4 DEF tokens
<1>8. (right /\ row = tokens) <=> call.done + 1 <= call.accepted
  BY <1>1, <1>3, <1>4 DEF right
<1>9. InBranch(graph', mtp_output_mode, base + (call.done + 1), call.done + 1 <= call.accepted)
  BY <1>6, <1>7, <1>8 DEF InBranch
<1>10. CapturesFit(graph') /\ (seeded' => "verify" \in graph'.captured)
  BY <1>1, <1>2, <1>6 DEF CapturesFit, SameCaptures
<1>11. CASE call.done + 1 < call.total
  <2> DEFINE step == [call EXCEPT !.done = call.done + 1]
  <2>1. Continue(step) /\ pending' = << >>
    BY <1>1, <1>11 DEF SerialCandidate
  <2>2. /\ step \in Call /\ step.at = "serial" /\ step.done = call.done + 1
        /\ step.total = call.total /\ step.accepted = call.accepted
    <3>1. call.done + 1 \in 0 .. MaximumDrafts + 2 /\ call.at = "serial"
      BY <1>1, <1>4, <1>11 DEF SerialCandidate
    <3> QED BY <1>1, <3>1 DEF Call
  <2> HIDE DEF step
  <2>3. call' = step /\ UNCHANGED <<result, session, reported>>
    BY <2>1 DEF Continue
  <2>4. call.done + 1 \in 0 .. call.total - 1
    BY <1>1, <1>4, <1>11
  <2>5. WhileDrafting'
    BY <1>1, <1>2, <1>6, <1>9, <2>2, <2>3, <2>4 DEF WhileDrafting
  <2>6. WhileAtRest' /\ WhileReplaying'
    BY <2>2, <2>3 DEF WhileAtRest, Undecided, WhileReplaying
  <2> QED BY <1>1, <1>2, <1>6, <1>10, <2>1, <2>2, <2>5, <2>6, CallGoesOn
<1>12. CASE ~(call.done + 1 < call.total)
  <2> DEFINE branch == [kind |-> "Serial", drafts |-> call.total, accepted |-> call.accepted]
  <2>1. pending' = <<branch>> /\ AnswerOk
    BY <1>12 DEF SerialCandidate
  <2>2. /\ branch \in Pending /\ branch.accepted <= branch.drafts /\ Ahead(branch) = 0
        /\ branch.drafts = call.total /\ branch.accepted = call.accepted
        /\ branch.kind = "Serial"
    BY <1>1, <1>4 DEF Pending, Ahead
  <2> HIDE DEF branch
  <2>3. /\ call.done + 1 = call.total
        /\ base + (call.done + 1) = base + branch.drafts + Ahead(branch)
        /\ (call.done + 1 <= call.accepted <=> branch.accepted = branch.drafts)
    BY SMTT(30), <1>1, <1>4, <1>12, <2>2
  <2>4. InBranch(graph', mtp_output_mode, Base(graph') + branch.drafts + Ahead(branch),
                 branch.accepted = branch.drafts)
    BY <1>6, <1>9, <2>3 DEF InBranch
  <2> QED BY <1>1, <1>2, <1>6, <2>1, <2>2, <2>4, AnsweredPending
<1> QED BY <1>11, <1>12

\* A candidate that fails.
LEMMA SerialCandidateFailsKeeps ==
  ASSUME CudaInv, SerialCandidateFails
  PROVE  CudaInv'
<1>1. /\ graph \in Graph /\ pending = << >>
      /\ call.total \in 1 .. Drafts /\ call.done \in 0 .. call.total - 1
      /\ Base(graph) \in Nat /\ Base(graph) + call.total <= MaximumTokens
      /\ graph.target_tokens = Base(graph) + call.done
      /\ InBranch(graph, mtp_output_mode, Base(graph) + call.done, call.done <= call.accepted)
  BY AtACandidate DEF SerialCandidateFails
<1>2. UNCHANGED <<model, mtp_output_mode, seeded>> /\ pending' = << >>
  BY <1>1 DEF SerialCandidateFails, ExecutorUnchanged
<1>3. CandidateRow \in {graph.target_tokens, Junk}
  BY <1>1, RowOfACandidate
<1>4. Drafts \in Nat /\ MaximumTokens \in Nat
  BY GraphAssumption, PagedAssumption, ExecutorAssumption
<1>5. /\ Agrees(graph) /\ graph.target_tokens > 0 /\ graph.target_tokens < MaximumTokens
      /\ graph.mtp_tokens = graph.target_tokens - 1
  <2>1. graph.target_tokens < MaximumTokens
    BY <1>1, <1>4
  <2>2. Agrees(graph) /\ Base(graph) \in 1 .. MaximumTokens /\ Base(graph) <= graph.target_tokens
        /\ graph.mtp_tokens = graph.target_tokens - 1
    BY <1>1 DEF InBranch
  <2>3. graph.target_tokens > 0
    BY <1>1, <1>4, <2>2
  <2> QED BY <2>1, <2>2, <2>3
<1>6. \A r \in PairBroken(graph, CandidateRow) : r \in Graph /\ SameCaptures(r, graph)
  BY <1>1, <1>3, <1>5, PairBrokenType
<1>7. PairAdmitted(graph) \in BOOLEAN
  BY DEF PairAdmitted, MtpAdmitted, Healthy
<1>8. Fails(PairAdmitted(graph), PairBroken(graph, CandidateRow))
  BY DEF SerialCandidateFails
<1> QED BY <1>2, <1>6, <1>7, <1>8, CallFailed

\* A decode that is cancelled between two candidates.
LEMMA SerialCancelledKeeps ==
  ASSUME CudaInv, SerialCancelled
  PROVE  CudaInv'
<1>1. /\ graph \in Graph /\ pending = << >> /\ session.mtp = TRUE
      /\ InBranch(graph, mtp_output_mode, Base(graph) + call.done, call.done <= call.accepted)
  BY AtACandidate DEF SerialCancelled
<1>2. UNCHANGED <<model, mtp_output_mode, seeded>> /\ pending' = << >>
  BY <1>1 DEF SerialCancelled, ExecutorUnchanged
<1>3. Undoable(graph) /\ AtRest(Restored(graph), TRUE, mtp_output_mode)
  BY <1>1, RestoredIsAtRest
<1>4. SameCaptures(graph, graph) /\ RollBack(graph, "cancelled")
  BY DEF SerialCancelled, SameCaptures
<1> QED BY <1>1, <1>2, <1>3, <1>4, RolledBack

\* What is known while a branch is pending.
LEMMA AtACommit ==
  ASSUME CudaInv, CanCommit
  PROVE  /\ CudaTypeOK /\ CapturesFit(graph) /\ graph \in Graph
         /\ (seeded => "verify" \in graph.captured) /\ seeded \in BOOLEAN
         /\ session.status = "open" /\ session.mtp = TRUE
         /\ pending[1] \in Pending /\ pending[1].accepted <= pending[1].drafts
         /\ Base(graph) \in Nat
         /\ graph.target_tokens = Base(graph) + pending[1].drafts + Ahead(pending[1])
         /\ InBranch(graph, mtp_output_mode, Base(graph) + pending[1].drafts + Ahead(pending[1]),
                     pending[1].accepted = pending[1].drafts)
         /\ reported.pending > 0
         /\ reported.promised = Base(graph) + pending[1].accepted + Ahead(pending[1])
         /\ (pending[1].kind = "CapturedMtp4" => pending[1].drafts = MaximumDrafts)
<1>1. /\ CudaTypeOK /\ CapturesFit(graph) /\ (seeded => "verify" \in graph.captured)
      /\ pending # << >> /\ WhilePending
  BY DEF CudaInv, CanCommit
<1>2. session.mtp \in BOOLEAN /\ graph \in Graph /\ seeded \in BOOLEAN
  BY <1>1 DEF CudaTypeOK
<1>3. pending[1] \in Pending
  BY <1>1 DEF CudaTypeOK
<1>4. InBranch(graph, mtp_output_mode, Base(graph) + pending[1].drafts + Ahead(pending[1]),
               pending[1].accepted = pending[1].drafts)
  BY <1>1 DEF WhilePending
<1>5. /\ Base(graph) \in Nat
      /\ graph.target_tokens = Base(graph) + pending[1].drafts + Ahead(pending[1])
  BY <1>4, PagedAssumption DEF InBranch
<1> QED BY <1>1, <1>2, <1>3, <1>4, <1>5 DEF WhilePending

\* A commit that is cancelled, or refused.
LEMMA CommitGivenUpKeeps ==
  ASSUME CudaInv, CommitCancelled \/ CommitRefused
  PROVE  CudaInv'
<1>1. CanCommit
  BY DEF CommitCancelled, CommitRefused
<1>2. /\ graph \in Graph /\ session.mtp = TRUE
      /\ InBranch(graph, mtp_output_mode, Base(graph) + pending[1].drafts + Ahead(pending[1]),
                  pending[1].accepted = pending[1].drafts)
  BY <1>1, AtACommit
<1>3. UNCHANGED <<model, mtp_output_mode, seeded>> /\ pending' = << >>
  BY DEF CommitCancelled, CommitRefused
<1>4. Undoable(graph) /\ AtRest(Restored(graph), TRUE, mtp_output_mode)
  BY <1>2, RestoredIsAtRest
<1>5. /\ SameCaptures(graph, graph)
      /\ RollBack(graph, "cancelled") \/ RollBack(graph, "error")
  BY DEF CommitCancelled, CommitRefused, SameCaptures
<1>6. CASE RollBack(graph, "cancelled")
  BY <1>2, <1>3, <1>4, <1>5, <1>6, RolledBack
<1>7. CASE RollBack(graph, "error")
  BY <1>2, <1>3, <1>4, <1>5, <1>7, RolledBack
<1> QED BY <1>5, <1>6, <1>7

\* A captured block is resolved.
LEMMA CommitCapturedKeeps ==
  ASSUME CudaInv, CommitCaptured
  PROVE  CudaInv'
<1> DEFINE k == pending[1].accepted
<1>1. CanCommit /\ pending[1].kind = "CapturedMtp4"
  BY DEF CommitCaptured
<1>2. /\ graph \in Graph /\ session.mtp = TRUE /\ session.status = "open"
      /\ pending[1] \in Pending /\ pending[1].drafts = MaximumDrafts
      /\ InBranch(graph, mtp_output_mode, Base(graph) + pending[1].drafts + Ahead(pending[1]),
                  pending[1].accepted = pending[1].drafts)
      /\ reported.promised = Base(graph) + k + Ahead(pending[1])
  BY <1>1, AtACommit
<1>3. k \in 0 .. MaximumDrafts
  BY <1>2, ExecutorAssumption, GraphAssumption DEF Pending
<1>4. Ahead(pending[1]) = 1
  BY <1>1 DEF Ahead
<1>5. UNCHANGED <<model, mtp_output_mode, seeded>> /\ pending' = << >>
  BY DEF CommitCaptured
<1>6. \/ graph' = Resolve(graph, k) /\ AnswerOk
      \/ Fails(ResolveAdmitted(graph, k), ResolveBroken(graph, k))
  BY DEF CommitCaptured
<1> HIDE DEF k
<1>7. InBranch(graph, mtp_output_mode, Base(graph) + MaximumDrafts + 1, k = MaximumDrafts)
  BY <1>2, <1>4 DEF k
<1>8. CASE graph' = Resolve(graph, k) /\ AnswerOk
  <2>1. /\ graph' \in Graph /\ SameCaptures(graph', graph)
        /\ AtRest(graph', TRUE, mtp_output_mode) /\ graph'.target_tokens = Base(graph) + k + 1
    BY <1>2, <1>3, <1>7, <1>8, ResolvedIsAtRest
  <2>2. reported.promised = graph'.target_tokens
    BY <1>2, <1>4, <2>1
  <2> QED BY <1>2, <1>5, <1>8, <2>1, <2>2, AnsweredAtRest
<1>9. CASE Fails(ResolveAdmitted(graph, k), ResolveBroken(graph, k))
  <2> DEFINE right == k = MaximumDrafts
  <2>1. InBranch(graph, mtp_output_mode, Base(graph) + MaximumDrafts + 1, right)
    BY <1>7
  <2> HIDE DEF right
  <2>2. \A r \in ResolveBroken(graph, k) : r \in Graph /\ SameCaptures(r, graph)
    BY <1>2, <1>3, <2>1, ResolveBrokenType
  <2>3. ResolveAdmitted(graph, k) \in BOOLEAN
    BY DEF ResolveAdmitted
  <2> QED BY <1>5, <1>9, <2>2, <2>3, CallFailed
<1> QED BY <1>6, <1>8, <1>9

\* A branch that is accepted whole.
LEMMA CommitWholeKeeps ==
  ASSUME CudaInv, CommitWhole
  PROVE  CudaInv'
<1>1. /\ CanCommit /\ pending[1].kind = "Serial"
      /\ pending[1].accepted = pending[1].drafts
  BY DEF CommitWhole
<1>2. /\ graph \in Graph /\ session.mtp = TRUE
      /\ InBranch(graph, mtp_output_mode, Base(graph) + pending[1].drafts + Ahead(pending[1]),
                  pending[1].accepted = pending[1].drafts)
      /\ reported.promised = Base(graph) + pending[1].accepted + Ahead(pending[1])
  BY <1>1, AtACommit
<1>3. UNCHANGED <<model, mtp_output_mode, seeded>> /\ pending' = << >>
  BY DEF CommitWhole
<1>4. CASE graph' = Committed(graph) /\ AnswerOk
  <2> DEFINE tokens == Base(graph) + pending[1].drafts + Ahead(pending[1])
  <2>1. InBranch(graph, mtp_output_mode, tokens, TRUE) /\ reported.promised = tokens
    BY <1>1, <1>2
  <2> HIDE DEF tokens
  <2>2. /\ graph' \in Graph /\ SameCaptures(graph', graph)
        /\ AtRest(graph', TRUE, mtp_output_mode) /\ graph'.target_tokens = tokens
    BY <1>2, <1>4, <2>1, CommittedIsAtRest
  <2> QED BY <1>2, <1>3, <1>4, <2>1, <2>2, AnsweredAtRest
<1>5. CASE Fails(CommitAdmitted(graph), CommitBroken(graph))
  <2>1. \A r \in CommitBroken(graph) : r \in Graph /\ SameCaptures(r, graph)
    BY <1>2, ResolutionBrokenType
  <2>2. CommitAdmitted(graph) \in BOOLEAN
    BY DEF CommitAdmitted
  <2> QED BY <1>3, <1>5, <2>1, <2>2, CallFailed
<1> QED BY <1>4, <1>5 DEF CommitWhole

\* A branch of which a prefix is accepted.
LEMMA CommitPrefixKeeps ==
  ASSUME CudaInv, CommitPrefix
  PROVE  CudaInv'
<1> DEFINE k == pending[1].accepted
           restored == Restored(graph)
           base == Base(graph)
<1>1. CanCommit /\ pending[1].kind = "Serial"
  BY DEF CommitPrefix
<1>2. /\ CapturesFit(graph) /\ graph \in Graph
      /\ (seeded => "verify" \in graph.captured) /\ seeded \in BOOLEAN
      /\ session.mtp = TRUE /\ session.status = "open" /\ CudaTypeOK
      /\ pending[1] \in Pending /\ k <= pending[1].drafts /\ base \in Nat
      /\ graph.target_tokens = base + pending[1].drafts + Ahead(pending[1])
      /\ InBranch(graph, mtp_output_mode, base + pending[1].drafts + Ahead(pending[1]),
                  k = pending[1].drafts)
      /\ reported.pending > 0 /\ reported.promised = base + k + Ahead(pending[1])
  BY <1>1, AtACommit
<1>3. Ahead(pending[1]) = 0
  BY <1>1 DEF Ahead
<1>4. /\ k \in Nat /\ k \in 0 .. MaximumDrafts /\ MaximumTokens \in Nat
      /\ base + k <= MaximumTokens /\ reported.promised = base + k
  <2>1. /\ Drafts \in Nat /\ Drafts <= MaximumDrafts /\ MaximumDrafts \in Nat
        /\ MaximumTokens \in Nat
    BY ExecutorAssumption, GraphAssumption, PagedAssumption
  <2>2. k \in 0 .. Drafts /\ pending[1].drafts \in 1 .. Drafts
    BY <1>2 DEF Pending
  <2>3. graph.target_tokens <= MaximumTokens
    BY <1>2, GraphNumbers
  <2> QED BY <1>2, <1>3, <2>1, <2>2, <2>3
<1>5. UNCHANGED <<model, mtp_output_mode, seeded>> /\ pending' = << >>
  BY DEF CommitPrefix
<1>6. \/ k = 0 /\ graph' = restored /\ AnswerOk
      \/ /\ k > 0 /\ graph' = Begun(restored)
         /\ Continue([IdleCall EXCEPT !.at = "replay", !.accepted = k])
      \/ Fails(RestoreAdmitted(graph), RestoreBroken(graph))
      \/ Fails(TRUE, BeginBroken(restored))
  BY DEF CommitPrefix
<1> HIDE DEF k
<1>7. /\ Undoable(graph) /\ restored \in Graph /\ SameCaptures(restored, graph)
      /\ AtRest(restored, TRUE, mtp_output_mode) /\ restored.target_tokens = base
  <2> DEFINE tokens == base + pending[1].drafts + Ahead(pending[1])
             right == k = pending[1].drafts
  <2>1. InBranch(graph, mtp_output_mode, tokens, right)
    BY <1>2
  <2> HIDE DEF tokens, right
  <2> QED BY <1>2, <2>1, RestoredIsAtRest
<1> HIDE DEF restored, base
<1>8. CASE k = 0 /\ graph' = restored /\ AnswerOk
  <2>1. reported.promised = graph'.target_tokens
    BY <1>2, <1>4, <1>7, <1>8
  <2> QED BY <1>2, <1>5, <1>7, <1>8, <2>1, AnsweredAtRest
<1>9. CASE /\ k > 0 /\ graph' = Begun(restored)
           /\ Continue([IdleCall EXCEPT !.at = "replay", !.accepted = k])
  <2> DEFINE step == [at |-> "replay", total |-> 0, accepted |-> k, done |-> 0]
  <2>1. Continue(step)
    <3>1. [IdleCall EXCEPT !.at = "replay", !.accepted = k] = step
      <4>1. [IdleCall EXCEPT !.at = "replay"]
              = [at |-> "replay", total |-> 0, accepted |-> 0, done |-> 0]
        BY DEF IdleCall
      <4>2. [[at |-> "replay", total |-> 0, accepted |-> 0, done |-> 0] EXCEPT !.accepted = k]
              = step
        OBVIOUS
      <4> QED BY <4>1, <4>2
    <3> QED BY <1>9, <3>1
  <2>2. step \in Call /\ step.at = "replay" /\ step.done = 0 /\ step.accepted = k
    <3>1. 0 \in Count /\ 0 \in 0 .. MaximumDrafts + 2
      BY GraphAssumption, PagedAssumption DEF Count
    <3> QED BY <1>4, <3>1 DEF Call
  <2> HIDE DEF step
  <2>3. call' = step /\ UNCHANGED <<result, session, reported>>
    BY <2>1 DEF Continue
  <2>4. /\ graph' \in Graph /\ SameCaptures(graph', restored) /\ Base(graph') = base
        /\ InBranch(graph', mtp_output_mode, base, TRUE)
    BY <1>7, <1>9, BegunIsInBranch
  <2>5. CapturesFit(graph') /\ (seeded' => "verify" \in graph'.captured)
    BY <1>2, <1>5, <1>7, <2>4 DEF CapturesFit, SameCaptures
  <2>6. Base(graph') + 0 = base /\ 0 \in 0 .. k
    BY <1>2, <1>4, <2>4
  <2>7. WhileReplaying'
    BY <1>2, <1>4, <1>5, <2>2, <2>3, <2>4, <2>6 DEF WhileReplaying
  <2>8. WhileAtRest' /\ WhileDrafting'
    BY <2>2, <2>3 DEF WhileAtRest, Undecided, WhileDrafting
  <2> QED BY <1>2, <1>5, <2>1, <2>2, <2>4, <2>5, <2>7, <2>8, CallGoesOn
<1>10. CASE Fails(RestoreAdmitted(graph), RestoreBroken(graph))
  <2>1. \A r \in RestoreBroken(graph) : r \in Graph /\ SameCaptures(r, graph)
    BY <1>2, <1>7, ResolutionBrokenType
  <2>2. RestoreAdmitted(graph) \in BOOLEAN
    BY DEF RestoreAdmitted, Branched
  <2> QED BY <1>5, <1>10, <2>1, <2>2, CallFailed
<1>11. CASE Fails(TRUE, BeginBroken(restored))
  <2>1. \A r \in BeginBroken(restored) : r \in Graph /\ SameCaptures(r, graph)
    BY <1>7 DEF BeginBroken
  <2> QED BY <1>5, <1>11, <2>1, CallFailed
<1> QED BY <1>6, <1>8, <1>9, <1>10, <1>11

\* What is known while accepted drafts are replayed.
LEMMA AtAReplay ==
  ASSUME CudaInv, call.at = "replay"
  PROVE  /\ CudaTypeOK /\ CapturesFit(graph) /\ graph \in Graph /\ call \in Call
         /\ (seeded => "verify" \in graph.captured) /\ seeded \in BOOLEAN
         /\ pending = << >> /\ session.status = "open" /\ session.mtp = TRUE
         /\ call.accepted \in Nat /\ call.done \in 0 .. call.accepted
         /\ Base(graph) \in Nat /\ Base(graph) + call.accepted <= MaximumTokens
         /\ graph.target_tokens = Base(graph) + call.done
         /\ InBranch(graph, mtp_output_mode, Base(graph) + call.done, TRUE)
         /\ reported.pending > 0 /\ reported.promised = Base(graph) + call.accepted
<1>1. /\ CudaTypeOK /\ CapturesFit(graph) /\ (seeded => "verify" \in graph.captured)
      /\ pending = << >> /\ WhileReplaying
  BY NothingPending DEF CudaInv, Idle
<1>2. session.mtp \in BOOLEAN /\ graph \in Graph /\ call \in Call /\ seeded \in BOOLEAN
  BY <1>1 DEF CudaTypeOK
<1>3. InBranch(graph, mtp_output_mode, Base(graph) + call.done, TRUE)
  BY <1>1 DEF WhileReplaying
<1>4. Base(graph) \in Nat /\ graph.target_tokens = Base(graph) + call.done
  BY <1>3, PagedAssumption DEF InBranch
<1>5. call.accepted \in Nat
  BY <1>2, GraphAssumption DEF Call
<1> QED BY <1>1, <1>2, <1>3, <1>4, <1>5 DEF WhileReplaying

\* An accepted draft is replayed.
LEMMA ReplayKeeps ==
  ASSUME CudaInv, Replay
  PROVE  CudaInv'
<1> DEFINE base == Base(graph)
           tokens == base + call.done
           row == CandidateRow
<1>1. /\ CapturesFit(graph) /\ graph \in Graph /\ call \in Call /\ CudaTypeOK
      /\ (seeded => "verify" \in graph.captured) /\ seeded \in BOOLEAN
      /\ pending = << >> /\ session.status = "open" /\ session.mtp = TRUE
      /\ call.accepted \in Nat /\ call.done \in 0 .. call.accepted
      /\ base \in Nat /\ base + call.accepted <= MaximumTokens
      /\ graph.target_tokens = tokens
      /\ InBranch(graph, mtp_output_mode, tokens, TRUE)
      /\ reported.pending > 0 /\ reported.promised = base + call.accepted
  BY AtAReplay DEF Replay
<1>2. /\ graph' = Pair(graph, row) /\ UNCHANGED <<model, mtp_output_mode, seeded>>
      /\ pending' = << >> /\ call.done < call.accepted
  BY <1>1 DEF Replay, ExecutorUnchanged
<1>3. row \in {graph.target_tokens, Junk} /\ row = tokens
  BY <1>1, <1>2, RowOfACandidate
<1>4. MaximumTokens \in Nat /\ MaximumDrafts \in Nat
  BY GraphAssumption, PagedAssumption
<1>5. graph.target_tokens < MaximumTokens
  BY <1>1, <1>2, <1>4
<1> HIDE DEF row, tokens, base
<1>6. /\ graph' \in Graph /\ SameCaptures(graph', graph) /\ Base(graph') = base
      /\ InBranch(graph', mtp_output_mode, tokens + 1, TRUE)
  <2>1. TRUE \in BOOLEAN /\ (TRUE /\ row = tokens)
    BY <1>3
  <2>2. /\ graph' \in Graph /\ SameCaptures(graph', graph) /\ Base(graph') = base
        /\ InBranch(graph', mtp_output_mode, tokens + 1, TRUE /\ row = tokens)
    BY <1>1, <1>2, <1>3, <1>5, PairInBranch DEF base
  <2> QED BY <2>1, <2>2 DEF InBranch
<1>7. tokens + 1 = base + (call.done + 1) /\ call.done + 1 \in 0 .. call.accepted
  BY <1>1, <1>2 DEF tokens
<1>8. CapturesFit(graph') /\ (seeded' => "verify" \in graph'.captured)
  BY <1>1, <1>2, <1>6 DEF CapturesFit, SameCaptures
<1> DEFINE step == [call EXCEPT !.done = call.done + 1]
<1>9. Continue(step)
  BY DEF Replay
<1>10. /\ step \in Call /\ step.at = "replay" /\ step.done = call.done + 1
       /\ step.accepted = call.accepted
  <2>1. call.done + 1 \in 0 .. MaximumDrafts + 2 /\ call.at = "replay"
    BY <1>1, <1>2, <1>4 DEF Replay, Call
  <2> QED BY <1>1, <2>1 DEF Call
<1> HIDE DEF step
<1>11. call' = step /\ UNCHANGED <<result, session, reported>>
  BY <1>9 DEF Continue
<1>12. WhileReplaying'
  BY <1>1, <1>2, <1>6, <1>7, <1>10, <1>11 DEF WhileReplaying
<1>13. WhileAtRest' /\ WhileDrafting'
  BY <1>10, <1>11 DEF WhileAtRest, Undecided, WhileDrafting
<1> QED BY <1>1, <1>2, <1>6, <1>8, <1>9, <1>10, <1>12, <1>13, CallGoesOn

\* A replay that is cancelled, or fails.
LEMMA ReplayStopsKeeps ==
  ASSUME CudaInv, ReplayStops
  PROVE  CudaInv'
<1>1. /\ graph \in Graph /\ pending = << >> /\ session.mtp = TRUE
      /\ call.accepted \in Nat /\ call.done \in 0 .. call.accepted
      /\ Base(graph) \in Nat /\ Base(graph) + call.accepted <= MaximumTokens
      /\ graph.target_tokens = Base(graph) + call.done
      /\ InBranch(graph, mtp_output_mode, Base(graph) + call.done, TRUE)
  BY AtAReplay DEF ReplayStops
<1>2. /\ UNCHANGED <<model, mtp_output_mode, seeded>> /\ pending' = << >>
      /\ call.done < call.accepted
  BY <1>1 DEF ReplayStops, ExecutorUnchanged
<1>3. Undoable(graph) /\ AtRest(Restored(graph), TRUE, mtp_output_mode)
  BY <1>1, RestoredIsAtRest
<1>4. CASE RollBack(graph, "cancelled")
  <2>1. SameCaptures(graph, graph)
    BY DEF SameCaptures
  <2> QED BY <1>1, <1>2, <1>3, <1>4, <2>1, RolledBack
<1>5. ASSUME NEW reached \in PairBroken(graph, CandidateRow), RollBack(reached, "error")
      PROVE  CudaInv'
  <2>1. CandidateRow \in {graph.target_tokens, Junk}
    BY <1>1, RowOfACandidate
  <2>2. graph.target_tokens < MaximumTokens
    BY <1>1, <1>2, PagedAssumption
  <2>3. /\ Agrees(graph) /\ Base(graph) \in 1 .. MaximumTokens
        /\ Base(graph) <= graph.target_tokens
        /\ graph.mtp_tokens = graph.target_tokens - 1
    BY <1>1 DEF InBranch
  <2>4. graph.target_tokens > 0
    BY <1>1, <2>3, PagedAssumption
  <2>5. reached \in Graph /\ SameCaptures(reached, graph) /\ Undoable(reached)
    BY <1>1, <1>3, <1>5, <2>1, <2>2, <2>3, <2>4, PairBrokenType
  <2> QED BY <1>2, <1>5, <2>5, RolledBack
<1> QED BY <1>4, <1>5 DEF ReplayStops

\* The replayed branch is committed.
LEMMA ReplayEndsKeeps ==
  ASSUME CudaInv, ReplayEnds
  PROVE  CudaInv'
<1>1. /\ graph \in Graph /\ pending = << >> /\ session.mtp = TRUE
      /\ InBranch(graph, mtp_output_mode, Base(graph) + call.done, TRUE)
      /\ reported.promised = Base(graph) + call.accepted
  BY AtAReplay DEF ReplayEnds
<1>2. /\ UNCHANGED <<model, mtp_output_mode, seeded>> /\ pending' = << >>
      /\ call.done = call.accepted
  BY <1>1 DEF ReplayEnds, ExecutorUnchanged
<1>3. CASE graph' = Committed(graph) /\ AnswerOk
  <2> DEFINE tokens == Base(graph) + call.done
  <2>1. InBranch(graph, mtp_output_mode, tokens, TRUE) /\ reported.promised = tokens
    BY <1>1, <1>2
  <2> HIDE DEF tokens
  <2>2. /\ graph' \in Graph /\ SameCaptures(graph', graph)
        /\ AtRest(graph', TRUE, mtp_output_mode) /\ graph'.target_tokens = tokens
    BY <1>1, <1>3, <2>1, CommittedIsAtRest
  <2> QED BY <1>1, <1>2, <1>3, <2>1, <2>2, AnsweredAtRest
<1>4. CASE Fails(CommitAdmitted(graph), CommitBroken(graph))
  <2>1. \A r \in CommitBroken(graph) : r \in Graph /\ SameCaptures(r, graph)
    BY <1>1, ResolutionBrokenType
  <2>2. CommitAdmitted(graph) \in BOOLEAN
    BY DEF CommitAdmitted
  <2> QED BY <1>2, <1>4, <2>1, <2>2, CallFailed
<1> QED BY <1>3, <1>4 DEF ReplayEnds

\* reset_session and unload.
LEMMA GivenUpKeeps ==
  ASSUME CudaInv, ResetSession \/ Unload
  PROVE  CudaInv'
<1>1. CudaTypeOK /\ CapturesFit(graph) /\ Idle /\ graph \in Graph
  BY DEF CudaInv, ResetSession, Unload, CudaTypeOK
<1>2. pending' = << >> /\ seeded' = FALSE /\ mtp_output_mode' = mtp_output_mode
  BY DEF ResetSession, Unload
<1>3. CASE ResetSession /\ graph' = Reset(graph) /\ result' = "ok"
           /\ session' = [status |-> "none", mtp |-> FALSE] /\ reported' = Untouched
           /\ UNCHANGED call
  <2>1. graph' \in Graph /\ Emptied(graph') /\ SameCaptures(graph', graph)
    BY <1>1, <1>3, ResetEmpties
  <2>2. CapturesFit(graph')
    BY <1>1, <2>1 DEF CapturesFit, SameCaptures
  <2>3. model' \in {"new", "resident", "warm", "unloaded"}
    BY <1>1, <1>3 DEF ResetSession, CudaTypeOK
  <2> QED BY <1>1, <1>2, <1>3, <2>1, <2>2, <2>3, SessionEmptied
<1>4. CASE ResetSession /\ graph' \in ResetBroken(graph) /\ AnswerError("error")
  <2>1. graph' \in Graph /\ SameCaptures(graph', graph)
    BY <1>1, <1>4, ResetEffect
  <2>2. CapturesFit(graph')
    BY <1>1, <2>1 DEF CapturesFit, SameCaptures
  <2>3. UNCHANGED <<model, mtp_output_mode>>
    BY <1>4 DEF ResetSession
  <2> QED BY <1>2, <1>4, <2>1, <2>2, <2>3, SessionLost
<1>5. CASE Unload
  <2>1. graph' = FreshGraph /\ graph' \in Graph
    BY <1>5, FreshTypes DEF Unload
  <2>2. Emptied(graph')
    BY <2>1 DEF Emptied, Agrees, NoBranch, Healthy, FreshGraph, EmptyOwner, EmptyBuffer, Layers
  <2>3. CapturesFit(graph')
    BY <2>1 DEF CapturesFit, FreshGraph
  <2>4. /\ model' \in {"new", "resident", "warm", "unloaded"} /\ result' \in {"ok", "error"}
        /\ session' = [status |-> "none", mtp |-> FALSE] /\ reported' = Untouched
        /\ UNCHANGED call
    BY <1>5 DEF Unload
  <2> QED BY <1>1, <1>2, <2>1, <2>2, <2>3, <2>4, SessionEmptied
<1> QED BY <1>3, <1>4, <1>5 DEF ResetSession

\* load and warmup.
LEMMA ModelMadeReady ==
  ASSUME CudaInv, Load \/ Warmup
  PROVE  CudaInv'
<1>1. /\ model' \in {"new", "resident", "warm", "unloaded"} /\ result' = "ok"
      /\ UNCHANGED <<mtp_output_mode, seeded, pending, graph, call, session, reported>>
  BY DEF Load, Warmup
<1> QED BY <1>1, SessionUntouched

\* A new executor.
LEMMA InvHoldsAtFirst ==
  CudaInit => CudaInv
<1> SUFFICES ASSUME CudaInit PROVE CudaInv
  OBVIOUS
<1>1. /\ graph = FreshGraph /\ graph \in Graph /\ call = IdleCall /\ call.at = "idle"
      /\ pending = << >> /\ seeded = FALSE /\ session.status = "none" /\ result = "none"
      /\ session = [status |-> "none", mtp |-> FALSE]
      /\ reported = Untouched /\ reported.pending = 0
      /\ model = "new" /\ mtp_output_mode \in OutputModes
  BY FreshTypes DEF CudaInit, IdleCall, Untouched
<1>2. Emptied(graph) /\ CapturesFit(graph)
  BY <1>1
  DEF Emptied, Agrees, NoBranch, Healthy, FreshGraph, EmptyOwner, EmptyBuffer, Layers, CapturesFit
<1>3. call \in Call
  BY <1>1, PagedAssumption, GraphAssumption DEF IdleCall, Call, Count
<1>4. reported \in [position : Count, pending : 0 .. Drafts, state : {"whole", "partial"},
                    promised : Count]
  BY <1>1, PagedAssumption, GraphAssumption, ExecutorAssumption DEF Untouched, Count
<1>5. CudaTypeOK
  BY <1>1, <1>3, <1>4 DEF CudaTypeOK
<1>6. WhileEmpty /\ WhileInPrompt /\ WhileAtRest
  BY <1>1, <1>2 DEF WhileEmpty, WhileInPrompt, WhileAtRest, Undecided, Idle
<1>7. WhileDrafting /\ WhileReplaying /\ WhilePending /\ CancelledCallsLeaveNoBranch
  BY <1>1 DEF WhileDrafting, WhileReplaying, WhilePending, CancelledCallsLeaveNoBranch
<1> QED BY <1>1, <1>2, <1>5, <1>6, <1>7 DEF CudaInv

(* The inductive invariant holds of every reachable state: after any        *)
(* sequence of calls, cancellations and driver failures the graph is in the *)
(* phase the executor takes it to be in.                                    *)
THEOREM InvAlwaysHolds ==
  CudaSpec => []CudaInv
<1>1. CudaInv /\ [CudaNext]_vars => CudaInv'
  <2> SUFFICES ASSUME CudaInv, [CudaNext]_vars PROVE CudaInv'
    OBVIOUS
  <2>1. CASE Load \/ Warmup
    BY <2>1, ModelMadeReady
  <2>2. CASE ResetSession \/ Unload
    BY <2>2, GivenUpKeeps
  <2>3. CASE Prefill
    BY <2>3, PrefillKeeps
  <2>4. CASE PrefillChunk
    BY <2>4, PrefillChunkKeeps
  <2>5. CASE PrefillCancelled
    BY <2>5, PrefillCancelledKeeps
  <2>6. CASE Decode
    BY <2>6, DecodeKeeps
  <2>7. CASE DecodeRefused
    BY <2>7, DecodeRefusedKeeps
  <2>8. CASE Seed
    BY <2>8, SeedKeeps
  <2>9. CASE CapturedBlock
    BY <2>9, CapturedBlockKeeps
  <2>10. CASE CapturedBlockFails
    BY <2>10, CapturedBlockFailsKeeps
  <2>11. CASE FirstToken
    BY <2>11, FirstTokenKeeps
  <2>12. CASE FirstTokenFails
    BY <2>12, FirstTokenFailsKeeps
  <2>13. CASE SerialCandidate
    BY <2>13, SerialCandidateKeeps
  <2>14. CASE SerialCandidateFails
    BY <2>14, SerialCandidateFailsKeeps
  <2>15. CASE SerialCancelled
    BY <2>15, SerialCancelledKeeps
  <2>16. CASE CommitCancelled \/ CommitRefused
    BY <2>16, CommitGivenUpKeeps
  <2>17. CASE CommitCaptured
    BY <2>17, CommitCapturedKeeps
  <2>18. CASE CommitWhole
    BY <2>18, CommitWholeKeeps
  <2>19. CASE CommitPrefix
    BY <2>19, CommitPrefixKeeps
  <2>20. CASE Replay
    BY <2>20, ReplayKeeps
  <2>21. CASE ReplayStops
    BY <2>21, ReplayStopsKeeps
  <2>22. CASE ReplayEnds
    BY <2>22, ReplayEndsKeeps
  <2>23. CASE UNCHANGED vars
    <3>1. /\ result' = result
          /\ UNCHANGED <<mtp_output_mode, seeded, pending, graph, call, session, reported>>
      BY <2>23 DEF vars
    <3>2. model' \in {"new", "resident", "warm", "unloaded"}
      BY <2>23 DEF vars, CudaInv, CudaTypeOK
    <3> QED BY <3>1, <3>2, SessionUntouched
  <2> QED
    BY <2>1, <2>2, <2>3, <2>4, <2>5, <2>6, <2>7, <2>8, <2>9, <2>10, <2>11, <2>12, <2>13,
       <2>14, <2>15, <2>16, <2>17, <2>18, <2>19, <2>20, <2>21, <2>22, <2>23
    DEF CudaNext
<1> QED BY <1>1, InvHoldsAtFirst, PTL DEF CudaSpec

\* The phases as the properties state them.
LEMMA InBranchHasABranch ==
  ASSUME NEW g \in Graph, NEW mode, NEW tokens, NEW right, InBranch(g, mode, tokens, right)
  PROVE  /\ Branched(g) /\ Healthy(g)
         /\ g.kv.target.checkpoint = <<g.speculative_base[1]>>
         /\ g.kv.mtp.checkpoint = <<g.speculative_base[2]>>
         /\ g.mixers.checkpoint = <<g.speculative_base[1]>>
         /\ g.hidden.checkpoint # << >>
         /\ Agrees(g) /\ g.mtp_tokens = g.target_tokens - 1
<1>1. g.speculative_base[1] = Base(g) /\ g.speculative_base[2] = Base(g) - 1
  BY DEF InBranch, Base
<1> QED BY <1>1 DEF InBranch, Branched, Agrees

(* A branch is over all owners or over none, from the same base, as long as *)
(* the graph is healthy and the session is not lost.                        *)
THEOREM BranchesAreWhole ==
  CudaSpec => []BranchIsAllOrNothing
<1>1. CudaInv => BranchIsAllOrNothing
  <2> SUFFICES ASSUME CudaInv, session.status # "lost"
               PROVE  IF Branched(graph)
                      THEN /\ graph.kv.target.checkpoint = <<graph.speculative_base[1]>>
                           /\ graph.kv.mtp.checkpoint = <<graph.speculative_base[2]>>
                           /\ graph.mixers.checkpoint = <<graph.speculative_base[1]>>
                           /\ graph.hidden.checkpoint # << >>
                      ELSE /\ \A l \in Layers : graph.kv[l].checkpoint = << >>
                           /\ graph.mixers.checkpoint = << >> /\ graph.hidden.checkpoint = << >>
    BY DEF BranchIsAllOrNothing
  <2>1. CudaTypeOK /\ graph \in Graph
    BY DEF CudaInv, CudaTypeOK
  <2>2. ASSUME NoBranch(graph)
        PROVE  /\ ~Branched(graph) /\ \A l \in Layers : graph.kv[l].checkpoint = << >>
               /\ graph.mixers.checkpoint = << >> /\ graph.hidden.checkpoint = << >>
    BY <2>2 DEF NoBranch, Branched, Layers
  <2>3. CASE session.status = "none" /\ Idle
    <3>1. NoBranch(graph)
      BY <2>3 DEF CudaInv, WhileEmpty, Emptied
    <3> QED BY <2>2, <3>1
  <2>4. CASE call.at = "chunk"
    <3>1. NoBranch(graph)
      BY <2>4 DEF CudaInv, WhileInPrompt, InPrompt
    <3> QED BY <2>2, <3>1
  <2>5. CASE Undecided
    <3>1. NoBranch(graph)
      BY <2>5 DEF CudaInv, WhileAtRest, AtRest
    <3> QED BY <2>2, <3>1
  <2>6. CASE call.at = "serial"
    <3>1. InBranch(graph, mtp_output_mode, Base(graph) + call.done, call.done <= call.accepted)
      BY <2>6 DEF CudaInv, WhileDrafting
    <3> QED BY <2>1, <3>1, InBranchHasABranch
  <2>7. CASE call.at = "replay"
    <3>1. InBranch(graph, mtp_output_mode, Base(graph) + call.done, TRUE)
      BY <2>7 DEF CudaInv, WhileReplaying
    <3> QED BY <2>1, <3>1, InBranchHasABranch
  <2>8. CASE pending # << >>
    <3>1. InBranch(graph, mtp_output_mode, Base(graph) + pending[1].drafts + Ahead(pending[1]),
                   pending[1].accepted = pending[1].drafts)
      BY <2>8 DEF CudaInv, WhilePending
    <3> QED BY <2>1, <3>1, InBranchHasABranch
  <2>9. \/ (session.status = "none" /\ Idle) \/ call.at = "chunk" \/ Undecided
        \/ call.at = "serial" \/ call.at = "replay" \/ pending # << >>
    <3>1. call.at \in {"idle", "chunk", "seed", "block", "first", "serial", "replay"}
          /\ session.status \in {"none", "open", "lost"}
      BY <2>1 DEF CudaTypeOK, Call
    <3>2. session.status = "none" => call.at \in {"idle", "chunk"}
      BY DEF CudaInv, WhileEmpty
    <3> QED BY <3>1, <3>2 DEF Undecided, Idle
  <2> QED BY <2>3, <2>4, <2>5, <2>6, <2>7, <2>8, <2>9
<1> QED BY <1>1, InvAlwaysHolds, PTL

(* A call that reports Cancelled has put the session back.                  *)
THEOREM CancelledCallsUndo ==
  CudaSpec => []CancelledCallsLeaveNoBranch
<1>1. CudaInv => CancelledCallsLeaveNoBranch
  BY DEF CudaInv
<1> QED BY <1>1, InvAlwaysHolds, PTL

(* Between two calls of a live session every owner of state agrees on how   *)
(* many tokens it holds, and it holds the tokens the answers promised.      *)
THEOREM OwnersAlwaysAgree ==
  CudaSpec => []OwnersAgree
<1>1. CudaInv => OwnersAgree
  <2> SUFFICES ASSUME CudaInv, InSession
               PROVE  /\ Healthy(graph)
                      /\ graph.mtp_tokens = IF session.mtp THEN graph.target_tokens - 1 ELSE 0
                      /\ Agrees(graph)
                      /\ Branched(graph) = (pending # << >>)
                      /\ pending = << >> =>
                           /\ graph.target_tokens = reported.promised
                           /\ AtRest(graph, session.mtp, mtp_output_mode)
    <3>1. ASSUME Agrees(graph)
          PROVE  \A l \in Layers :
                   LET tokens == IF l = "target" THEN graph.target_tokens ELSE graph.mtp_tokens
                   IN  /\ graph.kv[l].tokens = tokens /\ ~graph.kv[l].poisoned
                       /\ graph.position[l] = tokens
      BY <3>1 DEF Agrees, Layers
    <3>2. ASSUME AtRest(graph, session.mtp, mtp_output_mode)
          PROVE  /\ graph.mixers.state = graph.target_tokens
                 /\ session.mtp =>
                      /\ graph.hidden.state # Junk
                      /\ (graph.target_tokens - graph.hidden.state) % BlockTokens = 0
                      /\ mtp_output_mode = "FullVerifierLogits"
                           => graph.hidden.state = graph.target_tokens
      BY <3>2, JunkAssumption DEF AtRest, HiddenFits
    <3>3. CudaInv => CudaTypeOK
      BY DEF CudaInv
    <3> QED BY <3>1, <3>2, <3>3 DEF OwnersAgree
  <2>1. graph \in Graph /\ session.mtp \in BOOLEAN
    BY DEF CudaInv, CudaTypeOK
  <2>2. CASE pending = << >>
    <3>1. /\ AtRest(graph, session.mtp, mtp_output_mode)
          /\ reported.promised = graph.target_tokens
      BY <2>2 DEF CudaInv, WhileAtRest, Undecided, InSession, Idle
    <3>2. /\ Agrees(graph) /\ Healthy(graph) /\ ~Branched(graph)
          /\ graph.mtp_tokens = IF session.mtp THEN graph.target_tokens - 1 ELSE 0
      BY <3>1 DEF AtRest, Agrees, NoBranch, Branched
    <3> QED BY <2>2, <3>1, <3>2 DEF Branched
  <2>3. CASE pending # << >>
    <3>1. /\ InBranch(graph, mtp_output_mode, Base(graph) + pending[1].drafts + Ahead(pending[1]),
                      pending[1].accepted = pending[1].drafts)
          /\ session.mtp
      BY <2>3 DEF CudaInv, WhilePending
    <3>2. /\ Branched(graph) /\ Healthy(graph) /\ Agrees(graph)
          /\ graph.mtp_tokens = graph.target_tokens - 1
      BY <2>1, <3>1, InBranchHasABranch
    <3> QED BY <2>3, <3>1, <3>2 DEF Branched
  <2> QED BY <2>2, <2>3
<1> QED BY <1>1, InvAlwaysHolds, PTL

-----------------------------------------------------------------------------
(* What the rows of an owner hold *)

\* The rows of the first tokens read as their own, outside the damaged pages.
ReadsRight(owner, tokens, damaged) ==
  \A q \in 0 .. tokens - 1 : PageOf(q) \notin damaged => RowRead(owner, tokens, q) = q

\* An owner whose branch may still be undone; right as long as every row of
\* the branch is of the path.
Sound(owner, damaged, right) ==
  /\ owner.checkpoint # << >> =>
       /\ owner.checkpoint[1] <= owner.tokens
       /\ ReadsRight(owner, owner.checkpoint[1], damaged \cup WrittenOver(owner))
  /\ right => ReadsRight(owner, owner.tokens, damaged)

LayerSound(g, l, right) == l \notin g.tainted => Sound(g.kv[l], g.overwritten[l], right)

GraphSound(g, right) == LayerSound(g, "target", right) /\ LayerSound(g, "mtp", right)

\* A row is read from the arenas alone.
LEMMA SameArenasReadAlike ==
  ASSUME NEW o, NEW p, p.q4 = o.q4, p.q2 = o.q2
  PROVE  \A tokens, q : RowRead(p, tokens, q) = RowRead(o, tokens, q)
BY DEF RowRead

(* Rows appended at the end of a sound owner. On the path they read right,  *)
(* and off the path they spoil nothing but the pages whose slot they took.  *)
LEMMA AppendKeepsSound ==
  ASSUME NEW o \in Owner, NEW rows \in Rows, o.tokens + Len(rows) <= MaximumTokens,
         NEW damaged, NEW right \in BOOLEAN, NEW onward \in BOOLEAN,
         Sound(o, damaged, right),
         onward => right /\ \A i \in 1 .. Len(rows) : rows[i] = o.tokens + i - 1
  PROVE  Sound(Recorded(AppendRows(o, o.tokens, rows), Len(rows)), damaged, onward)
<1> DEFINE start == o.tokens
           end == start + Len(rows)
           appended == AppendRows(o, start, rows)
           after == Recorded(appended, Len(rows))
           base == o.checkpoint[1]
<1>1. /\ start \in Nat /\ Len(rows) \in Nat /\ end \in 0 .. MaximumTokens /\ rows \in Seq(Cell)
      /\ MaximumTokens \in Nat /\ PageTokens \in Nat \ {0}
  <2>1. start \in 0 .. MaximumTokens
    BY DEF Owner
  <2>2. Row \subseteq Cell
    BY PagedAssumption DEF Row, Cell
  <2> QED BY <2>1, <2>2, PagedAssumption DEF Rows
<1>2. /\ after.tokens = end /\ after.checkpoint = o.checkpoint
  <2>1. /\ after.tokens = o.tokens + Len(rows) /\ after.checkpoint = o.checkpoint
    BY <1>1, RecordedType
  <2> QED BY <2>1
<1>3. \A tokens, q : RowRead(after, tokens, q) = RowRead(appended, tokens, q)
  <2>1. appended \in Owner
    BY ONLY <1>1, AppendType, o \in Owner
  <2>2. after.q4 = appended.q4 /\ after.q2 = appended.q2
    BY <2>1 DEF Recorded, Owner
  <2> QED BY <2>2, SameArenasReadAlike
<1>4. WrittenOver(o) \subseteq WrittenOver(after)
  <2>1. ASSUME NEW p \in Pages
        PROVE  p * PageTokens \in Nat
    BY <2>1, <1>1, WholePages DEF Pages
  <2> QED BY <1>1, <1>2, <2>1 DEF WrittenOver
<1>5. ASSUME o.checkpoint # << >>
      PROVE  base \in 0 .. start /\ ReadsRight(after, base, damaged \cup WrittenOver(after))
  <2>1. base \in 0 .. start
    BY <1>1, <1>5 DEF Sound, Owner
  <2>2. SUFFICES ASSUME NEW i \in 0 .. base - 1,
                        PageOf(i) \notin damaged, PageOf(i) \notin WrittenOver(after)
                 PROVE  RowRead(appended, base, i) = i
    BY <1>3, <2>1 DEF ReadsRight
  <2>3. RowRead(o, base, i) = i
    BY <1>4, <1>5, <2>2 DEF Sound, ReadsRight
  <2>4. /\ i \in 0 .. MaximumTokens - 1 /\ PageOf(i) \in Pages
        /\ PageOf(i) * PageTokens < base
    <3>1. i \in 0 .. MaximumTokens - 1
      BY <1>1, <2>1
    <3>2. PageOf(i) \in Pages /\ PageOf(i) \in Nat /\ PageTokens * PageOf(i) <= i
      BY <3>1, PlaceOf
    <3>3. PageOf(i) * PageTokens = PageTokens * PageOf(i) /\ PageTokens * PageOf(i) \in Nat
      BY <3>2, <1>1
    <3> HIDE DEF base
    <3> QED BY <3>1, <3>2, <3>3, <2>1, <2>2, <1>1
  <2>5. ReadAtQ4(base, PageOf(i)) =>
           \A p \in Pages : base <= p * PageTokens /\ p * PageTokens < end
                              => Q4Slot(p) # Q4Slot(PageOf(i))
    BY <1>2, <1>5, <2>2, <2>4 DEF WrittenOver
  <2> QED BY <1>1, <2>1, <2>2, <2>3, <2>5, BaseRowIsRead
<1>6. ASSUME onward
      PROVE  ReadsRight(after, end, damaged)
  <2>1. SUFFICES ASSUME NEW i \in 0 .. end - 1, PageOf(i) \notin damaged
                 PROVE  RowRead(appended, end, i) = i
    BY <1>3 DEF ReadsRight
  <2>2. IF i < start THEN RowRead(o, start, i) = i ELSE rows[i - start + 1] = i
    <3>1. CASE i < start
      BY <1>1, <1>6, <2>1, <3>1 DEF Sound, ReadsRight
    <3>2. CASE ~(i < start)
      <4>1. i - start + 1 \in 1 .. Len(rows)
        BY <1>1, <2>1, <3>2
      <4> QED BY SMTT(30), <1>1, <1>6, <2>1, <3>2, <4>1
    <3> QED BY <3>1, <3>2
  <2> QED BY <1>1, <2>1, <2>2, AppendedRowIsRead
<1>7. o.checkpoint # << >> => after.checkpoint[1] <= after.tokens
  BY <1>1, <1>2, <1>5
<1> QED BY <1>2, <1>5, <1>6, <1>7 DEF Sound

(* The methods of an owner. A branch opened on a sound owner is sound; when *)
(* it is undone the owner is sound again, but for the pages it wrote over.  *)
LEMMA BranchKeepsSound ==
  ASSUME NEW o \in Owner, NEW damaged, NEW right \in BOOLEAN, Sound(o, damaged, right)
  PROVE  /\ right => Sound(OwnerBegun(o), damaged, TRUE)
         /\ right => Sound(OwnerCommitted(o), damaged, TRUE)
         /\ o.checkpoint # << >> =>
              Sound(OwnerRestored(o), damaged \cup WrittenOver(o), TRUE)
<1> USE OwnerCheckpoint
<1>1. o.tokens \in Nat
  BY PagedAssumption DEF Owner
<1>2. ASSUME right
      PROVE  Sound(OwnerBegun(o), damaged, TRUE)
  <2> DEFINE p == OwnerBegun(o)
  <2>1. p.tokens = o.tokens /\ p.checkpoint = <<o.tokens>> /\ p.q4 = o.q4 /\ p.q2 = o.q2
    OBVIOUS
  <2> HIDE DEF p
  <2>2. ReadsRight(p, o.tokens, damaged)
    BY <1>2, <2>1, SameArenasReadAlike DEF Sound, ReadsRight
  <2>3. p.checkpoint[1] = o.tokens
    BY <2>1
  <2> QED BY <1>1, <2>1, <2>2, <2>3 DEF Sound, ReadsRight, p
<1>3. ASSUME right
      PROVE  Sound(OwnerCommitted(o), damaged, TRUE)
  <2> DEFINE p == OwnerCommitted(o)
  <2>1. p.tokens = o.tokens /\ p.checkpoint = << >> /\ p.q4 = o.q4 /\ p.q2 = o.q2
    OBVIOUS
  <2> HIDE DEF p
  <2>2. ReadsRight(p, o.tokens, damaged)
    BY <1>3, <2>1, SameArenasReadAlike DEF Sound, ReadsRight
  <2> QED BY <2>1, <2>2 DEF Sound, p
<1>4. ASSUME o.checkpoint # << >>
      PROVE  Sound(OwnerRestored(o), damaged \cup WrittenOver(o), TRUE)
  <2> DEFINE p == OwnerRestored(o)
  <2>1. /\ p.tokens = o.checkpoint[1] /\ p.checkpoint = << >> /\ p.q4 = o.q4 /\ p.q2 = o.q2
    BY <1>4
  <2> HIDE DEF p
  <2>2. ReadsRight(p, o.checkpoint[1], damaged \cup WrittenOver(o))
    BY <1>4, <2>1, SameArenasReadAlike DEF Sound, ReadsRight
  <2> QED BY <2>1, <2>2 DEF Sound, p
<1> QED BY <1>2, <1>3, <1>4

(* One owner of a graph after an operation: as it was, or with rows.        *)
LEMMA LayerLeft ==
  ASSUME NEW g, NEW r, NEW l, NEW right \in BOOLEAN, LayerSound(g, l, right),
         r.kv[l] = g.kv[l], r.overwritten = g.overwritten, g.tainted \subseteq r.tainted
  PROVE  LayerSound(r, l, right)
BY DEF LayerSound

LEMMA LayerAppended ==
  ASSUME NEW g, NEW r, NEW l, g.kv[l] \in Owner,
         NEW right \in BOOLEAN, NEW onward \in BOOLEAN, LayerSound(g, l, right),
         NEW rows \in Rows, NEW n, n = Len(rows), g.kv[l].tokens + n <= MaximumTokens,
         NEW start, r.kv[l] = Recorded(AppendRows(g.kv[l], start, rows), n),
         r.overwritten = g.overwritten, g.tainted \subseteq r.tainted,
         l \notin r.tainted =>
           /\ start = g.kv[l].tokens
           /\ onward => right /\ \A i \in 1 .. Len(rows) : rows[i] = start + i - 1
  PROVE  LayerSound(r, l, onward)
<1> SUFFICES ASSUME l \notin r.tainted
             PROVE  Sound(r.kv[l], r.overwritten[l], onward)
  BY DEF LayerSound
<1>1. Sound(g.kv[l], g.overwritten[l], right)
  BY DEF LayerSound
<1>2. Sound(Recorded(AppendRows(g.kv[l], g.kv[l].tokens, rows), Len(rows)),
            g.overwritten[l], onward)
  <2> DEFINE o == g.kv[l]
             damaged == g.overwritten[l]
  <2>1. /\ o \in Owner /\ o.tokens + Len(rows) <= MaximumTokens /\ Sound(o, damaged, right)
        /\ onward => right /\ \A i \in 1 .. Len(rows) : rows[i] = o.tokens + i - 1
    BY <1>1
  <2> HIDE DEF o, damaged
  <2>2. Sound(Recorded(AppendRows(o, o.tokens, rows), Len(rows)), damaged, onward)
    BY <2>1, AppendKeepsSound
  <2> QED BY <2>2 DEF o, damaged
<1> QED BY <1>2

\* The same for an owner that is right so far.
LEMMA RightLayerAppended ==
  ASSUME NEW g, NEW r, NEW l, g.kv[l] \in Owner,
         NEW onward \in BOOLEAN, LayerSound(g, l, TRUE),
         NEW rows \in Rows, NEW n, n = Len(rows), g.kv[l].tokens + n <= MaximumTokens,
         NEW start, r.kv[l] = Recorded(AppendRows(g.kv[l], start, rows), n),
         r.overwritten = g.overwritten, g.tainted \subseteq r.tainted,
         l \notin r.tainted => start = g.kv[l].tokens,
         l \notin r.tainted /\ onward => \A i \in 1 .. Len(rows) : rows[i] = start + i - 1
  PROVE  LayerSound(r, l, onward)
<1> DEFINE right == TRUE
<1>1. /\ right \in BOOLEAN /\ LayerSound(g, l, right)
      /\ l \notin r.tainted =>
           /\ start = g.kv[l].tokens
           /\ onward => right /\ \A i \in 1 .. Len(rows) : rows[i] = start + i - 1
  OBVIOUS
<1> HIDE DEF right
<1> QED BY <1>1, LayerAppended

\* An operation that leaves the rows alone.
LEMMA RowsLeft ==
  ASSUME NEW g, NEW r, NEW right \in BOOLEAN, GraphSound(g, right),
         r.kv = g.kv, r.overwritten = g.overwritten, g.tainted \subseteq r.tainted
  PROVE  GraphSound(r, right)
BY LayerLeft DEF GraphSound

(* The branch of the graph is the branch of its owners.                     *)
LEMMA BranchOfTheGraph ==
  ASSUME NEW g \in Graph, NEW right \in BOOLEAN, GraphSound(g, right)
  PROVE  /\ right => GraphSound(Begun(g), TRUE)
         /\ right => GraphSound(Committed(g), TRUE)
         /\ Undoable(g) => GraphSound(Restored(g), TRUE)
<1>1. g.kv.target \in Owner /\ g.kv.mtp \in Owner
  BY GraphNumbers
<1>2. ASSUME right
      PROVE  GraphSound(Begun(g), TRUE)
  <2> DEFINE r == Begun(g)
  <2>1. /\ r.kv.target = OwnerBegun(g.kv.target) /\ r.kv.mtp = OwnerBegun(g.kv.mtp)
        /\ r.overwritten = g.overwritten /\ r.tainted = g.tainted
    BY BegunEffect DEF SameBut
  <2> HIDE DEF r
  <2> QED BY <1>1, <1>2, <2>1, BranchKeepsSound DEF GraphSound, LayerSound, r
<1>3. ASSUME right
      PROVE  GraphSound(Committed(g), TRUE)
  <2> DEFINE r == Committed(g)
  <2>1. /\ r.kv.target = OwnerCommitted(g.kv.target) /\ r.kv.mtp = OwnerCommitted(g.kv.mtp)
        /\ r.overwritten = g.overwritten /\ r.tainted = g.tainted
    BY CommittedEffect DEF SameBut
  <2> HIDE DEF r
  <2> QED BY <1>1, <1>3, <2>1, BranchKeepsSound DEF GraphSound, LayerSound, r
<1>4. ASSUME Undoable(g)
      PROVE  GraphSound(Restored(g), TRUE)
  <2> DEFINE owners == RestoredOwners(g)
             r == Restored(g)
  <2>1. /\ owners.kv.target = OwnerRestored(g.kv.target)
        /\ owners.kv.mtp = OwnerRestored(g.kv.mtp)
        /\ owners.overwritten.target = g.overwritten.target \cup WrittenOver(g.kv.target)
        /\ owners.overwritten.mtp = g.overwritten.mtp \cup WrittenOver(g.kv.mtp)
        /\ owners.tainted = g.tainted
    BY <1>4, RestoredOwnersEffect DEF SameBut
  <2>2. r.kv = owners.kv /\ r.overwritten = owners.overwritten /\ r.tainted = owners.tainted
    BY <1>4, RestoredEffect DEF SameBut
  <2>3. g.kv.target.checkpoint # << >> /\ g.kv.mtp.checkpoint # << >>
    BY <1>4 DEF Undoable
  <2> HIDE DEF r, owners
  <2>4. r.tainted = g.tainted
    BY <2>1, <2>2
  <2>5. ASSUME "target" \notin g.tainted
        PROVE  Sound(r.kv.target, r.overwritten.target, TRUE)
    <3>1. Sound(g.kv.target, g.overwritten.target, right)
      BY <2>5 DEF GraphSound, LayerSound
    <3>2. Sound(OwnerRestored(g.kv.target),
                g.overwritten.target \cup WrittenOver(g.kv.target), TRUE)
      BY <1>1, <2>3, <3>1, BranchKeepsSound
    <3> QED BY <2>1, <2>2, <3>2
  <2>6. ASSUME "mtp" \notin g.tainted
        PROVE  Sound(r.kv.mtp, r.overwritten.mtp, TRUE)
    <3>1. Sound(g.kv.mtp, g.overwritten.mtp, right)
      BY <2>6 DEF GraphSound, LayerSound
    <3>2. Sound(OwnerRestored(g.kv.mtp), g.overwritten.mtp \cup WrittenOver(g.kv.mtp), TRUE)
      BY <1>1, <2>3, <3>1, BranchKeepsSound
    <3> QED BY <2>1, <2>2, <3>2
  <2> QED BY <2>4, <2>5, <2>6 DEF GraphSound, LayerSound, r
<1> QED BY <1>2, <1>3, <1>4

(* A graph without tokens.                                                  *)
LEMMA EmptyIsSound ==
  /\ GraphSound(FreshGraph, TRUE)
  /\ \A g \in Graph : GraphSound(Reset(g), TRUE)
<1>1. Sound(EmptyOwner, {}, TRUE)
  BY DEF Sound, ReadsRight, EmptyOwner
<1>2. GraphSound(FreshGraph, TRUE)
  BY <1>1 DEF GraphSound, LayerSound, FreshGraph, Layers
<1>3. ASSUME NEW g \in Graph
      PROVE  GraphSound(Reset(g), TRUE)
  <2>1. /\ Reset(g).kv = FreshGraph.kv /\ Reset(g).overwritten = FreshGraph.overwritten
        /\ Reset(g).tainted = FreshGraph.tainted
    BY ResetEffect DEF SameBut
  <2> QED BY <1>2, <2>1, RowsLeft
<1> QED BY <1>2, <1>3

-----------------------------------------------------------------------------
(* What the calls of the graph do to the rows *)

\* A batch of one row.
LEMMA OneRow ==
  ASSUME NEW row \in Row
  PROVE  /\ <<row>> \in Rows /\ 1 = Len(<<row>>)
         /\ \A i \in 1 .. Len(<<row>>) : i = 1 /\ <<row>>[i] = row
BY RowTypes

(* A token through the MTP layer. Its row is right if the token is the next *)
(* and the retained hidden vector is that of the token before, and the      *)
(* layer is tainted if it is not.                                           *)
LEMMA MtpTokenSound ==
  ASSUME NEW g \in Graph, NEW row \in {g.target_tokens, Junk}, Agrees(g),
         g.target_tokens > 0, g.target_tokens < MaximumTokens,
         g.mtp_tokens = g.target_tokens - 1,
         NEW right \in BOOLEAN, NEW onward \in BOOLEAN, GraphSound(g, right),
         onward => right /\ row = g.target_tokens
  PROVE  LET r == MtpToken(g, row)
         IN  LayerSound(r, "target", right) /\ LayerSound(r, "mtp", onward)
<1> DEFINE r == MtpToken(g, row)
           fed == MtpRowOf(g, row)
           behind == g.mtp_tokens
<1>1. /\ behind \in Nat /\ g.kv.mtp.tokens = behind /\ g.kv.mtp \in Owner
      /\ behind < MaximumTokens /\ MaximumTokens \in Nat
      /\ g.target_tokens \in Nat
  BY GraphNumbers DEF Agrees
<1>2. row \in Row \ {0}
  BY <1>1, JunkAssumption DEF Row
<1>3. /\ r \in Graph /\ fed \in Row
      /\ r.kv.mtp = Recorded(AppendRows(g.kv.mtp, behind, <<fed>>), 1)
      /\ r.kv.target = g.kv.target
      /\ r.tainted = IF StaleHidden(g, row) THEN g.tainted \cup {"mtp"} ELSE g.tainted
      /\ r.overwritten = g.overwritten
  BY ZenonT(30), <1>1, <1>2, MtpStepEffect DEF MtpToken, SameBut
<1>4. ASSUME onward, ~StaleHidden(g, row)
      PROVE  fed = behind
  BY <1>1, <1>4, JunkAssumption DEF fed, MtpRowOf, MtpRow, StaleHidden
<1> HIDE DEF r, fed, behind
<1>5. g.tainted \subseteq r.tainted /\ ("mtp" \notin r.tainted => ~StaleHidden(g, row))
  BY <1>3
<1>6. LayerSound(r, "target", right)
  BY <1>3, <1>5, LayerLeft DEF GraphSound
<1>7. LayerSound(r, "mtp", onward)
  <2>1. <<fed>> \in Rows /\ 1 = Len(<<fed>>) /\ \A i \in 1 .. Len(<<fed>>) : i = 1 /\ <<fed>>[i] = fed
    BY <1>3, OneRow
  <2>2. "mtp" \notin r.tainted =>
          (onward => right /\ \A i \in 1 .. Len(<<fed>>) : <<fed>>[i] = behind + i - 1)
    BY <1>1, <1>4, <1>5, <2>1
  <2>3. LayerSound(g, "mtp", right) /\ g.kv.mtp.tokens + 1 <= MaximumTokens
    BY <1>1 DEF GraphSound
  <2>4. r.overwritten = g.overwritten /\ g.tainted \subseteq r.tainted
    BY <1>3, <1>5
  <2> QED BY ONLY ZenonT(30), <1>1, <1>3, <2>1, <2>2, <2>3, <2>4, LayerAppended, right \in BOOLEAN,
             onward \in BOOLEAN
<1> QED BY <1>6, <1>7 DEF r

\* A token through the target.
LEMMA TargetTokenSound ==
  ASSUME NEW g \in Graph, NEW row \in Row, Agrees(g), g.target_tokens < MaximumTokens,
         NEW right \in BOOLEAN, NEW onward \in BOOLEAN,
         LayerSound(g, "target", right), LayerSound(g, "mtp", onward),
         onward => right /\ row = g.target_tokens
  PROVE  GraphSound(TargetToken(g, row), onward)
<1> DEFINE r == TargetToken(g, row)
           start == g.target_tokens
<1>1. /\ start \in Nat /\ g.kv.target.tokens = start /\ g.kv.target \in Owner
      /\ start < MaximumTokens /\ MaximumTokens \in Nat
  BY GraphNumbers DEF Agrees
<1>2. /\ r.kv.target = Recorded(AppendRows(g.kv.target, start, <<row>>), 1)
      /\ r.kv.mtp = g.kv.mtp /\ r.overwritten = g.overwritten /\ r.tainted = g.tainted
  BY <1>1, TargetStepEffect DEF TargetToken, SameBut
<1> HIDE DEF r, start
<1>3. LayerSound(r, "mtp", onward)
  BY <1>2, LayerLeft
<1>4. LayerSound(r, "target", onward)
  <2>1. <<row>> \in Rows /\ 1 = Len(<<row>>) /\ \A i \in 1 .. Len(<<row>>) : i = 1 /\ <<row>>[i] = row
    BY OneRow
  <2>2. onward => right /\ \A i \in 1 .. Len(<<row>>) : <<row>>[i] = start + i - 1
    BY <1>1, <2>1 DEF start
  <2>3. g.kv.target.tokens + 1 <= MaximumTokens
    BY <1>1
  <2> QED BY <1>1, <1>2, <2>1, <2>2, <2>3, LayerAppended
<1> QED BY <1>3, <1>4 DEF GraphSound, r

\* A token through both, as the serial path and the replay take it.
LEMMA PairSound ==
  ASSUME NEW g \in Graph, NEW row \in {g.target_tokens, Junk}, Agrees(g),
         g.target_tokens > 0, g.target_tokens < MaximumTokens,
         g.mtp_tokens = g.target_tokens - 1,
         NEW right \in BOOLEAN, NEW onward \in BOOLEAN, GraphSound(g, right),
         onward => right /\ row = g.target_tokens
  PROVE  GraphSound(Pair(g, row), onward)
<1> DEFINE d == MtpToken(g, row)
<1>1. /\ g.target_tokens \in Nat /\ MaximumTokens \in Nat /\ g.mtp_tokens < MaximumTokens
      /\ row \in Row /\ row # 0
  BY GraphNumbers, RowTypes, JunkAssumption DEF Row
<1>2. LayerSound(d, "target", right) /\ LayerSound(d, "mtp", onward)
  BY <1>1, MtpTokenSound
<1>3. d \in Graph /\ Agrees(d) /\ d.target_tokens = g.target_tokens
  BY <1>1, MtpTokenAgrees
<1> HIDE DEF d
<1>4. GraphSound(TargetToken(d, row), onward)
  BY <1>1, <1>2, <1>3, TargetTokenSound
<1> QED BY <1>4 DEF Pair, d

\* MTP rows that start from the hidden vector of the token before.
LEMMA MtpRowsFollow ==
  ASSUME NEW first \in Nat \ {0}, NEW n \in Nat
  PROVE  \A i \in 1 .. n : MtpRows(first, first, n)[i] = (first - 1) + i - 1
<1> SUFFICES ASSUME NEW i \in 1 .. n
             PROVE  MtpRows(first, first, n)[i] = (first - 1) + i - 1
  OBVIOUS
<1>1. MtpRows(first, first, n)[i] = MtpRow(IF i = 1 THEN first ELSE first + i - 1, first + i - 1)
  BY DEF MtpRows
<1>2. (IF i = 1 THEN first ELSE first + i - 1) = first + i - 1
  OBVIOUS
<1> QED BY <1>1, <1>2 DEF MtpRow

(* A chunk of the prompt.                                                   *)
LEMMA PrefilledSound ==
  ASSUME NEW g \in Graph, NEW mtp \in BOOLEAN, NEW n \in Nat \ {0},
         InPrompt(g, mtp), g.target_tokens + n <= MaximumTokens, GraphSound(g, TRUE)
  PROVE  GraphSound(Prefilled(g, n, mtp), TRUE)
<1> DEFINE r == Prefilled(g, n, mtp)
           first == g.target_tokens
           chunk == ChunkRows(g, n)
<1>1. /\ first \in Nat /\ first + n <= MaximumTokens /\ MaximumTokens \in Nat
      /\ g.kv.target \in Owner /\ g.kv.mtp \in Owner
      /\ g.kv.target.tokens = first /\ g.kv.mtp.tokens = g.mtp_tokens /\ g.mtp_tokens \in Nat
      /\ LayerSound(g, "target", TRUE) /\ LayerSound(g, "mtp", TRUE)
  BY GraphNumbers DEF InPrompt, Agrees, GraphSound
<1>2. \A i \in 1 .. n : chunk[i] = first + i - 1
  BY DEF ChunkRows
<1>3. CASE mtp = FALSE
  <2>1. /\ chunk \in Rows /\ n = Len(chunk)
        /\ r.kv.target = Recorded(AppendRows(g.kv.target, first, chunk), n)
        /\ r.kv.mtp = g.kv.mtp
        /\ r.overwritten = g.overwritten /\ r.tainted = g.tainted
    BY ZenonT(30), <1>1, <1>3, PrefilledTargetEffect DEF SameBut
  <2> HIDE DEF r, first, chunk
  <2>2. LayerSound(r, "mtp", TRUE)
    BY <1>1, <2>1, LayerLeft
  <2>3. LayerSound(r, "target", TRUE)
    <3>1. g.kv.target.tokens + n <= MaximumTokens /\ g.tainted \subseteq r.tainted
          /\ \A i \in 1 .. Len(chunk) : chunk[i] = first + i - 1
      BY <1>1, <1>2, <2>1
    <3> QED BY ONLY <1>1, <2>1, <3>1, LayerAppended
  <2> QED BY <2>2, <2>3 DEF GraphSound, r
<1>4. CASE mtp = TRUE
  <2> DEFINE rows == MtpPrefillRows(g, n)
             behind == g.mtp_tokens
  <2>1. g.mtp_tokens = IF g.target_tokens = 0 THEN 0 ELSE g.target_tokens - 1
    BY <1>1, <1>4 DEF InPrompt
  <2>2. /\ chunk \in Rows /\ n = Len(chunk)
        /\ rows \in Rows /\ behind + Len(rows) = first + n - 1
        /\ r.kv.target = Recorded(AppendRows(g.kv.target, first, chunk), n)
        /\ r.kv.mtp = Recorded(AppendRows(g.kv.mtp, behind, rows), Len(rows))
        /\ r.overwritten = g.overwritten /\ r.tainted = g.tainted
    BY <1>1, <1>4, <2>1, PrefilledEffect DEF SameBut
  <2>3. \A i \in 1 .. Len(rows) : rows[i] = behind + i - 1
    <3>1. CASE first = 0
      <4>1. rows = MtpRows(1, 1, n - 1) /\ n - 1 \in Nat /\ behind = 0 /\ 1 \in Nat \ {0}
        BY <2>1, <3>1 DEF MtpPrefillRows
      <4>2. Len(rows) = n - 1
        BY <2>2, <3>1, <4>1
      <4> DEFINE one == 1
                 m == n - 1
      <4>3. rows = MtpRows(one, one, m) /\ one \in Nat \ {0} /\ m \in Nat
        BY <4>1
      <4> HIDE DEF rows, behind, one, m
      <4>4. \A i \in 1 .. m : MtpRows(one, one, m)[i] = (one - 1) + i - 1
        BY ONLY <4>3, MtpRowsFollow
      <4>5. \A i \in 1 .. m : rows[i] = i - 1
        BY <4>3, <4>4 DEF one
      <4> QED BY <4>1, <4>2, <4>5 DEF m
    <3>2. CASE first # 0
      <4>1. g.hidden.state = first
        BY <1>4 DEF InPrompt
      <4>2. /\ rows = MtpRows(first, first, n) /\ n \in Nat /\ behind = first - 1
            /\ first \in Nat \ {0}
        BY <1>1, <2>1, <3>2, <4>1 DEF MtpPrefillRows
      <4>3. Len(rows) = n
        BY <1>1, <2>2, <4>2
      <4> HIDE DEF rows, behind, first
      <4>4. \A i \in 1 .. n : MtpRows(first, first, n)[i] = (first - 1) + i - 1
        BY <4>2, MtpRowsFollow
      <4> QED BY <4>2, <4>3, <4>4
    <3> QED BY <3>1, <3>2
  <2>4. g.kv.mtp.tokens + Len(rows) <= MaximumTokens /\ Len(rows) \in Nat
        /\ g.kv.mtp.tokens = behind
    <3>1. Len(rows) \in Nat
      BY <2>2 DEF Rows
    <3> QED BY <1>1, <2>2, <3>1
  <2> HIDE DEF r, first, chunk, rows, behind
  <2>5. LayerSound(r, "target", TRUE)
    <3>1. g.kv.target.tokens + n <= MaximumTokens /\ g.tainted \subseteq r.tainted
          /\ \A i \in 1 .. Len(chunk) : chunk[i] = first + i - 1
      BY <1>1, <1>2, <2>2
    <3> QED BY ONLY ZenonT(30), <1>1, <2>2, <3>1, LayerAppended
  <2>6. LayerSound(r, "mtp", TRUE)
    <3>1. g.tainted \subseteq r.tainted /\ Len(rows) = Len(rows)
      BY <2>2
    <3> QED BY ONLY ZenonT(30), <1>1, <2>2, <2>3, <2>4, <3>1, LayerAppended
  <2> QED BY <2>5, <2>6 DEF GraphSound, r
<1> QED BY <1>3, <1>4

(* A captured block: the MTP layer is right if draft zero met the hidden    *)
(* vector of the last token, the target if the block begins where it was    *)
(* captured, and both as far as the drafts are accepted.                    *)
LEMMA BlockSound ==
  ASSUME NEW g \in Graph, NEW accepted \in 0 .. MaximumDrafts,
         AtRest(g, TRUE, "CompactGreedy"), g.target_tokens + MaximumDrafts + 1 <= MaximumTokens,
         "verify" \in g.captured, CapturesFit(g), GraphSound(g, TRUE)
  PROVE  GraphSound(LaunchVerify(LaunchDrafts(Begun(g), accepted), accepted),
                    accepted = MaximumDrafts)
<1> DEFINE tokens == g.target_tokens
           width == MaximumDrafts + 1
           begun == Begun(g)
           drafted == LaunchDrafts(begun, accepted)
           r == LaunchVerify(drafted, accepted)
           start == g.verify_base[1]
           fed == DraftRows(begun, accepted)
           rows == BlockRows(drafted, accepted)
           onward == accepted = MaximumDrafts
<1>1. /\ begun \in Graph /\ SameCaptures(begun, g)
      /\ InBranch(begun, "CompactGreedy", tokens, TRUE)
  BY BegunIsInBranch
<1>2. /\ tokens \in Nat /\ tokens > 0 /\ width \in Nat \ {0} /\ MaximumTokens \in Nat
      /\ tokens + width <= MaximumTokens /\ MaximumDrafts \in Nat /\ accepted \in Nat
      /\ onward \in BOOLEAN
  BY GraphNumbers DEF AtRest
<1>3. start \in Nat /\ start + MaximumDrafts + 1 <= MaximumTokens
  <2>1. g.verify_base # << >> /\ g.verify_base \in {<< >>} \cup {<<t>> : t \in Count}
    BY DEF CapturesFit, Graph
  <2> QED BY <1>2, <2>1 DEF CapturesFit, Count
<1>4. /\ begun.target_tokens = tokens /\ begun.mtp_tokens = tokens - 1
      /\ begun.position.mtp = tokens - 1 /\ begun.kv.mtp.tokens = tokens - 1
      /\ begun.position.target = tokens /\ begun.kv.target.tokens = tokens
      /\ begun.kv.mtp \in Owner /\ begun.kv.target \in Owner
  BY <1>1, GraphNumbers DEF InBranch, Agrees
<1>5. GraphSound(begun, TRUE)
  BY BranchOfTheGraph
<1> HIDE DEF begun
<1>6. /\ drafted \in Graph
      /\ fed \in Rows /\ Len(fed) = width
      /\ drafted.kv.mtp = Recorded(AppendRows(begun.kv.mtp, begun.position.mtp, fed), width)
      /\ drafted.kv.target = begun.kv.target
      /\ drafted.position.target = begun.position.target
      /\ drafted.tainted = IF StaleHidden(begun, begun.target_tokens)
                           THEN begun.tainted \cup {"mtp"} ELSE begun.tainted
      /\ SameBut(drafted, begun, {"kv", "position", "mtp_tokens", "tainted"})
  <2>1. /\ begun.target_tokens > 0
        /\ begun.position.mtp + MaximumDrafts + 1 <= MaximumTokens
        /\ begun.mtp_tokens + MaximumDrafts + 1 <= MaximumTokens
        /\ begun.kv.mtp.tokens + MaximumDrafts + 1 <= MaximumTokens
    BY <1>2, <1>4
  <2> QED BY <1>1, <1>2, <2>1, LaunchDraftsEffect, ZenonT(30)
<1>7. ASSUME onward, ~StaleHidden(begun, begun.target_tokens), NEW i \in 1 .. width
      PROVE  fed[i] = (tokens - 1) + i - 1
  <2>1. fed[i] = IF i = 1 THEN MtpRow(begun.hidden.state, tokens)
                 ELSE IF i - 1 <= accepted THEN tokens - 1 + i - 1 ELSE Junk
    BY <1>4 DEF DraftRows
  <2>2. begun.hidden.state = tokens
    BY <1>2, <1>4, <1>7, JunkAssumption DEF StaleHidden
  <2>3. MtpRow(begun.hidden.state, tokens) = tokens - 1
    BY <2>2 DEF MtpRow
  <2> HIDE DEF fed, tokens
  <2> QED BY <1>2, <1>7, <2>1, <2>3
<1> HIDE DEF fed, drafted
<1>8. /\ drafted.target_tokens = tokens /\ drafted.position.target = tokens
      /\ drafted.kv.target.tokens = tokens /\ drafted.kv.target \in Owner
      /\ drafted.verify_base[1] = start /\ drafted.overwritten = begun.overwritten
  BY <1>1, <1>4, <1>6 DEF SameBut, SameCaptures
<1>9. LayerSound(drafted, "target", TRUE) /\ LayerSound(drafted, "mtp", onward)
  <2> DEFINE at == begun.position.mtp
  <2> HIDE DEF tokens, start, width, onward
  <2>1. /\ begun.tainted \subseteq drafted.tainted
        /\ "mtp" \notin drafted.tainted => ~StaleHidden(begun, begun.target_tokens)
    BY <1>6
  <2>2. LayerSound(drafted, "target", TRUE)
    BY <1>5, <1>6, <1>8, <2>1, LayerLeft DEF GraphSound
  <2>3. LayerSound(drafted, "mtp", onward)
    <3>1. at = begun.kv.mtp.tokens
      BY <1>4
    <3>2. ("mtp" \notin drafted.tainted /\ onward) =>
            \A i \in 1 .. Len(fed) : fed[i] = at + i - 1
      BY <1>4, <1>6, <1>7, <2>1
    <3>3. LayerSound(begun, "mtp", TRUE) /\ width = Len(fed)
      BY <1>5, <1>6 DEF GraphSound
    <3>4. begun.kv.mtp.tokens + width <= MaximumTokens
      BY <1>2, <1>4
    <3>5. /\ begun.kv.mtp \in Owner /\ fed \in Rows /\ onward \in BOOLEAN
          /\ drafted.kv.mtp = Recorded(AppendRows(begun.kv.mtp, at, fed), width)
          /\ drafted.overwritten = begun.overwritten /\ begun.tainted \subseteq drafted.tainted
      BY <1>2, <1>4, <1>6, <1>8, <2>1
    <3> QED BY ONLY <3>1, <3>2, <3>3, <3>4, <3>5, RightLayerAppended
  <2> QED BY <2>2, <2>3
<1>10. /\ rows \in Rows /\ Len(rows) = width
       /\ r.kv.target = Recorded(AppendRows(drafted.kv.target, start, rows), width)
       /\ r.kv.mtp = drafted.kv.mtp
       /\ r.tainted = IF start # drafted.target_tokens THEN drafted.tainted \cup {"target"}
                      ELSE drafted.tainted
       /\ SameBut(r, drafted, {"kv", "mixers", "position", "target_tokens", "tainted"})
  <2>1. /\ start + MaximumDrafts + 1 <= MaximumTokens
        /\ drafted.target_tokens + MaximumDrafts + 1 <= MaximumTokens
        /\ drafted.position.target + MaximumDrafts + 1 <= MaximumTokens
        /\ drafted.kv.target.tokens + MaximumDrafts + 1 <= MaximumTokens
    BY <1>2, <1>3, <1>8
  <2>2. drafted.verify_base[1] = start /\ start \in Nat /\ drafted \in Graph /\ accepted \in Nat
    BY <1>2, <1>3, <1>6, <1>8
  <2> HIDE DEF start
  <2> QED BY <2>1, <2>2, LaunchVerifyEffect, ZenonT(30)
<1>11. onward => \A i \in 1 .. Len(rows) : rows[i] = tokens + i - 1
  <2>1. rows = [i \in 1 .. MaximumDrafts + 1 |->
                  IF i - 1 <= accepted THEN tokens + i - 1 ELSE Junk]
    BY <1>8 DEF BlockRows
  <2> QED BY <1>2, <1>10, <2>1
<1> HIDE DEF r, rows, start, tokens, width, onward
<1>12. /\ drafted.tainted \subseteq r.tainted /\ r.overwritten = drafted.overwritten
       /\ "target" \notin r.tainted => start = tokens
  BY <1>8, <1>10 DEF SameBut
<1>13. LayerSound(r, "mtp", onward)
  BY <1>2, <1>9, <1>10, <1>12, LayerLeft
<1>14. LayerSound(r, "target", onward)
  <2>1. /\ "target" \notin r.tainted => start = drafted.kv.target.tokens
        /\ ("target" \notin r.tainted /\ onward) =>
              \A i \in 1 .. Len(rows) : rows[i] = start + i - 1
    BY <1>8, <1>11, <1>12
  <2>2. width = Len(rows) /\ drafted.kv.target.tokens + width <= MaximumTokens
    BY <1>2, <1>8, <1>10
  <2>3. /\ drafted.kv.target \in Owner /\ LayerSound(drafted, "target", TRUE) /\ rows \in Rows
        /\ r.kv.target = Recorded(AppendRows(drafted.kv.target, start, rows), width)
        /\ r.overwritten = drafted.overwritten /\ drafted.tainted \subseteq r.tainted
        /\ onward \in BOOLEAN
    BY <1>2, <1>8, <1>9, <1>10, <1>12
  <2> QED BY ONLY <2>1, <2>2, <2>3, RightLayerAppended
<1> QED BY <1>13, <1>14 DEF GraphSound, r, drafted, begun, onward

(* A replay of the tokens from the base on.                                 *)
LEMMA ReplaySound ==
  ASSUME NEW g \in Graph, NEW mode, NEW n \in Nat,
         AtRest(g, TRUE, mode), g.target_tokens + n <= MaximumTokens, GraphSound(g, TRUE)
  PROVE  GraphSound(ReplayPairs(g, n), TRUE)
<1> DEFINE r == ReplayPairs(g, n)
           first == g.target_tokens
           behind == g.mtp_tokens
           rows == PathRows(first, n)
           fed == MtpRows(g.hidden.state, first, n)
<1>1. /\ first \in Nat \ {0} /\ behind = first - 1 /\ behind \in Nat
      /\ first + n <= MaximumTokens /\ MaximumTokens \in Nat
      /\ g.kv.target \in Owner /\ g.kv.mtp \in Owner
      /\ g.kv.target.tokens = first /\ g.kv.mtp.tokens = behind
      /\ g.position.target = first /\ g.position.mtp = behind
      /\ LayerSound(g, "target", TRUE) /\ LayerSound(g, "mtp", TRUE)
  <2>1. LayerSound(g, "target", TRUE) /\ LayerSound(g, "mtp", TRUE)
    BY DEF GraphSound
  <2>2. Agrees(g) /\ g.target_tokens > 0 /\ g.mtp_tokens = g.target_tokens - 1
    BY DEF AtRest
  <2>3. /\ first \in Nat /\ first <= MaximumTokens /\ behind \in Nat /\ MaximumTokens \in Nat
        /\ g.kv.target \in Owner /\ g.kv.mtp \in Owner
    BY GraphNumbers
  <2>4. g.kv.target.tokens = first /\ g.kv.mtp.tokens = behind
        /\ g.position.target = first /\ g.position.mtp = behind
    BY <2>2 DEF Agrees
  <2>5. first > 0 /\ behind = first - 1 /\ first + n <= MaximumTokens
    BY <2>2
  <2> HIDE DEF first, behind
  <2>6. first \in Nat \ {0}
    BY <2>3, <2>5
  <2> QED BY <2>1, <2>3, <2>4, <2>5, <2>6, Zenon
<1>2. /\ r.kv.target = Recorded(AppendRows(g.kv.target, first, rows), n)
      /\ r.kv.mtp = Recorded(AppendRows(g.kv.mtp, behind, fed), n)
      /\ r.tainted = IF n > 0 /\ StaleHidden(g, first) THEN g.tainted \cup {"mtp"} ELSE g.tainted
      /\ r.overwritten = g.overwritten
  <2>1. /\ g.target_tokens > 0 /\ g.target_tokens + n <= MaximumTokens
        /\ g.mtp_tokens + n <= MaximumTokens
        /\ g.position.target = g.target_tokens /\ g.position.mtp = g.mtp_tokens
        /\ g.kv.target.tokens = g.target_tokens /\ g.kv.mtp.tokens = g.mtp_tokens
    BY <1>1
  <2> QED BY <2>1, ReplayPairsEffect, ZenonT(30) DEF SameBut
<1>3. /\ rows \in Rows /\ n = Len(rows) /\ fed \in Rows /\ n = Len(fed)
      /\ \A i \in 1 .. Len(rows) : rows[i] = first + i - 1
  <2>1. first \in Nat \ {0} /\ first + n <= MaximumTokens + 1
    BY <1>1
  <2>2. rows \in Rows /\ Len(rows) = n /\ fed \in Rows /\ Len(fed) = n
    BY <1>1, <2>1, PathRowsType, MtpRowsType
  <2> QED BY <2>2 DEF PathRows
<1>4. ASSUME ~StaleHidden(g, first)
      PROVE  \A i \in 1 .. n : fed[i] = behind + i - 1
  <2>1. g.hidden.state = first
    BY <1>1, <1>4, JunkAssumption DEF StaleHidden
  <2>2. fed = MtpRows(first, first, n)
    BY <2>1
  <2> HIDE DEF first, fed, behind
  <2>3. \A i \in 1 .. n : MtpRows(first, first, n)[i] = (first - 1) + i - 1
    BY <1>1, MtpRowsFollow
  <2> QED BY <1>1, <2>2, <2>3
<1> HIDE DEF r, first, behind, rows, fed
<1>5. /\ g.tainted \subseteq r.tainted
      /\ "mtp" \notin r.tainted => n = 0 \/ ~StaleHidden(g, first)
  BY <1>2
<1>6. LayerSound(r, "target", TRUE)
  <2>1. g.kv.target.tokens + n <= MaximumTokens /\ TRUE \in BOOLEAN
    BY <1>1
  <2> QED BY ONLY <1>1, <1>2, <1>3, <1>5, <2>1, LayerAppended
<1>7. LayerSound(r, "mtp", TRUE)
  <2>1. ("mtp" \notin r.tainted /\ TRUE) => \A i \in 1 .. Len(fed) : fed[i] = behind + i - 1
    BY <1>1, <1>3, <1>4, <1>5
  <2>2. g.kv.mtp.tokens + n <= MaximumTokens /\ TRUE \in BOOLEAN
    BY <1>1
  <2>3. /\ g.kv.mtp \in Owner /\ LayerSound(g, "mtp", TRUE) /\ fed \in Rows /\ n = Len(fed)
        /\ r.kv.mtp = Recorded(AppendRows(g.kv.mtp, behind, fed), n)
        /\ r.overwritten = g.overwritten /\ g.tainted \subseteq r.tainted
        /\ "mtp" \notin r.tainted => behind = g.kv.mtp.tokens
    BY <1>1, <1>2, <1>3, <1>5
  <2> QED BY ONLY <2>1, <2>2, <2>3, RightLayerAppended
<1> QED BY <1>6, <1>7 DEF GraphSound, r

(* A captured block that is resolved.                                       *)
LEMMA ResolvedSound ==
  ASSUME NEW g \in Graph, NEW mode, NEW accepted \in 0 .. MaximumDrafts,
         NEW right \in BOOLEAN, right = (accepted = MaximumDrafts), GraphSound(g, right),
         InBranch(g, mode, Base(g) + MaximumDrafts + 1, right)
  PROVE  GraphSound(Resolve(g, accepted), TRUE)
<1>1. /\ Base(g) \in Nat /\ MaximumDrafts \in Nat /\ MaximumTokens \in Nat
      /\ accepted \in Nat /\ accepted <= MaximumDrafts
      /\ Base(g) + MaximumDrafts + 1 <= MaximumTokens
  BY GraphNumbers DEF InBranch
<1>2. CASE accepted = MaximumDrafts
  BY <1>2, BranchOfTheGraph DEF Resolve
<1>3. CASE accepted # MaximumDrafts
  <2> DEFINE back == Restored(g)
             whole == Base(g) + MaximumDrafts + 1
  <2>1. Resolve(g, accepted) = ReplayPairs(back, accepted + 1)
    BY <1>3 DEF Resolve
  <2>2. InBranch(g, mode, whole, right)
    OBVIOUS
  <2> HIDE DEF whole
  <2>3. /\ Undoable(g) /\ back \in Graph
        /\ AtRest(back, TRUE, mode) /\ back.target_tokens = Base(g)
    BY <2>2, RestoredIsAtRest
  <2>4. GraphSound(back, TRUE)
    BY <2>3, BranchOfTheGraph
  <2> HIDE DEF back
  <2>5. back.target_tokens + (accepted + 1) <= MaximumTokens /\ accepted + 1 \in Nat
    BY <1>1, <2>3
  <2> QED BY <2>1, <2>3, <2>4, <2>5, ReplaySound
<1> QED BY <1>2, <1>3

-----------------------------------------------------------------------------
(* The rows through the methods of the executor                             *)

\* The branch of the open call, or the pending one, is on the path so far.
OnThePath ==
  /\ call.at = "serial" => call.done <= call.accepted
  /\ pending # << >> => pending[1].accepted = pending[1].drafts

(* The inductive invariant of the rows. The damage of DamageIsConfined is   *)
(* stated for a session without a branch; while there is one, what matters  *)
(* is what its rollback would bring back.                                   *)
DamageInv == session.status # "lost" => GraphSound(graph, OnThePath)

\* A graph that is sound keeps the invariant.
LEMMA DamageStays ==
  ASSUME NEW right, GraphSound(graph', right), OnThePath' => right
  PROVE  DamageInv'
BY DEF DamageInv, GraphSound, LayerSound, Sound

\* A session that is lost promises nothing.
LEMMA LostIsNotDamaged ==
  ASSUME CudaInv, NEW outcome, AnswerError(outcome)
  PROVE  DamageInv'
<1>1. session'.status = "lost"
  BY DEF AnswerError, CudaInv, CudaTypeOK
<1> QED BY <1>1 DEF DamageInv

\* Between calls, and while a call has no branch, every row is right.
LEMMA RightWithoutABranch ==
  ASSUME CudaInv, DamageInv, session.status # "lost", pending = << >>, call.at # "serial"
  PROVE  GraphSound(graph, TRUE)
<1>1. OnThePath
  BY DEF OnThePath
<1> QED BY <1>1 DEF DamageInv, GraphSound, LayerSound, Sound

\* Calls that leave the graph, and calls that empty it.
LEMMA DamageWithoutRows ==
  ASSUME CudaInv, DamageInv,
         Load \/ Warmup \/ Decode \/ DecodeRefused \/ ResetSession \/ Unload \/ Prefill
           \/ PrefillCancelled \/ UNCHANGED vars
  PROVE  DamageInv'
<1>1. CudaTypeOK /\ graph \in Graph
  BY DEF CudaInv, CudaTypeOK
<1>2. CASE Load \/ Warmup \/ UNCHANGED vars
  BY <1>2 DEF Load, Warmup, vars, DamageInv, OnThePath, GraphSound, LayerSound, Sound
<1>3. CASE Decode
  <2>1. graph' = graph /\ session.status # "lost" /\ pending = << >> /\ call.at # "serial"
    BY <1>3 DEF Decode, CanDecode, Idle
  <2> QED BY <2>1, RightWithoutABranch, DamageStays
<1>4. ASSUME NEW outcome, AnswerError(outcome)
      PROVE  DamageInv'
  BY <1>4, LostIsNotDamaged
<1>5. CASE DecodeRefused
  BY <1>4, <1>5 DEF DecodeRefused
<1>6. CASE ResetSession
  BY <1>1, <1>4, <1>6, EmptyIsSound, DamageStays DEF ResetSession
<1>7. CASE Unload
  BY <1>7, EmptyIsSound, DamageStays DEF Unload
<1>8. CASE Prefill
  BY <1>1, <1>4, <1>8, EmptyIsSound, DamageStays DEF Prefill
<1>9. CASE PrefillCancelled
  BY <1>4, <1>9 DEF PrefillCancelled
<1> QED BY <1>2, <1>3, <1>5, <1>6, <1>7, <1>8, <1>9

\* Steps that fail.
LEMMA DamageOfFailures ==
  ASSUME CudaInv,
         CapturedBlockFails \/ FirstTokenFails \/ SerialCandidateFails \/ SerialCancelled
           \/ CommitCancelled \/ CommitRefused \/ ReplayStops
  PROVE  DamageInv'
<1>1. \E outcome \in {"cancelled", "error"} : AnswerError(outcome)
  BY DEF CapturedBlockFails, FirstTokenFails, SerialCandidateFails, SerialCancelled,
         CommitCancelled, CommitRefused, ReplayStops, RollBack, Fails
<1> QED BY <1>1, LostIsNotDamaged

\* A chunk of a prompt.
LEMMA DamageOfAChunk ==
  ASSUME CudaInv, DamageInv, PrefillChunk
  PROVE  DamageInv'
<1> DEFINE n == Smaller(ChunkTokens, call.total - graph.target_tokens)
<1>1. /\ CudaTypeOK /\ graph \in Graph /\ session.mtp \in BOOLEAN /\ ~Idle
      /\ InPrompt(graph, session.mtp) /\ session.status = "none"
      /\ call.total \in 1 .. MaximumTokens /\ graph.target_tokens < call.total
      /\ call.at = "chunk"
  BY DEF CudaInv, CudaTypeOK, PrefillChunk, WhileInPrompt, Idle
<1>2. pending = << >>
  BY <1>1, NothingPending
<1>3. /\ MaximumTokens \in Nat /\ graph.target_tokens \in Nat
      /\ ChunkTokens \in Nat \ {0}
  BY <1>1, GraphNumbers, GraphAssumption
<1>4. n \in Nat \ {0} /\ graph.target_tokens + n <= MaximumTokens
  BY <1>1, <1>3 DEF Smaller
<1>5. GraphSound(graph, TRUE)
  BY <1>1, <1>2, RightWithoutABranch
<1>6. \/ graph' = Prefilled(graph, n, session.mtp)
      \/ AnswerError("error")
  BY DEF PrefillChunk, Fails
<1> HIDE DEF n
<1>7. GraphSound(Prefilled(graph, n, session.mtp), TRUE)
  BY <1>1, <1>4, <1>5, PrefilledSound
<1> QED BY <1>6, <1>7, DamageStays, LostIsNotDamaged

\* A capture, and the block that is captured.
LEMMA DamageOfCaptures ==
  ASSUME CudaInv, DamageInv, Seed
  PROVE  DamageInv'
<1> DEFINE program == SeedOrder[call.done + 1]
<1>1. /\ CudaTypeOK /\ graph \in Graph /\ call.at = "seed" /\ ~Idle
      /\ session.status # "lost"
  BY DEF CudaInv, CudaTypeOK, Seed, Idle
<1>2. pending = << >> /\ session.status = "open"
  BY <1>1, NothingPending DEF CudaInv, WhileEmpty, CudaTypeOK
<1>3. Undecided
  BY <1>1, <1>2 DEF Undecided
<1>4. call.done \in 0 .. 3
  BY <1>1, <1>3 DEF CudaInv, WhileAtRest
<1>5. program \in Programs
  BY <1>4 DEF SeedOrder, Programs
<1>6. GraphSound(graph, TRUE)
  BY <1>1, <1>2, RightWithoutABranch
<1>7. /\ graph' = graph \/ graph' = CapturedWith(program) \/ AnswerError("error")
  BY DEF Seed, Fails
<1> HIDE DEF program
<1>8. LET r == CapturedWith(program)
      IN  r.kv = graph.kv /\ r.overwritten = graph.overwritten /\ r.tainted = graph.tainted
  <2>1. CASE program = "target"
    BY <1>1, <2>1, CaptureEffect DEF CapturedWith, SameBut
  <2>2. CASE program = "verify"
    BY <1>1, <2>2, CaptureEffect DEF CapturedWith, SameBut
  <2>3. CASE program \notin {"target", "verify"}
    BY ZenonT(30), <1>1, <1>5, <2>3, CaptureEffect DEF CapturedWith, SameBut
  <2> QED BY <2>1, <2>2, <2>3
<1>9. GraphSound(CapturedWith(program), TRUE)
  BY <1>6, <1>8, RowsLeft
<1> QED BY <1>6, <1>7, <1>9, DamageStays, LostIsNotDamaged

\* The captured block, with its drafts accepted or not.
LEMMA DamageOfABlock ==
  ASSUME CudaInv, DamageInv, CapturedBlock
  PROVE  DamageInv'
<1>1. /\ CapturesFit(graph) /\ graph \in Graph
      /\ pending = << >> /\ session.status = "open"
      /\ AtRest(graph, TRUE, "CompactGreedy") /\ "verify" \in graph.captured
      /\ graph.target_tokens + MaximumDrafts + 1 <= MaximumTokens
      /\ call.at = "block"
  BY AtABlock DEF CapturedBlock
<1>2. PICK accepted \in 0 .. MaximumDrafts :
        LET drafted == LaunchDrafts(Begun(graph), accepted)
        IN  /\ graph' = LaunchVerify(drafted, accepted)
            /\ pending' = <<[kind |-> "CapturedMtp4", drafts |-> MaximumDrafts,
                             accepted |-> accepted]>>
  BY DEF CapturedBlock
<1>3. GraphSound(graph, TRUE)
  BY <1>1, RightWithoutABranch
<1> DEFINE onward == accepted = MaximumDrafts
<1>4. GraphSound(graph', onward)
  BY <1>1, <1>2, <1>3, BlockSound
<1>5. OnThePath' => onward
  BY <1>2 DEF OnThePath
<1> HIDE DEF onward
<1> QED BY <1>4, <1>5, DamageStays

\* The token given, and the branch that is opened behind it.
LEMMA DamageOfTheFirstToken ==
  ASSUME CudaInv, DamageInv, FirstToken
  PROVE  DamageInv'
<1> DEFINE row == graph.target_tokens
<1>1. /\ graph \in Graph /\ pending = << >> /\ session.status = "open"
      /\ session.mtp \in BOOLEAN /\ AtRest(graph, session.mtp, mtp_output_mode)
      /\ row < MaximumTokens /\ call.at = "first"
  BY AtTheFirstToken DEF FirstToken
<1>2. GraphSound(graph, TRUE)
  BY <1>1, RightWithoutABranch
<1>3. row \in Nat /\ row > 0 /\ row \in Row /\ Agrees(graph)
  BY <1>1, GraphNumbers DEF AtRest, Row
<1>4. CASE session.mtp = FALSE
  <2>1. graph' = TargetToken(graph, row)
    BY <1>4 DEF FirstToken
  <2>2. LayerSound(graph, "target", TRUE) /\ LayerSound(graph, "mtp", TRUE)
    BY <1>2 DEF GraphSound
  <2> DEFINE right == TRUE
  <2>3. /\ right \in BOOLEAN /\ LayerSound(graph, "target", right)
        /\ LayerSound(graph, "mtp", right) /\ (right => right /\ row = graph.target_tokens)
    BY <2>2
  <2> HIDE DEF right, row
  <2>4. GraphSound(TargetToken(graph, row), right)
    BY <1>1, <1>3, <2>3, TargetTokenSound DEF row
  <2> QED BY <2>1, <2>4, DamageStays DEF right
<1>5. CASE session.mtp = TRUE
  <2> DEFINE computed == Pair(graph, row)
             right == TRUE
  <2>1. graph' = Begun(computed)
    BY <1>5, Zenon DEF FirstToken, Pair
  <2>2. computed \in Graph
    BY ZenonT(30), <1>1, <1>5, FirstTokenWithMtp
  <2>3. graph.mtp_tokens = graph.target_tokens - 1
    BY <1>1, <1>5 DEF AtRest
  <2>4. /\ right \in BOOLEAN /\ GraphSound(graph, right) /\ row \in {graph.target_tokens, Junk}
        /\ (right => right /\ row = graph.target_tokens)
        /\ graph.target_tokens > 0 /\ graph.target_tokens < MaximumTokens
    BY <1>1, <1>2, <1>3
  <2> HIDE DEF right, computed, row
  <2>5. GraphSound(computed, right)
    BY <1>1, <1>3, <2>3, <2>4, PairSound DEF computed
  <2>6. GraphSound(Begun(computed), TRUE)
    BY <2>2, <2>4, <2>5, BranchOfTheGraph DEF right
  <2> QED BY <2>1, <2>6, DamageStays
<1> QED BY <1>1, <1>4, <1>5

\* A candidate of the serial path.
LEMMA DamageOfACandidate ==
  ASSUME CudaInv, DamageInv, SerialCandidate
  PROVE  DamageInv'
<1> DEFINE row == CandidateRow
           right == call.done <= call.accepted
           onward == call.done + 1 <= call.accepted
<1>1. /\ graph \in Graph /\ pending = << >> /\ session.status = "open" /\ call.at = "serial"
      /\ call.total \in 1 .. Drafts /\ call.accepted \in 0 .. call.total
      /\ call.done \in 0 .. call.total - 1 /\ call \in Call
      /\ Base(graph) \in Nat /\ Base(graph) + call.total <= MaximumTokens
      /\ graph.target_tokens = Base(graph) + call.done
      /\ InBranch(graph, mtp_output_mode, Base(graph) + call.done, call.done <= call.accepted)
  BY AtACandidate DEF SerialCandidate
<1>2. graph' = Pair(graph, row)
  BY DEF SerialCandidate
<1>3. /\ Agrees(graph) /\ graph.mtp_tokens = graph.target_tokens - 1
      /\ graph.target_tokens > 0
  <2>1. Agrees(graph) /\ graph.mtp_tokens = (Base(graph) + call.done) - 1 /\ Base(graph) > 0
    BY <1>1 DEF InBranch
  <2> QED BY <1>1, <2>1
<1>4. MaximumTokens \in Nat /\ Drafts \in Nat
  BY PagedAssumption, ExecutorAssumption
<1>5. graph.target_tokens < MaximumTokens
  BY <1>1, <1>4
<1>6. row \in {graph.target_tokens, Junk} /\ (row = graph.target_tokens <=> call.done < call.accepted)
  BY <1>1, RowOfACandidate
<1>7. /\ right \in BOOLEAN /\ onward \in BOOLEAN
      /\ (onward => right /\ row = graph.target_tokens)
  BY <1>1, <1>4, <1>6
<1>8. OnThePath <=> right
  BY <1>1 DEF OnThePath
<1>9. OnThePath' => onward
  <2>1. CASE call.done + 1 < call.total
    <3>1. call' = [call EXCEPT !.done = call.done + 1]
      BY <2>1 DEF SerialCandidate, Continue
    <3>2. call'.at = "serial" /\ call'.done = call.done + 1 /\ call'.accepted = call.accepted
      BY <1>1, <3>1 DEF Call
    <3> QED BY <3>2 DEF OnThePath
  <2>2. CASE ~(call.done + 1 < call.total)
    <3>1. pending' = <<[kind |-> "Serial", drafts |-> call.total, accepted |-> call.accepted]>>
      BY <2>2 DEF SerialCandidate
    <3>2. pending' # << >> /\ pending'[1].drafts = call.total
          /\ pending'[1].accepted = call.accepted
      BY <3>1
    <3> HIDE DEF onward
    <3>3. OnThePath' => call.accepted = call.total
      BY <3>2 DEF OnThePath
    <3> QED BY <1>1, <1>4, <2>2, <3>3 DEF onward
  <2> QED BY <2>1, <2>2
<1> HIDE DEF row, right, onward
<1>10. GraphSound(graph, right)
  BY <1>1, <1>8 DEF DamageInv, GraphSound, LayerSound, Sound
<1>11. GraphSound(Pair(graph, row), onward)
  BY <1>1, <1>3, <1>5, <1>6, <1>7, <1>10, PairSound
<1> QED BY <1>2, <1>9, <1>11, DamageStays

\* The commit of a branch, whole or up to a prefix.
LEMMA DamageOfACommit ==
  ASSUME CudaInv, DamageInv, CommitCaptured \/ CommitWhole \/ CommitPrefix
  PROVE  DamageInv'
<1> DEFINE k == pending[1].accepted
           right == k = pending[1].drafts
           tokens == Base(graph) + pending[1].drafts + Ahead(pending[1])
<1>1. CanCommit
  BY DEF CommitCaptured, CommitWhole, CommitPrefix
<1>2. /\ graph \in Graph /\ session.status = "open" /\ pending[1] \in Pending
      /\ k <= pending[1].drafts /\ InBranch(graph, mtp_output_mode, tokens, right)
      /\ (pending[1].kind = "CapturedMtp4" => pending[1].drafts = MaximumDrafts)
  BY <1>1, AtACommit
<1>3. GraphSound(graph, right) /\ right \in BOOLEAN
  <2>1. OnThePath <=> right
    BY <1>1 DEF OnThePath, CanCommit, Idle
  <2> QED BY <1>2, <2>1 DEF DamageInv, GraphSound, LayerSound, Sound
<1>4. k \in 0 .. MaximumDrafts
  BY <1>2, ExecutorAssumption, GraphAssumption DEF Pending
<1>5. CASE AnswerError("error")
  BY <1>5, LostIsNotDamaged
<1>6. CASE CommitCaptured /\ graph' = Resolve(graph, k)
  <2>1. /\ tokens = Base(graph) + MaximumDrafts + 1 /\ (right <=> k = MaximumDrafts)
    BY <1>2, <1>6 DEF CommitCaptured, Ahead
  <2> HIDE DEF right, tokens, k
  <2>2. right = (k = MaximumDrafts)
    BY <1>3, <2>1
  <2>3. InBranch(graph, mtp_output_mode, Base(graph) + MaximumDrafts + 1, right)
    BY <1>2, <2>1
  <2>4. GraphSound(Resolve(graph, k), TRUE)
    BY <1>2, <1>3, <1>4, <2>2, <2>3, ResolvedSound
  <2> QED BY <1>6, <2>4, DamageStays
<1>7. CASE CommitWhole /\ graph' = Committed(graph)
  <2>1. right = TRUE
    BY <1>7 DEF CommitWhole
  <2> QED BY <1>2, <1>3, <1>7, <2>1, BranchOfTheGraph, DamageStays
<1>8. CASE CommitPrefix /\ graph' \in {Restored(graph), Begun(Restored(graph))}
  <2> DEFINE back == Restored(graph)
  <2> HIDE DEF right, tokens
  <2>1. Undoable(graph) /\ back \in Graph
    BY <1>2, RestoredIsAtRest
  <2>2. GraphSound(back, TRUE)
    BY <1>2, <1>3, <2>1, BranchOfTheGraph
  <2> HIDE DEF back
  <2>3. GraphSound(Begun(back), TRUE)
    BY <2>1, <2>2, BranchOfTheGraph
  <2>4. graph' = back \/ graph' = Begun(back)
    BY <1>8 DEF back
  <2> QED BY <2>2, <2>3, <2>4, DamageStays
<1> QED BY <1>5, <1>6, <1>7, <1>8 DEF CommitCaptured, CommitWhole, CommitPrefix, Fails

\* The replay of a prefix, and its commit.
LEMMA DamageOfAReplay ==
  ASSUME CudaInv, DamageInv, Replay \/ ReplayEnds
  PROVE  DamageInv'
<1> DEFINE row == CandidateRow
           right == TRUE
<1>1. /\ graph \in Graph /\ pending = << >> /\ session.status = "open" /\ call.at = "replay"
      /\ call.accepted \in Nat /\ call.done \in 0 .. call.accepted
      /\ Base(graph) \in Nat /\ Base(graph) + call.accepted <= MaximumTokens
      /\ graph.target_tokens = Base(graph) + call.done
      /\ InBranch(graph, mtp_output_mode, Base(graph) + call.done, TRUE)
  BY AtAReplay DEF Replay, ReplayEnds
<1>2. GraphSound(graph, TRUE)
  BY <1>1, RightWithoutABranch
<1>3. CASE AnswerError("error")
  BY <1>3, LostIsNotDamaged
<1>4. CASE ReplayEnds /\ graph' = Committed(graph)
  BY <1>1, <1>2, <1>4, BranchOfTheGraph, DamageStays
<1>5. CASE Replay
  <2>1. graph' = Pair(graph, row) /\ call.done < call.accepted
    BY <1>5 DEF Replay
  <2>2. /\ Agrees(graph) /\ graph.mtp_tokens = graph.target_tokens - 1
        /\ graph.target_tokens > 0
    <3>1. Agrees(graph) /\ graph.mtp_tokens = (Base(graph) + call.done) - 1 /\ Base(graph) > 0
      BY <1>1 DEF InBranch
    <3> QED BY <1>1, <3>1
  <2>3. row \in {graph.target_tokens, Junk} /\ row = graph.target_tokens
    BY <1>1, <2>1, RowOfACandidate
  <2>4. graph.target_tokens < MaximumTokens
    BY <1>1, <2>1, PagedAssumption
  <2>5. right \in BOOLEAN /\ GraphSound(graph, right)
        /\ (right => right /\ row = graph.target_tokens)
    BY <1>2, <2>3
  <2> HIDE DEF right, row
  <2>6. GraphSound(Pair(graph, row), right)
    BY <1>1, <2>2, <2>3, <2>4, <2>5, PairSound
  <2> QED BY <2>1, <2>6, DamageStays DEF right
<1> QED BY <1>3, <1>4, <1>5 DEF ReplayEnds, Fails

(* The damage invariant holds of every reachable state.                     *)
THEOREM DamageAlwaysConfined ==
  CudaSpec => []DamageIsConfined
<1>1. CudaInit => DamageInv
  <2> SUFFICES ASSUME CudaInit PROVE DamageInv
    OBVIOUS
  <2>1. GraphSound(graph, TRUE)
    BY EmptyIsSound DEF CudaInit
  <2> QED BY <2>1 DEF DamageInv, GraphSound, LayerSound, Sound
<1>2. CudaInv /\ DamageInv /\ [CudaNext]_vars => DamageInv'
  <2> SUFFICES ASSUME CudaInv, DamageInv, [CudaNext]_vars PROVE DamageInv'
    OBVIOUS
  <2>1. CASE Load \/ Warmup \/ Decode \/ DecodeRefused \/ ResetSession \/ Unload \/ Prefill
               \/ PrefillCancelled \/ UNCHANGED vars
    BY <2>1, DamageWithoutRows
  <2>2. CASE CapturedBlockFails \/ FirstTokenFails \/ SerialCandidateFails \/ SerialCancelled
               \/ CommitCancelled \/ CommitRefused \/ ReplayStops
    BY <2>2, DamageOfFailures
  <2>3. CASE PrefillChunk
    BY <2>3, DamageOfAChunk
  <2>4. CASE Seed
    BY <2>4, DamageOfCaptures
  <2>5. CASE CapturedBlock
    BY <2>5, DamageOfABlock
  <2>6. CASE FirstToken
    BY <2>6, DamageOfTheFirstToken
  <2>7. CASE SerialCandidate
    BY <2>7, DamageOfACandidate
  <2>8. CASE CommitCaptured \/ CommitWhole \/ CommitPrefix
    BY <2>8, DamageOfACommit
  <2>9. CASE Replay \/ ReplayEnds
    BY <2>9, DamageOfAReplay
  <2> QED BY <2>1, <2>2, <2>3, <2>4, <2>5, <2>6, <2>7, <2>8, <2>9 DEF CudaNext
<1>3. CudaInv /\ DamageInv => DamageIsConfined
  <2> SUFFICES ASSUME CudaInv, DamageInv, Settled
               PROVE  \A l \in Layers \ graph.tainted :
                        \A q \in DOMAIN RowsRead(l) :
                          PageOf(q) \notin graph.overwritten[l] => RowsRead(l)[q] = q
    BY DEF DamageIsConfined
  <2>1. GraphSound(graph, TRUE)
    BY RightWithoutABranch DEF Settled, InSession, Idle
  <2>2. ASSUME NEW l \in Layers \ graph.tainted
        PROVE  ReadsRight(graph.kv[l], graph.kv[l].tokens, graph.overwritten[l])
    BY <2>1, <2>2 DEF GraphSound, LayerSound, Sound, Layers
  <2> QED BY <2>2 DEF ReadsRight, RowsRead
<1> QED BY <1>1, <1>2, <1>3, InvAlwaysHolds, PTL DEF CudaSpec

-----------------------------------------------------------------------------
(* What the answers of the executor imply *)

(* The answers so far imply a position, which is where the target is but    *)
(* for the drafts of the branch, and a model is there for every call.       *)
ModelServes ==
  /\ model \in {"new", "unloaded"} => session.status = "none"
  /\ session.status = "open" \/ ~Idle => model = "warm"

AnswersFollow ==
  /\ session.status = "none" =>
       reported.position = 0 /\ reported.pending = 0 /\ reported.state = "whole"
  /\ session.status = "open" => reported.state = "whole"
  /\ Undecided => reported.position = graph.target_tokens
  /\ call.at = "serial" => graph.target_tokens = reported.position + 1 + call.done

DraftsFollow ==
  /\ pending # << >> =>
       /\ reported.pending = pending[1].drafts
       /\ reported.promised = reported.position + pending[1].accepted
  /\ call.at = "replay" =>
       /\ call.accepted <= reported.pending
       /\ reported.promised = reported.position + call.accepted

ReportedInv == ModelServes /\ AnswersFollow /\ DraftsFollow

Implements == ReportedInv' /\ [Contract!ContractNext]_(Contract!executorVars)

LEMMA ReportedNumbers ==
  ASSUME CudaTypeOK
  PROVE  /\ reported.position \in Nat /\ reported.pending \in Nat /\ reported.promised \in Nat
         /\ reported.position <= MaximumTokens /\ MaximumTokens \in Nat
         /\ Drafts \in Nat /\ Drafts <= MaximumDrafts /\ MaximumDrafts \in Nat
         /\ reported = [position |-> reported.position, pending |-> reported.pending,
                        state |-> reported.state, promised |-> reported.promised]
         /\ session = [status |-> session.status, mtp |-> session.mtp]
<1>1. /\ MaximumTokens \in Nat /\ Drafts \in Nat /\ Drafts <= MaximumDrafts
      /\ MaximumDrafts \in Nat
  BY ExecutorAssumption, GraphAssumption, PagedAssumption
<1>2. /\ reported \in [position : Count, pending : 0 .. Drafts, state : {"whole", "partial"},
                       promised : Count]
      /\ session \in [status : {"none", "open", "lost"}, mtp : BOOLEAN]
  BY DEF CudaTypeOK
<1> QED BY <1>1, <1>2 DEF Count

\* A call that ends in an error: the session is lost, and its branch with it.
LEMMA ErrorsAreKept ==
  ASSUME CudaInv, ReportedInv, NEW outcome, AnswerError(outcome),
         model \notin {"new", "unloaded"}, model' = model, pending' = << >>
  PROVE  Implements
<1>1. CudaTypeOK
  BY DEF CudaInv
<1>2. /\ call' = IdleCall /\ call'.at = "idle" /\ session'.status = "lost"
      /\ reported'.position = reported.position /\ reported'.pending = 0
      /\ reported'.state = "partial"
  BY <1>1, ReportedNumbers DEF AnswerError, IdleCall
<1>3. ModelServes' /\ AnswersFollow' /\ DraftsFollow'
  BY <1>2 DEF ModelServes, AnswersFollow, DraftsFollow, Undecided, Idle
<1>4. Contract!CommitErr
  BY <1>2 DEF Contract!CommitErr
<1> QED BY <1>3, <1>4 DEF Implements, ReportedInv, Contract!ContractNext

\* A step within a call changes nothing that was answered.
LEMMA StepsAreSilent ==
  ASSUME UNCHANGED <<model, reported>>
  PROVE  [Contract!ContractNext]_(Contract!executorVars)
BY DEF Contract!executorVars

LEMMA AnswersAtRest ==
  ASSUME CudaInv, CudaInv', ReportedInv, AnswerOk, model' = model, model = "warm",
         pending' = << >>
  PROVE  /\ ReportedInv'
         /\ reported'.position = graph'.target_tokens /\ reported'.pending = 0
         /\ reported'.state = "whole" /\ graph'.target_tokens \in Nat
         /\ reported.pending > 0 => reported'.position = reported.promised
<1>1. CudaTypeOK /\ CudaTypeOK' /\ WhileAtRest'
  BY DEF CudaInv
<1>2. graph'.target_tokens \in Nat
  <2>1. graph' \in Graph
    BY <1>1 DEF CudaTypeOK
  <2> QED BY <2>1, GraphNumbers
<1>3. /\ call' = IdleCall /\ call'.at = "idle" /\ session'.status = "open"
  BY <1>1, ReportedNumbers DEF AnswerOk, IdleCall
<1>4. reported' = [position |-> graph'.target_tokens, pending |-> 0, state |-> "whole",
                   promised |-> IF reported.pending > 0 THEN reported.promised
                                ELSE graph'.target_tokens]
  <2>1. graph'.target_tokens - 0 = graph'.target_tokens
        /\ graph'.target_tokens + 0 = graph'.target_tokens
    BY <1>2
  <2> QED BY <2>1 DEF AnswerOk
<1>5. /\ reported'.position = graph'.target_tokens /\ reported'.pending = 0
      /\ reported'.state = "whole"
      /\ reported.pending > 0 => reported'.promised = reported.promised
  BY <1>4
<1>6. reported'.promised = graph'.target_tokens
  BY <1>1, <1>3 DEF WhileAtRest, Undecided, Idle
<1>7. ModelServes' /\ AnswersFollow' /\ DraftsFollow'
  BY <1>3, <1>5 DEF ModelServes, AnswersFollow, DraftsFollow, Undecided, Idle
<1> QED BY <1>2, <1>5, <1>6, <1>7 DEF ReportedInv

\* A decode that has left a branch.
LEMMA AnswersWithABranch ==
  ASSUME CudaInv, CudaInv', ReportedInv, AnswerOk, model' = model, model = "warm",
         session.mtp = TRUE, session.status = "open", reported.pending = 0,
         NEW branch \in Pending, pending' = <<branch>>,
         graph'.target_tokens = reported.position + 1 + branch.drafts
  PROVE  Implements
<1>1. CudaTypeOK /\ CudaTypeOK'
  BY DEF CudaInv
<1>2. /\ branch.drafts \in Nat /\ branch.drafts > 0 /\ branch.drafts <= Drafts
      /\ branch.accepted \in Nat
  BY <1>1, ReportedNumbers DEF Pending
<1>3. reported.position \in Nat /\ reported.state = "whole" /\ Drafts \in Nat
      /\ Drafts <= MaximumDrafts /\ MaximumDrafts \in Nat /\ MaximumTokens \in Nat
  BY <1>1, ReportedNumbers DEF ReportedInv, AnswersFollow
<1>4. reported.position + 1 + branch.drafts <= MaximumTokens
  <2>1. graph' \in Graph
    BY <1>1 DEF CudaTypeOK
  <2> QED BY <2>1, GraphNumbers
<1>5. /\ call' = IdleCall /\ call'.at = "idle" /\ session'.status = "open"
  BY <1>1, ReportedNumbers DEF AnswerOk, IdleCall
<1>6. /\ pending' # << >> /\ pending'[1] = branch
  OBVIOUS
<1>7. reported' = [position |-> reported.position + 1, pending |-> branch.drafts,
                   state |-> "whole", promised |-> (reported.position + 1) + branch.accepted]
  <2>1. graph'.target_tokens - branch.drafts = reported.position + 1
    BY <1>2, <1>3
  <2>2. reported' = [position |-> graph'.target_tokens - branch.drafts,
                     pending |-> branch.drafts, state |-> "whole",
                     promised |-> (graph'.target_tokens - branch.drafts) + branch.accepted]
    BY <1>6 DEF AnswerOk
  <2> QED BY <2>1, <2>2
<1>8. /\ reported'.position = reported.position + 1 /\ reported'.pending = branch.drafts
      /\ reported'.state = "whole"
      /\ reported'.promised = (reported.position + 1) + branch.accepted
  BY <1>7
<1>9. ModelServes' /\ AnswersFollow' /\ DraftsFollow'
  BY <1>5, <1>6, <1>8 DEF ModelServes, AnswersFollow, DraftsFollow, Undecided, Idle
<1>10. Contract!DecodeOk(TRUE, branch.drafts)
  BY <1>2, <1>3, <1>4, <1>8 DEF Contract!DecodeOk
<1>11. branch.drafts \in 0 .. MaximumDrafts
  BY <1>2, <1>3
<1> QED BY <1>9, <1>10, <1>11 DEF Implements, ReportedInv, Contract!ContractNext

\* Everything that fails.
LEMMA FailuresAreErrors ==
  ASSUME CudaInv, ReportedInv,
         \/ PrefillCancelled \/ DecodeRefused \/ CapturedBlockFails \/ FirstTokenFails
         \/ SerialCandidateFails \/ SerialCancelled \/ CommitCancelled \/ CommitRefused
         \/ ReplayStops
  PROVE  Implements
<1>1. model = "warm" /\ model' = model
  BY DEF ReportedInv, ModelServes, PrefillCancelled, DecodeRefused, CapturedBlockFails,
         FirstTokenFails, SerialCandidateFails, SerialCancelled, CommitCancelled, CommitRefused,
         ReplayStops, ExecutorUnchanged, CanDecode, CanCommit, Idle
<1>2. pending' = << >>
  <2>1. CASE CommitCancelled \/ CommitRefused
    BY <2>1 DEF CommitCancelled, CommitRefused
  <2>2. CASE DecodeRefused
    BY <2>2 DEF DecodeRefused, CanDecode, ExecutorUnchanged
  <2>3. CASE \/ PrefillCancelled \/ CapturedBlockFails \/ FirstTokenFails
             \/ SerialCandidateFails \/ SerialCancelled \/ ReplayStops
    <3>1. ~Idle /\ pending' = pending
      BY <2>3 DEF PrefillCancelled, CapturedBlockFails, FirstTokenFails, SerialCandidateFails,
                  SerialCancelled, ReplayStops, ExecutorUnchanged, Idle
    <3> QED BY <3>1, NothingPending
  <2> QED BY <2>1, <2>2, <2>3
<1>3. \E outcome : AnswerError(outcome)
  BY DEF PrefillCancelled, DecodeRefused, CapturedBlockFails, FirstTokenFails,
         SerialCandidateFails, SerialCancelled, CommitCancelled, CommitRefused, ReplayStops,
         Fails, RollBack
<1> QED BY <1>1, <1>2, <1>3, ErrorsAreKept

\* load, warmup, reset_session, unload.
LEMMA LifecycleImplements ==
  ASSUME CudaInv, ReportedInv, Load \/ Warmup \/ ResetSession \/ Unload
  PROVE  Implements
<1>1. CudaTypeOK /\ Idle /\ call.at = "idle"
  BY DEF CudaInv, Load, Warmup, ResetSession, Unload, Idle
<1>2. CASE Load
  <2>1. /\ model = "new" /\ model' = "resident"
        /\ UNCHANGED <<pending, graph, call, session, reported>>
    BY <1>2 DEF Load
  <2>2. /\ session.status = "none" /\ pending = << >>
        /\ reported.position = 0 /\ reported.pending = 0 /\ reported.state = "whole"
    BY <2>1, NothingPending DEF ReportedInv, ModelServes, AnswersFollow
  <2>3. ReportedInv'
    BY <1>1, <2>1, <2>2 DEF ReportedInv, ModelServes, AnswersFollow, DraftsFollow, Undecided, Idle
  <2>4. Contract!LoadOk
    BY <2>1, <2>2 DEF Contract!LoadOk
  <2> QED BY <2>3, <2>4 DEF Implements, Contract!ContractNext
<1>3. CASE Warmup
  <2>1. /\ model = "resident" /\ model' = "warm"
        /\ UNCHANGED <<pending, graph, call, session, reported>>
    BY <1>3 DEF Warmup
  <2>2. ReportedInv'
    BY <2>1 DEF ReportedInv, ModelServes, AnswersFollow, DraftsFollow, Undecided, Idle
  <2>3. Contract!WarmupOk
    BY <2>1 DEF Contract!WarmupOk
  <2> QED BY <2>2, <2>3 DEF Implements, Contract!ContractNext
<1>4. ASSUME reported' = Untouched, session' = [status |-> "none", mtp |-> FALSE],
             pending' = << >>, call' = call
      PROVE  /\ ReportedInv'
             /\ reported'.position = 0 /\ reported'.pending = 0 /\ reported'.state = "whole"
  <2>1. /\ session'.status = "none" /\ call'.at = "idle"
        /\ reported'.position = 0 /\ reported'.pending = 0 /\ reported'.state = "whole"
    BY <1>1, <1>4 DEF Untouched
  <2> QED BY <1>4, <2>1
          DEF ReportedInv, ModelServes, AnswersFollow, DraftsFollow, Undecided, Idle
<1>5. CASE ResetSession /\ result' = "ok" /\ reported' = Untouched /\ call' = call
           /\ session' = [status |-> "none", mtp |-> FALSE]
  <2>1. pending' = << >> /\ model' = model
    BY <1>5 DEF ResetSession
  <2>2. Contract!ResetOk
    BY <1>4, <1>5, <2>1 DEF Contract!ResetOk
  <2> QED BY <1>4, <1>5, <2>1, <2>2 DEF Implements, Contract!ContractNext
<1>6. CASE ResetSession /\ model \in {"resident", "warm"} /\ AnswerError("error")
  <2>1. pending' = << >> /\ model' = model
    BY <1>6 DEF ResetSession
  <2> QED BY <1>6, <2>1, ErrorsAreKept
<1>7. CASE Unload
  <2>1. /\ model' = "unloaded" /\ pending' = << >> /\ call' = call /\ reported' = Untouched
        /\ session' = [status |-> "none", mtp |-> FALSE]
    BY <1>7 DEF Unload
  <2>2. Contract!UnloadDrops(FALSE)
    BY <1>4, <2>1 DEF Contract!UnloadDrops
  <2> QED BY <1>4, <2>1, <2>2 DEF Implements, Contract!ContractNext
<1> QED BY <1>2, <1>3, <1>5, <1>6, <1>7 DEF ResetSession

\* prefill answers once, with the whole prompt.
LEMMA PrefillImplements ==
  ASSUME CudaInv, CudaInv', ReportedInv, Prefill \/ PrefillChunk
  PROVE  Implements
<1>1. /\ CudaTypeOK /\ model = "warm" /\ model' = model
      /\ session.status = "none" /\ pending = << >> /\ pending' = << >>
      /\ reported.position = 0 /\ reported.pending = 0 /\ reported.state = "whole"
  <2>1. session.status = "none" /\ model = "warm" /\ model' = model /\ pending' = pending
    BY DEF CudaInv, WhileInPrompt, ReportedInv, ModelServes, Prefill, PrefillChunk,
           ExecutorUnchanged, Idle
  <2> QED BY <2>1, NothingPending DEF CudaInv, ReportedInv, AnswersFollow
<1>2. CASE \E outcome : AnswerError(outcome)
  BY <1>1, <1>2, ErrorsAreKept
<1>3. ASSUME call'.at = "chunk", session'.status = "none", reported' = reported
      PROVE  Implements
  <2>1. ReportedInv'
    BY <1>1, <1>3 DEF ReportedInv, ModelServes, AnswersFollow, DraftsFollow, Undecided, Idle
  <2> QED BY <1>1, <1>3, <2>1, StepsAreSilent DEF Implements
<1>4. CASE Prefill
  <2>1. ASSUME NEW n \in PromptLengths, NEW mtp \in BOOLEAN,
               call' = [IdleCall EXCEPT !.at = "chunk", !.total = n],
               session' = [session EXCEPT !.mtp = mtp], reported' = reported
        PROVE  Implements
    <3>1. call'.at = "chunk" /\ session'.status = "none"
      BY <1>1, <2>1, ReportedNumbers DEF IdleCall
    <3> QED BY <1>3, <2>1, <3>1
  <2> QED BY <1>2, <1>4, <2>1 DEF Prefill
<1>5. CASE PrefillChunk
  <2>1. CASE Continue(call)
    <3>1. call' = call /\ session' = session /\ reported' = reported /\ call.at = "chunk"
      BY <1>5, <2>1 DEF Continue, PrefillChunk
    <3> QED BY <1>1, <1>3, <3>1
  <2>2. CASE AnswerOk
    <3>1. /\ ReportedInv' /\ graph'.target_tokens \in Nat
          /\ reported'.position = graph'.target_tokens /\ reported'.pending = 0
          /\ reported'.state = "whole"
      BY <1>1, <2>2, AnswersAtRest
    <3>2. graph'.target_tokens > 0 /\ graph'.target_tokens <= MaximumTokens
      <4>1. session'.status = "open" /\ call'.at = "idle"
        BY <1>1, <2>2, ReportedNumbers DEF AnswerOk, IdleCall
      <4>2. AtRest(graph', session'.mtp, mtp_output_mode')
        BY <1>1, <4>1 DEF CudaInv, WhileAtRest, Undecided
      <4>3. graph' \in Graph
        BY DEF CudaInv, CudaTypeOK
      <4> QED BY <4>2, <4>3, GraphNumbers DEF AtRest
    <3>3. graph'.target_tokens \in 1 .. MaximumTokens
      BY <1>1, <3>1, <3>2, ReportedNumbers
    <3>4. Contract!PrefillFresh(graph'.target_tokens)
      BY <1>1, <3>1 DEF Contract!PrefillFresh, Contract!PrefillOk
    <3> QED BY <3>1, <3>3, <3>4 DEF Implements, Contract!ContractNext
  <2> QED BY <1>2, <1>5, <2>1, <2>2 DEF PrefillChunk, Fails
<1> QED BY <1>4, <1>5

\* A decode between its start and its answer.
LEMMA DecodesGoOn ==
  ASSUME CudaInv, CudaInv', ReportedInv, session.status = "open", Undecided, NEW step,
         Continue(step), step.at \in {"seed", "block", "first"},
         model = "warm", model' = model, pending' = << >>,
         graph'.target_tokens = graph.target_tokens
  PROVE  Implements
<1>1. call' = step /\ session' = session /\ reported' = reported
  BY DEF Continue
<1>2. ReportedInv'
  BY <1>1 DEF ReportedInv, ModelServes, AnswersFollow, DraftsFollow, Undecided, Idle
<1> QED BY <1>1, <1>2, StepsAreSilent DEF Implements

LEMMA DecodeImplements ==
  ASSUME CudaInv, CudaInv', ReportedInv, Decode
  PROVE  Implements
<1>1. /\ model = "warm" /\ model' = model /\ pending = << >> /\ pending' = << >>
      /\ graph' = graph /\ session.status = "open" /\ Undecided
  BY DEF Decode, CanDecode, ExecutorUnchanged, Undecided, Idle
<1>2. CASE Continue([IdleCall EXCEPT !.at = IF seeded THEN "block" ELSE "seed"])
  <2> DEFINE place == IF seeded THEN "block" ELSE "seed"
             step == [IdleCall EXCEPT !.at = place]
  <2>1. place \in {"seed", "block"}
    OBVIOUS
  <2> HIDE DEF place
  <2>2. step.at = place
    BY DEF IdleCall
  <2>3. Continue(step)
    BY <1>2 DEF place
  <2> HIDE DEF step
  <2> QED BY <1>1, <2>1, <2>2, <2>3, DecodesGoOn
<1>3. ASSUME NEW accepted \in 0 .. DraftCount,
             Continue([at |-> "first", total |-> DraftCount, accepted |-> accepted, done |-> 0])
      PROVE  Implements
  BY <1>1, <1>3, DecodesGoOn
<1> QED BY <1>2, <1>3 DEF Decode

LEMMA SeedImplements ==
  ASSUME CudaInv, CudaInv', ReportedInv, Seed
  PROVE  Implements
<1>1. /\ model = "warm" /\ model' = model /\ pending = << >> /\ pending' = << >>
      /\ session.status = "open" /\ Undecided /\ graph \in Graph
      /\ AtRest(graph, session.mtp, mtp_output_mode) /\ session.mtp \in BOOLEAN
  <2>1. ~Idle /\ pending' = pending /\ model' = model
    BY DEF Seed, Idle
  <2>2. pending = << >> /\ model = "warm" /\ CudaTypeOK
    BY <2>1, NothingPending DEF ReportedInv, ModelServes, CudaInv
  <2>3. session.status = "open"
    BY <2>1, <2>2 DEF Seed, CudaInv, WhileEmpty, CudaTypeOK
  <2> QED BY <2>1, <2>2, <2>3 DEF Seed, Undecided, CudaInv, WhileAtRest, CudaTypeOK
<1>2. CASE \E outcome : AnswerError(outcome)
  BY <1>1, <1>2, ErrorsAreKept
<1>3. ASSUME NEW program
      PROVE  CapturedWith(program).target_tokens = graph.target_tokens
  <2>1. /\ CaptureTarget(graph).target_tokens = graph.target_tokens
        /\ CaptureVerify(graph).target_tokens = graph.target_tokens
    BY <1>1, CaptureEffect DEF SameBut
  <2>2. CaptureMtp(graph, program).target_tokens = graph.target_tokens
    BY <1>1 DEF Graph, CaptureMtp
  <2> QED BY <2>1, <2>2 DEF CapturedWith
<1>4. ASSUME NEW program, NEW last \in BOOLEAN,
             graph' = IF NeedsCapture(program) THEN CapturedWith(program) ELSE graph,
             Continue(IF last THEN [IdleCall EXCEPT !.at = "block"]
                      ELSE [call EXCEPT !.done = @ + 1])
      PROVE  Implements
  <2> DEFINE step == IF last THEN [IdleCall EXCEPT !.at = "block"] ELSE [call EXCEPT !.done = @ + 1]
  <2>1. step.at \in {"seed", "block"}
    <3>1. call.at = "seed" /\ call \in Call
      BY DEF Seed, CudaInv, CudaTypeOK
    <3> QED BY <3>1 DEF IdleCall, Call
  <2>2. graph'.target_tokens = graph.target_tokens
    BY <1>3, <1>4
  <2>3. Continue(step)
    BY <1>4
  <2> HIDE DEF step
  <2> QED BY <1>1, <2>1, <2>2, <2>3, DecodesGoOn
<1>5. PICK program, last :
        /\ last \in BOOLEAN
        /\ \/ /\ graph' = IF NeedsCapture(program) THEN CapturedWith(program) ELSE graph
              /\ Continue(IF last THEN [IdleCall EXCEPT !.at = "block"]
                          ELSE [call EXCEPT !.done = @ + 1])
           \/ Fails(CaptureAdmitted(program), CaptureBroken(program))
  <2> DEFINE last == call.done + 1 = Len(SeedOrder)
  <2>1. last \in BOOLEAN
    OBVIOUS
  <2> QED BY <2>1 DEF Seed
<1> QED BY <1>2, <1>4, <1>5 DEF Fails

\* A decode in one block.
LEMMA BlockImplements ==
  ASSUME CudaInv, CudaInv', ReportedInv, CapturedBlock
  PROVE  Implements
<1>1. /\ CapturesFit(graph) /\ graph \in Graph /\ CudaTypeOK
      /\ pending = << >> /\ session.status = "open" /\ session.mtp = TRUE
      /\ mtp_output_mode = "CompactGreedy" /\ reported.pending = 0
      /\ AtRest(graph, TRUE, "CompactGreedy") /\ "verify" \in graph.captured
      /\ graph.target_tokens + MaximumDrafts + 1 <= MaximumTokens
      /\ Drafts = MaximumDrafts
  BY AtABlock DEF CapturedBlock
<1>2. PICK accepted \in 0 .. MaximumDrafts :
        /\ graph' = LaunchVerify(LaunchDrafts(Begun(graph), accepted), accepted)
        /\ pending' = <<[kind |-> "CapturedMtp4", drafts |-> MaximumDrafts,
                         accepted |-> accepted]>>
  BY DEF CapturedBlock
<1> DEFINE branch == [kind |-> "CapturedMtp4", drafts |-> MaximumDrafts, accepted |-> accepted]
<1>3. branch \in Pending /\ branch.drafts = MaximumDrafts
  BY <1>1, GraphAssumption DEF Pending
<1>4. AnswerOk /\ pending' = <<branch>>
  BY <1>2 DEF CapturedBlock
<1> HIDE DEF branch
<1>5. model = "warm" /\ model' = model /\ reported.position = graph.target_tokens
  <2>1. call.at = "block" /\ model' = model
    BY DEF CapturedBlock
  <2> QED BY <1>1, <2>1 DEF ReportedInv, ModelServes, AnswersFollow, Undecided, Idle
<1>6. graph'.target_tokens = graph.target_tokens + MaximumDrafts + 1
  <2>1. InBranch(graph', "CompactGreedy", graph.target_tokens + MaximumDrafts + 1,
                 accepted = MaximumDrafts)
    BY <1>1, <1>2, BlockInBranch
  <2> QED BY <2>1 DEF InBranch
<1>7. graph'.target_tokens = reported.position + 1 + branch.drafts
  BY <1>1, <1>3, <1>5, <1>6, ReportedNumbers
<1> QED BY <1>1, <1>3, <1>4, <1>5, <1>7, AnswersWithABranch

\* The token given, which is the answer without MTP.
LEMMA FirstTokenImplements ==
  ASSUME CudaInv, CudaInv', ReportedInv, FirstToken
  PROVE  Implements
<1> DEFINE row == graph.target_tokens
<1>1. /\ CudaTypeOK /\ graph \in Graph /\ call \in Call /\ call.at = "first"
      /\ pending = << >> /\ session.status = "open" /\ session.mtp \in BOOLEAN
      /\ reported.pending = 0 /\ AtRest(graph, session.mtp, mtp_output_mode)
      /\ row < MaximumTokens /\ call.done = 0
  BY AtTheFirstToken DEF FirstToken
<1>2. /\ model = "warm" /\ model' = model /\ pending' = << >>
      /\ reported.position = row /\ reported.state = "whole"
  BY <1>1 DEF FirstToken, ExecutorUnchanged, ReportedInv, ModelServes, AnswersFollow,
              Undecided, Idle
<1>3. row \in Nat /\ MaximumTokens \in Nat /\ MaximumDrafts \in Nat
  BY <1>1, GraphNumbers, GraphAssumption
<1>4. CASE session.mtp = FALSE
  <2>1. graph' = TargetToken(graph, row) /\ AnswerOk
    BY <1>4 DEF FirstToken
  <2>2. graph'.target_tokens = row + 1
    BY <1>1, <1>4, <2>1, FirstTokenWithoutMtp
  <2>3. /\ ReportedInv' /\ reported'.position = graph'.target_tokens /\ reported'.pending = 0
        /\ reported'.state = "whole"
    BY <1>2, <2>1, AnswersAtRest
  <2>4. Contract!DecodeOk(FALSE, 0)
    <3>1. row + 1 + 0 <= MaximumTokens
      BY <1>1, <1>3
    <3> QED BY <1>1, <1>2, <2>2, <2>3, <3>1 DEF Contract!DecodeOk
  <2>5. 0 \in 0 .. MaximumDrafts
    BY <1>3
  <2> QED BY <2>3, <2>4, <2>5 DEF Implements, Contract!ContractNext
<1>5. CASE session.mtp = TRUE
  <2> DEFINE computed == Pair(graph, row)
             step == [call EXCEPT !.at = "serial"]
  <2>1. graph' = Begun(computed) /\ Continue(step)
    BY <1>5, Zenon DEF FirstToken, Pair
  <2>2. /\ computed \in Graph /\ AtRest(computed, TRUE, mtp_output_mode)
        /\ computed.target_tokens = row + 1
    BY <1>1, <1>5, FirstTokenWithMtp
  <2> HIDE DEF computed
  <2>3. graph'.target_tokens = row + 1
    <3>1. InBranch(graph', mtp_output_mode, row + 1, TRUE)
      BY <2>1, <2>2, BegunIsInBranch
    <3> QED BY <3>1 DEF InBranch
  <2>4. /\ call'.at = "serial" /\ call'.done = 0 /\ session' = session
        /\ reported' = reported
    BY <1>1, <2>1 DEF Continue, Call
  <2>5. graph'.target_tokens = reported'.position + 1 + call'.done
    BY <1>2, <1>3, <2>3, <2>4
  <2>6. ModelServes' /\ AnswersFollow' /\ DraftsFollow'
    BY <1>1, <1>2, <2>4, <2>5 DEF ModelServes, AnswersFollow, DraftsFollow, Undecided, Idle
  <2> QED BY <1>2, <2>4, <2>6, StepsAreSilent DEF Implements, ReportedInv
<1> QED BY <1>1, <1>4, <1>5

\* A candidate; the last one is the answer.
LEMMA CandidateImplements ==
  ASSUME CudaInv, CudaInv', ReportedInv, SerialCandidate
  PROVE  Implements
<1> DEFINE row == CandidateRow
           right == call.done <= call.accepted
           tokens == Base(graph) + call.done
<1>1. /\ CudaTypeOK /\ graph \in Graph /\ call \in Call /\ call.at = "serial"
      /\ pending = << >> /\ session.status = "open" /\ session.mtp = TRUE
      /\ reported.pending = 0 /\ call.total \in 1 .. Drafts /\ call.accepted \in 0 .. call.total
      /\ call.done \in 0 .. call.total - 1
      /\ Base(graph) \in Nat /\ Base(graph) + call.total <= MaximumTokens
      /\ graph.target_tokens = tokens
      /\ InBranch(graph, mtp_output_mode, tokens, right)
  BY AtACandidate DEF SerialCandidate
<1>2. /\ model = "warm" /\ model' = model /\ reported.state = "whole"
      /\ graph.target_tokens = reported.position + 1 + call.done
  BY <1>1 DEF SerialCandidate, ReportedInv, ModelServes, AnswersFollow, Idle
<1>3. /\ reported.position \in Nat /\ MaximumTokens \in Nat /\ Drafts \in Nat
      /\ MaximumDrafts \in Nat /\ Drafts <= MaximumDrafts
  BY <1>1, ReportedNumbers
<1>4. graph'.target_tokens = tokens + 1
  <2>1. graph' = Pair(graph, row)
    BY DEF SerialCandidate
  <2>2. row \in {graph.target_tokens, Junk} /\ right \in BOOLEAN
    BY <1>1, RowOfACandidate
  <2>3. graph.target_tokens < MaximumTokens
    BY <1>1, <1>3
  <2> HIDE DEF row, tokens, right
  <2>4. InBranch(graph', mtp_output_mode, tokens + 1, right /\ row = tokens)
    BY <1>1, <2>1, <2>2, <2>3, PairInBranch
  <2> QED BY <2>4 DEF InBranch
<1> HIDE DEF row, tokens, right
<1>7. graph'.target_tokens = graph.target_tokens + 1
  BY <1>1, <1>4
<1>5. CASE call.done + 1 < call.total
  <2> DEFINE step == [call EXCEPT !.done = call.done + 1]
  <2>1. Continue(step) /\ pending' = << >>
    BY <1>1, <1>5 DEF SerialCandidate
  <2>2. step.at = "serial" /\ step.done = call.done + 1
    BY <1>1 DEF Call
  <2> HIDE DEF step
  <2>3. call' = step /\ session' = session /\ reported' = reported
    BY <2>1 DEF Continue
  <2>4. graph'.target_tokens = reported'.position + 1 + call'.done
    <3>1. call.done \in Nat /\ call'.done = call.done + 1
      BY <1>1, <2>2, <2>3
    <3> QED BY <1>2, <1>3, <1>7, <2>3, <3>1
  <2>5. ModelServes' /\ AnswersFollow' /\ DraftsFollow'
    BY <1>1, <1>2, <2>1, <2>2, <2>3, <2>4
    DEF ModelServes, AnswersFollow, DraftsFollow, Undecided, Idle
  <2> QED BY <1>2, <2>3, <2>5, StepsAreSilent DEF Implements, ReportedInv
<1>6. CASE ~(call.done + 1 < call.total)
  <2> DEFINE branch == [kind |-> "Serial", drafts |-> call.total, accepted |-> call.accepted]
  <2>1. pending' = <<branch>> /\ AnswerOk
    BY <1>6 DEF SerialCandidate
  <2>2. branch \in Pending /\ branch.drafts = call.total
    BY <1>1, <1>3 DEF Pending
  <2> HIDE DEF branch
  <2>3. graph'.target_tokens = reported.position + 1 + branch.drafts
    <3>1. call.done \in Nat /\ call.total \in Nat /\ call.done + 1 = call.total
      BY <1>1, <1>6
    <3> QED BY <1>2, <1>3, <1>7, <2>2, <3>1
  <2> QED BY <1>1, <1>2, <2>1, <2>2, <2>3, AnswersWithABranch
<1> QED BY <1>5, <1>6

\* A commit that is answered, at once or after the replay.
LEMMA CommitsKeepThePrefix ==
  ASSUME CudaInv, CudaInv', ReportedInv, AnswerOk, model = "warm", model' = model,
         pending' = << >>, session.status = "open", reported.pending > 0,
         NEW accepted \in Nat, accepted <= reported.pending,
         reported.promised = reported.position + accepted
  PROVE  Implements
<1>1. CudaTypeOK /\ reported.state = "whole"
  BY DEF CudaInv, ReportedInv, AnswersFollow
<1>2. /\ ReportedInv' /\ reported'.position = reported.position + accepted
      /\ reported'.pending = 0 /\ reported'.state = "whole"
  BY AnswersAtRest
<1>3. Contract!CommitOk(accepted)
  BY <1>1, <1>2 DEF Contract!CommitOk
<1>4. accepted \in 0 .. MaximumDrafts
  <2>1. reported.pending <= Drafts /\ reported.pending \in Nat
    BY <1>1, ReportedNumbers DEF CudaTypeOK
  <2> QED BY <1>1, <2>1, ReportedNumbers
<1> QED BY <1>2, <1>3, <1>4 DEF Implements, Contract!ContractNext

LEMMA CommitImplements ==
  ASSUME CudaInv, CudaInv', ReportedInv, CommitCaptured \/ CommitWhole \/ CommitPrefix
  PROVE  Implements
<1> DEFINE k == pending[1].accepted
<1>1. CanCommit /\ model' = model /\ pending' = << >>
  BY DEF CommitCaptured, CommitWhole, CommitPrefix
<1>2. /\ session.status = "open" /\ pending[1] \in Pending /\ k <= pending[1].drafts
      /\ reported.pending > 0 /\ CudaTypeOK
  BY <1>1, AtACommit
<1>3. /\ model = "warm" /\ k <= reported.pending /\ reported.promised = reported.position + k
      /\ reported.state = "whole"
  BY <1>1, <1>2 DEF CanCommit, ReportedInv, AnswersFollow, DraftsFollow
<1>4. k \in Nat
  BY <1>2, ReportedNumbers DEF Pending
<1>5. CASE AnswerOk
  <2> HIDE DEF k
  <2> QED BY <1>1, <1>2, <1>3, <1>4, <1>5, CommitsKeepThePrefix
<1>6. CASE \E outcome : AnswerError(outcome)
  BY <1>1, <1>3, <1>6, ErrorsAreKept
<1>7. CASE Continue([IdleCall EXCEPT !.at = "replay", !.accepted = k])
  <2> HIDE DEF k
  <2>1. /\ call'.at = "replay" /\ call'.accepted = k /\ session' = session
        /\ reported' = reported
    BY <1>7 DEF Continue, IdleCall
  <2>2. ModelServes' /\ AnswersFollow' /\ DraftsFollow'
    BY <1>1, <1>2, <1>3, <2>1 DEF ModelServes, AnswersFollow, DraftsFollow, Undecided, Idle
  <2> QED BY <1>1, <2>1, <2>2, StepsAreSilent DEF Implements, ReportedInv
<1> QED BY <1>5, <1>6, <1>7 DEF CommitCaptured, CommitWhole, CommitPrefix, Fails

LEMMA ReplayImplements ==
  ASSUME CudaInv, CudaInv', ReportedInv, Replay \/ ReplayEnds
  PROVE  Implements
<1>1. /\ call.at = "replay" /\ call \in Call /\ CudaTypeOK
      /\ pending = << >> /\ session.status = "open" /\ call.accepted \in Nat
      /\ reported.pending > 0
  BY AtAReplay DEF Replay, ReplayEnds
<1>2. /\ model = "warm" /\ model' = model /\ pending' = << >>
      /\ call.accepted <= reported.pending /\ reported.state = "whole"
      /\ reported.promised = reported.position + call.accepted
  BY <1>1 DEF Replay, ReplayEnds, ExecutorUnchanged, ReportedInv, ModelServes, AnswersFollow,
              DraftsFollow, Idle
<1>3. CASE Replay
  <2>1. Continue([call EXCEPT !.done = @ + 1])
    BY <1>3 DEF Replay
  <2>2. /\ call'.at = "replay" /\ call'.accepted = call.accepted
        /\ session' = session /\ reported' = reported
    BY <1>1, <2>1 DEF Continue, Call
  <2>3. ModelServes' /\ AnswersFollow' /\ DraftsFollow'
    BY <1>1, <1>2, <2>2 DEF ModelServes, AnswersFollow, DraftsFollow, Undecided, Idle
  <2> QED BY <1>2, <2>2, <2>3, StepsAreSilent DEF Implements, ReportedInv
<1>4. CASE AnswerOk
  BY <1>1, <1>2, <1>4, CommitsKeepThePrefix
<1>5. CASE \E outcome : AnswerError(outcome)
  BY <1>2, <1>5, ErrorsAreKept
<1> QED BY <1>3, <1>4, <1>5 DEF ReplayEnds, Fails

LEMMA StepImplements ==
  ASSUME CudaInv, CudaInv', ReportedInv, [CudaNext]_vars
  PROVE  Implements
<1>1. CASE Load \/ Warmup \/ ResetSession \/ Unload
  BY <1>1, LifecycleImplements
<1>2. CASE Prefill \/ PrefillChunk
  BY <1>2, PrefillImplements
<1>3. CASE \/ PrefillCancelled \/ DecodeRefused \/ CapturedBlockFails \/ FirstTokenFails
           \/ SerialCandidateFails \/ SerialCancelled \/ CommitCancelled \/ CommitRefused
           \/ ReplayStops
  BY <1>3, FailuresAreErrors
<1>4. CASE Decode
  BY <1>4, DecodeImplements
<1>5. CASE Seed
  BY <1>5, SeedImplements
<1>6. CASE CapturedBlock
  BY <1>6, BlockImplements
<1>7. CASE FirstToken
  BY <1>7, FirstTokenImplements
<1>8. CASE SerialCandidate
  BY <1>8, CandidateImplements
<1>9. CASE CommitCaptured \/ CommitWhole \/ CommitPrefix
  BY <1>9, CommitImplements
<1>10. CASE Replay \/ ReplayEnds
  BY <1>10, ReplayImplements
<1>11. CASE UNCHANGED vars
  <2>1. UNCHANGED <<model, pending, graph, call, session, reported>>
    BY <1>11 DEF vars
  <2>2. ModelServes' /\ AnswersFollow' /\ DraftsFollow'
    BY <2>1 DEF ReportedInv, ModelServes, AnswersFollow, DraftsFollow, Undecided, Idle
  <2> QED BY <2>1, <2>2, StepsAreSilent DEF Implements, ReportedInv
<1> QED BY <1>1, <1>2, <1>3, <1>4, <1>5, <1>6, <1>7, <1>8, <1>9, <1>10, <1>11 DEF CudaNext

(* CudaModelExecutor answers as the ModelExecutor trait promises the engine: *)
(* a prompt once and whole, for a decode one token and a branch that fits,   *)
(* in a block or candidate by candidate, for a commit exactly the accepted   *)
(* prefix, also after a replay, and every failure as an error.               *)
THEOREM CudaImplementsExecutor ==
  CudaSpec => ImplementsExecutor
<1>1. CudaInit => ReportedInv /\ Contract!ExecutorInit
  <2> SUFFICES ASSUME CudaInit PROVE ReportedInv /\ Contract!ExecutorInit
    OBVIOUS
  <2>1. /\ model = "new" /\ pending = << >> /\ call.at = "idle" /\ session.status = "none"
        /\ reported.position = 0 /\ reported.pending = 0 /\ reported.state = "whole"
    BY DEF CudaInit, IdleCall, Untouched
  <2> QED BY <2>1 DEF ReportedInv, ModelServes, AnswersFollow, DraftsFollow, Undecided, Idle,
                      Contract!ExecutorInit
<1>2. CudaInv /\ CudaInv' /\ ReportedInv /\ [CudaNext]_vars
      => ReportedInv' /\ [Contract!ContractNext]_(Contract!executorVars)
  BY StepImplements DEF Implements
<1> QED BY <1>1, <1>2, InvAlwaysHolds, PTL
        DEF CudaSpec, ImplementsExecutor, Contract!ContractSpec

=============================================================================
