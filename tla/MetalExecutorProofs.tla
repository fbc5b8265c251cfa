------------------------- MODULE MetalExecutorProofs -------------------------
(***************************************************************************)
(* Proofs about the attention owner MetalPagedKv, for every policy prepare *)
(* is called with, and about the executor MetalExecutor and the branch     *)
(* over all its owners, for every context, draft depth, prompt and         *)
(* proposal.                                                               *)
(***************************************************************************)
EXTENDS MetalExecutor, FiniteSetTheorems, SequenceTheorems, WellFoundedInduction, TLAPS

Page == [tokens : Cells, precision : {Q2, Q4}]

(* The metadata of count tokens: every page but the last is full.           *)
BookInv(book, count) ==
    /\ count \in 0 .. policy.maximum_tokens
    /\ book \in Seq(Page)
    /\ \A a \in DOMAIN book : a < Len(book) => book[a].tokens = policy.page_tokens
    /\ IF Len(book) = 0 THEN count = 0
       ELSE count = PageStart(Len(book)) + book[Len(book)].tokens

TableType(table) == table \in [PageIndices -> Slots \cup {NoSlot}]

(* Each slot is in the pool once or backs exactly one page.                 *)
Partition(table, pool) ==
    /\ \A a, b \in PageIndices : table[a] # NoSlot /\ table[a] = table[b] => a = b
    /\ \A i, j \in DOMAIN pool : pool[i] = pool[j] => i = j
    /\ \A a \in PageIndices, i \in DOMAIN pool : table[a] # pool[i]
    /\ \A slot \in Slots : \/ \E a \in PageIndices : table[a] = slot
                           \/ \E i \in DOMAIN pool : pool[i] = slot

(* The backed pages are those at Q4, and a page is at Q2 only if it is      *)
(* full: it will never again be written.                                    *)
SlotInv(book, table, pool) ==
    /\ Partition(table, pool)
    /\ \A a \in PageIndices : table[a] # NoSlot <=> a \in DOMAIN book /\ book[a].precision = Q4
    /\ \A a \in DOMAIN book : book[a].precision = Q2 => book[a].tokens = policy.page_tokens

Mark == [tokens : Nat, pages : Nat, last_page_tokens : Nat,
         page_to_q4_slot : [PageIndices -> Slots \cup {NoSlot}],
         free_q4_slots : Seq(Slots)]

(* What Truncated makes of some pages.                                      *)
Cut(book, mark) ==
    [index \in 1 .. mark.pages |->
        IF index < mark.pages THEN book[index]
        ELSE [book[index] EXCEPT !.tokens = mark.last_page_tokens]]

(* What a branch is taken back to is a state of the owner as good as the    *)
(* present one, and the branch has left its slots alone: it took new ones   *)
(* from its pool only.                                                      *)
MarkInv(mark, book, count, table, pool) ==
    /\ mark \in Mark
    /\ mark.tokens <= count /\ mark.pages <= Len(book)
    /\ mark.pages = 0 => mark.last_page_tokens = 0
    /\ mark.pages # 0 => mark.last_page_tokens \in 1 .. book[mark.pages].tokens
    /\ BookInv(Cut(book, mark), mark.tokens)
    /\ SlotInv(Cut(book, mark), mark.page_to_q4_slot, mark.free_q4_slots)
    /\ \A a \in PageIndices :
          mark.page_to_q4_slot[a] # NoSlot => table[a] = mark.page_to_q4_slot[a]
    /\ \A i \in DOMAIN pool :
          \E j \in DOMAIN mark.free_q4_slots : mark.free_q4_slots[j] = pool[i]

Arena(areas) == [areas -> [Cells -> Values \cup {Junk}]]

BranchInv(branch, book, count, table, pool) ==
    \/ branch = << >>
    \/ \E mark \in Mark : branch = <<mark>> /\ MarkInv(mark, book, count, table, pool)

MetalInv ==
    /\ policy \in Policies
    /\ BookInv(pages, tokens)
    /\ TableType(page_to_q4_slot)
    /\ free_q4_slots \in Seq(Slots)
    /\ q2_pages \in Arena(PageIndices) /\ q4_pages \in Arena(Slots)
    /\ poisoned \in BOOLEAN
    /\ ~poisoned => SlotInv(pages, page_to_q4_slot, free_q4_slots)
    /\ BranchInv(checkpoint, pages, tokens, page_to_q4_slot, free_q4_slots)

-----------------------------------------------------------------------------
(* Sequences and arithmetic *)

\* A finite set of numbers can be listed in order, and InOrder does so.
LEMMA InOrderFacts ==
  ASSUME NEW S, S \subseteq Nat, IsFiniteSet(S)
  PROVE  /\ Cardinality(S) \in Nat
         /\ InOrder(S) \in [1 .. Cardinality(S) -> S]
         /\ \A i, j \in 1 .. Cardinality(S) : InOrder(S)[i] = InOrder(S)[j] => i = j
         /\ \A x \in S : \E i \in 1 .. Cardinality(S) : InOrder(S)[i] = x
<1> DEFINE n == Cardinality(S)
           upTo(x) == {y \in S : y <= x}
           rank == [x \in S |-> Cardinality(upTo(x))]
<1>1. n \in Nat
  BY FS_CardinalityType
<1>2. \A x \in S : /\ IsFiniteSet(upTo(x)) /\ Cardinality(upTo(x)) \in 1 .. n
  <2> SUFFICES ASSUME NEW x \in S
               PROVE  IsFiniteSet(upTo(x)) /\ Cardinality(upTo(x)) \in 1 .. n
    OBVIOUS
  <2>1. upTo(x) \in SUBSET S /\ x \in upTo(x)
    OBVIOUS
  <2> HIDE DEF upTo
  <2>2. IsFiniteSet(upTo(x)) /\ Cardinality(upTo(x)) <= n
    BY <2>1, FS_Subset
  <2>3. Cardinality(upTo(x)) \in Nat /\ Cardinality(upTo(x)) # 0
    BY <2>1, <2>2, FS_CardinalityType, FS_EmptySet
  <2> QED BY <1>1, <2>2, <2>3
<1>3. \A x, y \in S : x < y => rank[x] < rank[y]
  <2> SUFFICES ASSUME NEW x \in S, NEW y \in S, x < y PROVE rank[x] < rank[y]
    OBVIOUS
  <2>1. /\ upTo(x) \in SUBSET upTo(y) /\ upTo(x) # upTo(y)
        /\ rank[x] = Cardinality(upTo(x)) /\ rank[y] = Cardinality(upTo(y))
    <3>1. x \in Nat /\ y \in Nat /\ y \notin upTo(x) /\ y \in upTo(y)
      OBVIOUS
    <3>2. ASSUME NEW z \in upTo(x) PROVE z \in upTo(y)
      <4>1. z \in S /\ z \in Nat /\ z <= x
        OBVIOUS
      <4> QED BY <3>1, <4>1
    <3>3. rank[x] = Cardinality(upTo(x)) /\ rank[y] = Cardinality(upTo(y))
      BY DEF rank
    <3> HIDE DEF rank, upTo
    <3> QED BY <3>1, <3>2, <3>3
  <2>2. /\ IsFiniteSet(upTo(y)) /\ Cardinality(upTo(x)) \in 1 .. n
        /\ Cardinality(upTo(y)) \in 1 .. n
    BY <1>2
  <2> HIDE DEF upTo, rank
  <2>3. Cardinality(upTo(x)) <= Cardinality(upTo(y))
        /\ (Cardinality(upTo(y)) = Cardinality(upTo(x)) => upTo(y) = upTo(x))
    BY <2>1, <2>2, FS_Subset
  <2> QED BY <1>1, <2>1, <2>2, <2>3
<1>4. rank \in [S -> 1 .. n]
  BY <1>2
<1> HIDE DEF rank
<1>5. rank \in Injection(S, 1 .. n)
  <2>1. \A x, y \in S : rank[x] = rank[y] => x = y
    BY <1>1, <1>3, <1>4
  <2> QED BY <1>4, <2>1 DEF Injection, IsInjective
<1>6. rank \in Surjection(S, 1 .. n)
  <2>1. IsFiniteSet(1 .. n) /\ Cardinality(1 .. n) = n
    BY <1>1, FS_Interval
  <2> QED BY <1>5, <2>1, FS_Injection
<1>7. \A i \in 1 .. n : \E x \in S : rank[x] = i
  BY <1>6 DEF Surjection
<1> DEFINE listed == [i \in 1 .. n |-> CHOOSE x \in S : rank[x] = i]
<1>8. listed \in [1 .. n -> S] /\ DOMAIN listed = 1 .. n
      /\ \A i \in 1 .. n : rank[listed[i]] = i
  BY <1>7
<1> HIDE DEF listed
<1>9. \A i, j \in DOMAIN listed : i < j => listed[i] < listed[j]
  <2> SUFFICES ASSUME NEW i \in 1 .. n, NEW j \in 1 .. n, i < j
               PROVE  listed[i] < listed[j]
    BY <1>8
  <2>1. listed[i] \in S /\ listed[j] \in S /\ rank[listed[i]] = i /\ rank[listed[j]] = j
    BY <1>8
  <2>2. listed[i] \in Nat /\ listed[j] \in Nat
    BY <2>1
  <2>3. listed[j] < listed[i] => j < i
    BY <1>3, <2>1
  <2>4. listed[i] # listed[j]
    BY <2>1
  <2> QED BY <2>2, <2>3, <2>4
<1>10. /\ InOrder(S) \in [1 .. n -> S]
       /\ \A i, j \in DOMAIN InOrder(S) : i < j => InOrder(S)[i] < InOrder(S)[j]
  BY <1>8, <1>9 DEF InOrder
<1> DEFINE order == InOrder(S)
<1> HIDE DEF order
<1>11. \A i, j \in 1 .. n : order[i] = order[j] => i = j
  <2>1. ASSUME NEW i \in 1 .. n, NEW j \in 1 .. n, order[i] = order[j], i < j PROVE FALSE
    <3>1. order[i] \in Nat /\ order[i] < order[j]
      BY <1>10, <2>1 DEF order
    <3> QED BY <2>1, <3>1
  <2>2. ASSUME NEW i \in 1 .. n, NEW j \in 1 .. n, order[i] = order[j], j < i PROVE FALSE
    <3>1. order[i] \in Nat /\ order[j] < order[i]
      BY <1>10, <2>2 DEF order
    <3> QED BY <2>2, <3>1
  <2> QED BY <1>1, <2>1, <2>2
<1>12. order \in Injection(1 .. n, S)
  BY <1>10, <1>11 DEF Injection, IsInjective, order
<1>13. order \in Surjection(1 .. n, S)
  <2>1. IsFiniteSet(1 .. n) /\ Cardinality(1 .. n) = n
    BY <1>1, FS_Interval
  <2> QED BY <1>12, <2>1, FS_Injection
<1> QED BY <1>1, <1>10, <1>11, <1>13 DEF Surjection, order

LEMMA DivMod ==
  ASSUME NEW a \in Nat, NEW n \in Nat \ {0}
  PROVE  /\ a \div n \in Nat /\ a % n \in 0 .. n - 1
         /\ a = n * (a \div n) + (a % n)
OBVIOUS

LEMMA Monotone ==
  ASSUME NEW n \in Nat, NEW a \in Int, NEW b \in Int, a <= b
  PROVE  n * a <= n * b
<1>1. n * (b - a) >= 0
  OBVIOUS
<1> QED BY <1>1

LEMMA OnePageMore ==
  ASSUME NEW n \in Nat, NEW a \in Nat
  PROVE  (a - 1) * n + n = (a + 1 - 1) * n
OBVIOUS

\* The least number of pages of n that hold a tokens.
LEMMA Ceiling ==
  ASSUME NEW a \in Nat, NEW n \in Nat \ {0}
  PROVE  /\ CeilDiv(a, n) \in Nat /\ a <= n * CeilDiv(a, n)
         /\ \A k \in Nat : n * k < a => k + 1 <= CeilDiv(a, n)
<1> DEFINE c == (a + n - 1) \div n
           r == (a + n - 1) % n
<1>1. /\ c \in Nat /\ r \in 0 .. n - 1 /\ a + n - 1 = n * c + r
  <2>1. a + n - 1 \in Nat
    OBVIOUS
  <2> QED BY <2>1, DivMod
<1>2. CeilDiv(a, n) = c
  BY DEF CeilDiv
<1> HIDE DEF c, r
<1>3. a <= n * c
  <2>1. n * c \in Nat
    BY <1>1
  <2> QED BY <1>1, <2>1
<1>4. ASSUME NEW k \in Nat, n * k < a PROVE k + 1 <= c
  <2> SUFFICES ASSUME c <= k PROVE FALSE
    BY <1>1
  <2>1. n * c <= n * k
    BY <1>1, Monotone
  <2>2. n * k \in Nat /\ n * c \in Nat
    BY <1>1
  <2> QED BY <1>1, <1>4, <2>1, <2>2
<1> QED BY <1>1, <1>2, <1>3, <1>4

-----------------------------------------------------------------------------
(* The pages after an append *)

LEMMA Geometry ==
  ASSUME policy \in Policies
  PROVE  /\ policy.page_tokens \in Nat \ {0} /\ policy.maximum_tokens \in Nat \ {0}
         /\ policy.sink_tokens \in Nat /\ policy.recent_tokens \in Nat
         /\ policy.recent_tokens > 0 => policy.sink_tokens % policy.page_tokens = 0
         /\ MaximumPages(policy) \in Nat \ {0} /\ Q4Slots(policy) \in Nat \ {0}
         /\ Q4Slots(policy) <= MaximumPages(policy)
<1>1. policy \in Policy
  BY PoliciesAssumption
<1>2. /\ policy.page_tokens \in Nat \ {0} /\ policy.maximum_tokens \in Nat \ {0}
      /\ policy.sink_tokens \in Nat /\ policy.recent_tokens \in Nat
  BY <1>1 DEF Policy
<1>3. policy.recent_tokens > 0 => policy.sink_tokens % policy.page_tokens = 0
  BY PoliciesAssumption
<1>4. MaximumPages(policy) \in Nat \ {0}
  <2>1. /\ CeilDiv(policy.maximum_tokens, policy.page_tokens) \in Nat
        /\ policy.page_tokens * 0 < policy.maximum_tokens
            => 0 + 1 <= CeilDiv(policy.maximum_tokens, policy.page_tokens)
    BY <1>2, Ceiling
  <2> QED BY <1>2, <2>1 DEF MaximumPages
<1>5. /\ policy.sink_tokens \div policy.page_tokens \in Nat
      /\ CeilDiv(policy.recent_tokens, policy.page_tokens) \in Nat
  BY <1>2, DivMod, Ceiling
<1>6. /\ Q4Slots(policy) \in Nat \ {0} /\ Q4Slots(policy) <= MaximumPages(policy)
  BY <1>4, <1>5 DEF Q4Slots, Lesser
<1> QED BY <1>2, <1>3, <1>4, <1>6

\* A book of at most maximum_tokens has at most MaximumPages pages.
LEMMA PagesFit ==
  ASSUME policy \in Policies, NEW book, NEW count, BookInv(book, count)
  PROVE  /\ Len(book) \in 0 .. MaximumPages(policy) /\ DOMAIN book = 1 .. Len(book)
         /\ DOMAIN book \subseteq PageIndices
         /\ \A a \in DOMAIN book : book[a] \in Page
<1> DEFINE n == Len(book)
<1>1. /\ n \in Nat /\ DOMAIN book = 1 .. n /\ \A a \in 1 .. n : book[a] \in Page
  BY DEF BookInv
<1>2. n <= MaximumPages(policy)
  <2>1. CASE n = 0
    BY <2>1, Geometry
  <2>2. CASE n # 0
    <3>1. /\ count = PageStart(n) + book[n].tokens /\ count <= policy.maximum_tokens
          /\ book[n].tokens \in Nat \ {0}
      BY <1>1, <2>2, Geometry DEF BookInv, Page, Cells
    <3>2. PageStart(n) = policy.page_tokens * (n - 1) /\ n - 1 \in Nat
          /\ policy.page_tokens * (n - 1) \in Nat
      BY <1>1, <2>2, Geometry DEF PageStart
    <3>3. policy.page_tokens * (n - 1) < policy.maximum_tokens
      <4>1. policy.maximum_tokens \in Nat
        BY Geometry
      <4> QED BY ONLY <3>1, <3>2, <4>1
    <3>4. (n - 1) + 1 <= CeilDiv(policy.maximum_tokens, policy.page_tokens)
      BY <3>2, <3>3, Ceiling, Geometry
    <3> QED BY <1>1, <3>4 DEF MaximumPages
  <2> QED BY <2>1, <2>2
<1> QED BY <1>1, <1>2, Geometry DEF PageIndices

Gone == IF checkpoint # << >> THEN {} ELSE Demoted(Counted(Opened), tokens + 1)

\* The pages with the new token, before any of them is demoted.
LEMMA CountedFacts ==
  ASSUME policy \in Policies, BookInv(pages, tokens), tokens < policy.maximum_tokens,
         NEW book, book = Counted(Opened), NEW n, n = Len(book)
  PROVE  /\ BookInv(book, tokens + 1)
         /\ n \in Nat \ {0}
         /\ n = Len(pages) \/ n = Len(pages) + 1
         /\ \A a \in 1 .. n : a < n => book[a] = pages[a]
         /\ n = Len(pages) => /\ pages[n].tokens < policy.page_tokens
                              /\ book[n].tokens = pages[n].tokens + 1
                              /\ book[n].precision = pages[n].precision
         /\ n # Len(pages) => /\ book[n] = [tokens |-> 1, precision |-> Q4]
                              /\ tokens = PageStart(n)
                              /\ \A a \in 1 .. Len(pages) : pages[a].tokens = policy.page_tokens
<1> DEFINE P == policy.page_tokens
           m == Len(pages)
           fresh == [tokens |-> 0, precision |-> Q4]
           Loose == [tokens : Nat, precision : {Q2, Q4}]
<1>1. /\ m \in Nat /\ DOMAIN pages = 1 .. m /\ pages \in Seq(Page)
      /\ \A a \in 1 .. m : pages[a] \in Page
  BY PagesFit DEF BookInv
<1>2. P \in Nat \ {0}
  BY Geometry
<1>3. /\ pages \in Seq(Loose)
      /\ \A a \in 1 .. m : pages[a].tokens \in 1 .. P /\ pages[a].precision \in {Q2, Q4}
  <2>1. Page \subseteq Loose
    BY <1>2 DEF Page, Cells
  <2>2. \A a \in 1 .. m : pages[a].tokens \in 1 .. P /\ pages[a].precision \in {Q2, Q4}
    BY <1>1 DEF Page, Cells
  <2> HIDE DEF Loose
  <2>3. \A a \in 1 .. m : pages[a] \in Loose
    BY <1>1, <2>1
  <2>4. pages \in Seq(Loose)
    BY <1>1, <2>3
  <2> QED BY <2>2, <2>4
<1>4. pages = << >> <=> m = 0
  BY <1>1
<1>5. CASE m # 0 /\ pages[m].tokens # P
  <2>1. Opened = pages
    BY <1>4, <1>5 DEF Opened, Last
  <2>2. book = [pages EXCEPT ![m] = [pages[m] EXCEPT !.tokens = pages[m].tokens + 1]]
    BY <2>1 DEF Counted
  <2>3. /\ n = m /\ m \in 1 .. m /\ DOMAIN book = 1 .. m
        /\ book[m] = [pages[m] EXCEPT !.tokens = pages[m].tokens + 1]
        /\ \A a \in 1 .. m : a < m => book[a] = pages[a]
    BY <1>1, <1>5, <2>2
  <2>4. /\ book[m].tokens = pages[m].tokens + 1 /\ book[m].precision = pages[m].precision
        /\ pages[m].tokens \in 1 .. P - 1 /\ book[m] \in Page
    <3>1. pages[m] \in [tokens : 1 .. P, precision : {Q2, Q4}] /\ pages[m].tokens # P
      BY <1>1, <1>5, <2>3 DEF Page, Cells
    <3>2. pages[m].tokens \in 1 .. P - 1 /\ pages[m].tokens + 1 \in 1 .. P
      BY ONLY <1>2, <3>1
    <3>3. /\ book[m].tokens = pages[m].tokens + 1 /\ book[m].precision = pages[m].precision
          /\ book[m] \in [tokens : 1 .. P, precision : {Q2, Q4}]
      BY <2>3, <3>1, <3>2
    <3> QED BY <3>2, <3>3 DEF Page, Cells
  <2>5. book \in Seq(Page)
    BY <1>1, <2>2, <2>3, <2>4
  <2>6. tokens = PageStart(m) + pages[m].tokens /\ PageStart(m) \in Nat /\ tokens \in Nat
    BY <1>1, <1>2, <1>5, Geometry DEF BookInv, PageStart
  <2>7. tokens + 1 = PageStart(m) + book[m].tokens
    BY <1>3, <2>3, <2>4, <2>6
  <2>8. \A a \in 1 .. m : a < m => book[a].tokens = P
    BY <1>1, <2>3 DEF BookInv
  <2>9. BookInv(book, tokens + 1)
    BY <1>1, <1>5, <2>3, <2>5, <2>6, <2>7, <2>8, Geometry DEF BookInv
  <2> QED BY <1>1, <1>2, <1>5, <2>3, <2>4, <2>9
<1>6. CASE m = 0 \/ pages[m].tokens = P
  <2>1. Opened = Append(pages, fresh)
    BY <1>4, <1>6 DEF Opened, Last
  <2>2. fresh \in Loose
    BY DEF Q4
  <2> DEFINE opened == Append(pages, fresh)
  <2>3. /\ opened \in Seq(Loose) /\ Len(opened) = m + 1 /\ DOMAIN opened = 1 .. m + 1
        /\ opened[m + 1] = fresh /\ \A a \in 1 .. m : opened[a] = pages[a]
    BY <1>1, <1>3, <2>2
  <2> HIDE DEF opened
  <2>4. book = [opened EXCEPT ![m + 1] = [opened[m + 1] EXCEPT !.tokens = opened[m + 1].tokens + 1]]
    BY <2>1, <2>3 DEF Counted, opened
  <2>5. m + 1 \in 1 .. m + 1
    BY <1>1
  <2>6. [opened[m + 1] EXCEPT !.tokens = opened[m + 1].tokens + 1]
           = [tokens |-> 1, precision |-> Q4]
    BY <2>3
  <2>7. /\ DOMAIN book = 1 .. m + 1 /\ book[m + 1] = [tokens |-> 1, precision |-> Q4]
        /\ \A a \in 1 .. m + 1 : a < m + 1 => book[a] = pages[a]
    BY <1>1, <2>3, <2>4, <2>5, <2>6
  <2>8. book \in [1 .. m + 1 -> Page] /\ book = [a \in 1 .. m + 1 |-> book[a]]
    <3>1. [tokens |-> 1, precision |-> Q4] \in Page
      BY <1>2 DEF Page, Cells
    <3>2. \A a \in 1 .. m + 1 : book[a] \in Page
      BY <1>1, <2>7, <3>1
    <3>3. book = [a \in 1 .. m + 1 |-> book[a]]
      BY <2>3, <2>4, <2>7
    <3> QED BY <3>2, <3>3
  <2>9. book \in Seq(Page) /\ n = m + 1
    <3>1. m + 1 \in Nat
      BY <1>1
    <3> QED BY <2>8, <3>1
  <2>10. tokens = PageStart(m + 1) /\ tokens \in Nat
    <3>1. CASE m = 0
      BY <1>2, <3>1 DEF BookInv, PageStart
    <3>2. CASE m # 0
      <4>1. tokens = (m - 1) * P + P /\ tokens \in Nat
        BY <1>1, <1>6, <3>2, Geometry DEF BookInv, PageStart
      <4>2. (m - 1) * P + P = (m + 1 - 1) * P
        BY ONLY <1>1, <1>2, OnePageMore
      <4> QED BY <4>1, <4>2 DEF PageStart
    <3> QED BY <3>1, <3>2
  <2>11. \A a \in 1 .. m : pages[a].tokens = P
    BY <1>1, <1>6 DEF BookInv
  <2>12. BookInv(book, tokens + 1)
    <3>1. \A a \in DOMAIN book : a < Len(book) => book[a].tokens = P
      BY <1>1, <2>7, <2>9, <2>11
    <3>2. tokens + 1 \in 0 .. policy.maximum_tokens
      BY <2>10, Geometry
    <3>3. book[m + 1].tokens = 1
      BY <2>7
    <3> QED BY <1>1, <2>9, <2>10, <3>1, <3>2, <3>3 DEF BookInv
  <2>13. book[n] = [tokens |-> 1, precision |-> Q4] /\ tokens = PageStart(n)
    BY <2>7, <2>9, <2>10
  <2>14. n # m /\ n \in Nat \ {0} /\ \A a \in 1 .. n : a < n => book[a] = pages[a]
    <3>1. n = m + 1 /\ m \in Nat
      BY <1>1, <2>9
    <3>2. \A a \in 1 .. n : a < n => book[a] = pages[a]
      BY ONLY <2>7, <3>1
    <3> QED BY ONLY <3>1, <3>2
  <2> QED BY <2>9, <2>11, <2>12, <2>13, <2>14
<1> QED BY <1>5, <1>6

\* An append demotes whole pages, keeps what they hold, and none in a branch.
LEMMA PushFacts ==
  ASSUME policy \in Policies, BookInv(pages, tokens), tokens < policy.maximum_tokens,
         NEW book, book = Counted(Opened), NEW n, n = Len(book)
  PROVE  /\ Gone \subseteq 1 .. n /\ IsFiniteSet(Gone) /\ Gone \subseteq Nat
         /\ \A a \in Gone : /\ checkpoint = << >> /\ book[a].precision = Q4
                            /\ PageStart(a) >= policy.sink_tokens
                            /\ PageStart(a) + book[a].tokens
                                  <= SaturatingSub(tokens + 1, policy.recent_tokens)
         /\ checkpoint = << >> => Gone = Demoted(book, tokens + 1)
         /\ Pushed.demoted = InOrder(Gone)
         /\ Len(Pushed.pages) = n /\ DOMAIN Pushed.pages = 1 .. n
         /\ BookInv(Pushed.pages, tokens + 1)
         /\ \A a \in 1 .. n :
               /\ Pushed.pages[a].tokens = book[a].tokens
               /\ Pushed.pages[a].precision = IF a \in Gone THEN Q2 ELSE book[a].precision
               /\ a \notin Gone => Pushed.pages[a] = book[a]
<1>1. /\ BookInv(book, tokens + 1) /\ n \in Nat \ {0}
  BY CountedFacts
<1>2. /\ DOMAIN book = 1 .. n /\ \A a \in 1 .. n : book[a] \in Page
  BY <1>1, PagesFit
<1>3. /\ Gone \subseteq 1 .. n
      /\ \A a \in Gone : /\ checkpoint = << >> /\ book[a].precision = Q4
                         /\ PageStart(a) >= policy.sink_tokens
                         /\ PageStart(a) + book[a].tokens
                               <= SaturatingSub(tokens + 1, policy.recent_tokens)
      /\ checkpoint = << >> => Gone = Demoted(book, tokens + 1)
  BY <1>2 DEF Gone, Demoted
<1>4. IsFiniteSet(Gone)
  <2>1. IsFiniteSet(1 .. n)
    BY <1>1, FS_Interval
  <2> QED BY <1>3, <2>1, FS_Subset
<1> DEFINE after == [a \in 1 .. n |->
                IF a \in Gone THEN [book[a] EXCEPT !.precision = Q2] ELSE book[a]]
<1>5. Pushed.demoted = InOrder(Gone) /\ Pushed.pages = after
  BY <1>2 DEF Pushed, PushInto, Gone
<1>6. \A a \in 1 .. n : /\ after[a].tokens = book[a].tokens /\ after[a] \in Page
                        /\ after[a].precision = IF a \in Gone THEN Q2 ELSE book[a].precision
  <2> SUFFICES ASSUME NEW a \in 1 .. n
               PROVE  /\ after[a].tokens = book[a].tokens /\ after[a] \in Page
                      /\ after[a].precision = IF a \in Gone THEN Q2 ELSE book[a].precision
    OBVIOUS
  <2>1. after[a] = IF a \in Gone THEN [book[a] EXCEPT !.precision = Q2] ELSE book[a]
    OBVIOUS
  <2>2. book[a] \in [tokens : Cells, precision : {Q2, Q4}]
    BY <1>2 DEF Page
  <2> HIDE DEF after
  <2> QED BY <2>1, <2>2 DEF Page
<1>7. after \in [1 .. n -> Page] /\ DOMAIN after = 1 .. n
  BY <1>6
<1> HIDE DEF after
<1>8. after \in Seq(Page) /\ Len(after) = n
  BY <1>1, <1>7
<1>9. BookInv(after, tokens + 1)
  <2>1. \A a \in DOMAIN after : a < Len(after) => after[a].tokens = policy.page_tokens
    BY <1>1, <1>2, <1>6, <1>7, <1>8 DEF BookInv
  <2>2. tokens + 1 = PageStart(n) + after[n].tokens /\ tokens + 1 \in 0 .. policy.maximum_tokens
    BY <1>1, <1>6 DEF BookInv
  <2> QED BY <1>1, <1>8, <2>1, <2>2 DEF BookInv
<1>10. Gone \subseteq Nat
  BY <1>3
<1>11. \A a \in 1 .. n : a \notin Gone => Pushed.pages[a] = book[a]
  BY <1>5 DEF after
<1> QED BY <1>3, <1>4, <1>5, <1>6, <1>7, <1>8, <1>9, <1>10, <1>11

-----------------------------------------------------------------------------
(* The table and the pool after the releases *)

\* What is released is a part of what is demoted, in the same order, and every
\* released page is full and has a slot; it is all of it, or the next page is
\* partial or has none.
ReleasesRightly(pushed, gone, r) ==
    /\ r \in Seq(gone)
    /\ Len(r) <= Cardinality(gone) /\ Len(pushed.demoted) = Cardinality(gone)
    /\ \A i, j \in DOMAIN r : r[i] = r[j] => i = j
    /\ \A i \in DOMAIN r : /\ pushed.pages[r[i]].tokens = policy.page_tokens
                           /\ page_to_q4_slot[r[i]] # NoSlot
    /\ Len(r) = Cardinality(gone) => \A a \in gone : a \in ToSet(r)
    /\ (\A a \in gone : /\ pushed.pages[a].tokens = policy.page_tokens
                        /\ page_to_q4_slot[a] # NoSlot) => Len(r) = Cardinality(gone)

LEMMA ReleasedFacts ==
  ASSUME NEW gone, gone \subseteq PageIndices, IsFiniteSet(gone), gone \subseteq Nat,
         NEW pushed, pushed.demoted = InOrder(gone),
         NEW r, r = Released(pushed)
  PROVE  ReleasesRightly(pushed, gone, r)
<1> DEFINE d == pushed.demoted
           c == Cardinality(gone)
           bad(page) == \/ pushed.pages[page].tokens # policy.page_tokens
                        \/ page_to_q4_slot[page] = NoSlot
           stops == {i \in 1 .. Len(d) : bad(d[i])}
<1>1. /\ c \in Nat /\ d \in [1 .. c -> gone]
      /\ \A i, j \in 1 .. c : d[i] = d[j] => i = j
      /\ \A x \in gone : \E i \in 1 .. c : d[i] = x
  <2>1. d = InOrder(gone)
    OBVIOUS
  <2> HIDE DEF d
  <2> QED BY <2>1, InOrderFacts
<1>2. d \in Seq(gone) /\ Len(d) = c /\ DOMAIN d = 1 .. c
  BY <1>1
<1>3. Unreleasable(pushed) = IF stops # {} THEN Min(stops) ELSE 0
  BY DEF Unreleasable, SelectInSeq
<1>4. ASSUME stops = {} PROVE r = d
  BY <1>3, <1>4 DEF Released
<1>5. ASSUME stops # {}
      PROVE  \E m \in 1 .. c : /\ bad(d[m]) /\ \A i \in 1 .. m - 1 : ~bad(d[i])
                               /\ r = SubSeq(d, 1, m - 1)
  <2>1. stops \subseteq 1 .. c /\ \A i \in 1 .. c : i \in stops <=> bad(d[i])
    BY <1>2
  <2> HIDE DEF stops, bad
  <2>2. stops \subseteq Nat
    BY <1>1, <2>1
  <2>3. PICK m \in stops : \A i \in stops : m <= i
    <3> DEFINE R == OpToRel(<, Nat)
    <3>1. IsWellFoundedOn(R, Nat)
      BY NatLessThanWellFounded
    <3>2. R = {ss \in Nat \X Nat : ss[1] < ss[2]}
      BY DEF OpToRel
    <3> HIDE DEF R
    <3>3. PICK x \in stops : \A y \in stops : ~ (<<y, x>> \in R)
      BY ONLY <2>2, <1>5, <3>1, WFMin
    <3>4. \A y \in stops : ~(y < x)
      BY <2>2, <3>2, <3>3
    <3> QED BY <2>2, <3>3, <3>4
  <2>4. Min(stops) = m
    <3>1. \A x \in stops : (\A y \in stops : x <= y) => x = m
      BY <2>2, <2>3
    <3> QED BY <2>3, <3>1 DEF Min
  <2>5. m \in 1 .. c /\ bad(d[m]) /\ \A i \in 1 .. m - 1 : ~bad(d[i])
    BY <1>1, <2>1, <2>3
  <2>6. Unreleasable(pushed) = m /\ m # 0
    BY <1>1, <1>3, <1>5, <2>4, <2>5
  <2>7. r = SubSeq(d, 1, m - 1)
    BY <2>6 DEF Released
  <2> QED BY <2>5, <2>7
<1>6. CASE stops = {}
  <2>1. r = d /\ \A i \in 1 .. c : ~bad(d[i])
    BY <1>2, <1>4, <1>6
  <2>2. \A a \in gone : a \in ToSet(r)
    BY <1>1, <1>2, <2>1 DEF ToSet
  <2> QED BY <1>1, <1>2, <2>1, <2>2 DEF ReleasesRightly
<1>7. CASE stops # {}
  <2>1. PICK m \in 1 .. c : /\ bad(d[m]) /\ \A i \in 1 .. m - 1 : ~bad(d[i])
                            /\ r = SubSeq(d, 1, m - 1)
    BY <1>5, <1>7
  <2> HIDE DEF stops
  <2>2. /\ r \in Seq(gone) /\ Len(r) = m - 1 /\ DOMAIN r = 1 .. m - 1
        /\ \A i \in 1 .. m - 1 : r[i] = d[i]
    BY <1>1, <1>2, <2>1
  <2>3. d[m] \in gone /\ bad(d[m])
    BY <1>1, <2>1
  <2>4. Len(r) < c
    BY <1>1, <2>2
  <2>5. \A i, j \in DOMAIN r : r[i] = r[j] => i = j
    BY <1>1, <2>2
  <2>6. \A i \in DOMAIN r : ~bad(r[i])
    BY <2>1, <2>2
  <2>7. Len(r) <= c /\ Len(r) # c
    BY <1>1, <2>2, <2>4
  <2> QED BY <1>2, <2>2, <2>3, <2>5, <2>6, <2>7 DEF ReleasesRightly
<1> QED BY <1>6, <1>7

LEMMA ReleaseTypes ==
  ASSUME policy \in Policies, TableType(page_to_q4_slot), free_q4_slots \in Seq(Slots),
         NEW r \in Seq(PageIndices), \A i \in DOMAIN r : page_to_q4_slot[r[i]] # NoSlot
  PROVE  /\ TableType(Unmapped(r))
         /\ \A a \in PageIndices :
               Unmapped(r)[a] = IF a \in ToSet(r) THEN NoSlot ELSE page_to_q4_slot[a]
         /\ Returned(r) \in Seq(Slots) /\ Len(Returned(r)) = Len(free_q4_slots) + Len(r)
         /\ \A i \in 1 .. Len(free_q4_slots) : Returned(r)[i] = free_q4_slots[i]
         /\ \A i \in 1 .. Len(r) :
               Returned(r)[Len(free_q4_slots) + i] = page_to_q4_slot[r[i]]
<1> DEFINE back == [i \in DOMAIN r |-> page_to_q4_slot[r[i]]]
           k == Len(r)
           m == Len(free_q4_slots)
<1>1. /\ k \in Nat /\ DOMAIN r = 1 .. k /\ \A i \in 1 .. k : r[i] \in PageIndices
      /\ m \in Nat /\ DOMAIN free_q4_slots = 1 .. m
      /\ \A i \in 1 .. m : free_q4_slots[i] \in Slots
  OBVIOUS
<1>2. \A a \in PageIndices : page_to_q4_slot[a] \in Slots \cup {NoSlot}
  BY DEF TableType
<1>3. back \in [1 .. k -> Slots] /\ \A i \in 1 .. k : back[i] = page_to_q4_slot[r[i]]
  BY <1>1, <1>2
<1> HIDE DEF back
<1>4. back \in Seq(Slots) /\ Len(back) = k
  BY <1>1, <1>3
<1>5. Returned(r) = free_q4_slots \o back
  BY DEF Returned, back
<1> DEFINE joined == free_q4_slots \o back
<1>6. /\ joined \in Seq(Slots) /\ Len(joined) = m + k
      /\ \A i \in 1 .. m : joined[i] = free_q4_slots[i]
      /\ \A i \in 1 .. k : joined[m + i] = back[i]
  <2>1. /\ joined \in Seq(Slots) /\ Len(joined) = m + k
        /\ \A i \in 1 .. m + k : joined[i] = IF i <= m THEN free_q4_slots[i] ELSE back[i - m]
    <3>1. /\ free_q4_slots \o back \in Seq(Slots)
          /\ Len(free_q4_slots \o back) = Len(free_q4_slots) + Len(back)
          /\ \A i \in 1 .. Len(free_q4_slots) + Len(back) : (free_q4_slots \o back)[i] =
                IF i <= Len(free_q4_slots) THEN free_q4_slots[i] ELSE back[i - Len(free_q4_slots)]
      BY <1>4, ConcatProperties, Zenon
    <3> QED BY <1>4, <3>1
  <2> HIDE DEF joined
  <2>2. \A i \in 1 .. m : joined[i] = free_q4_slots[i]
    BY <1>1, <2>1
  <2>3. ASSUME NEW i \in 1 .. k PROVE joined[m + i] = back[i]
    <3>1. m + i \in 1 .. m + k /\ ~(m + i <= m) /\ (m + i) - m = i
      BY <1>1
    <3> QED BY <2>1, <3>1
  <2> QED BY <2>1, <2>2, <2>3
<1> HIDE DEF joined
<1>7. DOMAIN page_to_q4_slot = PageIndices
  BY DEF TableType
<1>8. TableType(Unmapped(r)) /\ \A a \in PageIndices :
          Unmapped(r)[a] = IF a \in ToSet(r) THEN NoSlot ELSE page_to_q4_slot[a]
  BY <1>2, <1>7 DEF Unmapped, TableType
<1> QED BY <1>3, <1>5, <1>6, <1>8 DEF joined

\* The slots of the released pages move into the pool.
LEMMA ReleasePartitions ==
  ASSUME policy \in Policies, TableType(page_to_q4_slot), free_q4_slots \in Seq(Slots),
         Partition(page_to_q4_slot, free_q4_slots),
         NEW r \in Seq(PageIndices), \A i \in DOMAIN r : page_to_q4_slot[r[i]] # NoSlot,
         \A i, j \in DOMAIN r : r[i] = r[j] => i = j
  PROVE  Partition(Unmapped(r), Returned(r))
<1> DEFINE T == page_to_q4_slot
           k == Len(r)
           m == Len(free_q4_slots)
           t == Unmapped(r)
           p == Returned(r)
           N == m + k
<1>1. /\ k \in Nat /\ DOMAIN r = 1 .. k /\ \A i \in 1 .. k : r[i] \in PageIndices
      /\ m \in Nat /\ DOMAIN free_q4_slots = 1 .. m
      /\ \A i \in 1 .. m : free_q4_slots[i] \in Slots
  OBVIOUS
<1>2. \A a \in PageIndices : T[a] \in Slots \cup {NoSlot}
  BY DEF TableType
<1>3. NoSlot \notin Slots
  BY Geometry DEF NoSlot, Slots
<1>4. /\ \A a \in PageIndices : t[a] = IF a \in ToSet(r) THEN NoSlot ELSE T[a]
      /\ p \in Seq(Slots) /\ Len(p) = N
      /\ \A i \in 1 .. m : p[i] = free_q4_slots[i]
      /\ \A i \in 1 .. k : p[m + i] = T[r[i]]
  BY ReleaseTypes
<1>5. DOMAIN p = 1 .. N /\ N \in Nat /\ \A i \in 1 .. N : p[i] \in Slots
  BY <1>1, <1>4
<1>6. /\ \A a, b \in PageIndices : T[a] # NoSlot /\ T[a] = T[b] => a = b
      /\ \A i, j \in 1 .. m : free_q4_slots[i] = free_q4_slots[j] => i = j
      /\ \A a \in PageIndices, i \in 1 .. m : T[a] # free_q4_slots[i]
      /\ \A slot \in Slots : \/ \E a \in PageIndices : T[a] = slot
                             \/ \E i \in 1 .. m : free_q4_slots[i] = slot
  BY <1>1 DEF Partition
<1>7. \A a \in PageIndices : a \in ToSet(r) <=> \E i \in 1 .. k : r[i] = a
  BY <1>1 DEF ToSet
<1> HIDE DEF t, p, T, m, k, N
<1>8. \A i \in 1 .. N : i \in 1 .. m \/ (i - m \in 1 .. k /\ i = m + (i - m))
  BY <1>1, <1>5 DEF N
<1>9. \A i \in 1 .. N : p[i] = IF i \in 1 .. m THEN free_q4_slots[i] ELSE T[r[i - m]]
  BY <1>1, <1>4, <1>8 DEF N
<1>10. \A a, b \in PageIndices : t[a] # NoSlot /\ t[a] = t[b] => a = b
  BY <1>4, <1>6
<1>11. \A i, j \in 1 .. N : p[i] = p[j] => i = j
  <2> SUFFICES ASSUME NEW i \in 1 .. N, NEW j \in 1 .. N, p[i] = p[j] PROVE i = j
    OBVIOUS
  <2>1. CASE i \in 1 .. m /\ j \in 1 .. m
    BY <1>6, <1>9, <2>1
  <2>2. CASE i \in 1 .. m /\ j \notin 1 .. m
    <3>1. j - m \in 1 .. k /\ r[j - m] \in PageIndices
      BY <1>1, <1>8, <2>2
    <3> QED BY <1>6, <1>9, <2>2, <3>1
  <2>3. CASE i \notin 1 .. m /\ j \in 1 .. m
    <3>1. i - m \in 1 .. k /\ r[i - m] \in PageIndices
      BY <1>1, <1>8, <2>3
    <3> QED BY <1>6, <1>9, <2>3, <3>1
  <2>4. CASE i \notin 1 .. m /\ j \notin 1 .. m
    <3>1. /\ i - m \in 1 .. k /\ r[i - m] \in PageIndices
          /\ j - m \in 1 .. k /\ r[j - m] \in PageIndices
      BY <1>1, <1>8, <2>4
    <3>2. T[r[i - m]] = T[r[j - m]] /\ T[r[i - m]] # NoSlot
      BY <1>1, <1>9, <2>4, <3>1 DEF T
    <3>3. r[i - m] = r[j - m]
      BY <1>6, <3>1, <3>2
    <3>4. i - m = j - m
      BY <1>1, <3>1, <3>3
    <3> QED BY <1>1, <1>5, <3>4
  <2> QED BY <2>1, <2>2, <2>3, <2>4
<1>12. \A a \in PageIndices, i \in 1 .. N : t[a] # p[i]
  <2>0. ASSUME NEW a \in PageIndices, NEW i \in 1 .. N, t[a] = p[i] PROVE FALSE
    <3>1. t[a] # NoSlot /\ a \notin ToSet(r) /\ t[a] = T[a]
      BY <1>3, <1>4, <1>5, <2>0
    <3>2. CASE i \in 1 .. m
      <4>1. T[a] # free_q4_slots[i]
        BY <1>6, <3>2
      <4>2. p[i] = free_q4_slots[i]
        BY <1>9, <3>2
      <4> QED BY <2>0, <3>1, <4>1, <4>2
    <3>3. CASE i \notin 1 .. m
      <4>1. i - m \in 1 .. k /\ r[i - m] \in PageIndices /\ T[r[i - m]] = T[a]
        BY <1>1, <1>8, <1>9, <2>0, <3>1, <3>3
      <4>2. r[i - m] = a
        BY <1>6, <3>1, <4>1
      <4> QED BY <1>7, <3>1, <4>1, <4>2
    <3> QED BY <3>2, <3>3
  <2> QED BY <2>0
<1>13. \A slot \in Slots : \/ \E a \in PageIndices : t[a] = slot
                           \/ \E i \in 1 .. N : p[i] = slot
  <2> SUFFICES ASSUME NEW slot \in Slots, \A a \in PageIndices : t[a] # slot
               PROVE  \E i \in 1 .. N : p[i] = slot
    OBVIOUS
  <2>1. CASE \E i \in 1 .. m : free_q4_slots[i] = slot
    <3>1. PICK i \in 1 .. m : free_q4_slots[i] = slot
      BY <2>1
    <3>2. i \in 1 .. N
      BY <1>1 DEF N
    <3> QED BY <1>4, <3>1, <3>2
  <2>2. CASE \E a \in PageIndices : T[a] = slot
    <3>1. PICK a \in PageIndices : T[a] = slot
      BY <2>2
    <3>2. a \in ToSet(r)
      BY <1>4, <3>1
    <3>3. PICK i \in 1 .. k : r[i] = a
      BY <1>7, <3>2
    <3>4. m + i \in 1 .. N /\ p[m + i] = T[a]
      BY <1>1, <1>4, <3>3 DEF N
    <3> QED BY <3>1, <3>4
  <2> QED BY <1>6, <2>1, <2>2
<1> QED BY <1>5, <1>10, <1>11, <1>12, <1>13 DEF Partition, t, p

\* A page without a slot takes the top of the pool.
Taken(table, page, pool) == [table EXCEPT ![page] = Last(pool)]

LEMMA TakePartitions ==
  ASSUME policy \in Policies, NEW table, TableType(table), NEW pool \in Seq(Slots),
         pool # << >>, NEW page \in PageIndices, table[page] = NoSlot,
         NEW after, after = Taken(table, page, pool)
  PROVE  /\ TableType(after) /\ Front(pool) \in Seq(Slots)
         /\ Last(pool) \in Slots /\ Last(pool) # NoSlot
         /\ Len(Front(pool)) = Len(pool) - 1 /\ Len(pool) \in Nat \ {0}
         /\ \A i \in 1 .. Len(pool) - 1 : Front(pool)[i] = pool[i]
         /\ \A a \in PageIndices : after[a] = IF a = page THEN Last(pool) ELSE table[a]
         /\ Partition(table, pool) => Partition(after, Front(pool))
<1> DEFINE m == Len(pool)
           rest == SubSeq(pool, 1, m - 1)
           top == pool[m]
<1>1. m \in Nat \ {0} /\ DOMAIN pool = 1 .. m /\ \A i \in 1 .. m : pool[i] \in Slots
  OBVIOUS
<1>2. /\ rest \in Seq(Slots) /\ Len(rest) = m - 1 /\ DOMAIN rest = 1 .. m - 1
      /\ \A i \in 1 .. m - 1 : rest[i] = pool[i]
  BY <1>1
<1>3. top \in Slots /\ top # NoSlot
  BY <1>1, Geometry DEF Slots, NoSlot
<1>4. Last(pool) = top /\ Front(pool) = rest
  BY DEF Last, Front
<1> HIDE DEF rest
<1>5. TableType(after) /\ \A a \in PageIndices : after[a] = IF a = page THEN top ELSE table[a]
  BY <1>3, <1>4 DEF TableType, Taken
<1>6. ASSUME Partition(table, pool) PROVE Partition(after, rest)
  <2>1. /\ \A a, b \in PageIndices : table[a] # NoSlot /\ table[a] = table[b] => a = b
        /\ \A i, j \in 1 .. m : pool[i] = pool[j] => i = j
        /\ \A a \in PageIndices, i \in 1 .. m : table[a] # pool[i]
        /\ \A slot \in Slots : \/ \E a \in PageIndices : table[a] = slot
                               \/ \E i \in 1 .. m : pool[i] = slot
    BY <1>1, <1>6 DEF Partition
  <2> HIDE DEF m
  <2>2. \A i \in 1 .. m - 1 : i \in 1 .. m /\ i # m
    BY ONLY <1>1
  <2>3. m \in 1 .. m
    BY ONLY <1>1
  <2>4. \A a, b \in PageIndices : after[a] # NoSlot /\ after[a] = after[b] => a = b
    <3>1. \A a \in PageIndices : table[a] # top
      BY <2>1, <2>3
    <3>2. \A a, b \in PageIndices : table[a] # NoSlot /\ table[a] = table[b] => a = b
      BY <2>1
    <3> HIDE DEF top
    <3> QED BY ONLY <1>5, <3>1, <3>2
  <2>5. \A i, j \in 1 .. m - 1 : rest[i] = rest[j] => i = j
    BY <1>2, <2>1, <2>2
  <2>6. \A a \in PageIndices, i \in 1 .. m - 1 : after[a] # rest[i]
    BY <1>2, <1>5, <2>1, <2>2, <2>3
  <2>7. \A slot \in Slots : \/ \E a \in PageIndices : after[a] = slot
                            \/ \E i \in 1 .. m - 1 : rest[i] = slot
    <3> SUFFICES ASSUME NEW slot \in Slots, \A a \in PageIndices : after[a] # slot
                 PROVE  \E i \in 1 .. m - 1 : rest[i] = slot
      OBVIOUS
    <3>1. slot # top
      BY <1>5
    <3>4. slot # NoSlot
      BY Geometry DEF Slots, NoSlot
    <3>2. \A a \in PageIndices : table[a] # slot
      BY <1>5, <3>4
    <3>3. PICK i \in 1 .. m : pool[i] = slot
      BY <2>1, <3>2
    <3>5. i \in 1 .. m - 1
      BY <1>1, <3>1, <3>3
    <3> QED BY <1>2, <3>3, <3>5
  <2> QED BY <1>2, <2>4, <2>5, <2>6, <2>7 DEF Partition
<1> QED BY <1>1, <1>2, <1>3, <1>4, <1>5, <1>6

-----------------------------------------------------------------------------
(* The plan of an append *)

\* In a branch a plan releases nothing and leaves the mapped pages alone.
PlanInBranch(plan, n) ==
    /\ ToSet(plan.released) = {}
    /\ \A a \in PageIndices : page_to_q4_slot[a] # NoSlot =>
          plan.page_to_q4_slot[a] = page_to_q4_slot[a]
    /\ \A i \in DOMAIN plan.free_q4_slots :
          \E j \in DOMAIN free_q4_slots : free_q4_slots[j] = plan.free_q4_slots[i]
    /\ plan.ok => \/ plan.q4_slot = page_to_q4_slot[n]
                  \/ \E j \in DOMAIN free_q4_slots : free_q4_slots[j] = plan.q4_slot

\* A plan that holds releases the demoted pages, all full, and no others, and
\* gives the current page a slot.
PlanHolds(plan, book, n) ==
    /\ ToSet(plan.released) = Gone
    /\ \A a \in Gone : a < n /\ book[a].tokens = policy.page_tokens
    /\ book[n].precision = Q4
    /\ n \in PageIndices /\ plan.q4_slot \in Slots
    /\ plan.q4_slot = plan.page_to_q4_slot[n]
    /\ page_to_q4_slot[n] # NoSlot => plan.q4_slot = page_to_q4_slot[n]
    /\ \A a \in PageIndices : a # n =>
          plan.page_to_q4_slot[a] = IF a \in Gone THEN NoSlot ELSE page_to_q4_slot[a]
    /\ SlotInv(plan.pages, plan.page_to_q4_slot, plan.free_q4_slots)

\* Every plan of a healthy owner.
LEMMA PlanFacts ==
  ASSUME policy \in Policies, BookInv(pages, tokens), tokens < policy.maximum_tokens,
         TableType(page_to_q4_slot), free_q4_slots \in Seq(Slots),
         SlotInv(pages, page_to_q4_slot, free_q4_slots),
         NEW book, book = Counted(Opened), NEW n, n = Len(book),
         NEW plan, plan = Plan
  PROVE  /\ plan.pages = Pushed.pages /\ plan.cell = book[n].tokens
         /\ TableType(plan.page_to_q4_slot) /\ plan.free_q4_slots \in Seq(Slots)
         /\ checkpoint # << >> => PlanInBranch(plan, n)
         /\ plan.ok => PlanHolds(plan, book, n)
<1> DEFINE pushed == Pushed
           r == Released(pushed)
           t == Unmapped(r)
           p == Returned(r)
           T == page_to_q4_slot
           c == Cardinality(Gone)
           takes == plan.ok /\ t[n] = NoSlot
<1>1. /\ BookInv(book, tokens + 1) /\ n \in Nat \ {0}
      /\ n = Len(pages) \/ n = Len(pages) + 1
      /\ \A a \in 1 .. n : a < n => book[a] = pages[a]
  BY CountedFacts
<1>2. /\ Gone \subseteq 1 .. n /\ IsFiniteSet(Gone) /\ Gone \subseteq Nat
      /\ \A a \in Gone : checkpoint = << >> /\ book[a].precision = Q4
      /\ pushed.demoted = InOrder(Gone)
      /\ Len(pushed.pages) = n /\ DOMAIN pushed.pages = 1 .. n
      /\ \A a \in 1 .. n :
            /\ pushed.pages[a].tokens = book[a].tokens
            /\ pushed.pages[a].precision = IF a \in Gone THEN Q2 ELSE book[a].precision
  BY PushFacts
<1>3. /\ DOMAIN book = 1 .. n /\ 1 .. n \subseteq PageIndices
      /\ DOMAIN pages = 1 .. Len(pages) /\ Len(pages) \in Nat
      /\ \A a \in 1 .. n : book[a] \in Page
  BY <1>1, PagesFit
<1>4. /\ r \in Seq(Gone)
      /\ Len(r) <= c /\ Len(pushed.demoted) = c /\ c \in Nat
      /\ \A i, j \in DOMAIN r : r[i] = r[j] => i = j
      /\ \A i \in DOMAIN r : pushed.pages[r[i]].tokens = policy.page_tokens /\ T[r[i]] # NoSlot
      /\ Len(r) = c => \A a \in Gone : a \in ToSet(r)
  <2>1. Gone \subseteq PageIndices
    BY <1>2, <1>3
  <2>2. c \in Nat
    BY <1>2, FS_CardinalityType
  <2>3. r = Released(pushed)
    OBVIOUS
  <2> HIDE DEF pushed, r
  <2>4. pushed.demoted = InOrder(Gone) /\ IsFiniteSet(Gone) /\ Gone \subseteq Nat
    BY <1>2
  <2>5. ReleasesRightly(pushed, Gone, r)
    BY ONLY <2>1, <2>3, <2>4, ReleasedFacts
  <2> QED BY ONLY <2>2, <2>5 DEF c, T, ReleasesRightly
<1> HIDE DEF pushed, c
<1>5. r \in Seq(PageIndices) /\ ToSet(r) \subseteq Gone
  <2>1. \A i \in DOMAIN r : r[i] \in Gone
    BY <1>4
  <2>2. r \in Seq(PageIndices)
    BY <1>2, <1>3, <1>4, SeqMonotonic
  <2> QED BY <2>1, <2>2 DEF ToSet
<1> HIDE DEF r
<1>6. /\ TableType(t)
      /\ \A a \in PageIndices : t[a] = IF a \in ToSet(r) THEN NoSlot ELSE T[a]
      /\ p \in Seq(Slots) /\ Len(p) = Len(free_q4_slots) + Len(r)
      /\ \A i \in 1 .. Len(free_q4_slots) : p[i] = free_q4_slots[i]
  BY <1>4, <1>5, ReleaseTypes
<1>7. Partition(t, p)
  BY <1>4, <1>5, ReleasePartitions DEF SlotInv
<1> HIDE DEF t, p
<1>8. plan = Assign(pushed, r, n, t, p)
  BY <1>2 DEF Plan, PlanFor, pushed, r, t, p
<1>9. /\ plan.ok <=> /\ Len(r) = c /\ pushed.pages[n].precision = Q4
                     /\ t[n] # NoSlot \/ p # << >>
      /\ plan.pages = pushed.pages /\ plan.released = r /\ plan.cell = pushed.pages[n].tokens
      /\ plan.page_to_q4_slot = IF takes THEN [t EXCEPT ![n] = Last(p)] ELSE t
      /\ plan.free_q4_slots = IF takes THEN Front(p) ELSE p
      /\ plan.q4_slot = IF takes THEN Last(p) ELSE t[n]
  BY <1>4, <1>8 DEF Assign
<1> DEFINE t2 == plan.page_to_q4_slot
           p2 == plan.free_q4_slots
<1>10. n \in 1 .. n /\ n \in PageIndices
  <2>1. n \in 1 .. n
    BY ONLY <1>1
  <2> QED BY <1>3, <2>1
<1>11. ASSUME takes
       PROVE  /\ TableType(t2) /\ p2 \in Seq(Slots) /\ p # << >>
              /\ plan.q4_slot \in Slots /\ plan.q4_slot # NoSlot /\ plan.q4_slot = p[Len(p)]
              /\ Len(p2) = Len(p) - 1 /\ Len(p) \in Nat \ {0}
              /\ \A i \in 1 .. Len(p) - 1 : p2[i] = p[i]
              /\ \A a \in PageIndices : t2[a] = IF a = n THEN plan.q4_slot ELSE t[a]
              /\ Partition(t2, p2)
  <2>1. /\ t2 = [t EXCEPT ![n] = Last(p)] /\ p2 = Front(p) /\ plan.q4_slot = Last(p)
        /\ p # << >> /\ t[n] = NoSlot
    BY <1>9, <1>11
  <2>2. Last(p) = p[Len(p)]
    BY DEF Last
  <2> HIDE DEF t2, p2
  <2>3. /\ TableType(t2) /\ Front(p) \in Seq(Slots)
        /\ Last(p) \in Slots /\ Last(p) # NoSlot
        /\ Len(Front(p)) = Len(p) - 1 /\ Len(p) \in Nat \ {0}
        /\ \A i \in 1 .. Len(p) - 1 : Front(p)[i] = p[i]
        /\ \A a \in PageIndices : t2[a] = IF a = n THEN Last(p) ELSE t[a]
        /\ Partition(t, p) => Partition(t2, Front(p))
    <3>1. TableType(t) /\ p \in Seq(Slots) /\ n \in PageIndices
      BY <1>6, <1>10
    <3>2. t[n] = NoSlot /\ p # << >> /\ t2 = Taken(t, n, p)
      BY <2>1 DEF Taken
    <3> QED BY ONLY policy \in Policies, <3>1, <3>2, TakePartitions
  <2> QED BY <1>7, <2>1, <2>2, <2>3
<1>12. ASSUME ~takes PROVE t2 = t /\ p2 = p /\ plan.q4_slot = t[n]
  BY <1>9, <1>12
<1>13. TableType(t2) /\ p2 \in Seq(Slots)
  BY <1>6, <1>11, <1>12
<1>14. \A a \in PageIndices : a # n => t2[a] = t[a]
  BY <1>11, <1>12
<1> HIDE DEF takes, t2, p2
<1>15. ASSUME checkpoint # << >>
       PROVE  /\ ToSet(r) = {}
              /\ \A a \in PageIndices : T[a] # NoSlot => t2[a] = T[a]
              /\ \A i \in DOMAIN p2 : \E j \in DOMAIN free_q4_slots : free_q4_slots[j] = p2[i]
              /\ plan.ok => \/ plan.q4_slot = T[n]
                            \/ \E j \in DOMAIN free_q4_slots : free_q4_slots[j] = plan.q4_slot
  <2>1. ToSet(r) = {} /\ Len(r) = 0
    <3>1. Gone = {}
      BY <1>15 DEF Gone
    <3>2. c = 0 /\ Len(r) \in Nat
      BY <1>4, <3>1, FS_EmptySet DEF c
    <3> QED BY <1>4, <1>5, <3>1, <3>2
  <2>2. \A a \in PageIndices : t[a] = T[a]
    BY <1>6, <2>1
  <2> DEFINE m == Len(free_q4_slots)
  <2>3. /\ Len(p) = m /\ m \in Nat /\ DOMAIN free_q4_slots = 1 .. m
        /\ \A i \in 1 .. m : p[i] = free_q4_slots[i] /\ DOMAIN p = 1 .. m
    BY <1>6, <2>1
  <2>4. CASE takes
    <3>1. t[n] = NoSlot
      BY <2>4 DEF takes
    <3>2. \A a \in PageIndices : T[a] # NoSlot => t2[a] = T[a]
      BY <1>11, <2>2, <2>4, <3>1
    <3>3. m \in 1 .. m /\ plan.q4_slot = free_q4_slots[m]
      BY <1>11, <2>3, <2>4
    <3>4. DOMAIN p2 = 1 .. m - 1 /\ \A i \in 1 .. m - 1 : i \in 1 .. m /\ p2[i] = free_q4_slots[i]
      BY <1>11, <1>13, <2>3, <2>4
    <3> QED BY <2>1, <2>3, <3>2, <3>3, <3>4
  <2>5. CASE ~takes
    <3>1. t2 = t /\ p2 = p /\ plan.q4_slot = t[n]
      BY <1>12, <2>5
    <3>2. DOMAIN p = 1 .. m
      BY <1>6, <2>3
    <3> QED BY <1>10, <2>1, <2>2, <2>3, <3>1, <3>2
  <2> QED BY <2>4, <2>5
<1>16. ASSUME plan.ok
       PROVE  /\ ToSet(r) = Gone
              /\ \A a \in Gone : a < n /\ book[a].tokens = policy.page_tokens
              /\ book[n].precision = Q4
              /\ plan.q4_slot \in Slots /\ plan.q4_slot = t2[n]
              /\ T[n] # NoSlot => plan.q4_slot = T[n]
              /\ \A a \in PageIndices : a # n => t2[a] = IF a \in Gone THEN NoSlot ELSE T[a]
              /\ SlotInv(pushed.pages, t2, p2)
  <2>1. /\ Len(r) = c /\ pushed.pages[n].precision = Q4
        /\ t[n] # NoSlot \/ p # << >>
    BY <1>9, <1>16
  <2>2. ToSet(r) = Gone
    BY <1>4, <1>5, <2>1
  <2>3. n \notin Gone /\ book[n].precision = Q4
    BY <1>2, <1>10, <2>1 DEF Q2, Q4
  <2>4. \A a \in Gone : a < n /\ book[a].tokens = policy.page_tokens
    <3> SUFFICES ASSUME NEW a \in Gone
                 PROVE  a < n /\ book[a].tokens = policy.page_tokens
      OBVIOUS
    <3>1. a \in 1 .. n /\ a # n
      BY <1>2, <2>3
    <3>2. PICK i \in DOMAIN r : r[i] = a
      BY <2>2 DEF ToSet
    <3>3. pushed.pages[a].tokens = policy.page_tokens
      BY <1>4, <3>2
    <3> QED BY <1>1, <1>2, <3>1, <3>3
  <2>5. \A a \in PageIndices : a # n => t2[a] = IF a \in Gone THEN NoSlot ELSE T[a]
    BY <1>6, <1>14, <2>2
  <2>6. plan.q4_slot \in Slots /\ plan.q4_slot = t2[n] /\ t2[n] # NoSlot
    <3>1. CASE takes
      BY <1>10, <1>11, <3>1
    <3>2. CASE ~takes
      <4>1. t2 = t /\ plan.q4_slot = t[n] /\ t[n] # NoSlot
        BY <1>12, <1>16, <3>2 DEF takes
      <4>2. t[n] \in Slots \cup {NoSlot}
        BY <1>6, <1>10 DEF TableType
      <4> QED BY <4>1, <4>2
    <3> QED BY <3>1, <3>2
  <2>10. T[n] # NoSlot => plan.q4_slot = T[n]
    <3> SUFFICES ASSUME T[n] # NoSlot PROVE plan.q4_slot = T[n]
      OBVIOUS
    <3>1. n \notin ToSet(r)
      BY <2>2, <2>3
    <3>2. t[n] = T[n]
      BY <1>6, <1>10, <3>1
    <3>3. ~takes
      BY <3>2 DEF takes
    <3> QED BY <1>12, <3>2, <3>3
  <2>7. Partition(t2, p2)
    BY <1>7, <1>11, <1>12
  <2>8. \A a \in PageIndices : t2[a] # NoSlot <=> a \in 1 .. n /\ pushed.pages[a].precision = Q4
    <3> SUFFICES ASSUME NEW a \in PageIndices
                 PROVE  t2[a] # NoSlot <=> a \in 1 .. n /\ pushed.pages[a].precision = Q4
      OBVIOUS
    <3>1. T[a] # NoSlot <=> a \in DOMAIN pages /\ pages[a].precision = Q4
      BY DEF SlotInv
    <3>2. CASE a = n
      BY <1>10, <2>1, <2>6, <3>2
    <3>3. CASE a # n
      <4>1. a \in Nat \ {0}
        BY Geometry DEF PageIndices
      <4>2. a \in 1 .. n <=> a \in DOMAIN pages
        <5>1. DOMAIN pages = 1 .. Len(pages) /\ Len(pages) \in Nat
              /\ (n = Len(pages) \/ n = Len(pages) + 1)
          BY <1>1, <1>3
        <5> QED BY ONLY <3>3, <4>1, <5>1
      <4>3. a \in 1 .. n => book[a] = pages[a]
        BY <1>1, <3>3
      <4> QED BY <1>2, <2>5, <3>1, <3>3, <4>2, <4>3 DEF Q2, Q4
    <3> QED BY <3>2, <3>3
  <2>9. \A a \in 1 .. n : pushed.pages[a].precision = Q2 =>
            pushed.pages[a].tokens = policy.page_tokens
    <3> SUFFICES ASSUME NEW a \in 1 .. n, pushed.pages[a].precision = Q2
                 PROVE  pushed.pages[a].tokens = policy.page_tokens
      OBVIOUS
    <3>1. CASE a \in Gone
      BY <1>2, <2>4, <3>1
    <3>2. CASE a \notin Gone
      <4>1. a # n
        BY <2>1 DEF Q2, Q4
      <4>2. a < n
        BY <1>1, <4>1
      <4> QED BY <1>1, <1>2, <1>3, <4>2 DEF BookInv
    <3> QED BY <3>1, <3>2
  <2> QED BY <1>2, <2>2, <2>3, <2>4, <2>5, <2>6, <2>7, <2>8, <2>9, <2>10 DEF SlotInv
<1>17. plan.cell = book[n].tokens /\ plan.pages = Pushed.pages
  BY <1>2, <1>9, <1>10 DEF pushed
<1>18. checkpoint # << >> => PlanInBranch(plan, n)
  BY <1>9, <1>15 DEF PlanInBranch, t2, p2
<1>19. plan.ok => PlanHolds(plan, book, n)
  BY <1>9, <1>10, <1>16, <1>17 DEF PlanHolds, t2, p2, pushed
<1> QED BY <1>13, <1>17, <1>18, <1>19 DEF t2, p2

-----------------------------------------------------------------------------
(* The invariant *)

LEMMA InvFromParts ==
  ASSUME policy \in Policies, policy' = policy,
         BookInv(pages', tokens'), TableType(page_to_q4_slot'),
         free_q4_slots' \in Seq(Slots),
         q2_pages' \in Arena(PageIndices), q4_pages' \in Arena(Slots),
         poisoned' \in BOOLEAN,
         ~poisoned' => SlotInv(pages', page_to_q4_slot', free_q4_slots'),
         BranchInv(checkpoint', pages', tokens', page_to_q4_slot', free_q4_slots')
  PROVE  MetalInv'
<1>1. BookInv(pages, tokens)'
  BY DEF BookInv, PageStart, Page, Cells
<1>2. /\ TableType(page_to_q4_slot)' /\ (free_q4_slots \in Seq(Slots))'
      /\ (q2_pages \in Arena(PageIndices))' /\ (q4_pages \in Arena(Slots))'
  BY DEF TableType, Slots, PageIndices, Arena, Cells
<1>3. ~poisoned' => SlotInv(pages, page_to_q4_slot, free_q4_slots)'
  BY DEF SlotInv, Partition, PageIndices, Slots
<1>4. BranchInv(checkpoint, pages, tokens, page_to_q4_slot, free_q4_slots)'
  <2>1. Page' = Page /\ PageIndices' = PageIndices /\ Slots' = Slots /\ Mark' = Mark
    BY DEF Page, Cells, PageIndices, Slots, Mark
  <2>2. CASE checkpoint' = << >>
    BY <2>2 DEF BranchInv
  <2>3. CASE \E mark \in Mark : /\ checkpoint' = <<mark>>
                                /\ MarkInv(mark, pages', tokens', page_to_q4_slot', free_q4_slots')
    <3>1. PICK mark \in Mark : /\ checkpoint' = <<mark>>
                               /\ MarkInv(mark, pages', tokens', page_to_q4_slot', free_q4_slots')
      BY <2>3
    <3>2. BookInv(Cut(pages, mark), mark.tokens)'
      BY <2>1, <3>1 DEF MarkInv, BookInv, PageStart
    <3>3. SlotInv(Cut(pages, mark), mark.page_to_q4_slot, mark.free_q4_slots)'
      BY <2>1, <3>1 DEF MarkInv, SlotInv, Partition
    <3>4. MarkInv(mark, pages, tokens, page_to_q4_slot, free_q4_slots)'
      BY <2>1, <3>1, <3>2, <3>3 DEF MarkInv
    <3> QED BY <2>1, <3>1, <3>4 DEF BranchInv
  <2> QED BY <2>2, <2>3 DEF BranchInv
<1> QED BY <1>1, <1>2, <1>3, <1>4 DEF MetalInv

LEMMA Fresh ==
  ASSUME policy \in Policies
  PROVE  /\ BookInv(<< >>, 0) /\ TableType(NoPageMapped(policy))
         /\ AllSlotsFree(policy) \in Seq(Slots)
         /\ Zeroed(PageIndices, policy) \in Arena(PageIndices)
         /\ Zeroed(Slots, policy) \in Arena(Slots)
         /\ SlotInv(<< >>, NoPageMapped(policy), AllSlotsFree(policy))
<1> DEFINE k == Q4Slots(policy)
           pool == AllSlotsFree(policy)
           table == NoPageMapped(policy)
<1>1. k \in Nat \ {0} /\ Slots = 1 .. k
  BY Geometry DEF Slots
<1>2. BookInv(<< >>, 0)
  BY Geometry DEF BookInv
<1>3. TableType(table) /\ \A a \in PageIndices : table[a] = NoSlot
  BY DEF NoPageMapped, TableType, PageIndices
<1>4. pool = [i \in 1 .. k |-> k + 1 - i]
  BY DEF AllSlotsFree
<1> HIDE DEF k, pool, table
<1>5. /\ pool \in [1 .. k -> Slots] /\ DOMAIN pool = 1 .. k
      /\ \A i \in 1 .. k : pool[i] = k + 1 - i
  BY ONLY <1>1, <1>4
<1>6. pool \in Seq(Slots)
  BY <1>1, <1>5
<1>7. Zeroed(PageIndices, policy) \in Arena(PageIndices) /\ Zeroed(Slots, policy) \in Arena(Slots)
  BY DEF Zeroed, Arena, Cells
<1>8. Partition(table, pool)
  <2>1. \A a \in PageIndices, i \in 1 .. k : table[a] # pool[i]
    BY <1>1, <1>3, <1>5 DEF NoSlot
  <2>2. \A i, j \in 1 .. k : pool[i] = pool[j] => i = j
    BY ONLY <1>1, <1>5
  <2>3. \A slot \in Slots : \E i \in 1 .. k : pool[i] = slot
    <3> SUFFICES ASSUME NEW slot \in Slots PROVE \E i \in 1 .. k : pool[i] = slot
      OBVIOUS
    <3>1. k + 1 - slot \in 1 .. k /\ k + 1 - (k + 1 - slot) = slot
      BY ONLY <1>1, slot \in Slots
    <3> QED BY <1>5, <3>1
  <2> QED BY <1>3, <1>5, <2>1, <2>2, <2>3 DEF Partition
<1>9. SlotInv(<< >>, table, pool)
  BY <1>3, <1>8 DEF SlotInv
<1> QED BY <1>2, <1>3, <1>6, <1>7, <1>9 DEF pool, table

LEMMA InitInv == Init => MetalInv
<1> SUFFICES ASSUME Init PROVE MetalInv
  OBVIOUS
<1>1. policy \in Policies
  BY DEF Init
<1> QED BY <1>1, Fresh DEF Init, MetalInv, BranchInv

\* What a branch is taken back to survives every append.
LEMMA AppendKeepsMark ==
  ASSUME policy \in Policies, BookInv(pages, tokens), tokens < policy.maximum_tokens,
         TableType(page_to_q4_slot), free_q4_slots \in Seq(Slots),
         SlotInv(pages, page_to_q4_slot, free_q4_slots), checkpoint # << >>,
         NEW mark, MarkInv(mark, pages, tokens, page_to_q4_slot, free_q4_slots),
         NEW plan, plan = Plan
  PROVE  /\ Cut(plan.pages, mark) = Cut(pages, mark)
         /\ MarkInv(mark, plan.pages, tokens + 1, plan.page_to_q4_slot, plan.free_q4_slots)
<1> DEFINE book == Counted(Opened)
           n == Len(book)
           after == plan.pages
<1>1. /\ n \in Nat \ {0}
      /\ n = Len(pages) \/ n = Len(pages) + 1
      /\ \A a \in 1 .. n : a < n => book[a] = pages[a]
      /\ n = Len(pages) => /\ book[n].tokens = pages[n].tokens + 1
                           /\ book[n].precision = pages[n].precision
  BY CountedFacts
<1>2. /\ Len(after) = n
      /\ BookInv(after, tokens + 1)
      /\ \A a \in 1 .. n : after[a] = book[a]
  <2>1. after = Pushed.pages
    BY PlanFacts
  <2>2. Gone = {}
    BY DEF Gone
  <2>3. /\ Len(Pushed.pages) = n /\ BookInv(Pushed.pages, tokens + 1)
        /\ \A a \in 1 .. n : a \notin Gone => Pushed.pages[a] = book[a]
    BY PushFacts
  <2> QED BY <2>1, <2>2, <2>3
<1>9. /\ \A a \in PageIndices : page_to_q4_slot[a] # NoSlot =>
             plan.page_to_q4_slot[a] = page_to_q4_slot[a]
      /\ \A i \in DOMAIN plan.free_q4_slots :
             \E j \in DOMAIN free_q4_slots : free_q4_slots[j] = plan.free_q4_slots[i]
  <2>1. PlanInBranch(plan, n)
    BY PlanFacts
  <2> QED BY <2>1 DEF PlanInBranch
<1> HIDE DEF book, n, after
<1>3. /\ mark \in Mark
      /\ mark.tokens <= tokens /\ mark.pages <= Len(pages)
      /\ mark.pages = 0 => mark.last_page_tokens = 0
      /\ mark.pages # 0 => mark.last_page_tokens \in 1 .. pages[mark.pages].tokens
      /\ BookInv(Cut(pages, mark), mark.tokens)
      /\ SlotInv(Cut(pages, mark), mark.page_to_q4_slot, mark.free_q4_slots)
      /\ \A a \in PageIndices :
            mark.page_to_q4_slot[a] # NoSlot => page_to_q4_slot[a] = mark.page_to_q4_slot[a]
      /\ \A i \in DOMAIN free_q4_slots :
            \E j \in DOMAIN mark.free_q4_slots : mark.free_q4_slots[j] = free_q4_slots[i]
  BY DEF MarkInv
<1>4. /\ mark.pages \in Nat /\ mark.tokens \in Nat /\ Len(pages) \in Nat /\ tokens \in Nat
      /\ \A a \in 1 .. Len(pages) : pages[a] \in Page
      /\ \A a \in 1 .. n : after[a] \in Page
  <2>1. mark.pages \in Nat /\ mark.tokens \in Nat
    BY <1>3 DEF Mark
  <2>2. tokens \in Nat
    BY Geometry DEF BookInv
  <2> QED BY <1>2, <2>1, <2>2, PagesFit
<1>5. ASSUME NEW a \in 1 .. mark.pages
      PROVE  /\ a \in 1 .. n /\ a \in 1 .. Len(pages)
             /\ a < mark.pages => after[a] = pages[a]
             /\ after[a].precision = pages[a].precision
             /\ pages[a].tokens <= after[a].tokens
  <2>1. a \in 1 .. n /\ a \in 1 .. Len(pages) /\ (a < mark.pages => a < n)
    BY ONLY <1>1, <1>3, <1>4, a \in 1 .. mark.pages
  <2>2. pages[a].tokens \in Nat
    BY <1>4, <2>1, Geometry DEF Page, Cells
  <2>3. CASE a < n
    BY <1>1, <1>2, <2>1, <2>2, <2>3
  <2>4. CASE a = n
    <3>1. n = Len(pages) /\ ~(a < mark.pages)
      BY ONLY <1>1, <1>3, <1>4, <2>1, <2>4
    <3> QED BY <1>1, <1>2, <2>1, <2>2, <2>4, <3>1
  <2> QED BY <1>1, <2>1, <2>3, <2>4
<1>6. Cut(after, mark) = Cut(pages, mark)
  <2>1. ASSUME NEW a \in 1 .. mark.pages
        PROVE  [after[a] EXCEPT !.tokens = mark.last_page_tokens]
                  = [pages[a] EXCEPT !.tokens = mark.last_page_tokens]
    BY <1>4, <1>5 DEF Page
  <2> QED BY <1>5, <2>1 DEF Cut
<1>7. mark.pages # 0 => mark.last_page_tokens \in 1 .. after[mark.pages].tokens
  <2> SUFFICES ASSUME mark.pages # 0
               PROVE  mark.last_page_tokens \in 1 .. after[mark.pages].tokens
    OBVIOUS
  <2> DEFINE a == mark.pages
  <2>1. a \in 1 .. a
    BY <1>4
  <2>2. a \in 1 .. n /\ a \in 1 .. Len(pages) /\ pages[a].tokens <= after[a].tokens
    BY <1>5, <2>1
  <2>3. pages[a].tokens \in Nat /\ after[a].tokens \in Nat
    <3>1. pages[a] \in Page /\ after[a] \in Page
      BY <1>4, <2>2
    <3>2. pages[a].tokens \in Cells /\ after[a].tokens \in Cells
      BY <3>1 DEF Page
    <3>3. Cells \subseteq Nat
      BY Geometry DEF Cells
    <3> QED BY <3>2, <3>3
  <2>4. mark.last_page_tokens \in 1 .. pages[a].tokens
    BY <1>3
  <2> HIDE DEF a
  <2> QED BY ONLY <2>2, <2>3, <2>4 DEF a
<1>8. mark.tokens <= tokens + 1 /\ mark.pages <= Len(after)
  BY ONLY <1>1, <1>2, <1>3, <1>4
<1>10. /\ \A a \in PageIndices :
            mark.page_to_q4_slot[a] # NoSlot => plan.page_to_q4_slot[a] = mark.page_to_q4_slot[a]
       /\ \A i \in DOMAIN plan.free_q4_slots :
            \E j \in DOMAIN mark.free_q4_slots : mark.free_q4_slots[j] = plan.free_q4_slots[i]
  <2>1. ASSUME NEW a \in PageIndices, mark.page_to_q4_slot[a] # NoSlot
        PROVE  plan.page_to_q4_slot[a] = mark.page_to_q4_slot[a]
    BY <1>3, <1>9, <2>1
  <2>2. ASSUME NEW i \in DOMAIN plan.free_q4_slots
        PROVE  \E j \in DOMAIN mark.free_q4_slots : mark.free_q4_slots[j] = plan.free_q4_slots[i]
    <3>1. PICK k \in DOMAIN free_q4_slots : free_q4_slots[k] = plan.free_q4_slots[i]
      BY <1>9
    <3> QED BY <1>3, <3>1
  <2> QED BY <2>1, <2>2
<1> QED BY <1>3, <1>6, <1>7, <1>8, <1>10 DEF MarkInv, after

\* What an append of a healthy owner starts from and plans.
Healthy ==
    /\ policy \in Policies /\ BookInv(pages, tokens) /\ TableType(page_to_q4_slot)
    /\ free_q4_slots \in Seq(Slots) /\ tokens < policy.maximum_tokens
    /\ SlotInv(pages, page_to_q4_slot, free_q4_slots)
    /\ q2_pages \in Arena(PageIndices) /\ q4_pages \in Arena(Slots)
    /\ BranchInv(checkpoint, pages, tokens, page_to_q4_slot, free_q4_slots)

NextBook(book, n) ==
    /\ BookInv(book, tokens + 1)
    /\ n \in Nat \ {0} /\ n \in 1 .. n /\ 1 .. n \subseteq PageIndices
    /\ DOMAIN book = 1 .. n /\ \A a \in 1 .. n : book[a] \in Page
    /\ Len(pages) \in Nat /\ DOMAIN pages = 1 .. Len(pages)
    /\ \A a \in 1 .. Len(pages) : pages[a] \in Page
    /\ n = Len(pages) \/ n = Len(pages) + 1
    /\ \A a \in 1 .. n : a < n => a \in 1 .. Len(pages) /\ book[a] = pages[a]
    /\ n = Len(pages) => /\ pages[n].tokens < policy.page_tokens
                         /\ book[n].tokens = pages[n].tokens + 1
                         /\ book[n].precision = pages[n].precision
    /\ n # Len(pages) => /\ book[n] = [tokens |-> 1, precision |-> Q4]
                         /\ tokens = PageStart(n)
                         /\ \A a \in 1 .. Len(pages) : pages[a].tokens = policy.page_tokens

NextPlan(plan, book, n) ==
    /\ Gone \subseteq 1 .. n
    /\ \A a \in Gone : /\ checkpoint = << >> /\ book[a].precision = Q4
                       /\ PageStart(a) >= policy.sink_tokens
                       /\ PageStart(a) + book[a].tokens
                             <= SaturatingSub(tokens + 1, policy.recent_tokens)
    /\ checkpoint = << >> => Gone = Demoted(book, tokens + 1)
    /\ plan.cell = book[n].tokens
    /\ Len(plan.pages) = n /\ DOMAIN plan.pages = 1 .. n
    /\ BookInv(plan.pages, tokens + 1)
    /\ \A a \in 1 .. n :
          /\ plan.pages[a].tokens = book[a].tokens
          /\ plan.pages[a].precision = IF a \in Gone THEN Q2 ELSE book[a].precision
          /\ a \notin Gone => plan.pages[a] = book[a]
    /\ TableType(plan.page_to_q4_slot) /\ plan.free_q4_slots \in Seq(Slots)
    /\ checkpoint # << >> => PlanInBranch(plan, n)
    /\ plan.ok => PlanHolds(plan, book, n)

LEMMA AppendFacts ==
  ASSUME MetalInv, Appendable, NEW plan, plan = Plan,
         NEW book, book = Counted(Opened), NEW n, n = Len(book)
  PROVE  Healthy /\ NextBook(book, n) /\ NextPlan(plan, book, n)
<1>1. Healthy
  BY DEF MetalInv, Appendable, Healthy
<1>2. /\ policy \in Policies /\ BookInv(pages, tokens) /\ tokens < policy.maximum_tokens
      /\ TableType(page_to_q4_slot) /\ free_q4_slots \in Seq(Slots)
      /\ SlotInv(pages, page_to_q4_slot, free_q4_slots)
  BY <1>1 DEF Healthy
<1>3. NextBook(book, n)
  <2>1. /\ BookInv(book, tokens + 1)
        /\ n \in Nat \ {0}
        /\ n = Len(pages) \/ n = Len(pages) + 1
        /\ \A a \in 1 .. n : a < n => book[a] = pages[a]
        /\ n = Len(pages) => /\ pages[n].tokens < policy.page_tokens
                             /\ book[n].tokens = pages[n].tokens + 1
                             /\ book[n].precision = pages[n].precision
        /\ n # Len(pages) => /\ book[n] = [tokens |-> 1, precision |-> Q4]
                             /\ tokens = PageStart(n)
                             /\ \A a \in 1 .. Len(pages) : pages[a].tokens = policy.page_tokens
    BY <1>2, CountedFacts
  <2>2. /\ DOMAIN book = 1 .. n /\ 1 .. n \subseteq PageIndices
        /\ \A a \in 1 .. n : book[a] \in Page
    BY <1>2, <2>1, PagesFit
  <2>3. /\ Len(pages) \in Nat /\ DOMAIN pages = 1 .. Len(pages)
        /\ \A a \in 1 .. Len(pages) : pages[a] \in Page
    BY <1>2, PagesFit
  <2>4. n \in 1 .. n /\ \A a \in 1 .. n : a < n => a \in 1 .. Len(pages)
    <3>1. n \in Nat \ {0} /\ (n = Len(pages) \/ n = Len(pages) + 1)
      BY ONLY <2>1, Zenon
    <3>2. Len(pages) \in Nat
      BY <2>3
    <3> QED BY ONLY <3>1, <3>2
  <2> QED BY <2>1, <2>2, <2>3, <2>4 DEF NextBook
<1>4. NextPlan(plan, book, n)
  <2>1. /\ Gone \subseteq 1 .. n
        /\ \A a \in Gone : /\ checkpoint = << >> /\ book[a].precision = Q4
                           /\ PageStart(a) >= policy.sink_tokens
                           /\ PageStart(a) + book[a].tokens
                                 <= SaturatingSub(tokens + 1, policy.recent_tokens)
        /\ checkpoint = << >> => Gone = Demoted(book, tokens + 1)
        /\ Len(Pushed.pages) = n /\ DOMAIN Pushed.pages = 1 .. n
        /\ BookInv(Pushed.pages, tokens + 1)
        /\ \A a \in 1 .. n :
              /\ Pushed.pages[a].tokens = book[a].tokens
              /\ Pushed.pages[a].precision = IF a \in Gone THEN Q2 ELSE book[a].precision
              /\ a \notin Gone => Pushed.pages[a] = book[a]
    BY <1>2, PushFacts
  <2>2. /\ plan.pages = Pushed.pages /\ plan.cell = book[n].tokens
        /\ TableType(plan.page_to_q4_slot) /\ plan.free_q4_slots \in Seq(Slots)
        /\ checkpoint # << >> => PlanInBranch(plan, n)
        /\ plan.ok => PlanHolds(plan, book, n)
    BY <1>2, PlanFacts
  <2> QED BY <2>1, <2>2 DEF NextPlan
<1> QED BY <1>1, <1>3, <1>4

\* The places an append writes are places of the arenas.
LEMMA AppendedArenas ==
  ASSUME MetalInv, Appendable, NEW plan, plan = Plan, plan.ok, NEW value
  PROVE  /\ plan.q4_slot \in Slots /\ plan.cell \in Cells
         /\ DemotedArena(plan, value) \in Arena(PageIndices)
         /\ \A written \in Values \cup {Junk} :
               [q4_pages EXCEPT ![plan.q4_slot][plan.cell] = written] \in Arena(Slots)
<1> DEFINE book == Counted(Opened)
           n == Len(book)
<1>0. Healthy /\ NextBook(book, n) /\ NextPlan(plan, book, n)
  BY AppendFacts
<1> HIDE DEF book, n
<1>2. /\ q2_pages \in Arena(PageIndices) /\ q4_pages \in Arena(Slots)
      /\ TableType(page_to_q4_slot)
      /\ \A a \in PageIndices :
            page_to_q4_slot[a] # NoSlot <=> a \in DOMAIN pages /\ pages[a].precision = Q4
  BY <1>0 DEF Healthy, SlotInv
<1>3. /\ 1 .. n \subseteq PageIndices /\ n \in 1 .. n /\ \A a \in 1 .. n : book[a] \in Page
      /\ DOMAIN pages = 1 .. Len(pages)
      /\ \A a \in 1 .. n : a < n => a \in 1 .. Len(pages) /\ book[a] = pages[a]
  BY <1>0 DEF NextBook
<1>4. /\ plan.cell = book[n].tokens /\ PlanHolds(plan, book, n)
      /\ Gone \subseteq 1 .. n /\ \A a \in Gone : book[a].precision = Q4
  BY <1>0 DEF NextPlan
<1>6. plan.q4_slot \in Slots /\ ToSet(plan.released) = Gone /\ \A a \in Gone : a < n
  BY <1>4 DEF PlanHolds
<1>8. plan.cell \in Cells
  BY <1>3, <1>4 DEF Page
<1>9. ASSUME NEW a \in Gone PROVE a \in PageIndices /\ page_to_q4_slot[a] \in Slots
  <2>1. a \in PageIndices /\ a \in DOMAIN pages /\ pages[a].precision = Q4
    BY <1>3, <1>4, <1>6
  <2>2. page_to_q4_slot[a] # NoSlot
    BY <1>2, <2>1
  <2> QED BY <1>2, <2>1, <2>2 DEF TableType
<1>10. DemotedArena(plan, value) \in Arena(PageIndices)
  <2>1. /\ DOMAIN q2_pages = PageIndices
        /\ \A a \in PageIndices : q2_pages[a] \in [Cells -> Values \cup {Junk}]
        /\ \A slot \in Slots : q4_pages[slot] \in [Cells -> Values \cup {Junk}]
    BY <1>2 DEF Arena
  <2> DEFINE row(page) == IF page \in ToSet(plan.released) THEN q4_pages[page_to_q4_slot[page]]
                                                         ELSE q2_pages[page]
  <2>2. \A page \in PageIndices : row(page) \in [Cells -> Values \cup {Junk}]
    BY <1>6, <1>9, <2>1
  <2>3. DemotedArena(plan, value) = [page \in PageIndices |-> row(page)]
    BY <2>1 DEF DemotedArena
  <2> HIDE DEF row
  <2> QED BY <2>2, <2>3 DEF Arena
<1>11. ASSUME NEW written \in Values \cup {Junk}
       PROVE  [q4_pages EXCEPT ![plan.q4_slot][plan.cell] = written] \in Arena(Slots)
  <2> DEFINE row == [q4_pages[plan.q4_slot] EXCEPT ![plan.cell] = written]
  <2>1. row \in [Cells -> Values \cup {Junk}]
    BY <1>2, <1>6, <1>8 DEF Arena
  <2>2. [q4_pages EXCEPT ![plan.q4_slot] = row] \in Arena(Slots)
    BY <1>2, <1>6, <2>1 DEF Arena
  <2> QED BY <2>2
<1> QED BY <1>6, <1>8, <1>10, <1>11

\* Whatever comes of it, a plan leaves metadata a branch can be taken back from.
LEMMA PlannedInv ==
  ASSUME MetalInv, Appendable, NEW plan, plan = Plan, Planned(plan)
  PROVE  /\ policy \in Policies /\ policy' = policy
         /\ BookInv(pages', tokens') /\ TableType(page_to_q4_slot')
         /\ free_q4_slots' \in Seq(Slots)
         /\ plan.ok => SlotInv(pages', page_to_q4_slot', free_q4_slots')
         /\ BranchInv(checkpoint', pages', tokens', page_to_q4_slot', free_q4_slots')
<1> DEFINE book == Counted(Opened)
           n == Len(book)
<1>0. Healthy /\ NextPlan(plan, book, n)
  BY AppendFacts
<1> HIDE DEF book, n
<1>1. /\ policy \in Policies /\ BookInv(pages, tokens) /\ TableType(page_to_q4_slot)
      /\ free_q4_slots \in Seq(Slots) /\ tokens < policy.maximum_tokens
      /\ SlotInv(pages, page_to_q4_slot, free_q4_slots)
      /\ BranchInv(checkpoint, pages, tokens, page_to_q4_slot, free_q4_slots)
  BY <1>0 DEF Healthy
<1>2. /\ BookInv(plan.pages, tokens + 1)
      /\ plan.ok => PlanHolds(plan, book, n)
      /\ TableType(plan.page_to_q4_slot) /\ plan.free_q4_slots \in Seq(Slots)
  BY <1>0 DEF NextPlan
<1>3. /\ tokens' = tokens + 1 /\ pages' = plan.pages
      /\ page_to_q4_slot' = plan.page_to_q4_slot /\ free_q4_slots' = plan.free_q4_slots
      /\ policy' = policy /\ checkpoint' = checkpoint
  BY DEF Planned
<1>4. plan.ok => SlotInv(plan.pages, plan.page_to_q4_slot, plan.free_q4_slots)
  BY <1>2 DEF PlanHolds
<1>5. BranchInv(checkpoint, plan.pages, tokens + 1, plan.page_to_q4_slot, plan.free_q4_slots)
  <2>1. CASE checkpoint = << >>
    BY <2>1 DEF BranchInv
  <2>2. CASE checkpoint # << >>
    <3>1. PICK mark \in Mark :
             /\ checkpoint = <<mark>>
             /\ MarkInv(mark, pages, tokens, page_to_q4_slot, free_q4_slots)
      BY <1>1, <2>2 DEF BranchInv
    <3>2. MarkInv(mark, plan.pages, tokens + 1, plan.page_to_q4_slot, plan.free_q4_slots)
      BY <1>1, <2>2, <3>1, AppendKeepsMark
    <3> QED BY <3>1, <3>2 DEF BranchInv
  <2> QED BY <2>1, <2>2
<1> QED BY <1>1, <1>2, <1>3, <1>4, <1>5

LEMMA AppendInv ==
  ASSUME MetalInv, Appendable, NEW plan, plan = Plan, NEW value \in Values \cup {Junk},
         \/ AppendAndDispatch(plan, value) \/ AppendFailed(plan, value)
         \/ AppendNotPlanned(plan)
  PROVE  MetalInv'
<1>1. Planned(plan)
  BY DEF AppendAndDispatch, AppendFailed, AppendNotPlanned
<1>2. /\ policy \in Policies /\ policy' = policy
      /\ BookInv(pages', tokens') /\ TableType(page_to_q4_slot')
      /\ free_q4_slots' \in Seq(Slots)
      /\ plan.ok => SlotInv(pages', page_to_q4_slot', free_q4_slots')
      /\ BranchInv(checkpoint', pages', tokens', page_to_q4_slot', free_q4_slots')
  BY <1>1, PlannedInv
<1>3. /\ q2_pages \in Arena(PageIndices) /\ q4_pages \in Arena(Slots) /\ ~poisoned
  BY DEF MetalInv, Appendable
<1>4. CASE plan.ok
  <2>1. /\ plan.q4_slot \in Slots /\ plan.cell \in Cells
        /\ DemotedArena(plan, value) \in Arena(PageIndices)
        /\ \A written \in Values \cup {Junk} :
              [q4_pages EXCEPT ![plan.q4_slot][plan.cell] = written] \in Arena(Slots)
    BY <1>4, AppendedArenas
  <2>2. q4_pages[plan.q4_slot][plan.cell] \in Values \cup {Junk}
    BY <1>3, <2>1 DEF Arena
  <2>3. q2_pages' \in Arena(PageIndices)
    BY <1>3, <1>4, <2>1 DEF AppendAndDispatch, AppendFailed, AppendNotPlanned
  <2>4. \E written \in Values \cup {Junk} :
           q4_pages' = [q4_pages EXCEPT ![plan.q4_slot][plan.cell] = written]
    <3>1. CASE AppendAndDispatch(plan, value)
      BY <3>1 DEF AppendAndDispatch, PackedArena
    <3>2. CASE AppendFailed(plan, value)
      BY <2>2, <3>2 DEF AppendFailed
    <3>3. ~AppendNotPlanned(plan)
      BY <1>4 DEF AppendNotPlanned
    <3> QED BY <3>1, <3>2, <3>3
  <2>5. q4_pages' \in Arena(Slots)
    <3>1. PICK written \in Values \cup {Junk} :
             q4_pages' = [q4_pages EXCEPT ![plan.q4_slot][plan.cell] = written]
      BY <2>4
    <3>2. [q4_pages EXCEPT ![plan.q4_slot][plan.cell] = written] \in Arena(Slots)
      BY <2>1, Zenon
    <3> QED BY <3>1, <3>2, Zenon
  <2>6. poisoned' \in BOOLEAN
    <3>1. poisoned \in BOOLEAN
      BY DEF MetalInv
    <3>2. poisoned' = poisoned \/ poisoned' = TRUE
      BY DEF AppendAndDispatch, AppendFailed, AppendNotPlanned
    <3> QED BY <3>1, <3>2
  <2> QED BY <1>2, <1>4, <2>3, <2>5, <2>6, InvFromParts
<1>5. CASE ~plan.ok
  <2>1. q2_pages' = q2_pages /\ q4_pages' = q4_pages /\ poisoned' = TRUE
    BY <1>5 DEF AppendAndDispatch, AppendFailed, AppendNotPlanned
  <2> QED BY <1>2, <1>3, <2>1, InvFromParts
<1> QED BY <1>4, <1>5

\* A branch starts from what the owner is.
LEMMA BeginInv ==
  ASSUME MetalInv, BeginSpeculative
  PROVE  MetalInv'
<1> DEFINE k == Len(pages)
           mark == [tokens |-> tokens, pages |-> k,
                    last_page_tokens |-> IF pages = << >> THEN 0 ELSE Last(pages).tokens,
                    page_to_q4_slot |-> page_to_q4_slot,
                    free_q4_slots |-> free_q4_slots]
<1>1. /\ policy \in Policies /\ BookInv(pages, tokens) /\ TableType(page_to_q4_slot)
      /\ free_q4_slots \in Seq(Slots) /\ SlotInv(pages, page_to_q4_slot, free_q4_slots)
      /\ ~poisoned /\ q2_pages \in Arena(PageIndices) /\ q4_pages \in Arena(Slots)
  BY DEF MetalInv, BeginSpeculative
<1>2. /\ k \in Nat /\ DOMAIN pages = 1 .. k /\ tokens \in Nat
      /\ \A a \in 1 .. k : pages[a] \in Page
      /\ pages = << >> <=> k = 0
  <2>1. k \in Nat /\ DOMAIN pages = 1 .. k /\ \A a \in 1 .. k : pages[a] \in Page
    BY <1>1, PagesFit
  <2>2. tokens \in Nat
    BY <1>1, Geometry DEF BookInv
  <2>3. pages \in Seq(Page)
    BY <1>1 DEF BookInv
  <2>4. pages = << >> <=> k = 0
    BY <2>3
  <2> QED BY <2>1, <2>2, <2>4
<1>3. /\ checkpoint' = <<mark>> /\ policy' = policy /\ tokens' = tokens /\ pages' = pages
      /\ page_to_q4_slot' = page_to_q4_slot /\ free_q4_slots' = free_q4_slots
      /\ q2_pages' = q2_pages /\ q4_pages' = q4_pages /\ poisoned' = poisoned
  BY DEF BeginSpeculative, metadata
<1>4. /\ mark.tokens = tokens /\ mark.pages = k /\ mark.page_to_q4_slot = page_to_q4_slot
      /\ mark.free_q4_slots = free_q4_slots
      /\ mark.last_page_tokens = IF k = 0 THEN 0 ELSE pages[k].tokens
  BY <1>2 DEF Last
<1>5. k # 0 => k \in 1 .. k /\ pages[k].tokens \in Nat \ {0}
  <2>1. k # 0 => k \in 1 .. k
    BY <1>2
  <2> QED BY <1>1, <1>2, <2>1, Geometry DEF Page, Cells
<1>6. mark \in Mark
  <2>1. mark.last_page_tokens \in Nat
    BY <1>4, <1>5
  <2> QED BY <1>1, <1>2, <1>4, <2>1 DEF Mark, TableType
<1> HIDE DEF mark, k
<1>7. Cut(pages, mark) = pages
  <2>1. ASSUME NEW a \in 1 .. k
        PROVE  (IF a < k THEN pages[a]
                ELSE [pages[a] EXCEPT !.tokens = mark.last_page_tokens]) = pages[a]
    <3>1. CASE a < k
      BY <3>1
    <3>2. CASE ~(a < k)
      <4>1. a = k /\ k # 0
        BY <1>2, <3>2
      <4>2. mark.last_page_tokens = pages[a].tokens /\ pages[a] \in Page
        BY <1>2, <1>4, <4>1
      <4>3. [pages[a] EXCEPT !.tokens = pages[a].tokens] = pages[a]
        BY <4>2 DEF Page
      <4> QED BY <3>2, <4>2, <4>3
    <3> QED BY <3>1, <3>2
  <2>2. pages = [a \in 1 .. k |-> pages[a]]
    <3>1. pages \in Seq(Page)
      BY <1>1 DEF BookInv
    <3> QED BY <1>2, <3>1
  <2>3. Cut(pages, mark) = [a \in 1 .. k |-> pages[a]]
    BY <1>4, <2>1 DEF Cut
  <2> QED BY <2>2, <2>3
<1>8. MarkInv(mark, pages, tokens, page_to_q4_slot, free_q4_slots)
  <2>1. mark.tokens <= tokens /\ mark.pages <= Len(pages)
    BY <1>2, <1>4 DEF k
  <2>2. mark.pages # 0 => mark.last_page_tokens \in 1 .. pages[mark.pages].tokens
    BY <1>4, <1>5
  <2>3. /\ BookInv(Cut(pages, mark), mark.tokens)
        /\ SlotInv(Cut(pages, mark), mark.page_to_q4_slot, mark.free_q4_slots)
    BY <1>1, <1>4, <1>7
  <2>4. mark.pages = 0 => mark.last_page_tokens = 0
    BY <1>4
  <2>5. /\ \A a \in PageIndices :
              mark.page_to_q4_slot[a] # NoSlot => page_to_q4_slot[a] = mark.page_to_q4_slot[a]
        /\ \A i \in DOMAIN free_q4_slots :
              \E j \in DOMAIN mark.free_q4_slots : mark.free_q4_slots[j] = free_q4_slots[i]
    BY <1>4
  <2> QED BY <1>6, <2>1, <2>2, <2>3, <2>4, <2>5 DEF MarkInv
<1>9. BranchInv(<<mark>>, pages, tokens, page_to_q4_slot, free_q4_slots)
  BY <1>6, <1>8 DEF BranchInv
<1>10. poisoned \in BOOLEAN
  BY DEF MetalInv
<1> QED BY <1>1, <1>3, <1>9, <1>10, InvFromParts

LEMMA RestoreInv ==
  ASSUME MetalInv, RestoreSpeculative
  PROVE  MetalInv'
<1>1. PICK mark \in Mark :
         /\ checkpoint = <<mark>>
         /\ MarkInv(mark, pages, tokens, page_to_q4_slot, free_q4_slots)
  BY DEF MetalInv, BranchInv, RestoreSpeculative
<1>2. /\ BookInv(Cut(pages, mark), mark.tokens)
      /\ SlotInv(Cut(pages, mark), mark.page_to_q4_slot, mark.free_q4_slots)
      /\ TableType(mark.page_to_q4_slot) /\ mark.free_q4_slots \in Seq(Slots)
  BY <1>1 DEF MarkInv, Mark, TableType
<1>3. checkpoint[1] = mark /\ Truncated(mark) = Cut(pages, mark)
  BY <1>1 DEF Truncated, Cut
<1>4. /\ policy' = policy /\ tokens' = mark.tokens /\ pages' = Cut(pages, mark)
      /\ page_to_q4_slot' = mark.page_to_q4_slot /\ free_q4_slots' = mark.free_q4_slots
      /\ q2_pages' = q2_pages /\ q4_pages' = q4_pages
      /\ poisoned' = FALSE /\ checkpoint' = << >>
  BY <1>3 DEF RestoreSpeculative
<1>5. policy \in Policies /\ q2_pages \in Arena(PageIndices) /\ q4_pages \in Arena(Slots)
  BY DEF MetalInv
<1>6. BranchInv(<< >>, Cut(pages, mark), mark.tokens, mark.page_to_q4_slot, mark.free_q4_slots)
  BY DEF BranchInv
<1> QED BY <1>2, <1>4, <1>5, <1>6, InvFromParts

LEMMA NextInv == MetalInv /\ [Next]_vars => MetalInv'
<1> SUFFICES ASSUME MetalInv, [Next]_vars PROVE MetalInv'
  OBVIOUS
<1>1. /\ policy \in Policies /\ BookInv(pages, tokens)
      /\ TableType(page_to_q4_slot) /\ free_q4_slots \in Seq(Slots)
      /\ q2_pages \in Arena(PageIndices) /\ q4_pages \in Arena(Slots)
      /\ poisoned \in BOOLEAN
      /\ ~poisoned => SlotInv(pages, page_to_q4_slot, free_q4_slots)
      /\ BranchInv(checkpoint, pages, tokens, page_to_q4_slot, free_q4_slots)
  BY DEF MetalInv
<1>2. ASSUME Appendable,
             NEW plan \in {Plan}, NEW value \in Values,
             AppendAndDispatch(plan, value) \/ AppendFailed(plan, value)
      PROVE  MetalInv'
  <2>1. plan = Plan /\ value \in Values \cup {Junk}
    OBVIOUS
  <2> QED BY <1>2, <2>1, AppendInv
<1>3. ASSUME Appendable, NEW plan \in {Plan}, AppendNotPlanned(plan) PROVE MetalInv'
  <2>1. plan = Plan /\ Junk \in Values \cup {Junk}
    OBVIOUS
  <2> QED BY <1>3, <2>1, AppendInv
<1>4. CASE BeginSpeculative
  BY <1>4, BeginInv
<1>5. CASE RestoreSpeculative
  BY <1>5, RestoreInv
<1>6. CASE CommitSpeculative
  <2>1. /\ policy' = policy /\ tokens' = tokens /\ pages' = pages
        /\ page_to_q4_slot' = page_to_q4_slot /\ free_q4_slots' = free_q4_slots
        /\ q2_pages' = q2_pages /\ q4_pages' = q4_pages /\ poisoned' = poisoned
        /\ checkpoint' = << >>
    BY <1>6 DEF CommitSpeculative, metadata
  <2>2. BranchInv(<< >>, pages, tokens, page_to_q4_slot, free_q4_slots)
    BY DEF BranchInv
  <2> QED BY <1>1, <2>1, <2>2, InvFromParts
<1>7. CASE Reset
  <2>1. BranchInv(<< >>, << >>, 0, NoPageMapped(policy), AllSlotsFree(policy))
    BY DEF BranchInv
  <2> QED BY <1>1, <1>7, <2>1, Fresh, InvFromParts DEF Reset
<1>8. CASE UNCHANGED vars
  <2>1. /\ policy' = policy /\ tokens' = tokens /\ pages' = pages
        /\ page_to_q4_slot' = page_to_q4_slot /\ free_q4_slots' = free_q4_slots
        /\ q2_pages' = q2_pages /\ q4_pages' = q4_pages /\ poisoned' = poisoned
        /\ checkpoint' = checkpoint
    BY <1>8 DEF vars, metadata
  <2> QED BY <1>1, <2>1, InvFromParts
<1> QED BY <1>2, <1>3, <1>4, <1>5, <1>6, <1>7, <1>8 DEF Next

LEMMA AlwaysInv == Spec => []MetalInv
<1> QED BY InitInv, NextInv, PTL DEF Spec

-----------------------------------------------------------------------------
(* Every Q4 slot backs one page or is free. *)

LEMMA Partitioned == MetalInv => SlotsArePartitioned
<1> SUFFICES ASSUME MetalInv PROVE SlotsArePartitioned
  OBVIOUS
<1>1. /\ policy \in Policies /\ BookInv(pages, tokens)
      /\ TableType(page_to_q4_slot) /\ free_q4_slots \in Seq(Slots)
      /\ q2_pages \in Arena(PageIndices) /\ q4_pages \in Arena(Slots)
      /\ poisoned \in BOOLEAN
      /\ ~poisoned => SlotInv(pages, page_to_q4_slot, free_q4_slots)
      /\ BranchInv(checkpoint, pages, tokens, page_to_q4_slot, free_q4_slots)
  BY DEF MetalInv
<1>2. MetalTypeOK
  <2>1. pages \in Seq([tokens : Cells, precision : {Q2, Q4}])
    BY <1>1 DEF BookInv, Page
  <2>2. Len(pages) <= MaximumPages(policy)
    BY <1>1, PagesFit
  <2>3. checkpoint = << >> \/ \E mark \in Mark : checkpoint = <<mark>>
    BY <1>1 DEF BranchInv
  <2>4. Len(checkpoint) <= 1
    <3>1. Len(<< >>) <= 1 /\ \A mark \in Mark : Len(<<mark>>) <= 1
      OBVIOUS
    <3> QED BY <2>3, <3>1
  <2>5. tokens \in 0 .. policy.maximum_tokens
    BY <1>1 DEF BookInv
  <2> QED BY <1>1, <2>1, <2>2, <2>4, <2>5 DEF MetalTypeOK, TableType, Arena
<1>3. ASSUME ~poisoned
      PROVE  LET backed == {page \in PageIndices : page_to_q4_slot[page] # NoSlot}
                 mapped == {page_to_q4_slot[page] : page \in backed}
             IN  /\ Cardinality(mapped) = Cardinality(backed)
                 /\ IsInjective(free_q4_slots)
                 /\ mapped \cap ToSet(free_q4_slots) = {}
                 /\ mapped \cup ToSet(free_q4_slots) = Slots
                 /\ backed = {page \in DOMAIN pages : pages[page].precision = Q4}
  <2> DEFINE backed == {page \in PageIndices : page_to_q4_slot[page] # NoSlot}
             mapped == {page_to_q4_slot[page] : page \in backed}
             slotOf == [page \in backed |-> page_to_q4_slot[page]]
  <2>1. /\ Partition(page_to_q4_slot, free_q4_slots)
        /\ \A a \in PageIndices :
              page_to_q4_slot[a] # NoSlot <=> a \in DOMAIN pages /\ pages[a].precision = Q4
    BY <1>1, <1>3 DEF SlotInv
  <2>2. Cardinality(mapped) = Cardinality(backed)
    <3>1. slotOf \in Bijection(backed, mapped)
      <4>1. slotOf \in [backed -> mapped] /\ IsInjective(slotOf)
        BY <2>1 DEF Partition, IsInjective
      <4>2. slotOf \in Surjection(backed, mapped)
        BY <4>1 DEF Surjection
      <4> QED BY <4>1, <4>2 DEF Bijection, Injection
    <3>2. IsFiniteSet(backed)
      <4>1. IsFiniteSet(PageIndices)
        BY <1>1, Geometry, FS_Interval DEF PageIndices
      <4> QED BY <4>1, FS_Subset
    <3> QED BY <3>1, <3>2, FS_Bijection DEF ExistsBijection
  <2>3. IsInjective(free_q4_slots)
    BY <2>1 DEF Partition, IsInjective
  <2>4. mapped \cap ToSet(free_q4_slots) = {}
    BY <2>1 DEF Partition, ToSet
  <2>5. mapped \cup ToSet(free_q4_slots) = Slots
    <3>1. ToSet(free_q4_slots) \subseteq Slots
      BY <1>1 DEF ToSet
    <3>2. mapped \subseteq Slots
      BY <1>1 DEF TableType
    <3>3. ASSUME NEW slot \in Slots PROVE slot \in mapped \/ slot \in ToSet(free_q4_slots)
      <4>1. slot # NoSlot
        BY <1>1, Geometry DEF Slots, NoSlot
      <4> QED BY <2>1, <4>1 DEF Partition, ToSet
    <3> QED BY <3>1, <3>2, <3>3
  <2>6. backed = {page \in DOMAIN pages : pages[page].precision = Q4}
    BY <1>1, <2>1, PagesFit
  <2> QED BY <2>2, <2>3, <2>4, <2>5, <2>6
<1> QED BY <1>2, <1>3 DEF SlotsArePartitioned

\* No two pages share a Q4 slot and no slot leaks, whatever is appended,
\* demoted, taken back or reset, and for every policy: the bookkeeping of
\* plan_paged_gqa_append and of the speculative checkpoint.
THEOREM SlotsStayPartitioned == Spec => []SlotsArePartitioned
<1> QED BY AlwaysInv, Partitioned, PTL

\* A branch of the Metal owner can be taken back from every state it leads to:
\* MetalPagedKvMetadata::restore never refuses.
THEOREM BranchesReturn == Spec => []RestoreIsNeverRefused
<1>1. MetalInv => RestoreIsNeverRefused
  <2> SUFFICES ASSUME MetalInv, checkpoint # << >> PROVE IsPrefixOfCurrent(checkpoint[1])
    BY DEF RestoreIsNeverRefused
  <2>1. policy \in Policies /\ BookInv(pages, tokens)
    BY DEF MetalInv
  <2>2. PICK mark \in Mark :
           /\ checkpoint = <<mark>>
           /\ MarkInv(mark, pages, tokens, page_to_q4_slot, free_q4_slots)
    BY DEF MetalInv, BranchInv
  <2>3. /\ mark.tokens <= tokens /\ mark.pages <= Len(pages)
        /\ mark.pages = 0 => mark.last_page_tokens = 0
        /\ mark.pages # 0 => mark.last_page_tokens \in 1 .. pages[mark.pages].tokens
        /\ mark.pages \in Nat
    BY <2>2 DEF MarkInv, Mark
  <2>4. mark.last_page_tokens <= policy.page_tokens
    <3>1. CASE mark.pages = 0
      BY <2>1, <2>3, <3>1, Geometry
    <3>2. CASE mark.pages # 0
      <4>1. Len(pages) \in Nat /\ \A a \in 1 .. Len(pages) : pages[a] \in Page
        BY <2>1, PagesFit
      <4>2. mark.pages \in 1 .. Len(pages)
        BY ONLY <2>3, <3>2, <4>1
      <4>3. pages[mark.pages].tokens \in 1 .. policy.page_tokens
        BY <4>1, <4>2 DEF Page, Cells
      <4> QED BY <2>1, <2>3, <3>2, <4>3, Geometry
    <3> QED BY <3>1, <3>2
  <2> QED BY <2>2, <2>3, <2>4 DEF IsPrefixOfCurrent
<1> QED BY <1>1, AlwaysInv, PTL

-----------------------------------------------------------------------------
(* An append outside a branch finds its slot. *)

\* When a plan holds.
LEMMA PlanSucceeds ==
  ASSUME policy \in Policies, BookInv(pages, tokens), tokens < policy.maximum_tokens,
         TableType(page_to_q4_slot), free_q4_slots \in Seq(Slots),
         NEW book, book = Counted(Opened), NEW n, n = Len(book),
         \A a \in Gone : book[a].tokens = policy.page_tokens /\ page_to_q4_slot[a] # NoSlot,
         n \notin Gone, book[n].precision = Q4,
         page_to_q4_slot[n] # NoSlot \/ free_q4_slots # << >> \/ Gone # {}
  PROVE  Plan.ok
<1> DEFINE pushed == Pushed
           r == Released(pushed)
           t == Unmapped(r)
           p == Returned(r)
           c == Cardinality(Gone)
<1>1. BookInv(book, tokens + 1) /\ n \in Nat \ {0}
  BY CountedFacts
<1>2. /\ Gone \subseteq 1 .. n /\ IsFiniteSet(Gone) /\ Gone \subseteq Nat
      /\ pushed.demoted = InOrder(Gone)
      /\ Len(pushed.pages) = n
      /\ \A a \in 1 .. n :
            /\ pushed.pages[a].tokens = book[a].tokens
            /\ pushed.pages[a].precision = IF a \in Gone THEN Q2 ELSE book[a].precision
  BY PushFacts
<1>3. 1 .. n \subseteq PageIndices /\ n \in 1 .. n /\ Gone \subseteq PageIndices
  <2>1. 1 .. n \subseteq PageIndices
    BY <1>1, PagesFit
  <2>2. n \in 1 .. n
    BY ONLY <1>1
  <2> QED BY <1>2, <2>1, <2>2
<1>4. Plan = Assign(pushed, r, n, t, p)
  BY <1>2 DEF Plan, PlanFor
<1>5. ReleasesRightly(pushed, Gone, r)
  <2>1. r = Released(pushed)
    OBVIOUS
  <2> HIDE DEF pushed, r
  <2>2. /\ Gone \subseteq PageIndices /\ IsFiniteSet(Gone) /\ Gone \subseteq Nat
        /\ pushed.demoted = InOrder(Gone)
    BY <1>2, <1>3
  <2> QED BY ONLY <2>1, <2>2, ReleasedFacts
<1> HIDE DEF pushed
<1>6. /\ r \in Seq(Gone) /\ Len(pushed.demoted) = c /\ Len(r) = c
      /\ \A i \in DOMAIN r : page_to_q4_slot[r[i]] # NoSlot
  <2> HIDE DEF r
  <2>1. \A a \in Gone : /\ pushed.pages[a].tokens = policy.page_tokens
                        /\ page_to_q4_slot[a] # NoSlot
    BY <1>2
  <2> QED BY ONLY <1>5, <2>1 DEF ReleasesRightly, c
<1> HIDE DEF r
<1>7. r \in Seq(PageIndices) /\ n \notin ToSet(r)
  <2>1. \A i \in DOMAIN r : r[i] \in Gone
    BY <1>6
  <2>2. r \in Seq(PageIndices)
    BY <1>3, <1>6, SeqMonotonic
  <2> QED BY <2>1, <2>2 DEF ToSet
<1>8. /\ \A a \in PageIndices : t[a] = IF a \in ToSet(r) THEN NoSlot ELSE page_to_q4_slot[a]
      /\ p \in Seq(Slots) /\ Len(p) = Len(free_q4_slots) + Len(r)
  BY <1>6, <1>7, ReleaseTypes
<1> HIDE DEF t, p
<1>9. t[n] = page_to_q4_slot[n]
  BY <1>3, <1>7, <1>8
<1>10. free_q4_slots # << >> \/ Gone # {} => p # << >>
  <2>1. Len(free_q4_slots) \in Nat /\ c \in Nat
    BY <1>2, FS_CardinalityType
  <2>2. free_q4_slots # << >> => Len(free_q4_slots) # 0
    OBVIOUS
  <2>3. Gone # {} => c # 0
    BY <1>2, FS_EmptySet
  <2>4. p = << >> => Len(p) = 0
    OBVIOUS
  <2> QED BY <1>6, <1>8, <2>1, <2>2, <2>3, <2>4
<1>11. pushed.pages[n].precision = Q4
  BY <1>2, <1>3
<1> QED BY <1>4, <1>6, <1>9, <1>10, <1>11 DEF Assign

\* Pages that are neither sink nor window nor in a branch are not kept at Q4:
\* fewer than Q4Slots of them are.
LEMMA KeptPages ==
  ASSUME policy \in Policies, policy.recent_tokens > 0,
         NEW m \in Nat, m < MaximumPages(policy),
         NEW kept, kept \subseteq 1 .. m,
         \A a \in kept :
            \/ PageStart(a) < policy.sink_tokens
            \/ PageStart(a) + policy.page_tokens
                  > SaturatingSub(PageStart(m + 1) + 1, policy.recent_tokens)
  PROVE  IsFiniteSet(kept) /\ Cardinality(kept) < Q4Slots(policy)
<1> DEFINE P == policy.page_tokens
           R == policy.recent_tokens
           s == policy.sink_tokens \div P
           w == CeilDiv(R, P)
<1>1. /\ P \in Nat \ {0} /\ R \in Nat \ {0} /\ policy.sink_tokens \in Nat
      /\ policy.sink_tokens % P = 0 /\ MaximumPages(policy) \in Nat
  BY Geometry
<1>2. s \in Nat /\ policy.sink_tokens = P * s
  <2>1. s \in Nat /\ policy.sink_tokens = P * s + (policy.sink_tokens % P)
    BY <1>1, DivMod
  <2>2. P * s \in Nat
    BY <1>1, <2>1
  <2> HIDE DEF s
  <2> QED BY <1>1, <2>1, <2>2
<1>3. w \in Nat /\ \A k \in Nat : P * k < R => k + 1 <= w
  BY <1>1, Ceiling
<1> HIDE DEF P, R, s, w
<1>4. \A a \in Nat : PageStart(a + 1) = P * a /\ P * a \in Nat
  BY <1>1 DEF PageStart, P
<1>5. ASSUME NEW a \in kept PROVE a \in 1 .. s \/ a \in m + 1 - w .. m
  <2>1. a \in 1 .. m /\ a - 1 \in Nat /\ (a - 1) + 1 = a
    OBVIOUS
  <2>2. PageStart(a) = P * (a - 1) /\ P * (a - 1) \in Nat
    BY <1>4, <2>1
  <2>3. CASE PageStart(a) < policy.sink_tokens
    <3>1. P * (a - 1) < P * s
      BY <1>2, <2>2, <2>3
    <3>2. ASSUME s <= a - 1 PROVE FALSE
      <4>1. P * s <= P * (a - 1)
        BY <1>1, <1>2, <2>1, <3>2, Monotone
      <4>2. P * s \in Nat
        BY <1>1, <1>2
      <4> QED BY <2>2, <3>1, <4>1, <4>2
    <3> QED BY <1>2, <2>1, <3>2
  <2>4. CASE PageStart(a) + P > SaturatingSub(PageStart(m + 1) + 1, R)
    <3>1. PageStart(m + 1) = P * m /\ P * m \in Nat
      BY <1>4
    <3>2. PageStart(a) + P = P * a /\ P * a \in Nat
      <4>1. P * (a - 1) + P = P * a /\ P * a \in Nat
        BY <1>1, <2>1
      <4> QED BY <2>2, <4>1
    <3>3. P * m < P * a + R
      BY <1>1, <2>4, <3>1, <3>2 DEF SaturatingSub
    <3>4. m - a \in Nat /\ P * (m - a) = P * m - P * a
      BY <1>1, <2>1
    <3>5. P * (m - a) < R
      BY <1>1, <3>1, <3>2, <3>3, <3>4
    <3>6. (m - a) + 1 <= w
      BY <1>3, <3>4, <3>5
    <3> QED BY <1>3, <2>1, <3>6
  <2> QED BY <2>3, <2>4 DEF P, R
<1>6. CASE Q4Slots(policy) = MaximumPages(policy)
  <2>1. IsFiniteSet(1 .. m) /\ Cardinality(1 .. m) = m
    BY FS_Interval
  <2>2. /\ IsFiniteSet(kept) /\ Cardinality(kept) <= m /\ Cardinality(kept) \in Nat
    BY <2>1, FS_Subset, FS_CardinalityType
  <2> QED BY <1>1, <1>6, <2>2
<1>7. CASE Q4Slots(policy) # MaximumPages(policy)
  <2>1. Q4Slots(policy) = s + w + 1
    BY <1>7 DEF Q4Slots, Lesser, s, w, P, R
  <2>2. /\ IsFiniteSet(1 .. s) /\ Cardinality(1 .. s) = s
        /\ IsFiniteSet(m + 1 - w .. m) /\ Cardinality(m + 1 - w .. m) = w
    <3>1. m + 1 - w \in Int /\ m \in Int /\ s \in Int
      BY <1>2, <1>3
    <3>2. IsFiniteSet(1 .. s) /\ Cardinality(1 .. s) = s
      BY <1>2, <3>1, FS_Interval
    <3>3. /\ IsFiniteSet(m + 1 - w .. m)
          /\ Cardinality(m + 1 - w .. m) = IF m + 1 - w > m THEN 0 ELSE m - (m + 1 - w) + 1
      BY <3>1, FS_Interval
    <3> QED BY <1>3, <3>1, <3>2, <3>3
  <2> DEFINE all == 1 .. s \cup (m + 1 - w .. m)
             both == 1 .. s \cap (m + 1 - w .. m)
  <2>3. IsFiniteSet(all) /\ Cardinality(all) = s + w - Cardinality(both)
    BY <2>2, FS_Union
  <2>4. Cardinality(both) \in Nat
    <3>1. IsFiniteSet(both)
      BY <2>2, FS_Subset
    <3> QED BY <3>1, FS_CardinalityType
  <2>5. kept \subseteq all
    BY <1>5
  <2> HIDE DEF all, both
  <2>6. /\ IsFiniteSet(kept) /\ Cardinality(kept) <= Cardinality(all) /\ Cardinality(kept) \in Nat
    BY <2>3, <2>5, FS_Subset, FS_CardinalityType
  <2> QED BY <1>2, <1>3, <2>1, <2>3, <2>4, <2>6
<1> QED BY <1>6, <1>7

LEMMA Fits == MetalInv => OrdinaryAppendAlwaysFits
<1> SUFFICES ASSUME MetalInv, Appendable, checkpoint = << >>, policy.recent_tokens > 0
             PROVE  Plan.ok
  BY DEF OrdinaryAppendAlwaysFits
<1> DEFINE book == Counted(Opened)
           n == Len(book)
           R == policy.recent_tokens
<1>1. Healthy /\ NextBook(book, n) /\ NextPlan(Plan, book, n)
  BY AppendFacts
<1>2. book = Counted(Opened) /\ n = Len(book)
  OBVIOUS
<1> HIDE DEF book, n
<1>3. /\ policy \in Policies /\ BookInv(pages, tokens) /\ TableType(page_to_q4_slot)
      /\ free_q4_slots \in Seq(Slots) /\ tokens < policy.maximum_tokens
      /\ Partition(page_to_q4_slot, free_q4_slots)
      /\ \A a \in PageIndices :
            page_to_q4_slot[a] # NoSlot <=> a \in DOMAIN pages /\ pages[a].precision = Q4
      /\ \A a \in DOMAIN pages : pages[a].precision = Q2 => pages[a].tokens = policy.page_tokens
  BY <1>1 DEF Healthy, SlotInv
<1>4. /\ n \in Nat \ {0} /\ n \in 1 .. n /\ 1 .. n \subseteq PageIndices
      /\ DOMAIN book = 1 .. n /\ \A a \in 1 .. n : book[a] \in Page
      /\ Len(pages) \in Nat /\ DOMAIN pages = 1 .. Len(pages)
      /\ \A a \in 1 .. Len(pages) : pages[a] \in Page
      /\ n = Len(pages) \/ n = Len(pages) + 1
      /\ \A a \in 1 .. n : a < n => a \in 1 .. Len(pages) /\ book[a] = pages[a]
  BY <1>1 DEF NextBook
<1>5. /\ n = Len(pages) => /\ pages[n].tokens < policy.page_tokens
                           /\ book[n].precision = pages[n].precision
      /\ n # Len(pages) => /\ book[n].precision = Q4 /\ tokens = PageStart(n)
  <2>1. /\ n = Len(pages) => /\ pages[n].tokens < policy.page_tokens
                             /\ book[n].tokens = pages[n].tokens + 1
                             /\ book[n].precision = pages[n].precision
        /\ n # Len(pages) => /\ book[n] = [tokens |-> 1, precision |-> Q4]
                             /\ tokens = PageStart(n)
    <3>1. NextBook(book, n)
      BY <1>1
    <3> QED BY ONLY <3>1, Zenon DEF NextBook
  <2>2. n # Len(pages) => book[n].precision = Q4
    <3>1. [tokens |-> 1, precision |-> Q4].precision = Q4
      BY Zenon
    <3> QED BY ONLY <2>1, <3>1, Zenon
  <2> QED BY ONLY <2>1, <2>2, Zenon
<1>6. /\ \A a \in 1 .. n : a < n => book[a].tokens = policy.page_tokens
      /\ tokens + 1 = PageStart(n) + book[n].tokens /\ tokens \in Nat
  <2>1. BookInv(book, tokens + 1) /\ tokens \in Nat
    <3>1. BookInv(book, tokens + 1)
      BY <1>1 DEF NextBook
    <3>2. tokens \in 0 .. policy.maximum_tokens
      BY <1>3 DEF BookInv
    <3>3. policy.maximum_tokens \in Nat
      BY <1>3, Geometry
    <3> QED BY ONLY <3>1, <3>2, <3>3
  <2> QED BY <1>4, <2>1 DEF BookInv
<1>7. Gone = Demoted(book, tokens + 1) /\ Gone \subseteq 1 .. n
  BY <1>1 DEF NextPlan
<1>8. R \in Nat \ {0} /\ policy.page_tokens \in Nat \ {0} /\ policy.sink_tokens \in Nat
  BY <1>3, Geometry
<1>9. n \notin Gone
  <2>1. ~(tokens + 1 <= SaturatingSub(tokens + 1, R))
    <3>1. tokens \in Nat
      BY <1>6
    <3> HIDE DEF R
    <3> QED BY ONLY <3>1, <1>8 DEF SaturatingSub
  <2> QED BY <1>6, <1>7, <2>1 DEF Demoted, R
<1>10. \A a \in Gone : book[a].tokens = policy.page_tokens /\ page_to_q4_slot[a] # NoSlot
  <2> SUFFICES ASSUME NEW a \in Gone
               PROVE  book[a].tokens = policy.page_tokens /\ page_to_q4_slot[a] # NoSlot
    OBVIOUS
  <2>1. a \in 1 .. n /\ a # n /\ book[a].precision = Q4
    BY <1>7, <1>9 DEF Demoted
  <2>2. a < n
    <3>1. n \in Nat
      BY <1>4
    <3> QED BY ONLY <2>1, <3>1
  <2>3. a \in PageIndices /\ a \in DOMAIN pages /\ pages[a].precision = Q4
    BY <1>4, <2>1, <2>2
  <2> QED BY <1>3, <1>6, <2>1, <2>2, <2>3
<1>11. book[n].precision = Q4
  <2>1. CASE n = Len(pages)
    <3>1. pages[n] \in Page /\ n \in DOMAIN pages
      BY <1>4, <2>1
    <3>2. pages[n].tokens # policy.page_tokens /\ pages[n].precision \in {Q2, Q4}
      <4>1. pages[n].tokens \in Nat /\ pages[n].precision \in {Q2, Q4}
        BY <1>8, <3>1 DEF Page, Cells
      <4>2. pages[n].tokens < policy.page_tokens
        BY <1>5, <2>1
      <4> QED BY ONLY <1>8, <4>1, <4>2
    <3>3. pages[n].precision = Q4
      BY <1>3, <3>1, <3>2
    <3> QED BY <1>5, <2>1, <3>3
  <2> QED BY <1>5, <2>1
<1>12. page_to_q4_slot[n] # NoSlot \/ free_q4_slots # << >> \/ Gone # {}
  <2>1. CASE n = Len(pages)
    <3>1. n \in DOMAIN pages /\ n \in PageIndices /\ pages[n].precision = Q4
      BY <1>4, <1>5, <1>11, <2>1
    <3> QED BY <1>3, <3>1
  <2>2. CASE n # Len(pages)
    <3> SUFFICES ASSUME free_q4_slots = << >>, Gone = {} PROVE FALSE
      OBVIOUS
    <3> DEFINE m == Len(pages)
               kept == {a \in 1 .. m : pages[a].precision = Q4}
               slotOf == [a \in kept |-> page_to_q4_slot[a]]
    <3>1. m \in Nat /\ n = m + 1 /\ m < MaximumPages(policy) /\ MaximumPages(policy) \in Nat
      <4>1. n \in 1 .. MaximumPages(policy) /\ MaximumPages(policy) \in Nat
        BY <1>3, <1>4, Geometry DEF PageIndices
      <4> QED BY <1>4, <2>2, <4>1
    <3>2. tokens = PageStart(m + 1)
      BY <1>5, <2>2, <3>1
    <3>3. ASSUME NEW a \in kept
          PROVE  \/ PageStart(a) < policy.sink_tokens
                 \/ PageStart(a) + policy.page_tokens
                       > SaturatingSub(PageStart(m + 1) + 1, policy.recent_tokens)
      <4>1. a \in 1 .. n /\ a < n /\ pages[a].precision = Q4 /\ a \in Nat \ {0}
        BY <3>1
      <4>2. book[a].tokens = policy.page_tokens /\ book[a].precision = Q4
        BY <1>4, <1>6, <4>1
      <4>3. a \notin Demoted(book, tokens + 1)
        BY <1>7
      <4>4. \/ ~(PageStart(a) >= policy.sink_tokens)
            \/ ~(PageStart(a) + policy.page_tokens <= SaturatingSub(tokens + 1, policy.recent_tokens))
        BY <1>4, <4>1, <4>2, <4>3 DEF Demoted
      <4>5. /\ PageStart(a) \in Nat
            /\ SaturatingSub(tokens + 1, policy.recent_tokens) \in Nat
        BY <1>6, <1>8, <4>1 DEF PageStart, SaturatingSub, R
      <4> QED BY <1>8, <3>2, <4>4, <4>5
    <3>4. IsFiniteSet(kept) /\ Cardinality(kept) < Q4Slots(policy)
      <4>1. kept \subseteq 1 .. m
        OBVIOUS
      <4> HIDE DEF kept
      <4> QED BY <1>3, <3>1, <3>3, <4>1, KeptPages
    <3>5. slotOf \in Surjection(kept, Slots)
      <4>1. \A a \in kept : a \in PageIndices /\ page_to_q4_slot[a] \in Slots
        <5> SUFFICES ASSUME NEW a \in kept
                     PROVE  a \in PageIndices /\ page_to_q4_slot[a] \in Slots
          OBVIOUS
        <5>1. a \in 1 .. n /\ a \in DOMAIN pages /\ pages[a].precision = Q4
          BY <1>4, <3>1
        <5> QED BY <1>3, <1>4, <5>1 DEF TableType
      <4>2. ASSUME NEW slot \in Slots PROVE \E a \in kept : page_to_q4_slot[a] = slot
        <5>1. slot # NoSlot
          BY <1>3, Geometry DEF Slots, NoSlot
        <5>2. PICK a \in PageIndices : page_to_q4_slot[a] = slot
          BY <1>3 DEF Partition
        <5> QED BY <1>3, <1>4, <5>1, <5>2
      <4> QED BY <4>1, <4>2 DEF Surjection
    <3> HIDE DEF slotOf, kept
    <3>6. Cardinality(Slots) <= Cardinality(kept)
      BY <3>4, <3>5, FS_Surjection
    <3>7. Cardinality(Slots) = Q4Slots(policy) /\ Q4Slots(policy) \in Nat
      BY <1>3, Geometry, FS_Interval DEF Slots
    <3>8. Cardinality(kept) \in Nat
      BY <3>4, FS_CardinalityType
    <3> QED BY <3>4, <3>6, <3>7, <3>8
  <2> QED BY <2>1, <2>2
<1> QED BY <1>2, <1>3, <1>9, <1>10, <1>11, <1>12, PlanSucceeds

\* With a recent window behind a sink of whole pages, sink, window and one
\* boundary page are Q4 slots enough for every append outside a branch, at
\* every alignment and after every branch that held back demotions: the plan
\* of plan_paged_gqa_append never runs out.
THEOREM OrdinaryAppendsFit == Spec => []OrdinaryAppendAlwaysFits
<1> QED BY AlwaysInv, Fits, PTL

-----------------------------------------------------------------------------
(* What attention reads *)

PageOf(t) == ((t - 1) \div policy.page_tokens) + 1
CellOf(t) == ((t - 1) % policy.page_tokens) + 1

\* Token t through the descriptors of some metadata, in some arenas.
SeenAt(book, table, t, q2, q4) ==
    [value |-> IF book[PageOf(t)].precision = Q4 THEN q4[table[PageOf(t)]][CellOf(t)]
               ELSE q2[PageOf(t)][CellOf(t)],
     precision |-> book[PageOf(t)].precision]

Seen(book, table, count, q2, q4) == [t \in 1 .. count |-> SeenAt(book, table, t, q2, q4)]

LEMMA ViewIsSeen ==
  ASSUME NEW book, NEW table, NEW count
  PROVE  DeviceView(book, table, count) = Seen(book, table, count, q2_pages, q4_pages)
BY DEF DeviceView, ReadAt, Seen, SeenAt, PageOf, CellOf

\* A token of some metadata is on a page of theirs, in a cell written before.
Addressed(book, t) ==
    /\ PageOf(t) \in 1 .. Len(book) /\ PageOf(t) \in PageIndices
    /\ CellOf(t) \in 1 .. book[PageOf(t)].tokens /\ CellOf(t) \in Cells
    /\ t = PageStart(PageOf(t)) + CellOf(t) /\ PageStart(PageOf(t)) \in Nat
    /\ book[PageOf(t)] \in Page

LEMMA Addresses ==
  ASSUME policy \in Policies, NEW book, NEW count, BookInv(book, count), NEW t \in 1 .. count
  PROVE  Addressed(book, t)
<1> DEFINE P == policy.page_tokens
           n == Len(book)
           q == (t - 1) \div P
           r == (t - 1) % P
<1>1. P \in Nat \ {0} /\ policy.maximum_tokens \in Nat
  BY Geometry
<1>2. count \in Nat /\ t \in Nat \ {0} /\ t <= count /\ n \in Nat /\ n # 0
  <2>1. count \in 0 .. policy.maximum_tokens /\ n \in Nat /\ (n = 0 => count = 0)
    BY DEF BookInv
  <2> HIDE DEF n
  <2> QED BY ONLY <1>1, <2>1, t \in 1 .. count
<1>3. q \in Nat /\ r \in 0 .. P - 1 /\ t - 1 = P * q + r
  <2>1. t - 1 \in Nat
    BY <1>2
  <2> HIDE DEF P
  <2> QED BY ONLY <1>1, <2>1, DivMod DEF q, r
<1>4. PageOf(t) = q + 1 /\ CellOf(t) = r + 1
  BY DEF PageOf, CellOf
<1>5. /\ DOMAIN book = 1 .. n /\ 1 .. n \subseteq PageIndices /\ n \in 1 .. n
      /\ \A a \in 1 .. n : book[a] \in Page /\ book[a].tokens \in 1 .. P
  <2>1. /\ DOMAIN book = 1 .. n /\ 1 .. n \subseteq PageIndices
        /\ \A a \in 1 .. n : book[a] \in Page
    BY PagesFit
  <2>2. n \in 1 .. n
    BY <1>2
  <2>3. \A a \in 1 .. n : book[a].tokens \in 1 .. P
    BY <2>1 DEF Page, Cells
  <2> QED BY <2>1, <2>2, <2>3
<1>6. /\ count = PageStart(n) + book[n].tokens
      /\ \A a \in 1 .. n : a < n => book[a].tokens = P
  BY <1>2, <1>5 DEF BookInv
<1> HIDE DEF P, n, q, r
<1>7. PageStart(n) = P * (n - 1) /\ P * (n - 1) \in Nat /\ P * q \in Nat /\ n - 1 \in Nat
  <2>1. PageStart(n) = P * (n - 1)
    BY <1>1, <1>2 DEF PageStart, P
  <2>2. n - 1 \in Nat
    BY <1>2
  <2> QED BY <1>1, <1>3, <2>1, <2>2
<1>8. q <= n - 1
  <2> SUFFICES ASSUME n <= q PROVE FALSE
    BY <1>2, <1>3
  <2>1. P * n <= P * q /\ P * n \in Nat /\ P * n = P * (n - 1) + P
    BY <1>1, <1>2, <1>3, Monotone
  <2>2. book[n].tokens \in 1 .. P
    BY <1>5
  <2> QED BY <1>1, <1>2, <1>3, <1>6, <1>7, <2>1, <2>2
<1>9. q + 1 \in 1 .. n
  BY <1>2, <1>3, <1>8
<1>10. r + 1 \in 1 .. book[q + 1].tokens
  <2>1. CASE q + 1 < n
    BY <1>1, <1>3, <1>6, <1>9, <2>1
  <2>2. CASE q + 1 = n
    <3>1. q = n - 1
      BY <1>2, <1>3, <2>2
    <3>2. t - 1 = PageStart(n) + r /\ PageStart(n) \in Nat
      BY <1>3, <1>7, <3>1
    <3>3. book[n].tokens \in Nat
      BY <1>1, <1>5
    <3> QED BY <1>2, <1>3, <1>6, <2>2, <3>2, <3>3
  <2> QED BY <1>2, <1>3, <1>9, <2>1, <2>2
<1>11. PageStart(q + 1) = P * q /\ t = P * q + (r + 1)
  <2>1. PageStart(q + 1) = P * q
    BY <1>1, <1>3 DEF PageStart, P
  <2> QED BY <1>1, <1>2, <1>3, <1>7, <2>1
<1>12. r + 1 \in Cells
  BY <1>1, <1>3 DEF Cells, P
<1> QED BY <1>4, <1>5, <1>7, <1>9, <1>10, <1>11, <1>12 DEF Addressed, n

\* A page is determined by a token on it.
LEMMA PageBefore ==
  ASSUME policy \in Policies, NEW a \in Nat \ {0}, NEW b \in Nat \ {0}, b <= a
  PROVE  PageStart(b) <= PageStart(a) /\ PageStart(b) \in Nat
<1>1. policy.page_tokens \in Nat \ {0}
  BY Geometry
<1>2. /\ PageStart(b) = policy.page_tokens * (b - 1)
      /\ PageStart(a) = policy.page_tokens * (a - 1)
      /\ b - 1 \in Nat /\ a - 1 \in Nat /\ b - 1 <= a - 1
  BY <1>1 DEF PageStart
<1>3. policy.page_tokens * (b - 1) <= policy.page_tokens * (a - 1)
  BY <1>1, <1>2, Monotone
<1> QED BY <1>1, <1>2, <1>3

\* The arenas after an append that writes written.
Wrote(plan, written, q4) ==
    \A slot \in Slots, cell \in Cells :
        q4[slot][cell] = IF slot = plan.q4_slot /\ cell = plan.cell THEN written
                         ELSE q4_pages[slot][cell]

LEMMA Written ==
  ASSUME policy \in Policies, q4_pages \in Arena(Slots), NEW plan, plan.q4_slot \in Slots,
         plan.cell \in Cells, NEW written, NEW q4,
         q4 = [q4_pages EXCEPT ![plan.q4_slot][plan.cell] = written]
  PROVE  Wrote(plan, written, q4)
<1> DEFINE row == [q4_pages[plan.q4_slot] EXCEPT ![plan.cell] = written]
<1>1. /\ DOMAIN q4_pages = Slots /\ DOMAIN q4_pages[plan.q4_slot] = Cells
  BY DEF Arena
<1>2. q4 = [q4_pages EXCEPT ![plan.q4_slot] = row]
  OBVIOUS
<1>3. \A cell \in Cells : row[cell] = IF cell = plan.cell THEN written
                                      ELSE q4_pages[plan.q4_slot][cell]
  BY <1>1
<1> HIDE DEF row
<1>4. \A slot \in Slots : q4[slot] = IF slot = plan.q4_slot THEN row ELSE q4_pages[slot]
  BY <1>1, <1>2
<1>5. ASSUME NEW slot \in Slots, NEW cell \in Cells
      PROVE  q4[slot][cell] = IF slot = plan.q4_slot /\ cell = plan.cell THEN written
                              ELSE q4_pages[slot][cell]
  <2>1. CASE slot = plan.q4_slot
    BY <1>3, <1>4, <2>1
  <2>2. CASE slot # plan.q4_slot
    BY <1>4, <2>2
  <2> QED BY <2>1, <2>2
<1> QED BY <1>5 DEF Wrote

\* After an append the tokens read as before, those on demoted pages at Q2,
\* and the new one last.
ShownAfter(plan, value, t) ==
    LET before == SeenAt(pages, page_to_q4_slot, t, q2_pages, q4_pages)
    IN  IF t = tokens + 1 THEN [value |-> value, precision |-> Q4]
        ELSE IF PageOf(t) \in Gone THEN [before EXCEPT !.precision = Q2]
        ELSE before

LEMMA AppendShows ==
  ASSUME MetalInv, Appendable, NEW plan, plan = Plan, plan.ok, NEW value,
         NEW t \in 1 .. tokens + 1
  PROVE  /\ SeenAt(plan.pages, plan.page_to_q4_slot, t,
                   DemotedArena(plan, value), PackedArena(plan, value))
               = ShownAfter(plan, value, t)
         /\ PageOf(t) \in Gone => t # tokens + 1
<1> DEFINE book == Counted(Opened)
           n == Len(book)
           a == PageOf(t)
           c == CellOf(t)
           q2 == DemotedArena(plan, value)
           q4 == PackedArena(plan, value)
<1>1. Healthy /\ NextBook(book, n) /\ NextPlan(plan, book, n)
  BY AppendFacts
<1>2. book = Counted(Opened) /\ n = Len(book)
  OBVIOUS
<1> HIDE DEF book, n
<1>3. /\ policy \in Policies /\ BookInv(pages, tokens) /\ TableType(page_to_q4_slot)
      /\ Partition(page_to_q4_slot, free_q4_slots)
      /\ \A b \in PageIndices :
            page_to_q4_slot[b] # NoSlot <=> b \in DOMAIN pages /\ pages[b].precision = Q4
      /\ q2_pages \in Arena(PageIndices) /\ q4_pages \in Arena(Slots)
  BY <1>1 DEF Healthy, SlotInv
<1>4. /\ n \in Nat \ {0} /\ n \in 1 .. n /\ 1 .. n \subseteq PageIndices
      /\ DOMAIN pages = 1 .. Len(pages) /\ Len(pages) \in Nat
      /\ n = Len(pages) \/ n = Len(pages) + 1
      /\ \A b \in 1 .. n : b < n => b \in 1 .. Len(pages) /\ book[b] = pages[b]
  BY <1>1 DEF NextBook
<1>5. /\ n = Len(pages) => /\ book[n].tokens = pages[n].tokens + 1
                           /\ book[n].precision = pages[n].precision
      /\ n # Len(pages) => book[n].tokens = 1 /\ tokens = PageStart(n)
  <2>1. /\ n = Len(pages) => /\ book[n].tokens = pages[n].tokens + 1
                             /\ book[n].precision = pages[n].precision
        /\ n # Len(pages) => /\ book[n] = [tokens |-> 1, precision |-> Q4]
                             /\ tokens = PageStart(n)
    BY <1>1, Zenon DEF NextBook
  <2>2. n # Len(pages) => book[n].tokens = 1
    BY <2>1
  <2> QED BY <2>1, <2>2
<1>6. /\ plan.cell = book[n].tokens
      /\ \A b \in 1 .. n : /\ plan.pages[b].tokens = book[b].tokens
                           /\ plan.pages[b].precision = IF b \in Gone THEN Q2 ELSE book[b].precision
      /\ Len(plan.pages) = n /\ BookInv(plan.pages, tokens + 1) /\ Gone \subseteq 1 .. n
      /\ \A b \in Gone : book[b].precision = Q4
      /\ PlanHolds(plan, book, n)
  BY <1>1 DEF NextPlan
<1>7. /\ ToSet(plan.released) = Gone /\ \A b \in Gone : b < n
      /\ book[n].precision = Q4
      /\ plan.q4_slot \in Slots /\ plan.q4_slot = plan.page_to_q4_slot[n]
      /\ page_to_q4_slot[n] # NoSlot => plan.q4_slot = page_to_q4_slot[n]
      /\ \A b \in PageIndices : b # n =>
            plan.page_to_q4_slot[b] = IF b \in Gone THEN NoSlot ELSE page_to_q4_slot[b]
      /\ Partition(plan.page_to_q4_slot, plan.free_q4_slots)
  BY <1>6 DEF PlanHolds, SlotInv
<1>8. tokens \in Nat /\ BookInv(book, tokens + 1) /\ tokens + 1 = PageStart(n) + book[n].tokens
  <2>1. policy.maximum_tokens \in Nat
    BY <1>3, Geometry
  <2>2. tokens \in 0 .. policy.maximum_tokens
    BY <1>3 DEF BookInv
  <2>3. BookInv(book, tokens + 1)
    BY <1>1 DEF NextBook
  <2>4. tokens + 1 = PageStart(n) + book[n].tokens
    <3>1. Len(book) # 0
      BY <1>2, <1>4
    <3> QED BY <1>2, <2>3, <3>1 DEF BookInv
  <2> QED BY <2>1, <2>2, <2>3, <2>4
<1>9. /\ a \in 1 .. n /\ a \in PageIndices /\ c \in Cells /\ c \in 1 .. book[a].tokens
      /\ t = PageStart(a) + c /\ PageStart(a) \in Nat
  <2>1. Addressed(book, t)
    BY <1>3, <1>8, Addresses
  <2> QED BY <1>2, <2>1 DEF Addressed
<1>10. NoSlot \notin Slots
  BY <1>3, Geometry DEF Slots, NoSlot
<1>11. plan.cell \in Cells
  <2>1. book[n] \in Page
    BY <1>1 DEF NextBook
  <2> QED BY <1>6, <2>1 DEF Page
<1>12. Wrote(plan, value, q4)
  <2>1. q4 = [q4_pages EXCEPT ![plan.q4_slot][plan.cell] = value]
    BY DEF PackedArena
  <2> HIDE DEF q4
  <2> QED BY <1>3, <1>7, <1>11, <2>1, Written
<1>13. \A b \in PageIndices :
          q2[b] = IF b \in Gone THEN q4_pages[page_to_q4_slot[b]] ELSE q2_pages[b]
  <2>1. DOMAIN q2_pages = PageIndices
    BY <1>3 DEF Arena
  <2> QED BY <1>7, <2>1 DEF DemotedArena
<1>14. /\ SeenAt(plan.pages, plan.page_to_q4_slot, t, q2, q4)
             = [value |-> IF plan.pages[a].precision = Q4 THEN q4[plan.page_to_q4_slot[a]][c]
                          ELSE q2[a][c],
                precision |-> plan.pages[a].precision]
       /\ SeenAt(pages, page_to_q4_slot, t, q2_pages, q4_pages)
             = [value |-> IF pages[a].precision = Q4 THEN q4_pages[page_to_q4_slot[a]][c]
                          ELSE q2_pages[a][c],
                precision |-> pages[a].precision]
  BY DEF SeenAt
<1> DEFINE after == SeenAt(plan.pages, plan.page_to_q4_slot, t, q2, q4)
           before == SeenAt(pages, page_to_q4_slot, t, q2_pages, q4_pages)
<1> HIDE DEF a, c, q2, q4, after, before
<1>18. /\ n \in Nat \ {0} /\ a \in Nat \ {0} /\ a <= n
       /\ policy.page_tokens \in Nat \ {0}
       /\ c \in 1 .. policy.page_tokens /\ book[n].tokens \in 1 .. policy.page_tokens
  <2>1. book[n] \in Page
    BY <1>1 DEF NextBook
  <2>2. book[n].tokens \in Cells
    BY <2>1 DEF Page
  <2>3. n \in Nat \ {0}
    BY <1>4
  <2>4. a \in 1 .. n /\ c \in Cells
    BY <1>9
  <2>5. policy.page_tokens \in Nat \ {0}
    BY <1>3, Geometry
  <2> QED BY ONLY <2>2, <2>3, <2>4, <2>5 DEF Cells
<1>19. ASSUME a < n PROVE t # tokens + 1
  <2>1. a + 1 <= n /\ a + 1 \in Nat \ {0} /\ (a + 1) - 1 = (a - 1) + 1
    BY ONLY <1>18, <1>19
  <2>2. PageStart(a + 1) <= PageStart(n) /\ PageStart(n) \in Nat
    <3>1. policy \in Policies /\ n \in Nat \ {0}
      BY <1>3, <1>18
    <3> QED BY ONLY <2>1, <3>1, PageBefore
  <2>3. PageStart(a + 1) = PageStart(a) + policy.page_tokens
    BY ONLY <1>18 DEF PageStart
  <2>4. t = PageStart(a) + c /\ PageStart(a) \in Nat
        /\ tokens + 1 = PageStart(n) + book[n].tokens
    BY <1>8, <1>9
  <2> QED BY ONLY <1>18, <2>2, <2>3, <2>4
<1>15. CASE a \in Gone
  <2>1. a < n /\ book[a] = pages[a] /\ pages[a].precision = Q4 /\ plan.pages[a].precision = Q2
    BY <1>4, <1>6, <1>7, <1>9, <1>15
  <2>2. t # tokens + 1
    BY <1>19, <2>1
  <2>3. after = [before EXCEPT !.precision = Q2]
    <3>1. Q2 # Q4
      BY DEF Q2, Q4
    <3>2. q2[a][c] = q4_pages[page_to_q4_slot[a]][c]
      BY <1>9, <1>13, <1>15
    <3>3. after = [value |-> q2[a][c], precision |-> Q2]
      BY <1>14, <2>1, <3>1 DEF after
    <3>4. before = [value |-> q4_pages[page_to_q4_slot[a]][c], precision |-> Q4]
      BY <1>14, <2>1 DEF before
    <3> QED BY <3>2, <3>3, <3>4
  <2> QED BY <1>15, <2>2, <2>3 DEF ShownAfter, after, before, a, q2, q4
<1>16. CASE a \notin Gone /\ t = tokens + 1
  <2>1. a = n /\ c = plan.cell
    <3>1. ~(a < n)
      BY <1>16, <1>19
    <3>2. a = n
      BY ONLY <1>18, <3>1
    <3>3. t = PageStart(a) + c /\ PageStart(a) \in Nat /\ t = PageStart(n) + plan.cell
          /\ plan.cell = book[n].tokens
      BY <1>6, <1>8, <1>9, <1>16
    <3>4. c = plan.cell
      BY ONLY <1>18, <3>2, <3>3
    <3> QED BY <3>2, <3>4
  <2>2. plan.pages[a].precision = Q4
    BY <1>6, <1>7, <1>9, <1>16, <2>1
  <2>3. q4[plan.page_to_q4_slot[a]][c] = value
    BY <1>7, <1>11, <1>12, <2>1 DEF Wrote
  <2> QED BY <1>14, <1>16, <2>2, <2>3 DEF ShownAfter, a, q2, q4
<1>17. CASE a \notin Gone /\ t # tokens + 1
  <2>1. /\ a \in 1 .. Len(pages) /\ plan.pages[a].precision = pages[a].precision
        /\ a = n => n = Len(pages) /\ c # plan.cell
    <3>1. CASE a < n
      <4>0. a # n
        BY ONLY <1>18, <3>1
      <4>1. a \in 1 .. Len(pages) /\ book[a] = pages[a] /\ a # n
        BY <1>4, <1>9, <3>1, <4>0
      <4>2. plan.pages[a].precision = book[a].precision
        BY <1>6, <1>9, <1>17
      <4> QED BY <4>1, <4>2
    <3>2. CASE a = n
      <4>1. t \in 1 .. tokens
        BY <1>8, <1>17
      <4>2. Addressed(pages, t)
        BY <1>3, <4>1, Addresses
      <4>3. a \in 1 .. Len(pages) /\ c \in 1 .. pages[a].tokens /\ pages[a] \in Page
        BY <4>2 DEF Addressed, a, c
      <4>4. n = Len(pages)
        <5>1. n \in 1 .. Len(pages)
          BY <3>2, <4>3
        <5>2. n = Len(pages) \/ n = Len(pages) + 1
          BY <1>4
        <5>3. Len(pages) \in Nat
          BY <1>4
        <5> QED BY ONLY <5>1, <5>2, <5>3
      <4>5. c # plan.cell
        <5>1. pages[n].tokens \in Nat
          <6>1. pages[n].tokens \in Cells
            BY <3>2, <4>3 DEF Page
          <6> QED BY ONLY <1>18, <6>1 DEF Cells
        <5>2. plan.cell = pages[n].tokens + 1 /\ c \in 1 .. pages[n].tokens
          BY <1>5, <1>6, <3>2, <4>3, <4>4
        <5> QED BY ONLY <5>1, <5>2
      <4>6. plan.pages[a].precision = book[a].precision
        BY <1>6, <1>9, <1>17
      <4> QED BY <1>5, <3>2, <4>3, <4>4, <4>5, <4>6
    <3>3. a < n \/ a = n
      BY ONLY <1>18
    <3> QED BY <3>1, <3>2, <3>3
  <2>2. CASE pages[a].precision = Q4
    <3>1. page_to_q4_slot[a] # NoSlot /\ page_to_q4_slot[a] \in Slots
      BY <1>3, <1>4, <1>9, <2>1, <2>2 DEF TableType
    <3>2. plan.page_to_q4_slot[a] = page_to_q4_slot[a]
      BY <1>7, <1>9, <1>17, <3>1
    <3>3. plan.page_to_q4_slot[a] = plan.q4_slot => a = n
      BY <1>4, <1>7, <1>9, <3>1, <3>2 DEF Partition
    <3>4. q4[plan.page_to_q4_slot[a]][c] = q4_pages[page_to_q4_slot[a]][c]
      BY <1>9, <1>12, <2>1, <3>1, <3>2, <3>3 DEF Wrote
    <3> QED BY <1>14, <1>17, <2>1, <2>2, <3>4 DEF ShownAfter, a, q2, q4
  <2>3. CASE pages[a].precision # Q4
    <3>1. q2[a] = q2_pages[a]
      BY <1>9, <1>13, <1>17
    <3> QED BY <1>14, <1>17, <2>1, <2>3, <3>1 DEF ShownAfter, a, q2, q4
  <2> QED BY <2>2, <2>3
<1> QED BY <1>15, <1>16, <1>17

\* What a branch is taken back to reads the same after an append in it, whole
\* or broken off: no place of it is written.
LEMMA BranchStays ==
  ASSUME MetalInv, Appendable, NEW plan, plan = Plan,
         NEW mark, checkpoint = <<mark>>,
         MarkInv(mark, pages, tokens, page_to_q4_slot, free_q4_slots),
         NEW q2, \A b \in PageIndices : q2[b] = q2_pages[b],
         NEW q4, q4 = q4_pages \/ (plan.ok /\ \E written : Wrote(plan, written, q4)),
         NEW t \in 1 .. mark.tokens
  PROVE  SeenAt(Cut(plan.pages, mark), mark.page_to_q4_slot, t, q2, q4)
            = SeenAt(Cut(pages, mark), mark.page_to_q4_slot, t, q2_pages, q4_pages)
<1> DEFINE book == Counted(Opened)
           n == Len(book)
           a == PageOf(t)
           c == CellOf(t)
           cut == Cut(pages, mark)
           table == mark.page_to_q4_slot
<1>1. Healthy /\ NextBook(book, n) /\ NextPlan(plan, book, n)
  BY AppendFacts
<1> HIDE DEF book, n
<1>2. /\ policy \in Policies /\ BookInv(pages, tokens) /\ TableType(page_to_q4_slot)
      /\ free_q4_slots \in Seq(Slots) /\ tokens < policy.maximum_tokens
      /\ SlotInv(pages, page_to_q4_slot, free_q4_slots)
      /\ q2_pages \in Arena(PageIndices) /\ q4_pages \in Arena(Slots)
  BY <1>1 DEF Healthy
<1>3. Cut(plan.pages, mark) = cut
  <2>1. checkpoint # << >>
    OBVIOUS
  <2> QED BY <1>2, <2>1, AppendKeepsMark
<1>4. /\ mark \in Mark /\ mark.pages <= Len(pages)
      /\ BookInv(cut, mark.tokens)
      /\ SlotInv(cut, table, mark.free_q4_slots)
      /\ \A b \in PageIndices : table[b] # NoSlot => page_to_q4_slot[b] = table[b]
      /\ \A i \in DOMAIN free_q4_slots :
            \E j \in DOMAIN mark.free_q4_slots : mark.free_q4_slots[j] = free_q4_slots[i]
      /\ mark.pages # 0 => mark.last_page_tokens \in 1 .. pages[mark.pages].tokens
  BY DEF MarkInv
<1>5. Addressed(cut, t)
  BY <1>2, <1>4, Addresses
<1>6. /\ a \in 1 .. Len(cut) /\ a \in PageIndices /\ c \in 1 .. cut[a].tokens /\ c \in Cells
      /\ cut[a] \in Page
  BY <1>5 DEF Addressed
<1>7. mark.pages \in Nat /\ Len(cut) = mark.pages /\ DOMAIN cut = 1 .. mark.pages
  <2>1. mark.pages \in Nat
    BY <1>4 DEF Mark
  <2> QED BY <2>1 DEF Cut
<1>8. /\ SeenAt(cut, table, t, q2, q4)
            = [value |-> IF cut[a].precision = Q4 THEN q4[table[a]][c] ELSE q2[a][c],
               precision |-> cut[a].precision]
      /\ SeenAt(cut, table, t, q2_pages, q4_pages)
            = [value |-> IF cut[a].precision = Q4 THEN q4_pages[table[a]][c]
                         ELSE q2_pages[a][c],
               precision |-> cut[a].precision]
  BY DEF SeenAt
<1> HIDE DEF a, c, cut, table
<1>9. ASSUME cut[a].precision = Q4 PROVE q4[table[a]][c] = q4_pages[table[a]][c]
  <2>1. table[a] # NoSlot /\ table[a] \in Slots
    <3>1. table \in [PageIndices -> Slots \cup {NoSlot}]
      BY <1>4 DEF Mark, table
    <3>2. table[a] # NoSlot
      BY <1>4, <1>6, <1>7, <1>9 DEF SlotInv
    <3> QED BY <1>6, <3>1, <3>2
  <2>2. CASE q4 = q4_pages
    BY <2>2
  <2>3. CASE plan.ok /\ \E written : Wrote(plan, written, q4)
    <3>1. /\ plan.cell = book[n].tokens
          /\ PlanInBranch(plan, n)
      BY <1>1 DEF NextPlan
    <3>2. \/ plan.q4_slot = page_to_q4_slot[n]
          \/ \E j \in DOMAIN free_q4_slots : free_q4_slots[j] = plan.q4_slot
      BY <2>3, <3>1 DEF PlanInBranch
    <3>3. table[a] = plan.q4_slot => plan.q4_slot = page_to_q4_slot[n]
      BY <1>4, <1>6, <3>2 DEF SlotInv, Partition
    <3>4. ASSUME table[a] = plan.q4_slot, c = plan.cell PROVE FALSE
      <4>1. /\ n \in PageIndices /\ (n = Len(pages) \/ n = Len(pages) + 1)
            /\ Len(pages) \in Nat
            /\ n = Len(pages) => book[n].tokens = pages[n].tokens + 1
            /\ \A b \in 1 .. Len(pages) : pages[b] \in Page
        BY <1>1, Zenon DEF NextBook
      <4>2. page_to_q4_slot[a] = page_to_q4_slot[n] /\ page_to_q4_slot[a] # NoSlot
        BY <1>4, <1>6, <2>1, <3>3, <3>4
      <4>3. a = n
        BY <1>2, <1>6, <4>1, <4>2 DEF SlotInv, Partition
      <4>4. a \in 1 .. mark.pages /\ mark.pages <= Len(pages) /\ mark.pages \in Nat
        BY <1>4, <1>6, <1>7
      <4>5. n = Len(pages) /\ mark.pages = n /\ n \in 1 .. Len(pages) /\ n # 0
        BY ONLY <4>1, <4>3, <4>4
      <4>6. cut[a].tokens = mark.last_page_tokens
        BY <1>6, <1>7, <4>1, <4>3, <4>5 DEF cut, Cut, Page
      <4>7. pages[n].tokens \in Cells
        BY <4>1, <4>5 DEF Page
      <4>8. pages[n].tokens \in Nat
        BY <1>2, <4>7, Geometry DEF Cells
      <4>9. /\ c \in 1 .. mark.last_page_tokens /\ mark.last_page_tokens \in 1 .. pages[n].tokens
            /\ c = pages[n].tokens + 1
        BY <1>4, <1>6, <3>1, <3>4, <4>1, <4>5, <4>6
      <4> QED BY ONLY <4>8, <4>9
    <3> QED BY <1>6, <2>1, <2>3, <3>4 DEF Wrote
  <2> QED BY <2>2, <2>3
<1>10. q2[a] = q2_pages[a]
  BY <1>6
<1> QED BY <1>3, <1>8, <1>9, <1>10 DEF cut, table

-----------------------------------------------------------------------------
(* The owner implements KvRetention. *)

HeldSeen ==
    IF poisoned THEN << >> ELSE Seen(pages, page_to_q4_slot, tokens, q2_pages, q4_pages)

BranchSeen ==
    IF checkpoint = << >> THEN << >>
    ELSE <<Seen(Cut(pages, checkpoint[1]), checkpoint[1].page_to_q4_slot,
                checkpoint[1].tokens, q2_pages, q4_pages)>>

\* They are what the refinement mapping gives KvRetention.
Mapped(held, branch) ==
    /\ held = IF poisoned THEN << >> ELSE DeviceView(pages, page_to_q4_slot, tokens)
    /\ branch = IF checkpoint = << >> THEN << >>
                ELSE <<DeviceView(Truncated(checkpoint[1]),
                                  checkpoint[1].page_to_q4_slot,
                                  checkpoint[1].tokens)>>

LEMMA Mapping == Mapped(HeldSeen, BranchSeen) /\ Mapped(HeldSeen, BranchSeen)'
BY DEF Mapped, HeldSeen, BranchSeen, DeviceView, ReadAt, Seen, SeenAt, PageOf, CellOf,
       Truncated, Cut

LEMMA NextViews ==
  ASSUME policy' = policy
  PROVE  /\ HeldSeen' = IF poisoned' THEN << >>
                        ELSE Seen(pages', page_to_q4_slot', tokens', q2_pages', q4_pages')
         /\ BranchSeen' = IF checkpoint' = << >> THEN << >>
                          ELSE <<Seen(Cut(pages', checkpoint'[1]), checkpoint'[1].page_to_q4_slot,
                                      checkpoint'[1].tokens, q2_pages', q4_pages')>>
BY DEF HeldSeen, BranchSeen, Seen, SeenAt, PageOf, CellOf, Cut

\* An append leaves what the open branch is taken back to.
LEMMA BranchUnmoved ==
  ASSUME MetalInv, Appendable, NEW plan, plan = Plan, Planned(plan),
         checkpoint # << >> => \A b \in PageIndices : q2_pages'[b] = q2_pages[b],
         \/ q4_pages' = q4_pages
         \/ plan.ok /\ \E written : Wrote(plan, written, q4_pages')
  PROVE  BranchSeen' = BranchSeen
<1>1. /\ policy' = policy /\ checkpoint' = checkpoint /\ pages' = plan.pages
  BY DEF Planned
<1>2. CASE checkpoint = << >>
  BY <1>1, <1>2, NextViews DEF BranchSeen
<1>3. CASE checkpoint # << >>
  <2>1. PICK mark \in Mark :
           /\ checkpoint = <<mark>>
           /\ MarkInv(mark, pages, tokens, page_to_q4_slot, free_q4_slots)
    BY <1>3 DEF MetalInv, BranchInv
  <2>2. checkpoint[1] = mark /\ checkpoint'[1] = mark
    BY <1>1, <2>1
  <2>3. ASSUME NEW t \in 1 .. mark.tokens
        PROVE  SeenAt(Cut(plan.pages, mark), mark.page_to_q4_slot, t, q2_pages', q4_pages')
                  = SeenAt(Cut(pages, mark), mark.page_to_q4_slot, t, q2_pages, q4_pages)
    BY <1>3, <2>1, BranchStays
  <2>4. Seen(Cut(pages', mark), mark.page_to_q4_slot, mark.tokens, q2_pages', q4_pages')
           = Seen(Cut(pages, mark), mark.page_to_q4_slot, mark.tokens, q2_pages, q4_pages)
    BY <1>1, <2>3 DEF Seen
  <2>5. BranchSeen' = <<Seen(Cut(pages', mark), mark.page_to_q4_slot, mark.tokens,
                             q2_pages', q4_pages')>>
    BY <1>1, <1>3, <2>2, NextViews
  <2>6. BranchSeen = <<Seen(Cut(pages, mark), mark.page_to_q4_slot, mark.tokens,
                            q2_pages, q4_pages)>>
    BY <1>3, <2>2 DEF BranchSeen
  <2> QED BY <2>4, <2>5, <2>6
<1> QED BY <1>2, <1>3

\* The writes of an append, broken off or not.
LEMMA AppendWrites ==
  ASSUME MetalInv, Appendable, NEW plan, plan = Plan, NEW value \in Values \cup {Junk},
         \/ AppendAndDispatch(plan, value) \/ AppendFailed(plan, value)
         \/ AppendNotPlanned(plan)
  PROVE  BranchSeen' = BranchSeen
<1>1. Planned(plan)
  BY DEF AppendAndDispatch, AppendFailed, AppendNotPlanned
<1>2. CASE plan.ok
  <2>1. plan.q4_slot \in Slots /\ plan.cell \in Cells
    BY <1>2, AppendedArenas
  <2>2. policy \in Policies /\ q4_pages \in Arena(Slots) /\ q2_pages \in Arena(PageIndices)
    BY DEF MetalInv
  <2>3. \E written : q4_pages' = [q4_pages EXCEPT ![plan.q4_slot][plan.cell] = written]
    BY <1>2 DEF AppendAndDispatch, AppendFailed, AppendNotPlanned, PackedArena
  <2>4. \E written : Wrote(plan, written, q4_pages')
    BY <2>1, <2>2, <2>3, Written
  <2>5. checkpoint # << >> => \A b \in PageIndices : q2_pages'[b] = q2_pages[b]
    <3> SUFFICES ASSUME checkpoint # << >>, NEW b \in PageIndices
                 PROVE  q2_pages'[b] = q2_pages[b]
      OBVIOUS
    <3>1. ToSet(plan.released) = {}
      <4> DEFINE book == Counted(Opened)
                 n == Len(book)
      <4>1. NextPlan(plan, book, n)
        BY AppendFacts
      <4> QED BY <4>1 DEF NextPlan, PlanInBranch
    <3>2. DemotedArena(plan, value)[b] = q2_pages[b]
      BY <2>2, <3>1 DEF DemotedArena, Arena
    <3>3. q2_pages' = q2_pages \/ q2_pages' = DemotedArena(plan, value)
      BY <1>2 DEF AppendAndDispatch, AppendFailed, AppendNotPlanned
    <3> QED BY <3>2, <3>3
  <2> QED BY <1>1, <1>2, <2>4, <2>5, BranchUnmoved
<1>3. CASE ~plan.ok
  <2>1. q2_pages' = q2_pages /\ q4_pages' = q4_pages
    BY <1>3 DEF AppendAndDispatch, AppendFailed, AppendNotPlanned
  <2> QED BY <1>1, <2>1, BranchUnmoved
<1> QED BY <1>2, <1>3

\* An append that goes through is a Push: the demoted pages give the tokens
\* that lose precision, all outside the sink and the window.
LEMMA AppendPushes ==
  ASSUME MetalInv, Appendable, NEW plan, plan = Plan, NEW value \in Values,
         AppendAndDispatch(plan, value)
  PROVE  Retention!Push(value)
<1> DEFINE book == Counted(Opened)
           n == Len(book)
           count == tokens + 1
           fresh == [value |-> value, precision |-> Q4]
           seen(t) == SeenAt(pages, page_to_q4_slot, t, q2_pages, q4_pages)
           which == {t \in 1 .. count : PageOf(t) \in Gone}
           written == Append(HeldSeen, fresh)
<1>1. Healthy /\ NextBook(book, n) /\ NextPlan(plan, book, n)
  BY AppendFacts
<1>2. n = Len(book)
  OBVIOUS
<1> HIDE DEF book, n
<1>3. /\ policy \in Policies /\ tokens \in Nat /\ tokens < policy.maximum_tokens
      /\ policy.sink_tokens \in Nat /\ policy.recent_tokens \in Nat
      /\ policy.page_tokens \in Nat \ {0}
  <2>1. policy \in Policies /\ tokens < policy.maximum_tokens /\ BookInv(pages, tokens)
    BY <1>1 DEF Healthy
  <2>2. /\ policy.maximum_tokens \in Nat /\ policy.sink_tokens \in Nat
        /\ policy.recent_tokens \in Nat /\ policy.page_tokens \in Nat \ {0}
    BY <2>1, Geometry
  <2>3. tokens \in 0 .. policy.maximum_tokens
    BY <2>1 DEF BookInv
  <2> QED BY <2>1, <2>2, <2>3
<1>4. /\ ~poisoned /\ poisoned' = poisoned /\ policy' = policy /\ plan.ok
      /\ tokens' = count /\ pages' = plan.pages
      /\ page_to_q4_slot' = plan.page_to_q4_slot
      /\ q2_pages' = DemotedArena(plan, value) /\ q4_pages' = PackedArena(plan, value)
  BY DEF Appendable, AppendAndDispatch, Planned
<1>5. HeldSeen = [t \in 1 .. tokens |-> seen(t)]
  BY <1>4 DEF HeldSeen, Seen
<1>6. HeldSeen' = [t \in 1 .. count |-> ShownAfter(plan, value, t)]
  <2>1. HeldSeen' = Seen(plan.pages, plan.page_to_q4_slot, count,
                         DemotedArena(plan, value), PackedArena(plan, value))
    BY <1>4, NextViews
  <2>2. ASSUME NEW t \in 1 .. count
        PROVE  SeenAt(plan.pages, plan.page_to_q4_slot, t,
                      DemotedArena(plan, value), PackedArena(plan, value))
                  = ShownAfter(plan, value, t)
    BY <1>4, AppendShows
  <2> QED BY <2>1, <2>2 DEF Seen
<1> HIDE DEF seen, fresh
<1>7. Len(HeldSeen) = tokens
  BY <1>3, <1>5
<1>8. /\ DOMAIN written = 1 .. count /\ written[count] = fresh
      /\ \A t \in 1 .. tokens : written[t] = seen(t)
  <2> DEFINE S == {seen(t) : t \in 1 .. tokens} \cup {fresh}
  <2>1. HeldSeen \in [1 .. tokens -> S] /\ fresh \in S
    BY <1>5
  <2> HIDE DEF S
  <2>2. HeldSeen \in Seq(S)
    BY <1>3, <2>1
  <2>3. /\ Append(HeldSeen, fresh) \in Seq(S) /\ Len(Append(HeldSeen, fresh)) = tokens + 1
        /\ Append(HeldSeen, fresh)[tokens + 1] = fresh
        /\ \A t \in 1 .. tokens : Append(HeldSeen, fresh)[t] = HeldSeen[t]
    BY <1>7, <2>1, <2>2
  <2>4. DOMAIN Append(HeldSeen, fresh) = 1 .. tokens + 1
    BY <2>3
  <2> QED BY <1>5, <2>3, <2>4
<1> HIDE DEF written
<1>9. HeldSeen' = Retention!Reduced(written, which)
  <2>1. ASSUME NEW t \in 1 .. count
        PROVE  ShownAfter(plan, value, t)
                 = IF t \in which THEN [written[t] EXCEPT !.precision = Q2] ELSE written[t]
    <3>1. PageOf(t) \in Gone => t # count
      BY <1>4, AppendShows
    <3>2. CASE t = count
      BY <1>8, <3>1, <3>2 DEF ShownAfter, fresh
    <3>3. CASE t # count
      <4>1. t \in 1 .. tokens
        BY ONLY <1>3, <3>3, t \in 1 .. count
      <4>2. written[t] = seen(t)
        BY <1>8, <4>1
      <4> QED BY <3>3, <4>2 DEF ShownAfter, seen
    <3> QED BY <3>2, <3>3
  <2>2. Retention!Q2 = Q2
    BY DEF Retention!Q2, Q2
  <2> QED BY <1>6, <1>8, <2>1, <2>2 DEF Retention!Reduced
<1>10. which \in SUBSET Retention!Outside(count)
  <2> SUFFICES ASSUME NEW t \in 1 .. count, PageOf(t) \in Gone
               PROVE  t > policy.sink_tokens /\ t + policy.recent_tokens <= count
    BY DEF Retention!Outside
  <2> DEFINE a == PageOf(t)
             c == CellOf(t)
  <2>1. BookInv(book, count)
    BY <1>1 DEF NextBook
  <2>2. Addressed(book, t)
    BY <1>3, <2>1, Addresses
  <2>3. /\ c \in 1 .. book[a].tokens /\ t = PageStart(a) + c /\ PageStart(a) \in Nat
        /\ book[a].tokens \in Cells
    BY <2>2 DEF Addressed, Page
  <2>4. /\ PageStart(a) >= policy.sink_tokens
        /\ PageStart(a) + book[a].tokens <= SaturatingSub(count, policy.recent_tokens)
    BY <1>1 DEF NextPlan
  <2> HIDE DEF a, c
  <2>5. book[a].tokens \in Nat
    BY <1>3, <2>3 DEF Cells
  <2> QED BY ONLY <1>3, <2>3, <2>4, <2>5 DEF SaturatingSub
<1>11. checkpoint # << >> => which \subseteq {count}
  BY DEF Gone
<1>12. BranchSeen' = BranchSeen
  BY AppendWrites
<1> DEFINE held == IF poisoned THEN << >> ELSE DeviceView(pages, page_to_q4_slot, tokens)
           branch == IF checkpoint = << >> THEN << >>
                     ELSE <<DeviceView(Truncated(checkpoint[1]),
                                       checkpoint[1].page_to_q4_slot,
                                       checkpoint[1].tokens)>>
<1>13. /\ held = HeldSeen /\ held' = HeldSeen' /\ branch = BranchSeen /\ branch' = BranchSeen'
  BY Mapping DEF Mapped
<1>14. branch # << >> => which \subseteq {count}
  BY <1>11
<1>15. Retention!Q4 = Q4
  BY DEF Retention!Q4, Q4
<1> HIDE DEF which
<1>16. /\ Len(held) + 1 = count /\ Len(held) < policy.maximum_tokens
       /\ Append(held, [value |-> value, precision |-> Retention!Q4]) = written
       /\ held' = Retention!Reduced(written, which)
       /\ branch' = branch
  BY <1>3, <1>7, <1>9, <1>12, <1>13, <1>15 DEF written, fresh
<1> HIDE DEF held, branch
<1> QED BY <1>4, <1>10, <1>14, <1>16 DEF Retention!Push, held, branch

LEMMA BrokenAppendBreaks ==
  ASSUME MetalInv, Appendable, NEW plan, plan = Plan, NEW value \in Values \cup {Junk},
         AppendFailed(plan, value) \/ AppendNotPlanned(plan)
  PROVE  Retention!Break
<1>1. ~poisoned /\ poisoned' = TRUE /\ policy' = policy
  BY DEF Appendable, AppendFailed, AppendNotPlanned, Planned
<1>2. BranchSeen' = BranchSeen
  BY AppendWrites
<1>3. HeldSeen' = << >>
  BY <1>1 DEF HeldSeen
<1> QED BY <1>1, <1>2, <1>3, Mapping DEF Mapped, Retention!Break

LEMMA BeginBegins ==
  ASSUME MetalInv, BeginSpeculative
  PROVE  Retention!Begin
<1> DEFINE k == Len(pages)
           mark == [tokens |-> tokens, pages |-> k,
                    last_page_tokens |-> IF pages = << >> THEN 0 ELSE Last(pages).tokens,
                    page_to_q4_slot |-> page_to_q4_slot,
                    free_q4_slots |-> free_q4_slots]
<1>1. /\ ~poisoned /\ checkpoint = << >> /\ checkpoint' = <<mark>> /\ policy' = policy
      /\ tokens' = tokens /\ pages' = pages /\ page_to_q4_slot' = page_to_q4_slot
      /\ q2_pages' = q2_pages /\ q4_pages' = q4_pages /\ poisoned' = poisoned
  BY DEF BeginSpeculative, metadata
<1>2. /\ pages \in Seq(Page) /\ k \in Nat /\ DOMAIN pages = 1 .. k
      /\ \A a \in 1 .. k : pages[a] \in Page
  BY PagesFit DEF MetalInv, BookInv
<1>3. /\ mark.tokens = tokens /\ mark.pages = k /\ mark.page_to_q4_slot = page_to_q4_slot
      /\ mark.last_page_tokens = IF k = 0 THEN 0 ELSE pages[k].tokens
  BY <1>2 DEF Last
<1> HIDE DEF mark, k
<1>4. Cut(pages, mark) = pages
  <2>1. ASSUME NEW a \in 1 .. k, ~(a < k)
        PROVE  [pages[a] EXCEPT !.tokens = mark.last_page_tokens] = pages[a]
    <3>1. a = k /\ k # 0
      BY <1>2, <2>1
    <3>2. mark.last_page_tokens = pages[a].tokens /\ pages[a] \in Page
      BY <1>2, <1>3, <3>1
    <3> QED BY <3>2 DEF Page
  <2>2. Cut(pages, mark) = [a \in 1 .. k |-> pages[a]]
    BY <1>3, <2>1 DEF Cut
  <2> QED BY <1>2, <2>2
<1>5. HeldSeen = Seen(pages, page_to_q4_slot, tokens, q2_pages, q4_pages) /\ BranchSeen = << >>
  BY <1>1 DEF HeldSeen, BranchSeen
<1>6. HeldSeen' = HeldSeen
  BY <1>1, NextViews DEF HeldSeen
<1>7. BranchSeen' = <<Seen(Cut(pages, mark), page_to_q4_slot, tokens, q2_pages, q4_pages)>>
  <2>1. checkpoint' # << >> /\ checkpoint'[1] = mark
    BY <1>1
  <2> QED BY <1>1, <1>3, <2>1, NextViews
<1>8. BranchSeen' = <<HeldSeen>>
  BY <1>4, <1>5, <1>7
<1> QED BY <1>1, <1>5, <1>6, <1>8, Mapping DEF Mapped, Retention!Begin

LEMMA RestoreRollsBack ==
  ASSUME MetalInv, RestoreSpeculative
  PROVE  Retention!Rollback
<1>1. /\ checkpoint # << >> /\ checkpoint' = << >> /\ poisoned' = FALSE /\ policy' = policy
      /\ pages' = Cut(pages, checkpoint[1]) /\ tokens' = checkpoint[1].tokens
      /\ page_to_q4_slot' = checkpoint[1].page_to_q4_slot
      /\ q2_pages' = q2_pages /\ q4_pages' = q4_pages
  BY DEF RestoreSpeculative, Truncated, Cut
<1>2. BranchSeen = <<Seen(Cut(pages, checkpoint[1]), checkpoint[1].page_to_q4_slot,
                          checkpoint[1].tokens, q2_pages, q4_pages)>>
  BY <1>1 DEF BranchSeen
<1>3. HeldSeen' = Seen(Cut(pages, checkpoint[1]), checkpoint[1].page_to_q4_slot,
                       checkpoint[1].tokens, q2_pages, q4_pages)
  BY <1>1, NextViews
<1>4. BranchSeen # << >> /\ HeldSeen' = BranchSeen[1] /\ BranchSeen' = << >>
  BY <1>1, <1>2, <1>3, NextViews
<1> QED BY <1>1, <1>4, Mapping DEF Mapped, Retention!Rollback

\* Attention reads what was appended, in order and at window precision, through
\* demotions that reuse slots, branches that fail on the device and are taken
\* back without a copy of the arenas, and resets: PreparedMetalPagedGqa keeps
\* the retention contract, for every policy.
THEOREM MetalImplementsRetention == Spec => ImplementsRetention
<1>1. Init => Retention!Init
  <2> SUFFICES ASSUME Init PROVE Retention!Init
    OBVIOUS
  <2>1. policy \in Policies /\ poisoned = FALSE /\ checkpoint = << >> /\ tokens = 0
    BY DEF Init
  <2>2. Retention!TypedPolicy
    BY <2>1, Geometry DEF Retention!TypedPolicy
  <2>3. HeldSeen = << >> /\ BranchSeen = << >>
    BY <2>1 DEF HeldSeen, BranchSeen, Seen
  <2> QED BY <2>1, <2>2, <2>3, Mapping DEF Mapped, Retention!Init
<1>2. MetalInv /\ [Next]_vars => [Retention!Next]_(Retention!vars)
  <2> SUFFICES ASSUME MetalInv, [Next]_vars
               PROVE  [Retention!Next]_(Retention!vars)
    OBVIOUS
  <2>1. ASSUME Appendable, NEW plan \in {Plan}, NEW value \in Values,
               AppendAndDispatch(plan, value)
        PROVE  Retention!Next
    <3>1. Retention!Push(value)
      BY <2>1, AppendPushes
    <3> QED BY <3>1 DEF Retention!Next
  <2>2. ASSUME Appendable, NEW plan \in {Plan}, NEW value \in Values,
               AppendFailed(plan, value)
        PROVE  Retention!Next
    <3>1. plan = Plan /\ value \in Values \cup {Junk}
      OBVIOUS
    <3>2. Retention!Break
      BY <2>2, <3>1, BrokenAppendBreaks
    <3> QED BY <3>2 DEF Retention!Next
  <2>3. ASSUME Appendable, NEW plan \in {Plan}, AppendNotPlanned(plan)
        PROVE  Retention!Next
    <3>1. plan = Plan /\ Junk \in Values \cup {Junk}
      OBVIOUS
    <3>2. Retention!Break
      BY <2>3, <3>1, BrokenAppendBreaks
    <3> QED BY <3>2 DEF Retention!Next
  <2>4. CASE BeginSpeculative
    BY <2>4, BeginBegins DEF Retention!Next
  <2>5. CASE RestoreSpeculative
    BY <2>5, RestoreRollsBack DEF Retention!Next
  <2>6. CASE CommitSpeculative
    <3>1. /\ ~poisoned /\ poisoned' = poisoned /\ checkpoint # << >> /\ checkpoint' = << >>
          /\ policy' = policy /\ tokens' = tokens /\ pages' = pages
          /\ page_to_q4_slot' = page_to_q4_slot /\ q2_pages' = q2_pages /\ q4_pages' = q4_pages
      BY <2>6 DEF CommitSpeculative, metadata
    <3>2. HeldSeen' = HeldSeen /\ BranchSeen # << >> /\ BranchSeen' = << >>
      BY <3>1, NextViews DEF HeldSeen, BranchSeen
    <3>3. Retention!Commit
      BY <3>1, <3>2, Mapping DEF Mapped, Retention!Commit
    <3> QED BY <3>3 DEF Retention!Next
  <2>7. CASE Reset
    <3>1. policy' = policy /\ poisoned' = FALSE /\ checkpoint' = << >> /\ tokens' = 0
      BY <2>7 DEF Reset
    <3>2. HeldSeen' = << >> /\ BranchSeen' = << >>
      BY <3>1, NextViews DEF Seen
    <3>3. Retention!Reset
      BY <3>1, <3>2, Mapping DEF Mapped, Retention!Reset
    <3> QED BY <3>3 DEF Retention!Next
  <2>8. CASE UNCHANGED vars
    <3>1. /\ poisoned' = poisoned /\ checkpoint' = checkpoint
          /\ policy' = policy /\ tokens' = tokens /\ pages' = pages
          /\ page_to_q4_slot' = page_to_q4_slot /\ q2_pages' = q2_pages /\ q4_pages' = q4_pages
      BY <2>8 DEF vars, metadata
    <3>2. HeldSeen' = HeldSeen /\ BranchSeen' = BranchSeen
      BY <3>1, NextViews DEF HeldSeen, BranchSeen
    <3> QED BY <3>1, <3>2, Mapping DEF Mapped, Retention!vars
  <2> QED BY <2>1, <2>2, <2>3, <2>4, <2>5, <2>6, <2>7, <2>8 DEF Next
<1> QED BY <1>1, <1>2, AlwaysInv, PTL DEF Spec, ImplementsRetention, Retention!Spec

-----------------------------------------------------------------------------
(* What the executor and its owners hold at every step *)

States == Seq(Values) \cup {Junk}

(* Every owner is a record of its fields, whatever failed.                  *)
OwnersTyped ==
    /\ linear \in [LinearOwners -> [state : States, poisoned : BOOLEAN,
                                    checkpoint : Seq(States)]]
    /\ layers \in [transaction_active : BOOLEAN, poisoned : BOOLEAN]
    /\ mtp \in [rows : Seq(Values \cup {Junk}), poisoned : BOOLEAN,
                checkpoint : Seq(Seq(Values \cup {Junk})), q4_slots : Nat]
    /\ hidden \in [state : States, checkpoint : Seq(States)]

(* What the attention owner is taken back to.                               *)
Base == RowsOf(Truncated(checkpoint[1]), checkpoint[1].page_to_q4_slot, checkpoint[1].tokens)

(* The rows of MTP, which is one token behind.                              *)
Behind(held) == IF session.mtp /\ held # << >> THEN Tail(held) ELSE << >>

(* All owners work and hold the same tokens.                                *)
Owners(held) ==
    /\ held \in Seq(Values)
    /\ Usable
    /\ TargetRows = held
    /\ \A owner \in LinearOwners : linear[owner].state = held
    /\ mtp.rows = Behind(held)
    /\ session.mtp => hidden.state = held

Holds(held) == NoBranch /\ Owners(held)

(* MTP takes part in every branch but that of a first token.                *)
JointFrom(base) == session.mtp /\ base # << >>

InBranch(base) ==
    /\ base \in Seq(Values)
    /\ checkpoint # << >> /\ Base = base
    /\ layers = [transaction_active |-> TRUE, poisoned |-> FALSE]
    /\ \A owner \in LinearOwners : linear[owner].checkpoint = <<base>>
    /\ mtp.checkpoint = IF JointFrom(base) THEN <<Tail(base)>> ELSE << >>
    /\ hidden.checkpoint = IF JointFrom(base) THEN <<base>> ELSE << >>
    /\ ~JointFrom(base) => mtp.rows = << >> /\ ~mtp.poisoned

(* After a call that failed: nothing is under way, and unless a mark is     *)
(* left, all owners are back at one prefix.                                 *)
Settled ==
    /\ ~layers.transaction_active
    /\ Usable /\ hidden.checkpoint = << >> =>
          /\ Holds(TargetRows)
          /\ TargetRows = << >> \/ IsPrefix(reported.tokens, TargetRows)

(* The branches of a call that are still to be run consume rest and keep    *)
(* it: one by one, as one block, or one by one after a block of which only  *)
(* a part is kept.                                                          *)
Consumes(rest) ==
    /\ rest # << >>
    /\ \/ call.todo = OneByOne(rest)
       \/ /\ call.method = "decode"
          /\ Len(rest) <= Transitions
          /\ call.todo = <<Kept(rest)>>
       \/ /\ call.method = "decode"
          /\ \E block \in Seq(Values) :
                /\ Len(block) \in 1 .. Transitions
                /\ call.todo = <<Rejected(block)>> \o OneByOne(rest)

Acknowledgeable(ack, answered, gives) ==
    \E accepted \in 0 .. MaximumDrafts, records \in 1 .. MaximumDrafts :
        /\ ack = <<[accepted |-> accepted, records |-> records]>>
        /\ accepted <= records
        /\ Len(gives) = answered + accepted
        /\ answered + records <= Context

Branch == [tokens : Seq(Values), keep : BOOLEAN]

(* The session a call works for, and what it will report.                   *)
CallInv ==
    /\ model = "warm" /\ pending_ack = << >>
    /\ call.method \in {"prefill", "decode"}
    /\ call.gives \in Seq(Values)
    /\ call.method = "prefill" =>
          /\ session.status = "none" /\ reported = Untouched
          /\ call.gives # << >> /\ call.ack = << >>
    /\ call.method = "decode" =>
          /\ session.status = "open"
          /\ reported.tokens # << >> /\ reported.state = "whole"
          /\ reported.pending = 0 /\ reported.position = Len(reported.tokens)
          /\ IsPrefix(reported.tokens, call.gives)
          /\ IF session.mtp
             THEN Acknowledgeable(call.ack, Len(reported.tokens) + 1, call.gives)
             ELSE call.ack = << >> /\ Len(call.gives) = Len(reported.tokens) + 1

Progress(done, rest) ==
    /\ call.gives = done \o rest
    /\ call.method = "decode" => IsPrefix(reported.tokens, done)
    /\ Consumes(rest)

First == Head(call.todo)

Phase(done) ==
    \/ call.at = "begin" /\ Holds(done)
    \/ /\ call.at = "encode" /\ InBranch(done)
       /\ \E n \in 0 .. Len(First.tokens) - 1 : Owners(done \o SubSeq(First.tokens, 1, n))
       /\ Len(done) + Len(First.tokens) <= policy.maximum_tokens
    \/ /\ call.at = IF First.keep THEN "commit" ELSE "reject"
       /\ InBranch(done) /\ Owners(done \o First.tokens)
    \/ call.at = "restore" /\ InBranch(done)

WorkingInv ==
    \E done, rest \in Seq(Values) : Progress(done, rest) /\ Phase(done)

Drafted == session.mtp /\ call.method = "decode"

OpenInv ==
    /\ model = "warm" /\ Holds(reported.tokens)
    /\ reported.tokens # << >> /\ reported.state = "whole"
    /\ IF pending_ack = << >>
       THEN reported.pending = 0 /\ reported.position = Len(reported.tokens)
       ELSE /\ session.mtp
            /\ Acknowledgeable(pending_ack, reported.position, reported.tokens)
            /\ reported.pending = pending_ack[1].records

IdleInv ==
    /\ call = IdleCall /\ ~layers.transaction_active
    /\ session.status = "none" =>
          /\ ~session.mtp /\ pending_ack = << >> /\ reported = Untouched
          /\ Loaded => Holds(<< >>)
    /\ session.status = "open" => OpenInv
    /\ session.status = "lost" => model = "warm" /\ pending_ack = << >> /\ Settled

CallOf(at, method, todo, replay, gives, ack) ==
    [at |-> at, method |-> method, todo |-> todo, replay |-> replay, gives |-> gives, ack |-> ack]

ExecutorTyped ==
    /\ model \in {"new", "resident", "warm", "unloaded"}
    /\ drafts \in 0 .. MaximumDrafts
    /\ session \in [status : {"none", "open", "lost"}, mtp : BOOLEAN]
    /\ reported \in [tokens : Seq(Values), position : Nat, pending : Nat,
                     state : {"whole", "partial"}]
    /\ call = CallOf(call.at, call.method, call.todo, call.replay, call.gives, call.ack)
    /\ call.at \in {"idle", "begin", "encode", "commit", "reject", "restore", "select", "stop"}
    /\ Loaded => policy.maximum_tokens = Context /\ drafts # 0
    /\ ~Loaded => session.status = "none" /\ Idle
    /\ model = "new" => linear = FreshLinear /\ layers = IdleLayers /\ hidden = FreshState

ExecutorInv ==
    /\ OwnersTyped /\ ExecutorTyped
    /\ \/ IdleInv
       \/ call.at \in {"begin", "encode", "commit", "reject", "restore"}
             /\ CallInv /\ WorkingInv
       \/ call.at = "select" /\ CallInv /\ Holds(call.gives) /\ ~Drafted
       \/ /\ call.at = "stop" /\ CallInv
          /\ ~layers.transaction_active
          /\ call.method = "decode" => Settled

-----------------------------------------------------------------------------
(* The attention owner as its callers see it: rows, and what a branch is    *)
(* taken back to. Every call of the executor is one of its own steps.       *)

RowsIn(seen) == [t \in DOMAIN seen |-> seen[t].value]

LEMMA RowsAreSeen ==
  /\ ~poisoned => TargetRows = RowsIn(HeldSeen)
  /\ checkpoint # << >> => Base = RowsIn(BranchSeen[1])
BY DEF TargetRows, Base, RowsOf, ReadAt, RowsIn, HeldSeen, BranchSeen, Seen, SeenAt,
       PageOf, CellOf, Truncated, Cut

LEMMA RowsAreSeenNext ==
  /\ ~poisoned' => TargetRows' = RowsIn(HeldSeen')
  /\ checkpoint' # << >> => Base' = RowsIn(BranchSeen'[1])
BY DEF TargetRows, Base, RowsOf, ReadAt, RowsIn, HeldSeen, BranchSeen, Seen, SeenAt,
       PageOf, CellOf, Truncated, Cut

LEMMA Numbers ==
  ASSUME MetalInv
  PROVE  /\ policy \in Policies /\ policy.maximum_tokens \in Nat
         /\ tokens \in Nat /\ tokens <= policy.maximum_tokens
         /\ DOMAIN TargetRows = 1 .. tokens /\ Len(TargetRows) = tokens
<1>1. policy \in Policies /\ tokens \in 0 .. policy.maximum_tokens
  BY DEF MetalInv, BookInv
<1>2. policy.maximum_tokens \in Nat
  BY <1>1, Geometry
<1>3. tokens \in Nat /\ tokens <= policy.maximum_tokens
  BY <1>1, <1>2
<1>4. TargetRows = [t \in 1 .. tokens |-> ReadAt(pages, page_to_q4_slot, t).value]
  BY DEF TargetRows, RowsOf
<1>5. DOMAIN TargetRows = 1 .. tokens /\ Len(TargetRows) = tokens
  BY <1>3, <1>4
<1> QED BY <1>1, <1>2, <1>3, <1>5

LEMMA BaseLength ==
  ASSUME MetalInv, checkpoint # << >>
  PROVE  checkpoint[1].tokens \in Nat /\ Len(Base) = checkpoint[1].tokens
<1>1. PICK mark \in Mark : checkpoint = <<mark>>
  BY DEF MetalInv, BranchInv
<1>2. checkpoint[1].tokens \in Nat
  BY <1>1 DEF Mark
<1>3. Base = [t \in 1 .. checkpoint[1].tokens |->
                 ReadAt(Truncated(checkpoint[1]), checkpoint[1].page_to_q4_slot, t).value]
  BY DEF Base, RowsOf
<1> QED BY <1>2, <1>3

LEMMA BaseStays ==
  ASSUME BranchSeen' = BranchSeen, checkpoint' = checkpoint
  PROVE  checkpoint # << >> => Base' = Base
BY RowsAreSeen, RowsAreSeenNext

\* One more token, in a branch or not.
LEMMA AppendGivesRow ==
  ASSUME MetalInv, Appendable, NEW value \in Values, AppendAndDispatch(Plan, value),
         TargetRows \in Seq(Values)
  PROVE  /\ [Next]_vars /\ policy' = policy
         /\ TargetRows' = Append(TargetRows, value) /\ ~poisoned'
         /\ checkpoint' = checkpoint
         /\ checkpoint # << >> => Base' = Base
<1>1. PICK plan : plan = Plan
  OBVIOUS
<1>2. AppendAndDispatch(plan, value) /\ plan \in {Plan}
  BY <1>1
<1>3. /\ ~poisoned /\ poisoned' = poisoned /\ policy' = policy /\ plan.ok
      /\ tokens' = tokens + 1 /\ pages' = plan.pages /\ checkpoint' = checkpoint
      /\ page_to_q4_slot' = plan.page_to_q4_slot
      /\ q2_pages' = DemotedArena(plan, value) /\ q4_pages' = PackedArena(plan, value)
  BY <1>2 DEF Appendable, AppendAndDispatch, Planned
<1>4. tokens \in Nat /\ DOMAIN TargetRows = 1 .. tokens /\ Len(TargetRows) = tokens
  BY Numbers
<1>5. HeldSeen' = [t \in 1 .. tokens + 1 |-> ShownAfter(plan, value, t)]
  <2>1. HeldSeen' = Seen(plan.pages, plan.page_to_q4_slot, tokens + 1,
                         DemotedArena(plan, value), PackedArena(plan, value))
    BY <1>3, NextViews
  <2>2. ASSUME NEW t \in 1 .. tokens + 1
        PROVE  SeenAt(plan.pages, plan.page_to_q4_slot, t,
                      DemotedArena(plan, value), PackedArena(plan, value))
                  = ShownAfter(plan, value, t)
    BY <1>1, <1>3, AppendShows
  <2> QED BY <2>1, <2>2 DEF Seen
<1>6. TargetRows' = [t \in 1 .. tokens + 1 |-> ShownAfter(plan, value, t).value]
  BY <1>3, <1>5, RowsAreSeenNext DEF RowsIn
<1>7. \A t \in 1 .. tokens :
         TargetRows[t] = SeenAt(pages, page_to_q4_slot, t, q2_pages, q4_pages).value
  BY <1>3, <1>4, RowsAreSeen DEF RowsIn, HeldSeen, Seen
<1>8. ASSUME NEW t \in 1 .. tokens + 1
      PROVE  ShownAfter(plan, value, t).value = Append(TargetRows, value)[t]
  <2>1. CASE t = tokens + 1
    <3>1. ShownAfter(plan, value, t).value = value
      BY <2>1 DEF ShownAfter
    <3>2. Append(TargetRows, value)[tokens + 1] = value
      BY <1>4, AppendProperties
    <3> QED BY <2>1, <3>1, <3>2
  <2>2. CASE t # tokens + 1
    <3>1. t \in 1 .. tokens
      BY <1>4, <2>2
    <3>2. ShownAfter(plan, value, t).value
             = SeenAt(pages, page_to_q4_slot, t, q2_pages, q4_pages).value
      BY <2>2 DEF ShownAfter, SeenAt
    <3>3. Append(TargetRows, value)[t] = TargetRows[t]
      BY <1>4, <3>1, AppendProperties
    <3> QED BY <1>7, <3>1, <3>2, <3>3
  <2> QED BY <2>1, <2>2
<1>9. TargetRows' = Append(TargetRows, value)
  <2>1. /\ Append(TargetRows, value) \in Seq(Values)
        /\ Len(Append(TargetRows, value)) = tokens + 1
    BY <1>4, AppendProperties
  <2> DEFINE longer == Append(TargetRows, value)
  <2> HIDE DEF longer
  <2>2. longer = [t \in 1 .. tokens + 1 |-> longer[t]]
    <3>1. longer \in Seq(Values) /\ Len(longer) = tokens + 1
      BY <2>1 DEF longer
    <3>2. longer \in [1 .. tokens + 1 -> Values]
      BY <3>1, LenProperties
    <3> QED BY <3>2
  <2> QED BY <1>6, <1>8, <2>2 DEF longer
<1>10. BranchSeen' = BranchSeen
  BY <1>1, <1>2, AppendWrites
<1> QED BY <1>2, <1>3, <1>9, <1>10, BaseStays DEF Next

\* A command buffer that breaks off leaves what the branch is taken back to.
LEMMA BrokenAppendKeepsBase ==
  ASSUME MetalInv, Appendable, NEW value \in Values, AppendFailed(Plan, value)
  PROVE  /\ [Next]_vars /\ policy' = policy
         /\ checkpoint' = checkpoint
         /\ checkpoint # << >> => Base' = Base
<1>1. PICK plan : plan = Plan
  OBVIOUS
<1>2. AppendFailed(plan, value) /\ plan \in {Plan}
  BY <1>1
<1>3. checkpoint' = checkpoint /\ policy' = policy
  BY <1>2 DEF AppendFailed, Planned
<1>4. BranchSeen' = BranchSeen
  BY <1>1, <1>2, AppendWrites
<1> QED BY <1>2, <1>3, <1>4, BaseStays DEF Next

LEMMA RowsRead ==
  ASSUME UNCHANGED <<policy, tokens, pages, page_to_q4_slot, q2_pages, q4_pages>>
  PROVE  TargetRows' = TargetRows
BY DEF TargetRows, RowsOf, ReadAt

LEMMA BeginKeepsRows ==
  ASSUME MetalInv, BeginSpeculative
  PROVE  /\ [Next]_vars /\ policy' = policy
         /\ ~poisoned /\ ~poisoned' /\ checkpoint = << >> /\ checkpoint' # << >>
         /\ TargetRows' = TargetRows /\ Base' = TargetRows /\ tokens' = tokens
<1> DEFINE k == Len(pages)
<1>0. PICK mark : mark = checkpoint'[1]
  OBVIOUS
<1>1. /\ ~poisoned /\ poisoned' = poisoned /\ checkpoint = << >> /\ checkpoint' # << >>
      /\ policy' = policy /\ tokens' = tokens /\ pages' = pages
      /\ page_to_q4_slot' = page_to_q4_slot /\ q2_pages' = q2_pages /\ q4_pages' = q4_pages
      /\ mark.tokens = tokens /\ mark.pages = k /\ mark.page_to_q4_slot = page_to_q4_slot
      /\ mark.last_page_tokens = IF pages = << >> THEN 0 ELSE Last(pages).tokens
  BY <1>0 DEF BeginSpeculative, metadata
<1>2. /\ pages \in Seq(Page) /\ k \in Nat /\ DOMAIN pages = 1 .. k
      /\ \A a \in 1 .. k : pages[a] \in Page
  BY PagesFit DEF MetalInv, BookInv
<1>3. mark.last_page_tokens = IF k = 0 THEN 0 ELSE pages[k].tokens
  BY <1>1, <1>2 DEF Last
<1> HIDE DEF k
<1>4. Cut(pages, mark) = pages
  <2>1. ASSUME NEW a \in 1 .. k, ~(a < k)
        PROVE  [pages[a] EXCEPT !.tokens = mark.last_page_tokens] = pages[a]
    <3>1. a = k /\ k # 0
      BY <1>2, <2>1
    <3>2. mark.last_page_tokens = pages[a].tokens /\ pages[a] \in Page
      BY <1>2, <1>3, <3>1
    <3> QED BY <3>2 DEF Page
  <2>2. Cut(pages, mark) = [a \in 1 .. k |-> pages[a]]
    BY <1>1, <2>1 DEF Cut
  <2> QED BY <1>2, <2>2
<1>5. Base' = TargetRows
  <2>1. BranchSeen' = <<Seen(pages, page_to_q4_slot, tokens, q2_pages, q4_pages)>>
    BY <1>0, <1>1, <1>4, NextViews
  <2>2. BranchSeen'[1] = HeldSeen
    BY <1>1, <2>1 DEF HeldSeen
  <2> QED BY <1>1, <2>2, RowsAreSeen, RowsAreSeenNext
<1>6. TargetRows' = TargetRows
  BY <1>1, RowsRead
<1> QED BY <1>1, <1>5, <1>6 DEF Next

LEMMA RestoreGivesBase ==
  ASSUME MetalInv, RestoreSpeculative
  PROVE  /\ [Next]_vars /\ policy' = policy
         /\ checkpoint' = << >> /\ ~poisoned' /\ TargetRows' = Base
<1>1. /\ checkpoint # << >> /\ checkpoint' = << >> /\ poisoned' = FALSE /\ policy' = policy
      /\ pages' = Truncated(checkpoint[1]) /\ tokens' = checkpoint[1].tokens
      /\ page_to_q4_slot' = checkpoint[1].page_to_q4_slot
      /\ q2_pages' = q2_pages /\ q4_pages' = q4_pages
  BY DEF RestoreSpeculative
<1>2. TargetRows' = Base
  BY <1>1 DEF TargetRows, Base, RowsOf, ReadAt
<1> QED BY <1>1, <1>2 DEF Next

LEMMA CommitKeepsRows ==
  ASSUME CommitSpeculative
  PROVE  /\ [Next]_vars /\ policy' = policy
         /\ checkpoint' = << >> /\ ~poisoned' /\ TargetRows' = TargetRows
<1>1. /\ ~poisoned /\ poisoned' = poisoned /\ checkpoint' = << >>
      /\ UNCHANGED <<policy, tokens, pages, page_to_q4_slot, q2_pages, q4_pages>>
  BY DEF CommitSpeculative, metadata
<1> QED BY <1>1, RowsRead DEF Next

LEMMA ResetClearsRows ==
  ASSUME Reset
  PROVE  /\ [Next]_vars /\ policy' = policy
         /\ checkpoint' = << >> /\ ~poisoned' /\ TargetRows' = << >>
<1>1. tokens' = 0 /\ checkpoint' = << >> /\ poisoned' = FALSE /\ policy' = policy
  BY DEF Reset
<1>2. TargetRows' = << >>
  BY <1>1 DEF TargetRows, RowsOf
<1> QED BY <1>1, <1>2 DEF Next

LEMMA SameRows ==
  ASSUME UNCHANGED vars
  PROVE  /\ [Next]_vars /\ policy' = policy /\ poisoned' = poisoned
         /\ checkpoint' = checkpoint /\ tokens' = tokens
         /\ TargetRows' = TargetRows /\ Base' = Base
<1>1. /\ UNCHANGED <<policy, tokens, pages, page_to_q4_slot, q2_pages, q4_pages>>
      /\ poisoned' = poisoned /\ checkpoint' = checkpoint
  BY DEF vars, metadata
<1>2. Base' = Base
  BY <1>1 DEF Base, RowsOf, ReadAt, Truncated
<1> QED BY <1>1, <1>2, RowsRead

-----------------------------------------------------------------------------
(* The branch over all owners *)

LinearRecord == [state : States, poisoned : BOOLEAN, checkpoint : Seq(States)]
HiddenRecord == [state : States, checkpoint : Seq(States)]
MtpRecord == [rows : Seq(Values \cup {Junk}), poisoned : BOOLEAN,
              checkpoint : Seq(Seq(Values \cup {Junk})), q4_slots : Nat]

LEMMA TypedRecords ==
  OwnersTyped <=> /\ linear \in [LinearOwners -> LinearRecord]
                  /\ layers \in [transaction_active : BOOLEAN, poisoned : BOOLEAN]
                  /\ mtp \in MtpRecord /\ hidden \in HiddenRecord
BY DEF OwnersTyped, LinearRecord, HiddenRecord, MtpRecord

LEMMA TypedRecordsNext ==
  OwnersTyped' <=> /\ linear' \in [LinearOwners -> LinearRecord]
                   /\ layers' \in [transaction_active : BOOLEAN, poisoned : BOOLEAN]
                   /\ mtp' \in MtpRecord /\ hidden' \in HiddenRecord
BY DEF OwnersTyped, LinearRecord, HiddenRecord, MtpRecord, States

LEMMA NoElement == \A S : << >> \in Seq(S)
OBVIOUS

LEMMA StateFacts ==
  /\ \A held \in Seq(Values) : held \in States /\ <<held>> \in Seq(States)
  /\ Junk \in States /\ << >> \in Seq(States) /\ << >> \in Seq(Values)
  /\ \A held \in Seq(Values) : held # Junk
BY StatesAssumption DEF States

LEMMA Extends ==
  ASSUME NEW state \in States, NEW value \in Values
  PROVE  /\ Extended(state, value) \in States
         /\ state \in Seq(Values) => Extended(state, value) = Append(state, value)
<1>1. CASE state = Junk
  BY <1>1, StateFacts DEF Extended
<1>2. CASE state # Junk
  BY <1>2, AppendProperties DEF Extended, States
<1> QED BY <1>1, <1>2

\* Tail and Append on the rows of MTP.
LEMMA OneBehind ==
  ASSUME NEW held \in Seq(Values), NEW value \in Values
  PROVE  /\ held # << >> => /\ Tail(held) \in Seq(Values)
                            /\ Tail(Append(held, value)) = Append(Tail(held), value)
         /\ held = << >> => Tail(Append(held, value)) = << >>
         /\ Append(held, value) # << >> /\ Append(held, value) \in Seq(Values)
BY HeadTailAppend, HeadTailProperties, AppendProperties

LEMMA BehindType ==
  ASSUME NEW held \in Seq(Values)
  PROVE  Behind(held) \in Seq(Values) /\ Behind(held) \in Seq(Values \cup {Junk})
<1>1. Behind(held) \in Seq(Values)
  BY HeadTailProperties DEF Behind
<1> QED BY <1>1, SeqMonotonic

\* tokens is the number of rows.
LEMMA Count ==
  ASSUME MetalInv, NEW held, Owners(held)
  PROVE  /\ tokens = Len(held) /\ tokens \in Nat /\ Len(held) <= policy.maximum_tokens
         /\ policy.maximum_tokens \in Nat
         /\ tokens > 0 <=> held # << >>
<1>1. TargetRows = held /\ held \in Seq(Values)
  BY DEF Owners
<1>2. tokens = Len(held) /\ tokens \in Nat /\ tokens <= policy.maximum_tokens
      /\ policy.maximum_tokens \in Nat
  BY <1>1, Numbers
<1>3. Len(held) > 0 <=> held # << >>
  BY <1>1, EmptySeq
<1> QED BY <1>2, <1>3

LEMMA BeginOpens ==
  ASSUME MetalInv, OwnersTyped, NEW done, Holds(done), NEW width \in Nat,
         BeginTransaction(TakesMtp, width), session'.mtp = session.mtp
  PROVE  /\ [Next]_vars /\ policy' = policy /\ OwnersTyped'
         /\ InBranch(done)' /\ Owners(done)'
         /\ Len(done) + width <= policy.maximum_tokens
<1>1. /\ BeginSpeculative /\ tokens + width <= policy.maximum_tokens
      /\ linear' = [owner \in LinearOwners |-> Snapshot(linear[owner])]
      /\ layers' = [layers EXCEPT !.transaction_active = TRUE]
      /\ layers = IdleLayers
  BY DEF BeginTransaction, CursorAdmitted, TargetIsIdle
<1>2. /\ [Next]_vars /\ policy' = policy /\ ~poisoned' /\ checkpoint' # << >>
      /\ TargetRows' = TargetRows /\ Base' = TargetRows
  BY <1>1, BeginKeepsRows
<1>3. /\ done \in Seq(Values) /\ Usable /\ NoBranch /\ TargetRows = done
      /\ \A owner \in LinearOwners : linear[owner].state = done
      /\ mtp.rows = Behind(done)
      /\ session.mtp => hidden.state = done
  BY DEF Holds, Owners
<1>4. tokens = Len(done) /\ (tokens > 0 <=> done # << >>)
  BY Count DEF Holds
<1>5. /\ done \in States /\ <<done>> \in Seq(States)
      /\ Behind(done) \in Seq(Values \cup {Junk})
  BY <1>3, StateFacts, BehindType
<1>6. /\ linear \in [LinearOwners -> LinearRecord]
      /\ mtp \in MtpRecord /\ hidden \in HiddenRecord
  BY TypedRecords
<1>7. ASSUME NEW owner \in LinearOwners
      PROVE  /\ linear'[owner] = [state |-> done, poisoned |-> FALSE, checkpoint |-> <<done>>]
             /\ linear'[owner] \in LinearRecord
  <2>1. linear'[owner] = [linear[owner] EXCEPT !.checkpoint = << done >>]
    BY <1>1, <1>3 DEF Snapshot
  <2>2. linear[owner] \in LinearRecord /\ linear[owner].poisoned = FALSE
        /\ linear[owner].state = done
    BY <1>3, <1>6 DEF Usable, LinearRecord
  <2> QED BY <1>5, <2>1, <2>2 DEF LinearRecord
<1>8. layers' = [transaction_active |-> TRUE, poisoned |-> FALSE]
  BY <1>1 DEF IdleLayers
<1>9. /\ mtp' \in MtpRecord /\ mtp'.rows = Behind(done) /\ ~mtp'.poisoned
      /\ mtp'.checkpoint = IF JointFrom(done) THEN <<Tail(done)>> ELSE << >>
  <2>1. CASE TakesMtp
    <3>1. JointFrom(done) /\ Behind(done) = Tail(done)
      BY <1>4, <2>1 DEF TakesMtp, JointFrom, Behind
    <3>2. mtp' = [mtp EXCEPT !.checkpoint = << Tail(done) >>]
      BY <1>3, <2>1, <3>1 DEF BeginTransaction, MtpBegun
    <3>3. << Tail(done) >> \in Seq(Seq(Values \cup {Junk}))
      BY <1>5, <3>1
    <3>4. ~mtp.poisoned
      BY <1>3 DEF Usable
    <3> QED BY <1>3, <1>6, <3>1, <3>2, <3>3, <3>4 DEF MtpRecord
  <2>2. CASE ~TakesMtp
    <3>1. ~JointFrom(done) /\ mtp' = mtp
      BY <1>4, <2>2 DEF TakesMtp, JointFrom, BeginTransaction
    <3> QED BY <1>3, <1>6, <3>1 DEF Usable, NoBranch
  <2> QED BY <2>1, <2>2
<1>10. /\ hidden' \in HiddenRecord
       /\ session.mtp => hidden'.state = done
       /\ hidden'.checkpoint = IF JointFrom(done) THEN <<done>> ELSE << >>
  <2>1. CASE TakesMtp
    <3>1. JointFrom(done) /\ hidden.state = done
      BY <1>3, <1>4, <2>1 DEF TakesMtp, JointFrom
    <3>2. hidden' = [hidden EXCEPT !.checkpoint = <<done>>]
      BY <2>1, <3>1 DEF BeginTransaction, Snapshot
    <3> QED BY <1>5, <1>6, <3>1, <3>2 DEF HiddenRecord
  <2>2. CASE ~TakesMtp
    <3>1. ~JointFrom(done) /\ hidden' = hidden
      BY <1>4, <2>2 DEF TakesMtp, JointFrom, BeginTransaction
    <3> QED BY <1>3, <1>6, <3>1 DEF NoBranch
  <2> QED BY <2>1, <2>2
<1>11. OwnersTyped'
  <2>1. linear' \in [LinearOwners -> LinearRecord]
    BY <1>1, <1>7
  <2> QED BY <1>8, <1>9, <1>10, <2>1, TypedRecordsNext
<1>12. Owners(done)'
  <2>1. Usable'
    BY <1>2, <1>7, <1>8, <1>9 DEF Usable
  <2> QED BY <1>2, <1>3, <1>7, <1>9, <1>10, <2>1 DEF Owners, Behind
<1>13. InBranch(done)'
  <2>1. ~JointFrom(done) => Behind(done) = << >>
    BY DEF JointFrom, Behind
  <2> QED BY <1>2, <1>3, <1>7, <1>8, <1>9, <1>10, <2>1 DEF InBranch, JointFrom
<1> QED BY <1>1, <1>2, <1>4, <1>11, <1>12, <1>13

\* A begin that is refused or fails: nothing has moved, or a mark is left.
LEMMA BeginUndone ==
  ASSUME MetalInv, OwnersTyped, NEW done, Holds(done), BeginFails, session'.mtp = session.mtp
  PROVE  /\ UNCHANGED vars /\ OwnersTyped' /\ ~layers'.transaction_active
         /\ Holds(done)' \/ layers'.poisoned
<1>1. UNCHANGED vars /\ mtp' = mtp /\ hidden' = hidden
  BY DEF BeginFails
<1>2. /\ linear \in [LinearOwners -> LinearRecord]
      /\ layers \in [transaction_active : BOOLEAN, poisoned : BOOLEAN]
      /\ mtp \in MtpRecord /\ hidden \in HiddenRecord
      /\ ~layers.transaction_active
  BY TypedRecords DEF Holds, NoBranch
<1>3. CASE UNCHANGED <<linear, layers>>
  <2>1. OwnersTyped'
    BY <1>1, <1>2, <1>3, TypedRecordsNext
  <2>2. /\ poisoned' = poisoned /\ checkpoint' = checkpoint /\ TargetRows' = TargetRows
    BY <1>1, SameRows
  <2>3. Holds(done)'
    BY <1>1, <1>3, <2>2 DEF Holds, NoBranch, Owners, Usable, Behind
  <2> QED BY <1>1, <1>2, <1>3, <2>1, <2>3
<1>4. CASE /\ \E stuck \in SUBSET LinearOwners \ {{}} :
                linear' = [owner \in LinearOwners |->
                              IF owner \in stuck THEN Unrestored(Snapshot(linear[owner]))
                                                 ELSE linear[owner]]
           /\ layers' = [layers EXCEPT !.poisoned = TRUE]
  <2>1. PICK stuck \in SUBSET LinearOwners :
                linear' = [owner \in LinearOwners |->
                              IF owner \in stuck THEN Unrestored(Snapshot(linear[owner]))
                                                 ELSE linear[owner]]
    BY <1>4
  <2>2. ASSUME NEW owner \in LinearOwners PROVE linear'[owner] \in LinearRecord
    <3>1. linear[owner] \in LinearRecord
      BY <1>2
    <3>2. <<linear[owner].state>> \in Seq(States) /\ Junk \in States
      BY <3>1 DEF LinearRecord, States
    <3>3. Unrestored(Snapshot(linear[owner])) \in LinearRecord
      BY <3>1, <3>2 DEF LinearRecord, Unrestored, Snapshot
    <3> QED BY <2>1, <3>1, <3>3
  <2>3. linear' \in [LinearOwners -> LinearRecord]
    BY <2>1, <2>2
  <2>4. /\ layers' \in [transaction_active : BOOLEAN, poisoned : BOOLEAN]
        /\ layers'.poisoned /\ ~layers'.transaction_active
    BY <1>2, <1>4
  <2> QED BY <1>1, <1>2, <2>3, <2>4, TypedRecordsNext
<1> QED BY <1>3, <1>4 DEF BeginFails

-----------------------------------------------------------------------------
(* A transition *)

\* The descriptor sets of a block are enough.
LEMMA SetsAreDistinct ==
  ASSUME NEW n \in Nat \ {0}, NEW a \in Nat, NEW k \in 1 .. n - 1
  PROVE  (a + k) % n # a % n
<1> DEFINE p == a \div n
           q == (a + k) \div n
<1>1. /\ p \in Nat /\ q \in Nat
      /\ a = n * p + (a % n) /\ a + k = n * q + ((a + k) % n)
  <2>1. a + k \in Nat
    OBVIOUS
  <2> QED BY <2>1, DivMod
<1> HIDE DEF p, q
<1>2. ASSUME (a + k) % n = a % n PROVE FALSE
  <2>1. k = n * q - n * p
    BY <1>1, <1>2
  <2>2. n * q - n * p = n * (q - p)
    BY <1>1
  <2>3. CASE q <= p
    BY <1>1, <2>1, <2>2, <2>3
  <2>4. CASE q > p
    <3>1. n * 1 <= n * (q - p)
      BY <1>1, <2>4, Monotone
    <3> QED BY <1>1, <2>1, <2>2, <3>1
  <2> QED BY <1>1, <2>3, <2>4
<1> QED BY <1>2

LEMMA BlocksAreDescribed ==
  ASSUME MetalInv, NEW following \in 0 .. MaximumDrafts
  PROVE  Described(following)
<1>1. tokens \in Nat /\ MaximumDrafts \in Nat
  BY Numbers, DraftsAssumption
<1>2. ASSUME NEW later \in 1 .. following
      PROVE  (tokens + later) % DispatchSlots # tokens % DispatchSlots
  <2>1. DispatchSlots \in Nat \ {0} /\ later \in 1 .. DispatchSlots - 1
    BY <1>1 DEF DispatchSlots
  <2> QED BY <1>1, <2>1, SetsAreDistinct
<1> QED BY <1>2 DEF Described

\* What a branch needs of a transition of it.
HasPlace(base, held) ==
    /\ tokens < policy.maximum_tokens
    /\ IF JointFrom(base) THEN held # << >> ELSE session.mtp => held = << >>

LEMMA TransitionAdvances ==
  ASSUME MetalInv, OwnersTyped, NEW base, InBranch(base), NEW held, Owners(held),
         HasPlace(base, held),
         NEW value \in Values, NEW following \in 0 .. MaximumDrafts,
         Transition(Joint, value, following), session'.mtp = session.mtp
  PROVE  /\ [Next]_vars /\ policy' = policy /\ OwnersTyped'
         /\ InBranch(base)' /\ Owners(Append(held, value))'
<1> DEFINE more == Append(held, value)
<1>1. Described(following)
  BY BlocksAreDescribed
<1>2. /\ AppendAndDispatch(Plan, value)
      /\ IF Joint THEN mtp' = MtpAppended(MtpRow(value)) ELSE UNCHANGED mtp
      /\ linear' = [owner \in LinearOwners |-> Advanced(linear[owner], value)]
      /\ hidden' = [hidden EXCEPT !.state = Extended(linear["after"].state, value)]
      /\ layers' = layers
  BY <1>1 DEF Transition
<1>3. /\ held \in Seq(Values) /\ Usable /\ TargetRows = held
      /\ \A owner \in LinearOwners : linear[owner].state = held
      /\ mtp.rows = Behind(held)
      /\ session.mtp => hidden.state = held
  BY DEF Owners
<1>4. /\ base \in Seq(Values) /\ checkpoint # << >> /\ Base = base
      /\ layers = [transaction_active |-> TRUE, poisoned |-> FALSE]
      /\ \A owner \in LinearOwners : linear[owner].checkpoint = <<base>>
      /\ mtp.checkpoint = IF JointFrom(base) THEN <<Tail(base)>> ELSE << >>
      /\ hidden.checkpoint = IF JointFrom(base) THEN <<base>> ELSE << >>
  BY DEF InBranch
<1>5. Joint <=> JointFrom(base)
  BY <1>4 DEF Joint
<1>6. Appendable
  BY <1>3 DEF Appendable, Usable, HasPlace
<1>7. /\ [Next]_vars /\ policy' = policy /\ TargetRows' = more /\ ~poisoned'
      /\ checkpoint' # << >> /\ Base' = base
  BY <1>2, <1>3, <1>4, <1>6, AppendGivesRow
<1>8. /\ more \in Seq(Values) /\ more \in States /\ more # << >>
      /\ held \in States /\ Extended(held, value) = more
      /\ "after" \in LinearOwners
  BY <1>3, OneBehind, StateFacts, Extends DEF LinearOwners
<1> HIDE DEF more
<1>9. /\ linear \in [LinearOwners -> LinearRecord]
      /\ mtp \in MtpRecord /\ hidden \in HiddenRecord
  BY TypedRecords
<1>10. ASSUME NEW owner \in LinearOwners
       PROVE  /\ linear'[owner] = [state |-> more, poisoned |-> FALSE, checkpoint |-> <<base>>]
              /\ linear'[owner] \in LinearRecord
  <2>1. linear'[owner] = [linear[owner] EXCEPT !.state = more]
    BY <1>2, <1>3, <1>8 DEF Advanced
  <2>2. linear[owner] \in LinearRecord /\ linear[owner].poisoned = FALSE
        /\ linear[owner].checkpoint = <<base>>
    BY <1>3, <1>4, <1>9 DEF Usable, LinearRecord
  <2> QED BY <1>8, <2>1, <2>2 DEF LinearRecord
<1>11. /\ hidden' \in HiddenRecord /\ hidden'.state = more
       /\ hidden'.checkpoint = hidden.checkpoint
  <2>1. hidden' = [hidden EXCEPT !.state = more]
    BY <1>2, <1>3, <1>8
  <2> QED BY <1>8, <1>9, <2>1 DEF HiddenRecord
<1>12. /\ mtp' \in MtpRecord /\ mtp'.rows = Behind(more) /\ ~mtp'.poisoned
       /\ mtp'.checkpoint = mtp.checkpoint
       /\ ~JointFrom(base) => mtp' = mtp
  <2>1. CASE JointFrom(base)
    <3>1. held # << >> /\ session.mtp
      BY <2>1 DEF HasPlace, JointFrom
    <3>2. MtpRow(value) = value
      BY <1>3, <3>1 DEF MtpRow
    <3>3. mtp' = [mtp EXCEPT !.rows = Append(Tail(held), value)]
      BY <1>2, <1>3, <1>5, <2>1, <3>1, <3>2 DEF MtpAppended, Behind
    <3>4. /\ Append(Tail(held), value) = Behind(more)
          /\ Behind(more) \in Seq(Values \cup {Junk})
      BY <1>3, <1>8, <3>1, OneBehind, BehindType DEF Behind, more
    <3>5. ~mtp.poisoned
      BY <1>3 DEF Usable
    <3> QED BY <1>9, <2>1, <3>3, <3>4, <3>5 DEF MtpRecord
  <2>2. CASE ~JointFrom(base)
    <3>1. mtp' = mtp
      BY <1>2, <1>5, <2>2
    <3>2. session.mtp => held = << >>
      BY <2>2 DEF HasPlace
    <3>3. Behind(more) = Behind(held)
      BY <1>3, <1>8, <3>2, OneBehind DEF Behind, more
    <3> QED BY <1>3, <1>9, <3>1, <3>3 DEF Usable
  <2> QED BY <2>1, <2>2
<1>13. OwnersTyped'
  <2>1. linear' \in [LinearOwners -> LinearRecord]
    BY <1>2, <1>10
  <2>2. layers' \in [transaction_active : BOOLEAN, poisoned : BOOLEAN]
    BY <1>2, <1>4
  <2> QED BY <1>11, <1>12, <2>1, <2>2, TypedRecordsNext
<1>14. Owners(more)'
  <2>1. Usable'
    BY <1>2, <1>4, <1>7, <1>10, <1>12 DEF Usable
  <2>2. Owners(more)' <=>
           /\ more \in Seq(Values) /\ Usable' /\ TargetRows' = more
           /\ \A owner \in LinearOwners : linear'[owner].state = more
           /\ mtp'.rows = Behind(more)
           /\ session.mtp => hidden'.state = more
    BY DEF Owners, Behind
  <2> QED BY <1>7, <1>8, <1>10, <1>11, <1>12, <2>1, <2>2
<1>15. InBranch(base)'
  <2>1. ~JointFrom(base) => mtp'.rows = << >> /\ ~mtp'.poisoned
    BY <1>12 DEF InBranch
  <2> QED BY <1>2, <1>4, <1>7, <1>10, <1>11, <1>12, <2>1 DEF InBranch, JointFrom
<1> QED BY <1>7, <1>13, <1>14, <1>15 DEF more

\* A command buffer that does not complete: the branch can still be taken back.
LEMMA TransitionBreaks ==
  ASSUME MetalInv, OwnersTyped, NEW base, InBranch(base), ~poisoned,
         tokens < policy.maximum_tokens,
         NEW value \in Values, TransitionFails(Joint, value), session'.mtp = session.mtp
  PROVE  /\ [Next]_vars /\ policy' = policy /\ OwnersTyped' /\ InBranch(base)'
<1>1. /\ AppendFailed(Plan, value)
      /\ linear' = [owner \in LinearOwners |-> Spoiled(linear[owner])]
      /\ mtp' = IF Joint THEN MtpSpoiled ELSE mtp
      /\ hidden' = [hidden EXCEPT !.state = Junk]
      /\ layers' = layers
  BY DEF TransitionFails, LinearSpoiled
<1>4. /\ base \in Seq(Values) /\ checkpoint # << >> /\ Base = base
      /\ layers = [transaction_active |-> TRUE, poisoned |-> FALSE]
      /\ \A owner \in LinearOwners : linear[owner].checkpoint = <<base>>
      /\ mtp.checkpoint = IF JointFrom(base) THEN <<Tail(base)>> ELSE << >>
      /\ hidden.checkpoint = IF JointFrom(base) THEN <<base>> ELSE << >>
      /\ ~JointFrom(base) => mtp.rows = << >> /\ ~mtp.poisoned
  BY DEF InBranch
<1>5. Joint <=> JointFrom(base)
  BY <1>4 DEF Joint
<1>6. Appendable
  BY DEF Appendable
<1>7. [Next]_vars /\ policy' = policy /\ checkpoint' # << >> /\ Base' = base
  BY <1>1, <1>4, <1>6, BrokenAppendKeepsBase
<1>8. /\ linear \in [LinearOwners -> LinearRecord]
      /\ mtp \in MtpRecord /\ hidden \in HiddenRecord
  BY TypedRecords
<1>9. ASSUME NEW owner \in LinearOwners
      PROVE  linear'[owner] \in LinearRecord /\ linear'[owner].checkpoint = <<base>>
  <2>1. linear[owner] \in LinearRecord /\ linear[owner].checkpoint = <<base>>
    BY <1>4, <1>8
  <2>2. linear'[owner] = [linear[owner] EXCEPT !.state = Junk, !.poisoned = TRUE]
    BY <1>1 DEF Spoiled
  <2> QED BY <2>1, <2>2, StateFacts DEF LinearRecord
<1>10. hidden' \in HiddenRecord /\ hidden'.checkpoint = hidden.checkpoint
  BY <1>1, <1>8, StateFacts DEF HiddenRecord
<1>11. mtp' \in MtpRecord /\ mtp'.checkpoint = mtp.checkpoint
  <2>1. CASE Joint
    <3>1. mtp.rows \in Seq(Values \cup {Junk}) /\ Junk \in Values \cup {Junk}
      BY <1>8 DEF MtpRecord
    <3>2. Append(mtp.rows, Junk) \in Seq(Values \cup {Junk})
      BY <3>1, AppendProperties
    <3>3. mtp' = [mtp EXCEPT !.rows = Append(mtp.rows, Junk), !.poisoned = TRUE]
      BY <1>1, <1>8, <2>1 DEF MtpSpoiled, MtpAppended, MtpRecord
    <3> QED BY <1>8, <3>2, <3>3 DEF MtpRecord
  <2>2. CASE ~Joint
    BY <1>1, <1>8, <2>2
  <2> QED BY <2>1, <2>2
<1>12. OwnersTyped'
  <2>1. linear' \in [LinearOwners -> LinearRecord]
    BY <1>1, <1>9
  <2>2. layers' \in [transaction_active : BOOLEAN, poisoned : BOOLEAN]
    BY <1>1, <1>4
  <2> QED BY <1>10, <1>11, <2>1, <2>2, TypedRecordsNext
<1>13. InBranch(base)'
  <2>1. ~JointFrom(base) => mtp'.rows = << >> /\ ~mtp'.poisoned
    BY <1>1, <1>4, <1>5
  <2> QED BY <1>1, <1>4, <1>7, <1>9, <1>10, <1>11, <2>1 DEF InBranch, JointFrom
<1> QED BY <1>7, <1>12, <1>13

-----------------------------------------------------------------------------
(* Closing a branch, and what clears or marks the owners *)

LEMMA CommitKeeps ==
  ASSUME OwnersTyped, NEW base, InBranch(base), NEW held, Owners(held),
         CommitTransaction, session'.mtp = session.mtp
  PROVE  [Next]_vars /\ policy' = policy /\ OwnersTyped' /\ Holds(held)'
<1>1. /\ CommitSpeculative
      /\ linear' = [owner \in LinearOwners |-> Dropped(linear[owner])]
      /\ layers' = IdleLayers /\ mtp' = Dropped(mtp) /\ hidden' = Dropped(hidden)
  BY DEF CommitTransaction
<1>2. /\ [Next]_vars /\ policy' = policy
      /\ checkpoint' = << >> /\ ~poisoned' /\ TargetRows' = TargetRows
  BY <1>1, CommitKeepsRows
<1>3. /\ held \in Seq(Values) /\ Usable /\ TargetRows = held
      /\ \A owner \in LinearOwners : linear[owner].state = held
      /\ mtp.rows = Behind(held)
      /\ session.mtp => hidden.state = held
  BY DEF Owners
<1>4. /\ linear \in [LinearOwners -> LinearRecord]
      /\ mtp \in MtpRecord /\ hidden \in HiddenRecord
  BY TypedRecords
<1>5. ASSUME NEW owner \in LinearOwners
      PROVE  /\ linear'[owner] = [state |-> held, poisoned |-> FALSE, checkpoint |-> << >>]
             /\ linear'[owner] \in LinearRecord
  <2>1. linear'[owner] = [linear[owner] EXCEPT !.checkpoint = << >>]
    BY <1>1 DEF Dropped
  <2>2. linear[owner] \in LinearRecord /\ linear[owner].poisoned = FALSE
        /\ linear[owner].state = held
    BY <1>3, <1>4 DEF Usable, LinearRecord
  <2> QED BY <1>3, <2>1, <2>2, StateFacts DEF LinearRecord
<1>6. /\ mtp' \in MtpRecord /\ mtp'.rows = mtp.rows /\ mtp'.checkpoint = << >>
      /\ mtp'.poisoned = mtp.poisoned
  BY <1>1, <1>4, NoElement DEF Dropped, MtpRecord
<1>7. hidden' \in HiddenRecord /\ hidden'.state = hidden.state /\ hidden'.checkpoint = << >>
  BY <1>1, <1>4, StateFacts DEF Dropped, HiddenRecord
<1>8. layers' = [transaction_active |-> FALSE, poisoned |-> FALSE]
  BY <1>1 DEF IdleLayers
<1>9. OwnersTyped'
  <2>1. linear' \in [LinearOwners -> LinearRecord]
    BY <1>1, <1>5
  <2> QED BY <1>6, <1>7, <1>8, <2>1, TypedRecordsNext
<1>10. Holds(held)'
  <2>1. Usable' /\ NoBranch'
    BY <1>2, <1>3, <1>5, <1>6, <1>7, <1>8 DEF Usable, NoBranch
  <2> QED BY <1>2, <1>3, <1>5, <1>6, <1>7, <2>1 DEF Holds, Owners, Behind
<1> QED BY <1>2, <1>9, <1>10

\* What both ways of a rollback do.
LEMMA RestoresRows ==
  ASSUME MetalInv, OwnersTyped, NEW base, InBranch(base), RestoreSpeculative
  PROVE  /\ [Next]_vars /\ policy' = policy
         /\ checkpoint' = << >> /\ ~poisoned' /\ TargetRows' = base
         /\ (Joint <=> JointFrom(base)) /\ base \in Seq(Values)
BY RestoreGivesBase DEF InBranch, Joint

LEMMA MtpTakenBack ==
  ASSUME OwnersTyped, NEW base, InBranch(base),
         mtp' = IF Joint THEN MtpRestored ELSE mtp
  PROVE  /\ mtp' \in MtpRecord /\ mtp'.rows = Behind(base) /\ ~mtp'.poisoned
         /\ mtp'.checkpoint = << >>
<1>1. /\ base \in Seq(Values)
      /\ mtp.checkpoint = IF JointFrom(base) THEN <<Tail(base)>> ELSE << >>
      /\ ~JointFrom(base) => mtp.rows = << >> /\ ~mtp.poisoned
  BY DEF InBranch
<1>2. mtp \in MtpRecord
  BY TypedRecords
<1>3. CASE JointFrom(base)
  <2>1. Behind(base) = Tail(base) /\ Joint
    BY <1>1, <1>3 DEF JointFrom, Behind, Joint
  <2>2. mtp' = [mtp EXCEPT !.rows = Behind(base), !.checkpoint = << >>, !.poisoned = FALSE]
    BY <1>1, <1>3, <2>1 DEF MtpRestored
  <2>3. /\ Behind(base) \in Seq(Values \cup {Junk})
        /\ << >> \in Seq(Seq(Values \cup {Junk}))
    BY <1>1, BehindType, NoElement
  <2> QED BY <1>2, <2>2, <2>3 DEF MtpRecord
<1>4. CASE ~JointFrom(base)
  <2>1. ~Joint /\ Behind(base) = << >>
    BY <1>1, <1>4 DEF JointFrom, Behind, Joint
  <2> QED BY <1>1, <1>2, <1>4, <2>1
<1> QED BY <1>3, <1>4

LEMMA HiddenTakenBack ==
  ASSUME OwnersTyped, NEW base, InBranch(base),
         hidden' = IF Joint THEN HiddenRestored ELSE hidden
  PROVE  /\ hidden' \in HiddenRecord /\ hidden'.checkpoint = << >>
         /\ JointFrom(base) => hidden'.state = base
<1>1. /\ base \in Seq(Values)
      /\ hidden.checkpoint = IF JointFrom(base) THEN <<base>> ELSE << >>
      /\ Joint <=> JointFrom(base)
  BY DEF InBranch, Joint
<1>2. hidden \in HiddenRecord
  BY TypedRecords
<1>3. CASE JointFrom(base)
  <2>1. hidden' = [hidden EXCEPT !.state = base, !.checkpoint = << >>]
    BY <1>1, <1>3 DEF HiddenRestored, Rewound
  <2> QED BY <1>1, <1>2, <2>1, StateFacts DEF HiddenRecord
<1>4. CASE ~JointFrom(base)
  BY <1>1, <1>2, <1>4
<1> QED BY <1>3, <1>4

LEMMA LinearTakenBack ==
  ASSUME OwnersTyped, NEW base, InBranch(base), NEW owner \in LinearOwners
  PROVE  Healed(Rewound(linear[owner]))
            = [state |-> base, poisoned |-> FALSE, checkpoint |-> << >>]
<1>1. linear[owner] \in LinearRecord /\ linear[owner].checkpoint = <<base>>
  BY TypedRecords DEF InBranch
<1>2. Rewound(linear[owner]) = [linear[owner] EXCEPT !.state = base, !.checkpoint = << >>]
  BY <1>1 DEF Rewound
<1>3. Healed(Rewound(linear[owner]))
         = [[linear[owner] EXCEPT !.state = base, !.checkpoint = << >>] EXCEPT !.poisoned = FALSE]
  BY <1>2 DEF Healed
<1>4. linear[owner] = [state |-> linear[owner].state, poisoned |-> linear[owner].poisoned,
                       checkpoint |-> linear[owner].checkpoint]
  BY <1>1 DEF LinearRecord
<1> QED BY <1>3, <1>4

LEMMA RestoreTakesBack ==
  ASSUME MetalInv, OwnersTyped, NEW base, InBranch(base), RestoreTransaction,
         session'.mtp = session.mtp
  PROVE  /\ [Next]_vars /\ policy' = policy /\ OwnersTyped' /\ ~layers'.transaction_active
         /\ base # << >> => Holds(base)'
<1>1. /\ RestoreSpeculative
      /\ linear' = [owner \in LinearOwners |-> Healed(Rewound(linear[owner]))]
      /\ layers' = IdleLayers
      /\ mtp' = IF Joint THEN MtpRestored ELSE mtp
      /\ hidden' = IF Joint THEN HiddenRestored ELSE hidden
  BY DEF RestoreTransaction
<1>2. /\ [Next]_vars /\ policy' = policy
      /\ checkpoint' = << >> /\ ~poisoned' /\ TargetRows' = base /\ base \in Seq(Values)
  BY <1>1, RestoresRows
<1>3. ASSUME NEW owner \in LinearOwners
      PROVE  /\ linear'[owner] = [state |-> base, poisoned |-> FALSE, checkpoint |-> << >>]
             /\ linear'[owner] \in LinearRecord
  <2>1. linear'[owner] = [state |-> base, poisoned |-> FALSE, checkpoint |-> << >>]
    BY <1>1, LinearTakenBack
  <2>2. base \in States /\ << >> \in Seq(States)
    BY <1>2, StateFacts
  <2> QED BY <2>1, <2>2 DEF LinearRecord
<1>4. /\ mtp' \in MtpRecord /\ mtp'.rows = Behind(base) /\ ~mtp'.poisoned
      /\ mtp'.checkpoint = << >>
  BY <1>1, MtpTakenBack
<1>5. /\ hidden' \in HiddenRecord /\ hidden'.checkpoint = << >>
      /\ JointFrom(base) => hidden'.state = base
  BY <1>1, HiddenTakenBack
<1>6. layers' = [transaction_active |-> FALSE, poisoned |-> FALSE]
  BY <1>1 DEF IdleLayers
<1>7. OwnersTyped'
  <2>1. linear' \in [LinearOwners -> LinearRecord]
    BY <1>1, <1>3
  <2> QED BY <1>4, <1>5, <1>6, <2>1, TypedRecordsNext
<1>8. ASSUME base # << >> PROVE Holds(base)'
  <2>1. Usable' /\ NoBranch'
    BY <1>2, <1>3, <1>4, <1>5, <1>6 DEF Usable, NoBranch
  <2>2. session.mtp => hidden'.state = base
    BY <1>5, <1>8 DEF JointFrom
  <2> QED BY <1>2, <1>3, <1>4, <2>1, <2>2 DEF Holds, Owners, Behind
<1> QED BY <1>2, <1>6, <1>7, <1>8

LEMMA RestoreLeavesAMark ==
  ASSUME MetalInv, OwnersTyped, NEW base, InBranch(base), RestoreIncomplete
  PROVE  /\ [Next]_vars /\ policy' = policy /\ OwnersTyped' /\ ~layers'.transaction_active
         /\ layers'.poisoned \/ hidden'.checkpoint # << >>
<1>1. PICK stuck \in SUBSET LinearOwners, lost \in BOOLEAN :
          /\ stuck # {} \/ lost
          /\ lost => Joint
          /\ linear' = [owner \in LinearOwners |->
                           IF owner \in stuck THEN Unrestored(linear[owner])
                                              ELSE Healed(Rewound(linear[owner]))]
          /\ layers' = [transaction_active |-> FALSE, poisoned |-> stuck # {}]
          /\ hidden' = IF lost THEN Unrestored(hidden)
                       ELSE IF Joint THEN HiddenRestored ELSE hidden
  BY DEF RestoreIncomplete
<1>2. RestoreSpeculative /\ mtp' = IF Joint THEN MtpRestored ELSE mtp
  BY DEF RestoreIncomplete
<1>3. /\ [Next]_vars /\ policy' = policy /\ base \in Seq(Values)
      /\ Joint <=> JointFrom(base)
  BY <1>2, RestoresRows
<1>4. mtp' \in MtpRecord
  BY <1>2, MtpTakenBack
<1>5. ASSUME NEW owner \in LinearOwners PROVE linear'[owner] \in LinearRecord
  <2>1. linear[owner] \in LinearRecord
    BY TypedRecords
  <2>2. Unrestored(linear[owner]) \in LinearRecord
    <3>1. Junk \in States
      BY StateFacts
    <3> QED BY <2>1, <3>1 DEF LinearRecord, Unrestored
  <2>3. Healed(Rewound(linear[owner])) \in LinearRecord
    <3>1. base \in States /\ << >> \in Seq(States)
      BY <1>3, StateFacts
    <3>2. Healed(Rewound(linear[owner]))
             = [state |-> base, poisoned |-> FALSE, checkpoint |-> << >>]
      BY LinearTakenBack
    <3> QED BY <3>1, <3>2 DEF LinearRecord
  <2> QED BY <1>1, <2>2, <2>3
<1>6. hidden' \in HiddenRecord /\ (lost => hidden'.checkpoint # << >>)
  <2>1. CASE lost
    <3>1. hidden \in HiddenRecord /\ hidden.checkpoint = <<base>>
      BY <1>1, <1>3, <2>1, TypedRecords DEF InBranch
    <3>2. hidden' = [hidden EXCEPT !.state = Junk]
      BY <1>1, <2>1 DEF Unrestored
    <3>3. Junk \in States
      BY StateFacts
    <3>4. hidden' \in HiddenRecord /\ hidden'.checkpoint = <<base>>
      BY <3>1, <3>2, <3>3 DEF HiddenRecord
    <3>5. <<base>> # << >>
      OBVIOUS
    <3> QED BY <3>4, <3>5
  <2>2. CASE ~lost
    BY <1>1, <2>2, HiddenTakenBack
  <2> QED BY <2>1, <2>2
<1>7. OwnersTyped'
  <2>1. linear' \in [LinearOwners -> LinearRecord]
    BY <1>1, <1>5
  <2>2. layers' \in [transaction_active : BOOLEAN, poisoned : BOOLEAN]
    BY <1>1
  <2> QED BY <1>4, <1>6, <2>1, <2>2, TypedRecordsNext
<1>8. layers'.poisoned \/ hidden'.checkpoint # << >>
  <2>1. CASE lost
    BY <1>6, <2>1
  <2>2. CASE ~lost
    <3>1. layers'.poisoned = (stuck # {})
      BY <1>1
    <3> QED BY <1>1, <2>2, <3>1
  <2> QED BY <2>1, <2>2
<1> QED BY <1>1, <1>3, <1>7, <1>8

LEMMA ResetEmpties ==
  ASSUME OwnersTyped, ResetTransaction
  PROVE  [Next]_vars /\ policy' = policy /\ OwnersTyped' /\ Holds(<< >>)'
<1>1. /\ Reset /\ linear' = FreshLinear /\ layers' = IdleLayers
      /\ mtp' = FreshMtp(mtp.q4_slots) /\ hidden' = FreshState
  BY DEF ResetTransaction
<1>2. /\ [Next]_vars /\ policy' = policy
      /\ checkpoint' = << >> /\ ~poisoned' /\ TargetRows' = << >>
  BY <1>1, ResetClearsRows
<1>3. mtp.q4_slots \in Nat
  BY TypedRecords DEF MtpRecord
<1>4. /\ << >> \in States /\ << >> \in Seq(States) /\ << >> \in Seq(Values)
      /\ << >> \in Seq(Values \cup {Junk}) /\ << >> \in Seq(Seq(Values \cup {Junk}))
  BY StateFacts, NoElement
<1>5. /\ linear' \in [LinearOwners -> LinearRecord]
      /\ \A owner \in LinearOwners :
            linear'[owner] = [state |-> << >>, poisoned |-> FALSE, checkpoint |-> << >>]
  BY <1>1, <1>4 DEF FreshLinear, LinearRecord
<1>6. /\ mtp' = [rows |-> << >>, poisoned |-> FALSE, checkpoint |-> << >>,
                 q4_slots |-> mtp.q4_slots]
      /\ mtp' \in MtpRecord
  BY <1>1, <1>3, <1>4 DEF FreshMtp, MtpRecord
<1>7. hidden' = [state |-> << >>, checkpoint |-> << >>] /\ hidden' \in HiddenRecord
  BY <1>1, <1>4 DEF FreshState, HiddenRecord
<1>8. layers' = [transaction_active |-> FALSE, poisoned |-> FALSE]
  BY <1>1 DEF IdleLayers
<1>9. OwnersTyped'
  BY <1>5, <1>6, <1>7, <1>8, TypedRecordsNext
<1>10. Usable' /\ NoBranch'
  BY <1>2, <1>5, <1>6, <1>7, <1>8 DEF Usable, NoBranch
<1> QED BY <1>2, <1>4, <1>5, <1>6, <1>7, <1>9, <1>10 DEF Holds, Owners, Behind

LEMMA PoisonMarks ==
  ASSUME OwnersTyped, PoisonTransaction
  PROVE  /\ UNCHANGED vars /\ OwnersTyped' /\ layers'.poisoned
         /\ layers'.transaction_active = layers.transaction_active
<1>1. /\ layers' = [layers EXCEPT !.poisoned = TRUE]
      /\ mtp' = [mtp EXCEPT !.poisoned = TRUE]
      /\ UNCHANGED vars /\ linear' = linear /\ hidden' = hidden
  BY DEF PoisonTransaction
<1>2. /\ linear \in [LinearOwners -> LinearRecord]
      /\ layers \in [transaction_active : BOOLEAN, poisoned : BOOLEAN]
      /\ mtp \in MtpRecord /\ hidden \in HiddenRecord
  BY TypedRecords
<1>3. mtp' \in MtpRecord
  BY <1>1, <1>2 DEF MtpRecord
<1> QED BY <1>1, <1>2, <1>3, TypedRecordsNext

LEMMA OwnersStay ==
  ASSUME OwnersUnchanged, session'.mtp = session.mtp
  PROVE  /\ [Next]_vars /\ policy' = policy /\ TargetRows' = TargetRows
         /\ layers' = layers /\ hidden' = hidden /\ Usable' = Usable
         /\ OwnersTyped => OwnersTyped'
         /\ \A held : Holds(held) => Holds(held)'
         /\ \A held : Owners(held) => Owners(held)'
         /\ \A base : InBranch(base) => InBranch(base)'
<1>1. /\ UNCHANGED vars /\ linear' = linear /\ layers' = layers /\ mtp' = mtp /\ hidden' = hidden
  BY DEF OwnersUnchanged, transactionVars
<1>2. /\ [Next]_vars /\ policy' = policy /\ poisoned' = poisoned /\ checkpoint' = checkpoint
      /\ TargetRows' = TargetRows /\ Base' = Base
  BY <1>1, SameRows
<1>3. OwnersTyped => OwnersTyped'
  BY <1>1, TypedRecords, TypedRecordsNext
<1>4. Usable' = Usable /\ NoBranch' = NoBranch
  BY <1>1, <1>2 DEF Usable, NoBranch
<1>5. ASSUME NEW held PROVE Owners(held) => Owners(held)'
  BY <1>1, <1>2, <1>4 DEF Owners, Behind
<1>6. ASSUME NEW held PROVE Holds(held) => Holds(held)'
  BY <1>4, <1>5 DEF Holds
<1>7. ASSUME NEW base PROVE InBranch(base) => InBranch(base)'
  BY <1>1, <1>2 DEF InBranch, JointFrom
<1> QED BY <1>1, <1>2, <1>3, <1>4, <1>5, <1>6, <1>7

-----------------------------------------------------------------------------
(* The branches of a call *)

LEMMA HeadTailConcat ==
  ASSUME NEW rest \in Seq(Values), rest # << >>
  PROVE  rest = <<Head(rest)>> \o Tail(rest)
<1>1. /\ Head(rest) \in Values /\ Tail(rest) \in Seq(Values) /\ Head(rest) = rest[1]
      /\ Len(Tail(rest)) = Len(rest) - 1 /\ Len(rest) \in Nat \ {0}
      /\ \A i \in 1 .. Len(Tail(rest)) : Tail(rest)[i] = rest[i + 1]
  BY HeadTailProperties, EmptySeq, LenProperties
<1> DEFINE h == Head(rest)
           t == Tail(rest)
           one == <<h>>
           both == one \o t
<1>2. /\ one \in Seq(Values) /\ Len(one) = 1 /\ one[1] = h
  BY <1>1
<1>3. /\ both \in Seq(Values) /\ Len(both) = 1 + Len(t)
      /\ \A i \in 1 .. 1 + Len(t) : both[i] = IF i <= 1 THEN one[i] ELSE t[i - 1]
  BY <1>1, <1>2, ConcatProperties
<1> HIDE DEF h, t, one, both
<1>4. Len(both) = Len(rest)
  BY <1>1, <1>3 DEF t
<1>5. ASSUME NEW i \in 1 .. Len(rest) PROVE both[i] = rest[i]
  <2>1. i \in 1 .. 1 + Len(t)
    BY <1>1 DEF t
  <2>2. CASE i = 1
    BY <1>1, <1>2, <1>3, <2>1, <2>2 DEF h
  <2>3. CASE i # 1
    <3>1. i - 1 \in 1 .. Len(t) /\ (i - 1) + 1 = i /\ ~(i <= 1)
      BY <1>1, <2>3 DEF t
    <3> QED BY <1>1, <1>3, <2>1, <3>1 DEF t
  <2> QED BY <2>2, <2>3
<1>6. both = rest
  BY <1>3, <1>4, <1>5, SeqEqual
<1> QED BY <1>6 DEF both, one, h, t

\* One branch per token.
LEMMA OneByOneIs ==
  ASSUME NEW rest \in Seq(Values), rest # << >>
  PROVE  /\ OneByOne(rest) \in Seq(Branch) /\ OneByOne(rest) # << >>
         /\ Len(OneByOne(rest)) = Len(rest)
         /\ Head(OneByOne(rest)) = Kept(<<Head(rest)>>)
         /\ Tail(rest) # << >> => Tail(OneByOne(rest)) = OneByOne(Tail(rest))
<1> DEFINE n == Len(rest)
           all == OneByOne(rest)
<1>1. /\ n \in Nat \ {0} /\ DOMAIN rest = 1 .. n /\ \A t \in 1 .. n : rest[t] \in Values
      /\ Head(rest) = rest[1]
  BY EmptySeq, LenProperties, ElementOfSeq
<1>2. all = [t \in 1 .. n |-> Kept(<<rest[t]>>)]
  BY <1>1 DEF OneByOne
<1>3. \A t \in 1 .. n : Kept(<<rest[t]>>) \in Branch
  BY <1>1 DEF Kept, Branch
<1> HIDE DEF n
<1>4. all \in [1 .. n -> Branch]
  BY <1>2, <1>3
<1> HIDE DEF all
<1>5. all \in Seq(Branch) /\ Len(all) = n /\ all # << >> /\ 1 \in 1 .. n
  BY <1>1, <1>4
<1>6. Head(all) = Kept(<<Head(rest)>>)
  <2>1. Head(all) = all[1]
    BY <1>5
  <2> QED BY <1>1, <1>2, <1>5, <2>1
<1>7. Tail(all) = OneByOne(Tail(rest))
  <2>1. /\ Tail(rest) \in Seq(Values) /\ Len(Tail(rest)) = n - 1
        /\ \A t \in 1 .. n - 1 : Tail(rest)[t] = rest[t + 1]
    BY <1>1, HeadTailProperties DEF n
  <2>2. /\ Tail(all) \in Seq(Branch) /\ Len(Tail(all)) = n - 1
        /\ \A t \in 1 .. n - 1 : Tail(all)[t] = all[t + 1]
    BY <1>5, HeadTailProperties
  <2>3. DOMAIN Tail(rest) = 1 .. n - 1
    BY <2>1, LenProperties
  <2> DEFINE last == Tail(all)
             first == Tail(rest)
  <2>4. last = [t \in 1 .. n - 1 |-> last[t]]
    BY <2>2, LenProperties
  <2>5. ASSUME NEW t \in 1 .. n - 1 PROVE last[t] = Kept(<<first[t]>>)
    <3>1. t + 1 \in 1 .. n
      BY <1>1
    <3> QED BY <1>2, <2>1, <2>2, <3>1
  <2>6. OneByOne(first) = [t \in 1 .. n - 1 |-> Kept(<<first[t]>>)]
    BY <2>3 DEF OneByOne
  <2> HIDE DEF last, first
  <2>7. last = OneByOne(first)
    BY <2>4, <2>5, <2>6
  <2> QED BY <2>7 DEF last, first
<1> QED BY <1>5, <1>6, <1>7 DEF all, n

LEMMA PrependedIs ==
  ASSUME NEW S, NEW s \in S, NEW t \in Seq(S)
  PROVE  /\ <<s>> \o t \in Seq(S) /\ <<s>> \o t # << >>
         /\ Head(<<s>> \o t) = s /\ Tail(<<s>> \o t) = t
         /\ Len(<<s>> \o t) = Len(t) + 1
<1>1. <<s>> \in Seq(S) /\ Len(<<s>>) = 1 /\ <<s>>[1] = s /\ Len(t) \in Nat
  OBVIOUS
<1> DEFINE both == <<s>> \o t
           n == Len(t)
<1>2. /\ both \in Seq(S) /\ Len(both) = n + 1
      /\ both[1] = s /\ \A i \in 1 .. n : both[i + 1] = t[i]
  <2>1. /\ both \in Seq(S) /\ Len(both) = 1 + n
        /\ \A i \in 1 .. 1 + n : both[i] = IF i <= 1 THEN <<s>>[i] ELSE t[i - 1]
    BY <1>1, ConcatProperties
  <2> HIDE DEF both, n
  <2>2. n \in Nat
    BY <1>1 DEF n
  <2>3. both[1] = s
    BY <1>1, <2>1, <2>2
  <2>4. ASSUME NEW i \in 1 .. n PROVE both[i + 1] = t[i]
    <3>1. i + 1 \in 1 .. 1 + n /\ ~(i + 1 <= 1) /\ (i + 1) - 1 = i
      BY <2>2
    <3> QED BY <2>1, <3>1
  <2> QED BY <2>1, <2>2, <2>3, <2>4
<1> HIDE DEF both
<1>3. both # << >> /\ Head(both) = s
  BY <1>1, <1>2
<1>4. /\ Tail(both) \in Seq(S) /\ Len(Tail(both)) = n
      /\ \A i \in 1 .. n : Tail(both)[i] = both[i + 1]
  <2>1. /\ Tail(both) \in Seq(S) /\ Len(Tail(both)) = Len(both) - 1
        /\ \A i \in 1 .. Len(Tail(both)) : Tail(both)[i] = both[i + 1]
    BY <1>2, <1>3, HeadTailProperties
  <2>2. Len(both) - 1 = n
    BY <1>1, <1>2
  <2> QED BY <2>1, <2>2
<1>5. Tail(both) = t
  BY <1>2, <1>4, SeqEqual
<1> QED BY <1>2, <1>3, <1>5 DEF both

\* What the first of the branches is, and what is left after it.
LEMMA FirstBranch ==
  ASSUME NEW rest \in Seq(Values), Consumes(rest)
  PROVE  /\ call.todo # << >>
         /\ First.tokens \in Seq(Values) /\ Len(First.tokens) \in 1 .. Transitions
         /\ First.keep \in BOOLEAN
         /\ call.method # "decode" => Len(First.tokens) = 1
         /\ First.keep =>
               \E later \in Seq(Values) :
                  /\ rest = First.tokens \o later
                  /\ Len(call.todo) > 1 <=> later # << >>
                  /\ later # << >> => Tail(call.todo) = OneByOne(later)
         /\ ~First.keep => call.method = "decode" /\ Tail(call.todo) = OneByOne(rest)
<1>0. Transitions \in Nat \ {0} /\ rest # << >> /\ Len(rest) \in Nat \ {0}
  BY DraftsAssumption, EmptySeq DEF Transitions, Consumes
<1>1. CASE call.todo = OneByOne(rest)
  <2>1. /\ call.todo # << >> /\ Len(call.todo) = Len(rest)
        /\ First = Kept(<<Head(rest)>>)
        /\ Tail(rest) # << >> => Tail(call.todo) = OneByOne(Tail(rest))
    BY <1>0, <1>1, OneByOneIs DEF First
  <2>2. First.tokens = <<Head(rest)>> /\ First.keep = TRUE
    BY <2>1 DEF Kept
  <2>3. /\ Head(rest) \in Values /\ Tail(rest) \in Seq(Values)
        /\ Len(Tail(rest)) = Len(rest) - 1
    BY <1>0, HeadTailProperties
  <2>4. /\ <<Head(rest)>> \in Seq(Values) /\ Len(<<Head(rest)>>) = 1 /\ 1 \in 1 .. Transitions
    BY <1>0, <2>3
  <2>5. rest = <<Head(rest)>> \o Tail(rest)
    BY <1>0, <2>3, HeadTailConcat
  <2>6. Len(call.todo) > 1 <=> Tail(rest) # << >>
    <3>1. Tail(rest) # << >> <=> Len(Tail(rest)) # 0
      BY <2>3, EmptySeq
    <3> QED BY <1>0, <2>1, <2>3, <3>1
  <2> QED BY <2>1, <2>2, <2>3, <2>4, <2>5, <2>6
<1>2. CASE call.method = "decode" /\ Len(rest) <= Transitions /\ call.todo = <<Kept(rest)>>
  <2>1. call.todo # << >> /\ First = Kept(rest) /\ Len(call.todo) = 1
    BY <1>2 DEF First
  <2>2. First.tokens = rest /\ First.keep = TRUE
    BY <2>1 DEF Kept
  <2>3. Len(rest) \in 1 .. Transitions
    BY <1>0, <1>2
  <2>4. rest = rest \o << >> /\ << >> \in Seq(Values)
    <3>1. << >> \in Seq(Values)
      BY StateFacts
    <3>2. rest \o << >> = rest
      BY ConcatEmptySeq
    <3> QED BY <3>1, <3>2
  <2>5. \E later \in Seq(Values) :
           /\ rest = First.tokens \o later
           /\ Len(call.todo) > 1 <=> later # << >>
           /\ later # << >> => Tail(call.todo) = OneByOne(later)
    <3>1. ~(Len(call.todo) > 1)
      BY <2>1
    <3>2. rest = First.tokens \o << >>
      BY <2>2, <2>4
    <3> QED BY <2>4, <3>1, <3>2
  <2>6. call.todo # << >> /\ First.tokens \in Seq(Values)
    BY <2>1, <2>2
  <2> QED BY <1>2, <2>2, <2>3, <2>5, <2>6
<1>3. ASSUME call.method = "decode", NEW block \in Seq(Values), Len(block) \in 1 .. Transitions,
             call.todo = <<Rejected(block)>> \o OneByOne(rest)
      PROVE  /\ call.todo # << >>
             /\ First.tokens \in Seq(Values) /\ Len(First.tokens) \in 1 .. Transitions
             /\ First.keep = FALSE /\ Tail(call.todo) = OneByOne(rest)
  <2>1. OneByOne(rest) \in Seq(Branch) /\ Rejected(block) \in Branch
    BY <1>0, OneByOneIs DEF Rejected, Branch
  <2>2. call.todo # << >> /\ First = Rejected(block) /\ Tail(call.todo) = OneByOne(rest)
    BY <1>3, <2>1, PrependedIs DEF First
  <2> QED BY <1>3, <2>2 DEF Rejected
<1> QED BY <1>1, <1>2, <1>3 DEF Consumes

-----------------------------------------------------------------------------
(* How a method goes on and how it returns *)

Ats == {"idle", "begin", "encode", "commit", "reject", "restore", "select", "stop"}
Running == {"begin", "encode", "commit", "reject", "restore"}

LEMMA PrefixFacts ==
  ASSUME NEW s \in Seq(Values), NEW t \in Seq(Values), NEW u \in Seq(Values)
  PROVE  /\ IsPrefix(s, s)
         /\ IsPrefix(s, t) => IsPrefix(s, t \o u)
         /\ IsPrefix(s, t) /\ s # << >> => t # << >>
<1>1. Len(s) \in Nat /\ Len(t) \in Nat /\ Len(u) \in Nat
  BY LenProperties
<1>2. IsPrefix(s, s)
  BY <1>1 DEF IsPrefix
<1>3. ASSUME IsPrefix(s, t) PROVE IsPrefix(s, t \o u)
  <2>1. Len(s) <= Len(t) /\ SubSeq(s, 1, Len(s)) = SubSeq(t, 1, Len(s))
    BY <1>3 DEF IsPrefix
  <2>2. Len(t \o u) = Len(t) + Len(u)
    BY ConcatProperties
  <2>3. SubSeq(t \o u, 1, Len(s)) = SubSeq(t, 1, Len(s))
    <3>1. CASE Len(s) = 0
      <4>1. 1 \in Int /\ 0 \in Int /\ 0 < 1
        OBVIOUS
      <4>2. SubSeq(t \o u, 1, 0) = << >> /\ SubSeq(t, 1, 0) = << >>
        BY <4>1, SubSeqEmpty
      <4> QED BY <3>1, <4>2
    <3>2. CASE Len(s) # 0
      <4>1. 1 \in 1 .. Len(t) /\ Len(s) \in 1 .. Len(t)
        BY <1>1, <2>1, <3>2
      <4> QED BY <4>1, SubSeqOfConcat1
    <3> QED BY <3>1, <3>2
  <2>4. Len(s) <= Len(t \o u)
    BY <1>1, <2>1, <2>2
  <2> QED BY <2>1, <2>3, <2>4 DEF IsPrefix
<1>4. ASSUME IsPrefix(s, t), s # << >> PROVE t # << >>
  <2>1. Len(s) # 0 /\ Len(s) <= Len(t)
    BY <1>4, EmptySeq DEF IsPrefix
  <2>2. Len(t) # 0
    BY <1>1, <2>1
  <2> QED BY <2>2, EmptySeq
<1> QED BY <1>2, <1>3, <1>4

LEMMA PrefixOfNothing ==
  ASSUME NEW s \in Seq(Values), NEW t \in Seq(Values), IsPrefix(s, t), s # << >>
  PROVE  t # << >>
BY PrefixFacts

LEMMA Single ==
  ASSUME NEW S, NEW s \in S
  PROVE  <<s>> \in Seq(S) /\ Len(<<s>>) = 1
OBVIOUS

\* A method under way runs the branches of a call.
LEMMA IsRunning ==
  ASSUME ExecutorInv, call.at \in Running
  PROVE  /\ OwnersTyped /\ ExecutorTyped /\ CallInv /\ WorkingInv
         /\ model = "warm" /\ Loaded /\ policy.maximum_tokens = Context
BY DEF ExecutorInv, Running, IdleInv, IdleCall, CallInv, Loaded, ExecutorTyped

\* At rest.
LEMMA IsIdle ==
  ASSUME ExecutorInv, Idle
  PROVE  OwnersTyped /\ ExecutorTyped /\ IdleInv
BY DEF ExecutorInv, Idle, IdleInv, IdleCall

LEMMA Continued ==
  ASSUME ExecutorTyped, CallInv, policy' = policy, NEW step, Continue(step),
         step = CallOf(step.at, step.method, step.todo, step.replay, step.gives, step.ack),
         step.at \in Ats,
         step.method = call.method, step.gives = call.gives, step.ack = call.ack
  PROVE  /\ ExecutorTyped' /\ CallInv'
         /\ call' = step /\ session' = session /\ session'.mtp = session.mtp
         /\ reported' = reported /\ drafts' = drafts
<1>1. /\ call' = step
      /\ UNCHANGED <<model, drafts, allocations, pending_ack, result, session, reported>>
  BY DEF Continue
<1>2. model = "warm" /\ model' = "warm"
  BY <1>1 DEF CallInv
<1>3. ExecutorTyped'
  <2>1. Loaded
    BY <1>2 DEF Loaded
  <2>2. /\ call' = CallOf(call'.at, call'.method, call'.todo, call'.replay, call'.gives, call'.ack)
        /\ call'.at \in Ats
    BY <1>1
  <2>3. /\ drafts' \in 0 .. MaximumDrafts
        /\ session' \in [status : {"none", "open", "lost"}, mtp : BOOLEAN]
        /\ reported' \in [tokens : Seq(Values), position : Nat, pending : Nat,
                     state : {"whole", "partial"}]
        /\ policy'.maximum_tokens = Context /\ drafts' # 0
    BY <1>1, <2>1 DEF ExecutorTyped
  <2> QED BY <1>2, <2>2, <2>3 DEF ExecutorTyped, Loaded, Ats, CallOf
<1>4. CallInv'
  BY <1>1 DEF CallInv
<1> QED BY <1>1, <1>3, <1>4

LEMMA Goes ==
  ASSUME ExecutorTyped, CallInv, policy' = policy, NEW at \in Ats, Continue(To(at))
  PROVE  /\ ExecutorTyped' /\ CallInv'
         /\ call'.at = at /\ call'.todo = call.todo /\ call'.replay = call.replay
         /\ call'.method = call.method /\ call'.gives = call.gives
         /\ session' = session /\ session'.mtp = session.mtp /\ reported' = reported
<1>1. PICK step : step = To(at)
  OBVIOUS
<1>2. step = [call EXCEPT !.at = at]
  BY <1>1 DEF To
<1>3. call = CallOf(call.at, call.method, call.todo, call.replay, call.gives, call.ack)
  BY DEF ExecutorTyped
<1>4. step = CallOf(at, call.method, call.todo, call.replay, call.gives, call.ack)
  BY <1>2, <1>3 DEF CallOf
<1>5. /\ step.at = at /\ step.method = call.method /\ step.todo = call.todo
      /\ step.replay = call.replay /\ step.gives = call.gives /\ step.ack = call.ack
  BY <1>4 DEF CallOf
<1>6. Continue(step)
  BY <1>1
<1>7. step = CallOf(step.at, step.method, step.todo, step.replay, step.gives, step.ack)
  BY <1>4, <1>5
<1>8. /\ ExecutorTyped' /\ CallInv'
      /\ call' = step /\ session' = session /\ session'.mtp = session.mtp
      /\ reported' = reported
  BY <1>5, <1>6, <1>7, Continued
<1> QED BY <1>5, <1>8

\* The same branches are still to be run.
LEMMA SameBranches ==
  ASSUME call'.todo = call.todo, call'.method = call.method, call'.gives = call.gives,
         reported' = reported
  PROVE  /\ First' = First
         /\ \A done, rest \in Seq(Values) : Progress(done, rest) => Progress(done, rest)'
BY DEF First, Progress, Consumes

LEMMA IsSettled ==
  ASSUME NEW done, Holds(done), done = << >> \/ IsPrefix(reported.tokens, done)
  PROVE  Settled
BY DEF Holds, Owners, NoBranch, Settled

LEMMA SettledNext ==
  ASSUME NEW done
  PROVE  (Holds(done) /\ (done = << >> \/ IsPrefix(reported.tokens, done)) => Settled)'
<1>1. Holds(done) /\ (done = << >> \/ IsPrefix(reported.tokens, done)) => Settled
  BY IsSettled
<1> QED BY <1>1, PTL

LEMMA IsMarked ==
  ASSUME ~layers.transaction_active, layers.poisoned \/ hidden.checkpoint # << >>
  PROVE  Settled
BY DEF Settled, Usable

LEMMA MarkedNext ==
  (~layers.transaction_active /\ (layers.poisoned \/ hidden.checkpoint # << >>) => Settled)'
<1>1. ~layers.transaction_active /\ (layers.poisoned \/ hidden.checkpoint # << >>) => Settled
  BY IsMarked
<1> QED BY <1>1, PTL

LEMMA SettledStays ==
  ASSUME OwnersUnchanged, session'.mtp = session.mtp, reported'.tokens = reported.tokens, Settled
  PROVE  Settled'
<1>1. /\ layers' = layers /\ hidden' = hidden /\ Usable' = Usable /\ TargetRows' = TargetRows
      /\ \A held : Holds(held) => Holds(held)'
  BY OwnersStay
<1>2. PICK rows : rows = TargetRows
  OBVIOUS
<1>3. CASE Usable /\ hidden.checkpoint = << >>
  <2>1. Holds(rows) /\ (rows = << >> \/ IsPrefix(reported.tokens, rows))
    BY <1>2, <1>3 DEF Settled
  <2>2. Holds(rows)'
    BY <1>1, <2>1
  <2> QED BY <2>1, <2>2, SettledNext
<1>4. CASE ~(Usable /\ hidden.checkpoint = << >>)
  BY <1>1, <1>4 DEF Settled
<1> QED BY <1>3, <1>4

\* A call is answered: the session holds what the call gives.
LEMMA Answered ==
  ASSUME ExecutorTyped, model = "warm", policy' = policy, OwnersTyped',
         NEW gives \in Seq(Values), gives # << >>, NEW ack, AnswerOk(gives, ack),
         tokens = Len(gives), Holds(gives)',
         \/ ack = << >>
         \/ session.mtp /\ \E answered \in Nat : Acknowledgeable(ack, answered, gives)
  PROVE  ExecutorInv'
<1>1. /\ call' = IdleCall /\ pending_ack' = ack
      /\ session' = [session EXCEPT !.status = "open"]
      /\ reported' = [tokens |-> gives, state |-> "whole",
                      position |-> tokens - (IF ack = << >> THEN 0 ELSE ack[1].accepted),
                      pending |-> IF ack = << >> THEN 0 ELSE ack[1].records]
      /\ model' = "warm" /\ drafts' = drafts
  BY DEF AnswerOk
<1>2. Loaded /\ Len(gives) \in Nat
  BY DEF Loaded
<1>3. session' = [status |-> "open", mtp |-> session.mtp]
  BY <1>1 DEF ExecutorTyped
<1>4. /\ reported'.position \in Nat /\ reported'.pending \in Nat
      /\ IF ack = << >>
         THEN reported'.pending = 0 /\ reported'.position = Len(reported'.tokens)
         ELSE /\ session.mtp
              /\ Acknowledgeable(ack, reported'.position, reported'.tokens)
              /\ reported'.pending = ack[1].records
  <2>1. CASE ack = << >>
    BY <1>1, <1>2, <2>1
  <2>2. CASE ack # << >>
    <3>1. PICK answered \in Nat : session.mtp /\ Acknowledgeable(ack, answered, gives)
      BY <2>2
    <3>2. PICK accepted \in 0 .. MaximumDrafts, records \in 1 .. MaximumDrafts :
            /\ ack = <<[accepted |-> accepted, records |-> records]>>
            /\ Len(gives) = answered + accepted
      BY <3>1 DEF Acknowledgeable
    <3>3. ack[1].accepted = accepted /\ ack[1].records = records
      BY <3>2
    <3>4. reported'.position = answered /\ reported'.pending = records
      BY <1>1, <2>2, <3>2, <3>3
    <3> QED BY <1>1, <2>2, <3>1, <3>3, <3>4
  <2> QED BY <2>1, <2>2
<1>5. ExecutorTyped'
  <2>1. /\ call' = CallOf(call'.at, call'.method, call'.todo, call'.replay, call'.gives, call'.ack)
        /\ call'.at \in Ats
    BY <1>1 DEF IdleCall, CallOf, Ats
  <2>2. drafts' \in 0 .. MaximumDrafts /\ policy'.maximum_tokens = Context /\ drafts' # 0
    BY <1>1, <1>2 DEF ExecutorTyped
  <2>3. session' \in [status : {"none", "open", "lost"}, mtp : BOOLEAN]
    BY <1>3 DEF ExecutorTyped
  <2>4. reported' \in [tokens : Seq(Values), position : Nat, pending : Nat,
                     state : {"whole", "partial"}]
    BY <1>1, <1>4
  <2> QED BY <1>1, <2>1, <2>2, <2>3, <2>4 DEF ExecutorTyped, Loaded, Ats, CallOf
<1>6. OpenInv'
  <2>1. reported'.tokens = gives /\ reported'.state = "whole" /\ session'.mtp = session.mtp
    BY <1>1, <1>3
  <2>2. Holds(reported.tokens)'
    BY <2>1
  <2> QED BY <1>1, <1>4, <2>1, <2>2 DEF OpenInv
<1>7. ~layers'.transaction_active
  BY DEF Holds, NoBranch
<1>8. IdleInv'
  BY <1>1, <1>3, <1>6, <1>7 DEF IdleInv
<1> QED BY <1>5, <1>8 DEF ExecutorInv

\* A call fails: the session is lost.
LEMMA Failed ==
  ASSUME ExecutorTyped, model = "warm", policy' = policy, OwnersTyped', Settled',
         NEW outcome, AnswerError(outcome)
  PROVE  ExecutorInv'
<1>1. /\ call' = IdleCall /\ pending_ack' = << >>
      /\ session' = [session EXCEPT !.status = "lost"]
      /\ reported' = [reported EXCEPT !.pending = 0, !.state = "partial"]
      /\ model' = "warm" /\ drafts' = drafts
  BY DEF AnswerError
<1>2. session' = [status |-> "lost", mtp |-> session.mtp]
  BY <1>1 DEF ExecutorTyped
<1>3. ExecutorTyped'
  <2>1. /\ call' = CallOf(call'.at, call'.method, call'.todo, call'.replay, call'.gives, call'.ack)
        /\ call'.at \in Ats
    BY <1>1 DEF IdleCall, CallOf, Ats
  <2>2. drafts' \in 0 .. MaximumDrafts /\ policy'.maximum_tokens = Context /\ drafts' # 0
    BY <1>1 DEF ExecutorTyped, Loaded
  <2>3. session' \in [status : {"none", "open", "lost"}, mtp : BOOLEAN]
    BY <1>2 DEF ExecutorTyped
  <2>4. reported' \in [tokens : Seq(Values), position : Nat, pending : Nat,
                     state : {"whole", "partial"}]
    BY <1>1 DEF ExecutorTyped
  <2> QED BY <1>1, <2>1, <2>2, <2>3, <2>4 DEF ExecutorTyped, Loaded, Ats, CallOf
<1>4. IdleInv'
  BY <1>1, <1>2 DEF IdleInv, Settled
<1> QED BY <1>3, <1>4 DEF ExecutorInv

LEMMA FailedFacts ==
  ASSUME ExecutorTyped, NEW outcome, AnswerError(outcome)
  PROVE  /\ session'.mtp = session.mtp /\ reported'.tokens = reported.tokens
BY DEF AnswerError, ExecutorTyped

-----------------------------------------------------------------------------
(* Running the branches *)

LEMMA KeepsRunning ==
  ASSUME NEW done \in Seq(Values), NEW rest \in Seq(Values)
  PROVE  /\ OwnersTyped /\ ExecutorTyped /\ CallInv /\ call.at \in Running
         /\ Progress(done, rest) /\ Phase(done)
         => ExecutorInv
BY DEF ExecutorInv, Running, WorkingInv

LEMMA StillRunning ==
  ASSUME NEW done \in Seq(Values), NEW rest \in Seq(Values)
  PROVE  (/\ OwnersTyped /\ ExecutorTyped /\ CallInv /\ call.at \in Running
          /\ Progress(done, rest) /\ Phase(done)
          => ExecutorInv)'
<1>1. /\ OwnersTyped /\ ExecutorTyped /\ CallInv /\ call.at \in Running
      /\ Progress(done, rest) /\ Phase(done)
      => ExecutorInv
  BY KeepsRunning
<1> QED BY <1>1, PTL

LEMMA PhasesNext ==
  ASSUME NEW done
  PROVE  /\ (call.at = "begin" /\ Holds(done) => Phase(done))'
         /\ (call.at = "restore" /\ InBranch(done) => Phase(done))'
<1>1. call.at = "begin" /\ Holds(done) => Phase(done)
  BY DEF Phase
<1>2. call.at = "restore" /\ InBranch(done) => Phase(done)
  BY DEF Phase
<1>3. (call.at = "begin" /\ Holds(done) => Phase(done))'
  BY <1>1, PTL
<1>4. (call.at = "restore" /\ InBranch(done) => Phase(done))'
  BY <1>2, PTL
<1> QED BY <1>3, <1>4

LEMMA EncodingNext ==
  ASSUME NEW done, NEW first, NEW n, NEW held
  PROVE  (/\ call.at = "encode" /\ InBranch(done) /\ First = first
          /\ n \in 0 .. Len(first.tokens) - 1
          /\ held = done \o SubSeq(first.tokens, 1, n) /\ Owners(held)
          /\ Len(done) + Len(first.tokens) <= policy.maximum_tokens
          => Phase(done))'
<1>1. /\ call.at = "encode" /\ InBranch(done) /\ First = first
      /\ n \in 0 .. Len(first.tokens) - 1
      /\ held = done \o SubSeq(first.tokens, 1, n) /\ Owners(held)
      /\ Len(done) + Len(first.tokens) <= policy.maximum_tokens
      => Phase(done)
  BY DEF Phase
<1> QED BY <1>1, PTL

LEMMA ClosingNext ==
  ASSUME NEW done, NEW first, NEW held
  PROVE  (/\ call.at = (IF first.keep THEN "commit" ELSE "reject")
          /\ InBranch(done) /\ First = first
          /\ held = done \o first.tokens /\ Owners(held)
          => Phase(done))'
<1>1. /\ call.at = (IF first.keep THEN "commit" ELSE "reject")
      /\ InBranch(done) /\ First = first
      /\ held = done \o first.tokens /\ Owners(held)
      => Phase(done)
  BY DEF Phase
<1> QED BY <1>1, PTL

\* Brackets do not matter; under a name, because the provers loop on the equation.
Associates(s, t, u) == (s \o t) \o u = s \o (t \o u)

LEMMA Regroup ==
  ASSUME NEW s \in Seq(Values), NEW t \in Seq(Values), NEW u \in Seq(Values)
  PROVE  Associates(s, t, u)
BY ConcatAssociative DEF Associates

\* A block of which n transitions are encoded.
LEMMA Parts ==
  ASSUME NEW done \in Seq(Values), NEW sequence \in Seq(Values),
         NEW n \in 0 .. Len(sequence) - 1
  PROVE  LET part == done \o SubSeq(sequence, 1, n)
         IN  /\ part \in Seq(Values) /\ Len(part) = Len(done) + n
             /\ sequence[n + 1] \in Values
             /\ Append(part, sequence[n + 1]) = done \o SubSeq(sequence, 1, n + 1)
             /\ n = 0 => part = done
             /\ n = Len(sequence) - 1 => SubSeq(sequence, 1, n + 1) = sequence
<1> DEFINE before == SubSeq(sequence, 1, n)
           value == sequence[n + 1]
           part == done \o before
<1>1. Len(sequence) \in Nat /\ Len(done) \in Nat /\ n \in Nat /\ n + 1 \in 1 .. Len(sequence)
      /\ 1 \in 1 .. Len(sequence)
  BY LenProperties
<1>2. before \in Seq(Values) /\ Len(before) = n /\ value \in Values
  <2>1. \A i \in 1 .. Len(sequence) : sequence[i] \in Values
    BY ElementOfSeq
  <2>2. /\ 1 \in Int /\ n \in Int /\ \A i \in 1 .. n : sequence[i] \in Values
    BY <1>1, <2>1
  <2>3. before \in Seq(Values) /\ Len(before) = IF 1 <= n THEN n - 1 + 1 ELSE 0
    BY <2>2, SubSeqProperties
  <2> QED BY <1>1, <2>1, <2>3
<1>3. SubSeq(sequence, 1, n + 1) = before \o <<value>>
  <2>1. n + 1 \in 1 .. Len(sequence) /\ (n + 1) - 1 = n
    BY <1>1
  <2>2. SubSeq(sequence, 1, n + 1) = SubSeq(sequence, 1, (n + 1) - 1) \o <<sequence[n + 1]>>
    BY <1>1, <2>1, SubSeqRecursiveSecond
  <2> QED BY <2>1, <2>2
<1>4. n = 0 => before = << >>
  BY <1>2, EmptySeq
<1>5. n = Len(sequence) - 1 => SubSeq(sequence, 1, n + 1) = sequence
  <2>1. SubSeq(sequence, 1, Len(sequence)) = sequence
    BY SubSeqFull
  <2>2. n = Len(sequence) - 1 => n + 1 = Len(sequence)
    BY <1>1
  <2> QED BY <2>1, <2>2
<1> HIDE DEF before, value
<1>6. part \in Seq(Values) /\ Len(part) = Len(done) + n
  BY <1>1, <1>2, ConcatProperties
<1>7. Append(part, value) = done \o (before \o <<value>>)
  <2>1. Append(part, value) = part \o <<value>>
    BY <1>2, <1>6, AppendIsConcat
  <2> DEFINE single == <<value>>
  <2>2. single \in Seq(Values)
    BY <1>2, Single
  <2> HIDE DEF single
  <2>3. Associates(done, before, single)
    BY <1>2, <2>2, Regroup
  <2> QED BY <2>1, <2>3 DEF single, Associates
<1>8. n = 0 => part = done
  BY <1>4, ConcatEmptySeq
<1> HIDE DEF part
<1> QED BY <1>2, <1>3, <1>5, <1>6, <1>7, <1>8 DEF before, value, part

LEMMA BeginKeeps ==
  ASSUME MetalInv, ExecutorInv, Begin
  PROVE  ExecutorInv' /\ [Next]_vars
<1>1. /\ call.at = "begin" /\ BeginTransaction(TakesMtp, Len(First.tokens))
      /\ Continue(To("encode"))
  BY DEF Begin, First
<1>2. /\ OwnersTyped /\ ExecutorTyped /\ CallInv /\ WorkingInv
  BY <1>1, IsRunning DEF Running
<1>3. PICK done \in Seq(Values), rest \in Seq(Values) : Progress(done, rest) /\ Phase(done)
  BY <1>2 DEF WorkingInv
<1>4. Holds(done) /\ Consumes(rest)
  BY <1>1, <1>3 DEF Phase, Progress
<1>5. PICK first : first = First
  OBVIOUS
<1>6. first.tokens \in Seq(Values) /\ Len(first.tokens) \in 1 .. Transitions
  BY <1>4, <1>5, FirstBranch
<1>7. session'.mtp = session.mtp
  BY <1>1 DEF Continue
<1>8. PICK width : width = Len(first.tokens)
  OBVIOUS
<1>9. width \in Nat /\ BeginTransaction(TakesMtp, width)
  BY <1>1, <1>5, <1>6, <1>8, LenProperties
<1>10. /\ [Next]_vars /\ policy' = policy /\ OwnersTyped'
       /\ InBranch(done)' /\ Owners(done)'
       /\ Len(done) + width <= policy.maximum_tokens
  BY <1>2, <1>4, <1>7, <1>9, BeginOpens
<1>11. /\ ExecutorTyped' /\ CallInv'
       /\ call'.at = "encode" /\ call'.todo = call.todo
       /\ call'.method = call.method /\ call'.gives = call.gives
       /\ reported' = reported
  BY <1>1, <1>2, <1>10, Goes DEF Ats
<1>12. First' = first /\ Progress(done, rest)'
  BY <1>3, <1>5, <1>11, SameBranches
<1>13. Phase(done)'
  <2>1. 0 \in 0 .. Len(first.tokens) - 1
    BY <1>6
  <2>2. done = done \o SubSeq(first.tokens, 1, 0)
    BY <1>6, <2>1, Parts
  <2>3. Len(done) + Len(first.tokens) <= policy'.maximum_tokens
    BY <1>8, <1>10
  <2> QED BY <1>10, <1>11, <1>12, <2>1, <2>2, <2>3, EncodingNext
<1>14. call'.at \in Running
  BY <1>11 DEF Running
<1> QED BY <1>10, <1>11, <1>12, <1>13, <1>14, StillRunning

LEMMA BeginStopsKeeps ==
  ASSUME MetalInv, ExecutorInv, BeginStops
  PROVE  ExecutorInv' /\ [Next]_vars
<1>1. call.at = "begin" /\ BeginFails /\ Continue(To("stop"))
  BY DEF BeginStops
<1>2. /\ OwnersTyped /\ ExecutorTyped /\ CallInv /\ WorkingInv
  BY <1>1, IsRunning DEF Running
<1>3. PICK done \in Seq(Values), rest \in Seq(Values) : Progress(done, rest) /\ Phase(done)
  BY <1>2 DEF WorkingInv
<1>4. Holds(done) /\ (call.method = "decode" => IsPrefix(reported.tokens, done))
  BY <1>1, <1>3 DEF Phase, Progress
<1>5. session'.mtp = session.mtp
  BY <1>1 DEF Continue
<1>6. /\ UNCHANGED vars /\ OwnersTyped' /\ ~layers'.transaction_active
      /\ Holds(done)' \/ layers'.poisoned
  BY <1>1, <1>2, <1>4, <1>5, BeginUndone
<1>7. [Next]_vars /\ policy' = policy
  BY <1>6 DEF vars
<1>8. /\ ExecutorTyped' /\ CallInv' /\ call'.at = "stop" /\ call'.method = call.method
      /\ reported' = reported
  BY <1>1, <1>2, <1>7, Goes DEF Ats
<1>9. call'.method = "decode" => Settled'
  <2>1. call'.method = "decode" => IsPrefix(reported'.tokens, done)
    BY <1>4, <1>8
  <2> QED BY <1>6, <2>1, SettledNext, MarkedNext
<1> QED BY <1>6, <1>7, <1>8, <1>9 DEF ExecutorInv

\* The transition that is encoded next.
LEMMA NextTransition ==
  ASSUME MetalInv, ExecutorInv, call.at = "encode"
  PROVE  \E done, rest \in Seq(Values) : \E n \in 0 .. Len(First.tokens) - 1 :
            /\ Progress(done, rest) /\ InBranch(done)
            /\ Owners(done \o SubSeq(First.tokens, 1, n))
            /\ HasPlace(done, done \o SubSeq(First.tokens, 1, n))
            /\ Len(done) + Len(First.tokens) <= policy.maximum_tokens
            /\ First.tokens \in Seq(Values)
            /\ Encoded = n /\ n \in Nat
            /\ Len(First.tokens) - n - 1 \in 0 .. MaximumDrafts
            /\ ~poisoned
<1>1. CallInv /\ WorkingInv /\ policy.maximum_tokens = Context
  BY IsRunning DEF Running
<1>2. PICK done \in Seq(Values), rest \in Seq(Values) : Progress(done, rest) /\ Phase(done)
  BY <1>1 DEF WorkingInv
<1>3. /\ InBranch(done) /\ Len(done) + Len(First.tokens) <= policy.maximum_tokens
      /\ \E n \in 0 .. Len(First.tokens) - 1 : Owners(done \o SubSeq(First.tokens, 1, n))
  BY <1>2 DEF Phase
<1>4. PICK n \in 0 .. Len(First.tokens) - 1 : Owners(done \o SubSeq(First.tokens, 1, n))
  BY <1>3
<1>5. PICK tokensOf : tokensOf = First.tokens
  OBVIOUS
<1>6. PICK part : part = done \o SubSeq(tokensOf, 1, n)
  OBVIOUS
<1>7. /\ tokensOf \in Seq(Values) /\ Len(tokensOf) \in 1 .. Transitions
      /\ call.method # "decode" => Len(tokensOf) = 1
  BY <1>2, <1>5, FirstBranch DEF Progress
<1>8. /\ part \in Seq(Values) /\ Len(part) = Len(done) + n
      /\ n = 0 => part = done
  BY <1>4, <1>5, <1>6, <1>7, Parts
<1>9. /\ Owners(part) /\ tokens = Len(part)
  BY <1>4, <1>5, <1>6, Count
<1>10. checkpoint[1].tokens = Len(done) /\ Len(done) \in Nat
  <2>1. checkpoint # << >> /\ Base = done
    BY <1>3 DEF InBranch
  <2> QED BY <2>1, BaseLength
<1>11. n \in Nat /\ n <= Len(tokensOf) - 1 /\ Len(tokensOf) \in Nat /\ MaximumDrafts \in Nat
  BY <1>4, <1>5, <1>7, DraftsAssumption DEF Transitions
<1>12. Encoded = n
  BY <1>8, <1>9, <1>10, <1>11 DEF Encoded
<1>13. Len(tokensOf) - n - 1 \in 0 .. MaximumDrafts
  BY <1>7, <1>11 DEF Transitions
<1>14. tokens < policy.maximum_tokens
  <2>1. Len(done) + Len(tokensOf) <= policy.maximum_tokens /\ policy.maximum_tokens \in Nat
    BY <1>3, <1>5, Numbers
  <2> QED BY <1>8, <1>9, <1>10, <1>11, <2>1
<1>15. HasPlace(done, part)
  <2>1. CASE JointFrom(done)
    <3>1. done # << >> /\ Len(part) # 0
      <4>1. Len(done) # 0 /\ done # << >>
        BY <2>1, EmptySeq DEF JointFrom
      <4> QED BY <1>8, <1>10, <1>11, <4>1
    <3>2. part # << >>
      BY <1>8, <3>1, EmptySeq
    <3> QED BY <1>14, <2>1, <3>2 DEF HasPlace
  <2>2. CASE ~JointFrom(done)
    <3>1. ASSUME session.mtp PROVE part = << >>
      <4>1. done = << >>
        BY <2>2, <3>1 DEF JointFrom
      <4>2. call.method # "decode"
        <5>1. ASSUME call.method = "decode" PROVE FALSE
          <6>1. /\ IsPrefix(reported.tokens, done) /\ reported.tokens # << >>
            BY <1>1, <1>2, <5>1 DEF Progress, CallInv
          <6>2. reported.tokens \in Seq(Values)
            BY IsRunning DEF Running, ExecutorTyped
          <6>3. done # << >>
            BY <6>1, <6>2, PrefixOfNothing
          <6> QED BY <4>1, <6>3
        <5> QED BY <5>1
      <4>3. n = 0
        <5>1. Len(tokensOf) = 1
          BY <1>7, <4>2
        <5> QED BY ONLY <1>11, <5>1
      <4> QED BY <1>8, <4>1, <4>3
    <3> QED BY <1>14, <2>2, <3>1 DEF HasPlace
  <2> QED BY <2>1, <2>2
<1>16. ~poisoned
  BY <1>9 DEF Owners, Usable
<1> QED BY <1>2, <1>3, <1>4, <1>5, <1>6, <1>7, <1>9, <1>11, <1>12, <1>13, <1>15, <1>16

LEMMA EncodeKeeps ==
  ASSUME MetalInv, ExecutorInv, Encode
  PROVE  ExecutorInv' /\ [Next]_vars
<1>1. call.at = "encode"
  BY DEF Encode
<1>2. /\ OwnersTyped /\ ExecutorTyped /\ CallInv
  BY <1>1, IsRunning DEF Running
<1>3. PICK first : first = First
  OBVIOUS
<1>4. PICK done \in Seq(Values), rest \in Seq(Values), n \in 0 .. Len(first.tokens) - 1 :
            /\ Progress(done, rest) /\ InBranch(done)
            /\ Owners(done \o SubSeq(first.tokens, 1, n))
            /\ HasPlace(done, done \o SubSeq(first.tokens, 1, n))
            /\ Len(done) + Len(first.tokens) <= policy.maximum_tokens
            /\ first.tokens \in Seq(Values)
            /\ Encoded = n /\ n \in Nat
            /\ Len(first.tokens) - n - 1 \in 0 .. MaximumDrafts
            /\ ~poisoned
  BY <1>1, <1>3, NextTransition
<1>5. PICK held : held = done \o SubSeq(first.tokens, 1, n)
  OBVIOUS
<1>6. PICK value : value = first.tokens[n + 1]
  OBVIOUS
<1>7. PICK following : following = Len(first.tokens) - n - 1
  OBVIOUS
<1>8. PICK more : more = Append(held, value)
  OBVIOUS
<1>9. /\ value \in Values /\ more = done \o SubSeq(first.tokens, 1, n + 1)
      /\ n = Len(first.tokens) - 1 => SubSeq(first.tokens, 1, n + 1) = first.tokens
  BY <1>4, <1>5, <1>6, <1>8, Parts
<1>10. /\ Transition(Joint, value, following)
       /\ Continue(IF following > 0 THEN call
                   ELSE To(IF first.keep THEN "commit" ELSE "reject"))
  BY <1>3, <1>4, <1>6, <1>7 DEF Encode, First
<1>11. session'.mtp = session.mtp
  BY <1>10 DEF Continue
<1>12. /\ [Next]_vars /\ policy' = policy /\ OwnersTyped'
       /\ InBranch(done)' /\ Owners(more)'
  <2>1. following \in 0 .. MaximumDrafts /\ Owners(held) /\ HasPlace(done, held)
    BY <1>4, <1>5, <1>7
  <2>2. /\ [Next]_vars /\ policy' = policy /\ OwnersTyped'
        /\ InBranch(done)' /\ Owners(Append(held, value))'
    BY <1>2, <1>4, <1>9, <1>10, <1>11, <2>1, TransitionAdvances
  <2> QED BY <1>8, <2>2
<1>13. Len(first.tokens) \in Nat
  BY <1>4, LenProperties
<1>14. CASE following > 0
  <2>1. Continue(call)
    BY <1>10, <1>14
  <2>2. /\ ExecutorTyped' /\ CallInv' /\ call' = call /\ reported' = reported
    <3>1. /\ call.at \in Ats
          /\ call = CallOf(call.at, call.method, call.todo, call.replay, call.gives, call.ack)
      BY <1>2 DEF ExecutorTyped, Ats
    <3>2. PICK step : step = call
      OBVIOUS
    <3> QED BY <1>2, <1>12, <2>1, <3>1, <3>2, Continued
  <2>3. First' = first /\ Progress(done, rest)'
    BY <1>3, <1>4, <2>2, SameBranches
  <2>4. n + 1 \in 0 .. Len(first.tokens) - 1
    BY <1>4, <1>7, <1>13, <1>14
  <2>5. Phase(done)'
    <3>1. call'.at = "encode"
      BY <1>1, <2>2
    <3>2. Len(done) + Len(first.tokens) <= policy'.maximum_tokens
      BY <1>4, <1>12
    <3> QED BY <1>9, <1>12, <2>3, <2>4, <3>1, <3>2, EncodingNext
  <2>6. call'.at \in Running
    BY <1>1, <2>2 DEF Running
  <2> QED BY <1>12, <2>2, <2>3, <2>5, <2>6, StillRunning
<1>15. CASE ~(following > 0)
  <2>1. PICK at : at = IF first.keep THEN "commit" ELSE "reject"
    OBVIOUS
  <2>2. at \in Ats /\ at \in Running /\ Continue(To(at))
    BY <1>10, <1>15, <2>1 DEF Ats, Running
  <2>3. /\ ExecutorTyped' /\ CallInv'
        /\ call'.at = at /\ call'.todo = call.todo
        /\ call'.method = call.method /\ call'.gives = call.gives
        /\ reported' = reported
    BY <1>2, <1>12, <2>2, Goes
  <2>4. First' = first /\ Progress(done, rest)'
    BY <1>3, <1>4, <2>3, SameBranches
  <2>5. more = done \o first.tokens
    <3>1. n = Len(first.tokens) - 1
      BY <1>4, <1>7, <1>13, <1>15
    <3> QED BY <1>9, <3>1
  <2>6. Phase(done)'
    BY <1>12, <2>1, <2>3, <2>4, <2>5, ClosingNext
  <2> QED BY <1>12, <2>2, <2>3, <2>4, <2>6, StillRunning
<1> QED BY <1>14, <1>15

\* What goes to the rollback, still in the branch.
LEMMA GoesToRestore ==
  ASSUME OwnersTyped', ExecutorTyped, CallInv, policy' = policy, Continue(To("restore")),
         NEW done \in Seq(Values), NEW rest \in Seq(Values),
         Progress(done, rest), InBranch(done)'
  PROVE  ExecutorInv'
<1>1. /\ ExecutorTyped' /\ CallInv'
      /\ call'.at = "restore" /\ call'.todo = call.todo
      /\ call'.method = call.method /\ call'.gives = call.gives
      /\ reported' = reported
  BY Goes DEF Ats
<1>2. Progress(done, rest)'
  BY <1>1, SameBranches
<1>3. Phase(done)' /\ call'.at \in Running
  BY <1>1, PhasesNext DEF Running
<1> QED BY <1>1, <1>2, <1>3, StillRunning

LEMMA EncodeStopsKeeps ==
  ASSUME MetalInv, ExecutorInv, EncodeStops
  PROVE  ExecutorInv' /\ [Next]_vars
<1>1. call.at = "encode" /\ Continue(To("restore"))
  BY DEF EncodeStops
<1>2. /\ OwnersTyped /\ ExecutorTyped /\ CallInv
  BY <1>1, IsRunning DEF Running
<1>3. PICK first : first = First
  OBVIOUS
<1>4. PICK done \in Seq(Values), rest \in Seq(Values), n \in 0 .. Len(first.tokens) - 1 :
            /\ Progress(done, rest) /\ InBranch(done)
            /\ HasPlace(done, done \o SubSeq(first.tokens, 1, n))
            /\ first.tokens \in Seq(Values)
            /\ Encoded = n /\ ~poisoned
  BY <1>1, <1>3, NextTransition
<1>5. PICK value : value = first.tokens[n + 1]
  OBVIOUS
<1>6. value \in Values
  BY <1>4, <1>5, Parts
<1>7. TransitionFails(Joint, value)
  BY <1>3, <1>4, <1>5 DEF EncodeStops, First
<1>8. tokens < policy.maximum_tokens
  BY <1>4 DEF HasPlace
<1>9. session'.mtp = session.mtp
  BY <1>1 DEF Continue
<1>10. [Next]_vars /\ policy' = policy /\ OwnersTyped' /\ InBranch(done)'
  BY <1>2, <1>4, <1>6, <1>7, <1>8, <1>9, TransitionBreaks
<1> QED BY <1>1, <1>2, <1>4, <1>10, GoesToRestore

LEMMA CompletionStopsKeeps ==
  ASSUME MetalInv, ExecutorInv, CompletionStops
  PROVE  ExecutorInv' /\ [Next]_vars
<1>1. call.at \in {"commit", "reject"} /\ OwnersUnchanged /\ Continue(To("restore"))
  BY DEF CompletionStops
<1>2. /\ OwnersTyped /\ ExecutorTyped /\ CallInv /\ WorkingInv
  BY <1>1, IsRunning DEF Running
<1>3. PICK done \in Seq(Values), rest \in Seq(Values) : Progress(done, rest) /\ Phase(done)
  BY <1>2 DEF WorkingInv
<1>4. InBranch(done)
  BY <1>1, <1>3 DEF Phase
<1>5. session'.mtp = session.mtp
  BY <1>1 DEF Continue
<1>6. [Next]_vars /\ policy' = policy /\ OwnersTyped' /\ InBranch(done)'
  BY <1>1, <1>2, <1>4, <1>5, OwnersStay
<1> QED BY <1>1, <1>2, <1>3, <1>6, GoesToRestore

-----------------------------------------------------------------------------
(* Closing a branch *)

LEMMA GoesToStop ==
  ASSUME OwnersTyped', ExecutorTyped, CallInv, policy' = policy, Continue(To("stop")),
         ~layers'.transaction_active, call.method = "decode" => Settled'
  PROVE  ExecutorInv'
<1>1. /\ ExecutorTyped' /\ CallInv' /\ call'.at = "stop" /\ call'.method = call.method
  BY Goes DEF Ats
<1> QED BY <1>1 DEF ExecutorInv

\* The tokens of a kept branch are held by all owners.
LEMMA BranchIsKept ==
  ASSUME MetalInv, ExecutorInv, call.at = "commit", CommitTransaction,
         session'.mtp = session.mtp
  PROVE  \E done, rest, held \in Seq(Values) :
            /\ Progress(done, rest) /\ First.tokens \in Seq(Values)
            /\ held = done \o First.tokens /\ First.keep
            /\ Holds(held)' /\ tokens = Len(held)
            /\ call.method = "decode" => IsPrefix(reported.tokens, held)
            /\ [Next]_vars /\ policy' = policy /\ OwnersTyped'
<1>1. /\ OwnersTyped /\ ExecutorTyped /\ CallInv /\ WorkingInv
  BY IsRunning DEF Running
<1>2. PICK done \in Seq(Values), rest \in Seq(Values) : Progress(done, rest) /\ Phase(done)
  BY <1>1 DEF WorkingInv
<1>3. PICK first : first = First
  OBVIOUS
<1>4. PICK held : held = done \o first.tokens
  OBVIOUS
<1>5. first.tokens \in Seq(Values) /\ first.keep \in BOOLEAN
  BY <1>2, <1>3, FirstBranch DEF Progress
<1>6. InBranch(done) /\ Owners(held) /\ first.keep
  BY <1>2, <1>3, <1>4, <1>5 DEF Phase
<1>7. held \in Seq(Values) /\ tokens = Len(held)
  BY <1>6, Count DEF Owners
<1>8. [Next]_vars /\ policy' = policy /\ OwnersTyped' /\ Holds(held)'
  BY <1>1, <1>6, CommitKeeps
<1>9. call.method = "decode" => IsPrefix(reported.tokens, held)
  <2>1. call.method = "decode" => IsPrefix(reported.tokens, done)
    BY <1>2 DEF Progress
  <2>2. reported.tokens \in Seq(Values)
    BY <1>1 DEF ExecutorTyped
  <2> QED BY <1>4, <1>5, <2>1, <2>2, PrefixFacts
<1> QED BY <1>2, <1>3, <1>4, <1>5, <1>6, <1>7, <1>8, <1>9

LEMMA GivesIsTyped ==
  ASSUME ExecutorTyped, CallInv
  PROVE  /\ call.gives \in Seq(Values) /\ call.gives # << >>
         /\ call.method = "decode" => IsPrefix(reported.tokens, call.gives)
         /\ Drafted => \E answered \in Nat : Acknowledgeable(call.ack, answered, call.gives)
<1>1. reported.tokens \in Seq(Values) /\ call.gives \in Seq(Values)
  BY DEF ExecutorTyped, CallInv
<1>2. CASE call.method = "prefill"
  BY <1>1, <1>2 DEF CallInv, Drafted
<1>3. CASE call.method = "decode"
  <2>1. IsPrefix(reported.tokens, call.gives) /\ reported.tokens # << >>
    BY <1>3 DEF CallInv
  <2>2. call.gives # << >>
    BY <1>1, <2>1, PrefixOfNothing
  <2>3. session.mtp => Acknowledgeable(call.ack, Len(reported.tokens) + 1, call.gives)
    BY <1>3 DEF CallInv
  <2>4. Len(reported.tokens) + 1 \in Nat
    BY <1>1, LenProperties
  <2> QED BY <1>1, <2>1, <2>2, <2>3, <2>4 DEF Drafted
<1> QED BY <1>2, <1>3 DEF CallInv

\* What a commit does next.
LEMMA CommitSplits ==
  ASSUME Commit
  PROVE  /\ call.at = "commit" /\ CommitTransaction
         /\ \/ /\ Len(call.todo) > 1
               /\ Continue([call EXCEPT !.todo = Tail(@), !.at = "begin"])
            \/ ~(Len(call.todo) > 1) /\ Drafted /\ AnswerOk(call.gives, call.ack)
            \/ ~(Len(call.todo) > 1) /\ ~Drafted /\ Continue(To("select"))
BY DEF Commit, Drafted, Speculates

LEMMA SessionStays ==
  ASSUME ExecutorTyped
  PROVE  /\ \A step : Continue(step) => session'.mtp = session.mtp
         /\ \A gives, ack : AnswerOk(gives, ack) => session'.mtp = session.mtp
         /\ \A outcome : AnswerError(outcome) =>
               session'.mtp = session.mtp /\ reported'.tokens = reported.tokens
BY DEF ExecutorTyped, Continue, AnswerOk, AnswerError

LEMMA CommitStepKeeps ==
  ASSUME MetalInv, ExecutorInv, Commit
  PROVE  ExecutorInv' /\ [Next]_vars
<1>1. call.at = "commit" /\ CommitTransaction
  BY CommitSplits
<1>2. /\ OwnersTyped /\ ExecutorTyped /\ CallInv /\ model = "warm"
  BY <1>1, IsRunning DEF Running
<1>3. session'.mtp = session.mtp
  BY <1>2, CommitSplits, SessionStays
<1>4. PICK first : first = First
  OBVIOUS
<1>5. PICK done \in Seq(Values), rest \in Seq(Values), held \in Seq(Values) :
            /\ Progress(done, rest) /\ first.tokens \in Seq(Values)
            /\ held = done \o first.tokens /\ First.keep
            /\ Holds(held)' /\ tokens = Len(held)
            /\ call.method = "decode" => IsPrefix(reported.tokens, held)
            /\ [Next]_vars /\ policy' = policy /\ OwnersTyped'
  BY <1>1, <1>3, <1>4, BranchIsKept
<1>6. PICK later \in Seq(Values) :
            /\ rest = first.tokens \o later
            /\ Len(call.todo) > 1 <=> later # << >>
            /\ later # << >> => Tail(call.todo) = OneByOne(later)
  BY <1>4, <1>5, FirstBranch DEF Progress
<1>7. call.gives = held \o later
  <2>1. call.gives = done \o (first.tokens \o later)
    BY <1>5, <1>6 DEF Progress
  <2>2. first.tokens \in Seq(Values) /\ done \in Seq(Values) /\ later \in Seq(Values)
    BY <1>5
  <2>3. held = done \o first.tokens
    BY <1>5, Zenon
  <2>4. Associates(done, first.tokens, later)
    BY ONLY <2>2, Regroup
  <2> QED BY ONLY <2>1, <2>3, <2>4, Zenon DEF Associates
<1>8. ASSUME ~(Len(call.todo) > 1) PROVE call.gives = held
  BY <1>5, <1>6, <1>7, <1>8, ConcatEmptySeq
<1>9. CASE Len(call.todo) > 1 /\ Continue([call EXCEPT !.todo = Tail(@), !.at = "begin"])
  <2>1. later # << >> /\ Tail(call.todo) = OneByOne(later)
    BY <1>6, <1>9
  <2>2. PICK step : step = [call EXCEPT !.todo = Tail(@), !.at = "begin"]
    OBVIOUS
  <2>3. call = CallOf(call.at, call.method, call.todo, call.replay, call.gives, call.ack)
    BY <1>2 DEF ExecutorTyped
  <2>4. step = CallOf("begin", call.method, OneByOne(later), call.replay, call.gives, call.ack)
    BY <2>1, <2>2, <2>3 DEF CallOf
  <2>5. /\ step.at = "begin" /\ step.method = call.method /\ step.todo = OneByOne(later)
        /\ step.replay = call.replay /\ step.gives = call.gives /\ step.ack = call.ack
    BY <2>4 DEF CallOf
  <2>6. step = CallOf(step.at, step.method, step.todo, step.replay, step.gives, step.ack)
    BY <2>4, <2>5
  <2>7. ExecutorTyped' /\ CallInv' /\ call' = step /\ reported' = reported
    BY <1>2, <1>5, <1>9, <2>2, <2>5, <2>6, Continued DEF Ats
  <2>8. Progress(held, later)'
    BY <1>5, <1>7, <2>1, <2>5, <2>7 DEF Progress, Consumes
  <2>9. Phase(held)' /\ call'.at \in Running
    BY <1>5, <2>5, <2>7, PhasesNext DEF Running
  <2> QED BY <1>5, <2>7, <2>8, <2>9, StillRunning
<1>10. CASE ~(Len(call.todo) > 1) /\ Drafted /\ AnswerOk(call.gives, call.ack)
  <2>1. PICK ack : ack = call.ack
    OBVIOUS
  <2>2. session.mtp /\ \E answered \in Nat : Acknowledgeable(ack, answered, held)
    BY <1>2, <1>8, <1>10, <2>1, GivesIsTyped DEF Drafted
  <2>3. AnswerOk(held, ack) /\ held # << >>
    BY <1>2, <1>8, <1>10, <2>1, GivesIsTyped
  <2>4. ExecutorInv'
    BY <1>2, <1>5, <2>2, <2>3, Answered
  <2> QED BY <1>5, <2>4
<1>11. CASE ~(Len(call.todo) > 1) /\ ~Drafted /\ Continue(To("select"))
  <2>1. /\ ExecutorTyped' /\ CallInv' /\ call'.at = "select"
        /\ call'.method = call.method /\ call'.gives = call.gives /\ session' = session
    BY <1>2, <1>5, <1>11, Goes DEF Ats
  <2>2. Holds(call.gives)' /\ ~Drafted'
    BY <1>5, <1>8, <1>11, <2>1 DEF Drafted
  <2> QED BY <1>5, <2>1, <2>2 DEF ExecutorInv
<1> QED BY <1>9, <1>10, <1>11, CommitSplits

LEMMA ReplayDivergesKeeps ==
  ASSUME MetalInv, ExecutorInv, ReplayDiverges
  PROVE  ExecutorInv' /\ [Next]_vars
<1>1. call.at = "commit" /\ CommitTransaction /\ Continue(To("stop"))
  BY DEF ReplayDiverges
<1>2. /\ OwnersTyped /\ ExecutorTyped /\ CallInv
  BY <1>1, IsRunning DEF Running
<1>3. session'.mtp = session.mtp /\ reported' = reported
  BY <1>1 DEF Continue
<1>4. PICK held \in Seq(Values) :
            /\ Holds(held)'
            /\ call.method = "decode" => IsPrefix(reported.tokens, held)
            /\ [Next]_vars /\ policy' = policy /\ OwnersTyped'
  BY <1>1, <1>3, BranchIsKept
<1>5. ~layers'.transaction_active
  BY <1>4 DEF Holds, NoBranch
<1>6. call.method = "decode" => Settled'
  BY <1>3, <1>4, SettledNext
<1> QED BY <1>1, <1>2, <1>4, <1>5, <1>6, GoesToStop

LEMMA RejectKeeps ==
  ASSUME MetalInv, ExecutorInv, Reject
  PROVE  ExecutorInv' /\ [Next]_vars
<1>1. call.at = "reject" /\ RestoreTransaction /\ Continue(Rest)
  BY DEF Reject
<1>2. /\ OwnersTyped /\ ExecutorTyped /\ CallInv /\ WorkingInv
  BY <1>1, IsRunning DEF Running
<1>3. session'.mtp = session.mtp
  BY <1>1 DEF Continue
<1>4. PICK done \in Seq(Values), rest \in Seq(Values) : Progress(done, rest) /\ Phase(done)
  BY <1>2 DEF WorkingInv
<1>5. InBranch(done) /\ ~First.keep
  <2>1. First.keep \in BOOLEAN
    BY <1>4, FirstBranch DEF Progress
  <2> QED BY <1>1, <1>4, <2>1 DEF Phase
<1>6. call.method = "decode" /\ Tail(call.todo) = OneByOne(rest)
  BY <1>4, <1>5, FirstBranch DEF Progress
<1>7. done # << >>
  <2>1. /\ IsPrefix(reported.tokens, done) /\ reported.tokens # << >>
        /\ reported.tokens \in Seq(Values)
    BY <1>2, <1>4, <1>6 DEF Progress, CallInv, ExecutorTyped
  <2> QED BY <2>1, PrefixOfNothing
<1>8. [Next]_vars /\ policy' = policy /\ OwnersTyped' /\ Holds(done)'
  BY <1>1, <1>2, <1>3, <1>5, <1>7, RestoreTakesBack
<1>9. PICK step : step = Rest
  OBVIOUS
<1>10. step = CallOf("begin", call.method, OneByOne(rest), TRUE, call.gives, call.ack)
  <2>1. call = CallOf(call.at, call.method, call.todo, call.replay, call.gives, call.ack)
    BY <1>2 DEF ExecutorTyped
  <2> QED BY <1>6, <1>9, <2>1 DEF CallOf, Rest
<1>11. /\ step.at = "begin" /\ step.method = call.method /\ step.todo = OneByOne(rest)
       /\ step.replay = TRUE /\ step.gives = call.gives /\ step.ack = call.ack
  BY <1>10 DEF CallOf
<1>12. step = CallOf(step.at, step.method, step.todo, step.replay, step.gives, step.ack)
  BY <1>10, <1>11
<1>13. ExecutorTyped' /\ CallInv' /\ call' = step /\ reported' = reported
  BY <1>1, <1>2, <1>8, <1>9, <1>11, <1>12, Continued DEF Ats
<1>14. Progress(done, rest)'
  BY <1>4, <1>11, <1>13 DEF Progress, Consumes
<1>15. Phase(done)' /\ call'.at \in Running
  BY <1>8, <1>11, <1>13, PhasesNext DEF Running
<1> QED BY <1>8, <1>13, <1>14, <1>15, StillRunning

LEMMA RestoreKeeps ==
  ASSUME MetalInv, ExecutorInv, Restore
  PROVE  ExecutorInv' /\ [Next]_vars
<1>1. /\ call.at \in {"restore", "reject"}
      /\ RestoreTransaction \/ RestoreIncomplete
      /\ Continue(To("stop"))
  BY DEF Restore
<1>2. /\ OwnersTyped /\ ExecutorTyped /\ CallInv /\ WorkingInv
  BY <1>1, IsRunning DEF Running
<1>3. session'.mtp = session.mtp /\ reported' = reported
  BY <1>1 DEF Continue
<1>4. PICK done \in Seq(Values), rest \in Seq(Values) : Progress(done, rest) /\ Phase(done)
  BY <1>2 DEF WorkingInv
<1>5. InBranch(done)
  BY <1>1, <1>4 DEF Phase
<1>6. ASSUME call.method = "decode"
      PROVE  IsPrefix(reported.tokens, done) /\ done # << >>
  <2>1. /\ IsPrefix(reported.tokens, done) /\ reported.tokens # << >>
        /\ reported.tokens \in Seq(Values)
    BY <1>2, <1>4, <1>6 DEF Progress, CallInv, ExecutorTyped
  <2> QED BY <2>1, PrefixOfNothing
<1>7. /\ [Next]_vars /\ policy' = policy /\ OwnersTyped' /\ ~layers'.transaction_active
      /\ call.method = "decode" => Settled'
  <2>1. CASE RestoreTransaction
    <3>1. /\ [Next]_vars /\ policy' = policy /\ OwnersTyped' /\ ~layers'.transaction_active
          /\ done # << >> => Holds(done)'
      BY <1>2, <1>3, <1>5, <2>1, RestoreTakesBack
    <3>2. call.method = "decode" => Settled'
      BY <1>3, <1>6, <3>1, SettledNext
    <3> QED BY <3>1, <3>2
  <2>2. CASE RestoreIncomplete
    <3>1. /\ [Next]_vars /\ policy' = policy /\ OwnersTyped' /\ ~layers'.transaction_active
          /\ layers'.poisoned \/ hidden'.checkpoint # << >>
      BY <1>2, <1>5, <2>2, RestoreLeavesAMark
    <3>2. Settled'
      BY <3>1, MarkedNext
    <3> QED BY <3>1, <3>2
  <2> QED BY <1>1, <2>1, <2>2
<1> QED BY <1>1, <1>2, <1>7, GoesToStop

LEMMA SelectKeeps ==
  ASSUME MetalInv, ExecutorInv, Select
  PROVE  ExecutorInv' /\ [Next]_vars
<1>1. /\ call.at = "select" /\ OwnersUnchanged
      /\ AnswerOk(call.gives, << >>) \/ Continue(To("stop"))
  BY DEF Select
<1>2. /\ OwnersTyped /\ ExecutorTyped /\ CallInv /\ Holds(call.gives) /\ model = "warm"
  BY <1>1 DEF ExecutorInv, IdleInv, IdleCall, CallInv
<1>3. session'.mtp = session.mtp
  BY <1>1, <1>2, SessionStays
<1>4. PICK gives : gives = call.gives
  OBVIOUS
<1>5. [Next]_vars /\ policy' = policy /\ OwnersTyped' /\ Holds(gives)'
  BY <1>1, <1>2, <1>3, <1>4, OwnersStay
<1>6. /\ gives \in Seq(Values) /\ gives # << >>
      /\ call.method = "decode" => IsPrefix(reported.tokens, gives)
  BY <1>2, <1>4, GivesIsTyped
<1>7. CASE AnswerOk(call.gives, << >>)
  <2>1. AnswerOk(gives, << >>)
    BY <1>4, <1>7
  <2>2. tokens = Len(gives)
    BY <1>2, <1>4, Count DEF Holds
  <2> QED BY <1>2, <1>5, <1>6, <2>1, <2>2, Answered
<1>8. CASE Continue(To("stop"))
  <2>1. reported' = reported
    BY <1>8 DEF Continue
  <2>2. call.method = "decode" => Settled'
    BY <1>5, <1>6, <2>1, SettledNext
  <2>3. ~layers'.transaction_active
    BY <1>5 DEF Holds, NoBranch
  <2> QED BY <1>2, <1>5, <1>8, <2>2, <2>3, GoesToStop
<1> QED BY <1>1, <1>7, <1>8

LEMMA StopKeeps ==
  ASSUME MetalInv, ExecutorInv, Stop
  PROVE  ExecutorInv' /\ [Next]_vars
<1>1. /\ call.at = "stop"
      /\ IF call.method = "prefill" THEN ResetTransaction
         ELSE IF call.replay THEN PoisonTransaction
         ELSE OwnersUnchanged
      /\ AnswerError("error")
  BY DEF Stop
<1>2. /\ OwnersTyped /\ ExecutorTyped /\ CallInv /\ model = "warm"
      /\ ~layers.transaction_active /\ (call.method = "decode" => Settled)
  BY <1>1 DEF ExecutorInv, IdleInv, IdleCall, CallInv
<1>3. session'.mtp = session.mtp /\ reported'.tokens = reported.tokens
  BY <1>1, <1>2, FailedFacts
<1>4. [Next]_vars /\ policy' = policy /\ OwnersTyped' /\ Settled'
  <2>1. CASE call.method = "prefill"
    <3>1. [Next]_vars /\ policy' = policy /\ OwnersTyped' /\ Holds(<< >>)'
      BY <1>1, <1>2, <2>1, ResetEmpties
    <3> QED BY <3>1, SettledNext
  <2>2. CASE call.method # "prefill" /\ call.replay
    <3>1. /\ UNCHANGED vars /\ OwnersTyped' /\ layers'.poisoned
          /\ layers'.transaction_active = layers.transaction_active
      BY <1>1, <1>2, <2>2, PoisonMarks
    <3>2. Settled'
      BY <1>2, <3>1, MarkedNext
    <3> QED BY <3>1, <3>2 DEF vars
  <2>3. CASE call.method # "prefill" /\ ~call.replay
    <3>1. OwnersUnchanged /\ call.method = "decode"
      BY <1>1, <1>2, <2>3 DEF CallInv
    <3> QED BY <1>2, <1>3, <3>1, OwnersStay, SettledStays
  <2> QED BY <2>1, <2>2, <2>3
<1> QED BY <1>1, <1>2, <1>4, Failed

-----------------------------------------------------------------------------
(* Prefill, decode and acknowledgement *)

LEMMA OneByOneTodo ==
  ASSUME NEW rest \in Seq(Values), rest # << >>, call'.todo = OneByOne(rest)
  PROVE  Consumes(rest)'
BY DEF Consumes

LEMMA PrefillKeeps ==
  ASSUME MetalInv, ExecutorInv, Prefill
  PROVE  ExecutorInv' /\ [Next]_vars
<1>1. /\ Idle /\ model = "warm" /\ session.status = "none"
      /\ UNCHANGED <<model, drafts, allocations, pending_ack, result, reported>>
  BY DEF Prefill
<1>2. PICK prompt \in Prompts, with_mtp \in BOOLEAN :
          /\ ResetTransaction
          /\ call' = [IdleCall EXCEPT !.at = "begin", !.method = "prefill",
                                      !.todo = OneByOne(prompt), !.gives = prompt]
          /\ session' = [session EXCEPT !.mtp = with_mtp]
  BY DEF Prefill
<1>3. OwnersTyped /\ ExecutorTyped /\ IdleInv
  BY <1>1, IsIdle
<1>4. prompt \in Seq(Values) /\ prompt # << >>
  BY MetalExecutorAssumption
<1>5. [Next]_vars /\ policy' = policy /\ OwnersTyped' /\ Holds(<< >>)'
  BY <1>2, <1>3, ResetEmpties
<1>6. call' = CallOf("begin", "prefill", OneByOne(prompt), FALSE, prompt, << >>)
  BY <1>2 DEF IdleCall, CallOf
<1>7. /\ call'.at = "begin" /\ call'.method = "prefill" /\ call'.todo = OneByOne(prompt)
      /\ call'.replay = FALSE /\ call'.gives = prompt /\ call'.ack = << >>
  BY <1>6 DEF CallOf
<1>8. session' = [status |-> "none", mtp |-> with_mtp]
  BY <1>1, <1>2, <1>3 DEF ExecutorTyped
<1>9. ExecutorTyped'
  <2>1. /\ call' = CallOf(call'.at, call'.method, call'.todo, call'.replay, call'.gives, call'.ack)
        /\ call'.at \in Ats
    BY <1>6, <1>7 DEF Ats
  <2>2. session' \in [status : {"none", "open", "lost"}, mtp : BOOLEAN]
    BY <1>8
  <2>3. drafts' \in 0 .. MaximumDrafts /\ policy'.maximum_tokens = Context /\ drafts' # 0
    BY <1>1, <1>3, <1>5 DEF ExecutorTyped, Loaded
  <2>4. reported' \in [tokens : Seq(Values), position : Nat, pending : Nat,
                     state : {"whole", "partial"}]
    BY <1>1, <1>3 DEF ExecutorTyped
  <2> QED BY <1>1, <2>1, <2>2, <2>3, <2>4 DEF ExecutorTyped, Loaded, Ats, CallOf
<1>10. CallInv'
  <2>1. pending_ack = << >> /\ reported = Untouched
    BY <1>1, <1>3 DEF IdleInv
  <2>2. session'.status = "none"
    BY <1>8
  <2> QED BY <1>1, <1>4, <1>7, <2>1, <2>2 DEF CallInv, Untouched
<1>11. Progress(<< >>, prompt)'
  <2>1. prompt = << >> \o prompt
    BY <1>4, ConcatEmptySeq
  <2>2. Consumes(prompt)'
    BY <1>4, <1>7, OneByOneTodo
  <2> QED BY <1>7, <2>1, <2>2 DEF Progress
<1>12. Phase(<< >>)' /\ call'.at \in Running
  BY <1>5, <1>7, PhasesNext DEF Running
<1>13. << >> \in Seq(Values)
  BY StateFacts
<1> QED BY <1>4, <1>5, <1>9, <1>10, <1>11, <1>12, <1>13, StillRunning

LEMMA PrefillCancelledKeeps ==
  ASSUME MetalInv, ExecutorInv, PrefillCancelled
  PROVE  ExecutorInv' /\ [Next]_vars
<1>1. AnswerError("cancelled")
  BY DEF PrefillCancelled
<1>2. CASE Idle /\ model = "warm" /\ session.status = "none" /\ OwnersUnchanged
  <2>1. OwnersTyped /\ ExecutorTyped /\ IdleInv
    BY <1>2, IsIdle
  <2>2. Holds(<< >>)
    BY <1>2, <2>1 DEF IdleInv, Loaded
  <2>3. [Next]_vars /\ policy' = policy /\ OwnersTyped' /\ Holds(<< >>)'
    BY <1>1, <1>2, <2>1, <2>2, FailedFacts, OwnersStay
  <2>4. Settled'
    BY <2>3, SettledNext
  <2> QED BY <1>1, <1>2, <2>1, <2>3, <2>4, Failed
<1>3. CASE call.at = "begin" /\ ResetTransaction
  <2>1. OwnersTyped /\ ExecutorTyped /\ model = "warm"
    BY <1>3, IsRunning DEF Running
  <2>2. [Next]_vars /\ policy' = policy /\ OwnersTyped' /\ Holds(<< >>)'
    BY <1>3, <2>1, ResetEmpties
  <2>3. Settled'
    BY <2>2, SettledNext
  <2> QED BY <1>1, <2>1, <2>2, <2>3, Failed
<1> QED BY <1>2, <1>3 DEF PrefillCancelled

\* A session a decode may be asked of.
LEMMA SessionIsOpen ==
  ASSUME ExecutorInv, InSession
  PROVE  /\ OwnersTyped /\ ExecutorTyped /\ OpenInv /\ model = "warm"
         /\ Holds(reported.tokens) /\ reported.tokens \in Seq(Values)
         /\ reported.tokens # << >> /\ session.status = "open"
         /\ policy.maximum_tokens = Context /\ drafts \in 1 .. MaximumDrafts
<1>1. OwnersTyped /\ ExecutorTyped /\ IdleInv /\ session.status = "open"
  BY IsIdle DEF InSession
<1>2. OpenInv /\ model = "warm"
  BY <1>1 DEF IdleInv, OpenInv
<1>3. reported.tokens \in Seq(Values) /\ policy.maximum_tokens = Context
  BY <1>1, <1>2 DEF ExecutorTyped, Loaded
<1>4. drafts \in 1 .. MaximumDrafts
  <2>1. drafts \in 0 .. MaximumDrafts /\ drafts # 0
    BY <1>1, <1>2 DEF ExecutorTyped, Loaded
  <2> QED BY <2>1, DraftsAssumption
<1> QED BY <1>1, <1>2, <1>3, <1>4 DEF OpenInv

\* A decode starts from what was reported.
LEMMA DecodeStarts ==
  ASSUME MetalInv, ExecutorInv, CanDecode, OwnersUnchanged,
         NEW rest \in Seq(Values), NEW todo, NEW ack,
         Continue([IdleCall EXCEPT !.at = "begin", !.method = "decode", !.todo = todo,
                                   !.gives = reported.tokens \o rest, !.ack = ack]),
         rest # << >>,
         \/ todo = OneByOne(rest)
         \/ Len(rest) <= Transitions /\ todo = <<Kept(rest)>>
         \/ \E block \in Seq(Values) :
               Len(block) \in 1 .. Transitions /\ todo = <<Rejected(block)>> \o OneByOne(rest),
         IF session.mtp
         THEN Acknowledgeable(ack, Len(reported.tokens) + 1, reported.tokens \o rest)
         ELSE ack = << >> /\ Len(reported.tokens \o rest) = Len(reported.tokens) + 1
  PROVE  ExecutorInv' /\ [Next]_vars
<1>1. InSession /\ pending_ack = << >>
  BY DEF CanDecode
<1>2. /\ OwnersTyped /\ ExecutorTyped /\ OpenInv /\ model = "warm"
      /\ reported.tokens # << >> /\ session.status = "open"
      /\ policy.maximum_tokens = Context /\ drafts \in 1 .. MaximumDrafts
  BY <1>1, SessionIsOpen
<1>3. PICK done \in Seq(Values) : done = reported.tokens
  BY <1>1, SessionIsOpen
<1>4. Holds(done) /\ done # << >>
  BY <1>1, <1>3, SessionIsOpen
<1>5. PICK gives : gives = done \o rest
  OBVIOUS
<1>6. gives \in Seq(Values) /\ IsPrefix(done, gives) /\ IsPrefix(done, done)
  BY <1>5, PrefixFacts, ConcatProperties
<1>7. /\ call' = CallOf("begin", "decode", todo, FALSE, gives, ack)
      /\ UNCHANGED <<model, drafts, allocations, pending_ack, result, session, reported>>
  BY <1>3, <1>5 DEF Continue, IdleCall, CallOf
<1>8. /\ call'.at = "begin" /\ call'.method = "decode" /\ call'.todo = todo
      /\ call'.replay = FALSE /\ call'.gives = gives /\ call'.ack = ack
  BY <1>7 DEF CallOf
<1>9. [Next]_vars /\ policy' = policy /\ OwnersTyped' /\ Holds(done)'
  BY <1>2, <1>4, <1>7, OwnersStay
<1>10. ExecutorTyped'
  <2>1. /\ call' = CallOf(call'.at, call'.method, call'.todo, call'.replay, call'.gives, call'.ack)
        /\ call'.at \in Ats
    BY <1>7, <1>8 DEF Ats
  <2>2. /\ session' \in [status : {"none", "open", "lost"}, mtp : BOOLEAN]
        /\ reported' \in [tokens : Seq(Values), position : Nat, pending : Nat,
                     state : {"whole", "partial"}]
    BY <1>2, <1>7 DEF ExecutorTyped
  <2>3. drafts' \in 0 .. MaximumDrafts /\ policy'.maximum_tokens = Context /\ drafts' # 0
    BY <1>2, <1>7, <1>9 DEF ExecutorTyped, Loaded
  <2> QED BY <1>2, <1>7, <2>1, <2>2, <2>3 DEF ExecutorTyped, Loaded, Ats, CallOf
<1>11. CallInv'
  <2>1. reported.state = "whole" /\ reported.pending = 0 /\ reported.position = Len(done)
    BY <1>1, <1>2, <1>3 DEF OpenInv
  <2>2. /\ reported'.tokens = done /\ reported'.state = "whole" /\ reported'.pending = 0
        /\ reported'.position = Len(done) /\ session'.status = "open"
        /\ pending_ack' = << >> /\ model' = "warm"
    BY <1>1, <1>2, <1>3, <1>7, <2>1
  <2>3. IF session'.mtp THEN Acknowledgeable(ack, Len(done) + 1, gives)
        ELSE ack = << >> /\ Len(gives) = Len(done) + 1
    BY <1>3, <1>5, <1>7
  <2> QED BY <1>4, <1>6, <1>8, <2>2, <2>3 DEF CallInv
<1>12. Progress(done, rest)'
  <2>1. Consumes(rest)'
    BY <1>8 DEF Consumes
  <2> QED BY <1>3, <1>5, <1>6, <1>7, <1>8, <2>1 DEF Progress
<1>13. Phase(done)' /\ call'.at \in Running
  BY <1>8, <1>9, PhasesNext DEF Running
<1> QED BY <1>9, <1>10, <1>11, <1>12, <1>13, StillRunning

LEMMA Joined ==
  ASSUME NEW s \in Seq(Values), NEW t \in Seq(Values)
  PROVE  s \o t \in Seq(Values) /\ Len(s \o t) = Len(s) + Len(t) /\ Len(s) \in Nat
BY ConcatProperties, LenProperties

LEMMA DecodeTargetKeeps ==
  ASSUME MetalInv, ExecutorInv, DecodeTarget
  PROVE  ExecutorInv' /\ [Next]_vars
<1>1. CanDecode /\ OwnersUnchanged /\ ~session.mtp
  BY DEF DecodeTarget, Speculates
<1>2. PICK token \in Values :
          Continue([IdleCall EXCEPT !.at = "begin", !.method = "decode",
                                    !.todo = OneByOne(<<token>>),
                                    !.gives = Append(reported.tokens, token)])
  BY DEF DecodeTarget
<1>3. PICK rest : rest = <<token>>
  OBVIOUS
<1>4. rest \in Seq(Values) /\ Len(rest) = 1
  BY <1>3, Single
<1>5. rest # << >>
  BY <1>3
<1>6. reported.tokens \in Seq(Values)
  BY <1>1, SessionIsOpen DEF CanDecode
<1>7. Append(reported.tokens, token) = reported.tokens \o rest
  BY <1>3, <1>6, AppendIsConcat
<1>8. Len(reported.tokens \o rest) = Len(reported.tokens) + 1
  BY <1>4, <1>6, Joined
<1>9. PICK todo : todo = OneByOne(rest)
  OBVIOUS
<1>10. Continue([IdleCall EXCEPT !.at = "begin", !.method = "decode", !.todo = todo,
                                 !.gives = reported.tokens \o rest, !.ack = << >>])
  <2>1. PICK gives : gives = reported.tokens \o rest
    OBVIOUS
  <2>2. Continue([IdleCall EXCEPT !.at = "begin", !.method = "decode", !.todo = todo,
                                  !.gives = gives])
    BY <1>2, <1>3, <1>7, <1>9, <2>1
  <2>3. PICK step : step = [IdleCall EXCEPT !.at = "begin", !.method = "decode", !.todo = todo,
                                            !.gives = gives]
    OBVIOUS
  <2>4. PICK other : other = [IdleCall EXCEPT !.at = "begin", !.method = "decode", !.todo = todo,
                                              !.gives = gives, !.ack = << >>]
    OBVIOUS
  <2>5. step = CallOf("begin", "decode", todo, FALSE, gives, << >>)
    BY <2>3 DEF IdleCall, CallOf
  <2>6. other = CallOf("begin", "decode", todo, FALSE, gives, << >>)
    BY <2>4 DEF IdleCall, CallOf
  <2> QED BY <2>1, <2>2, <2>3, <2>4, <2>5, <2>6
<1> QED BY <1>1, <1>4, <1>5, <1>8, <1>9, <1>10, DecodeStarts

\* What a block consumes, and what it will acknowledge.
LEMMA BlockPath ==
  ASSUME NEW token \in Values, NEW draft \in Seq(Values), NEW accepted \in 0 .. drafts,
         Len(draft) = drafts, drafts \in 1 .. MaximumDrafts
  PROVE  LET rest == <<token>> \o SubSeq(draft, 1, accepted)
             todo == Block(token, draft, accepted)
         IN  /\ rest \in Seq(Values) /\ rest # << >> /\ Len(rest) = accepted + 1
             /\ \/ todo = OneByOne(rest)
                \/ Len(rest) <= Transitions /\ todo = <<Kept(rest)>>
                \/ \E block \in Seq(Values) :
                      /\ Len(block) \in 1 .. Transitions
                      /\ todo = <<Rejected(block)>> \o OneByOne(rest)
<1> DEFINE path == SubSeq(draft, 1, accepted)
           rest == <<token>> \o path
           block == <<token>> \o draft
<1>1. drafts \in Nat /\ drafts >= 1 /\ accepted \in Nat /\ accepted <= drafts
      /\ MaximumDrafts \in Nat /\ drafts <= MaximumDrafts
  BY DraftsAssumption
<1>2. path \in Seq(Values) /\ Len(path) = accepted
  <2>1. \A i \in 1 .. Len(draft) : draft[i] \in Values
    BY ElementOfSeq
  <2>2. /\ 1 \in Int /\ accepted \in Int /\ \A i \in 1 .. accepted : draft[i] \in Values
    BY <1>1, <2>1
  <2>3. path \in Seq(Values) /\ Len(path) = IF 1 <= accepted THEN accepted - 1 + 1 ELSE 0
    BY <2>2, SubSeqProperties
  <2> QED BY <1>1, <2>3
<1> HIDE DEF path
<1>3. rest \in Seq(Values) /\ rest # << >> /\ Len(rest) = accepted + 1
  BY <1>2, PrependedIs
<1>4. block \in Seq(Values) /\ Len(block) = drafts + 1
  BY PrependedIs
<1>5. accepted + 1 <= Transitions /\ drafts + 1 \in 1 .. Transitions
  BY <1>1 DEF Transitions
<1>6. \/ Block(token, draft, accepted) = OneByOne(rest)
      \/ Block(token, draft, accepted) = <<Kept(rest)>>
      \/ Block(token, draft, accepted) = <<Rejected(block)>> \o OneByOne(rest)
  BY DEF Block, path
<1> HIDE DEF rest, block
<1>7. Len(rest) <= Transitions /\ Len(block) \in 1 .. Transitions
  BY <1>3, <1>4, <1>5
<1>8. \/ Block(token, draft, accepted) = OneByOne(rest)
      \/ Len(rest) <= Transitions /\ Block(token, draft, accepted) = <<Kept(rest)>>
      \/ \E other \in Seq(Values) :
            /\ Len(other) \in 1 .. Transitions
            /\ Block(token, draft, accepted) = <<Rejected(other)>> \o OneByOne(rest)
  BY <1>4, <1>6, <1>7
<1> QED BY <1>3, <1>8 DEF rest, path

LEMMA DecodeWithDraftsKeeps ==
  ASSUME MetalInv, ExecutorInv, DecodeWithDrafts
  PROVE  ExecutorInv' /\ [Next]_vars
<1>1. CanDecode /\ HasRoom /\ session.mtp /\ OwnersUnchanged
  BY DEF DecodeWithDrafts, Speculates
<1>2. PICK token \in Values, draft \in Proposals, accepted \in 0 .. drafts :
          /\ Len(draft) = drafts
          /\ Continue([IdleCall EXCEPT
                         !.at = "begin", !.method = "decode",
                         !.todo = Block(token, draft, accepted),
                         !.gives = reported.tokens \o <<token>> \o SubSeq(draft, 1, accepted),
                         !.ack = <<[accepted |-> accepted, records |-> Records(accepted)]>>])
  BY DEF DecodeWithDrafts
<1>3. /\ reported.tokens \in Seq(Values) /\ Holds(reported.tokens)
      /\ drafts \in 1 .. MaximumDrafts
  BY <1>1, SessionIsOpen DEF CanDecode
<1>4. draft \in Seq(Values)
  BY MetalExecutorAssumption
<1>5. PICK rest : rest = <<token>> \o SubSeq(draft, 1, accepted)
  OBVIOUS
<1>6. PICK todo : todo = Block(token, draft, accepted)
  OBVIOUS
<1>7. /\ rest \in Seq(Values) /\ rest # << >> /\ Len(rest) = accepted + 1
      /\ \/ todo = OneByOne(rest)
         \/ Len(rest) <= Transitions /\ todo = <<Kept(rest)>>
         \/ \E block \in Seq(Values) :
               Len(block) \in 1 .. Transitions /\ todo = <<Rejected(block)>> \o OneByOne(rest)
  BY <1>2, <1>3, <1>4, <1>5, <1>6, BlockPath
<1>8. reported.tokens \o <<token>> \o SubSeq(draft, 1, accepted) = reported.tokens \o rest
  <2> DEFINE single == <<token>>
             path == SubSeq(draft, 1, accepted)
  <2>1. single \in Seq(Values)
    BY Single
  <2>2. path \in Seq(Values)
    <3>1. \A i \in 1 .. Len(draft) : draft[i] \in Values
      BY <1>4, ElementOfSeq
    <3>2. /\ 1 \in Int /\ accepted \in Int /\ \A i \in 1 .. accepted : draft[i] \in Values
      BY <1>2, <1>3, <3>1
    <3> QED BY <3>2, SubSeqProperties
  <2> HIDE DEF single, path
  <2>3. Associates(reported.tokens, single, path)
    BY <1>3, <2>1, <2>2, Regroup
  <2> QED BY <1>5, <2>3 DEF single, path, Associates
<1>9. PICK ack : ack = <<[accepted |-> accepted, records |-> Records(accepted)]>>
  OBVIOUS
<1>10. Continue([IdleCall EXCEPT !.at = "begin", !.method = "decode", !.todo = todo,
                                 !.gives = reported.tokens \o rest, !.ack = ack])
  BY <1>2, <1>6, <1>8, <1>9
<1>11. Acknowledgeable(ack, Len(reported.tokens) + 1, reported.tokens \o rest)
  <2>1. tokens = Len(reported.tokens) /\ tokens \in Nat
    BY <1>3, Count DEF Holds
  <2>2. tokens + 1 + drafts <= Context
    BY <1>1 DEF HasRoom, Speculates
  <2>3. drafts \in Nat /\ drafts >= 1 /\ drafts <= MaximumDrafts /\ MaximumDrafts \in Nat
        /\ accepted \in Nat /\ accepted <= drafts /\ accepted \in 0 .. MaximumDrafts
    BY <1>3, DraftsAssumption
  <2>4. PICK records : records = Records(accepted)
    OBVIOUS
  <2>5. records \in 1 .. MaximumDrafts /\ accepted <= records /\ records <= drafts
    BY <2>3, <2>4 DEF Records, Lesser
  <2>6. Len(reported.tokens \o rest) = (Len(reported.tokens) + 1) + accepted
    <3>1. PICK before : before = Len(reported.tokens)
      OBVIOUS
    <3>2. Len(reported.tokens \o rest) = before + (accepted + 1) /\ before \in Nat
      BY <1>3, <1>7, <3>1, Joined
    <3>3. before + (accepted + 1) = (before + 1) + accepted
      BY <2>3, <3>2
    <3> QED BY <3>1, <3>2, <3>3
  <2>7. Context \in Nat
    <3>1. policy.maximum_tokens = Context
      BY <1>1, SessionIsOpen DEF CanDecode
    <3> QED BY <3>1, Numbers
  <2>8. (Len(reported.tokens) + 1) + records <= Context
    BY <2>1, <2>2, <2>3, <2>5, <2>7
  <2> QED BY <1>9, <2>3, <2>4, <2>5, <2>6, <2>8 DEF Acknowledgeable
<1> QED BY <1>1, <1>7, <1>10, <1>11, DecodeStarts

LEMMA DecodeRefusedKeeps ==
  ASSUME MetalInv, ExecutorInv, DecodeRefused
  PROVE  ExecutorInv' /\ [Next]_vars
<1>1. InSession /\ OwnersUnchanged /\ AnswerError("cancelled")
  BY DEF DecodeRefused, CanDecode
<1>2. /\ OwnersTyped /\ ExecutorTyped /\ Holds(reported.tokens) /\ model = "warm"
      /\ reported.tokens \in Seq(Values)
  BY <1>1, SessionIsOpen
<1>3. PICK done \in Seq(Values) : done = reported.tokens
  BY <1>2
<1>4. session'.mtp = session.mtp /\ reported'.tokens = done
  BY <1>1, <1>2, <1>3, FailedFacts
<1>5. [Next]_vars /\ policy' = policy /\ OwnersTyped' /\ Holds(done)'
  BY <1>1, <1>2, <1>3, <1>4, OwnersStay
<1>6. Settled'
  BY <1>4, <1>5, SettledNext, PrefixFacts
<1> QED BY <1>1, <1>2, <1>5, <1>6, Failed

LEMMA AcknowledgeKeeps ==
  ASSUME MetalInv, ExecutorInv, Acknowledge
  PROVE  ExecutorInv' /\ [Next]_vars
<1>1. InSession /\ OwnersUnchanged /\ AnswerOk(reported.tokens, << >>)
  BY DEF Acknowledge
<1>2. /\ OwnersTyped /\ ExecutorTyped /\ Holds(reported.tokens) /\ model = "warm"
      /\ reported.tokens \in Seq(Values) /\ reported.tokens # << >>
  BY <1>1, SessionIsOpen
<1>3. PICK gives \in Seq(Values) : gives = reported.tokens
  BY <1>2
<1>4. AnswerOk(gives, << >>) /\ session'.mtp = session.mtp
  BY <1>1, <1>2, <1>3, SessionStays
<1>5. [Next]_vars /\ policy' = policy /\ OwnersTyped' /\ Holds(gives)'
  BY <1>1, <1>2, <1>3, <1>4, OwnersStay
<1>6. tokens = Len(gives)
  BY <1>2, <1>3, Count DEF Holds
<1> QED BY <1>2, <1>3, <1>4, <1>5, <1>6, Answered

LEMMA AcknowledgeRefusedKeeps ==
  ASSUME MetalInv, ExecutorInv, AcknowledgeRefused
  PROVE  ExecutorInv' /\ [Next]_vars
<1>1. InSession /\ ResetTransaction
  BY DEF AcknowledgeRefused
<1>2. PICK outcome \in {"cancelled", "error"} : AnswerError(outcome)
  BY DEF AcknowledgeRefused
<1>3. OwnersTyped /\ ExecutorTyped /\ model = "warm"
  BY <1>1, SessionIsOpen
<1>4. [Next]_vars /\ policy' = policy /\ OwnersTyped' /\ Holds(<< >>)'
  BY <1>1, <1>3, ResetEmpties
<1>5. Settled'
  BY <1>4, SettledNext
<1> QED BY <1>2, <1>3, <1>4, <1>5, Failed

-----------------------------------------------------------------------------
(* Load, warmup, reset and unload *)

LEMMA LoadKeeps ==
  ASSUME MetalInv, ExecutorInv, Load
  PROVE  ExecutorInv' /\ [Next]_vars
<1>1. /\ Idle /\ model = "new" /\ policy \in ExecutorPolicies
      /\ tokens = 0 /\ checkpoint = << >> /\ ~poisoned
      /\ model' = "resident" /\ drafts' \in 1 .. MaximumDrafts
      /\ UNCHANGED <<vars, linear, layers, hidden, pending_ack, call, session, reported>>
  BY DEF Load
<1>2. PICK p \in ExecutorPolicies : mtp' = FreshMtp(Q4Slots(p))
  BY DEF Load
<1>3. OwnersTyped /\ ExecutorTyped /\ IdleInv
  BY <1>1, IsIdle
<1>4. linear = FreshLinear /\ layers = IdleLayers /\ hidden = FreshState
  BY <1>1, <1>3 DEF ExecutorTyped
<1>5. session.status = "none" /\ ~session.mtp /\ pending_ack = << >> /\ reported = Untouched
  BY <1>1, <1>3 DEF ExecutorTyped, Loaded, IdleInv
<1>6. Q4Slots(p) \in Nat
  <2>1. p \in Policy
    BY MetalExecutorAssumption, PoliciesAssumption
  <2>2. /\ p.maximum_tokens \in Nat \ {0} /\ p.page_tokens \in Nat \ {0}
        /\ p.sink_tokens \in Nat /\ p.recent_tokens \in Nat
    BY <2>1 DEF Policy
  <2>3. CeilDiv(p.maximum_tokens, p.page_tokens) \in Nat
    BY <2>2, Ceiling
  <2>4. CeilDiv(p.recent_tokens, p.page_tokens) \in Nat
    BY <2>2, Ceiling
  <2>5. p.sink_tokens \div p.page_tokens \in Nat
    BY <2>2, DivMod
  <2>6. ASSUME NEW a \in Nat, NEW b \in Nat, NEW c \in Nat
        PROVE  Lesser(a + b + 1, c) \in Nat
    BY DEF Lesser
  <2> QED BY <2>3, <2>4, <2>5, <2>6 DEF Q4Slots, MaximumPages
<1>7. policy' = policy /\ [Next]_vars /\ TargetRows' = TargetRows
  BY <1>1, SameRows
<1>8. OwnersTyped'
  <2>1. mtp' \in MtpRecord
    BY <1>2, <1>6, NoElement DEF FreshMtp, MtpRecord
  <2> QED BY <1>1, <1>3, <2>1, TypedRecords, TypedRecordsNext
<1>9. mtp' = [rows |-> << >>, poisoned |-> FALSE, checkpoint |-> << >>, q4_slots |-> Q4Slots(p)]
  BY <1>2 DEF FreshMtp
<1>10. Holds(<< >>)'
  <2>1. TargetRows = << >>
    <3>1. DOMAIN TargetRows = 1 .. tokens /\ Len(TargetRows) = tokens
      BY Numbers
    <3>2. TargetRows = [t \in 1 .. 0 |-> ReadAt(pages, page_to_q4_slot, t).value]
      BY <1>1 DEF TargetRows, RowsOf
    <3> QED BY <3>2
  <2>2. /\ linear' = FreshLinear /\ layers' = IdleLayers /\ hidden' = FreshState
        /\ ~poisoned' /\ checkpoint' = << >>
    BY <1>1, <1>4 DEF vars
  <2>3. \A owner \in LinearOwners :
           linear'[owner] = [state |-> << >>, poisoned |-> FALSE, checkpoint |-> << >>]
    BY <2>2 DEF FreshLinear
  <2>4. /\ layers' = [transaction_active |-> FALSE, poisoned |-> FALSE]
        /\ hidden' = [state |-> << >>, checkpoint |-> << >>]
    BY <2>2 DEF IdleLayers, FreshState
  <2>5. Usable' /\ NoBranch'
    BY <1>9, <2>2, <2>3, <2>4 DEF Usable, NoBranch
  <2>6. << >> \in Seq(Values)
    BY StateFacts
  <2> QED BY <1>7, <1>9, <2>1, <2>3, <2>4, <2>5, <2>6 DEF Holds, Owners, Behind
<1>11. ExecutorTyped'
  <2>1. drafts' \in 0 .. MaximumDrafts /\ drafts' # 0
    BY <1>1, DraftsAssumption
  <2>2. policy'.maximum_tokens = Context
    BY <1>1, <1>7, MetalExecutorAssumption
  <2> QED BY <1>1, <1>3, <2>1, <2>2 DEF ExecutorTyped, Loaded
<1>12. IdleInv'
  BY <1>1, <1>3, <1>4, <1>5, <1>10 DEF IdleInv, IdleLayers
<1> QED BY <1>7, <1>8, <1>11, <1>12 DEF ExecutorInv

LEMMA WarmupKeeps ==
  ASSUME MetalInv, ExecutorInv, Warmup
  PROVE  ExecutorInv' /\ [Next]_vars
<1>1. /\ Idle /\ model = "resident" /\ model' = "warm" /\ OwnersUnchanged
      /\ UNCHANGED <<drafts, allocations, pending_ack, call, session, reported>>
  BY DEF Warmup
<1>2. OwnersTyped /\ ExecutorTyped /\ IdleInv
  BY <1>1, IsIdle
<1>3. session.status = "none"
  BY <1>1, <1>2 DEF ExecutorTyped, IdleInv, OpenInv
<1>4. Holds(<< >>)
  BY <1>1, <1>2, <1>3 DEF IdleInv, Loaded
<1>5. [Next]_vars /\ policy' = policy /\ OwnersTyped' /\ Holds(<< >>)' /\ layers' = layers
  BY <1>1, <1>2, <1>4, OwnersStay
<1>6. ExecutorTyped'
  BY <1>1, <1>2, <1>5 DEF ExecutorTyped, Loaded
<1>7. IdleInv'
  BY <1>1, <1>2, <1>3, <1>5 DEF IdleInv
<1> QED BY <1>5, <1>6, <1>7 DEF ExecutorInv

\* Nothing is left of a session.
LEMMA SessionEnds ==
  ASSUME OwnersTyped, ExecutorTyped, IdleInv, model # "new",
         IF Loaded THEN ResetTransaction ELSE OwnersUnchanged,
         pending_ack' = << >>, session' = [status |-> "none", mtp |-> FALSE],
         reported' = Untouched, call' = call, model' \in {model, "unloaded"},
         model' = "unloaded" \/ drafts' = drafts, drafts' \in 0 .. MaximumDrafts
  PROVE  ExecutorInv' /\ [Next]_vars
<1>1. call = IdleCall /\ ~layers.transaction_active
  BY DEF IdleInv
<1>2. /\ [Next]_vars /\ policy' = policy /\ OwnersTyped' /\ ~layers'.transaction_active
      /\ Loaded => Holds(<< >>)'
  <2>1. CASE Loaded
    <3>1. [Next]_vars /\ policy' = policy /\ OwnersTyped' /\ Holds(<< >>)'
      BY <2>1, ResetEmpties
    <3> QED BY <3>1 DEF Holds, NoBranch
  <2>2. CASE ~Loaded
    <3>1. /\ UNCHANGED vars /\ linear' = linear /\ layers' = layers
          /\ mtp' = mtp /\ hidden' = hidden
      BY <2>2 DEF OwnersUnchanged, transactionVars
    <3>2. OwnersTyped'
      BY <3>1, TypedRecords, TypedRecordsNext
    <3> QED BY <1>1, <2>2, <3>1, <3>2 DEF vars
  <2> QED BY <2>1, <2>2
<1>3. Loaded' => Loaded /\ drafts' = drafts
  BY DEF Loaded
<1>4. ExecutorTyped'
  <2>1. /\ call' = CallOf(call'.at, call'.method, call'.todo, call'.replay, call'.gives, call'.ack)
        /\ call'.at = "idle"
    BY <1>1 DEF IdleCall, CallOf
  <2>2. session' \in [status : {"none", "open", "lost"}, mtp : BOOLEAN] /\ session'.status = "none"
    OBVIOUS
  <2>3. reported' \in [tokens : Seq(Values), position : Nat, pending : Nat,
                     state : {"whole", "partial"}]
    BY StateFacts DEF Untouched
  <2>4. model' \in {"new", "resident", "warm", "unloaded"} /\ model' # "new"
    BY DEF ExecutorTyped
  <2>5. Loaded' => policy'.maximum_tokens = Context /\ drafts' # 0
    BY <1>2, <1>3 DEF ExecutorTyped
  <2> QED BY <2>1, <2>2, <2>3, <2>4, <2>5 DEF ExecutorTyped, Loaded, CallOf, Idle
<1>5. IdleInv'
  BY <1>1, <1>2, <1>3 DEF IdleInv
<1> QED BY <1>2, <1>4, <1>5 DEF ExecutorInv

LEMMA ResetSessionKeeps ==
  ASSUME MetalInv, ExecutorInv, ResetSession
  PROVE  ExecutorInv' /\ [Next]_vars
<1>1. OwnersTyped /\ ExecutorTyped /\ IdleInv
  BY IsIdle DEF ResetSession
<1>2. drafts' \in 0 .. MaximumDrafts
  BY <1>1 DEF ResetSession, ExecutorTyped
<1> QED BY <1>1, <1>2, SessionEnds DEF ResetSession

LEMMA UnloadKeeps ==
  ASSUME MetalInv, ExecutorInv, Unload
  PROVE  ExecutorInv' /\ [Next]_vars
<1>1. OwnersTyped /\ ExecutorTyped /\ IdleInv
  BY IsIdle DEF Unload
<1>2. drafts' \in 0 .. MaximumDrafts
  BY DraftsAssumption DEF Unload
<1> QED BY <1>1, <1>2, SessionEnds DEF Unload

\* The attention owner on its own.
LEMMA AloneKeeps ==
  ASSUME ExecutorInv, model = "new", Next, UNCHANGED <<transactionVars, executorVars>>
  PROVE  ExecutorInv' /\ [Next]_vars
<1>1. /\ linear' = linear /\ layers' = layers /\ mtp' = mtp /\ hidden' = hidden
      /\ model' = model /\ drafts' = drafts /\ pending_ack' = pending_ack /\ call' = call
      /\ session' = session /\ reported' = reported
  BY DEF transactionVars, executorVars
<1>2. OwnersTyped /\ ExecutorTyped /\ IdleInv
  BY DEF ExecutorInv, CallInv, IdleInv
<1>3. session.status = "none" /\ ~Loaded /\ ~Loaded'
  BY <1>1, <1>2 DEF ExecutorTyped, Loaded
<1>4. OwnersTyped'
  BY <1>1, <1>2, TypedRecords, TypedRecordsNext
<1>5. ExecutorTyped'
  BY <1>1, <1>2, <1>3 DEF ExecutorTyped, Idle
<1>6. IdleInv'
  BY <1>1, <1>2, <1>3 DEF IdleInv
<1> QED BY <1>4, <1>5, <1>6 DEF ExecutorInv

LEMMA NothingMoves ==
  ASSUME ExecutorInv, UNCHANGED <<vars, transactionVars, executorVars>>
  PROVE  ExecutorInv' /\ [Next]_vars
<1>1. /\ UNCHANGED vars /\ linear' = linear /\ layers' = layers /\ mtp' = mtp /\ hidden' = hidden
      /\ model' = model /\ drafts' = drafts /\ pending_ack' = pending_ack /\ call' = call
      /\ session' = session /\ reported' = reported
  BY DEF transactionVars, executorVars
<1>2. /\ policy' = policy /\ poisoned' = poisoned /\ checkpoint' = checkpoint
      /\ TargetRows' = TargetRows /\ Base' = Base
  BY <1>1, SameRows
<1>3. OwnersTyped' <=> OwnersTyped
  BY <1>1 DEF OwnersTyped, States
<1>4. Loaded' = Loaded /\ Idle' = Idle /\ Usable' = Usable /\ NoBranch' = NoBranch
  BY <1>1, <1>2 DEF Loaded, Idle, Usable, NoBranch
<1>5. ExecutorTyped' <=> ExecutorTyped
  BY <1>1, <1>2, <1>4 DEF ExecutorTyped
<1>6. OwnersUnchanged /\ session'.mtp = session.mtp
  BY <1>1 DEF OwnersUnchanged, transactionVars
<1>7. /\ \A held : Holds(held) => Holds(held)'
      /\ \A held : Owners(held) => Owners(held)'
      /\ \A base : InBranch(base) => InBranch(base)'
  BY <1>6, OwnersStay
<1>8. Settled => Settled'
  BY <1>1, <1>6, SettledStays
<1>9. CallInv => CallInv'
  BY <1>1 DEF CallInv
<1>10. IdleInv => IdleInv'
  <2>1. Holds(<< >>) => Holds(<< >>)'
    BY <1>7
  <2>2. OpenInv => OpenInv'
    <3>1. PICK held : held = reported.tokens
      OBVIOUS
    <3>2. Holds(held) => Holds(held)'
      BY <1>7
    <3> QED BY <1>1, <3>1, <3>2 DEF OpenInv
  <2> QED BY <1>1, <1>4, <1>8, <2>1, <2>2 DEF IdleInv
<1>11. ASSUME WorkingInv PROVE WorkingInv'
  <2>1. PICK done \in Seq(Values), rest \in Seq(Values) : Progress(done, rest) /\ Phase(done)
    BY <1>11 DEF WorkingInv
  <2>2. PICK first : first = First
    OBVIOUS
  <2>3. First' = first /\ Progress(done, rest)'
    BY <1>1, <2>1, <2>2, SameBranches
  <2>4. CASE call.at = "begin" /\ Holds(done)
    BY <1>1, <1>7, <2>1, <2>3, <2>4, PhasesNext DEF WorkingInv
  <2>5. CASE /\ call.at = "encode" /\ InBranch(done)
             /\ \E n \in 0 .. Len(First.tokens) - 1 :
                   Owners(done \o SubSeq(First.tokens, 1, n))
             /\ Len(done) + Len(First.tokens) <= policy.maximum_tokens
    <3>1. PICK n \in 0 .. Len(first.tokens) - 1 : Owners(done \o SubSeq(first.tokens, 1, n))
      BY <2>2, <2>5
    <3>2. PICK held : held = done \o SubSeq(first.tokens, 1, n)
      OBVIOUS
    <3>3. Owners(held)' /\ InBranch(done)'
      BY <1>7, <2>5, <3>1, <3>2
    <3>4. Len(done) + Len(first.tokens) <= policy'.maximum_tokens
      BY <1>2, <2>2, <2>5
    <3>5. Phase(done)'
      BY <1>1, <2>3, <2>5, <3>1, <3>2, <3>3, <3>4, EncodingNext
    <3> QED BY <2>3, <3>5 DEF WorkingInv
  <2>6. CASE /\ call.at = (IF First.keep THEN "commit" ELSE "reject")
             /\ InBranch(done) /\ Owners(done \o First.tokens)
    <3>1. PICK held : held = done \o first.tokens
      OBVIOUS
    <3>2. Owners(held)' /\ InBranch(done)'
      BY <1>7, <2>2, <2>6, <3>1
    <3>3. call'.at = (IF first.keep THEN "commit" ELSE "reject")
      BY <1>1, <2>2, <2>6
    <3>4. Phase(done)'
      BY <2>3, <3>1, <3>2, <3>3, ClosingNext
    <3> QED BY <2>3, <3>4 DEF WorkingInv
  <2>7. CASE call.at = "restore" /\ InBranch(done)
    BY <1>1, <1>7, <2>1, <2>3, <2>7, PhasesNext DEF WorkingInv
  <2> QED BY <2>1, <2>4, <2>5, <2>6, <2>7 DEF Phase
<1>12. Holds(call.gives) => Holds(call.gives)'
  <2>1. PICK held : held = call.gives
    OBVIOUS
  <2>2. Holds(held) => Holds(held)'
    BY <1>7
  <2> QED BY <1>1, <2>1, <2>2
<1>13. Drafted' = Drafted
  BY <1>1 DEF Drafted
<1> QED BY <1>1, <1>3, <1>5, <1>8, <1>9, <1>10, <1>11, <1>12, <1>13 DEF ExecutorInv

LEMMA ExecutorStep ==
  ASSUME MetalInv, ExecutorInv, [MetalNext]_<<vars, transactionVars, executorVars>>
  PROVE  ExecutorInv' /\ [Next]_vars
<1>1. CASE model = "new" /\ Next /\ UNCHANGED <<transactionVars, executorVars>>
  BY <1>1, AloneKeeps
<1>2. CASE Load
  BY <1>2, LoadKeeps
<1>3. CASE Warmup
  BY <1>3, WarmupKeeps
<1>4. CASE ResetSession
  BY <1>4, ResetSessionKeeps
<1>5. CASE Unload
  BY <1>5, UnloadKeeps
<1>6. CASE Prefill
  BY <1>6, PrefillKeeps
<1>7. CASE PrefillCancelled
  BY <1>7, PrefillCancelledKeeps
<1>8. CASE DecodeTarget
  BY <1>8, DecodeTargetKeeps
<1>9. CASE DecodeWithDrafts
  BY <1>9, DecodeWithDraftsKeeps
<1>10. CASE DecodeRefused
  BY <1>10, DecodeRefusedKeeps
<1>11. CASE Begin
  BY <1>11, BeginKeeps
<1>12. CASE BeginStops
  BY <1>12, BeginStopsKeeps
<1>13. CASE Encode
  BY <1>13, EncodeKeeps
<1>14. CASE EncodeStops
  BY <1>14, EncodeStopsKeeps
<1>15. CASE CompletionStops
  BY <1>15, CompletionStopsKeeps
<1>16. CASE Commit
  BY <1>16, CommitStepKeeps
<1>17. CASE ReplayDiverges
  BY <1>17, ReplayDivergesKeeps
<1>18. CASE Reject
  BY <1>18, RejectKeeps
<1>19. CASE Restore
  BY <1>19, RestoreKeeps
<1>20. CASE Select
  BY <1>20, SelectKeeps
<1>21. CASE Stop
  BY <1>21, StopKeeps
<1>22. CASE Acknowledge
  BY <1>22, AcknowledgeKeeps
<1>23. CASE AcknowledgeRefused
  BY <1>23, AcknowledgeRefusedKeeps
<1>24. CASE UNCHANGED <<vars, transactionVars, executorVars>>
  BY <1>24, NothingMoves
<1> QED BY <1>1, <1>2, <1>3, <1>4, <1>5, <1>6, <1>7, <1>8, <1>9, <1>10, <1>11, <1>12, <1>13,
           <1>14, <1>15, <1>16, <1>17, <1>18, <1>19, <1>20, <1>21, <1>22, <1>23, <1>24
        DEF MetalNext, ExecutorNext

LEMMA ExecutorStart == MetalInit => ExecutorInv
<1> SUFFICES ASSUME MetalInit PROVE ExecutorInv
  OBVIOUS
<1>1. /\ linear = FreshLinear /\ layers = IdleLayers /\ mtp = FreshMtp(0)
      /\ hidden = FreshState /\ model = "new" /\ drafts = 0 /\ pending_ack = << >>
      /\ call = IdleCall /\ session = [status |-> "none", mtp |-> FALSE]
      /\ reported = Untouched
  BY DEF MetalInit, ExecutorInit, TransactionInit
<1>2. /\ << >> \in States /\ << >> \in Seq(States) /\ << >> \in Seq(Values)
      /\ << >> \in Seq(Values \cup {Junk}) /\ << >> \in Seq(Seq(Values \cup {Junk}))
  BY StateFacts, NoElement
<1>3. OwnersTyped
  <2>1. linear \in [LinearOwners -> LinearRecord]
    BY <1>1, <1>2 DEF FreshLinear, LinearRecord
  <2>2. mtp \in MtpRecord
    BY <1>1, <1>2 DEF FreshMtp, MtpRecord
  <2>3. hidden \in HiddenRecord
    BY <1>1, <1>2 DEF FreshState, HiddenRecord
  <2>4. layers \in [transaction_active : BOOLEAN, poisoned : BOOLEAN]
    BY <1>1 DEF IdleLayers
  <2> QED BY <2>1, <2>2, <2>3, <2>4, TypedRecords
<1>4. ~Loaded
  BY <1>1 DEF Loaded
<1>5. ExecutorTyped
  <2>1. /\ call = CallOf(call.at, call.method, call.todo, call.replay, call.gives, call.ack)
        /\ call.at = "idle"
    BY <1>1 DEF IdleCall, CallOf
  <2>2. drafts \in 0 .. MaximumDrafts
    BY <1>1, DraftsAssumption
  <2>3. reported \in [tokens : Seq(Values), position : Nat, pending : Nat,
                     state : {"whole", "partial"}]
    BY <1>1, <1>2 DEF Untouched
  <2> QED BY <1>1, <1>4, <2>1, <2>2, <2>3 DEF ExecutorTyped, Idle
<1>6. IdleInv
  BY <1>1, <1>4 DEF IdleInv, IdleLayers
<1> QED BY <1>3, <1>5, <1>6 DEF ExecutorInv

LEMMA ExecutorInvHolds == MetalSpec => [](MetalInv /\ ExecutorInv)
<1>1. MetalInit => MetalInv /\ ExecutorInv
  BY InitInv, ExecutorStart DEF MetalInit
<1>2. MetalInv /\ ExecutorInv /\ [MetalNext]_<<vars, transactionVars, executorVars>>
        => (MetalInv /\ ExecutorInv)'
  BY ExecutorStep, NextInv
<1> QED BY <1>1, <1>2, PTL DEF MetalSpec

(* The executor drives the attention owner only through its operations, so  *)
(* that what is proved of the owner alone holds within a call.              *)
THEOREM OwnerInTheExecutor == MetalSpec => Spec
<1>1. MetalInit => Init
  BY DEF MetalInit
<1>2. MetalInv /\ ExecutorInv /\ [MetalNext]_<<vars, transactionVars, executorVars>>
        => [Next]_vars
  BY ExecutorStep
<1> QED BY <1>1, <1>2, ExecutorInvHolds, PTL DEF MetalSpec, Spec

LEMMA HeldAgree ==
  ASSUME MetalInv, NEW held, Holds(held)
  PROVE  Usable /\ NoBranch /\ Agree /\ TargetRows = held
<1>1. Owners(held) /\ NoBranch
  BY DEF Holds
<1>2. tokens > 0 <=> held # << >>
  BY <1>1, Count
<1>3. MtpRows = Behind(held) /\ TargetRows = held
  BY <1>1, <1>2 DEF MtpRows, Behind, Owners
<1> QED BY <1>1, <1>3 DEF Owners, Agree

(* Between two calls of a live session every owner of the session's state   *)
(* (the recurrences, the attention rows, the rows of MTP, the hidden        *)
(* vector) holds exactly the prompt and what the decodes have kept, for     *)
(* every context, policy, draft depth, prompt and proposal.                 *)
THEOREM MetalOwnersAlwaysAgree == MetalSpec => []MetalOwnersAgree
<1>1. MetalInv /\ ExecutorInv => MetalOwnersAgree
  <2> SUFFICES ASSUME MetalInv, ExecutorInv, InSession
               PROVE  Usable /\ NoBranch /\ Agree /\ TargetRows = reported.tokens
    BY DEF MetalOwnersAgree
  <2>1. Holds(reported.tokens)
    BY SessionIsOpen
  <2> QED BY <2>1, HeldAgree
<1> QED BY <1>1, ExecutorInvHolds, PTL

LEMMA BranchOverAll ==
  ASSUME ExecutorInv, layers.transaction_active
  PROVE  \E base \in Seq(Values) : InBranch(base)
<1>1. call.at \in Running /\ WorkingInv
  BY DEF ExecutorInv, IdleInv, Holds, NoBranch, Running
<1>2. PICK done \in Seq(Values), rest \in Seq(Values) : Progress(done, rest) /\ Phase(done)
  BY <1>1 DEF WorkingInv
<1> QED BY <1>2 DEF Phase, Holds, NoBranch

LEMMA AfterACall ==
  ASSUME MetalInv, ExecutorInv, Loaded, Idle, Usable, hidden.checkpoint = << >>
  PROVE  NoBranch /\ Agree /\ (tokens = 0 \/ IsPrefix(reported.tokens, TargetRows))
<1>1. ExecutorTyped /\ IdleInv
  BY IsIdle
<1>2. ASSUME NEW held, Holds(held), held = << >> \/ IsPrefix(reported.tokens, held)
      PROVE  NoBranch /\ Agree /\ (tokens = 0 \/ IsPrefix(reported.tokens, TargetRows))
  <2>1. NoBranch /\ Agree /\ TargetRows = held
    BY <1>2, HeldAgree
  <2>2. tokens \in Nat /\ (tokens > 0 <=> held # << >>)
    BY <1>2, Count DEF Holds
  <2> QED BY <1>2, <2>1, <2>2
<1>3. CASE session.status = "none"
  <2>1. Holds(<< >>)
    BY <1>1, <1>3 DEF IdleInv
  <2> QED BY <1>2, <2>1
<1>4. CASE session.status = "open"
  <2>1. Holds(reported.tokens) /\ reported.tokens \in Seq(Values)
    BY <1>4, SessionIsOpen DEF InSession
  <2>2. IsPrefix(reported.tokens, reported.tokens)
    BY <2>1, PrefixFacts
  <2> QED BY <1>2, <2>1, <2>2
<1>5. CASE session.status = "lost"
  <2>1. Settled
    BY <1>1, <1>5 DEF IdleInv
  <2>2. /\ Holds(TargetRows)
        /\ TargetRows = << >> \/ IsPrefix(reported.tokens, TargetRows)
    BY <2>1 DEF Settled
  <2> QED BY <1>2, <2>2
<1> QED BY <1>1, <1>3, <1>4, <1>5 DEF ExecutorTyped

(* A branch is over all owners, from the same tokens, and can be taken      *)
(* back; after a call that failed anywhere, in its rollback included, all   *)
(* owners are back at one prefix of what the session holds or a mark keeps  *)
(* the next begin from using them.                                          *)
THEOREM TransactionsAreWhole == MetalSpec => []TransactionIsAllOrNothing
<1>1. MetalInv /\ ExecutorInv /\ RestoreIsNeverRefused => TransactionIsAllOrNothing
  <2> SUFFICES ASSUME MetalInv, ExecutorInv, RestoreIsNeverRefused
               PROVE  TransactionIsAllOrNothing
    OBVIOUS
  <2>1. ASSUME layers.transaction_active
        PROVE  /\ checkpoint # << >>
               /\ \A owner \in LinearOwners : linear[owner].checkpoint = << Base >>
               /\ Joint => /\ mtp.checkpoint = << Tail(Base) >>
                           /\ hidden.checkpoint = << Base >>
    <3>1. PICK base \in Seq(Values) : InBranch(base)
      BY <2>1, BranchOverAll
    <3> QED BY <3>1 DEF InBranch, Joint
  <2>2. ASSUME Loaded, Idle, Usable, hidden.checkpoint = << >>
        PROVE  NoBranch /\ Agree /\ (tokens = 0 \/ IsPrefix(reported.tokens, TargetRows))
    BY <2>2, AfterACall
  <2> QED BY <2>1, <2>2 DEF TransactionIsAllOrNothing, Base
<1> QED BY <1>1, ExecutorInvHolds, OwnerInTheExecutor, BranchesReturn, PTL

-----------------------------------------------------------------------------
(* The contract of the ModelExecutor trait *)

\* What an answer reports.
LEMMA AnswerReports ==
  ASSUME ExecutorTyped, ExecutorInv', NEW gives, NEW ack, AnswerOk(gives, ack)
  PROVE  /\ reported'.tokens = gives /\ reported'.state = "whole"
         /\ model' = model /\ allocations' = allocations
         /\ ack = << >> => reported'.pending = 0 /\ reported'.position = Len(gives)
         /\ ack # << >> => /\ Acknowledgeable(ack, reported'.position, gives)
                           /\ reported'.pending = ack[1].records
         /\ reported'.position \in Nat
<1>1. /\ call' = IdleCall /\ pending_ack' = ack
      /\ session' = [session EXCEPT !.status = "open"]
      /\ reported'.tokens = gives /\ reported'.state = "whole"
      /\ model' = model /\ allocations' = allocations
  BY DEF AnswerOk
<1>2. session'.status = "open" /\ call'.at = "idle"
  BY <1>1 DEF ExecutorTyped, IdleCall
<1>3. OpenInv' /\ ExecutorTyped'
  BY <1>2 DEF ExecutorInv, IdleInv
<1>4. reported'.position \in Nat
  BY <1>3 DEF ExecutorTyped
<1>5. ack = << >> => reported'.pending = 0 /\ reported'.position = Len(gives)
  BY <1>1, <1>3 DEF OpenInv
<1>6. ack # << >> => /\ Acknowledgeable(ack, reported'.position, gives)
                     /\ reported'.pending = ack[1].records
  BY <1>1, <1>3 DEF OpenInv
<1> QED BY <1>1, <1>4, <1>5, <1>6

LEMMA ErrorIsReported ==
  ASSUME ExecutorTyped, NEW outcome, AnswerError(outcome)
  PROVE  Contract!ContractNext
<1>1. /\ reported'.state = "partial" /\ reported'.pending = 0
      /\ reported'.position = reported.position
      /\ model' = model /\ allocations' = allocations
  BY DEF AnswerError, ExecutorTyped
<1> QED BY <1>1 DEF Contract!ContractNext, Contract!CommitErr, Loaded

LEMMA DraftedDecode ==
  ASSUME ExecutorInv, ExecutorInv', call.at = "commit", Drafted,
         AnswerOk(call.gives, call.ack)
  PROVE  Contract!ContractNext
<1>1. ExecutorTyped /\ CallInv
  BY IsRunning DEF Running
<1>2. PICK gives : gives = call.gives
  OBVIOUS
<1>3. PICK ack : ack = call.ack
  OBVIOUS
<1>4. PICK before : before = Len(reported.tokens)
  OBVIOUS
<1>5. /\ model = "warm" /\ reported.state = "whole" /\ reported.pending = 0
      /\ reported.position = before /\ Acknowledgeable(ack, before + 1, gives)
  BY <1>1, <1>2, <1>3, <1>4 DEF CallInv, Drafted
<1>6. before \in Nat
  BY <1>1, <1>4, LenProperties DEF ExecutorTyped
<1>7. PICK accepted \in 0 .. MaximumDrafts, records \in 1 .. MaximumDrafts :
        /\ ack = <<[accepted |-> accepted, records |-> records]>>
        /\ Len(gives) = (before + 1) + accepted
        /\ (before + 1) + records <= Context
  BY <1>5 DEF Acknowledgeable
<1>8. ack # << >> /\ ack[1].accepted = accepted /\ ack[1].records = records
  BY <1>7
<1>9. AnswerOk(gives, ack)
  BY <1>2, <1>3
<1>10. /\ reported'.state = "whole" /\ model' = model /\ allocations' = allocations
       /\ Acknowledgeable(ack, reported'.position, gives) /\ reported'.pending = records
       /\ reported'.position \in Nat
  BY <1>1, <1>8, <1>9, AnswerReports
<1>11. reported'.position = before + 1
  <2>1. PICK a \in 0 .. MaximumDrafts, r \in 1 .. MaximumDrafts :
          /\ ack = <<[accepted |-> a, records |-> r]>>
          /\ Len(gives) = reported'.position + a
    BY <1>10 DEF Acknowledgeable
  <2>2. a = accepted
    <3>1. ack[1].accepted = a
      BY <2>1
    <3> QED BY <1>8, <3>1
  <2>3. accepted \in Nat
    BY DraftsAssumption
  <2>4. PICK position : position = reported'.position
    OBVIOUS
  <2>5. position \in Nat /\ position + accepted = (before + 1) + accepted
    BY <1>7, <1>10, <2>1, <2>2, <2>4
  <2>6. position = before + 1
    BY <1>6, <2>3, <2>5
  <2> QED BY <2>4, <2>6
<1>12. records \in 0 .. MaximumDrafts
  BY DraftsAssumption
<1>13. Contract!DecodeOk(TRUE, records)
  BY <1>5, <1>7, <1>10, <1>11 DEF Contract!DecodeOk, Loaded
<1> QED BY <1>12, <1>13 DEF Contract!ContractNext

LEMMA SelectedToken ==
  ASSUME MetalInv, ExecutorInv, ExecutorInv', call.at = "select",
         AnswerOk(call.gives, << >>)
  PROVE  Contract!ContractNext
<1>1. ExecutorTyped /\ CallInv /\ Holds(call.gives) /\ ~Drafted
  BY DEF ExecutorInv, IdleInv, IdleCall
<1>2. PICK gives : gives = call.gives
  OBVIOUS
<1>3. /\ reported'.state = "whole" /\ model' = model /\ allocations' = allocations
      /\ reported'.pending = 0 /\ reported'.position = Len(gives)
  <2>1. AnswerOk(gives, << >>)
    BY <1>2
  <2> QED BY <1>1, <2>1, AnswerReports
<1>4. Len(gives) \in 1 .. Context /\ model = "warm"
  <2>1. model = "warm" /\ policy.maximum_tokens = Context
    BY <1>1 DEF CallInv, ExecutorTyped, Loaded
  <2>2. /\ Len(gives) <= policy.maximum_tokens /\ policy.maximum_tokens \in Nat
        /\ tokens = Len(gives) /\ tokens \in Nat
    BY <1>1, <1>2, Count DEF Holds
  <2>3. gives \in Seq(Values) /\ gives # << >>
    BY <1>1, <1>2, GivesIsTyped
  <2>4. Len(gives) # 0
    BY <2>3, EmptySeq
  <2> QED BY <2>1, <2>2, <2>4
<1>5. CASE call.method = "prefill"
  <2>1. reported = Untouched
    BY <1>1, <1>5 DEF CallInv
  <2>2. reported.position = 0 /\ reported.pending = 0
    BY <2>1 DEF Untouched
  <2>3. Contract!PrefillFresh(Len(gives))
    BY <1>3, <1>4, <2>2 DEF Contract!PrefillFresh, Contract!PrefillOk, Loaded
  <2> QED BY <1>4, <2>3 DEF Contract!ContractNext
<1>6. CASE call.method = "decode"
  <2>1. PICK before : before = Len(reported.tokens)
    OBVIOUS
  <2>2. /\ reported.state = "whole" /\ reported.pending = 0
        /\ reported.position = before /\ Len(gives) = before + 1
    BY <1>1, <1>2, <1>6, <2>1 DEF CallInv, Drafted
  <2>3. before \in Nat /\ before + 1 <= Context
    BY <1>1, <1>4, <2>1, <2>2, LenProperties DEF ExecutorTyped
  <2>4. before + 1 + 0 <= Context
    BY <2>3
  <2>5. Contract!DecodeOk(FALSE, 0)
    BY <1>3, <1>4, <2>2, <2>4 DEF Contract!DecodeOk, Loaded
  <2>6. 0 \in 0 .. MaximumDrafts
    BY DraftsAssumption
  <2> QED BY <2>5, <2>6 DEF Contract!ContractNext
<1> QED BY <1>1, <1>5, <1>6 DEF CallInv

LEMMA AcknowledgedDrafts ==
  ASSUME ExecutorInv, ExecutorInv', Acknowledge
  PROVE  Contract!ContractNext
<1>1. InSession /\ pending_ack # << >> /\ AnswerOk(reported.tokens, << >>)
  BY DEF Acknowledge
<1>2. ExecutorTyped /\ OpenInv /\ model = "warm"
  BY <1>1, SessionIsOpen
<1>3. PICK gives : gives = reported.tokens
  OBVIOUS
<1>4. PICK accepted \in 0 .. MaximumDrafts, records \in 1 .. MaximumDrafts :
        /\ pending_ack = <<[accepted |-> accepted, records |-> records]>>
        /\ accepted <= records
        /\ Len(gives) = reported.position + accepted
  BY <1>1, <1>2, <1>3 DEF OpenInv, Acknowledgeable
<1>5. reported.pending = records /\ reported.state = "whole"
  <2>1. pending_ack[1].records = records
    BY <1>4
  <2> QED BY <1>1, <1>2, <2>1 DEF OpenInv
<1>6. /\ reported'.state = "whole" /\ model' = model /\ allocations' = allocations
      /\ reported'.pending = 0 /\ reported'.position = Len(gives)
  <2>1. AnswerOk(gives, << >>)
    BY <1>1, <1>3
  <2> QED BY <1>2, <2>1, AnswerReports
<1>7. records > 0
  OBVIOUS
<1>8. Contract!CommitOk(accepted)
  BY <1>2, <1>4, <1>5, <1>6, <1>7 DEF Contract!CommitOk, Loaded
<1> QED BY <1>8 DEF Contract!ContractNext

LEMMA ContractStep ==
  ASSUME MetalInv, ExecutorInv, ExecutorInv',
         [MetalNext]_<<vars, transactionVars, executorVars>>
  PROVE  [Contract!ContractNext]_(Contract!executorVars)
<1>0. ASSUME UNCHANGED <<model, allocations, reported>>
      PROVE  UNCHANGED Contract!executorVars
  BY <1>0 DEF Contract!executorVars, Loaded
<1>1. CASE \/ UNCHANGED <<vars, transactionVars, executorVars>>
           \/ model = "new" /\ Next /\ UNCHANGED <<transactionVars, executorVars>>
  BY <1>0, <1>1 DEF executorVars
<1>2. CASE Load
  <2>1. /\ Idle /\ model = "new" /\ model' = "resident" /\ reported' = reported
    BY <1>2 DEF Load
  <2>2. session.status = "none" /\ reported = Untouched
    BY <2>1, IsIdle DEF ExecutorTyped, IdleInv, Loaded
  <2>3. Contract!LoadOk
    BY <2>1, <2>2 DEF Contract!LoadOk, Untouched, Loaded
  <2> QED BY <2>3 DEF Contract!ContractNext
<1>3. CASE Warmup
  <2>1. Contract!WarmupOk
    BY <1>3 DEF Warmup, Contract!WarmupOk, Loaded
  <2> QED BY <2>1 DEF Contract!ContractNext
<1>4. CASE ResetSession
  <2>1. model' = model /\ allocations' = allocations /\ reported' = Untouched
    BY <1>4 DEF ResetSession
  <2>2. Contract!ResetOk
    BY <2>1 DEF Contract!ResetOk, Untouched, Loaded
  <2> QED BY <2>2 DEF Contract!ContractNext
<1>5. CASE Unload
  <2>1. model' = "unloaded" /\ allocations' \in {"zero", "residue"} /\ reported' = Untouched
    BY <1>5 DEF Unload
  <2>2. PICK residue \in BOOLEAN : residue <=> allocations' = "residue"
    OBVIOUS
  <2>3. Contract!UnloadDrops(residue)
    BY <2>1, <2>2 DEF Contract!UnloadDrops, Untouched, Loaded
  <2> QED BY <2>3 DEF Contract!ContractNext
<1>6. CASE Prefill
  BY <1>0, <1>6 DEF Prefill
<1>7. CASE PrefillCancelled \/ DecodeRefused \/ AcknowledgeRefused \/ Stop
  <2>1. ExecutorTyped
    BY DEF ExecutorInv
  <2>2. \E outcome : AnswerError(outcome)
    BY <1>7 DEF PrefillCancelled, DecodeRefused, AcknowledgeRefused, Stop
  <2> QED BY <2>1, <2>2, ErrorIsReported
<1>8. CASE DecodeTarget \/ DecodeWithDrafts
  BY <1>0, <1>8 DEF DecodeTarget, DecodeWithDrafts, Continue
<1>9. CASE \/ Begin \/ BeginStops \/ Encode \/ EncodeStops \/ CompletionStops
           \/ ReplayDiverges \/ Reject \/ Restore
  BY <1>0, <1>9 DEF Begin, BeginStops, Encode, EncodeStops, CompletionStops, ReplayDiverges,
                    Reject, Restore, Continue
<1>10. CASE Commit
  <2>1. CASE ~(Len(call.todo) > 1) /\ Drafted /\ AnswerOk(call.gives, call.ack)
    BY <1>10, <2>1, CommitSplits, DraftedDecode
  <2>2. CASE \/ Continue([call EXCEPT !.todo = Tail(@), !.at = "begin"])
             \/ Continue(To("select"))
    BY <1>0, <2>2 DEF Continue
  <2> QED BY <1>10, <2>1, <2>2, CommitSplits
<1>11. CASE Select
  <2>1. CASE AnswerOk(call.gives, << >>)
    BY <1>11, <2>1, SelectedToken DEF Select
  <2>2. CASE Continue(To("stop"))
    BY <1>0, <2>2 DEF Continue
  <2> QED BY <1>11, <2>1, <2>2 DEF Select
<1>12. CASE Acknowledge
  BY <1>12, AcknowledgedDrafts
<1> QED BY <1>1, <1>2, <1>3, <1>4, <1>5, <1>6, <1>7, <1>8, <1>9, <1>10, <1>11, <1>12
        DEF MetalNext, ExecutorNext

(* MetalModelExecutor answers as the ModelExecutor trait promises the       *)
(* engine: one token and a branch that fits for a decode although its       *)
(* accepted drafts are already kept, exactly the accepted prefix for an     *)
(* acknowledgement, and every failure on the way as an error.               *)
THEOREM MetalImplementsExecutor == MetalSpec => ImplementsExecutor
<1>1. MetalInit => Contract!ExecutorInit
  BY DEF MetalInit, ExecutorInit, Contract!ExecutorInit, Untouched, Loaded
<1>2. /\ MetalInv /\ ExecutorInv /\ (MetalInv /\ ExecutorInv)'
      /\ [MetalNext]_<<vars, transactionVars, executorVars>>
      => [Contract!ContractNext]_(Contract!executorVars)
  BY ContractStep
<1> QED BY <1>1, <1>2, ExecutorInvHolds, PTL
        DEF MetalSpec, ImplementsExecutor, Contract!ContractSpec

=============================================================================
