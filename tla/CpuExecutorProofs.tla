-------------------------- MODULE CpuExecutorProofs --------------------------
(***************************************************************************)
(* Proofs about the reference cache PagedKvCache and about the scalar      *)
(* oracle CpuExecutor whose attention state it is, for every capacity,     *)
(* policy, context and draft depth.                                        *)
(***************************************************************************)
EXTENDS CpuExecutor, FiniteSetTheorems, SequenceTheorems, WellFoundedInduction, TLAPS

-----------------------------------------------------------------------------
(* Numbers and sequences *)

LEMMA LeastNatural ==
  ASSUME NEW T, T \subseteq Nat, T # {}
  PROVE  \E x \in T : \A y \in T : x <= y
<1> DEFINE R == OpToRel(<, Nat)
<1>1. IsWellFoundedOn(R, Nat)
  BY NatLessThanWellFounded
<1>2. R = {ss \in Nat \X Nat : ss[1] < ss[2]}
  BY DEF OpToRel
<1> HIDE DEF R
<1>3. PICK x \in T : \A y \in T : ~ (<<y, x>> \in R)
  BY ONLY <1>1, T \subseteq Nat, T # {}, WFMin
<1>4. \A y \in T : ~(y < x)
  BY <1>2, <1>3
<1> QED BY <1>3, <1>4

LEMMA DivMod ==
  ASSUME NEW a \in Nat, NEW n \in Nat \ {0}
  PROVE  /\ a \div n \in Nat /\ a % n \in 0 .. n - 1
         /\ a = n * (a \div n) + (a % n)
OBVIOUS

LEMMA Monotone ==
  ASSUME NEW n \in Nat, NEW a \in Int, NEW b \in Int, a <= b
  PROVE  n * a <= n * b
<1>1. n * (b - a) >= 0
  OBVIOUS
<1> QED BY <1>1

\* Quotient and remainder are determined.
LEMMA DivModIs ==
  ASSUME NEW n \in Nat \ {0}, NEW q \in Nat, NEW r \in 0 .. n - 1
  PROVE  (n * q + r) \div n = q /\ (n * q + r) % n = r
<1> DEFINE a == n * q + r
           d == a \div n
           m == a % n
<1>1. a \in Nat /\ n * q \in Nat
  OBVIOUS
<1>2. d \in Nat /\ m \in 0 .. n - 1 /\ a = n * d + m
  BY <1>1, DivMod
<1>3. n * d \in Nat
  BY <1>2
<1> HIDE DEF d, m
<1>4. CASE d < q
  <2>1. n * (d + 1) <= n * q
    BY <1>2, <1>4, Monotone
  <2>2. n * (d + 1) = n * d + n
    BY <1>2
  <2> QED BY <1>1, <1>2, <1>3, <2>1, <2>2
<1>5. CASE q < d
  <2>1. n * (q + 1) <= n * d
    BY <1>2, <1>5, Monotone
  <2>2. n * (q + 1) = n * q + n
    OBVIOUS
  <2> QED BY <1>1, <1>2, <1>3, <2>1, <2>2
<1>6. CASE d = q
  BY <1>1, <1>2, <1>6 DEF d, m
<1> QED BY <1>2, <1>4, <1>5, <1>6

PageAt(n, t) == (t - 1) \div n + 1
CellAt(n, t) == ((t - 1) % n) + 1

\* The token of a place, and the place of a token.
LEMMA PlaceOf ==
  ASSUME NEW n \in Nat \ {0}, NEW t \in Nat \ {0}
  PROVE  /\ PageAt(n, t) \in Nat \ {0} /\ CellAt(n, t) \in 1 .. n
         /\ t = n * (PageAt(n, t) - 1) + CellAt(n, t)
<1>1. t - 1 \in Nat
  OBVIOUS
<1> DEFINE d == (t - 1) \div n
           m == (t - 1) % n
<1>2. d \in Nat /\ m \in 0 .. n - 1 /\ t - 1 = n * d + m
  BY <1>1, DivMod
<1>3. n * d \in Nat
  BY <1>2
<1>4. PageAt(n, t) = d + 1 /\ CellAt(n, t) = m + 1
  BY DEF PageAt, CellAt
<1> HIDE DEF d, m
<1>5. PageAt(n, t) - 1 = d
  BY <1>2, <1>4
<1> QED BY <1>2, <1>3, <1>4, <1>5

LEMMA PlaceIs ==
  ASSUME NEW n \in Nat \ {0}, NEW p \in Nat \ {0}, NEW c \in 1 .. n,
         NEW t, t = n * (p - 1) + c
  PROVE  t \in Nat \ {0} /\ PageAt(n, t) = p /\ CellAt(n, t) = c
<1>1. p - 1 \in Nat /\ c - 1 \in 0 .. n - 1
  OBVIOUS
<1>2. n * (p - 1) \in Nat
  BY <1>1
<1>3. /\ (n * (p - 1) + (c - 1)) \div n = p - 1
      /\ (n * (p - 1) + (c - 1)) % n = c - 1
  BY <1>1, DivModIs
<1>4. t - 1 = n * (p - 1) + (c - 1)
  BY <1>2
<1> QED BY <1>2, <1>3, <1>4 DEF PageAt, CellAt

LEMMA FirstPage ==
  ASSUME NEW n \in Nat \ {0}, NEW t \in 1 .. n
  PROVE  PageAt(n, t) = 1 /\ CellAt(n, t) = t
<1> DEFINE p == PageAt(n, t)
           c == CellAt(n, t)
<1>1. p \in Nat \ {0} /\ c \in 1 .. n /\ t = n * (p - 1) + c
  BY PlaceOf
<1> HIDE DEF p, c
<1>2. CASE p # 1
  <2>1. p - 1 \in Int /\ 1 <= p - 1 /\ n * (p - 1) \in Int
    BY <1>1, <1>2
  <2>2. n * 1 <= n * (p - 1)
    BY <2>1, Monotone
  <2>3. n * 1 = n
    OBVIOUS
  <2> QED BY <1>1, <2>1, <2>2, <2>3
<1>3. CASE p = 1
  <2>1. n * (p - 1) = 0
    BY <1>3
  <2> QED BY <1>1, <1>3, <2>1 DEF p, c
<1> QED BY <1>2, <1>3

LEMMA Concat ==
  ASSUME NEW S, NEW a \in Seq(S), NEW b \in Seq(S)
  PROVE  a \o b = [t \in 1 .. Len(a) + Len(b) |->
                      IF t <= Len(a) THEN a[t] ELSE b[t - Len(a)]]
<1> DEFINE c == a \o b
<1>1. /\ c \in Seq(S) /\ Len(c) = Len(a) + Len(b)
      /\ \A t \in 1 .. Len(a) + Len(b) :
            c[t] = IF t <= Len(a) THEN a[t] ELSE b[t - Len(a)]
  BY ConcatProperties
<1> HIDE DEF c
<1>2. c = [t \in 1 .. Len(a) + Len(b) |-> c[t]]
  BY <1>1
<1>3. c = [t \in 1 .. Len(a) + Len(b) |-> IF t <= Len(a) THEN a[t] ELSE b[t - Len(a)]]
  BY <1>1, <1>2
<1> QED BY <1>3 DEF c

\* FlattenSeq of pieces that are all of length n, but for a shorter last one.
LEMMA Flattened ==
  ASSUME NEW n \in Nat \ {0}, NEW S, NEW seqs \in Seq(Seq(S)), seqs # << >>,
         \A i \in 1 .. Len(seqs) : i < Len(seqs) => Len(seqs[i]) = n,
         Len(seqs[Len(seqs)]) \in 1 .. n
  PROVE  FlattenSeq(seqs) =
            [t \in 1 .. n * (Len(seqs) - 1) + Len(seqs[Len(seqs)]) |->
                seqs[PageAt(n, t)][CellAt(n, t)]]
<1> DEFINE k == Len(seqs)
           joined(i) == [t \in 1 .. n * (i - 1) + Len(seqs[i]) |->
                            seqs[PageAt(n, t)][CellAt(n, t)]]
           step(f) == [i \in 1 .. k |-> IF i = 1 THEN seqs[i] ELSE f[i - 1] \o seqs[i]]
           flatten == CHOOSE f : f = step(f)
           g == [i \in 1 .. k |-> joined(i)]
<1>1. /\ k \in Nat \ {0} /\ DOMAIN seqs = 1 .. k
      /\ \A i \in 1 .. k : seqs[i] \in Seq(S) /\ Len(seqs[i]) \in 1 .. n
  OBVIOUS
<1>2. FlattenSeq(seqs) = flatten[k]
  BY <1>1 DEF FlattenSeq
<1>3. ASSUME NEW i \in 1 .. k
      PROVE  joined(i) = IF i = 1 THEN seqs[i] ELSE joined(i - 1) \o seqs[i]
  <2> DEFINE m == Len(seqs[i])
  <2>1. m \in 1 .. n /\ seqs[i] \in Seq(S) /\ DOMAIN seqs[i] = 1 .. m
        /\ seqs[i] = [t \in 1 .. m |-> seqs[i][t]]
    BY <1>1
  <2>2. CASE i = 1
    <3>1. n * (i - 1) = 0
      BY <2>2
    <3>2. \A t \in 1 .. m : PageAt(n, t) = 1 /\ CellAt(n, t) = t
      <4>1. ASSUME NEW t \in 1 .. m PROVE PageAt(n, t) = 1 /\ CellAt(n, t) = t
        <5> QED BY <2>1, FirstPage
      <4> QED BY <4>1
    <3>3. n * (i - 1) + Len(seqs[i]) = m
      <4> DEFINE b == n * (i - 1)
      <4>1. m \in Nat /\ Len(seqs[i]) = m /\ b = 0
        BY <2>1, <3>1
      <4> HIDE DEF m, b
      <4> QED BY <4>1 DEF b
    <3>4. joined(i) = [t \in 1 .. m |-> seqs[PageAt(n, t)][CellAt(n, t)]]
      BY ONLY <3>3 DEF joined
    <3>5. \A t \in 1 .. m : seqs[PageAt(n, t)][CellAt(n, t)] = seqs[i][t]
      BY <2>2, <3>2
    <3> HIDE DEF m, joined
    <3>6. joined(i) = [t \in 1 .. m |-> seqs[i][t]]
      BY <3>4, <3>5
    <3> QED BY <2>1, <2>2, <3>6
  <2>3. CASE i # 1
    <3> DEFINE b == n * (i - 1)
    <3>1. /\ i - 1 \in 1 .. k /\ i - 1 < k /\ b \in Nat
          /\ n * (i - 1 - 1) + n = b
      <4>1. i - 1 \in 1 .. k /\ i - 1 < k
        BY <1>1, <2>3
      <4>2. b \in Nat /\ n * (i - 1 - 1) + n = b
        BY <4>1
      <4> QED BY <4>1, <4>2
    <3>2. Len(seqs[i - 1]) = n
      BY <1>1, <3>1
    <3> HIDE DEF b, m, k
    <3>3. joined(i - 1) = [t \in 1 .. b |-> seqs[PageAt(n, t)][CellAt(n, t)]]
      BY <3>1, <3>2
    <3>4. joined(i) = [t \in 1 .. b + m |-> seqs[PageAt(n, t)][CellAt(n, t)]]
      BY DEF b, m
    <3>5. joined(i - 1) \in Seq(S) /\ Len(joined(i - 1)) = b
      <4>1. ASSUME NEW t \in 1 .. b PROVE seqs[PageAt(n, t)][CellAt(n, t)] \in S
        <5>1. t \in Nat \ {0}
          BY <3>1
        <5>2. /\ PageAt(n, t) \in Nat \ {0} /\ CellAt(n, t) \in 1 .. n
              /\ t = n * (PageAt(n, t) - 1) + CellAt(n, t)
          BY <5>1, PlaceOf
        <5> DEFINE p == PageAt(n, t)
                   c == CellAt(n, t)
        <5> HIDE DEF p, c
        <5>3. p < i
          <6>1. SUFFICES ASSUME i <= p PROVE FALSE
            BY <3>1, <5>2 DEF p, k
          <6>2. i - 1 \in Int /\ p - 1 \in Int /\ i - 1 <= p - 1
            BY <3>1, <5>2, <6>1 DEF p
          <6>3. b <= n * (p - 1)
            BY <6>2, Monotone DEF b
          <6>4. n * (p - 1) \in Int
            BY <6>2
          <6> DEFINE e == n * (p - 1)
          <6>5. t \in 1 .. b /\ b \in Nat /\ t = e + c /\ c \in 1 .. n
            BY <3>1, <5>2 DEF p, c
          <6>6. e \in Int /\ b <= e
            BY <6>3, <6>4
          <6> HIDE DEF e
          <6> QED BY ONLY <6>5, <6>6, n \in Nat
        <5>4. p \in 1 .. k /\ p < k
          <6>1. k \in Nat /\ i \in 1 .. k
            BY <1>1 DEF k
          <6>2. p \in Nat \ {0} /\ p < i
            BY <5>2, <5>3 DEF p
          <6> QED BY ONLY <6>1, <6>2
        <5>5. seqs[p] \in Seq(S) /\ Len(seqs[p]) = n
          BY <1>1, <5>4 DEF k
        <5>6. seqs[p][c] \in S
          BY <5>2, <5>5 DEF c
        <5> QED BY <5>6 DEF p, c
      <4> DEFINE J == joined(i - 1)
      <4>2. J \in [1 .. b -> S]
        BY <3>3, <4>1
      <4> HIDE DEF J
      <4>3. J \in Seq(S) /\ Len(J) = b
        BY <3>1, <4>2
      <4> QED BY <4>3 DEF J
    <3> HIDE DEF joined
    <3>6. joined(i - 1) \o seqs[i] =
            [t \in 1 .. b + m |-> IF t <= b THEN joined(i - 1)[t] ELSE seqs[i][t - b]]
      <4> DEFINE J == joined(i - 1)
      <4>1. J \in Seq(S) /\ Len(J) = b /\ seqs[i] \in Seq(S) /\ Len(seqs[i]) = m
        BY <2>1, <3>5 DEF m
      <4> HIDE DEF J
      <4>2. J \o seqs[i] = [t \in 1 .. Len(J) + Len(seqs[i]) |->
                              IF t <= Len(J) THEN J[t] ELSE seqs[i][t - Len(J)]]
        BY ONLY <4>1, Concat
      <4> QED BY <4>1, <4>2 DEF J
    <3>7. ASSUME NEW t \in 1 .. b + m
          PROVE  (IF t <= b THEN joined(i - 1)[t] ELSE seqs[i][t - b])
                    = seqs[PageAt(n, t)][CellAt(n, t)]
      <4>1. CASE t <= b
        BY <2>1, <3>1, <3>3, <4>1
      <4>2. CASE b < t
        <5> DEFINE c == t - b
        <5>1. c \in 1 .. n /\ i \in Nat \ {0} /\ t = b + c
          BY <2>1, <3>1, <4>2 DEF m, k
        <5> HIDE DEF c
        <5>2. PageAt(n, t) = i /\ CellAt(n, t) = c
          <6>1. t = n * (i - 1) + c
            BY <5>1 DEF b
          <6> QED BY ONLY <5>1, <6>1, n \in Nat \ {0}, PlaceIs
        <5>3. t - b = c
          BY <5>1, <3>1
        <5> QED BY <3>1, <4>2, <5>1, <5>2, <5>3
      <4> QED BY <2>1, <3>1, <4>1, <4>2
    <3>8. joined(i - 1) \o seqs[i] = joined(i)
      BY <3>4, <3>6, <3>7
    <3> QED BY <2>3, <3>8
  <2> QED BY <2>2, <2>3
<1>4. g = step(g)
  <2>1. \A i \in 1 .. k : i # 1 => i - 1 \in 1 .. k
    BY <1>1
  <2> HIDE DEF joined, k
  <2>2. \A i \in 1 .. k : i # 1 => g[i - 1] = joined(i - 1)
    BY <2>1
  <2> QED BY <1>3, <2>2
<1>5. flatten = step(flatten)
  <2> HIDE DEF g, step
  <2> QED BY <1>4 DEF flatten
<1> HIDE DEF flatten
<1>6. flatten[k] = joined(k)
  <2> DEFINE T == {i \in 1 .. k : flatten[i] # joined(i)}
  <2>1. SUFFICES ASSUME T # {} PROVE FALSE
    <3>1. k \in 1 .. k
      BY <1>1
    <3> HIDE DEF joined, k
    <3> QED BY <2>1, <3>1
  <2>2. T \subseteq Nat
    OBVIOUS
  <2>3. PICK i \in T : \A j \in T : i <= j
    BY ONLY <2>1, <2>2, LeastNatural
  <2>4. i \in 1 .. k /\ i \in Nat /\ flatten[i] # joined(i)
    BY <2>3
  <2>5. i # 1 => i - 1 \in 1 .. k /\ ~(i <= i - 1)
    BY <1>1, <2>4
  <2> HIDE DEF joined, k
  <2>6. i # 1 => flatten[i - 1] = joined(i - 1)
    BY <2>3, <2>5
  <2>7. flatten[i] = IF i = 1 THEN seqs[i] ELSE flatten[i - 1] \o seqs[i]
    BY <1>5, <2>4
  <2> QED BY <1>3, <2>4, <2>6, <2>7
<1> QED BY <1>2, <1>6
-----------------------------------------------------------------------------
(* The pages *)

Page == [precision : {Q2, Q4}, maximum_tokens : 1 .. Capacity, values : Seq(Values)]

(* The place of the t-th token, when every page but the last is full.       *)
At(t) == PageAt(policy.page_tokens, t)
In(t) == CellAt(policy.page_tokens, t)

Read(book, t) ==
    [value |-> book[At(t)].values[In(t)], precision |-> book[At(t)].precision]

(* A page as the cache keeps it: it has room for page_tokens or for what    *)
(* the capacity leaves, and it is at Q2 only if all its tokens are outside  *)
(* sink and window.                                                         *)
PageInv(page, index, count) ==
    /\ page \in Page
    /\ page.maximum_tokens = Lesser(policy.page_tokens,
                                    policy.maximum_tokens - PageStart(index))
    /\ Len(page.values) \in 1 .. page.maximum_tokens
    /\ page.precision = Q2 =>
          /\ PageStart(index) >= policy.sink_tokens
          /\ PageStart(index) + Len(page.values) + policy.recent_tokens <= count

(* Pages that hold count tokens: all but the last are full.                 *)
BookInv(book, count) ==
    /\ count \in 0 .. policy.maximum_tokens
    /\ book \in Seq(Page)
    /\ \A a \in DOMAIN book :
          /\ PageInv(book[a], a, count)
          /\ a < Len(book) => Len(book[a].values) = policy.page_tokens
    /\ IF Len(book) = 0 THEN count = 0
       ELSE count = PageStart(Len(book)) + Len(book[Len(book)].values)

LEMMA Geometry ==
  ASSUME policy \in Policies
  PROVE  /\ policy.page_tokens \in Nat \ {0} /\ policy.maximum_tokens \in Nat \ {0}
         /\ policy.page_tokens \in 1 .. Capacity
         /\ policy.sink_tokens \in Nat /\ policy.recent_tokens \in Nat
         /\ policy.maximum_tokens \in 1 .. Capacity /\ Capacity \in Nat
BY CapacityAssumption DEF Policies

LEMMA StartIs ==
  ASSUME policy \in Policies, NEW a \in Nat \ {0}
  PROVE  /\ PageStart(a) \in Nat /\ PageStart(a) = policy.page_tokens * (a - 1)
         /\ PageStart(a + 1) = PageStart(a) + policy.page_tokens
         /\ PageStart(1) = 0
<1> DEFINE P == policy.page_tokens
<1>1. P \in Nat \ {0}
  BY Geometry
<1> HIDE DEF P
<1>2. /\ (a - 1) * P \in Nat /\ (a - 1) * P = P * (a - 1)
      /\ (a + 1 - 1) * P = (a - 1) * P + P /\ (1 - 1) * P = 0
  BY <1>1
<1> QED BY <1>2 DEF PageStart, P

LEMMA PageFacts ==
  ASSUME policy \in Policies, NEW a \in Nat \ {0}, NEW count, NEW page,
         PageInv(page, a, count)
  PROVE  /\ page.values \in Seq(Values) /\ page.precision \in {Q2, Q4}
         /\ Len(page.values) \in 1 .. policy.page_tokens
         /\ Len(page.values) \in Nat \ {0} /\ DOMAIN page.values = 1 .. Len(page.values)
         /\ page.maximum_tokens \in Nat /\ Len(page.values) <= page.maximum_tokens
         /\ page.maximum_tokens = policy.page_tokens
            \/ page.maximum_tokens = policy.maximum_tokens - PageStart(a)
<1>1. /\ page.values \in Seq(Values) /\ page.precision \in {Q2, Q4}
      /\ page.maximum_tokens \in 1 .. Capacity
  BY DEF PageInv, Page
<1>2. /\ policy.page_tokens \in Nat /\ policy.maximum_tokens \in Nat /\ PageStart(a) \in Nat
      /\ Capacity \in Nat
  BY Geometry, StartIs
<1>3. Len(page.values) \in Nat /\ page.maximum_tokens \in Nat
  BY <1>1, <1>2
<1>4. 1 <= Len(page.values) /\ Len(page.values) <= page.maximum_tokens
  BY <1>3 DEF PageInv
<1>5. /\ page.maximum_tokens <= policy.page_tokens
      /\ page.maximum_tokens = policy.page_tokens
         \/ page.maximum_tokens = policy.maximum_tokens - PageStart(a)
  <2>1. page.maximum_tokens = Lesser(policy.page_tokens, policy.maximum_tokens - PageStart(a))
    BY DEF PageInv
  <2> QED BY <1>2, <1>3, <2>1 DEF Lesser
<1> QED BY <1>1, <1>2, <1>3, <1>4, <1>5

\* The tokens of a book lie in its pages.
LEMMA InTheBook ==
  ASSUME policy \in Policies, NEW book, NEW count, BookInv(book, count),
         NEW t \in 1 .. count
  PROVE  /\ At(t) \in 1 .. Len(book) /\ In(t) \in 1 .. Len(book[At(t)].values)
         /\ t = PageStart(At(t)) + In(t) /\ In(t) \in 1 .. policy.page_tokens
<1> DEFINE P == policy.page_tokens
           n == Len(book)
           a == At(t)
           c == In(t)
<1>1. /\ n \in Nat /\ DOMAIN book = 1 .. n /\ count \in Nat /\ t \in Nat \ {0}
      /\ P \in Nat \ {0}
  BY Geometry DEF BookInv
<1>2. a \in Nat \ {0} /\ c \in 1 .. P /\ t = P * (a - 1) + c
  BY <1>1, PlaceOf DEF At, In
<1>3. n # 0 /\ count = PageStart(n) + Len(book[n].values)
  BY <1>1 DEF BookInv
<1>4. Len(book[n].values) \in 1 .. P
  <2>1. PageInv(book[n], n, count) /\ n \in Nat \ {0}
    BY <1>1, <1>3 DEF BookInv
  <2> QED BY <2>1, PageFacts
<1>5. /\ PageStart(n) = P * (n - 1) /\ PageStart(a) = P * (a - 1)
      /\ PageStart(n) \in Nat /\ PageStart(a) \in Nat
  BY <1>1, <1>2, <1>3, StartIs
<1> HIDE DEF a, c, n, P
<1>6. a <= n
  <2> SUFFICES ASSUME n < a PROVE FALSE
    BY <1>1, <1>2
  <2>1. n \in Int /\ a - 1 \in Int /\ n <= a - 1
    BY <1>1, <1>2
  <2>2. P * n <= P * (a - 1) /\ P * n = P * (n - 1) + P /\ P * n \in Int
    BY <1>1, <2>1, Monotone
  <2>3. P * n <= PageStart(a) /\ P * n = PageStart(n) + P
    BY <1>5, <2>2
  <2>4. t = PageStart(a) + c /\ count = PageStart(n) + Len(book[n].values)
    BY <1>2, <1>3, <1>5
  <2> DEFINE pn == P * n
             L == Len(book[n].values)
  <2>5. /\ pn \in Int /\ pn <= PageStart(a) /\ pn = PageStart(n) + P
        /\ t = PageStart(a) + c /\ count = PageStart(n) + L /\ L \in 1 .. P
    BY <1>4, <2>2, <2>3, <2>4
  <2> HIDE DEF pn, L
  <2>6. c \in 1 .. P /\ P \in Nat \ {0} /\ PageStart(n) \in Nat /\ PageStart(a) \in Nat
    BY <1>1, <1>2, <1>5
  <2>7. L \in Int /\ L <= P /\ c \in Int /\ 1 <= c /\ t <= count
    BY <1>1, <2>5, <2>6
  <2> QED BY ONLY <2>5, <2>6, <2>7
<1>7. c \in 1 .. Len(book[a].values)
  <2>1. CASE a < n
    <3>1. a \in DOMAIN book
      BY <1>1, <1>2, <2>1
    <3>2. Len(book[a].values) = P
      BY <2>1, <3>1 DEF BookInv, P, n
    <3> QED BY <1>2, <3>2
  <2>2. CASE a = n
    BY <1>1, <1>2, <1>3, <1>4, <1>5, <2>2
  <2> QED BY <1>1, <1>2, <1>6, <2>1, <2>2
<1> QED BY <1>1, <1>2, <1>5, <1>6, <1>7 DEF a, c, n, P

\* What a reader gets, token by token.
LEMMA ViewIs ==
  ASSUME policy \in Policies, NEW book, NEW count, BookInv(book, count)
  PROVE  ViewOf(book) = [t \in 1 .. count |-> Read(book, t)]
<1> DEFINE P == policy.page_tokens
           n == Len(book)
           views == [index \in DOMAIN book |-> PageView(book[index])]
           Cell == [value : Values, precision : {Q2, Q4}]
<1>1. /\ n \in Nat /\ DOMAIN book = 1 .. n /\ P \in Nat \ {0}
      /\ \A a \in 1 .. n : /\ book[a].values \in Seq(Values) /\ book[a].precision \in {Q2, Q4}
                           /\ Len(book[a].values) \in 1 .. P
  <2>1. n \in Nat /\ DOMAIN book = 1 .. n /\ P \in Nat \ {0}
    BY Geometry DEF BookInv
  <2>2. ASSUME NEW a \in 1 .. n
        PROVE  /\ book[a].values \in Seq(Values) /\ book[a].precision \in {Q2, Q4}
               /\ Len(book[a].values) \in 1 .. P
    <3>1. PageInv(book[a], a, count) /\ a \in Nat \ {0}
      BY <2>1 DEF BookInv
    <3> QED BY <3>1, PageFacts
  <2> QED BY <2>1, <2>2
<1>2. CASE n = 0
  <2>1. count = 0
    BY <1>2 DEF BookInv
  <2>2. views = << >>
    BY <1>1, <1>2
  <2>3. Len(views) = 0
    BY <2>2
  <2>4. ViewOf(book) = << >>
    BY <2>2, <2>3 DEF ViewOf, FlattenSeq
  <2> QED BY <2>1, <2>4
<1>3. CASE n # 0
  <2>1. \A a \in 1 .. n : /\ views[a] \in Seq(Cell) /\ Len(views[a]) = Len(book[a].values)
                          /\ \A c \in 1 .. Len(book[a].values) :
                                views[a][c] = [value |-> book[a].values[c],
                                               precision |-> book[a].precision]
    <3> SUFFICES ASSUME NEW a \in 1 .. n
                 PROVE  /\ views[a] \in Seq(Cell) /\ Len(views[a]) = Len(book[a].values)
                        /\ \A c \in 1 .. Len(book[a].values) :
                                views[a][c] = [value |-> book[a].values[c],
                                               precision |-> book[a].precision]
      OBVIOUS
    <3> DEFINE m == Len(book[a].values)
    <3>1. /\ m \in Nat /\ DOMAIN book[a].values = 1 .. m
          /\ \A c \in 1 .. m : book[a].values[c] \in Values
      BY <1>1
    <3>2. views[a] = [c \in 1 .. m |-> [value |-> book[a].values[c],
                                        precision |-> book[a].precision]]
      BY <1>1, <3>1 DEF PageView
    <3>3. views[a] \in [1 .. m -> Cell]
      BY <1>1, <3>1, <3>2
    <3> DEFINE V == views[a]
    <3> HIDE DEF views, Cell, m, V
    <3>4. V \in Seq(Cell) /\ Len(V) = m
      BY <3>1, <3>3 DEF V
    <3>5. \A c \in 1 .. m : V[c] = [value |-> book[a].values[c],
                                    precision |-> book[a].precision]
      BY <3>2 DEF V
    <3> QED BY <3>4, <3>5 DEF V, m
  <2>2. views \in Seq(Seq(Cell)) /\ Len(views) = n /\ views # << >>
    <3>1. views \in [1 .. n -> Seq(Cell)]
      BY <1>1, <2>1
    <3> DEFINE W == Seq(Cell)
    <3> HIDE DEF views, W, n
    <3>2. views \in [1 .. n -> W]
      BY <3>1 DEF W
    <3>3. views \in Seq(W) /\ Len(views) = n
      BY <1>1, <3>2
    <3> QED BY <1>3, <3>3 DEF W
  <2>3. \A a \in 1 .. n : a < n => Len(views[a]) = P
    BY <1>1, <2>1 DEF BookInv
  <2>4. Len(views[n]) \in 1 .. P /\ Len(views[n]) = Len(book[n].values)
    <3>1. n \in 1 .. n
      BY <1>1, <1>3
    <3> HIDE DEF views, n, P
    <3> QED BY <1>1, <2>1, <3>1
  <2>5. count = P * (n - 1) + Len(views[n])
    <3>1. count = PageStart(n) + Len(book[n].values)
      BY <1>3 DEF BookInv
    <3>2. PageStart(n) = P * (n - 1)
      BY <1>1, <1>3, StartIs
    <3> HIDE DEF views, n, P
    <3> QED BY <2>4, <3>1, <3>2
  <2> HIDE DEF views, Cell, P, n
  <2>6. FlattenSeq(views) = [t \in 1 .. count |-> views[PageAt(P, t)][CellAt(P, t)]]
    <3>1. P \in Nat \ {0}
      BY <1>1
    <3>2. FlattenSeq(views) = [t \in 1 .. P * (Len(views) - 1) + Len(views[Len(views)]) |->
                                  views[PageAt(P, t)][CellAt(P, t)]]
      <4>1. /\ \A i \in 1 .. Len(views) : i < Len(views) => Len(views[i]) = P
            /\ Len(views[Len(views)]) \in 1 .. P
        BY <2>2, <2>3, <2>4
      <4>2. views \in Seq(Seq(Cell)) /\ views # << >>
        BY <2>2
      <4> QED BY ONLY <3>1, <4>1, <4>2, Flattened, Zenon
    <3> QED BY <2>2, <2>5, <3>2
  <2>7. \A t \in 1 .. count : views[PageAt(P, t)][CellAt(P, t)] = Read(book, t)
    BY <2>1, InTheBook DEF At, In, Read, P, n
  <2>8. ViewOf(book) = FlattenSeq(views)
    BY DEF ViewOf, views
  <2> QED BY <2>6, <2>7, <2>8
<1> QED BY <1>2, <1>3

-----------------------------------------------------------------------------
(* An append *)

\* The pages after one more token, before any of them is demoted.
LEMMA PackedFacts ==
  ASSUME policy \in Policies, BookInv(pages, tokens), tokens < policy.maximum_tokens,
         NEW value \in Values, NEW book, book = Packed(value), NEW n, n = Len(book)
  PROVE  /\ BookInv(book, tokens + 1)
         /\ n \in Nat \ {0} /\ DOMAIN book = 1 .. n
         /\ n = Len(pages) \/ n = Len(pages) + 1
         /\ \A a \in 1 .. n : a < n => book[a] = pages[a]
         /\ n = Len(pages) =>
               book[n] = [pages[n] EXCEPT !.values = Append(pages[n].values, value)]
         /\ n # Len(pages) =>
               book[n].values = <<value>> /\ book[n].precision = Q4
<1> DEFINE P == policy.page_tokens
           M == policy.maximum_tokens
           k == Len(pages)
           fresh == [precision |-> Q4, values |-> << >>,
                     maximum_tokens |-> Lesser(P, M - tokens)]
<1>1. /\ k \in Nat /\ DOMAIN pages = 1 .. k /\ pages \in Seq(Page) /\ tokens \in Nat
      /\ \A a \in 1 .. k : PageInv(pages[a], a, tokens)
      /\ \A a \in 1 .. k : a < k => Len(pages[a].values) = P
      /\ pages = << >> <=> k = 0
  BY Geometry DEF BookInv
<1>2. /\ P \in Nat \ {0} /\ M \in Nat \ {0} /\ P <= Capacity /\ M <= Capacity /\ Capacity \in Nat
      /\ policy.recent_tokens \in Nat
  BY Geometry
<1>3. \A a \in 1 .. k : PageInv(pages[a], a, tokens + 1)
  <2> SUFFICES ASSUME NEW a \in 1 .. k PROVE PageInv(pages[a], a, tokens + 1)
    OBVIOUS
  <2>1. PageInv(pages[a], a, tokens) /\ a \in Nat \ {0}
    BY <1>1
  <2>2. PageStart(a) \in Nat
    BY <2>1, StartIs
  <2>3. Len(pages[a].values) \in Nat
    BY <2>1, PageFacts
  <2> QED BY <1>1, <1>2, <2>1, <2>2, <2>3 DEF PageInv
<1>4. CASE k # 0 /\ ~IsFull(pages[k])
  <2> DEFINE grown == [pages[k] EXCEPT !.values = Append(pages[k].values, value)]
  <2>1. book = [pages EXCEPT ![k] = grown]
    <3>1. Last(pages) = pages[k]
      BY DEF Last
    <3> QED BY <1>1, <1>4, <3>1 DEF Packed
  <2>2. /\ k \in 1 .. k /\ k \in Nat \ {0} /\ PageInv(pages[k], k, tokens)
        /\ tokens = PageStart(k) + Len(pages[k].values) /\ PageStart(k) \in Nat
    BY <1>1, <1>4, StartIs DEF BookInv
  <2>3. /\ pages[k].values \in Seq(Values) /\ pages[k].precision \in {Q2, Q4}
        /\ Len(pages[k].values) \in 1 .. P
        /\ pages[k].maximum_tokens \in Nat
        /\ Len(pages[k].values) < pages[k].maximum_tokens
    <3>1. /\ pages[k].values \in Seq(Values) /\ pages[k].precision \in {Q2, Q4}
          /\ Len(pages[k].values) \in 1 .. P
          /\ pages[k].maximum_tokens \in Nat
          /\ Len(pages[k].values) <= pages[k].maximum_tokens
      BY <2>2, PageFacts
    <3>2. Len(pages[k].values) # pages[k].maximum_tokens
      BY <1>4 DEF IsFull
    <3> QED BY <1>2, <3>1, <3>2
  <2>4. /\ grown.values = Append(pages[k].values, value)
        /\ grown.precision = pages[k].precision
        /\ grown.maximum_tokens = pages[k].maximum_tokens
        /\ grown \in Page
        /\ Len(grown.values) = Len(pages[k].values) + 1
    <3>1. pages[k] \in Page
      BY <2>2 DEF PageInv
    <3>2. Append(pages[k].values, value) \in Seq(Values)
          /\ Len(Append(pages[k].values, value)) = Len(pages[k].values) + 1
      BY <2>3
    <3> QED BY <3>1, <3>2 DEF Page
  <2> HIDE DEF grown
  <2>5. n = k /\ DOMAIN book = 1 .. k /\ book[k] = grown
        /\ \A a \in 1 .. k : a # k => book[a] = pages[a]
    <3>1. DOMAIN book = 1 .. k /\ book[k] = grown
          /\ \A a \in 1 .. k : a # k => book[a] = pages[a]
      BY <1>1, <2>1, <2>2
    <3>2. \A a \in 1 .. k : book[a] \in Page
      BY <1>1, <2>2, <2>4, <3>1 DEF PageInv
    <3>3. book = [a \in 1 .. k |-> book[a]]
      BY <2>1, <3>1
    <3> HIDE DEF k
    <3>4. book \in [1 .. k -> Page]
      BY <3>2, <3>3
    <3>5. Len(book) = k
      BY <1>1, <3>4
    <3> QED BY <3>1, <3>5
  <2>6. book \in Seq(Page)
    BY <1>1, <2>1, <2>2, <2>4
  <2>7. PageInv(grown, k, tokens + 1)
    <3>1. grown.maximum_tokens = Lesser(P, M - PageStart(k))
      BY <2>2, <2>4 DEF PageInv
    <3>2. Len(grown.values) \in 1 .. grown.maximum_tokens
      BY <2>3, <2>4
    <3>3. grown.precision = Q2 =>
            /\ PageStart(k) >= policy.sink_tokens
            /\ PageStart(k) + Len(grown.values) + policy.recent_tokens <= tokens + 1
      <4>1. pages[k].precision = Q2 =>
              /\ PageStart(k) >= policy.sink_tokens
              /\ PageStart(k) + Len(pages[k].values) + policy.recent_tokens <= tokens
        BY <2>2 DEF PageInv
      <4>2. Len(pages[k].values) \in Nat
        BY <2>2, PageFacts
      <4>3. tokens \in Nat /\ PageStart(k) \in Nat /\ policy.recent_tokens \in Nat
        BY <1>1, <1>2, <2>2
      <4> HIDE DEF k
      <4> QED BY ONLY <2>4, <4>1, <4>2, <4>3
    <3> QED BY <2>4, <3>1, <3>2, <3>3 DEF PageInv
  <2>8. \A a \in 1 .. k : /\ PageInv(book[a], a, tokens + 1)
                          /\ a < k => Len(book[a].values) = P
    <3> SUFFICES ASSUME NEW a \in 1 .. k
                 PROVE  /\ PageInv(book[a], a, tokens + 1)
                        /\ a < k => Len(book[a].values) = P
      OBVIOUS
    <3>1. CASE a = k
      BY <2>2, <2>5, <2>7, <3>1
    <3>2. CASE a # k
      BY <1>1, <1>3, <2>5, <3>2
    <3> QED BY <3>1, <3>2
  <2>9. tokens + 1 = PageStart(k) + Len(book[k].values)
    <3>1. Len(pages[k].values) \in Nat
      BY <2>2, PageFacts
    <3>2. Len(book[k].values) = Len(pages[k].values) + 1
      BY <2>4, <2>5
    <3>3. tokens = PageStart(k) + Len(pages[k].values) /\ PageStart(k) \in Nat
      BY <2>2
    <3>4. tokens \in Nat
      BY <1>1
    <3> DEFINE start == PageStart(k)
               before == Len(pages[k].values)
               after == Len(book[k].values)
    <3>5. /\ before \in Nat /\ start \in Nat /\ tokens \in Nat
          /\ after = before + 1 /\ tokens = start + before
      BY <3>1, <3>2, <3>3, <3>4
    <3> HIDE DEF start, before, after
    <3>6. tokens + 1 = start + after
      BY ONLY <3>5
    <3> QED BY <3>6 DEF start, after
  <2>10. tokens + 1 \in 0 .. M
    BY <1>1, <1>2
  <2>11. BookInv(book, tokens + 1)
    BY <2>2, <2>5, <2>6, <2>8, <2>9, <2>10 DEF BookInv
  <2> QED BY <2>2, <2>5, <2>11 DEF grown
<1>5. CASE k = 0 \/ IsFull(pages[k])
  <2> DEFINE j == k + 1
             first == [fresh EXCEPT !.values = Append(fresh.values, value)]
             opened == Append(pages, fresh)
  <2>1. /\ j \in Nat \ {0} /\ opened = [a \in 1 .. j |-> IF a < j THEN pages[a] ELSE fresh]
        /\ Len(opened) = j
    <3>1. /\ DOMAIN opened = 1 .. j /\ Len(opened) = j
          /\ \A a \in 1 .. j : opened[a] = IF a < j THEN pages[a] ELSE fresh
      BY <1>1
    <3> HIDE DEF opened
    <3>2. opened = [a \in DOMAIN opened |-> opened[a]]
      BY <1>1 DEF opened
    <3> QED BY <1>1, <3>1, <3>2
  <2>2. book = [opened EXCEPT ![j] = first]
    <3>1. k # 0 => Last(pages) = pages[k]
      BY DEF Last
    <3>2. Packed(value) = [opened EXCEPT ![Len(opened)].values = Append(@, value)]
      BY <1>1, <1>5, <3>1 DEF Packed, NewPage
    <3>3. opened[j] = fresh
      BY <2>1
    <3> HIDE DEF opened, fresh
    <3> QED BY <2>1, <3>2, <3>3
  <2> HIDE DEF opened
  <2>3. /\ first.values = <<value>> /\ first.precision = Q4
        /\ first.maximum_tokens = Lesser(P, M - tokens)
        /\ first = [precision |-> Q4, values |-> <<value>>,
                    maximum_tokens |-> Lesser(P, M - tokens)]
    OBVIOUS
  <2> HIDE DEF first
  <2>4. /\ book = [a \in 1 .. j |-> book[a]] /\ book[j] = first
        /\ \A a \in 1 .. j : a < j => book[a] = pages[a]
    <3> HIDE DEF j
    <3>1. DOMAIN opened = 1 .. j /\ \A a \in 1 .. j : a < j => opened[a] = pages[a]
      BY <2>1
    <3>2. j \in 1 .. j /\ \A a \in 1 .. j : a < j => a # j
      BY <2>1
    <3>3. DOMAIN book = 1 .. j
      BY <2>2, <3>1
    <3> QED BY <2>2, <3>1, <3>2, <3>3
  <2>5. Lesser(P, M - tokens) \in 1 .. Capacity
    BY <1>1, <1>2 DEF Lesser
  <2>6. first \in Page
    BY <2>3, <2>5 DEF Page
  <2>7. book \in Seq(Page) /\ n = j /\ DOMAIN book = 1 .. j
        /\ book[j] = first /\ \A a \in 1 .. j : a < j => book[a] = pages[a]
    <3>1. \A a \in 1 .. j : a < j => a \in 1 .. k
      BY <1>1
    <3> HIDE DEF j
    <3>2. \A a \in 1 .. j : book[a] \in Page
      BY <1>1, <2>1, <2>4, <2>6, <3>1 DEF PageInv
    <3>3. book \in [1 .. j -> Page]
      BY <2>4, <3>2
    <3>4. book \in Seq(Page) /\ Len(book) = j
      BY <2>1, <3>3
    <3> QED BY <2>1, <2>4, <3>4
  <2>8. tokens = PageStart(j)
        /\ (k # 0 => Len(pages[k].values) = P)
    <3>1. CASE k = 0
      BY <3>1, StartIs DEF BookInv
    <3>2. CASE k # 0
      <4>1. k \in Nat \ {0} /\ PageInv(pages[k], k, tokens)
            /\ tokens = PageStart(k) + Len(pages[k].values)
        BY <1>1, <3>2 DEF BookInv
      <4>2. /\ PageStart(k) \in Nat /\ PageStart(k + 1) = PageStart(k) + P
            /\ Len(pages[k].values) \in Nat
            /\ pages[k].maximum_tokens = P \/ pages[k].maximum_tokens = M - PageStart(k)
        <5>1. PageStart(k) \in Nat /\ PageStart(k + 1) = PageStart(k) + P
          BY <4>1, StartIs
        <5>2. /\ Len(pages[k].values) \in Nat
              /\ pages[k].maximum_tokens = P \/ pages[k].maximum_tokens = M - PageStart(k)
          BY <4>1, PageFacts
        <5> QED BY <5>1, <5>2
      <4>3. Len(pages[k].values) = pages[k].maximum_tokens
        BY <1>5, <3>2 DEF IsFull
      <4>4. Len(pages[k].values) # M - PageStart(k)
        BY <1>2, <4>1, <4>2
      <4> QED BY <4>1, <4>2, <4>3, <4>4
    <3> QED BY <3>1, <3>2
  <2>9. PageInv(first, j, tokens + 1)
    <3>1. Len(first.values) = 1
      BY <2>3
    <3>2. Q2 # Q4
      BY DEF Q2, Q4
    <3> QED BY <2>3, <2>5, <2>6, <2>8, <3>1, <3>2 DEF PageInv
  <2>10. \A a \in 1 .. j : /\ PageInv(book[a], a, tokens + 1)
                           /\ a < j => Len(book[a].values) = P
    <3> SUFFICES ASSUME NEW a \in 1 .. j
                 PROVE  /\ PageInv(book[a], a, tokens + 1)
                        /\ a < j => Len(book[a].values) = P
      OBVIOUS
    <3>1. a = j \/ (a \in 1 .. k /\ a < j /\ (a = k \/ a < k) /\ k # 0)
      <4> HIDE DEF k
      <4> QED BY <1>1
    <3> HIDE DEF j
    <3>2. CASE a = j
      <4>1. ~(a < j)
        BY <2>1, <3>2
      <4> QED BY <2>7, <2>9, <3>2, <4>1
    <3>3. CASE a \in 1 .. k /\ a < j /\ (a = k \/ a < k) /\ k # 0
      <4>1. PageInv(pages[a], a, tokens + 1) /\ book[a] = pages[a]
        BY <1>3, <2>7, <3>3
      <4>2. Len(pages[a].values) = P
        BY <1>1, <2>8, <3>3
      <4> QED BY <4>1, <4>2
    <3> QED BY <3>1, <3>2, <3>3
  <2>11. tokens + 1 = PageStart(j) + Len(book[j].values)
    BY <2>3, <2>7, <2>8
  <2>12. tokens + 1 \in 0 .. M
    BY <1>1, <1>2
  <2>13. BookInv(book, tokens + 1)
    <3> HIDE DEF j
    <3>1. Len(book) = j /\ j # 0 /\ DOMAIN book = 1 .. j
      BY <2>1, <2>7
    <3>2. \A a \in DOMAIN book :
            /\ PageInv(book[a], a, tokens + 1)
            /\ a < Len(book) => Len(book[a].values) = policy.page_tokens
      BY <2>10, <3>1
    <3>3. IF Len(book) = 0 THEN tokens + 1 = 0
          ELSE tokens + 1 = PageStart(Len(book)) + Len(book[Len(book)].values)
      BY <2>11, <3>1
    <3>4. book \in Seq(Page) /\ tokens + 1 \in 0 .. policy.maximum_tokens
      BY <2>7, <2>12
    <3> QED BY ONLY <3>2, <3>3, <3>4 DEF BookInv
  <2>14. n # k /\ n = k + 1
    <3>1. n = k + 1 /\ k \in Nat
      BY <1>1, <2>7
    <3> HIDE DEF k
    <3> QED BY <3>1
  <2> HIDE DEF j, k
  <2> QED BY <2>1, <2>3, <2>7, <2>13, <2>14 DEF k
<1> QED BY <1>4, <1>5

\* A page that is demoted has left the window and is not in the sink.
LEMMA OldPages ==
  ASSUME policy \in Policies, NEW book, NEW count, BookInv(book, count),
         NEW a \in Old(book, count)
  PROVE  /\ a \in 1 .. Len(book) /\ PageStart(a) >= policy.sink_tokens
         /\ PageStart(a) + Len(book[a].values) + policy.recent_tokens <= count
<1>1. /\ a \in DOMAIN book /\ PageStart(a) >= policy.sink_tokens
      /\ PageStart(a) + Len(book[a].values) <= SaturatingSub(count, policy.recent_tokens)
  BY DEF Old
<1>2. a \in 1 .. Len(book) /\ a \in Nat \ {0} /\ PageInv(book[a], a, count)
      /\ count \in Nat /\ policy.recent_tokens \in Nat
  BY <1>1, Geometry DEF BookInv
<1>3. PageStart(a) \in Nat /\ Len(book[a].values) \in Nat \ {0}
  <2>1. PageStart(a) \in Nat
    BY <1>2, StartIs
  <2>2. Len(book[a].values) \in Nat \ {0}
    BY <1>2, PageFacts
  <2> QED BY <2>1, <2>2
<1> QED BY <1>1, <1>2, <1>3 DEF SaturatingSub

LEMMA Demotion ==
  ASSUME policy \in Policies, NEW book, NEW count, BookInv(book, count)
  PROVE  /\ BookInv(Demote(book, count), count)
         /\ Len(Demote(book, count)) = Len(book)
         /\ \A a \in 1 .. Len(book) :
               Demote(book, count)[a] = IF a \in Old(book, count)
                                        THEN [book[a] EXCEPT !.precision = Q2] ELSE book[a]
<1> DEFINE n == Len(book)
           after == Demote(book, count)
<1>1. n \in Nat /\ DOMAIN book = 1 .. n
      /\ \A a \in 1 .. n : PageInv(book[a], a, count) /\ book[a] \in Page
  BY DEF BookInv, PageInv
<1>2. after = [a \in 1 .. n |-> IF a \in Old(book, count)
                                THEN [book[a] EXCEPT !.precision = Q2] ELSE book[a]]
  BY <1>1 DEF Demote
<1>3. ASSUME NEW a \in 1 .. n
      PROVE  PageInv(after[a], a, count) /\ after[a].values = book[a].values
  <2>1. book[a] \in Page /\ PageInv(book[a], a, count)
    BY <1>1
  <2>2. CASE a \in Old(book, count)
    <3>1. after[a] = [book[a] EXCEPT !.precision = Q2]
      BY <1>2, <2>2
    <3>2. /\ after[a] \in Page /\ after[a].values = book[a].values
          /\ after[a].maximum_tokens = book[a].maximum_tokens
      BY <2>1, <3>1 DEF Page
    <3>3. /\ PageStart(a) >= policy.sink_tokens
          /\ PageStart(a) + Len(book[a].values) + policy.recent_tokens <= count
      BY <2>2, OldPages
    <3> HIDE DEF after
    <3> QED BY <2>1, <3>2, <3>3 DEF PageInv
  <2>3. CASE a \notin Old(book, count)
    BY <1>2, <2>1, <2>3
  <2> QED BY <2>2, <2>3
<1>4. after \in Seq(Page) /\ Len(after) = n /\ DOMAIN after = 1 .. n
  <2>1. \A a \in 1 .. n : after[a] \in Page
    BY <1>3 DEF PageInv
  <2>2. after = [a \in 1 .. n |-> after[a]]
    BY <1>2
  <2> HIDE DEF after
  <2>3. after \in [1 .. n -> Page]
    BY <2>1, <2>2
  <2> QED BY <1>1, <2>3
<1> HIDE DEF after
<1>5. BookInv(after, count)
  <2>1. \A a \in 1 .. n : /\ PageInv(after[a], a, count)
                          /\ a < n => Len(after[a].values) = policy.page_tokens
    BY <1>1, <1>3 DEF BookInv
  <2>2. IF n = 0 THEN count = 0 ELSE count = PageStart(n) + Len(after[n].values)
    BY <1>1, <1>3 DEF BookInv
  <2>3. count \in 0 .. policy.maximum_tokens
    BY DEF BookInv
  <2> QED BY <1>4, <2>1, <2>2, <2>3 DEF BookInv
<1> QED BY <1>2, <1>4, <1>5 DEF after

-----------------------------------------------------------------------------
(* The branch *)

Mark == [tokens : Nat, pages : Nat, last_page_bytes : Nat]

(* What Truncated makes of some pages.                                      *)
Cut(book, mark) ==
    [index \in 1 .. mark.pages |->
        IF index < mark.pages THEN book[index]
        ELSE [book[index] EXCEPT !.values =
                SubSeq(@, 1, mark.last_page_bytes \div TokenBytes(book[index].precision))]]

(* A mark names whole tokens of a page that is still there, and what a      *)
(* rollback makes of the pages is a cache as good as the present one.       *)
MarkInv(mark, book, count) ==
    /\ mark \in Mark
    /\ mark.tokens <= count /\ mark.pages <= Len(book)
    /\ mark.pages = 0 => mark.last_page_bytes = 0
    /\ mark.pages # 0 =>
          \E k \in 1 .. Len(book[mark.pages].values) :
             mark.last_page_bytes = TokenBytes(book[mark.pages].precision) * k
    /\ BookInv(Cut(book, mark), mark.tokens)

BranchInv ==
    \/ checkpoint = << >>
    \/ \E mark \in Mark : checkpoint = <<mark>> /\ MarkInv(mark, pages, tokens)

PagedInv ==
    /\ policy \in {p \in Policies : Admitted(p)}
    /\ BookInv(pages, tokens)
    /\ BranchInv

LEMMA SubSeqOfAppend ==
  ASSUME NEW S, NEW s \in Seq(S), NEW v \in S, NEW k \in 1 .. Len(s)
  PROVE  SubSeq(Append(s, v), 1, k) = SubSeq(s, 1, k)
OBVIOUS

LEMMA WholeSubSeq ==
  ASSUME NEW S, NEW s \in Seq(S)
  PROVE  SubSeq(s, 1, Len(s)) = s
OBVIOUS

LEMMA TokenBytesType ==
  ASSUME NEW precision
  PROVE  TokenBytes(precision) \in Nat \ {0}
BY BytesAssumption DEF TokenBytes

\* A mark names k tokens of its last page.
LEMMA WholeTokens ==
  ASSUME NEW bytes \in Nat \ {0}, NEW k \in Nat
  PROVE  (bytes * k) \div bytes = k
<1>1. 0 \in 0 .. bytes - 1
  OBVIOUS
<1>2. (bytes * k + 0) \div bytes = k
  BY <1>1, DivModIs
<1>3. bytes * k \in Nat
  OBVIOUS
<1> QED BY <1>2, <1>3

LEMMA CutIs ==
  ASSUME NEW mark \in Mark, NEW book, NEW k \in Nat,
         mark.last_page_bytes = TokenBytes(book[mark.pages].precision) * k
  PROVE  Cut(book, mark) =
            [index \in 1 .. mark.pages |->
                IF index < mark.pages THEN book[index]
                ELSE [book[index] EXCEPT !.values = SubSeq(@, 1, k)]]
<1> DEFINE m == mark.pages
           b == TokenBytes(book[m].precision)
<1>1. m \in Nat /\ b \in Nat \ {0}
  BY TokenBytesType DEF Mark
<1>2. mark.last_page_bytes \div b = k
  BY <1>1, WholeTokens
<1>3. \A index \in 1 .. m : ~(index < m) => index = m
  BY <1>1
<1>4. \A index \in 1 .. m : ~(index < m) =>
         mark.last_page_bytes \div TokenBytes(book[index].precision) = k
  BY <1>2, <1>3
<1> QED BY <1>4 DEF Cut

\* An append that retains Q4 leaves what a rollback returns to.
LEMMA PackedKeepsTheCut ==
  ASSUME policy \in Policies, BookInv(pages, tokens), tokens < policy.maximum_tokens,
         NEW value \in Values, NEW mark, MarkInv(mark, pages, tokens)
  PROVE  /\ Cut(Packed(value), mark) = Cut(pages, mark)
         /\ MarkInv(mark, Packed(value), tokens + 1)
<1> DEFINE book == Packed(value)
           n == Len(book)
           m == mark.pages
<1> HIDE DEF book
<1>1. /\ BookInv(book, tokens + 1)
      /\ n \in Nat \ {0} /\ DOMAIN book = 1 .. n
      /\ n = Len(pages) \/ n = Len(pages) + 1
      /\ \A a \in 1 .. n : a < n => book[a] = pages[a]
      /\ n = Len(pages) =>
            book[n] = [pages[n] EXCEPT !.values = Append(pages[n].values, value)]
  BY PackedFacts DEF book
<1>2. /\ m \in Nat /\ m <= Len(pages) /\ Len(pages) \in Nat /\ tokens \in Nat
      /\ mark \in Mark /\ mark.tokens \in Nat /\ mark.tokens <= tokens
  BY Geometry DEF MarkInv, Mark, BookInv
<1>5. m <= n /\ mark.tokens <= tokens + 1
  <2>1. n \in Nat /\ (n = Len(pages) \/ n = Len(pages) + 1)
    BY <1>1
  <2> HIDE DEF m, n
  <2> QED BY <1>2, <2>1
<1>3. CASE m = 0
  <2>1. Cut(book, mark) = Cut(pages, mark)
    BY <1>3 DEF Cut
  <2> QED BY <1>2, <1>3, <1>5, <2>1 DEF MarkInv, book
<1>4. CASE m # 0
  <2>1. PICK k \in 1 .. Len(pages[m].values) :
          mark.last_page_bytes = TokenBytes(pages[m].precision) * k
    BY <1>4 DEF MarkInv
  <2>2. m \in 1 .. Len(pages) /\ m \in 1 .. n /\ m \in Nat \ {0}
    <3>1. n \in Nat
      BY <1>1
    <3> HIDE DEF m, n
    <3> QED BY <1>2, <1>4, <1>5, <3>1
  <2>3. PageInv(pages[m], m, tokens)
    BY <1>2, <2>2 DEF BookInv
  <2>4. pages[m].values \in Seq(Values) /\ Len(pages[m].values) \in Nat /\ pages[m] \in Page
    BY <2>2, <2>3, PageFacts DEF PageInv
  <2>5. k \in Nat
    BY <2>1, <2>4
  <2>6. /\ book[m].precision = pages[m].precision
        /\ Len(pages[m].values) <= Len(book[m].values)
        /\ Len(book[m].values) \in Nat
        /\ [book[m] EXCEPT !.values = SubSeq(@, 1, k)]
              = [pages[m] EXCEPT !.values = SubSeq(@, 1, k)]
    <3>1. CASE book[m] = pages[m]
      BY <2>4, <3>1
    <3>2. CASE book[m] # pages[m]
      <4>1. m = n /\ n = Len(pages)
        <5>1. ~(m < n)
          BY <1>1, <2>2, <3>2
        <5>2. n \in Nat /\ (n = Len(pages) \/ n = Len(pages) + 1)
          BY <1>1
        <5> HIDE DEF m, n
        <5> QED BY <1>2, <1>5, <5>1, <5>2
      <4>2. book[m] = [pages[m] EXCEPT !.values = Append(pages[m].values, value)]
        BY <1>1, <4>1
      <4>3. /\ book[m].precision = pages[m].precision
            /\ book[m].values = Append(pages[m].values, value)
            /\ [book[m] EXCEPT !.values = SubSeq(Append(pages[m].values, value), 1, k)]
                 = [pages[m] EXCEPT !.values = SubSeq(Append(pages[m].values, value), 1, k)]
        BY <2>4, <4>2 DEF Page
      <4>4. /\ Len(Append(pages[m].values, value)) = Len(pages[m].values) + 1
            /\ SubSeq(Append(pages[m].values, value), 1, k) = SubSeq(pages[m].values, 1, k)
        <5> DEFINE s == pages[m].values
        <5>1. s \in Seq(Values) /\ k \in 1 .. Len(s)
          BY <2>1, <2>4
        <5> HIDE DEF s
        <5>2. Len(Append(s, value)) = Len(s) + 1
          BY <5>1
        <5>3. SubSeq(Append(s, value), 1, k) = SubSeq(s, 1, k)
          BY <5>1, SubSeqOfAppend
        <5> QED BY <5>2, <5>3 DEF s
      <4>5. /\ Len(book[m].values) = Len(pages[m].values) + 1
            /\ [book[m] EXCEPT !.values = SubSeq(@, 1, k)]
                 = [book[m] EXCEPT !.values = SubSeq(Append(pages[m].values, value), 1, k)]
        BY <4>3, <4>4
      <4>6. [book[m] EXCEPT !.values = SubSeq(@, 1, k)]
                 = [pages[m] EXCEPT !.values = SubSeq(@, 1, k)]
        <5>1. SubSeq(book[m].values, 1, k) = SubSeq(pages[m].values, 1, k)
          BY <4>3, <4>4
        <5>2. \A r : [book[m] EXCEPT !.values = r] = [pages[m] EXCEPT !.values = r]
          BY <2>4, <4>2 DEF Page
        <5> QED BY ONLY <5>1, <5>2
      <4>7. /\ Len(pages[m].values) <= Len(book[m].values)
            /\ Len(book[m].values) \in Nat
        <5> DEFINE before == Len(pages[m].values)
                   after == Len(book[m].values)
        <5>1. before \in Nat /\ after = before + 1
          BY <2>4, <4>5
        <5> HIDE DEF before, after
        <5>2. before <= after /\ after \in Nat
          BY ONLY <5>1
        <5> QED BY <5>2 DEF before, after
      <4> QED BY <4>3, <4>6, <4>7
    <3> QED BY <3>1, <3>2
  <2>7. \A index \in 1 .. m : index < m => book[index] = pages[index]
    <3>1. n \in Nat /\ \A a \in 1 .. n : a < n => book[a] = pages[a]
      BY <1>1
    <3> HIDE DEF m, n
    <3>2. \A index \in 1 .. m : index < m => index \in 1 .. n /\ index < n
      BY <1>2, <1>5, <3>1
    <3> QED BY <3>1, <3>2
  <2>8. /\ Cut(pages, mark) =
             [index \in 1 .. m |-> IF index < m THEN pages[index]
                                   ELSE [pages[index] EXCEPT !.values = SubSeq(@, 1, k)]]
        /\ Cut(book, mark) =
             [index \in 1 .. m |-> IF index < m THEN book[index]
                                   ELSE [book[index] EXCEPT !.values = SubSeq(@, 1, k)]]
    <3>1. mark \in Mark
      BY <1>2
    <3>2. /\ mark.last_page_bytes = TokenBytes(pages[mark.pages].precision) * k
          /\ mark.last_page_bytes = TokenBytes(book[mark.pages].precision) * k
      BY <2>1, <2>6
    <3> QED BY ONLY <2>5, <3>1, <3>2, CutIs
  <2>9. \A index \in 1 .. m : ~(index < m) => index = m
    BY <1>2
  <2>10. Cut(book, mark) = Cut(pages, mark)
    <3> HIDE DEF m
    <3> QED BY <2>6, <2>7, <2>8, <2>9
  <2>11. k \in 1 .. Len(book[m].values)
    <3> DEFINE L == Len(pages[m].values)
               H == Len(book[m].values)
    <3>1. k \in 1 .. L /\ L <= H /\ L \in Nat /\ H \in Nat
      BY <2>1, <2>4, <2>6
    <3> HIDE DEF L, H
    <3>2. k \in 1 .. H
      BY <3>1
    <3> QED BY <3>2 DEF H
  <2>12. m <= Len(book) /\ mark.tokens <= tokens + 1
    BY <1>5
  <2>13. mark.last_page_bytes = TokenBytes(book[m].precision) * k
    BY <2>1, <2>6
  <2>14. BookInv(Cut(book, mark), mark.tokens)
    BY <2>10 DEF MarkInv
  <2>15. MarkInv(mark, book, tokens + 1)
    BY <1>2, <1>4, <2>11, <2>12, <2>13, <2>14 DEF MarkInv
  <2> QED BY <2>10, <2>15 DEF book
<1> QED BY <1>3, <1>4

\* A branch starts at the pages as they are.
LEMMA MarkOfNow ==
  ASSUME policy \in Policies, BookInv(pages, tokens),
         NEW mark,
         mark = [tokens |-> tokens, pages |-> Len(pages),
                 last_page_bytes |-> IF pages = << >> THEN 0 ELSE PageBytes(Last(pages))]
  PROVE  MarkInv(mark, pages, tokens) /\ Cut(pages, mark) = pages
<1> DEFINE m == mark.pages
<1>1. /\ m \in Nat /\ DOMAIN pages = 1 .. m /\ tokens \in Nat /\ pages \in Seq(Page)
      /\ pages = << >> <=> m = 0
      /\ mark.tokens = tokens /\ Len(pages) = m
  BY Geometry DEF BookInv
<1>2. CASE m = 0
  <2>1. Cut(pages, mark) = << >> /\ pages = << >>
    BY <1>1, <1>2 DEF Cut
  <2>2. mark.last_page_bytes = 0 /\ mark \in Mark
    BY <1>1, <2>1 DEF Mark
  <2> QED BY <1>1, <1>2, <2>1, <2>2 DEF MarkInv
<1>3. CASE m # 0
  <2> DEFINE k == Len(pages[m].values)
             b == TokenBytes(pages[m].precision)
  <2>1. m \in 1 .. m /\ m \in Nat \ {0} /\ PageInv(pages[m], m, tokens)
    BY <1>1, <1>3 DEF BookInv
  <2>2. /\ pages[m].values \in Seq(Values) /\ k \in Nat \ {0} /\ pages[m] \in Page
        /\ b \in Nat \ {0}
    BY <2>1, PageFacts, TokenBytesType DEF PageInv
  <2> HIDE DEF b
  <2>3. mark.last_page_bytes = b * k /\ b * k \in Nat
    <3>1. mark.last_page_bytes = PageBytes(pages[m])
      BY <1>1, <1>3 DEF Last
    <3>2. PageBytes(pages[m]) = k * b
      BY DEF PageBytes, b
    <3> HIDE DEF k
    <3> QED BY <2>2, <3>1, <3>2
  <2>4. mark \in Mark
    BY <1>1, <2>3 DEF Mark
  <2>5. Cut(pages, mark) =
             [index \in 1 .. m |-> IF index < m THEN pages[index]
                                   ELSE [pages[index] EXCEPT !.values = SubSeq(@, 1, k)]]
    <3>1. k \in Nat /\ mark.last_page_bytes = TokenBytes(pages[mark.pages].precision) * k
      BY <1>1, <2>2, <2>3 DEF b
    <3> HIDE DEF k
    <3> QED BY ONLY <2>4, <3>1, CutIs
  <2>6. [pages[m] EXCEPT !.values = SubSeq(@, 1, k)] = pages[m]
    <3>1. SubSeq(pages[m].values, 1, k) = pages[m].values
      BY <2>2, WholeSubSeq
    <3> QED BY <2>2, <3>1 DEF Page
  <2>7. \A index \in 1 .. m : ~(index < m) => index = m
    BY <1>1
  <2>8. Cut(pages, mark) = [index \in 1 .. m |-> pages[index]]
    <3> HIDE DEF m, k
    <3> QED BY <2>5, <2>6, <2>7
  <2>9. Cut(pages, mark) = pages
    BY <1>1, <2>8
  <2>10. k \in 1 .. Len(pages[m].values)
    BY <2>2
  <2>11. BookInv(Cut(pages, mark), mark.tokens)
    BY <1>1, <2>9
  <2> QED BY <1>1, <1>3, <2>3, <2>4, <2>9, <2>10, <2>11 DEF MarkInv, b
<1> QED BY <1>2, <1>3

LEMMA TruncatedIsCut == \A mark : Truncated(mark) = Cut(pages, mark)
BY DEF Truncated, Cut

\* A mark that satisfies the invariant is never refused.
LEMMA MarkIsPrefix ==
  ASSUME policy \in Policies, BookInv(pages, tokens), NEW mark,
         MarkInv(mark, pages, tokens)
  PROVE  IsPrefixOfCurrent(mark)
<1> DEFINE m == mark.pages
<1>1. m \in Nat /\ m <= Len(pages) /\ mark.tokens <= tokens /\ Len(pages) \in Nat
  BY DEF MarkInv, Mark, BookInv
<1>2. CASE m = 0
  BY <1>1, <1>2 DEF MarkInv, IsPrefixOfCurrent
<1>3. CASE m # 0
  <2>1. PICK k \in 1 .. Len(pages[m].values) :
          mark.last_page_bytes = TokenBytes(pages[m].precision) * k
    BY <1>3 DEF MarkInv
  <2>2. m \in 1 .. Len(pages) /\ m \in Nat \ {0} /\ PageInv(pages[m], m, tokens)
    BY <1>1, <1>3 DEF BookInv
  <2> DEFINE L == Len(pages[m].values)
             b == TokenBytes(pages[m].precision)
  <2>3. L \in Nat /\ b \in Nat
    BY <2>2, PageFacts, TokenBytesType
  <2>4. PageBytes(pages[m]) = L * b
    BY DEF PageBytes
  <2> HIDE DEF L, b
  <2>5. k \in Int /\ L \in Int /\ k <= L
    BY <2>1, <2>3 DEF L
  <2>6. b * k <= b * L
    BY <2>3, <2>5, Monotone
  <2>7. b * L = L * b
    BY <2>3
  <2> QED BY <1>1, <1>3, <2>1, <2>4, <2>6, <2>7 DEF b, IsPrefixOfCurrent
<1> QED BY <1>2, <1>3

-----------------------------------------------------------------------------
(* The cache keeps its invariant *)

LEMMA EmptyBook ==
  ASSUME policy \in Policies
  PROVE  BookInv(<< >>, 0)
<1>1. << >> \in Seq(Page) /\ Len(<< >>) = 0 /\ DOMAIN << >> = {}
  OBVIOUS
<1> QED BY <1>1, Geometry DEF BookInv

LEMMA PagedInit == Init => PagedInv
BY EmptyBook DEF Init, PagedInv, BranchInv

LEMMA PushInv ==
  ASSUME PagedInv, NEW value \in Values, Push(value)
  PROVE  PagedInv'
<1>1. /\ policy' = policy /\ policy \in Policies /\ checkpoint' = << >>
      /\ tokens < policy.maximum_tokens
      /\ pages' = Demote(Packed(value), tokens + 1) /\ tokens' = tokens + 1
  BY DEF Push, PagedInv
<1>2. BookInv(Demote(Packed(value), tokens + 1), tokens + 1)
  <2>1. BookInv(Packed(value), tokens + 1)
    BY <1>1, PackedFacts DEF PagedInv
  <2> QED BY <1>1, <2>1, Demotion
<1>3. BookInv(pages, tokens)'
  BY <1>1, <1>2 DEF BookInv, PageInv, PageStart
<1> QED BY <1>1, <1>3 DEF PagedInv, BranchInv, Admitted, Policies

\* No step changes the policy, of which MarkInv speaks.
LEMMA MarkKeeps ==
  ASSUME policy' = policy, NEW mark, MarkInv(mark, pages', tokens')
  PROVE  MarkInv(mark, pages, tokens)'
<1>1. BookInv(Cut(pages', mark), mark.tokens)
  BY DEF MarkInv
<1> QED BY <1>1 DEF MarkInv, BookInv, PageInv, PageStart, Cut, TokenBytes

LEMMA PushRetainingInv ==
  ASSUME PagedInv, NEW value \in Values, PushRetainingQ4(value)
  PROVE  PagedInv'
<1>1. /\ policy' = policy /\ policy \in Policies /\ checkpoint' = checkpoint
      /\ tokens < policy.maximum_tokens /\ checkpoint # << >>
      /\ pages' = Packed(value) /\ tokens' = tokens + 1
  BY DEF PushRetainingQ4, PagedInv
<1>2. BookInv(Packed(value), tokens + 1)
  BY <1>1, PackedFacts DEF PagedInv
<1>3. PICK mark \in Mark : checkpoint = <<mark>> /\ MarkInv(mark, pages, tokens)
  BY <1>1 DEF PagedInv, BranchInv
<1>4. MarkInv(mark, Packed(value), tokens + 1)
  BY <1>1, <1>3, PackedKeepsTheCut DEF PagedInv
<1>5. BookInv(pages, tokens)'
  BY <1>1, <1>2 DEF BookInv, PageInv, PageStart
<1>6. MarkInv(mark, pages', tokens')
  BY <1>1, <1>4
<1>8. MarkInv(mark, pages, tokens)'
  BY <1>1, <1>6, MarkKeeps
<1> QED BY <1>1, <1>3, <1>5, <1>8 DEF PagedInv, BranchInv, Admitted, Policies

LEMMA AppendCheckpointInv ==
  ASSUME PagedInv, AppendCheckpoint
  PROVE  PagedInv'
<1> DEFINE now == [tokens |-> tokens, pages |-> Len(pages),
                   last_page_bytes |-> IF pages = << >> THEN 0 ELSE PageBytes(Last(pages))]
<1>1. policy \in Policies /\ BookInv(pages, tokens)
  BY DEF PagedInv
<1>2. PICK mark : mark = now
  OBVIOUS
<1>3. mark \in Mark /\ MarkInv(mark, pages, tokens)
  BY <1>1, <1>2, MarkOfNow DEF MarkInv
<1>4. checkpoint' = <<mark>> /\ UNCHANGED <<policy, tokens, pages>>
  BY <1>2 DEF AppendCheckpoint
<1> HIDE DEF now
<1>5. MarkInv(mark, pages, tokens)'
  <2>1. MarkInv(mark, pages', tokens')
    BY <1>3, <1>4
  <2> QED BY <1>4, <2>1, MarkKeeps
<1>6. BookInv(pages, tokens)'
  BY <1>1, <1>4 DEF BookInv, PageInv, PageStart
<1> QED BY <1>3, <1>4, <1>5, <1>6 DEF PagedInv, BranchInv, Admitted, Policies

LEMMA RestoreInv ==
  ASSUME PagedInv, RestoreAppendCheckpoint
  PROVE  PagedInv'
<1>1. PICK mark \in Mark : checkpoint = <<mark>> /\ MarkInv(mark, pages, tokens)
  BY DEF PagedInv, BranchInv, RestoreAppendCheckpoint
<1>2. /\ tokens' = mark.tokens /\ pages' = Cut(pages, mark) /\ policy' = policy
      /\ checkpoint' = << >>
  BY <1>1, TruncatedIsCut DEF RestoreAppendCheckpoint
<1>3. BookInv(pages', tokens')
  BY <1>1, <1>2 DEF MarkInv
<1>4. BookInv(pages, tokens)'
  BY <1>2, <1>3 DEF BookInv, PageInv, PageStart
<1> QED BY <1>2, <1>4 DEF PagedInv, BranchInv, Admitted, Policies

LEMMA PagedStep == PagedInv /\ [Next]_vars => PagedInv'
<1> SUFFICES ASSUME PagedInv, [Next]_vars PROVE PagedInv'
  OBVIOUS
<1>1. CASE UNCHANGED vars
  <2>1. UNCHANGED <<policy, tokens, pages, checkpoint>>
    BY <1>1 DEF vars
  <2>2. BookInv(pages, tokens)'
    BY <2>1 DEF PagedInv, BookInv, PageInv, PageStart
  <2>3. ASSUME NEW mark, MarkInv(mark, pages, tokens) PROVE MarkInv(mark, pages, tokens)'
    <3>1. MarkInv(mark, pages', tokens')
      BY <2>1, <2>3
    <3> QED BY <2>1, <3>1, MarkKeeps
  <2> QED BY <2>1, <2>2, <2>3 DEF PagedInv, BranchInv, Admitted, Policies
<1>2. ASSUME NEW value \in Values, Push(value) PROVE PagedInv'
  BY <1>2, PushInv
<1>3. ASSUME NEW value \in Values, PushRetainingQ4(value) PROVE PagedInv'
  BY <1>3, PushRetainingInv
<1>4. CASE AppendCheckpoint
  BY <1>4, AppendCheckpointInv
<1>5. CASE RestoreAppendCheckpoint
  BY <1>5, RestoreInv
<1>6. CASE DropCheckpoint
  BY <1>6 DEF DropCheckpoint, PagedInv, BranchInv, Admitted, Policies, BookInv, PageInv,
              PageStart
<1>7. CASE Reset
  <2>1. BookInv(<< >>, 0)
    BY EmptyBook DEF PagedInv
  <2> QED BY <1>7, <2>1 DEF Reset, PagedInv, BranchInv, Admitted, Policies, BookInv, PageInv,
                          PageStart
<1> QED BY <1>1, <1>2, <1>3, <1>4, <1>5, <1>6, <1>7 DEF Next

LEMMA HeldIs ==
  ASSUME PagedInv
  PROVE  /\ ViewOf(pages) = [t \in 1 .. tokens |-> Read(pages, t)]
         /\ tokens \in Nat /\ Len(ViewOf(pages)) = tokens
         /\ DOMAIN ViewOf(pages) = 1 .. tokens
<1>1. policy \in Policies /\ BookInv(pages, tokens)
  BY DEF PagedInv
<1>2. tokens \in Nat
  BY <1>1, Geometry DEF BookInv
<1>3. ViewOf(pages) = [t \in 1 .. tokens |-> Read(pages, t)]
  BY <1>1, ViewIs
<1> QED BY <1>2, <1>3

LEMMA PagedInvCovers == PagedInv => PagesCoverTheTokens
<1> SUFFICES ASSUME PagedInv PROVE PagesCoverTheTokens
  OBVIOUS
<1>1. policy \in Policies /\ Admitted(policy) /\ BookInv(pages, tokens)
  BY DEF PagedInv
<1>2. PagedTypeOK
  <2>1. Len(checkpoint) <= 1
    <3>1. CASE checkpoint = << >>
      BY <3>1
    <3>2. ASSUME NEW mark, checkpoint = <<mark>> PROVE Len(checkpoint) <= 1
      BY <3>2
    <3> QED BY <3>1, <3>2 DEF PagedInv, BranchInv
  <2>2. tokens \in 0 .. policy.maximum_tokens /\ pages \in Seq(Page)
    BY <1>1 DEF BookInv
  <2> QED BY <1>1, <2>1, <2>2 DEF PagedTypeOK, Page
<1>3. RestoreIsNeverRefused
  <2> SUFFICES ASSUME checkpoint # << >> PROVE IsPrefixOfCurrent(checkpoint[1])
    BY DEF RestoreIsNeverRefused
  <2>1. PICK mark \in Mark : checkpoint = <<mark>> /\ MarkInv(mark, pages, tokens)
    BY DEF PagedInv, BranchInv
  <2>2. IsPrefixOfCurrent(mark)
    BY <1>1, <2>1, MarkIsPrefix
  <2> QED BY <2>1, <2>2
<1>4. ASSUME NEW index \in DOMAIN pages
      PROVE  /\ pages[index].values # << >>
             /\ index < Len(pages) => Len(pages[index].values) = policy.page_tokens
  <2>1. PageInv(pages[index], index, tokens) /\ index \in Nat \ {0}
    BY <1>1 DEF BookInv
  <2>2. Len(pages[index].values) \in Nat \ {0}
    BY <1>1, <2>1, PageFacts
  <2>3. pages[index].values # << >>
    BY <2>2
  <2> QED BY <1>1, <2>3 DEF BookInv
<1> QED BY <1>2, <1>3, <1>4, HeldIs DEF PagesCoverTheTokens

(* The counter, the page count, the fill of every page and the mark of a    *)
(* branch agree through every append, demotion, branch, rollback and reset  *)
(* of PagedKvCache, for every admitted policy, and a rollback is never      *)
(* refused.                                                                 *)
THEOREM PagesAlwaysCover == Spec => []PagesCoverTheTokens
<1> QED BY PagedInit, PagedStep, PagedInvCovers, PTL DEF Spec

-----------------------------------------------------------------------------
(* The budget *)

\* A non-empty set of positions has a last one.
LEMMA LastOf ==
  ASSUME NEW n \in Nat, NEW s \in SUBSET (1 .. n), s # {}
  PROVE  Max(s) \in s /\ \A y \in s : Max(s) >= y
<1> DEFINE gaps == {n - y : y \in s}
<1>1. gaps \subseteq Nat /\ gaps # {}
  <2>1. \A y \in s : y \in Int /\ n - y \in Nat
    OBVIOUS
  <2> QED BY <2>1
<1>2. PICK g \in gaps : \A h \in gaps : g <= h
  BY <1>1, LeastNatural
<1>3. PICK x \in s : g = n - x
  BY <1>2
<1>4. \A y \in s : x >= y
  <2> TAKE y \in s
  <2>1. n - y \in gaps /\ x \in Nat /\ y \in Nat
    OBVIOUS
  <2>2. n - x <= n - y
    BY <1>2, <1>3, <2>1
  <2> QED BY <2>1, <2>2
<1> QED BY <1>3, <1>4 DEF Max

LEMMA IntervalSize ==
  ASSUME NEW a \in Int, NEW b \in Int, a <= b + 1
  PROVE  IsFiniteSet(a .. b) /\ Cardinality(a .. b) = b - a + 1
<1>1. IsFiniteSet(a .. b) /\ Cardinality(a .. b) = IF a > b THEN 0 ELSE b - a + 1
  BY FS_Interval
<1> QED BY <1>1

(* A table of the sums of the weights of positions, as a fold makes it.     *)
SumTable(f, n, weight) ==
    /\ f = [s \in SUBSET (1 .. n) |->
               IF s = {} THEN 0 ELSE f[s \ {Max(s)}] + weight[Max(s)]]
    /\ \A s \in SUBSET (1 .. n) : f[s] \in Nat

\* The sum of the weights of some positions, one after the other, exists:
\* it counts the units that make up their weights.
LEMMA SumExists ==
  ASSUME NEW n \in Nat, NEW bound \in Nat, NEW weight \in [1 .. n -> 0 .. bound]
  PROVE  \E f : SumTable(f, n, weight)
<1> DEFINE units(s) == {u \in s \X (1 .. bound) : u[2] <= weight[u[1]]}
           f == [s \in SUBSET (1 .. n) |-> Cardinality(units(s))]
<1>1. ASSUME NEW s \in SUBSET (1 .. n)
      PROVE  IsFiniteSet(units(s))
  <2>1. IsFiniteSet(1 .. n) /\ IsFiniteSet(1 .. bound)
    BY FS_Interval
  <2>2. IsFiniteSet(s)
    BY <2>1, FS_Subset
  <2>3. IsFiniteSet(s \X (1 .. bound))
    BY ONLY <2>1, <2>2, FS_Product
  <2>4. units(s) \in SUBSET (s \X (1 .. bound))
    OBVIOUS
  <2> QED BY ONLY <2>3, <2>4, FS_Subset
<1>2. ASSUME NEW s \in SUBSET (1 .. n), NEW x \in s
      PROVE  Cardinality(units(s)) = Cardinality(units(s \ {x})) + weight[x]
  <2> DEFINE own == {x} \X (1 .. weight[x])
             rest == units(s \ {x})
  <2>1. weight[x] \in 0 .. bound /\ weight[x] \in Nat
    OBVIOUS
  <2>2. units(s) = rest \cup own /\ rest \cap own = {}
    BY <2>1
  <2>3. IsFiniteSet(own) /\ Cardinality(own) = weight[x]
    <3>1. IsFiniteSet({x}) /\ Cardinality({x}) = 1
      BY FS_Singleton
    <3>2. IsFiniteSet(1 .. weight[x]) /\ Cardinality(1 .. weight[x]) = weight[x]
      <4>1. 1 \in Int /\ weight[x] \in Int /\ 1 <= weight[x] + 1
        BY <2>1
      <4>2. /\ IsFiniteSet(1 .. weight[x])
            /\ Cardinality(1 .. weight[x]) = weight[x] - 1 + 1
        BY ONLY <4>1, IntervalSize
      <4> QED BY <2>1, <4>2
    <3>3. IsFiniteSet(own) /\ Cardinality(own) = Cardinality({x}) * Cardinality(1 .. weight[x])
      BY <3>1, <3>2, FS_Product
    <3> QED BY <2>1, <3>1, <3>2, <3>3
  <2>4. IsFiniteSet(rest)
    BY <1>1
  <2> HIDE DEF own, rest, units
  <2>5. Cardinality(rest) \in Nat /\ Cardinality(rest \cap own) = 0
    BY <2>2, <2>4, FS_CardinalityType, FS_EmptySet
  <2>6. Cardinality(rest \cup own) = Cardinality(rest) + Cardinality(own) - 0
    BY <2>3, <2>4, <2>5, FS_Union
  <2> QED BY <2>1, <2>2, <2>3, <2>5, <2>6 DEF rest
<1>3. Cardinality(units({})) = 0
  <2>1. units({}) = {}
    OBVIOUS
  <2> QED BY <2>1, FS_EmptySet
<1> HIDE DEF units
<1>7. \A s \in SUBSET (1 .. n) : f[s] \in Nat
  BY <1>1, FS_CardinalityType
<1>4. ASSUME NEW s \in SUBSET (1 .. n)
      PROVE  f[s] = IF s = {} THEN 0 ELSE f[s \ {Max(s)}] + weight[Max(s)]
  <2>1. CASE s = {}
    BY <1>3, <2>1
  <2>2. CASE s # {}
    <3>1. Max(s) \in s
      BY <2>2, LastOf
    <3>2. s \ {Max(s)} \in SUBSET (1 .. n)
      OBVIOUS
    <3> QED BY <1>2, <2>2, <3>1, <3>2
  <2> QED BY <2>1, <2>2
<1>5. f = [s \in SUBSET (1 .. n) |-> f[s]]
  OBVIOUS
<1> HIDE DEF f
<1>6. f = [s \in SUBSET (1 .. n) |->
             IF s = {} THEN 0 ELSE f[s \ {Max(s)}] + weight[Max(s)]]
  BY <1>4, <1>5, Zenon
<1> QED BY <1>6, <1>7 DEF SumTable

LEMMA Segment ==
  ASSUME NEW n \in Nat, NEW i \in 1 .. n
  PROVE  /\ 1 .. i \in SUBSET (1 .. n) /\ 1 .. i # {} /\ Max(1 .. i) = i
         /\ (1 .. i) \ {i} = 1 .. (i - 1)
<1>1. 1 .. i \in SUBSET (1 .. n) /\ 1 .. i # {}
  <2>1. \A j \in 1 .. i : j \in 1 .. n
    OBVIOUS
  <2>2. i \in 1 .. i
    OBVIOUS
  <2> QED BY <2>1, <2>2
<1>2. Max(1 .. i) \in 1 .. i /\ \A y \in 1 .. i : Max(1 .. i) >= y
  BY <1>1, LastOf
<1>3. Max(1 .. i) = i
  BY <1>2
<1>4. \A j : j \in 1 .. i /\ j # i <=> j \in 1 .. (i - 1)
  OBVIOUS
<1> QED BY <1>1, <1>3, <1>4

(* Each beginning of a sum follows from the one before.                     *)
Follows(f, n, sum) ==
    /\ f[{}] = sum[0]
    /\ \A i \in 1 .. n : f[1 .. (i - 1)] = sum[i - 1] => f[1 .. i] = sum[i]

\* What a sum is when its beginnings are known.
LEMMA SumIs ==
  ASSUME NEW n \in Nat, NEW f, NEW sum, Follows(f, n, sum)
  PROVE  f[1 .. n] = sum[n]
<1> DEFINE T == {i \in 0 .. n : f[1 .. i] # sum[i]}
<1> SUFFICES ASSUME T # {} PROVE FALSE
  OBVIOUS
<1>1. T \subseteq Nat
  OBVIOUS
<1>2. PICK i \in T : \A j \in T : i <= j
  BY <1>1, LeastNatural
<1>3. i \in 0 .. n /\ i \in Nat /\ f[1 .. i] # sum[i]
  BY <1>2
<1>4. i # 0
  <2>1. 1 .. 0 = {}
    OBVIOUS
  <2> QED BY <1>3, <2>1 DEF Follows
<1>5. i - 1 \in 0 .. n /\ i \in 1 .. n
  BY <1>3, <1>4
<1>6. f[1 .. (i - 1)] = sum[i - 1]
  BY <1>2, <1>3, <1>5
<1> QED BY <1>3, <1>5, <1>6 DEF Follows

(* The bytes of some pages, and their tokens at Q4.                         *)
BytesIn(book) == FoldLeft(LAMBDA sum, page : sum + PageBytes(page), 0, book)

Q4TokensIn(book) ==
    FoldLeft(LAMBDA sum, page :
                IF page.precision = Q4 THEN sum + Len(page.values) ELSE sum,
             0, book)

(* The bytes of the first i pages are sum[i].                               *)
BytesAddUp(book, n, bound, sum) ==
    /\ DOMAIN book = 1 .. n
    /\ \A i \in 1 .. n : PageBytes(book[i]) \in 0 .. bound
    /\ sum \in [0 .. n -> Nat] /\ sum[0] = 0
    /\ \A i \in 1 .. n : sum[i] = sum[i - 1] + PageBytes(book[i])

LEMMA BytesAre ==
  ASSUME NEW n \in Nat, NEW book, NEW bound \in Nat, NEW sum,
         BytesAddUp(book, n, bound, sum)
  PROVE  BytesIn(book) = sum[n]
<1> USE DEF BytesAddUp
<1> DEFINE step(g) == [s \in SUBSET DOMAIN book |->
                          IF s = {} THEN 0
                          ELSE g[s \ {Max(s)}] + PageBytes(book[Max(s)])]
           f == CHOOSE g : g = step(g)
           weight == [i \in 1 .. n |-> PageBytes(book[i])]
<1>1. BytesIn(book) = f[DOMAIN book]
  BY DEF BytesIn, FoldLeft, MapThenFoldSet
<1>2. weight \in [1 .. n -> 0 .. bound] /\ \A i \in 1 .. n : weight[i] = PageBytes(book[i])
  OBVIOUS
<1> HIDE DEF weight
<1>3. \A s \in SUBSET (1 .. n) : s # {} => Max(s) \in 1 .. n
  BY LastOf
<1>4. \E g : g = step(g)
  <2>1. PICK g : SumTable(g, n, weight)
    BY <1>2, SumExists
  <2>2. \A s \in SUBSET (1 .. n) : g[s \ {Max(s)}] \in Nat
    BY <2>1 DEF SumTable
  <2>3. ASSUME NEW s \in SUBSET (1 .. n)
        PROVE  g[s] = IF s = {} THEN 0
                      ELSE g[s \ {Max(s)}] + PageBytes(book[Max(s)])
    <3>1. g[s] = IF s = {} THEN 0 ELSE g[s \ {Max(s)}] + weight[Max(s)]
      BY <2>1 DEF SumTable
    <3>2. s # {} => weight[Max(s)] = PageBytes(book[Max(s)]) /\ Max(s) \in 1 .. n
      BY <1>2, <1>3
    <3>3. g[s \ {Max(s)}] \in Nat
      BY <2>2
    <3> QED BY <3>1, <3>2
  <2>4. g = [s \in SUBSET (1 .. n) |-> g[s]]
    BY <2>1 DEF SumTable
  <2>5. g = step(g)
    BY <2>3, <2>4
  <2> QED BY <2>5
<1>5. f = step(f)
  BY <1>4
<1> HIDE DEF f
<1>6. \A s \in SUBSET (1 .. n) :
         f[s] = IF s = {} THEN 0
                ELSE f[s \ {Max(s)}] + PageBytes(book[Max(s)])
  BY <1>5
<1> HIDE DEF step
<1>7. f[{}] = sum[0]
  <2>1. {} \in SUBSET (1 .. n)
    OBVIOUS
  <2> QED BY <1>6, <2>1
<1>8. ASSUME NEW i \in 1 .. n, f[1 .. (i - 1)] = sum[i - 1]
      PROVE  f[1 .. i] = sum[i]
  <2>1. /\ 1 .. i \in SUBSET (1 .. n) /\ 1 .. i # {} /\ Max(1 .. i) = i
        /\ (1 .. i) \ {i} = 1 .. (i - 1)
    BY Segment
  <2>2. sum[i - 1] \in Nat /\ sum[i] = sum[i - 1] + PageBytes(book[i])
    OBVIOUS
  <2>3. f[1 .. i] = f[(1 .. i) \ {Max(1 .. i)}] + PageBytes(book[Max(1 .. i)])
    BY <1>6, <2>1
  <2>4. f[1 .. i] = f[1 .. (i - 1)] + PageBytes(book[i])
    BY <2>1, <2>3
  <2>5. f[1 .. i] = sum[i - 1] + PageBytes(book[i])
    BY <1>8, <2>2, <2>4
  <2> QED BY <2>2, <2>5
<1>9. f[1 .. n] = sum[n]
  <2>1. \A i \in 1 .. n : f[1 .. (i - 1)] = sum[i - 1] => f[1 .. i] = sum[i]
    BY <1>8
  <2>2. Follows(f, n, sum)
    BY <1>7, <2>1 DEF Follows
  <2> QED BY <2>2, SumIs
<1> QED BY <1>1, <1>9

\* What one page adds to the tokens at Q4.
Q4In(page) == IF page.precision = Q4 THEN Len(page.values) ELSE 0

(* The first i pages have sum[i] tokens at Q4.                              *)
Q4TokensAddUp(book, n, bound, sum) ==
    /\ DOMAIN book = 1 .. n
    /\ \A i \in 1 .. n : Q4In(book[i]) \in 0 .. bound
    /\ sum \in [0 .. n -> Nat] /\ sum[0] = 0
    /\ \A i \in 1 .. n : sum[i] = sum[i - 1] + Q4In(book[i])

LEMMA Q4TokensAre ==
  ASSUME NEW n \in Nat, NEW book, NEW bound \in Nat, NEW sum,
         Q4TokensAddUp(book, n, bound, sum)
  PROVE  Q4TokensIn(book) = sum[n]
<1> USE DEF Q4TokensAddUp
<1> DEFINE step(g) == [s \in SUBSET DOMAIN book |->
                          IF s = {} THEN 0
                          ELSE IF book[Max(s)].precision = Q4
                               THEN g[s \ {Max(s)}] + Len(book[Max(s)].values)
                               ELSE g[s \ {Max(s)}]]
           f == CHOOSE g : g = step(g)
           weight == [i \in 1 .. n |-> Q4In(book[i])]
<1>1. Q4TokensIn(book) = f[DOMAIN book]
  BY DEF Q4TokensIn, FoldLeft, MapThenFoldSet
<1>2. weight \in [1 .. n -> 0 .. bound] /\ \A i \in 1 .. n : weight[i] = Q4In(book[i])
  OBVIOUS
<1> HIDE DEF weight
<1>3. \A s \in SUBSET (1 .. n) : s # {} => Max(s) \in 1 .. n
  BY LastOf
<1>4. \E g : g = step(g)
  <2>1. PICK g : SumTable(g, n, weight)
    BY <1>2, SumExists
  <2>2. \A s \in SUBSET (1 .. n) : g[s \ {Max(s)}] \in Nat
    BY <2>1 DEF SumTable
  <2>3. ASSUME NEW s \in SUBSET (1 .. n)
        PROVE  g[s] = IF s = {} THEN 0
                      ELSE IF book[Max(s)].precision = Q4
                           THEN g[s \ {Max(s)}] + Len(book[Max(s)].values)
                           ELSE g[s \ {Max(s)}]
    <3>1. g[s] = IF s = {} THEN 0 ELSE g[s \ {Max(s)}] + weight[Max(s)]
      BY <2>1 DEF SumTable
    <3>2. s # {} => weight[Max(s)] = Q4In(book[Max(s)]) /\ Max(s) \in 1 .. n
      BY <1>2, <1>3
    <3>3. g[s \ {Max(s)}] \in Nat
      BY <2>2
    <3>4. Q4In(book[Max(s)]) = IF book[Max(s)].precision = Q4 THEN Len(book[Max(s)].values) ELSE 0
      BY DEF Q4In
    <3>5. CASE book[Max(s)].precision = Q4
      BY <3>1, <3>2, <3>4, <3>5
    <3>6. CASE book[Max(s)].precision # Q4
      <4>1. s # {} => g[s] = g[s \ {Max(s)}] + 0
        BY <3>1, <3>2, <3>4, <3>6
      <4>2. g[s \ {Max(s)}] + 0 = g[s \ {Max(s)}]
        BY <3>3
      <4> QED BY <3>1, <3>6, <4>1, <4>2
    <3> QED BY <3>5, <3>6
  <2>4. g = [s \in SUBSET (1 .. n) |-> g[s]]
    BY <2>1 DEF SumTable
  <2>5. g = step(g)
    BY <2>3, <2>4
  <2> QED BY <2>5
<1>5. f = step(f)
  BY <1>4
<1> HIDE DEF f
<1>6. \A s \in SUBSET (1 .. n) :
         f[s] = IF s = {} THEN 0
                ELSE IF book[Max(s)].precision = Q4
                     THEN f[s \ {Max(s)}] + Len(book[Max(s)].values)
                     ELSE f[s \ {Max(s)}]
  BY <1>5
<1> HIDE DEF step
<1>7. f[{}] = sum[0]
  <2>1. {} \in SUBSET (1 .. n)
    OBVIOUS
  <2> QED BY <1>6, <2>1
<1>8. ASSUME NEW i \in 1 .. n, f[1 .. (i - 1)] = sum[i - 1]
      PROVE  f[1 .. i] = sum[i]
  <2>1. /\ 1 .. i \in SUBSET (1 .. n) /\ 1 .. i # {} /\ Max(1 .. i) = i
        /\ (1 .. i) \ {i} = 1 .. (i - 1)
    BY Segment
  <2>2. sum[i - 1] \in Nat /\ sum[i] = sum[i - 1] + Q4In(book[i])
    OBVIOUS
  <2>3. f[1 .. i] = IF book[Max(1 .. i)].precision = Q4
                    THEN f[(1 .. i) \ {Max(1 .. i)}] + Len(book[Max(1 .. i)].values)
                    ELSE f[(1 .. i) \ {Max(1 .. i)}]
    BY <1>6, <2>1
  <2>4. f[1 .. i] = IF book[i].precision = Q4
                    THEN f[1 .. (i - 1)] + Len(book[i].values)
                    ELSE f[1 .. (i - 1)]
    BY <2>1, <2>3
  <2>5. f[1 .. i] = sum[i - 1] + Q4In(book[i])
    BY <1>8, <2>2, <2>4 DEF Q4In
  <2> QED BY <2>2, <2>5
<1>9. f[1 .. n] = sum[n]
  <2>1. \A i \in 1 .. n : f[1 .. (i - 1)] = sum[i - 1] => f[1 .. i] = sum[i]
    BY <1>8
  <2>2. Follows(f, n, sum)
    BY <1>7, <2>1 DEF Follows
  <2> QED BY <2>2, SumIs
<1> QED BY <1>1, <1>9

\* What the projection for n tokens charges for the i-th.
StartOf(i) == ((i - 1) \div policy.page_tokens) * policy.page_tokens
EndOf(n, i) == Lesser(StartOf(i) + policy.page_tokens, n)
Charge(n, i) == IF \/ StartOf(i) < policy.sink_tokens
                   \/ EndOf(n, i) > SaturatingSub(n, policy.recent_tokens)
                THEN Q4TokenBytes ELSE Q2TokenBytes

(* The first i of n tokens are charged sum[i].                              *)
ChargesAddUp(n, bound, sum) ==
    /\ \A i \in 1 .. n : Charge(n, i) \in 0 .. bound
    /\ sum \in [0 .. n -> Nat] /\ sum[0] = 0
    /\ \A i \in 1 .. n : sum[i] = sum[i - 1] + Charge(n, i)

LEMMA ChargesAre ==
  ASSUME NEW n \in Nat, NEW bound \in Nat, NEW sum,
         ChargesAddUp(n, bound, sum)
  PROVE  ProjectedPackedBytes(n) = sum[n]
<1> USE DEF ChargesAddUp
<1> DEFINE step(g) == [s \in SUBSET DOMAIN [j \in 1 .. n |-> j] |->
                          IF s = {} THEN 0
                          ELSE g[s \ {Max(s)}] + Charge(n, [j \in 1 .. n |-> j][Max(s)])]
           f == CHOOSE g : g = step(g)
           weight == [i \in 1 .. n |-> Charge(n, i)]
<1>1. ProjectedPackedBytes(n) = f[DOMAIN [j \in 1 .. n |-> j]]
  BY DEF ProjectedPackedBytes, Charge, StartOf, EndOf, FoldLeft, MapThenFoldSet
<1>2. weight \in [1 .. n -> 0 .. bound] /\ \A i \in 1 .. n : weight[i] = Charge(n, i)
  OBVIOUS
<1> HIDE DEF weight
<1>3. \A s \in SUBSET (1 .. n) : s # {} => Max(s) \in 1 .. n
  BY LastOf
<1>4. \E g : g = step(g)
  <2>1. PICK g : SumTable(g, n, weight)
    BY <1>2, SumExists
  <2>2. \A s \in SUBSET (1 .. n) : g[s \ {Max(s)}] \in Nat
    BY <2>1 DEF SumTable
  <2>3. ASSUME NEW s \in SUBSET (1 .. n)
        PROVE  g[s] = IF s = {} THEN 0
                      ELSE g[s \ {Max(s)}] + Charge(n, [j \in 1 .. n |-> j][Max(s)])
    <3>1. g[s] = IF s = {} THEN 0 ELSE g[s \ {Max(s)}] + weight[Max(s)]
      BY <2>1 DEF SumTable
    <3>2. s # {} => weight[Max(s)] = Charge(n, Max(s)) /\ Max(s) \in 1 .. n
      BY <1>2, <1>3
    <3>3. g[s \ {Max(s)}] \in Nat
      BY <2>2
    <3> QED BY <3>1, <3>2
  <2>4. g = [s \in SUBSET (1 .. n) |-> g[s]]
    BY <2>1 DEF SumTable
  <2>5. g = step(g)
    BY <2>3, <2>4
  <2> QED BY <2>5
<1>5. f = step(f)
  BY <1>4
<1> HIDE DEF f
<1>6. \A s \in SUBSET (1 .. n) :
         f[s] = IF s = {} THEN 0
                ELSE f[s \ {Max(s)}] + Charge(n, [j \in 1 .. n |-> j][Max(s)])
  BY <1>5
<1> HIDE DEF step
<1>7. f[{}] = sum[0]
  <2>1. {} \in SUBSET (1 .. n)
    OBVIOUS
  <2> QED BY <1>6, <2>1
<1>8. ASSUME NEW i \in 1 .. n, f[1 .. (i - 1)] = sum[i - 1]
      PROVE  f[1 .. i] = sum[i]
  <2>1. /\ 1 .. i \in SUBSET (1 .. n) /\ 1 .. i # {} /\ Max(1 .. i) = i
        /\ (1 .. i) \ {i} = 1 .. (i - 1)
    BY Segment
  <2>2. sum[i - 1] \in Nat /\ sum[i] = sum[i - 1] + Charge(n, i)
    OBVIOUS
  <2>3. f[1 .. i] = f[(1 .. i) \ {Max(1 .. i)}] + Charge(n, [j \in 1 .. n |-> j][Max(1 .. i)])
    BY <1>6, <2>1
  <2>4. f[1 .. i] = f[1 .. (i - 1)] + Charge(n, [j \in 1 .. n |-> j][i])
    BY <2>1, <2>3
  <2>5. f[1 .. i] = sum[i - 1] + Charge(n, i)
    BY <1>8, <2>2, <2>4
  <2> QED BY <2>2, <2>5
<1>9. f[1 .. n] = sum[n]
  <2>1. \A i \in 1 .. n : f[1 .. (i - 1)] = sum[i - 1] => f[1 .. i] = sum[i]
    BY <1>8
  <2>2. Follows(f, n, sum)
    BY <1>7, <2>1 DEF Follows
  <2> QED BY <2>2, SumIs
<1> QED BY <1>1, <1>9

\* How many of some positions lie up to a boundary, a block later.
LEMMA CountBlock ==
  ASSUME NEW hot \in SUBSET Nat, NEW a \in Nat, NEW b \in Nat, a <= b
  PROVE  /\ Cardinality(hot \cap (1 .. a)) \in Nat
         /\ a + 1 .. b \subseteq hot =>
               Cardinality(hot \cap (1 .. b)) = Cardinality(hot \cap (1 .. a)) + (b - a)
         /\ (a + 1 .. b) \cap hot = {} =>
               Cardinality(hot \cap (1 .. b)) = Cardinality(hot \cap (1 .. a))
<1> DEFINE before == hot \cap (1 .. a)
           block == a + 1 .. b
<1>1. IsFiniteSet(before)
  <2>1. IsFiniteSet(1 .. a)
    BY FS_Interval
  <2> QED BY <2>1, FS_Subset
<1>2. Cardinality(before) \in Nat
  BY <1>1, FS_CardinalityType
<1>3. IsFiniteSet(block) /\ Cardinality(block) = b - a
  <2>1. a + 1 \in Int /\ b \in Int /\ a + 1 <= b + 1
    OBVIOUS
  <2>2. IsFiniteSet(a + 1 .. b) /\ Cardinality(a + 1 .. b) = b - (a + 1) + 1
    BY ONLY <2>1, IntervalSize
  <2> QED BY <2>2
<1>4. \A t \in Int : t \in 1 .. b <=> t \in 1 .. a \/ t \in block
  OBVIOUS
<1>5. before \cap block = {}
  OBVIOUS
<1>6. ASSUME block \subseteq hot
      PROVE  Cardinality(hot \cap (1 .. b)) = Cardinality(before) + (b - a)
  <2>1. hot \cap (1 .. b) = before \cup block
    BY <1>4, <1>6
  <2> HIDE DEF before, block
  <2>2. Cardinality(before \cup block)
          = Cardinality(before) + Cardinality(block) - Cardinality(before \cap block)
    BY <1>1, <1>3, FS_Union
  <2>3. Cardinality(before \cap block) = 0
    BY <1>5, FS_EmptySet
  <2> DEFINE x == Cardinality(before)
             y == Cardinality(block)
             z == Cardinality(before \cap block)
  <2>4. x \in Nat /\ y = b - a /\ z = 0 /\ Cardinality(hot \cap (1 .. b)) = x + y - z
    BY <1>2, <1>3, <2>1, <2>2, <2>3
  <2> HIDE DEF x, y, z
  <2>5. Cardinality(hot \cap (1 .. b)) = x + (b - a)
    BY <2>4
  <2> QED BY <2>5 DEF x
<1>7. ASSUME block \cap hot = {}
      PROVE  hot \cap (1 .. b) = before
  BY <1>4, <1>7
<1> QED BY <1>2, <1>6, <1>7

(* What the first m of count tokens cost, if the hot ones are at Q4.        *)
Cost(hot, count, m) ==
    Q4TokenBytes * Cardinality(hot \cap (1 .. m))
      + Q2TokenBytes * Cardinality(((1 .. count) \ hot) \cap (1 .. m))

\* A block of tokens at one precision adds its length at that precision.
LEMMA CostBlock ==
  ASSUME NEW count \in Nat, NEW hot \in SUBSET (1 .. count),
         NEW a \in 0 .. count, NEW b \in a .. count
  PROVE  /\ Cost(hot, count, a) \in Nat
         /\ a + 1 .. b \subseteq hot =>
               Cost(hot, count, b) = Cost(hot, count, a) + (b - a) * Q4TokenBytes
         /\ (a + 1 .. b) \cap hot = {} =>
               Cost(hot, count, b) = Cost(hot, count, a) + (b - a) * Q2TokenBytes
<1> DEFINE cold == (1 .. count) \ hot
           h == Cardinality(hot \cap (1 .. a))
           c == Cardinality(cold \cap (1 .. a))
<1>1. hot \in SUBSET Nat /\ cold \in SUBSET Nat /\ a \in Nat /\ b \in Nat /\ a <= b
  <2>1. \A t \in 1 .. count : t \in Nat
    OBVIOUS
  <2> QED BY <2>1
<1>2. (a + 1 .. b) \subseteq 1 .. count
  OBVIOUS
<1>3. /\ a + 1 .. b \subseteq hot => (a + 1 .. b) \cap cold = {}
      /\ (a + 1 .. b) \cap hot = {} => a + 1 .. b \subseteq cold
  BY <1>2
<1> HIDE DEF cold
<1>4. /\ h \in Nat
      /\ a + 1 .. b \subseteq hot => Cardinality(hot \cap (1 .. b)) = h + (b - a)
      /\ (a + 1 .. b) \cap hot = {} => Cardinality(hot \cap (1 .. b)) = h
  BY <1>1, CountBlock
<1>5. /\ c \in Nat
      /\ a + 1 .. b \subseteq cold => Cardinality(cold \cap (1 .. b)) = c + (b - a)
      /\ (a + 1 .. b) \cap cold = {} => Cardinality(cold \cap (1 .. b)) = c
  BY <1>1, CountBlock
<1>6. /\ Cost(hot, count, a) = Q4TokenBytes * h + Q2TokenBytes * c
      /\ Cost(hot, count, b) = Q4TokenBytes * Cardinality(hot \cap (1 .. b))
                                 + Q2TokenBytes * Cardinality(cold \cap (1 .. b))
  BY DEF Cost, cold
<1>7. Q4TokenBytes \in Nat /\ Q2TokenBytes \in Nat /\ b - a \in Nat
  BY <1>1, BytesAssumption
<1> HIDE DEF h, c
<1>8. Cost(hot, count, a) \in Nat
  BY <1>4, <1>5, <1>6, <1>7
<1>9. /\ Q4TokenBytes * (h + (b - a)) = Q4TokenBytes * h + (b - a) * Q4TokenBytes
      /\ Q2TokenBytes * (c + (b - a)) = Q2TokenBytes * c + (b - a) * Q2TokenBytes
      /\ Q4TokenBytes * h \in Nat /\ Q2TokenBytes * c \in Nat
      /\ (b - a) * Q4TokenBytes \in Nat /\ (b - a) * Q2TokenBytes \in Nat
  BY <1>4, <1>5, <1>7
<1>10. ASSUME a + 1 .. b \subseteq hot
       PROVE  Cost(hot, count, b) = Cost(hot, count, a) + (b - a) * Q4TokenBytes
  <2>1. Cost(hot, count, b) = Q4TokenBytes * (h + (b - a)) + Q2TokenBytes * c
    BY <1>3, <1>4, <1>5, <1>6, <1>10
  <2> QED BY <1>6, <1>9, <2>1
<1>11. ASSUME (a + 1 .. b) \cap hot = {}
       PROVE  Cost(hot, count, b) = Cost(hot, count, a) + (b - a) * Q2TokenBytes
  <2>1. Cost(hot, count, b) = Q4TokenBytes * h + Q2TokenBytes * (c + (b - a))
    BY <1>3, <1>4, <1>5, <1>6, <1>11
  <2> QED BY <1>6, <1>9, <2>1
<1> QED BY <1>8, <1>10, <1>11

(* Pages that are at Q2 exactly when none of their tokens is in the sink or *)
(* in the window.                                                           *)
Settled(book, count) ==
    \A a \in 1 .. Len(book) :
       book[a].precision = Q2 <=>
          /\ PageStart(a) >= policy.sink_tokens
          /\ PageStart(a) + Len(book[a].values) + policy.recent_tokens <= count

(* The last token of a page, if there are pages.                            *)
PageEnd(book, a) == IF a = 0 THEN 0 ELSE PageStart(a) + Len(book[a].values)

\* The pages follow one another and end with the last token.
LEMMA EndsFollow ==
  ASSUME policy \in Policies, NEW book, NEW count, BookInv(book, count)
  PROVE  /\ PageEnd(book, 0) = 0 /\ PageEnd(book, Len(book)) = count
         /\ \A a \in 1 .. Len(book) :
               /\ Len(book[a].values) \in 1 .. policy.page_tokens
               /\ book[a].precision \in {Q2, Q4}
               /\ PageStart(a) \in Nat /\ PageEnd(book, a - 1) = PageStart(a)
               /\ PageEnd(book, a) = PageStart(a) + Len(book[a].values)
               /\ PageEnd(book, a) = Lesser(PageStart(a) + policy.page_tokens, count)
               /\ PageEnd(book, a) \in 1 .. count
<1> DEFINE P == policy.page_tokens
           n == Len(book)
<1>1. n \in Nat /\ DOMAIN book = 1 .. n /\ count \in Nat /\ P \in Nat \ {0}
  BY Geometry DEF BookInv
<1>2. PageEnd(book, 0) = 0 /\ PageEnd(book, n) = count
  BY <1>1 DEF PageEnd, BookInv
<1>3. ASSUME NEW a \in 1 .. n
      PROVE  /\ Len(book[a].values) \in 1 .. P /\ book[a].precision \in {Q2, Q4}
             /\ PageStart(a) \in Nat /\ PageStart(a + 1) = PageStart(a) + P
             /\ PageEnd(book, a) = PageStart(a) + Len(book[a].values)
             /\ a < n => PageEnd(book, a) = PageStart(a + 1)
  <2>1. a \in Nat \ {0} /\ PageInv(book[a], a, count)
    BY <1>1 DEF BookInv
  <2>2. Len(book[a].values) \in 1 .. P /\ book[a].precision \in {Q2, Q4}
    BY <2>1, PageFacts
  <2>3. PageStart(a) \in Nat /\ PageStart(a + 1) = PageStart(a) + P
    BY <2>1, StartIs
  <2>4. PageEnd(book, a) = PageStart(a) + Len(book[a].values)
    BY <2>1 DEF PageEnd
  <2>5. a < n => Len(book[a].values) = P
    BY <1>1 DEF BookInv
  <2> QED BY <2>2, <2>3, <2>4, <2>5
<1>4. ASSUME NEW a \in 1 .. n
      PROVE  PageEnd(book, a - 1) = PageStart(a)
  <2>1. CASE a = 1
    <3>1. PageStart(a) = 0
      BY <2>1, StartIs
    <3> QED BY <1>2, <2>1, <3>1
  <2>2. CASE a # 1
    <3>1. a - 1 \in 1 .. n /\ a - 1 < n /\ (a - 1) + 1 = a
      BY <1>1, <2>2
    <3> QED BY <1>3, <3>1
  <2> QED BY <2>1, <2>2
<1>5. ASSUME NEW a \in 1 .. n
      PROVE  PageEnd(book, a) \in 1 .. count
             /\ PageEnd(book, a) = Lesser(PageStart(a) + P, count)
  <2> DEFINE L == Len(book[a].values)
  <2>1. /\ L \in 1 .. P /\ PageStart(a) \in Nat /\ PageEnd(book, a) = PageStart(a) + L
        /\ PageStart(a + 1) = PageStart(a) + P
        /\ a < n => PageEnd(book, a) = PageStart(a + 1)
    BY <1>3
  <2> HIDE DEF L
  <2>2. CASE a = n
    BY <1>1, <1>2, <2>1, <2>2 DEF Lesser
  <2>3. CASE a < n
    <3> DEFINE c == In(count)
               z == At(count)
    <3>1. n \in 1 .. n /\ PageEnd(book, n) = count /\ PageStart(n) \in Nat
          /\ Len(book[n].values) \in 1 .. P
          /\ PageEnd(book, n) = PageStart(n) + Len(book[n].values)
      BY <1>1, <1>2, <1>3
    <3>2. /\ PageStart(n) = P * (n - 1) /\ PageStart(a) = P * (a - 1)
      BY <1>1, <3>1, StartIs
    <3>3. P * a <= P * (n - 1) /\ P * a = P * (a - 1) + P
      <4>1. a \in Int /\ n - 1 \in Int /\ a <= n - 1
        BY <1>1, <2>3
      <4> HIDE DEF P, n
      <4> QED BY <1>1, <4>1, Monotone
    <3> DEFINE pa == P * a
    <3>4. pa = PageStart(a) + P /\ pa <= PageStart(n)
      BY <3>2, <3>3
    <3> HIDE DEF pa, P, n
    <3>5. PageEnd(book, a) = PageStart(a) + P /\ PageStart(a) + P <= count
      BY <1>1, <2>1, <2>3, <3>1, <3>4
    <3> QED BY <1>1, <2>1, <3>5 DEF Lesser
  <2>4. a = n \/ a < n
    <3> HIDE DEF n, P
    <3> QED BY <1>1
  <2> QED BY <2>2, <2>3, <2>4
<1> QED BY <1>2, <1>3, <1>4, <1>5

\* The tokens of a page, and the page of a token.
LEMMA TokensOfAPage ==
  ASSUME policy \in Policies, NEW book, NEW count, BookInv(book, count)
  PROVE  /\ \A a \in 1 .. Len(book) : \A t \in PageStart(a) + 1 .. PageEnd(book, a) :
               t \in 1 .. count /\ At(t) = a
         /\ \A t \in 1 .. count :
               /\ At(t) \in 1 .. Len(book)
               /\ t \in PageStart(At(t)) + 1 .. PageEnd(book, At(t))
               /\ StartOf(t) = PageStart(At(t))
               /\ EndOf(count, t) = PageEnd(book, At(t))
<1> DEFINE P == policy.page_tokens
<1>1. Len(book) \in Nat /\ count \in Nat /\ P \in Nat \ {0}
  BY Geometry DEF BookInv
<1>2. ASSUME NEW a \in 1 .. Len(book), NEW t \in PageStart(a) + 1 .. PageEnd(book, a)
      PROVE  t \in 1 .. count /\ At(t) = a
  <2>1. /\ Len(book[a].values) \in 1 .. P /\ PageStart(a) \in Nat
        /\ PageEnd(book, a) = PageStart(a) + Len(book[a].values)
        /\ PageEnd(book, a) \in 1 .. count
    BY EndsFollow
  <2>2. a \in Nat \ {0} /\ PageStart(a) = P * (a - 1)
    BY <1>1, StartIs
  <2> DEFINE c == t - PageStart(a)
  <2>3. t \in 1 .. count /\ c \in 1 .. P /\ t = PageStart(a) + c
    <3> DEFINE start == PageStart(a)
               end == PageEnd(book, a)
               L == Len(book[a].values)
    <3>1. /\ L \in 1 .. P /\ start \in Nat /\ end = start + L /\ end \in 1 .. count
          /\ t \in start + 1 .. end
      BY <2>1
    <3> HIDE DEF start, end, L, P
    <3>2. t \in 1 .. count /\ t - start \in 1 .. P /\ t = start + (t - start)
      BY ONLY <1>1, <3>1
    <3> QED BY <3>2 DEF start
  <2> HIDE DEF c, P
  <2>4. t = P * (a - 1) + c
    BY <2>2, <2>3
  <2>5. PageAt(P, t) = a
    BY ONLY <1>1, <2>2, <2>3, <2>4, PlaceIs
  <2> QED BY <2>3, <2>5 DEF At, P
<1>3. ASSUME NEW t \in 1 .. count
      PROVE  /\ At(t) \in 1 .. Len(book)
             /\ t \in PageStart(At(t)) + 1 .. PageEnd(book, At(t))
             /\ StartOf(t) = PageStart(At(t))
             /\ EndOf(count, t) = PageEnd(book, At(t))
  <2> DEFINE a == At(t)
  <2>1. a \in 1 .. Len(book) /\ t = PageStart(a) + In(t) /\ In(t) \in 1 .. Len(book[a].values)
    BY InTheBook
  <2>2. /\ PageStart(a) \in Nat /\ PageEnd(book, a) = PageStart(a) + Len(book[a].values)
        /\ Len(book[a].values) \in 1 .. P
        /\ PageEnd(book, a) = Lesser(PageStart(a) + P, count)
    BY <2>1, EndsFollow
  <2>3. StartOf(t) = PageStart(a)
    <3>1. a = (t - 1) \div P + 1 /\ (t - 1) \div P \in Nat
      <4>1. t - 1 \in Nat
        OBVIOUS
      <4>2. (t - 1) \div P \in Nat
        BY <1>1, <4>1, DivMod
      <4> QED BY <4>2 DEF At, PageAt
    <3> DEFINE d == (t - 1) \div P
    <3>2. a = d + 1 /\ d \in Nat
      BY <3>1
    <3> HIDE DEF a, d
    <3>3. a - 1 = d
      BY <3>2
    <3> QED BY <3>3 DEF StartOf, PageStart, d
  <2>4. EndOf(count, t) = PageEnd(book, a)
    BY <2>2, <2>3 DEF EndOf
  <2> HIDE DEF a
  <2>5. t \in PageStart(a) + 1 .. PageEnd(book, a)
    BY <1>1, <2>1, <2>2
  <2> QED BY <2>1, <2>3, <2>4, <2>5 DEF a
<1> QED BY <1>2, <1>3

\* The tokens at Q4 of settled pages are those of the sink, and fewer than a
\* window and a page at the end.
LEMMA FewAreHot ==
  ASSUME policy \in Policies, Admitted(policy), NEW book, NEW count, BookInv(book, count),
         Settled(book, count), NEW hot,
         hot = {t \in 1 .. count : book[At(t)].precision = Q4}
  PROVE  Cardinality(hot) \in Nat /\ Cardinality(hot) <= MaximumBoundaryQ4Tokens
<1> DEFINE P == policy.page_tokens
           S == policy.sink_tokens
           R == policy.recent_tokens
           first == count + 2 - R - P
<1>1. /\ P \in Nat \ {0} /\ S \in Nat /\ R \in Nat /\ policy.maximum_tokens \in Nat
      /\ count \in 0 .. policy.maximum_tokens /\ count \in Nat /\ S % P = 0
  BY Geometry DEF BookInv, Admitted
<1>2. IsFiniteSet(1 .. count) /\ Cardinality(1 .. count) = count
  <2>1. 1 \in Int /\ count \in Int /\ 1 <= count + 1
    BY <1>1
  <2>2. IsFiniteSet(1 .. count) /\ Cardinality(1 .. count) = count - 1 + 1
    BY ONLY <2>1, IntervalSize
  <2> QED BY <1>1, <2>2
<1>3. hot \in SUBSET (1 .. count)
  OBVIOUS
<1>4. Cardinality(hot) <= count /\ IsFiniteSet(hot) /\ Cardinality(hot) \in Nat
  BY <1>2, <1>3, FS_Subset, FS_CardinalityType
<1>5. IsFiniteSet(1 .. S) /\ Cardinality(1 .. S) = S
  <2>1. 1 \in Int /\ S \in Int /\ 1 <= S + 1
    BY <1>1
  <2> HIDE DEF S
  <2>2. IsFiniteSet(1 .. S) /\ Cardinality(1 .. S) = S - 1 + 1
    BY ONLY <2>1, IntervalSize
  <2> QED BY <2>1, <2>2
<1>6. IsFiniteSet(first .. count) /\ Cardinality(first .. count) = R + P - 1
  <2> HIDE DEF R, P
  <2>1. first \in Int /\ count \in Int /\ first <= count + 1
    BY <1>1
  <2>2. count - first + 1 = R + P - 1
    BY <1>1
  <2> HIDE DEF first
  <2>3. IsFiniteSet(first .. count) /\ Cardinality(first .. count) = count - first + 1
    BY ONLY <2>1, IntervalSize
  <2> QED BY <2>2, <2>3
<1>7. ASSUME NEW t \in hot
      PROVE  t \in (1 .. S) \cup (first .. count)
  <2> DEFINE a == At(t)
             L == Len(book[a].values)
  <2>1. /\ t \in 1 .. count /\ a \in 1 .. Len(book) /\ book[a].precision = Q4
        /\ t \in PageStart(a) + 1 .. PageEnd(book, a)
    BY TokensOfAPage
  <2>2. /\ PageStart(a) \in Nat /\ PageEnd(book, a) = PageStart(a) + L /\ L \in 1 .. P
    BY <2>1, EndsFollow
  <2>3. ~(PageStart(a) >= S /\ PageStart(a) + L + R <= count)
    BY <2>1 DEF Settled, Q2, Q4
  <2>4. a \in Nat \ {0} /\ PageStart(a) = P * (a - 1)
    <3>1. a \in Nat \ {0}
      BY <2>1 DEF BookInv
    <3> QED BY <3>1, StartIs
  <2>5. CASE PageStart(a) < S
    <3> DEFINE q == S \div P
    <3>1. q \in Nat /\ S = P * q
      <4> HIDE DEF S, P
      <4>1. q \in Nat /\ S = P * q + (S % P)
        BY <1>1, DivMod
      <4> HIDE DEF q
      <4>2. P * q \in Int
        BY <1>1, <4>1
      <4> QED BY <1>1, <4>1, <4>2
    <3> HIDE DEF q, a, P, S
    <3>2. a - 1 < q
      <4> SUFFICES ASSUME q <= a - 1 PROVE FALSE
        BY <2>4, <3>1
      <4>1. P * q <= P * (a - 1)
        BY <1>1, <2>4, <3>1, Monotone
      <4> QED BY <1>1, <2>4, <2>5, <3>1, <4>1
    <3>3. P * a <= P * q /\ P * a = P * (a - 1) + P
      BY <1>1, <2>4, <3>1, <3>2, Monotone
    <3> DEFINE pa == P * a
    <3>4. pa = PageStart(a) + P /\ pa <= S
      BY <2>4, <3>1, <3>3
    <3> HIDE DEF pa, L
    <3>5. t \in Nat /\ 1 <= t /\ t <= S
      BY <1>1, <2>1, <2>2, <3>4
    <3> QED BY <1>1, <3>5
  <2>6. CASE PageStart(a) + L + R > count
    <3> HIDE DEF a, L, P, S, R
    <3>1. t \in Int /\ first <= t /\ t <= count
      BY <1>1, <2>1, <2>2, <2>6 DEF first
    <3>2. first \in Int
      BY <1>1
    <3> QED BY <1>1, <3>1, <3>2
  <2> HIDE DEF a, L, P, S, R
  <2> QED BY <1>1, <2>2, <2>3, <2>5, <2>6
<1>8. Cardinality(hot) <= S + (R + P - 1)
  <2> DEFINE sink == 1 .. S
             end == first .. count
  <2>1. /\ IsFiniteSet(sink) /\ Cardinality(sink) = S
        /\ IsFiniteSet(end) /\ Cardinality(end) = R + P - 1
    BY <1>5, <1>6
  <2>2. hot \in SUBSET (sink \cup end)
    BY <1>7
  <2> HIDE DEF sink, end
  <2>3. /\ IsFiniteSet(sink \cup end)
        /\ Cardinality(sink \cup end) = S + (R + P - 1) - Cardinality(sink \cap end)
    BY <2>1, FS_Union
  <2>4. IsFiniteSet(sink \cap end) /\ Cardinality(sink \cap end) \in Nat
    <3>1. sink \cap end \in SUBSET sink
      OBVIOUS
    <3>2. IsFiniteSet(sink \cap end)
      BY <2>1, <3>1, FS_Subset
    <3> QED BY <3>2, FS_CardinalityType
  <2>5. Cardinality(hot) <= Cardinality(sink \cup end)
    BY <2>2, <2>3, FS_Subset
  <2> DEFINE x == Cardinality(sink \cap end)
             u == Cardinality(sink \cup end)
  <2>6. x \in Nat /\ u = S + (R + P - 1) - x /\ Cardinality(hot) <= u
    BY <2>3, <2>4, <2>5
  <2> HIDE DEF x, u, S, R, P, first
  <2> QED BY <1>1, <1>4, <2>6
<1> HIDE DEF first
<1>9. S + (R + P - 1) = S + R + P - 1 /\ S + R + P - 1 \in Nat
  <2> HIDE DEF S, R, P
  <2> QED BY <1>1
<1> QED BY <1>1, <1>4, <1>8, <1>9 DEF MaximumBoundaryQ4Tokens, Lesser

\* Settled pages cost what the projection says, and few tokens are at Q4.
LEMMA SettledIsTheBudget ==
  ASSUME policy \in Policies, Admitted(policy), NEW book, NEW count, BookInv(book, count),
         Settled(book, count)
  PROVE  /\ BytesIn(book) = ProjectedPackedBytes(count)
         /\ Q4TokensIn(book) <= MaximumBoundaryQ4Tokens
<1> DEFINE n == Len(book)
           hot == {t \in 1 .. count : book[At(t)].precision = Q4}
           bound == Capacity * (Q2TokenBytes + Q4TokenBytes)
<1>1. /\ n \in Nat /\ DOMAIN book = 1 .. n /\ count \in Nat
      /\ policy.page_tokens \in 1 .. Capacity /\ Capacity \in Nat \ {0}
      /\ policy.recent_tokens \in Nat /\ policy.sink_tokens \in Nat
  BY Geometry, CapacityAssumption DEF BookInv
<1>2. Q4TokenBytes \in Nat \ {0} /\ Q2TokenBytes \in Nat \ {0} /\ bound \in Nat
  BY <1>1, BytesAssumption
<1>3. \A l \in 0 .. Capacity : l * Q4TokenBytes \in 0 .. bound /\ l * Q2TokenBytes \in 0 .. bound
  <2> SUFFICES ASSUME NEW l \in 0 .. Capacity
               PROVE  l * Q4TokenBytes \in 0 .. bound /\ l * Q2TokenBytes \in 0 .. bound
    OBVIOUS
  <2>1. /\ Q4TokenBytes * l <= Q4TokenBytes * Capacity
        /\ Q2TokenBytes * l <= Q2TokenBytes * Capacity
    BY <1>1, <1>2, Monotone
  <2>2. /\ Q4TokenBytes * l = l * Q4TokenBytes /\ Q2TokenBytes * l = l * Q2TokenBytes
        /\ l * Q4TokenBytes \in Nat /\ l * Q2TokenBytes \in Nat
        /\ bound = Q4TokenBytes * Capacity + Q2TokenBytes * Capacity
        /\ Q4TokenBytes * Capacity \in Nat /\ Q2TokenBytes * Capacity \in Nat
    BY <1>1, <1>2
  <2> HIDE DEF bound
  <2> QED BY <1>2, <2>1, <2>2
<1> HIDE DEF bound
<1>4. hot \in SUBSET (1 .. count)
  OBVIOUS
<1>5. \A t \in 1 .. count : t \in hot <=> book[At(t)].precision = Q4
  OBVIOUS
<1>6. Cardinality(hot) \in Nat /\ Cardinality(hot) <= MaximumBoundaryQ4Tokens
  BY FewAreHot
<1> HIDE DEF hot
<1>7. \A a \in 1 .. n :
         /\ Len(book[a].values) \in 1 .. policy.page_tokens
         /\ book[a].precision \in {Q2, Q4}
         /\ PageStart(a) \in Nat /\ PageEnd(book, a - 1) = PageStart(a)
         /\ PageEnd(book, a) = PageStart(a) + Len(book[a].values)
         /\ PageEnd(book, a) \in 1 .. count
  BY EndsFollow
<1>8. PageEnd(book, 0) = 0 /\ PageEnd(book, n) = count
  BY EndsFollow
<1>9. \A a \in 0 .. n : PageEnd(book, a) \in 0 .. count
  <2> SUFFICES ASSUME NEW a \in 0 .. n PROVE PageEnd(book, a) \in 0 .. count
    OBVIOUS
  <2>1. CASE a = 0
    BY <1>1, <1>8, <2>1
  <2>2. CASE a # 0
    <3>1. a \in 1 .. n
      BY <1>1, <2>2
    <3> QED BY <1>1, <1>7, <3>1
  <2> QED BY <2>1, <2>2
\* The tokens of a page are hot together.
<1>10. ASSUME NEW a \in 1 .. n
       PROVE  /\ book[a].precision = Q4 => PageStart(a) + 1 .. PageEnd(book, a) \subseteq hot
              /\ book[a].precision # Q4 => (PageStart(a) + 1 .. PageEnd(book, a)) \cap hot = {}
  <2>1. \A t \in PageStart(a) + 1 .. PageEnd(book, a) : t \in 1 .. count /\ At(t) = a
    BY TokensOfAPage
  <2> QED BY <1>5, <2>1
<1>11. ASSUME NEW t \in 1 .. count
       PROVE  Charge(count, t) = IF t \in hot THEN Q4TokenBytes ELSE Q2TokenBytes
  <2> DEFINE a == At(t)
             end == PageEnd(book, a)
  <2>1. a \in 1 .. n /\ StartOf(t) = PageStart(a) /\ EndOf(count, t) = end
    BY TokensOfAPage
  <2>2. /\ book[a].precision \in {Q2, Q4} /\ PageStart(a) \in Nat
        /\ end = PageStart(a) + Len(book[a].values) /\ end \in 1 .. count
    BY <1>7, <2>1
  <2>3. t \in hot <=> ~(PageStart(a) >= policy.sink_tokens
                          /\ end + policy.recent_tokens <= count)
    BY <1>5, <2>1, <2>2 DEF Settled, Q2, Q4
  <2> HIDE DEF a, end
  <2>4. end > SaturatingSub(count, policy.recent_tokens)
          <=> ~(end + policy.recent_tokens <= count)
    <3> DEFINE r == policy.recent_tokens
    <3>1. r \in Nat /\ count \in Nat /\ end \in 1 .. count
      BY <1>1, <2>2
    <3> HIDE DEF r
    <3>2. end > SaturatingSub(count, r) <=> ~(end + r <= count)
      BY ONLY <3>1 DEF SaturatingSub
    <3> QED BY <3>2 DEF r
  <2>5. PageStart(a) < policy.sink_tokens <=> ~(PageStart(a) >= policy.sink_tokens)
    BY <1>1, <2>2
  <2> QED BY <2>1, <2>3, <2>4, <2>5 DEF Charge
<1>12. ProjectedPackedBytes(count) = Cost(hot, count, count)
  <2> DEFINE sum == [m \in 0 .. count |-> Cost(hot, count, m)]
  <2>1. sum \in [0 .. count -> Nat]
    <3> SUFFICES ASSUME NEW m \in 0 .. count PROVE Cost(hot, count, m) \in Nat
      OBVIOUS
    <3>1. m \in m .. count
      BY <1>1
    <3> QED BY <1>1, <1>4, <3>1, CostBlock
  <2>2. sum[0] = 0
    <3>1. \A cool : cool \cap (1 .. 0) = {}
      OBVIOUS
    <3>2. Cost(hot, count, 0) = 0
      BY <1>2, <3>1, FS_EmptySet DEF Cost
    <3>3. 0 \in 0 .. count
      BY <1>1
    <3> QED BY <3>2, <3>3
  <2>3. ASSUME NEW i \in 1 .. count
        PROVE  /\ sum[i] = sum[i - 1] + Charge(count, i)
               /\ Charge(count, i) \in 0 .. bound
    <3>1. /\ i - 1 \in 0 .. count /\ i \in i - 1 .. count /\ i \in 0 .. count
          /\ (i - 1) + 1 .. i = {i} /\ i - (i - 1) = 1
      BY <1>1
    <3>2. /\ (i - 1) + 1 .. i \subseteq hot =>
               Cost(hot, count, i) = Cost(hot, count, i - 1) + (i - (i - 1)) * Q4TokenBytes
          /\ ((i - 1) + 1 .. i) \cap hot = {} =>
               Cost(hot, count, i) = Cost(hot, count, i - 1) + (i - (i - 1)) * Q2TokenBytes
      BY ONLY <1>1, <1>4, <3>1, CostBlock
    <3>3. /\ i \in hot => Cost(hot, count, i) = Cost(hot, count, i - 1) + 1 * Q4TokenBytes
          /\ i \notin hot => Cost(hot, count, i) = Cost(hot, count, i - 1) + 1 * Q2TokenBytes
      BY <3>1, <3>2
    <3>4. 1 * Q4TokenBytes = Q4TokenBytes /\ 1 * Q2TokenBytes = Q2TokenBytes
      BY <1>2
    <3>5. Cost(hot, count, i) = Cost(hot, count, i - 1) + Charge(count, i)
      BY <1>11, <3>3, <3>4
    <3>6. Q4TokenBytes \in 0 .. bound /\ Q2TokenBytes \in 0 .. bound
      <4>1. 1 \in 0 .. Capacity
        BY <1>1
      <4> QED BY <1>3, <3>4, <4>1
    <3> QED BY <1>11, <3>1, <3>5, <3>6
  <2>4. sum[count] = Cost(hot, count, count)
    BY <1>1
  <2> HIDE DEF sum
  <2>5. ProjectedPackedBytes(count) = sum[count]
    <3>1. \A i \in 1 .. count : Charge(count, i) \in 0 .. bound
      BY <2>3
    <3>2. \A i \in 1 .. count : sum[i] = sum[i - 1] + Charge(count, i)
      BY <2>3
    <3>3. ChargesAddUp(count, bound, sum)
      BY <2>1, <2>2, <3>1, <3>2 DEF ChargesAddUp
    <3> QED BY <1>1, <1>2, <3>3, ChargesAre
  <2> QED BY <2>4, <2>5
<1>13. BytesIn(book) = Cost(hot, count, count)
  <2> DEFINE sum == [a \in 0 .. n |-> Cost(hot, count, PageEnd(book, a))]
  <2>1. sum \in [0 .. n -> Nat]
    <3> SUFFICES ASSUME NEW a \in 0 .. n PROVE Cost(hot, count, PageEnd(book, a)) \in Nat
      OBVIOUS
    <3> DEFINE m == PageEnd(book, a)
    <3>1. m \in 0 .. count
      BY <1>9
    <3> HIDE DEF m
    <3>2. m \in m .. count
      BY <1>1, <3>1
    <3>3. Cost(hot, count, m) \in Nat
      BY <1>1, <1>4, <3>1, <3>2, CostBlock
    <3> QED BY <3>3 DEF m
  <2>2. sum[0] = 0
    <3>1. \A cool : cool \cap (1 .. 0) = {}
      OBVIOUS
    <3>2. Cost(hot, count, 0) = 0
      BY <1>2, <3>1, FS_EmptySet DEF Cost
    <3>3. 0 \in 0 .. n
      BY <1>1
    <3> QED BY <1>8, <3>2, <3>3
  <2>3. ASSUME NEW i \in 1 .. n
        PROVE  /\ sum[i] = sum[i - 1] + PageBytes(book[i])
               /\ PageBytes(book[i]) \in 0 .. bound
    <3> DEFINE a == PageStart(i)
               b == PageEnd(book, i)
               L == Len(book[i].values)
    <3>1. /\ L \in 1 .. policy.page_tokens /\ book[i].precision \in {Q2, Q4}
          /\ a \in Nat /\ PageEnd(book, i - 1) = a /\ b = a + L /\ b \in 1 .. count
      BY <1>7
    <3>2. /\ sum[i] = Cost(hot, count, b) /\ sum[i - 1] = Cost(hot, count, a)
      <4>1. i \in 0 .. n /\ i - 1 \in 0 .. n
        BY <1>1
      <4> QED BY <3>1, <4>1
    <3>3. /\ book[i].precision = Q4 => a + 1 .. b \subseteq hot
          /\ book[i].precision # Q4 => (a + 1 .. b) \cap hot = {}
      BY <1>10
    <3>4. PageBytes(book[i]) = L * (IF book[i].precision = Q4 THEN Q4TokenBytes
                                                             ELSE Q2TokenBytes)
      BY <3>1 DEF PageBytes, TokenBytes, Q2, Q4
    <3> HIDE DEF a, b, L, sum
    <3>5. a \in 0 .. count /\ b \in a .. count /\ b - a = L /\ L \in 0 .. Capacity
      BY <1>1, <3>1
    <3>6. /\ a + 1 .. b \subseteq hot =>
               Cost(hot, count, b) = Cost(hot, count, a) + (b - a) * Q4TokenBytes
          /\ (a + 1 .. b) \cap hot = {} =>
               Cost(hot, count, b) = Cost(hot, count, a) + (b - a) * Q2TokenBytes
      <4>1. count \in Nat /\ a \in 0 .. count /\ b \in a .. count
        BY <1>1, <3>5
      <4> QED BY ONLY <1>4, <4>1, CostBlock
    <3>7. sum[i] = sum[i - 1] + PageBytes(book[i])
      BY <3>2, <3>3, <3>4, <3>5, <3>6
    <3>8. PageBytes(book[i]) \in 0 .. bound
      BY <1>3, <3>4, <3>5
    <3> QED BY <3>7, <3>8
  <2>4. sum[n] = Cost(hot, count, count)
    BY <1>1, <1>8
  <2> HIDE DEF sum, n
  <2>5. BytesIn(book) = sum[n]
    <3>1. \A i \in 1 .. n : PageBytes(book[i]) \in 0 .. bound
      BY <2>3
    <3>2. \A i \in 1 .. n : sum[i] = sum[i - 1] + PageBytes(book[i])
      BY <2>3
    <3>3. BytesAddUp(book, n, bound, sum)
      BY <1>1, <2>1, <2>2, <3>1, <3>2 DEF BytesAddUp
    <3> QED BY <1>1, <1>2, <3>3, BytesAre
  <2> QED BY <2>4, <2>5
<1>14. Q4TokensIn(book) = Cardinality(hot)
  <2> DEFINE sum == [a \in 0 .. n |-> Cardinality(hot \cap (1 .. PageEnd(book, a)))]
  <2>0. hot \in SUBSET Nat
    <3>1. \A t \in 1 .. count : t \in Nat
      OBVIOUS
    <3> QED BY <1>4, <3>1
  <2>1. sum \in [0 .. n -> Nat]
    <3> SUFFICES ASSUME NEW a \in 0 .. n
                 PROVE  Cardinality(hot \cap (1 .. PageEnd(book, a))) \in Nat
      OBVIOUS
    <3> DEFINE m == PageEnd(book, a)
    <3>1. m \in Nat
      BY <1>1, <1>9
    <3> HIDE DEF m
    <3>2. m <= m
      BY <3>1
    <3>3. Cardinality(hot \cap (1 .. m)) \in Nat
      BY ONLY <2>0, <3>1, <3>2, CountBlock
    <3> QED BY <3>3 DEF m
  <2>2. sum[0] = 0
    <3>1. hot \cap (1 .. 0) = {}
      OBVIOUS
    <3>2. 0 \in 0 .. n
      BY <1>1
    <3> QED BY <1>8, <3>1, <3>2, FS_EmptySet
  <2>3. ASSUME NEW i \in 1 .. n
        PROVE  /\ sum[i] = sum[i - 1] + Q4In(book[i])
               /\ Q4In(book[i]) \in 0 .. Capacity
    <3> DEFINE a == PageStart(i)
               b == PageEnd(book, i)
               L == Len(book[i].values)
    <3>1. /\ L \in 1 .. policy.page_tokens /\ book[i].precision \in {Q2, Q4}
          /\ a \in Nat /\ PageEnd(book, i - 1) = a /\ b = a + L /\ b \in 1 .. count
      BY <1>7
    <3>2. /\ sum[i] = Cardinality(hot \cap (1 .. b))
          /\ sum[i - 1] = Cardinality(hot \cap (1 .. a))
      <4>1. i \in 0 .. n /\ i - 1 \in 0 .. n
        BY <1>1
      <4> QED BY <3>1, <4>1
    <3>3. /\ book[i].precision = Q4 => a + 1 .. b \subseteq hot
          /\ book[i].precision # Q4 => (a + 1 .. b) \cap hot = {}
      BY <1>10
    <3>4. Q4In(book[i]) = IF book[i].precision = Q4 THEN L ELSE 0
      BY DEF Q4In
    <3> HIDE DEF a, b, L, sum
    <3>5. a \in Nat /\ b \in Nat /\ a <= b /\ b - a = L /\ L \in 0 .. Capacity
      BY <1>1, <3>1
    <3>6. /\ Cardinality(hot \cap (1 .. a)) \in Nat
          /\ a + 1 .. b \subseteq hot =>
               Cardinality(hot \cap (1 .. b)) = Cardinality(hot \cap (1 .. a)) + (b - a)
          /\ (a + 1 .. b) \cap hot = {} =>
               Cardinality(hot \cap (1 .. b)) = Cardinality(hot \cap (1 .. a))
      BY ONLY <2>0, <3>5, CountBlock
    <3>7. sum[i] = sum[i - 1] + Q4In(book[i])
      BY <3>2, <3>3, <3>4, <3>5, <3>6
    <3>8. Q4In(book[i]) \in 0 .. Capacity
      BY <1>1, <3>4, <3>5
    <3> QED BY <3>7, <3>8
  <2>4. sum[n] = Cardinality(hot)
    <3>1. hot \cap (1 .. count) = hot
      BY <1>4
    <3>2. n \in 0 .. n
      BY <1>1
    <3>3. sum[n] = Cardinality(hot \cap (1 .. PageEnd(book, n)))
      BY <3>2
    <3> QED BY <1>8, <3>1, <3>3
  <2> HIDE DEF sum, n
  <2>5. Q4TokensIn(book) = sum[n]
    <3>1. \A i \in 1 .. n : Q4In(book[i]) \in 0 .. Capacity
      BY <2>3
    <3>2. \A i \in 1 .. n : sum[i] = sum[i - 1] + Q4In(book[i])
      BY <2>3
    <3>3. Q4TokensAddUp(book, n, Capacity, sum)
      BY <1>1, <2>1, <2>2, <3>1, <3>2 DEF Q4TokensAddUp
    <3> QED BY <1>1, <3>3, Q4TokensAre
  <2> QED BY <2>4, <2>5
<1> QED BY <1>6, <1>12, <1>13, <1>14

\* After an ordinary append the pages are settled.
LEMMA DemotionSettles ==
  ASSUME policy \in Policies, NEW book, NEW count, BookInv(book, count)
  PROVE  Settled(Demote(book, count), count)
<1> DEFINE after == Demote(book, count)
<1> SUFFICES ASSUME NEW a \in 1 .. Len(after)
             PROVE  after[a].precision = Q2 <=>
                      /\ PageStart(a) >= policy.sink_tokens
                      /\ PageStart(a) + Len(after[a].values) + policy.recent_tokens <= count
  BY DEF Settled
<1>1. /\ BookInv(after, count) /\ Len(after) = Len(book)
      /\ after[a] = IF a \in Old(book, count) THEN [book[a] EXCEPT !.precision = Q2]
                    ELSE book[a]
  BY Demotion
<1>2. Len(book) \in Nat /\ DOMAIN book = 1 .. Len(book) /\ count \in Nat
      /\ policy.recent_tokens \in Nat /\ policy.sink_tokens \in Nat
  BY Geometry DEF BookInv
<1>3. a \in 1 .. Len(book) /\ a \in DOMAIN book /\ a \in DOMAIN after /\ a \in Nat \ {0}
  BY <1>1, <1>2 DEF BookInv
<1>4. PageInv(book[a], a, count) /\ PageInv(after[a], a, count) /\ book[a] \in Page
  BY <1>1, <1>3 DEF BookInv, PageInv
<1>5. after[a].values = book[a].values
  BY <1>1, <1>4 DEF Page
<1> HIDE DEF after
<1>6. ASSUME after[a].precision = Q2
      PROVE  /\ PageStart(a) >= policy.sink_tokens
             /\ PageStart(a) + Len(after[a].values) + policy.recent_tokens <= count
  BY <1>4, <1>6 DEF PageInv
<1>7. ASSUME PageStart(a) >= policy.sink_tokens,
             PageStart(a) + Len(after[a].values) + policy.recent_tokens <= count
      PROVE  after[a].precision = Q2
  <2>1. book[a].precision \in {Q2, Q4} /\ Len(book[a].values) \in Nat
    BY <1>3, <1>4, PageFacts
  <2>2. PageStart(a) \in Nat
    BY <1>3, StartIs
  <2>3. PageStart(a) + Len(book[a].values) <= SaturatingSub(count, policy.recent_tokens)
    BY <1>2, <1>5, <1>7, <2>1, <2>2 DEF SaturatingSub
  <2>4. CASE book[a].precision = Q4
    <3>1. a \in Old(book, count)
      BY <1>3, <1>7, <2>3, <2>4 DEF Old
    <3> QED BY <1>1, <1>4, <3>1 DEF Page
  <2>5. CASE book[a].precision = Q2
    BY <1>1, <1>4, <2>5 DEF Page
  <2> QED BY <2>1, <2>4, <2>5
<1> QED BY <1>6, <1>7

\* Only an ordinary append adds a token while no branch is held.
LEMMA PushMeetsTheBudget ==
  ASSUME PagedInv, NEW value \in Values, Push(value)
  PROVE  /\ PackedBytes' = ProjectedPackedBytes(tokens + 1)
         /\ Q4Tokens' <= MaximumBoundaryQ4Tokens
<1> DEFINE book == Demote(Packed(value), tokens + 1)
<1>1. /\ policy \in Policies /\ Admitted(policy) /\ tokens < policy.maximum_tokens
      /\ pages' = book /\ BookInv(pages, tokens)
  BY DEF Push, PagedInv
<1>2. BookInv(Packed(value), tokens + 1)
  BY <1>1, PackedFacts
<1>3. BookInv(book, tokens + 1) /\ Settled(book, tokens + 1)
  BY <1>1, <1>2, Demotion, DemotionSettles
<1> HIDE DEF book
<1>4. /\ BytesIn(book) = ProjectedPackedBytes(tokens + 1)
      /\ Q4TokensIn(book) <= MaximumBoundaryQ4Tokens
  BY <1>1, <1>3, SettledIsTheBudget
<1>5. PackedBytes' = BytesIn(pages')
  BY DEF PackedBytes, BytesIn, FoldLeft, MapThenFoldSet
<1>6. Q4Tokens' = Q4TokensIn(pages')
  BY DEF Q4Tokens, Q4TokensIn, FoldLeft, MapThenFoldSet
<1> QED BY <1>1, <1>4, <1>5, <1>6

(* An ordinary append leaves exactly the bytes that projected_packed_bytes  *)
(* promised the memory plan, and at most maximum_boundary_q4_tokens tokens  *)
(* at Q4, for every policy; in test builds also after branches that held    *)
(* demotions back.                                                          *)
THEOREM PushAlwaysSettlesTheBudget == Spec => PushSettlesTheBudget
<1> DEFINE A == tokens' = tokens + 1 /\ checkpoint = << >> =>
                  /\ PackedBytes' = ProjectedPackedBytes(tokens + 1)
                  /\ Q4Tokens' <= MaximumBoundaryQ4Tokens
<1>1. PagedInv /\ [Next]_vars => [A]_vars
  <2> SUFFICES ASSUME PagedInv, Next, tokens' = tokens + 1, checkpoint = << >>
               PROVE  /\ PackedBytes' = ProjectedPackedBytes(tokens + 1)
                      /\ Q4Tokens' <= MaximumBoundaryQ4Tokens
    OBVIOUS
  <2>1. tokens \in Nat
    BY DEF PagedInv, BookInv
  <2>2. \E value \in Values : Push(value)
    BY <2>1 DEF Next, PushRetainingQ4, AppendCheckpoint, RestoreAppendCheckpoint,
                DropCheckpoint, Reset
  <2> QED BY <2>2, PushMeetsTheBudget
<1> QED BY <1>1, PagedInit, PagedStep, PTL DEF Spec, PushSettlesTheBudget

-----------------------------------------------------------------------------
(* The cache implements the retention contract *)

\* A read of the pages after an append.
LEMMA ReadPacked ==
  ASSUME PagedInv, tokens < policy.maximum_tokens, NEW value \in Values,
         NEW book, book = Packed(value)
  PROVE  /\ \A t \in 1 .. tokens : Read(book, t) = Read(pages, t)
         /\ Read(book, tokens + 1).value = value
         /\ \A t \in 1 .. tokens + 1 :
               /\ At(t) \in 1 .. Len(book)
               /\ Read(book, t).value \in Values
               /\ Read(book, t).precision \in {Q2, Q4}
<1> DEFINE n == Len(book)
           P == policy.page_tokens
           count == tokens + 1
<1>0. n = Len(book)
  OBVIOUS
<1> HIDE DEF n
<1>1. /\ policy \in Policies /\ BookInv(pages, tokens) /\ BookInv(book, count)
      /\ n \in Nat \ {0} /\ DOMAIN book = 1 .. n
      /\ n = Len(pages) \/ n = Len(pages) + 1
      /\ \A a \in 1 .. n : a < n => book[a] = pages[a]
      /\ n = Len(pages) =>
            book[n] = [pages[n] EXCEPT !.values = Append(pages[n].values, value)]
      /\ n # Len(pages) =>
            book[n].values = <<value>> /\ book[n].precision = Q4
      /\ tokens \in Nat /\ Len(pages) \in Nat /\ P \in Nat \ {0}
  <2>1. policy \in Policies /\ BookInv(pages, tokens)
    BY DEF PagedInv
  <2>2. tokens \in Nat /\ Len(pages) \in Nat /\ P \in Nat \ {0}
    BY <2>1, Geometry DEF BookInv
  <2> DEFINE b == Packed(value)
             m == Len(b)
  <2>3. /\ BookInv(b, tokens + 1)
        /\ m \in Nat \ {0} /\ DOMAIN b = 1 .. m
        /\ m = Len(pages) \/ m = Len(pages) + 1
        /\ \A a \in 1 .. m : a < m => b[a] = pages[a]
        /\ m = Len(pages) =>
              b[m] = [pages[m] EXCEPT !.values = Append(pages[m].values, value)]
        /\ m # Len(pages) =>
              b[m].values = <<value>> /\ b[m].precision = Q4
    BY ONLY <2>1, tokens < policy.maximum_tokens, value \in Values, PackedFacts
  <2>4. b = book /\ m = n
    BY <1>0
  <2> HIDE DEF b, m, P
  <2> QED BY <2>1, <2>2, <2>3, <2>4
<1>2. ASSUME NEW t \in 1 .. tokens PROVE Read(book, t) = Read(pages, t)
  <2> DEFINE a == At(t)
             c == In(t)
  <2>1. a \in 1 .. Len(pages) /\ c \in 1 .. Len(pages[a].values)
    BY <1>1, InTheBook
  <2>2. CASE a < n
    <3>1. book[a] = pages[a]
      BY <1>1, <2>1, <2>2
    <3> QED BY <3>1 DEF Read
  <2>3. CASE ~(a < n)
    <3>1. a = n /\ n = Len(pages)
      BY <1>1, <2>1, <2>3
    <3>2. PageInv(pages[n], n, tokens) /\ pages[n] \in Page
      BY <1>1, <3>1 DEF BookInv, PageInv
    <3>3. pages[n].values \in Seq(Values)
      BY <3>2 DEF Page
    <3>4. /\ book[n].precision = pages[n].precision
          /\ book[n].values = Append(pages[n].values, value)
      BY <1>1, <3>1, <3>2 DEF Page
    <3>5. Append(pages[n].values, value)[c] = pages[n].values[c]
      BY <2>1, <3>1, <3>3
    <3> QED BY <3>1, <3>4, <3>5 DEF Read
  <2> QED BY <2>2, <2>3
<1>3. Read(book, count).value = value
  <2> DEFINE k == Len(book[n].values)
  <2>0. n \in 1 .. n
    BY <1>1
  <2>1. PageInv(book[n], n, count)
    BY <1>1, <2>0 DEF BookInv
  <2>2. k \in 1 .. P /\ k \in Nat \ {0}
    BY <1>1, <2>1, PageFacts
  <2>3. PageStart(n) = P * (n - 1)
    BY <1>1, StartIs
  <2>4. count = PageStart(n) + k
    BY <1>1 DEF BookInv, n
  <2>5. book[n].values[k] = value
    <3>1. CASE n = Len(pages)
      <4>1. pages[n] \in Page
        BY <1>1, <3>1 DEF BookInv, PageInv
      <4>2. pages[n].values \in Seq(Values) /\ book[n].values = Append(pages[n].values, value)
        BY <1>1, <3>1, <4>1 DEF Page
      <4> DEFINE old == pages[n].values
      <4> HIDE DEF old
      <4>3. old \in Seq(Values) /\ book[n].values = Append(old, value)
        BY <4>2 DEF old
      <4>4. k = Len(old) + 1 /\ Append(old, value)[Len(old) + 1] = value
        BY <4>3
      <4> QED BY <4>3, <4>4
    <3>2. CASE n # Len(pages)
      <4>1. book[n].values = <<value>>
        BY <1>1, <3>2
      <4>2. k = 1
        BY <4>1
      <4> QED BY <4>1, <4>2
    <3> QED BY <3>1, <3>2
  <2> HIDE DEF k
  <2>6. At(count) = n /\ In(count) = k
    <3>1. count = P * (n - 1) + k
      BY <2>3, <2>4
    <3> QED BY <1>1, <2>2, <3>1, PlaceIs DEF At, In
  <2> QED BY <2>5, <2>6 DEF Read
<1>4. ASSUME NEW t \in 1 .. count
      PROVE  /\ At(t) \in 1 .. n
             /\ Read(book, t).value \in Values /\ Read(book, t).precision \in {Q2, Q4}
  <2> DEFINE a == At(t)
             c == In(t)
  <2>1. a \in 1 .. n /\ c \in 1 .. Len(book[a].values)
    BY <1>1, InTheBook DEF n
  <2>2. book[a] \in Page
    BY <1>1, <2>1 DEF BookInv, PageInv
  <2>3. book[a].values[c] \in Values /\ book[a].precision \in {Q2, Q4}
    BY <2>1, <2>2 DEF Page
  <2> QED BY <2>1, <2>3 DEF Read
<1> QED BY <1>2, <1>3, <1>4 DEF n

\* Whatever pages go to Q2, what a reader gets is what the contract allows.
LEMMA ReadsReduce ==
  ASSUME PagedInv, tokens < policy.maximum_tokens, NEW value \in Values,
         NEW after, BookInv(after, tokens + 1), Len(after) = Len(Packed(value)),
         \A a \in 1 .. Len(after) :
            /\ after[a].values = Packed(value)[a].values
            /\ after[a].precision \in {Q2, Packed(value)[a].precision}
  PROVE  \E which \in SUBSET Retention!Outside(tokens + 1) :
            /\ ViewOf(after) = Retention!Reduced(
                  Append(ViewOf(pages), [value |-> value, precision |-> Q4]), which)
            /\ after = Packed(value) => which \subseteq {tokens + 1}
<1> DEFINE book == Packed(value)
           count == tokens + 1
           new == [value |-> value, precision |-> Q4]
           written == Append(ViewOf(pages), new)
           which == {t \in 1 .. count : Read(after, t).precision # written[t].precision}
<1> HIDE DEF book
<1>1. policy \in Policies /\ BookInv(pages, tokens) /\ tokens \in Nat
      /\ policy.sink_tokens \in Nat /\ policy.recent_tokens \in Nat
  BY HeldIs, Geometry DEF PagedInv
<1>2. /\ \A t \in 1 .. tokens : Read(book, t) = Read(pages, t)
      /\ Read(book, tokens + 1).value = value
      /\ \A t \in 1 .. tokens + 1 :
            /\ At(t) \in 1 .. Len(book)
            /\ Read(book, t).value \in Values
            /\ Read(book, t).precision \in {Q2, Q4}
  BY ReadPacked DEF book
<1>3. /\ DOMAIN written = 1 .. count
      /\ \A t \in 1 .. tokens : written[t] = Read(pages, t)
      /\ written[count] = new
  <2>1. /\ ViewOf(pages) = [t \in 1 .. tokens |-> Read(pages, t)] /\ Len(ViewOf(pages)) = tokens
        /\ DOMAIN ViewOf(pages) = 1 .. tokens
    BY HeldIs
  <2>2. written = [t \in 1 .. count |-> IF t = count THEN new ELSE ViewOf(pages)[t]]
    BY <1>1, <2>1
  <2> HIDE DEF written
  <2>3. DOMAIN written = 1 .. count /\ count \in 1 .. count
    BY <1>1, <2>2
  <2>4. ASSUME NEW t \in 1 .. tokens PROVE written[t] = Read(pages, t)
    <3>1. t \in 1 .. count /\ t # count
      BY <1>1
    <3> QED BY <2>1, <2>2, <3>1
  <2> QED BY <2>2, <2>3, <2>4
<1> HIDE DEF written
<1>4. ASSUME NEW t \in 1 .. count
      PROVE  /\ Read(after, t) = [value |-> written[t].value,
                                  precision |-> Read(after, t).precision]
             /\ Read(after, t).precision # written[t].precision =>
                   Read(after, t).precision = Q2 /\ written[t].precision = Q4
             /\ written[t] = [value |-> written[t].value, precision |-> written[t].precision]
  <2>1. At(t) \in 1 .. Len(after)
    BY <1>2 DEF book
  <2>2. /\ Read(after, t).value = Read(book, t).value
        /\ Read(after, t).precision \in {Q2, Read(book, t).precision}
    BY <2>1 DEF Read, book
  <2>3. CASE t = count
    <3>1. /\ written[t].value = value /\ written[t].precision = Q4 /\ written[t] = new
      BY <1>3, <2>3
    <3> QED BY <1>2, <2>2, <2>3, <3>1 DEF Read
  <2>4. CASE t # count
    <3>1. t \in 1 .. tokens
      BY <1>1, <2>4
    <3>2. written[t] = Read(book, t)
      BY <1>2, <1>3, <3>1
    <3> QED BY <1>2, <2>2, <3>2 DEF Read
  <2> QED BY <2>3, <2>4
<1>5. which \subseteq Retention!Outside(count)
  <2>1. ASSUME NEW t \in which PROVE t \in Retention!Outside(count)
    <3>1. t \in 1 .. count /\ Read(after, t).precision = Q2
      BY <1>4
    <3> DEFINE a == At(t)
               c == In(t)
               k == Len(after[a].values)
    <3>2. /\ a \in 1 .. Len(after) /\ c \in 1 .. k
          /\ t = PageStart(a) + c
      BY <1>1, <3>1, InTheBook
    <3>3. after[a].precision = Q2 /\ PageInv(after[a], a, count) /\ a \in Nat \ {0}
      BY <3>1, <3>2 DEF Read, BookInv
    <3>4. /\ PageStart(a) >= policy.sink_tokens
          /\ PageStart(a) + k + policy.recent_tokens <= count
          /\ PageStart(a) \in Nat /\ k \in Nat
      BY <1>1, <3>3, StartIs, PageFacts DEF PageInv
    <3> HIDE DEF a, c, k
    <3>5. t > policy.sink_tokens /\ t + policy.recent_tokens <= count
      <4> DEFINE start == PageStart(a)
                 sink == policy.sink_tokens
                 recent == policy.recent_tokens
      <4>1. /\ c \in 1 .. k /\ t = start + c /\ start >= sink /\ start + k + recent <= count
            /\ start \in Nat /\ k \in Nat
        BY <3>2, <3>4
      <4>2. sink \in Nat /\ recent \in Nat /\ count \in Nat
        BY <1>1, Geometry DEF BookInv
      <4> HIDE DEF start, sink, recent
      <4>3. t > sink /\ t + recent <= count
        BY ONLY <4>1, <4>2
      <4> QED BY <4>3 DEF sink, recent
    <3> QED BY <3>1, <3>5 DEF Retention!Outside
  <2> QED BY <2>1
<1>6. ViewOf(after) = [t \in 1 .. count |-> Read(after, t)]
  BY <1>1, ViewIs
<1>7. Retention!Reduced(written, which) =
         [t \in 1 .. count |-> IF t \in which THEN [written[t] EXCEPT !.precision = Q2]
                               ELSE written[t]]
  BY <1>3 DEF Retention!Reduced, Q2, Retention!Q2
<1>8. ASSUME NEW t \in 1 .. count
      PROVE  Read(after, t) = IF t \in which THEN [written[t] EXCEPT !.precision = Q2]
                              ELSE written[t]
  <2>1. CASE t \in which
    <3>1. Read(after, t) = [value |-> written[t].value, precision |-> Q2]
      BY <1>4, <2>1
    <3>2. PICK v, p : written[t] = [value |-> v, precision |-> p]
      BY <1>4
    <3>3. [written[t] EXCEPT !.precision = Q2] = [value |-> written[t].value, precision |-> Q2]
      BY <3>2
    <3> QED BY <2>1, <3>1, <3>3
  <2>2. CASE t \notin which
    <3>1. Read(after, t).precision = written[t].precision
      BY <2>2
    <3> QED BY <1>4, <2>2, <3>1
  <2> QED BY <2>1, <2>2
<1>9. ASSUME after = book PROVE which \subseteq {count}
  <2>1. ASSUME NEW t \in 1 .. tokens PROVE t \notin which
    <3>1. written[t] = Read(after, t)
      BY <1>2, <1>3, <1>9
    <3> QED BY <3>1
  <2>2. \A t \in 1 .. count : t = count \/ t \in 1 .. tokens
    BY <1>1
  <2> QED BY <2>1, <2>2
<1> HIDE DEF which
<1>10. ViewOf(after) = Retention!Reduced(written, which)
  BY <1>6, <1>7, <1>8
<1> QED BY <1>5, <1>9, <1>10 DEF written, book

LEMMA NothingRead ==
  ASSUME policy \in Policies
  PROVE  ViewOf(<< >>) = << >>
<1>1. ViewOf(<< >>) = [t \in 1 .. 0 |-> Read(<< >>, t)]
  BY EmptyBook, ViewIs
<1> QED BY <1>1

Branch == IF checkpoint = << >> THEN << >> ELSE <<ViewOf(Truncated(checkpoint[1]))>>

\* A branch reads what a rollback would leave.
LEMMA BranchIs ==
  ASSUME NEW mark, checkpoint = <<mark>>
  PROVE  Branch = <<ViewOf(Cut(pages, mark))>>
BY TruncatedIsCut DEF Branch

LEMMA PushRetains ==
  ASSUME PagedInv, NEW value \in Values, tokens < policy.maximum_tokens,
         policy' = policy, tokens' = tokens + 1, NEW after, pages' = after,
         BookInv(after, tokens + 1), Len(after) = Len(Packed(value)),
         \A a \in 1 .. Len(after) :
            /\ after[a].values = Packed(value)[a].values
            /\ after[a].precision \in {Q2, Packed(value)[a].precision},
         checkpoint # << >> => after = Packed(value),
         UNCHANGED Branch
  PROVE  Retention!Push(value)
<1>1. PICK which \in SUBSET Retention!Outside(tokens + 1) :
         /\ ViewOf(after) = Retention!Reduced(
               Append(ViewOf(pages), [value |-> value, precision |-> Q4]), which)
         /\ after = Packed(value) => which \subseteq {tokens + 1}
  BY ReadsReduce
<1>2. Len(ViewOf(pages)) = tokens
  BY HeldIs
<1>3. Branch # << >> => which \subseteq {tokens + 1}
  BY <1>1 DEF Branch
<1>4. ViewOf(pages)' = Retention!Reduced(
               Append(ViewOf(pages), [value |-> value, precision |-> Retention!Q4]), which)
  BY <1>1 DEF Q4, Retention!Q4
<1> QED BY <1>1, <1>2, <1>3, <1>4 DEF Retention!Push, Branch

LEMMA RetentionStep ==
  PagedInv /\ [Next]_vars => [Retention!Next]_(Retention!vars)
<1> SUFFICES ASSUME PagedInv, [Next]_vars PROVE [Retention!Next]_(Retention!vars)
  OBVIOUS
<1>1. CASE UNCHANGED vars
  BY <1>1 DEF vars, Retention!vars, ViewOf, PageView, Truncated, TokenBytes
<1>2. ASSUME NEW value \in Values, Push(value) PROVE Retention!Push(value)
  <2> DEFINE book == Packed(value)
             after == Demote(book, tokens + 1)
  <2>1. /\ policy \in Policies /\ tokens < policy.maximum_tokens /\ checkpoint = << >>
        /\ policy' = policy /\ tokens' = tokens + 1 /\ pages' = after /\ checkpoint' = << >>
    BY <1>2 DEF Push, PagedInv
  <2>2. BookInv(book, tokens + 1)
    BY <2>1, PackedFacts DEF PagedInv
  <2> HIDE DEF book
  <2>3. /\ BookInv(after, tokens + 1) /\ Len(after) = Len(book)
        /\ \A a \in 1 .. Len(book) :
              after[a] = IF a \in Old(book, tokens + 1)
                         THEN [book[a] EXCEPT !.precision = Q2] ELSE book[a]
    BY <2>1, <2>2, Demotion
  <2>4. \A a \in 1 .. Len(book) : book[a] \in Page
    BY <2>2 DEF BookInv, PageInv
  <2> HIDE DEF after
  <2>5. \A a \in 1 .. Len(after) : /\ after[a].values = book[a].values
                                   /\ after[a].precision \in {Q2, book[a].precision}
    BY <2>3, <2>4 DEF Page
  <2>6. UNCHANGED Branch
    BY <2>1 DEF Branch
  <2> QED BY <2>1, <2>3, <2>5, <2>6, PushRetains DEF book
<1>3. ASSUME NEW value \in Values, PushRetainingQ4(value) PROVE Retention!Push(value)
  <2> DEFINE book == Packed(value)
  <2>1. /\ policy \in Policies /\ tokens < policy.maximum_tokens /\ checkpoint # << >>
        /\ policy' = policy /\ tokens' = tokens + 1 /\ pages' = book
        /\ checkpoint' = checkpoint
    BY <1>3 DEF PushRetainingQ4, PagedInv
  <2>2. BookInv(book, tokens + 1)
    BY <2>1, PackedFacts DEF PagedInv
  <2>3. PICK mark \in Mark : checkpoint = <<mark>> /\ MarkInv(mark, pages, tokens)
    BY <2>1 DEF PagedInv, BranchInv
  <2>4. Cut(book, mark) = Cut(pages, mark)
    BY <2>1, <2>3, PackedKeepsTheCut DEF PagedInv
  <2>5. Branch = <<ViewOf(Cut(pages, mark))>>
    BY <2>3, BranchIs
  <2>6. Branch' = <<ViewOf(Cut(pages', mark))>>
    BY <2>1, <2>3 DEF Branch, Truncated, Cut
  <2>7. Cut(pages', mark) = Cut(pages, mark)
    BY <2>1, <2>4
  <2> QED BY <2>1, <2>2, <2>5, <2>6, <2>7, PushRetains
<1>4. CASE AppendCheckpoint
  <2>1. /\ policy \in Policies /\ BookInv(pages, tokens)
        /\ UNCHANGED <<policy, tokens, pages>> /\ checkpoint = << >>
    BY <1>4 DEF AppendCheckpoint, PagedInv
  <2>2. PICK mark : checkpoint' = <<mark>> /\ Cut(pages, mark) = pages
    BY <1>4, <2>1, MarkOfNow DEF AppendCheckpoint
  <2>3. Branch' = <<ViewOf(pages)>>
    BY <2>1, <2>2 DEF Branch, Truncated, Cut, TokenBytes
  <2> QED BY <2>1, <2>3 DEF Branch, Retention!Begin, Retention!Next
<1>5. CASE RestoreAppendCheckpoint
  BY <1>5 DEF RestoreAppendCheckpoint, Retention!Rollback, Retention!Next
<1>6. CASE DropCheckpoint
  BY <1>6 DEF DropCheckpoint, Retention!Commit, Retention!Next
<1>7. CASE Reset
  BY <1>7, NothingRead DEF Reset, Retention!Reset, Retention!Next, PagedInv
<1> QED BY <1>1, <1>2, <1>3, <1>4, <1>5, <1>6, <1>7 DEF Next, Retention!Next

(* The paged cache implements the retention contract for every admitted     *)
(* policy: a reader gets the tokens of PagedKvCache in order, demotions     *)
(* touch only what sink and window no longer cover, and a branch restored   *)
(* from its mark reads as before it.                                        *)
THEOREM PagedImplementsRetention == Spec => ImplementsRetention
<1>1. Init => Retention!Init
  <2> SUFFICES ASSUME Init PROVE Retention!Init
    OBVIOUS
  <2>1. policy \in Policies /\ pages = << >> /\ checkpoint = << >>
    BY DEF Init
  <2>2. /\ policy.maximum_tokens \in Nat /\ policy.sink_tokens \in Nat
        /\ policy.recent_tokens \in Nat
    BY <2>1, Geometry
  <2> QED BY <2>1, <2>2, NothingRead DEF Retention!Init, Retention!TypedPolicy
<1> QED BY <1>1, RetentionStep, PagedInit, PagedStep, PTL
        DEF Spec, ImplementsRetention, Retention!Spec

-----------------------------------------------------------------------------
(* The session of the scalar executor *)

LEMMA ThreeLayers ==
  /\ EveryLayer = 4 /\ Layers = {1, 2, 3}
  /\ {l \in Layers : l < EveryLayer \/ (l = EveryLayer /\ FALSE)} = Layers
<1>1. Layers = {1, 2, 3}
  BY DEF Layers, LinearLayers, FullLayer
<1>2. IsFiniteSet({}) /\ Cardinality({}) = 0
  BY FS_EmptySet
<1>3. IsFiniteSet({1}) /\ Cardinality({1}) = 1
  <2>1. {} \cup {1} = {1}
    OBVIOUS
  <2> QED BY <1>2, <2>1, FS_AddElement
<1>4. IsFiniteSet({1, 2}) /\ Cardinality({1, 2}) = 2
  <2>1. {1} \cup {2} = {1, 2} /\ 2 \notin {1}
    OBVIOUS
  <2>2. Cardinality({1} \cup {2}) = Cardinality({1}) + 1 /\ IsFiniteSet({1} \cup {2})
    BY <1>3, <2>1, FS_AddElement
  <2> QED BY <1>3, <2>1, <2>2
<1>5. Cardinality({1, 2, 3}) = 3
  <2>1. {1, 2} \cup {3} = {1, 2, 3} /\ 3 \notin {1, 2}
    OBVIOUS
  <2>2. Cardinality({1, 2} \cup {3}) = Cardinality({1, 2}) + 1
    BY <1>4, <2>1, FS_AddElement
  <2> QED BY <1>4, <2>1, <2>2
<1>6. EveryLayer = 4
  BY <1>1, <1>5 DEF EveryLayer
<1> QED BY <1>1, <1>6

\* What attention reads after an append.
LEMMA TargetRowsPush ==
  ASSUME PagedInv, NEW value \in Values, Push(value)
  PROVE  TargetRows' = Append(TargetRows, value)
<1> DEFINE book == Packed(value)
           after == Demote(book, tokens + 1)
<1>1. /\ policy \in Policies /\ tokens < policy.maximum_tokens /\ tokens \in Nat
      /\ pages' = after
  BY HeldIs DEF Push, PagedInv
<1>2. BookInv(book, tokens + 1)
  BY <1>1, PackedFacts DEF PagedInv
<1>3. /\ \A t \in 1 .. tokens : Read(book, t) = Read(pages, t)
      /\ Read(book, tokens + 1).value = value
      /\ \A t \in 1 .. tokens + 1 : At(t) \in 1 .. Len(book)
  BY <1>1, ReadPacked
<1> HIDE DEF book
<1>4. /\ BookInv(after, tokens + 1) /\ Len(after) = Len(book)
      /\ \A a \in 1 .. Len(book) :
            after[a] = IF a \in Old(book, tokens + 1)
                       THEN [book[a] EXCEPT !.precision = Q2] ELSE book[a]
  BY <1>1, <1>2, Demotion
<1>5. \A a \in 1 .. Len(book) : book[a] \in Page
  BY <1>2 DEF BookInv, PageInv
<1> HIDE DEF after
<1>6. \A t \in 1 .. tokens + 1 : Read(after, t).value = Read(book, t).value
  BY <1>3, <1>4, <1>5 DEF Read, Page
<1>7. ViewOf(after) = [t \in 1 .. tokens + 1 |-> Read(after, t)]
  BY <1>1, <1>4, ViewIs
<1>8. TargetRows' = [t \in 1 .. tokens + 1 |-> Read(after, t).value]
  BY <1>1, <1>7 DEF TargetRows
<1>9. TargetRows = [t \in 1 .. tokens |-> Read(pages, t).value]
  BY HeldIs DEF TargetRows
<1>10. Append(TargetRows, value) =
         [t \in 1 .. tokens + 1 |-> IF t = tokens + 1 THEN value ELSE Read(pages, t).value]
  <2>1. Len(TargetRows) = tokens
    BY <1>1, <1>9
  <2> QED BY <1>1, <1>9, <2>1
<1>11. \A t \in 1 .. tokens + 1 :
          Read(after, t).value = IF t = tokens + 1 THEN value ELSE Read(pages, t).value
  <2>1. \A t \in 1 .. tokens + 1 : t = tokens + 1 \/ t \in 1 .. tokens
    BY <1>1
  <2> QED BY <1>3, <1>6, <2>1
<1> QED BY <1>8, <1>10, <1>11

MtpOf(sequence) ==
    [rows |-> MtpRowsOf(sequence),
     tokens |-> IF sequence = << >> THEN 0 ELSE Len(sequence) - 1]

(* Every owner but the hidden vector holds sequence.                        *)
Whole(sequence) ==
    /\ sequence \in Seq(Values) /\ Len(sequence) <= Context
    /\ position = <<Len(sequence)>>
    /\ counted = [l \in Layers |-> Len(sequence)]
    /\ recurrent = [l \in LinearLayers |-> sequence]
    /\ TargetRows = sequence
    /\ mtp_state = IF session.mtp THEN <<MtpOf(sequence)>> ELSE << >>

Methods == {"none", "prefill", "decode", "speculate", "commit"}

Calls == [method : Methods, todo : Seq(Values), mtp_branch : Nat, target_branch : Nat,
          candidates : Seq(Values), hidden : Seq(Values), gives : Seq(Values)]

(* What has been answered is what the session holds, to the drafts that are *)
(* still to be resolved.                                                    *)
OpenInv ==
    /\ Whole(reported.tokens) /\ reported.tokens # << >>
    /\ last_final_hidden = reported.tokens
    /\ reported = [tokens |-> reported.tokens, position |-> Len(reported.tokens),
                   pending |-> Len(pending), state |-> "whole"]
    /\ Len(reported.tokens) + Len(pending) <= Context
    /\ session_bytes = SessionBytes

(* A method between two tokens: what it has consumed and has still to       *)
(* consume is what it will have given.                                      *)
ConsumingInv ==
    /\ call.todo # << >> /\ Len(call.gives) <= Context
    /\ pending = << >>
    /\ \E done \in Seq(Values) :
          /\ Whole(done) /\ last_final_hidden = done
          /\ call.gives = done \o call.todo
          /\ \/ /\ call.method = "prefill" /\ session.status = "none"
                /\ reported = Untouched
             \/ /\ call.method = "decode" /\ session.status = "open"
                /\ done # << >> /\ Len(call.todo) = 1 /\ call.candidates = << >>
                /\ session.mtp => Len(call.gives) + drafts <= Context
                /\ reported = [tokens |-> done, position |-> Len(done),
                               pending |-> 0, state |-> "whole"]
             \/ /\ call.method = "commit" /\ session.status = "open"
                /\ done # << >>
                /\ \E before \in Seq(Values), branch \in Nat :
                      /\ reported = [tokens |-> before, position |-> Len(before),
                                     pending |-> branch, state |-> "whole"]
                      /\ Len(before) < Len(call.gives)
                      /\ Len(call.gives) <= Len(before) + branch
                      /\ branch <= MaximumDrafts

(* The clones go ahead of a session that holds what the decode gives.       *)
SpeculatingInv ==
    /\ call.method = "speculate" /\ session.status = "open" /\ session.mtp
    /\ Whole(call.gives) /\ Len(call.gives) > 1 /\ call.hidden = call.gives
    /\ pending = << >>
    /\ Len(call.candidates) < drafts
    /\ Len(call.gives) + drafts <= Context
    /\ call.target_branch = Len(call.gives) + Len(call.candidates)
    /\ call.mtp_branch + 1 = Len(call.gives) + Len(call.candidates)
    /\ \E before \in Seq(Values) :
          reported = [tokens |-> before, position |-> Len(call.gives) - 1,
                      pending |-> 0, state |-> "whole"]

IdleInv ==
    /\ call = IdleCall
    /\ session.status = "none" => /\ reported = Untouched /\ session_bytes = NoBytes
                                  /\ mtp_state = << >> /\ ~session.mtp /\ pending = << >>
    /\ session.status = "open" => model = "warm" /\ OpenInv

CpuInv ==
    /\ PagedInv /\ CpuTypeOK
    /\ session \in [status : {"none", "open", "lost"}, mtp : BOOLEAN]
    /\ session.mtp => drafts > 0
    /\ model # "new" => policy.maximum_tokens = Context
    /\ ~Loaded => session.status = "none"
    /\ call \in Calls
    /\ \/ IdleInv
       \/ model = "warm" /\ ConsumingInv
       \/ model = "warm" /\ SpeculatingInv

\* One more token in every MTP row.
LEMMA MtpRowsOfAppend ==
  ASSUME NEW sequence \in Seq(Values), sequence # << >>, NEW token \in Values
  PROVE  MtpRowsOf(Append(sequence, token)) =
            Append(MtpRowsOf(sequence), [token |-> token, from |-> sequence])
<1> DEFINE n == Len(sequence)
           more == Append(sequence, token)
           row == [token |-> token, from |-> sequence]
           rows == [t \in 1 .. n - 1 |-> [token |-> sequence[t + 1],
                                          from |-> SubSeq(sequence, 1, t)]]
<1>1. n \in Nat \ {0} /\ Len(more) = n + 1 /\ more \in Seq(Values)
  OBVIOUS
<1>2. MtpRowsOf(sequence) = rows
  BY DEF MtpRowsOf
<1>3. MtpRowsOf(more) = [t \in 1 .. n |-> [token |-> more[t + 1], from |-> SubSeq(more, 1, t)]]
  <2>1. Len(more) - 1 = n
    BY <1>1
  <2> HIDE DEF more, n
  <2> QED BY <2>1 DEF MtpRowsOf
<1>4. Append(rows, row) = [t \in 1 .. n |-> IF t = n THEN row ELSE rows[t]]
  <2>1. rows = [t \in 1 .. n - 1 |-> rows[t]] /\ n - 1 \in Nat
    BY <1>1
  <2>2. Len(rows) = n - 1
    BY <2>1
  <2> HIDE DEF rows, row, n
  <2> QED BY <1>1, <2>1, <2>2
<1>5. ASSUME NEW t \in 1 .. n
      PROVE  [token |-> more[t + 1], from |-> SubSeq(more, 1, t)]
                = IF t = n THEN row ELSE rows[t]
  <2>1. SubSeq(more, 1, t) = SubSeq(sequence, 1, t)
    BY SubSeqOfAppend
  <2>2. CASE t = n
    <3>1. SubSeq(sequence, 1, n) = sequence
      BY WholeSubSeq
    <3>2. more[n + 1] = token
      BY <1>1
    <3> QED BY <2>1, <2>2, <3>1, <3>2
  <2>3. CASE t # n
    <3>1. t \in 1 .. n - 1 /\ t + 1 \in 1 .. n
      BY <1>1, <2>3
    <3>2. more[t + 1] = sequence[t + 1]
      BY <1>1, <3>1
    <3> QED BY <2>1, <2>3, <3>1, <3>2
  <2> QED BY <2>2, <2>3
<1> HIDE DEF more, rows, row, n
<1> QED BY <1>2, <1>3, <1>4, <1>5 DEF more, row

Bounded ==
    /\ position \in {<< >>} \cup {<<n>> : n \in 0 .. Context}
    /\ counted \in [Layers -> 0 .. Context]
    /\ Len(mtp_state) <= 1
    /\ \A m \in DOMAIN mtp_state : mtp_state[m].tokens \in 0 .. Context - 1

\* A session that is whole is within the bounds.
LEMMA WholeIsBounded ==
  \A sequence : Whole(sequence) => Bounded
<1> SUFFICES ASSUME NEW sequence, Whole(sequence) PROVE Bounded
  OBVIOUS
<1> DEFINE n == Len(sequence)
<1>1. n \in 0 .. Context /\ Context \in Nat \ {0, 1}
  BY CpuExecutorAssumption DEF Whole
<1>2. sequence # << >> => n - 1 \in 0 .. Context - 1
  <2> SUFFICES ASSUME sequence # << >> PROVE n - 1 \in 0 .. Context - 1
    OBVIOUS
  <2>1. n # 0
    BY DEF Whole
  <2> HIDE DEF n
  <2> QED BY <1>1, <2>1
<1>3. MtpOf(sequence).tokens \in 0 .. Context - 1
  BY <1>1, <1>2 DEF MtpOf
<1> HIDE DEF n
<1>4. /\ Len(mtp_state) <= 1
      /\ \A m \in DOMAIN mtp_state : mtp_state[m].tokens \in 0 .. Context - 1
  <2> DEFINE row == MtpOf(sequence)
  <2> HIDE DEF row
  <2>1. mtp_state = <<row>> \/ mtp_state = << >>
    BY DEF Whole, row
  <2>2. row.tokens \in 0 .. Context - 1
    BY <1>3 DEF row
  <2>3. CASE mtp_state = <<row>>
    BY <2>2, <2>3
  <2>4. CASE mtp_state = << >>
    BY <2>4
  <2> QED BY <2>1, <2>3, <2>4
<1>5. position = <<n>> /\ counted = [l \in Layers |-> n]
  BY DEF Whole, n
<1> QED BY <1>1, <1>4, <1>5 DEF n, Bounded

LEMMA WholeIsBoundedNext ==
  (\A sequence : Whole(sequence) => Bounded)'
BY WholeIsBounded, PTL

LEMMA WholeAccepts ==
  ASSUME PagedInv, policy.maximum_tokens = Context, session.mtp \in BOOLEAN,
         NEW done, Whole(done), Len(done) < Context
  PROVE  /\ TargetAccepts
         /\ TakesMtp <=> session.mtp /\ done # << >>
         /\ TakesMtp => MtpAccepts(mtp_state[1].tokens, position[1])
         /\ tokens = Len(done)
<1>1. /\ Len(done) \in Nat /\ done = << >> <=> Len(done) = 0
      /\ position[1] = Len(done) /\ \A l \in Layers : counted[l] = Len(done)
      /\ Context \in Nat
  BY CpuExecutorAssumption DEF Whole
<1>2. tokens = Len(done)
  <2>1. /\ ViewOf(pages) = [t \in 1 .. tokens |-> Read(pages, t)] /\ tokens \in Nat
        /\ DOMAIN ViewOf(pages) = 1 .. tokens
    BY HeldIs
  <2>2. Len(TargetRows) = tokens
    BY <2>1 DEF TargetRows
  <2> QED BY <2>2 DEF Whole
<1>3. TargetAccepts
  BY <1>1, <1>2 DEF TargetAccepts
<1>4. TakesMtp <=> session.mtp /\ done # << >>
  BY <1>1 DEF TakesMtp
<1>5. ASSUME TakesMtp PROVE MtpAccepts(mtp_state[1].tokens, position[1])
  <2>1. mtp_state[1].tokens = Len(done) - 1
    BY <1>4, <1>5 DEF Whole, MtpOf
  <2> QED BY <1>1, <2>1 DEF MtpAccepts
<1> QED BY <1>2, <1>3, <1>4, <1>5

LEMMA LayersTake ==
  ASSUME PagedInv, NEW done \in Seq(Values), Whole(done), NEW token \in Values,
         LayersUpTo(EveryLayer, FALSE, token)
  PROVE  /\ PagedInv' /\ policy' = policy
         /\ TargetRows' = Append(done, token)
         /\ recurrent' = [l \in LinearLayers |-> Append(done, token)]
         /\ counted' = [l \in Layers |-> Len(done) + 1]
<1>1. /\ LinearTake(token, Layers) /\ FullTakes(token, Layers)
      /\ counted' = [l \in Layers |-> counted[l] + (IF l < EveryLayer THEN 1 ELSE 0)]
  BY ThreeLayers DEF LayersUpTo
<1>2. /\ recurrent' = [l \in LinearLayers |-> Append(done, token)]
      /\ FullLayer \in Layers
  BY <1>1 DEF LinearTake, Whole, Layers
<1>3. Push(token)
  BY <1>1, <1>2 DEF FullTakes
<1>4. PagedInv' /\ policy' = policy
  BY <1>3, PushInv DEF Push
<1>5. TargetRows' = Append(done, token)
  BY <1>3, TargetRowsPush DEF Whole
<1>6. counted' = [l \in Layers |-> Len(done) + 1]
  BY <1>1, ThreeLayers DEF Whole
<1> QED BY <1>2, <1>4, <1>5, <1>6

LEMMA ConsumeStep ==
  ASSUME PagedInv, policy.maximum_tokens = Context, session.mtp \in BOOLEAN,
         NEW done \in Seq(Values), Whole(done), last_final_hidden = done,
         Len(done) < Context, NEW token \in Values, Consume(token),
         session'.mtp = session.mtp
  PROVE  /\ PagedInv' /\ policy' = policy
         /\ Whole(Append(done, token))'
         /\ FinalHidden = Append(done, token)
<1> DEFINE more == Append(done, token)
<1>1. /\ more \in Seq(Values) /\ Len(more) = Len(done) + 1 /\ Len(more) <= Context
      /\ more # << >> /\ Len(done) \in Nat
  BY CpuExecutorAssumption
<1>2. /\ PagedInv' /\ policy' = policy
      /\ TargetRows' = more /\ recurrent' = [l \in LinearLayers |-> more]
      /\ counted' = [l \in Layers |-> Len(more)]
  BY <1>1, LayersTake DEF Consume, TargetStep
<1>3. position' = <<Len(more)>>
  BY <1>1 DEF Consume, TargetStep, Whole
<1>4. mtp_state' = IF session.mtp THEN <<MtpOf(more)>> ELSE << >>
  <2>1. TakesMtp <=> session.mtp /\ done # << >>
    BY WholeAccepts
  <2>2. CASE session.mtp /\ done # << >>
    <3>1. MtpStep(token)
      BY <2>1, <2>2 DEF Consume
    <3>2. mtp_state = <<MtpOf(done)>>
      BY <2>2 DEF Whole
    <3>3. /\ MtpOf(done).rows = MtpRowsOf(done)
          /\ MtpOf(done).tokens + 1 = Len(more) - 1
      BY <1>1, <2>2 DEF MtpOf
    <3>4. mtp_state' = <<[rows |-> Append(MtpRowsOf(done), MtpRow(token)),
                          tokens |-> Len(more) - 1]>>
      BY <3>1, <3>2, <3>3 DEF MtpStep
    <3>5. MtpRowsOf(more) = Append(MtpRowsOf(done), MtpRow(token))
      BY <2>2, MtpRowsOfAppend DEF MtpRow
    <3>6. MtpOf(more) = [rows |-> MtpRowsOf(more), tokens |-> Len(more) - 1]
      BY <1>1 DEF MtpOf
    <3> QED BY <2>2, <3>4, <3>5, <3>6
  <2>3. CASE session.mtp /\ done = << >>
    <3>1. mtp_state' = <<MtpOf(done)>>
      BY <2>1, <2>3 DEF Consume, Whole
    <3>2. Len(more) = 1 /\ Len(done) = 0
      BY <1>1, <2>3
    <3>3. MtpRowsOf(more) = << >> /\ MtpRowsOf(done) = << >>
      BY <3>2 DEF MtpRowsOf
    <3>4. MtpOf(done) = MtpOf(more)
      BY <1>1, <2>3, <3>2, <3>3 DEF MtpOf
    <3> QED BY <2>3, <3>1, <3>4
  <2>4. CASE ~session.mtp
    BY <2>1, <2>4 DEF Consume, Whole
  <2> QED BY <2>2, <2>3, <2>4
<1>5. FinalHidden = more
  BY <1>2 DEF FinalHidden, LastLayer, LinearLayers
<1> HIDE DEF more
<1>6. Whole(more)'
  BY <1>1, <1>2, <1>3, <1>4 DEF Whole
<1> QED BY <1>2, <1>5, <1>6 DEF more

LEMMA HeadFirst ==
  ASSUME NEW S, NEW done \in Seq(S), NEW todo \in Seq(S), todo # << >>
  PROVE  /\ Head(todo) \in S /\ Tail(todo) \in Seq(S) /\ Len(todo) \in Nat \ {0}
         /\ Len(Tail(todo)) = Len(todo) - 1
         /\ Len(done \o todo) = Len(done) + Len(todo)
         /\ Append(done, Head(todo)) \in Seq(S)
         /\ done \o todo = Append(done, Head(todo)) \o Tail(todo)
         /\ Len(todo) = 1 => done \o todo = Append(done, Head(todo))
<1> DEFINE d == Len(done)
           n == Len(todo)
           more == Append(done, Head(todo))
           rest == Tail(todo)
<1>1. d \in Nat /\ n \in Nat \ {0} /\ Head(todo) \in S /\ Head(todo) = todo[1]
  OBVIOUS
<1>2. /\ rest \in Seq(S) /\ Len(rest) = n - 1
      /\ \A t \in 1 .. n - 1 : rest[t] = todo[t + 1]
  OBVIOUS
<1>3. /\ more \in Seq(S) /\ Len(more) = d + 1 /\ more[d + 1] = todo[1]
      /\ \A t \in 1 .. d : more[t] = done[t]
  BY <1>1
<1>4. done \o todo = [t \in 1 .. d + n |-> IF t <= d THEN done[t] ELSE todo[t - d]]
  BY Concat
<1> HIDE DEF more, rest
<1>5. more \o rest = [t \in 1 .. d + n |-> IF t <= d + 1 THEN more[t] ELSE rest[t - (d + 1)]]
  <2>1. more \o rest = [t \in 1 .. Len(more) + Len(rest) |->
                          IF t <= Len(more) THEN more[t] ELSE rest[t - Len(more)]]
    BY <1>2, <1>3, Concat
  <2>2. Len(more) + Len(rest) = d + n
    BY <1>1, <1>2, <1>3
  <2> QED BY <1>3, <2>1, <2>2
<1> HIDE DEF d, n
<1>6. ASSUME NEW t \in 1 .. d + n
      PROVE  (IF t <= d THEN done[t] ELSE todo[t - d])
                = IF t <= d + 1 THEN more[t] ELSE rest[t - (d + 1)]
  <2>1. CASE t <= d
    BY <1>1, <1>3, <2>1
  <2>2. CASE t = d + 1
    <3>1. t - d = 1 /\ ~(t <= d)
      BY <1>1, <2>2
    <3> QED BY <1>1, <1>3, <2>2, <3>1
  <2>3. CASE d + 1 < t
    <3>1. t - (d + 1) \in 1 .. n - 1 /\ t - d = t - (d + 1) + 1 /\ ~(t <= d) /\ ~(t <= d + 1)
      BY <1>1, <2>3
    <3> QED BY <1>2, <3>1
  <2> QED BY <1>1, <2>1, <2>2, <2>3
<1>7. done \o todo = more \o rest
  BY <1>4, <1>5, <1>6
<1>8. Len(done \o todo) = d + n
  BY DEF d, n
<1>9. ASSUME n = 1 PROVE done \o todo = more
  <2>1. rest = << >>
    BY <1>2, <1>9
  <2>2. more \o << >> = more
    BY <1>3
  <2> QED BY <1>7, <2>1, <2>2
<1> QED BY <1>1, <1>2, <1>3, <1>7, <1>8, <1>9 DEF d, n, more, rest

\* A method that answers leaves an open session.
LEMMA AnswerInv ==
  ASSUME CpuInv, model = "warm", PagedInv', policy' = policy,
         NEW gives, Whole(gives)', gives # << >>, last_final_hidden' = gives,
         pending' \in Seq(Values), Len(pending') <= drafts,
         Len(gives) + Len(pending') <= Context, AnswerOk(gives)
  PROVE  CpuInv'
<1>1. /\ call' = IdleCall /\ session_bytes' = SessionBytes'
      /\ session' = [session EXCEPT !.status = "open"]
      /\ reported' = [tokens |-> gives, position |-> position'[1],
                      pending |-> Len(pending'), state |-> "whole"]
      /\ model' = model /\ drafts' = drafts
  BY DEF AnswerOk
<1>2. /\ session \in [status : {"none", "open", "lost"}, mtp : BOOLEAN]
      /\ session.mtp => drafts > 0
      /\ policy.maximum_tokens = Context /\ CpuTypeOK
  BY DEF CpuInv
<1>3. session'.status = "open" /\ session'.mtp = session.mtp
      /\ session' \in [status : {"none", "open", "lost"}, mtp : BOOLEAN]
  BY <1>1, <1>2
<1>4. Bounded'
  BY WholeIsBoundedNext
<1>5. CpuTypeOK'
  BY <1>1, <1>2, <1>3, <1>4 DEF CpuTypeOK, Bounded
<1>6. position'[1] = Len(gives) /\ reported'.tokens = gives
  BY <1>1 DEF Whole
<1>7. OpenInv'
  BY <1>1, <1>6 DEF OpenInv
<1>8. call' \in Calls
  BY <1>1 DEF Calls, IdleCall, Methods
<1>9. IdleInv'
  BY <1>1, <1>3, <1>7 DEF IdleInv
<1> QED BY <1>1, <1>2, <1>3, <1>5, <1>8, <1>9 DEF CpuInv, Loaded

\* After an error only the bounds are still known.
LEMMA ErrorInv ==
  ASSUME CpuInv, model = "warm", PagedInv', policy' = policy, Bounded',
         pending' \in Seq(Values), Len(pending') <= drafts, AnswerError
  PROVE  CpuInv'
<1>1. /\ call' = IdleCall
      /\ session' = [session EXCEPT !.status = "lost"]
      /\ model' = model /\ drafts' = drafts
  BY DEF AnswerError
<1>2. /\ session \in [status : {"none", "open", "lost"}, mtp : BOOLEAN]
      /\ session.mtp => drafts > 0
      /\ policy.maximum_tokens = Context /\ CpuTypeOK
  BY DEF CpuInv
<1>3. session'.status = "lost" /\ session'.mtp = session.mtp
      /\ session' \in [status : {"none", "open", "lost"}, mtp : BOOLEAN]
  BY <1>1, <1>2
<1>5. CpuTypeOK'
  BY <1>1, <1>2, <1>3 DEF CpuTypeOK, Bounded
<1>8. call' \in Calls
  BY <1>1 DEF Calls, IdleCall, Methods
<1>9. IdleInv'
  BY <1>1, <1>3 DEF IdleInv
<1> QED BY <1>1, <1>2, <1>3, <1>5, <1>8, <1>9 DEF CpuInv, Loaded

LEMMA IsConsuming ==
  ASSUME CpuInv, call.method \in {"prefill", "decode", "commit"}
  PROVE  model = "warm" /\ ConsumingInv
<1>1. ~IdleInv
  BY DEF IdleInv, IdleCall
<1>2. ~SpeculatingInv
  BY DEF SpeculatingInv
<1> QED BY <1>1, <1>2 DEF CpuInv

LEMMA IsSpeculating ==
  ASSUME CpuInv, call.method = "speculate"
  PROVE  model = "warm" /\ SpeculatingInv
<1>1. ~IdleInv
  BY DEF IdleInv, IdleCall
<1>2. ~ConsumingInv
  BY DEF ConsumingInv
<1> QED BY <1>1, <1>2 DEF CpuInv

LEMMA IsIdle ==
  ASSUME CpuInv, Idle
  PROVE  IdleInv
BY DEF CpuInv, Idle, ConsumingInv, SpeculatingInv

\* A method goes on: what is left to show is its own invariant.
LEMMA ContinueInv ==
  ASSUME CpuInv, model = "warm", PagedInv', policy' = policy, Bounded',
         pending' \in Seq(Values), Len(pending') <= drafts,
         UNCHANGED <<model, drafts, session>>, call' \in Calls,
         ConsumingInv' \/ SpeculatingInv'
  PROVE  CpuInv'
<1>1. CpuTypeOK'
  BY DEF CpuInv, CpuTypeOK, Bounded
<1> QED BY <1>1 DEF CpuInv, Loaded

LEMMA TokenConsumed ==
  ASSUME CpuInv, model = "warm", call.todo # << >>,
         NEW done \in Seq(Values), Whole(done), last_final_hidden = done,
         Len(done) + Len(call.todo) <= Context,
         NEW token, token = Head(call.todo), Consume(token), session'.mtp = session.mtp
  PROVE  /\ PagedInv' /\ policy' = policy /\ Bounded'
         /\ Whole(Append(done, token))'
         /\ FinalHidden = Append(done, token)
<1>1. call.todo \in Seq(Values) /\ session.mtp \in BOOLEAN /\ PagedInv
      /\ policy.maximum_tokens = Context
  BY DEF CpuInv, Calls
<1>2. token \in Values /\ Len(call.todo) \in Nat \ {0}
  BY <1>1, HeadFirst
<1>3. Len(done) < Context
  BY <1>2, CpuExecutorAssumption
<1>4. /\ PagedInv' /\ policy' = policy
      /\ Whole(Append(done, token))'
      /\ FinalHidden = Append(done, token)
  BY <1>1, <1>2, <1>3, ConsumeStep
<1>5. Bounded'
  BY <1>4, WholeIsBoundedNext
<1> QED BY <1>4, <1>5

LEMMA TokenStepInv ==
  ASSUME CpuInv, call.method \in {"prefill", "commit"}, Consume(Head(call.todo)),
         last_final_hidden' = FinalHidden, pending' = pending,
         IF Len(call.todo) > 1 THEN Continue([call EXCEPT !.todo = Tail(@)])
                               ELSE AnswerOk(call.gives)
  PROVE  CpuInv'
<1>1. model = "warm" /\ ConsumingInv /\ call \in Calls
  BY IsConsuming DEF CpuInv
<1>2. /\ call.todo # << >> /\ Len(call.gives) <= Context /\ pending = << >>
      /\ call.todo \in Seq(Values) /\ call.gives \in Seq(Values)
  BY <1>1 DEF ConsumingInv, Calls
<1>3. PICK done \in Seq(Values) :
         /\ Whole(done) /\ last_final_hidden = done
         /\ call.gives = done \o call.todo
         /\ \/ /\ call.method = "prefill" /\ session.status = "none"
               /\ reported = Untouched
            \/ /\ call.method = "commit" /\ session.status = "open"
               /\ done # << >>
               /\ \E before \in Seq(Values), branch \in Nat :
                     /\ reported = [tokens |-> before, position |-> Len(before),
                                    pending |-> branch, state |-> "whole"]
                     /\ Len(before) < Len(call.gives)
                     /\ Len(call.gives) <= Len(before) + branch
                     /\ branch <= MaximumDrafts
  BY <1>1 DEF ConsumingInv
<1>t. PICK token : token = Head(call.todo)
  OBVIOUS
<1> DEFINE more == Append(done, token)
           rest == Tail(call.todo)
<1>4. /\ token \in Values /\ rest \in Seq(Values) /\ Len(call.todo) \in Nat \ {0}
      /\ Len(rest) = Len(call.todo) - 1
      /\ Len(done \o call.todo) = Len(done) + Len(call.todo)
      /\ more \in Seq(Values)
      /\ done \o call.todo = more \o rest
      /\ Len(call.todo) = 1 => done \o call.todo = more
  <2> DEFINE todo == call.todo
             with == Append(done, Head(todo))
  <2>1. todo \in Seq(Values) /\ todo # << >>
    BY <1>2
  <2> HIDE DEF todo
  <2>2. /\ Head(todo) \in Values /\ Tail(todo) \in Seq(Values) /\ Len(todo) \in Nat \ {0}
        /\ Len(Tail(todo)) = Len(todo) - 1
        /\ Len(done \o todo) = Len(done) + Len(todo)
        /\ with \in Seq(Values)
        /\ done \o todo = with \o Tail(todo)
        /\ Len(todo) = 1 => done \o todo = with
    BY ONLY done \in Seq(Values), <2>1, HeadFirst
  <2>3. Head(todo) = token /\ with = more
    BY <1>t DEF todo
  <2> HIDE DEF with, more
  <2> QED BY <2>2, <2>3 DEF todo
<1>5. Len(done) + Len(call.todo) <= Context
  BY <1>2, <1>3, <1>4
<1>6. session'.mtp = session.mtp
  <2>1. session \in [status : {"none", "open", "lost"}, mtp : BOOLEAN]
    BY DEF CpuInv
  <2> QED BY <2>1 DEF Continue, AnswerOk
<1>7. /\ PagedInv' /\ policy' = policy /\ Bounded' /\ Whole(more)' /\ FinalHidden = more
  BY <1>1, <1>2, <1>3, <1>5, <1>6, <1>t, TokenConsumed
<1>8. more # << >>
  BY <1>3
<1>9. 0 <= drafts /\ drafts \in Nat
  BY CpuExecutorAssumption DEF CpuInv, CpuTypeOK
<1>10. pending' \in Seq(Values) /\ Len(pending') = 0 /\ Len(pending') <= drafts
  BY <1>2, <1>9
<1> HIDE DEF more, rest
<1>11. CASE Len(call.todo) > 1
  <2>1. /\ call' = [call EXCEPT !.todo = rest]
        /\ UNCHANGED <<model, drafts, session_bytes, session, reported>>
    BY <1>11 DEF Continue, rest
  <2>2. /\ call' \in Calls /\ call'.method = call.method /\ call'.todo = rest
        /\ call'.gives = call.gives
    BY <1>1, <1>4, <2>1 DEF Calls
  <2>3. rest # << >>
    BY <1>4, <1>11
  <2>4. /\ Whole(more)' /\ last_final_hidden' = more /\ call'.gives = more \o call'.todo
    BY <1>3, <1>4, <1>7, <2>2
  <2>5. \/ /\ call'.method = "prefill" /\ session'.status = "none"
           /\ reported' = Untouched
        \/ /\ call'.method = "commit" /\ session'.status = "open"
           /\ more # << >>
           /\ \E before \in Seq(Values), branch \in Nat :
                 /\ reported' = [tokens |-> before, position |-> Len(before),
                                 pending |-> branch, state |-> "whole"]
                 /\ Len(before) < Len(call'.gives)
                 /\ Len(call'.gives) <= Len(before) + branch
                 /\ branch <= MaximumDrafts
    BY <1>3, <1>8, <2>1, <2>2
  <2>6. ConsumingInv'
    BY <1>2, <1>4, <2>2, <2>3, <2>4, <2>5 DEF ConsumingInv
  <2> QED BY ONLY CpuInv, <1>1, <1>7, <1>10, <2>1, <2>2, <2>6, ContinueInv
<1>12. CASE Len(call.todo) = 1
  <2>1. AnswerOk(more) /\ last_final_hidden' = more
    <3>1. call.gives = done \o call.todo /\ done \o call.todo = more
      BY <1>3, <1>4, <1>12
    <3>2. AnswerOk(call.gives)
      BY <1>12
    <3>3. AnswerOk(more)
      BY <3>1, <3>2 DEF AnswerOk
    <3> QED BY <1>7, <3>3
  <2>2. Len(more) + Len(pending') <= Context
    <3>1. call.gives = more
      BY <1>3, <1>4, <1>12
    <3> QED BY <1>2, <1>4, <1>10, <3>1
  <2> QED BY ONLY CpuInv, <1>1, <1>7, <1>8, <1>10, <2>1, <2>2, AnswerInv DEF more
<1>13. Len(call.todo) > 1 \/ Len(call.todo) = 1
  <2>1. Len(call.todo) \in Nat \ {0}
    BY <1>4
  <2>2. \A n \in Nat \ {0} : n > 1 \/ n = 1
    OBVIOUS
  <2> QED BY ONLY <2>1, <2>2
<1> QED BY <1>11, <1>12, <1>13

LEMMA DecodeTokenInv ==
  ASSUME CpuInv, DecodeToken
  PROVE  CpuInv'
<1>1. model = "warm" /\ ConsumingInv /\ call \in Calls /\ call.method = "decode"
  BY IsConsuming DEF CpuInv, DecodeToken
<1>2. /\ call.todo # << >> /\ Len(call.gives) <= Context /\ pending = << >>
      /\ call.todo \in Seq(Values) /\ call.gives \in Seq(Values)
  BY <1>1 DEF ConsumingInv, Calls
<1>3. PICK done \in Seq(Values) :
         /\ Whole(done) /\ last_final_hidden = done
         /\ call.gives = done \o call.todo
         /\ session.status = "open" /\ done # << >> /\ Len(call.todo) = 1
         /\ call.candidates = << >>
         /\ session.mtp => Len(call.gives) + drafts <= Context
         /\ reported = [tokens |-> done, position |-> Len(done),
                        pending |-> 0, state |-> "whole"]
  BY <1>1 DEF ConsumingInv
<1>t. PICK token : token = Head(call.todo)
  OBVIOUS
<1> DEFINE more == Append(done, token)
<1>4. /\ Len(done \o call.todo) = Len(done) + Len(call.todo)
      /\ more \in Seq(Values) /\ call.gives = more /\ Len(done) \in Nat /\ done # << >>
  BY <1>2, <1>3, <1>t, HeadFirst
<1>5. /\ Len(done) + Len(call.todo) <= Context /\ Len(call.gives) = Len(done) + 1
      /\ Len(call.gives) > 1
  <2>1. Len(done) # 0
    BY <1>4
  <2> QED BY <1>2, <1>3, <1>4, <2>1
<1>6. session'.mtp = session.mtp /\ Consume(Head(call.todo)) /\ pending' = pending
  <2>1. session \in [status : {"none", "open", "lost"}, mtp : BOOLEAN]
    BY DEF CpuInv
  <2> QED BY <2>1 DEF Continue, AnswerOk, DecodeToken
<1>7. /\ PagedInv' /\ policy' = policy /\ Bounded' /\ Whole(more)' /\ FinalHidden = more
  BY <1>1, <1>2, <1>3, <1>5, <1>6, <1>t, TokenConsumed
<1>8. more # << >>
  BY <1>3
<1>9. /\ 0 <= drafts /\ drafts \in Nat
  BY CpuExecutorAssumption DEF CpuInv, CpuTypeOK
<1>10. pending' \in Seq(Values) /\ Len(pending') = 0 /\ Len(pending') <= drafts
  <2>1. pending' = << >>
    BY <1>2, <1>6
  <2> QED BY <1>9, <2>1
<1> HIDE DEF more
<1>11. CASE session.mtp
  <2>1. /\ call' = [call EXCEPT !.method = "speculate", !.hidden = FinalHidden,
                                !.target_branch = position'[1],
                                !.mtp_branch = mtp_state'[1].tokens]
        /\ UNCHANGED <<model, drafts, session_bytes, session, reported>>
    BY <1>11 DEF Continue, DecodeToken
  <2>2. position'[1] = Len(more) /\ mtp_state'[1].tokens + 1 = Len(more)
        /\ mtp_state'[1].tokens \in Nat
    <3>1. mtp_state' = <<MtpOf(more)>> /\ position' = <<Len(more)>>
      BY <1>6, <1>7, <1>11 DEF Whole
    <3>2. MtpOf(more).tokens = Len(more) - 1
      BY <1>8 DEF MtpOf
    <3> QED BY <1>4, <1>5, <3>1, <3>2
  <2>3. /\ call' \in Calls /\ call'.method = "speculate" /\ call'.gives = more
        /\ call'.hidden = more /\ call'.candidates = << >>
        /\ call'.target_branch = Len(more) /\ call'.mtp_branch + 1 = Len(more)
    <3>1. Len(more) \in Nat
      BY <1>4
    <3> QED BY <1>1, <1>3, <1>4, <1>7, <2>1, <2>2, <3>1 DEF Calls, Methods
  <2>4. /\ session'.status = "open" /\ session'.mtp /\ drafts' = drafts /\ pending' = << >>
        /\ Len(more) + drafts <= Context /\ Len(more) > 1
        /\ reported' = [tokens |-> done, position |-> Len(more) - 1,
                        pending |-> 0, state |-> "whole"]
    BY <1>2, <1>3, <1>4, <1>5, <1>6, <1>11, <2>1
  <2>5. Len(<< >>) = 0
    OBVIOUS
  <2>6. SpeculatingInv'
    <3>1. /\ Whole(call.gives)' /\ call'.hidden = call'.gives /\ Len(call'.gives) > 1
          /\ call'.method = "speculate"
      BY <1>7, <2>3, <2>4
    <3>2. /\ Len(call'.candidates) < drafts' /\ Len(call'.gives) + drafts' <= Context
          /\ call'.target_branch = Len(call'.gives) + Len(call'.candidates)
          /\ call'.mtp_branch + 1 = Len(call'.gives) + Len(call'.candidates)
      <4>1. /\ call'.candidates = << >> /\ call'.gives = more /\ drafts' = drafts
            /\ call'.target_branch = Len(more) /\ call'.mtp_branch + 1 = Len(more)
            /\ Len(more) + drafts <= Context /\ drafts > 0
        <5>1. drafts > 0
          BY <1>11 DEF CpuInv
        <5> QED BY <2>3, <2>4, <5>1
      <4>2. Len(more) \in Nat
        BY <1>4
      <4> QED BY <2>5, <4>1, <4>2
    <3>3. \E before \in Seq(Values) :
             reported' = [tokens |-> before, position |-> Len(call'.gives) - 1,
                          pending |-> 0, state |-> "whole"]
      BY <2>3, <2>4
    <3> QED BY <2>4, <3>1, <3>2, <3>3 DEF SpeculatingInv
  <2> QED BY ONLY CpuInv, <1>1, <1>7, <1>10, <2>1, <2>3, <2>6, ContinueInv
<1>12. CASE ~session.mtp
  <2>1. AnswerOk(more) /\ last_final_hidden' = more
    BY <1>4, <1>7, <1>12 DEF DecodeToken
  <2>2. Len(more) + Len(pending') <= Context
    BY <1>2, <1>4, <1>10
  <2> QED BY ONLY CpuInv, <1>1, <1>7, <1>8, <1>10, <2>1, <2>2, AnswerInv DEF more
<1> QED BY <1>11, <1>12

\* Bounded and Whole speak of the session alone.
LEMMA SameSession ==
  ASSUME UNCHANGED <<vars, position, recurrent, counted, mtp_state>>,
         session'.mtp = session.mtp
  PROVE  /\ PagedInv => PagedInv' /\ policy' = policy
         /\ Bounded => Bounded'
         /\ \A sequence : Whole(sequence) => Whole(sequence)'
<1>1. PagedInv => PagedInv'
  BY PagedStep
<1>2. UNCHANGED <<policy, tokens, pages, checkpoint>>
  BY DEF vars
<1>3. TargetRows' = TargetRows
  BY <1>2 DEF TargetRows
<1>4. \A sequence : Whole(sequence) => Whole(sequence)'
  BY <1>3 DEF Whole
<1>5. Bounded => Bounded'
  BY DEF Bounded
<1> QED BY <1>1, <1>2, <1>4, <1>5

LEMMA DecodeInv ==
  ASSUME CpuInv, Decode
  PROVE  CpuInv'
<1>1. /\ IdleInv /\ session.status = "open" /\ model = "warm" /\ pending = << >>
      /\ OpenInv /\ HasRoom
  <2>1. Idle /\ session.status = "open" /\ model = "warm" /\ pending = << >> /\ HasRoom
    BY DEF Decode, CanDecode, InSession
  <2> QED BY <2>1, IsIdle DEF IdleInv
<1>2. PICK token \in Values :
         /\ call' = [IdleCall EXCEPT !.method = "decode", !.todo = <<token>>,
                                     !.gives = Append(reported.tokens, token)]
         /\ UNCHANGED <<model, drafts, session_bytes, session, reported>>
  BY DEF Decode, Continue
<1>3. UNCHANGED <<vars, stateVars>>
  BY DEF Decode
<1>4. UNCHANGED <<vars, position, recurrent, counted, mtp_state, last_final_hidden, pending>>
  BY <1>3 DEF stateVars
<1>5. PICK done : done = reported.tokens
  OBVIOUS
<1>6. /\ Whole(done) /\ done \in Seq(Values) /\ done # << >> /\ last_final_hidden = done
      /\ reported = [tokens |-> done, position |-> Len(done), pending |-> Len(pending),
                     state |-> "whole"]
      /\ position[1] = Len(done)
  BY <1>1, <1>5 DEF OpenInv, Whole
<1>7. /\ CpuTypeOK /\ PagedInv /\ drafts \in Nat /\ session'.mtp = session.mtp
      /\ Bounded
  BY <1>2, CpuExecutorAssumption DEF CpuInv, CpuTypeOK, Bounded
<1>8. PagedInv' /\ policy' = policy /\ Whole(done)' /\ Bounded'
  BY <1>4, <1>6, <1>7, SameSession
<1>9. /\ call' \in Calls /\ call'.method = "decode" /\ call'.todo = <<token>>
      /\ call'.gives = Append(done, token) /\ call'.candidates = << >>
  <2>1. Append(done, token) \in Seq(Values) /\ <<token>> \in Seq(Values)
        /\ << >> \in Seq(Values)
    BY <1>6
  <2> QED BY <1>2, <1>5, <2>1 DEF IdleCall, Calls, Methods
<1>10. /\ Len(call'.gives) = Len(done) + 1 /\ Len(<<token>>) = 1 /\ <<token>> # << >>
       /\ Append(done, token) = done \o <<token>> /\ Len(done) \in Nat
  <2>1. done \in Seq(Values)
    BY <1>6
  <2>2. /\ Len(Append(done, token)) = Len(done) + 1 /\ Len(<<token>>) = 1
        /\ <<token>> # << >> /\ Len(done) \in Nat
        /\ Append(done, token) = done \o <<token>>
    BY ONLY <2>1, token \in Values
  <2> QED BY <1>9, <2>2
<1>11. /\ Len(call'.gives) <= Context
       /\ session.mtp => Len(call'.gives) + drafts <= Context
  <2>1. CASE session.mtp
    <3>1. Len(done) + 1 + drafts <= Context
      BY <1>1, <1>6, <2>1 DEF HasRoom
    <3> QED BY <1>7, <1>10, <3>1, CpuExecutorAssumption
  <2>2. CASE ~session.mtp
    <3>1. Len(done) + 1 + 0 <= Context
      BY <1>1, <1>6, <2>2 DEF HasRoom
    <3> QED BY <1>10, <2>2, <3>1, CpuExecutorAssumption
  <2> QED BY <2>1, <2>2
<1>12. reported' = [tokens |-> done, position |-> Len(done), pending |-> 0,
                    state |-> "whole"]
  <2>1. Len(pending) = 0
    BY <1>1
  <2> QED BY <1>2, <1>6, <2>1
<1>13. ConsumingInv'
  <2>1. /\ call'.todo # << >> /\ pending' = << >> /\ last_final_hidden' = done
        /\ session'.status = "open" /\ Len(call'.todo) = 1
        /\ call'.gives = done \o call'.todo
        /\ session'.mtp => Len(call'.gives) + drafts' <= Context
    BY <1>1, <1>2, <1>4, <1>6, <1>9, <1>10, <1>11
  <2> QED BY <1>6, <1>8, <1>9, <1>11, <1>12, <2>1 DEF ConsumingInv
<1>14. pending' \in Seq(Values) /\ Len(pending') <= drafts
  BY <1>4 DEF CpuInv, CpuTypeOK
<1> QED BY <1>1, <1>2, <1>8, <1>9, <1>13, <1>14, ContinueInv

LEMMA ErrorKeeps ==
  ASSUME CpuInv, model = "warm", UNCHANGED <<vars, stateVars>>, AnswerError
  PROVE  CpuInv'
<1>1. UNCHANGED <<vars, position, recurrent, counted, mtp_state, pending>>
  BY DEF stateVars
<1>2. PagedInv /\ Bounded /\ pending \in Seq(Values) /\ Len(pending) <= drafts
  BY DEF CpuInv, CpuTypeOK, Bounded
<1>3. PagedInv' /\ policy' = policy
  BY <1>1, <1>2, PagedStep DEF vars
<1>4. Bounded'
  BY <1>1, <1>2 DEF Bounded
<1> QED BY <1>1, <1>2, <1>3, <1>4, ErrorInv

LEMMA RefusedInv ==
  ASSUME CpuInv, Refused
  PROVE  CpuInv'
<1>1. model = "warm" /\ UNCHANGED <<vars, stateVars>> /\ AnswerError
  BY DEF Refused, CanDecode
<1> QED BY <1>1, ErrorKeeps

LEMMA CancelledInv ==
  ASSUME CpuInv, Cancelled
  PROVE  CpuInv'
<1>1. model = "warm"
  BY IsConsuming, IsSpeculating DEF Cancelled
<1> QED BY <1>1, ErrorKeeps DEF Cancelled

LEMMA FailsInv ==
  ASSUME CpuInv, Fails
  PROVE  CpuInv'
<1>1. model = "warm" /\ ConsumingInv /\ call.todo \in Seq(Values) /\ call.todo # << >>
  BY IsConsuming DEF Fails, CpuInv, ConsumingInv, Calls
<1>2. PICK done \in Seq(Values) :
         Whole(done) /\ call.gives = done \o call.todo /\ Len(call.gives) <= Context
  BY <1>1 DEF ConsumingInv
<1>3. PICK token : token = Head(call.todo)
  OBVIOUS
<1>4. /\ token \in Values /\ Len(done) \in Nat /\ Len(done) < Context
  <2>1. /\ Head(call.todo) \in Values /\ Len(call.todo) \in Nat \ {0}
        /\ Len(done \o call.todo) = Len(done) + Len(call.todo)
    BY ONLY <1>1, done \in Seq(Values), HeadFirst
  <2>2. Len(done) + Len(call.todo) <= Context
    BY <1>2, <2>1
  <2> QED BY <1>3, <2>1, <2>2, CpuExecutorAssumption
<1>5. /\ PagedInv /\ policy.maximum_tokens = Context /\ session.mtp \in BOOLEAN
      /\ pending \in Seq(Values) /\ Len(pending) <= drafts
  BY <1>1 DEF CpuInv, CpuTypeOK
<1>6. ConsumeFails(token) /\ UNCHANGED pending /\ AnswerError
  BY <1>3 DEF Fails
<1>7. /\ position = <<Len(done)>> /\ counted = [l \in Layers |-> Len(done)]
      /\ TakesMtp => done # << >> /\ mtp_state = <<MtpOf(done)>>
      /\ Bounded
  BY <1>2, <1>4, <1>5, WholeAccepts, WholeIsBounded DEF Whole
<1>8. TakesMtp => /\ MtpOf(done).tokens + 1 \in 0 .. Context - 1
                  /\ MtpOf(done).tokens \in 0 .. Context - 1
                  /\ MtpOf(done) = [rows |-> MtpRowsOf(done), tokens |-> MtpOf(done).tokens]
  <2> SUFFICES ASSUME done # << >>
               PROVE  /\ MtpOf(done).tokens + 1 \in 0 .. Context - 1
                      /\ MtpOf(done).tokens \in 0 .. Context - 1
                      /\ MtpOf(done) = [rows |-> MtpRowsOf(done),
                                        tokens |-> MtpOf(done).tokens]
    BY <1>7
  <2>1. MtpOf(done) = [rows |-> MtpRowsOf(done), tokens |-> Len(done) - 1]
    BY DEF MtpOf
  <2>2. Len(done) # 0 /\ Context \in Nat
    BY CpuExecutorAssumption
  <2>3. Len(done) - 1 + 1 \in 0 .. Context - 1 /\ Len(done) - 1 \in 0 .. Context - 1
    BY <1>4, <2>2
  <2> QED BY <2>1, <2>3
<1> DEFINE Rows == /\ Len(mtp_state') <= 1
                   /\ \A m \in DOMAIN mtp_state' :
                         mtp_state'[m].tokens \in 0 .. Context - 1
<1>9. ASSUME NEW row, mtp_state' = <<row>>, row.tokens \in 0 .. Context - 1
      PROVE  Rows
  BY <1>9
<1>10. ASSUME UNCHANGED mtp_state PROVE Rows
  BY <1>7, <1>10 DEF Bounded
<1> HIDE DEF Rows
<1>11. ASSUME TakesMtp, MtpStep(token) PROVE Rows
  <2>1. mtp_state' = <<[rows |-> Append(mtp_state[1].rows, MtpRow(token)),
                        tokens |-> mtp_state[1].tokens + 1]>>
    BY <1>11 DEF MtpStep
  <2>2. mtp_state[1] = MtpOf(done)
    BY <1>7, <1>11
  <2> QED BY <1>8, <1>9, <1>11, <2>1, <2>2
<1>12. ASSUME TakesMtp, MtpStepFails(token) PROVE Rows
  <2>1. mtp_state[1] = MtpOf(done)
    BY <1>7, <1>12
  <2>2. \/ UNCHANGED mtp_state
        \/ mtp_state' = <<[mtp_state[1] EXCEPT !.rows = Append(@, MtpRow(token))]>>
    BY <1>12 DEF MtpStepFails
  <2>3. [mtp_state[1] EXCEPT !.rows = Append(@, MtpRow(token))].tokens = MtpOf(done).tokens
    BY <1>8, <1>12, <2>1
  <2> QED BY <1>8, <1>9, <1>10, <1>12, <2>2, <2>3
<1>13. Rows
  BY <1>6, <1>10, <1>11, <1>12 DEF ConsumeFails
<1>14. /\ PagedInv' /\ policy' = policy
       /\ position' = position /\ counted' \in [Layers -> 0 .. Context]
  <2>1. CASE UNCHANGED <<vars, position, recurrent, counted>>
    <3>1. PagedInv' /\ policy' = policy
      BY <1>5, <2>1, PagedStep DEF vars
    <3> QED BY <1>7, <2>1, <3>1 DEF Bounded
  <2>2. ASSUME NEW stop, NEW half, LayersUpTo(stop, half, token), UNCHANGED position
        PROVE  /\ PagedInv' /\ policy' = policy
               /\ position' = position /\ counted' \in [Layers -> 0 .. Context]
    <3>1. PagedInv' /\ policy' = policy
      <4>1. Push(token) \/ UNCHANGED vars
        BY <2>2 DEF LayersUpTo, FullTakes
      <4>2. Push(token) => PagedInv' /\ policy' = policy
        BY <1>4, <1>5, PushInv DEF Push
      <4>3. UNCHANGED vars => PagedInv' /\ policy' = policy
        BY <1>5, PagedStep DEF vars
      <4> QED BY <4>1, <4>2, <4>3
    <3>2. counted' = [l \in Layers |-> Len(done) + (IF l < stop THEN 1 ELSE 0)]
      BY <1>7, <2>2 DEF LayersUpTo
    <3>3. \A l \in Layers : Len(done) + (IF l < stop THEN 1 ELSE 0) \in 0 .. Context
      BY <1>4, CpuExecutorAssumption
    <3> QED BY <2>2, <3>1, <3>2, <3>3
  <2> QED BY <1>6, <2>1, <2>2 DEF ConsumeFails, TargetStepFails
<1>15. Bounded'
  BY <1>7, <1>13, <1>14 DEF Bounded, Rows
<1>16. pending' \in Seq(Values) /\ Len(pending') <= drafts
  BY <1>5, <1>6
<1> QED BY <1>1, <1>6, <1>14, <1>15, <1>16, ErrorInv

LEMMA DecodeDraftInv ==
  ASSUME CpuInv, DecodeDraft
  PROVE  CpuInv'
<1>1. model = "warm" /\ SpeculatingInv /\ call \in Calls
  BY IsSpeculating DEF DecodeDraft, CpuInv
<1>2. PICK candidate \in Values, candidates \in Seq(Values) :
         /\ candidates = Append(call.candidates, candidate)
         /\ Speculate(candidate)
         /\ IF MoreDrafts(candidates)
            THEN /\ UNCHANGED <<last_final_hidden, pending>>
                 /\ Continue([call EXCEPT !.candidates = candidates,
                                          !.target_branch = @ + 1,
                                          !.mtp_branch = @ + 1])
            ELSE /\ pending' = candidates
                 /\ last_final_hidden' = call.hidden
                 /\ AnswerOk(call.gives)
  <2>1. call.candidates \in Seq(Values)
    BY <1>1 DEF Calls
  <2>2. \A candidate \in Values : Append(call.candidates, candidate) \in Seq(Values)
    BY <2>1
  <2> QED BY <2>2 DEF DecodeDraft
<1>3. PICK gives : gives = call.gives
  OBVIOUS
<1>4. /\ Whole(gives) /\ Len(gives) > 1 /\ call.hidden = gives
      /\ Len(call.candidates) < drafts /\ Len(gives) + drafts <= Context
      /\ call.target_branch = Len(gives) + Len(call.candidates)
      /\ call.mtp_branch + 1 = Len(gives) + Len(call.candidates)
      /\ pending = << >> /\ session.status = "open" /\ session.mtp
  BY <1>1, <1>3 DEF SpeculatingInv
<1>5. /\ candidates \in Seq(Values) /\ Len(candidates) = Len(call.candidates) + 1
      /\ Len(call.candidates) \in Nat /\ Len(gives) \in Nat
      /\ call.candidates \in Seq(Values) /\ gives \in Seq(Values) /\ gives # << >>
      /\ call.mtp_branch \in Nat /\ call.target_branch \in Nat
  <2>1. /\ call.candidates \in Seq(Values) /\ gives \in Seq(Values)
        /\ call.mtp_branch \in Nat /\ call.target_branch \in Nat
    BY <1>1, <1>3 DEF Calls
  <2>2. Len(call.candidates) \in Nat /\ Len(gives) \in Nat
    BY <2>1
  <2>3. candidates \in Seq(Values) /\ Len(candidates) = Len(call.candidates) + 1
    BY <1>2, <2>1
  <2>4. gives # << >>
    BY <1>4
  <2> QED BY <2>1, <2>2, <2>3, <2>4
<1>6. drafts \in Nat /\ Context \in Nat
  BY CpuExecutorAssumption DEF CpuInv, CpuTypeOK
<1>7. UNCHANGED <<vars, position, recurrent, counted, mtp_state>>
  BY <1>2 DEF Speculate
<1>8. session'.mtp = session.mtp
  <2>1. session \in [status : {"none", "open", "lost"}, mtp : BOOLEAN]
    BY DEF CpuInv
  <2> QED BY <1>2, <2>1 DEF Continue, AnswerOk
<1>9. PagedInv /\ Bounded
  BY DEF CpuInv, CpuTypeOK, Bounded
<1>10. PagedInv' /\ policy' = policy /\ Bounded' /\ Whole(gives)'
  BY <1>4, <1>7, <1>8, <1>9, SameSession
<1>11. CASE MoreDrafts(candidates)
  <2>1. /\ UNCHANGED <<last_final_hidden, pending>>
        /\ call' = [call EXCEPT !.candidates = candidates, !.target_branch = @ + 1,
                                !.mtp_branch = @ + 1]
        /\ UNCHANGED <<model, drafts, session_bytes, session, reported>>
    BY <1>2, <1>11 DEF Continue
  <2>2. /\ call' \in Calls /\ call'.method = "speculate" /\ call'.gives = gives
        /\ call'.hidden = gives /\ call'.candidates = candidates
        /\ call'.target_branch = call.target_branch + 1
        /\ call'.mtp_branch = call.mtp_branch + 1
    <3>1. call.target_branch + 1 \in Nat /\ call.mtp_branch + 1 \in Nat
      BY <1>5
    <3>2. call.method = "speculate"
      BY <1>1 DEF SpeculatingInv
    <3> QED BY <1>1, <1>3, <1>4, <1>5, <2>1, <3>1, <3>2 DEF Calls
  <2>3. Len(candidates) < drafts
    BY <1>11 DEF MoreDrafts
  <2>4. /\ call'.target_branch = Len(gives) + Len(candidates)
        /\ call'.mtp_branch + 1 = Len(gives) + Len(candidates)
    BY <1>4, <1>5, <2>2
  <2>5. \E before \in Seq(Values) :
           reported' = [tokens |-> before, position |-> Len(gives) - 1,
                        pending |-> 0, state |-> "whole"]
    BY <1>1, <1>3, <2>1 DEF SpeculatingInv
  <2>6. SpeculatingInv'
    <3>1. Whole(call.gives)'
      BY <1>10, <2>2
    <3>2. /\ session'.status = "open" /\ session'.mtp /\ pending' = << >> /\ drafts' = drafts
      BY <1>4, <2>1
    <3>3. /\ call'.gives = gives /\ call'.hidden = gives /\ call'.candidates = candidates
          /\ call'.method = "speculate"
      BY <2>2
    <3> QED BY <1>4, <2>3, <2>4, <2>5, <3>1, <3>2, <3>3 DEF SpeculatingInv
  <2>7. /\ pending' \in Seq(Values) /\ Len(pending') <= drafts
        /\ UNCHANGED <<model, drafts, session>>
    BY <2>1 DEF CpuInv, CpuTypeOK
  <2>8. call' \in Calls
    BY <2>2
  <2> QED BY ONLY CpuInv, <1>1, <1>10, <2>6, <2>7, <2>8, ContinueInv
<1>12. CASE ~MoreDrafts(candidates)
  <2>1. AnswerOk(gives) /\ last_final_hidden' = gives /\ pending' = candidates
    BY <1>2, <1>3, <1>4, <1>12 DEF AnswerOk
  <2>2. /\ Len(candidates) <= drafts /\ Len(gives) + Len(candidates) <= Context
    BY <1>4, <1>5, <1>6
  <2>3. /\ pending' \in Seq(Values) /\ Len(pending') <= drafts
        /\ Len(gives) + Len(pending') <= Context
    BY <1>5, <2>1, <2>2
  <2>4. gives # << >>
    BY <1>5
  <2> QED BY ONLY CpuInv, <1>1, <1>10, <2>1, <2>3, <2>4, AnswerInv
<1> QED BY <1>11, <1>12

LEMMA CommitSpeculativeInv ==
  ASSUME CpuInv, CommitSpeculative
  PROVE  CpuInv'
<1>1. /\ session.status = "open" /\ model = "warm" /\ pending # << >> /\ OpenInv
  <2>1. Idle /\ session.status = "open" /\ pending # << >>
    BY DEF CommitSpeculative, InSession
  <2> QED BY <2>1, IsIdle DEF IdleInv
<1>2. /\ pending' = << >>
      /\ UNCHANGED <<vars, position, recurrent, counted, mtp_state, last_final_hidden>>
  BY DEF CommitSpeculative
<1>3. PICK accepted \in 0 .. Len(pending),
           prefix \in {SubSeq(pending, 1, n) : n \in 0 .. Len(pending)} :
         /\ prefix = SubSeq(pending, 1, accepted)
         /\ IF accepted = 0 THEN AnswerOk(reported.tokens)
            ELSE Continue([IdleCall EXCEPT !.method = "commit", !.todo = prefix,
                                           !.gives = reported.tokens \o prefix])
  BY DEF CommitSpeculative
<1>4. PICK done : done = reported.tokens
  OBVIOUS
<1>5. /\ Whole(done) /\ done \in Seq(Values) /\ done # << >> /\ last_final_hidden = done
      /\ reported = [tokens |-> done, position |-> Len(done), pending |-> Len(pending),
                     state |-> "whole"]
      /\ Len(done) + Len(pending) <= Context
  BY <1>1, <1>4 DEF OpenInv, Whole
<1>6. /\ PagedInv /\ Bounded /\ drafts \in 0 .. MaximumDrafts
      /\ pending \in Seq(Values) /\ Len(pending) <= drafts
      /\ MaximumDrafts \in Nat /\ Context \in Nat
      /\ session \in [status : {"none", "open", "lost"}, mtp : BOOLEAN]
  BY CpuExecutorAssumption DEF CpuInv, CpuTypeOK, Bounded
<1>7. session'.mtp = session.mtp
  BY <1>3, <1>6 DEF Continue, AnswerOk
<1>8. PagedInv' /\ policy' = policy /\ Whole(done)' /\ Bounded'
  BY <1>2, <1>5, <1>6, <1>7, SameSession
<1>9. /\ pending' \in Seq(Values) /\ Len(pending') = 0 /\ Len(pending') <= drafts
  <2>1. << >> \in Seq(Values) /\ Len(<< >>) = 0 /\ 0 <= drafts
    BY <1>6
  <2> QED BY <1>2, <2>1
<1>10. CASE accepted = 0
  <2>1. AnswerOk(done) /\ last_final_hidden' = done
    BY <1>2, <1>3, <1>4, <1>5, <1>10 DEF AnswerOk
  <2>2. Len(done) + Len(pending') <= Context
    <3>1. Len(done) \in Nat /\ Len(pending) \in Nat
      BY <1>5, <1>6
    <3> QED BY <1>5, <1>6, <1>9, <3>1
  <2>3. done # << >>
    BY <1>5
  <2> QED BY ONLY CpuInv, <1>1, <1>8, <1>9, <2>1, <2>2, <2>3, AnswerInv
<1>11. CASE accepted # 0
  <2>1. /\ call' = [IdleCall EXCEPT !.method = "commit", !.todo = prefix,
                                    !.gives = reported.tokens \o prefix]
        /\ UNCHANGED <<model, drafts, session_bytes, session, reported>>
    BY <1>3, <1>11 DEF Continue
  <2>2. /\ prefix \in Seq(Values) /\ Len(prefix) = accepted /\ prefix # << >>
        /\ accepted \in 1 .. Len(pending) /\ Len(pending) \in Nat
    <3>1. Len(pending) \in Nat /\ accepted \in 1 .. Len(pending)
      BY <1>3, <1>6, <1>11
    <3>2. SubSeq(pending, 1, accepted) \in Seq(Values)
          /\ Len(SubSeq(pending, 1, accepted)) = accepted
      BY <1>6, <3>1
    <3> QED BY <1>3, <3>1, <3>2
  <2>3. /\ done \o prefix \in Seq(Values)
        /\ Len(done \o prefix) = Len(done) + accepted
        /\ Len(done) \in Nat
    <3>1. done \in Seq(Values)
      BY <1>5
    <3> QED BY ONLY <2>2, <3>1
  <2>4. /\ call' \in Calls /\ call'.method = "commit" /\ call'.todo = prefix
        /\ call'.gives = done \o prefix
    <3>1. << >> \in Seq(Values)
      OBVIOUS
    <3>2. call' = [IdleCall EXCEPT !.method = "commit", !.todo = prefix,
                                   !.gives = done \o prefix]
      BY <1>4, <2>1
    <3> QED BY <2>2, <2>3, <3>1, <3>2 DEF IdleCall, Calls, Methods
  <2>5. /\ Len(done \o prefix) <= Context /\ Len(done) < Len(done \o prefix)
        /\ Len(done \o prefix) <= Len(done) + Len(pending)
        /\ Len(pending) <= MaximumDrafts
    BY <1>5, <1>6, <2>2, <2>3
  <2>6. \E before \in Seq(Values), branch \in Nat :
           /\ reported' = [tokens |-> before, position |-> Len(before),
                           pending |-> branch, state |-> "whole"]
           /\ Len(before) < Len(call'.gives)
           /\ Len(call'.gives) <= Len(before) + branch
           /\ branch <= MaximumDrafts
    BY <1>5, <2>1, <2>2, <2>4, <2>5
  <2>7. ConsumingInv'
    <3>1. /\ call'.todo # << >> /\ Len(call'.gives) <= Context /\ pending' = << >>
          /\ last_final_hidden' = done /\ call'.gives = done \o call'.todo
          /\ session'.status = "open" /\ call'.method = "commit"
      BY <1>1, <1>2, <1>5, <2>1, <2>2, <2>4, <2>5
    <3> QED BY <1>5, <1>8, <2>6, <3>1 DEF ConsumingInv
  <2>8. call' \in Calls /\ UNCHANGED <<model, drafts, session>>
    BY <2>1, <2>4
  <2> QED BY ONLY CpuInv, <1>1, <1>8, <1>9, <2>7, <2>8, ContinueInv
<1> QED BY <1>10, <1>11

LEMMA NoSession ==
  ASSUME Reset, PagedInv, position' = << 0 >> \/ position' = << >>,
         recurrent' = [l \in LinearLayers |-> << >>], counted' = [l \in Layers |-> 0],
         mtp_state' = IF session'.mtp THEN <<FreshMtp>> ELSE << >>
  PROVE  /\ PagedInv' /\ policy' = policy /\ Bounded'
         /\ position' = << 0 >> => Whole(<< >>)'
<1>1. PagedInv' /\ policy' = policy
  BY PagedStep DEF Next, Reset
<1>2. Context \in Nat \ {0, 1}
  BY CpuExecutorAssumption
<1>3. /\ position' \in {<< >>} \cup {<<n>> : n \in 0 .. Context}
      /\ counted' \in [Layers -> 0 .. Context]
  <2>1. 0 \in 0 .. Context
    BY <1>2
  <2> QED BY <2>1
<1>4. /\ Len(mtp_state') <= 1
      /\ \A m \in DOMAIN mtp_state' : mtp_state'[m].tokens \in 0 .. Context - 1
  <2>1. FreshMtp.tokens = 0 /\ 0 \in 0 .. Context - 1
    BY <1>2 DEF FreshMtp
  <2>2. CASE mtp_state' = <<FreshMtp>>
    BY <2>1, <2>2
  <2>3. CASE mtp_state' = << >>
    BY <2>3
  <2> QED BY <2>2, <2>3
<1>5. MtpOf(<< >>) = FreshMtp
  <2>1. MtpRowsOf(<< >>) = << >>
    <3>1. Len(<< >>) - 1 = -1 /\ 1 .. (-1) = {}
      OBVIOUS
    <3> QED BY <3>1 DEF MtpRowsOf
  <2> QED BY <2>1 DEF MtpOf, FreshMtp
<1>6. TargetRows' = << >>
  <2>1. ViewOf(pages') = << >>
    BY NothingRead DEF Reset, PagedInv
  <2> QED BY <2>1 DEF TargetRows
<1>7. /\ << >> \in Seq(Values) /\ Len(<< >>) = 0
  OBVIOUS
<1>8. ASSUME position' = << 0 >> PROVE Whole(<< >>)'
  BY <1>2, <1>5, <1>6, <1>7, <1>8 DEF Whole
<1> QED BY <1>1, <1>3, <1>4, <1>8 DEF Bounded

LEMMA PrefillInv ==
  ASSUME CpuInv, Prefill
  PROVE  CpuInv'
<1>1. /\ IdleInv /\ session.status = "none" /\ model = "warm" /\ reported = Untouched
  <2>1. Idle /\ session.status = "none" /\ model = "warm"
    BY DEF Prefill
  <2> QED BY <2>1, IsIdle DEF IdleInv
<1>2. PICK prompt \in Prompts, with_mtp \in BOOLEAN :
         /\ with_mtp => drafts > 0
         /\ mtp_state' = IF with_mtp THEN <<FreshMtp>> ELSE << >>
         /\ call' = [IdleCall EXCEPT !.method = "prefill", !.todo = prompt,
                                     !.gives = prompt]
         /\ session' = [session EXCEPT !.mtp = with_mtp]
  BY DEF Prefill
<1>3. /\ Reset /\ recurrent' = [l \in LinearLayers |-> << >>]
      /\ counted' = [l \in Layers |-> 0]
      /\ position' = << 0 >> /\ last_final_hidden' = << >> /\ pending' = << >>
      /\ UNCHANGED <<model, drafts, session_bytes, reported>>
  BY DEF Prefill, ClearLayers
<1>4. /\ prompt \in Seq(Values) /\ Len(prompt) \in 1 .. Context /\ Context \in Nat
  BY CpuExecutorAssumption
<1>5. /\ session' \in [status : {"none", "open", "lost"}, mtp : BOOLEAN]
      /\ session'.mtp = with_mtp /\ session'.status = "none"
  BY <1>1, <1>2 DEF CpuInv
<1>6. PagedInv' /\ policy' = policy /\ Bounded' /\ Whole(<< >>)'
  BY <1>2, <1>3, <1>5, NoSession DEF CpuInv
<1>7. /\ call' \in Calls /\ call'.method = "prefill" /\ call'.todo = prompt
      /\ call'.gives = prompt
  <2>1. << >> \in Seq(Values)
    OBVIOUS
  <2> QED BY <1>2, <1>4, <2>1 DEF IdleCall, Calls, Methods
<1>8. /\ << >> \o prompt = prompt /\ prompt # << >> /\ << >> \in Seq(Values)
      /\ Len(prompt) <= Context /\ Len(<< >>) = 0
  BY <1>4
<1>9. ConsumingInv'
  <2>1. /\ call'.todo # << >> /\ Len(call'.gives) <= Context /\ pending' = << >>
        /\ last_final_hidden' = << >> /\ call'.gives = << >> \o call'.todo
        /\ session'.status = "none" /\ call'.method = "prefill" /\ reported' = Untouched'
    BY <1>1, <1>3, <1>5, <1>7, <1>8 DEF Untouched
  <2> QED BY <1>6, <1>8, <2>1 DEF ConsumingInv
<1>10. CpuTypeOK'
  <2>1. drafts \in 0 .. MaximumDrafts /\ MaximumDrafts \in Nat
    BY CpuExecutorAssumption DEF CpuInv, CpuTypeOK
  <2>2. pending' \in Seq(Values) /\ Len(pending') <= drafts'
    BY <1>3, <1>8, <2>1
  <2>3. session'.status \in {"none", "open", "lost"} /\ session'.mtp \in BOOLEAN
    BY <1>5
  <2> QED BY <1>1, <1>3, <1>6, <2>1, <2>2, <2>3 DEF CpuTypeOK, Bounded
<1>11. session'.mtp => drafts' > 0
  BY <1>2, <1>3, <1>5
<1>12. policy'.maximum_tokens = Context
  BY <1>1, <1>6 DEF CpuInv
<1> QED BY <1>1, <1>3, <1>5, <1>6, <1>7, <1>9, <1>10, <1>11, <1>12 DEF CpuInv, Loaded

\* reset_session and unload leave no session.
LEMMA DroppedInv ==
  ASSUME CpuInv, Idle, model # "new", DropSession,
         model' \in {"resident", "warm", "unloaded"}, drafts' \in 0 .. MaximumDrafts,
         session_bytes' = NoBytes, session' = [status |-> "none", mtp |-> FALSE],
         reported' = Untouched, call' = call
  PROVE  CpuInv'
<1>1. /\ Reset /\ recurrent' = [l \in LinearLayers |-> << >>]
      /\ counted' = [l \in Layers |-> 0] /\ position' = << >> /\ mtp_state' = << >>
      /\ pending' = << >>
  BY DEF DropSession, ClearLayers
<1>2. /\ session'.status = "none" /\ session'.mtp = FALSE
      /\ session' \in [status : {"none", "open", "lost"}, mtp : BOOLEAN]
  OBVIOUS
<1>3. PagedInv' /\ policy' = policy /\ Bounded'
  BY <1>1, <1>2, NoSession DEF CpuInv
<1>4. pending' \in Seq(Values) /\ Len(pending') <= drafts'
  <2>1. << >> \in Seq(Values) /\ Len(<< >>) = 0 /\ MaximumDrafts \in Nat
    BY CpuExecutorAssumption
  <2> QED BY <1>1, <2>1
<1>5. CpuTypeOK'
  BY <1>2, <1>3, <1>4 DEF CpuTypeOK, Bounded
<1>6. call' = IdleCall /\ call' \in Calls
  BY IsIdle DEF IdleInv, CpuInv
<1>7. IdleInv'
  BY <1>1, <1>2, <1>6 DEF IdleInv, Untouched, NoBytes, IdleCall
<1>8. policy'.maximum_tokens = Context
  BY <1>3 DEF CpuInv
<1> QED BY <1>2, <1>3, <1>5, <1>6, <1>7, <1>8 DEF CpuInv

LEMMA NotLoadedYet ==
  ASSUME CpuInv, ~Loaded
  PROVE  IdleInv /\ session.status = "none" /\ ~session.mtp
BY DEF CpuInv, Loaded, IdleInv

LEMMA LoadInv ==
  ASSUME CpuInv, Load
  PROVE  CpuInv'
<1>1. /\ IdleInv /\ session.status = "none" /\ ~session.mtp /\ pending = << >>
      /\ session_bytes = NoBytes /\ reported = Untouched /\ mtp_state = << >>
      /\ call = IdleCall
  BY NotLoadedYet DEF Load, IdleInv
<1>2. /\ model' = "resident" /\ drafts' \in 0 .. MaximumDrafts /\ session_bytes' = NoBytes
      /\ UNCHANGED <<vars, stateVars, call, session, reported>>
      /\ policy \in ExecutorPolicies
  BY DEF Load
<1>3. UNCHANGED <<position, recurrent, counted, mtp_state, last_final_hidden, pending>>
  BY <1>2 DEF stateVars
<1>4. PagedInv' /\ policy' = policy /\ policy.maximum_tokens = Context
  BY <1>2, PagedStep, CpuExecutorAssumption DEF vars, CpuInv
<1>5. Bounded'
  BY <1>3 DEF CpuInv, CpuTypeOK, Bounded
<1>6. pending' \in Seq(Values) /\ Len(pending') <= drafts'
  <2>1. << >> \in Seq(Values) /\ Len(<< >>) = 0 /\ MaximumDrafts \in Nat
    BY CpuExecutorAssumption
  <2> QED BY <1>1, <1>2, <1>3, <2>1
<1>7. CpuTypeOK'
  BY <1>2, <1>5, <1>6 DEF CpuTypeOK, Bounded, CpuInv
<1>8. IdleInv'
  BY <1>1, <1>2, <1>3 DEF IdleInv, Untouched, NoBytes, IdleCall
<1> QED BY <1>1, <1>2, <1>4, <1>7, <1>8 DEF CpuInv

LEMMA WarmupInv ==
  ASSUME CpuInv, Warmup
  PROVE  CpuInv'
<1>1. /\ IdleInv /\ session.status # "open" /\ model = "resident" /\ model' = "warm"
      /\ UNCHANGED <<vars, stateVars, drafts, session_bytes, call, session, reported>>
  BY IsIdle DEF Warmup, IdleInv
<1>2. UNCHANGED <<position, recurrent, counted, mtp_state, last_final_hidden, pending>>
  BY <1>1 DEF stateVars
<1>3. PagedInv' /\ policy' = policy /\ policy.maximum_tokens = Context
  BY <1>1, PagedStep DEF vars, CpuInv
<1>4. CpuTypeOK'
  BY <1>1, <1>2 DEF CpuTypeOK, CpuInv
<1>5. IdleInv'
  BY <1>1, <1>2 DEF IdleInv, Untouched, NoBytes, IdleCall
<1> QED BY <1>1, <1>3, <1>4, <1>5 DEF CpuInv, Loaded

\* Steps that touch no more than the cache.
LEMMA ExecutorKeeps ==
  ASSUME CpuInv, PagedInv', UNCHANGED executorVars, model = "new" \/ UNCHANGED vars
  PROVE  CpuInv'
<1>1. /\ UNCHANGED <<position, recurrent, counted, mtp_state, last_final_hidden, pending>>
      /\ UNCHANGED <<model, drafts, session_bytes, call, session, reported>>
  BY DEF executorVars, stateVars, methodVars
<1>2. CpuTypeOK'
  BY <1>1 DEF CpuInv, CpuTypeOK
<1>3. CASE model = "new"
  <2>1. IdleInv /\ session.status = "none"
    BY <1>3, NotLoadedYet DEF Loaded
  <2>2. IdleInv'
    BY <1>1, <2>1 DEF IdleInv, Untouched, NoBytes, IdleCall
  <2> QED BY <1>1, <1>2, <1>3, <2>2 DEF CpuInv, Loaded
<1>4. CASE UNCHANGED vars
  <2>1. policy' = policy /\ pages' = pages
    BY <1>4 DEF vars
  <2>2. \A sequence : Whole(sequence) => Whole(sequence)'
    BY <1>1, <1>4, SameSession
  <2>3. OpenInv => OpenInv'
    BY <1>1, <2>2 DEF OpenInv, SessionBytes
  <2>4. IdleInv => IdleInv'
    BY <1>1, <2>3 DEF IdleInv, Untouched, NoBytes, IdleCall
  <2>5. ConsumingInv => ConsumingInv'
    BY <1>1, <2>2 DEF ConsumingInv, Untouched
  <2>6. SpeculatingInv => SpeculatingInv'
    BY <1>1, <2>2 DEF SpeculatingInv
  <2> QED BY <1>1, <1>2, <2>1, <2>4, <2>5, <2>6 DEF CpuInv, Loaded
<1> QED BY <1>3, <1>4

LEMMA CpuStart == Init /\ ExecutorInit => CpuInv
<1> SUFFICES ASSUME Init, ExecutorInit PROVE CpuInv
  OBVIOUS
<1>1. /\ model = "new" /\ drafts = 0 /\ position = << >> /\ mtp_state = << >>
      /\ counted = [l \in Layers |-> 0] /\ pending = << >> /\ session_bytes = NoBytes
      /\ call = IdleCall /\ session = [status |-> "none", mtp |-> FALSE]
      /\ reported = Untouched
  BY DEF ExecutorInit
<1>2. /\ << >> \in Seq(Values) /\ Len(<< >>) = 0
      /\ MaximumDrafts \in Nat /\ Context \in Nat /\ 0 \in 0 .. Context
      /\ 0 \in 0 .. MaximumDrafts
  BY CpuExecutorAssumption
<1>3. /\ session \in [status : {"none", "open", "lost"}, mtp : BOOLEAN]
      /\ session.status = "none" /\ session.mtp = FALSE
  BY <1>1
<1>4. CpuTypeOK
  BY <1>1, <1>2, <1>3 DEF CpuTypeOK
<1>5. call \in Calls
  BY <1>1, <1>2 DEF IdleCall, Calls, Methods
<1>6. IdleInv
  BY <1>1, <1>3 DEF IdleInv
<1> QED BY <1>1, <1>3, <1>4, <1>5, <1>6, PagedInit DEF CpuInv, Loaded

LEMMA CpuStep == CpuInv /\ [CpuNext]_<<vars, executorVars>> => CpuInv'
<1> SUFFICES ASSUME CpuInv, [CpuNext]_<<vars, executorVars>> PROVE CpuInv'
  OBVIOUS
<1>1. CASE UNCHANGED <<vars, executorVars>>
  BY <1>1, PagedStep, ExecutorKeeps DEF CpuInv
<1>2. CASE model = "new" /\ Next /\ UNCHANGED executorVars
  BY <1>2, PagedStep, ExecutorKeeps DEF CpuInv
<1>3. CASE Load
  BY <1>3, LoadInv
<1>4. CASE Warmup
  BY <1>4, WarmupInv
<1>5. CASE ResetSession
  <2>1. model' \in {"resident", "warm", "unloaded"} /\ drafts' \in 0 .. MaximumDrafts
    BY <1>5 DEF ResetSession, CpuInv, CpuTypeOK
  <2> QED BY <1>5, <2>1, DroppedInv DEF ResetSession
<1>6. CASE Unload
  <2>1. 0 \in 0 .. MaximumDrafts
    BY CpuExecutorAssumption
  <2> QED BY <1>6, <2>1, DroppedInv DEF Unload
<1>7. CASE Prefill
  BY <1>7, PrefillInv
<1>8. CASE PrefillToken
  BY <1>8, TokenStepInv DEF PrefillToken
<1>9. CASE Decode
  BY <1>9, DecodeInv
<1>10. CASE DecodeToken
  BY <1>10, DecodeTokenInv
<1>11. CASE DecodeDraft
  BY <1>11, DecodeDraftInv
<1>12. CASE CommitSpeculative
  BY <1>12, CommitSpeculativeInv
<1>13. CASE CommitToken
  BY <1>13, TokenStepInv DEF CommitToken
<1>14. CASE Refused
  BY <1>14, RefusedInv
<1>15. CASE Cancelled
  BY <1>15, CancelledInv
<1>16. CASE Fails
  BY <1>16, FailsInv
<1> QED BY <1>1, <1>2, <1>3, <1>4, <1>5, <1>6, <1>7, <1>8, <1>9, <1>10, <1>11, <1>12, <1>13,
           <1>14, <1>15, <1>16 DEF CpuNext, ExecutorNext

LEMMA CpuInvHolds == CpuSpec => []CpuInv
<1> QED BY CpuStart, CpuStep, PTL DEF CpuSpec, CpuInit

LEMMA OwnersFollow == CpuInv => CpuOwnersAgree
<1> SUFFICES ASSUME CpuInv PROVE CpuOwnersAgree
  OBVIOUS
<1>1. ASSUME InSession PROVE Owners(reported.tokens) /\ session_bytes = SessionBytes
  <2>1. OpenInv
    BY <1>1, IsIdle DEF InSession, IdleInv
  <2>2. PICK sequence : sequence = reported.tokens
    OBVIOUS
  <2>3. Whole(sequence) /\ sequence # << >> /\ last_final_hidden = sequence
    BY <2>1, <2>2 DEF OpenInv
  <2>4. MtpOf(sequence) = [rows |-> MtpRowsOf(sequence), tokens |-> Len(sequence) - 1]
    BY <2>3 DEF MtpOf
  <2>5. Owners(sequence)
    BY <2>3, <2>4 DEF Whole, Owners, Layers
  <2> QED BY <2>1, <2>2, <2>5 DEF OpenInv
<1>2. Idle /\ session.status = "none" => session_bytes = NoBytes /\ mtp_state = << >>
  BY IsIdle DEF IdleInv
<1> QED BY <1>1, <1>2 DEF CpuOwnersAgree, CpuInv

(* Between two calls of a live session every layer, the position, the       *)
(* hidden vector, the attention pages and the MTP rows of                   *)
(* CpuCorrectnessExecutor hold exactly the prompt, the decoded tokens and   *)
(* the accepted drafts, for every context, retention policy, draft depth,   *)
(* prompt and interleaving of calls, cancellations and failures.            *)
THEOREM CpuOwnersAlwaysAgree == CpuSpec => []CpuOwnersAgree
<1> QED BY CpuInvHolds, OwnersFollow, PTL

LEMMA BoundsFollow == CpuInv => BoundsNeverRefuse
<1> SUFFICES ASSUME CpuInv PROVE BoundsNeverRefuse
  OBVIOUS
<1>1. ASSUME call.method \in {"prefill", "decode", "commit"}
      PROVE  /\ TargetAccepts
             /\ position[1] + Len(call.todo) <= Context
             /\ TakesMtp => MtpAccepts(mtp_state[1].tokens, position[1])
  <2>1. model = "warm" /\ ConsumingInv
    BY <1>1, IsConsuming
  <2>2. PICK done \in Seq(Values) :
           Whole(done) /\ call.gives = done \o call.todo /\ Len(call.gives) <= Context
    BY <2>1 DEF ConsumingInv
  <2>3. call.todo \in Seq(Values) /\ call.todo # << >>
    BY <2>1 DEF ConsumingInv, CpuInv, Calls
  <2>4. /\ Len(call.todo) \in Nat \ {0}
        /\ Len(done \o call.todo) = Len(done) + Len(call.todo) /\ Len(done) \in Nat
    BY ONLY <2>3, done \in Seq(Values), HeadFirst
  <2>5. Len(done) + Len(call.todo) <= Context
    BY <2>2, <2>4
  <2>6. Len(done) < Context
    BY <2>4, <2>5, CpuExecutorAssumption
  <2>7. PagedInv /\ policy.maximum_tokens = Context /\ session.mtp \in BOOLEAN
    BY <2>1 DEF CpuInv
  <2>8. position[1] = Len(done)
    BY <2>2 DEF Whole
  <2> QED BY <2>2, <2>5, <2>6, <2>7, <2>8, WholeAccepts
<1>2. ASSUME call.method = "speculate"
      PROVE  /\ call.target_branch < Context
             /\ Len(call.candidates) + 1 < drafts =>
                   MtpAccepts(call.mtp_branch, call.target_branch)
  <2>1. /\ Len(call.candidates) < drafts /\ Len(call.gives) + drafts <= Context
        /\ call.target_branch = Len(call.gives) + Len(call.candidates)
        /\ call.mtp_branch + 1 = Len(call.gives) + Len(call.candidates)
    BY <1>2, IsSpeculating DEF SpeculatingInv
  <2>2. /\ call.candidates \in Seq(Values) /\ call.gives \in Seq(Values)
        /\ call.mtp_branch \in Nat /\ drafts \in Nat /\ Context \in Nat
    BY CpuExecutorAssumption DEF CpuInv, Calls, CpuTypeOK
  <2>3. Len(call.candidates) \in Nat /\ Len(call.gives) \in Nat
    BY <2>2
  <2> DEFINE c == Len(call.candidates)
             g == Len(call.gives)
             m == call.mtp_branch
             t == call.target_branch
  <2>4. /\ c \in Nat /\ g \in Nat /\ m \in Nat /\ drafts \in Nat /\ Context \in Nat
        /\ c < drafts /\ g + drafts <= Context /\ t = g + c /\ m + 1 = g + c
    BY <2>1, <2>2, <2>3
  <2> HIDE DEF c, g, m, t
  <2>5. t < Context /\ (c + 1 < drafts => t = m + 1 /\ t < Context /\ m < Context - 1)
    BY ONLY <2>4
  <2> QED BY <2>5 DEF MtpAccepts, c, g, m, t
<1> QED BY <1>1, <1>2 DEF BoundsNeverRefuse

(* No token that the engine may still send to CpuCorrectnessExecutor fails  *)
(* a bound of the target, of a layer, of the MTP cache or of a clone, up to *)
(* the last token of any context.                                           *)
THEOREM BoundsNeverBite == CpuSpec => []BoundsNeverRefuse
<1> QED BY CpuInvHolds, BoundsFollow, PTL

-----------------------------------------------------------------------------
(* The cache inside the executor *)

LEMMA ConsumingPushes ==
  ASSUME CpuInv, call.method \in {"prefill", "decode", "commit"},
         UNCHANGED vars \/ Push(Head(call.todo))
  PROVE  [Next]_vars
<1>1. call.todo \in Seq(Values) /\ call.todo # << >>
  BY IsConsuming DEF ConsumingInv, CpuInv, Calls
<1>2. Head(call.todo) \in Values
  BY ONLY <1>1, HeadFirst
<1> QED BY <1>2 DEF Next

LEMMA CacheStep == CpuInv /\ [CpuNext]_<<vars, executorVars>> => [Next]_vars
<1> SUFFICES ASSUME CpuInv, [CpuNext]_<<vars, executorVars>> PROVE [Next]_vars
  OBVIOUS
<1>1. CASE UNCHANGED <<vars, executorVars>>
  BY <1>1
<1>2. CASE Load \/ Warmup \/ Decode \/ DecodeDraft \/ CommitSpeculative \/ Refused \/ Cancelled
  BY <1>2 DEF Load, Warmup, Decode, DecodeDraft, Speculate, CommitSpeculative, Refused, Cancelled
<1>3. CASE ResetSession \/ Unload \/ Prefill
  BY <1>3 DEF ResetSession, Unload, Prefill, DropSession, ClearLayers, Next
<1>4. CASE PrefillToken \/ DecodeToken \/ CommitToken
  <2>1. /\ call.method \in {"prefill", "decode", "commit"}
        /\ Consume(Head(call.todo))
    BY <1>4 DEF PrefillToken, DecodeToken, CommitToken
  <2>2. UNCHANGED vars \/ Push(Head(call.todo))
    BY <2>1 DEF Consume, TargetStep, LayersUpTo, FullTakes
  <2> QED BY <2>1, <2>2, ConsumingPushes
<1>5. CASE Fails
  <2>1. /\ call.method \in {"prefill", "decode", "commit"}
        /\ ConsumeFails(Head(call.todo))
    BY <1>5 DEF Fails
  <2>2. UNCHANGED vars \/ Push(Head(call.todo))
    BY <2>1 DEF ConsumeFails, TargetStepFails, LayersUpTo, FullTakes
  <2> QED BY <2>1, <2>2, ConsumingPushes
<1> QED BY <1>1, <1>2, <1>3, <1>4, <1>5 DEF CpuNext, ExecutorNext

(* What CpuCorrectnessExecutor does to the PagedKvCache of its session is   *)
(* what the cache's own interface allows: the theorems about the cache hold *)
(* of it inside the executor, through every failure and cancellation.       *)
THEOREM CacheInTheExecutor == CpuSpec => Spec
<1> QED BY CpuInvHolds, CacheStep, PTL DEF CpuSpec, CpuInit, Spec

-----------------------------------------------------------------------------
(* The executor implements the trait *)

Answer(gives, at, drafted, whole) ==
    [tokens |-> gives, position |-> at, pending |-> drafted, state |-> whole]

LEMMA IsIdleNext == (CpuInv /\ Idle => IdleInv)'
<1>1. CpuInv /\ Idle => IdleInv
  BY IsIdle
<1> QED BY <1>1, PTL

\* What a method that answers reports.
LEMMA Answered ==
  ASSUME CpuInv, CpuInv', NEW gives, AnswerOk(gives)
  PROVE  /\ reported' = Answer(gives, Len(gives), Len(pending'), "whole")
         /\ gives # << >> /\ Len(gives) \in 1 .. Context
         /\ Len(gives) + Len(pending') <= Context
         /\ model' = model
<1>1. /\ call' = IdleCall /\ session' = [session EXCEPT !.status = "open"]
      /\ reported'.tokens = gives /\ model' = model
  BY DEF AnswerOk
<1>2. session'.status = "open"
  BY <1>1 DEF CpuInv
<1>3. IdleInv'
  BY <1>1, IsIdleNext DEF Idle, IdleCall
<1>4. OpenInv'
  BY <1>2, <1>3 DEF IdleInv
<1>5. /\ reported' = [tokens |-> gives, position |-> Len(gives), pending |-> Len(pending'),
                      state |-> "whole"]
      /\ Len(gives) + Len(pending') <= Context
      /\ gives # << >> /\ gives \in Seq(Values) /\ Len(gives) <= Context
  BY <1>1, <1>4 DEF OpenInv, Whole
<1>6. Len(gives) \in 1 .. Context
  <2>1. Len(gives) \in Nat /\ Len(gives) # 0 /\ Context \in Nat
    BY <1>5, CpuExecutorAssumption
  <2> QED BY <1>5, <2>1
<1> QED BY <1>1, <1>5, <1>6 DEF Answer

LEMMA Stutters ==
  ASSUME UNCHANGED <<model, reported>>
  PROVE  UNCHANGED Contract!executorVars
BY DEF Contract!executorVars, Loaded

LEMMA ErrorIsAllowed ==
  ASSUME NEW gives, NEW at, NEW drafted, NEW whole,
         reported = Answer(gives, at, drafted, whole), AnswerError
  PROVE  Contract!CommitErr
<1>1. /\ reported'.position = at /\ reported'.pending = 0 /\ reported'.state = "partial"
      /\ reported.position = at /\ model' = model
  BY DEF Answer, AnswerError
<1> QED BY <1>1 DEF Contract!CommitErr, Loaded

LEMMA ReportIs ==
  ASSUME CpuInv, call.method # "none" \/ session.status # "lost"
  PROVE  \E gives, at, drafted, whole : reported = Answer(gives, at, drafted, whole)
<1>1. reported = Untouched => reported = Answer(<< >>, 0, 0, "whole")
  BY DEF Untouched, Answer
<1>2. CASE IdleInv
  <2>1. CASE session.status = "none"
    BY <1>1, <1>2, <2>1 DEF IdleInv
  <2>2. CASE session.status = "open"
    <3>1. OpenInv
      BY <1>2, <2>2 DEF IdleInv
    <3>2. reported = Answer(reported.tokens, Len(reported.tokens), Len(pending), "whole")
      BY <3>1 DEF OpenInv, Answer
    <3> QED BY <3>2
  <2>3. session.status # "lost"
    BY <1>2 DEF IdleInv, IdleCall
  <2>4. session.status \in {"none", "open", "lost"}
    BY DEF CpuInv
  <2> QED BY <2>1, <2>2, <2>3, <2>4
<1>3. CASE ConsumingInv
  BY <1>1, <1>3 DEF ConsumingInv, Answer
<1>4. CASE SpeculatingInv
  BY <1>4 DEF SpeculatingInv, Answer
<1> QED BY <1>2, <1>3, <1>4 DEF CpuInv

LEMMA ErrorStep ==
  ASSUME CpuInv, AnswerError, call.method # "none" \/ session.status # "lost"
  PROVE  Contract!ContractNext
<1>1. PICK gives, at, drafted, whole : reported = Answer(gives, at, drafted, whole)
  BY ReportIs
<1>2. Contract!CommitErr
  BY <1>1, ErrorIsAllowed
<1> QED BY <1>2 DEF Contract!ContractNext

LEMMA ContractStep ==
  CpuInv /\ CpuInv' /\ [CpuNext]_<<vars, executorVars>>
    => [Contract!ContractNext]_(Contract!executorVars)
<1> SUFFICES ASSUME CpuInv, CpuInv', [CpuNext]_<<vars, executorVars>>
             PROVE  [Contract!ContractNext]_(Contract!executorVars)
  OBVIOUS
<1>0. ASSUME UNCHANGED <<model, reported>>
      PROVE  [Contract!ContractNext]_(Contract!executorVars)
  BY <1>0, Stutters
<1>1. CASE UNCHANGED executorVars
  BY <1>0, <1>1 DEF executorVars, methodVars
<1>2. CASE Load
  <2>1. /\ ~Loaded /\ reported = Untouched /\ reported' = reported /\ model' = "resident"
    BY <1>2, NotLoadedYet DEF Load, IdleInv
  <2>2. Contract!LoadOk
    BY <2>1 DEF Contract!LoadOk, Loaded, Untouched
  <2> QED BY <2>2 DEF Contract!ContractNext
<1>3. CASE Warmup
  <2>1. model = "resident" /\ model' = "warm" /\ reported' = reported
    BY <1>3 DEF Warmup
  <2>2. Contract!WarmupOk
    BY <2>1 DEF Contract!WarmupOk, Loaded
  <2> QED BY <2>2 DEF Contract!ContractNext
<1>4. CASE ResetSession
  <2>1. model' = model /\ reported' = Untouched
    BY <1>4 DEF ResetSession
  <2>2. Contract!ResetOk
    BY <2>1 DEF Contract!ResetOk, Loaded, Untouched
  <2> QED BY <2>2 DEF Contract!ContractNext
<1>5. CASE Unload
  <2>1. model' = "unloaded" /\ reported' = Untouched
    BY <1>5 DEF Unload
  <2>2. Contract!UnloadDrops(FALSE)
    BY <2>1 DEF Contract!UnloadDrops, Loaded, Untouched
  <2> QED BY <2>2 DEF Contract!ContractNext
<1>6. CASE Prefill
  BY <1>0, <1>6 DEF Prefill
<1>7. CASE PrefillToken
  <2>1. CASE Continue([call EXCEPT !.todo = Tail(@)])
    BY <1>0, <2>1 DEF Continue
  <2>2. CASE AnswerOk(call.gives)
    <3>1. PICK gives : gives = call.gives
      OBVIOUS
    <3>2. AnswerOk(gives)
      BY <2>2, <3>1 DEF AnswerOk
    <3>3. /\ reported' = Answer(gives, Len(gives), Len(pending'), "whole")
          /\ Len(gives) \in 1 .. Context /\ model' = model
      BY <3>2, Answered
    <3>4. /\ reported = Untouched /\ model = "warm" /\ pending = << >>
          /\ pending' = pending
      <4>1. model = "warm" /\ ConsumingInv /\ call.method = "prefill"
        BY <1>7, IsConsuming DEF PrefillToken
      <4> QED BY <1>7, <4>1 DEF ConsumingInv, PrefillToken
    <3>5. Len(pending') = 0
      BY <3>4
    <3>6. Contract!PrefillFresh(Len(gives))
      BY <3>3, <3>4, <3>5 DEF Contract!PrefillFresh, Contract!PrefillOk, Answer, Untouched,
                              Loaded
    <3> QED BY <3>3, <3>6 DEF Contract!ContractNext
  <2> QED BY <1>7, <2>1, <2>2 DEF PrefillToken
<1>8. CASE Decode
  BY <1>0, <1>8 DEF Decode, Continue
<1>9. CASE DecodeToken
  <2>1. CASE session.mtp
    BY <1>0, <1>9, <2>1 DEF DecodeToken, Continue
  <2>2. CASE ~session.mtp
    <3>1. PICK gives : gives = call.gives
      OBVIOUS
    <3>2. AnswerOk(gives)
      BY <1>9, <2>2, <3>1 DEF AnswerOk, DecodeToken
    <3>3. /\ reported' = Answer(gives, Len(gives), Len(pending'), "whole")
          /\ Len(gives) \in 1 .. Context /\ model' = model
          /\ Len(gives) + Len(pending') <= Context
      BY <3>2, Answered
    <3>4. model = "warm" /\ ConsumingInv /\ call.method = "decode"
      BY <1>9, IsConsuming DEF DecodeToken
    <3>5. PICK done \in Seq(Values) :
            /\ reported = Answer(done, Len(done), 0, "whole")
            /\ gives = done \o call.todo /\ Len(call.todo) = 1
      BY <3>1, <3>4 DEF ConsumingInv, Answer
    <3>6. /\ pending' = << >> /\ Len(pending') = 0
      BY <1>9, <3>4 DEF ConsumingInv, DecodeToken
    <3>7. Len(gives) = Len(done) + 1 /\ Len(done) \in Nat
      <4>1. call.todo \in Seq(Values) /\ call.todo # << >>
        BY <3>4 DEF ConsumingInv, CpuInv, Calls
      <4>2. Len(done \o call.todo) = Len(done) + Len(call.todo) /\ Len(done) \in Nat
        BY ONLY <4>1, done \in Seq(Values), HeadFirst
      <4> QED BY <3>5, <4>2
    <3>8. Len(done) + 1 + 0 <= Context
      BY <3>3, <3>7
    <3>9. /\ reported.position = Len(done) /\ reported.pending = 0
          /\ reported.state = "whole" /\ reported'.position = Len(done) + 1
          /\ reported'.pending = 0 /\ reported'.state = "whole"
      BY <3>3, <3>5, <3>6, <3>7 DEF Answer
    <3>10. Contract!DecodeOk(FALSE, 0)
      BY <3>3, <3>4, <3>8, <3>9 DEF Contract!DecodeOk, Loaded
    <3>11. 0 \in 0 .. MaximumDrafts
      BY CpuExecutorAssumption
    <3> QED BY <3>10, <3>11 DEF Contract!ContractNext
  <2> QED BY <2>1, <2>2
<1>10. CASE DecodeDraft
  <2>1. model = "warm" /\ SpeculatingInv
    BY <1>10, IsSpeculating DEF DecodeDraft
  <2>2. PICK candidates : \E candidate \in Values :
           /\ candidates = Append(call.candidates, candidate)
           /\ IF MoreDrafts(candidates)
              THEN UNCHANGED <<model, reported>>
              ELSE pending' = candidates /\ AnswerOk(call.gives)
    BY <1>10 DEF DecodeDraft, Continue
  <2>3. CASE MoreDrafts(candidates)
    BY <1>0, <2>2, <2>3
  <2>4. CASE ~MoreDrafts(candidates)
    <3>1. PICK gives : gives = call.gives
      OBVIOUS
    <3>2. AnswerOk(gives) /\ pending' = candidates
      BY <2>2, <2>4, <3>1 DEF AnswerOk
    <3>3. /\ reported' = Answer(gives, Len(gives), Len(candidates), "whole")
          /\ Len(gives) \in 1 .. Context /\ model' = model
          /\ Len(gives) + Len(candidates) <= Context
      BY <3>2, Answered
    <3>4. PICK before : reported = Answer(before, Len(gives) - 1, 0, "whole")
      BY <2>1, <3>1 DEF SpeculatingInv, Answer
    <3>5. Len(candidates) \in 1 .. MaximumDrafts
      <4>1. call.candidates \in Seq(Values) /\ Len(call.candidates) < drafts
        BY <2>1 DEF CpuInv, Calls, SpeculatingInv
      <4>2. Len(candidates) = Len(call.candidates) + 1 /\ Len(call.candidates) \in Nat
        BY <2>2, <4>1
      <4>3. drafts \in 0 .. MaximumDrafts /\ MaximumDrafts \in Nat
        BY CpuExecutorAssumption DEF CpuInv, CpuTypeOK
      <4> QED BY <4>1, <4>2, <4>3
    <3> DEFINE g == Len(gives)
               d == Len(candidates)
    <3>6. /\ g \in Nat /\ d \in Nat /\ g + d <= Context
          /\ d \in 1 .. MaximumDrafts /\ d \in 0 .. MaximumDrafts
      <4>1. Context \in Nat /\ MaximumDrafts \in Nat
        BY CpuExecutorAssumption
      <4> QED BY <3>3, <3>5, <4>1
    <3>7. /\ reported.position = g - 1 /\ reported.pending = 0
          /\ reported.state = "whole" /\ reported'.position = g
          /\ reported'.pending = d /\ reported'.state = "whole"
      BY <3>3, <3>4 DEF Answer
    <3> HIDE DEF g, d
    <3>8. g - 1 + 1 = g /\ g - 1 + 1 + d <= Context
      BY <3>6
    <3>9. Contract!DecodeOk(TRUE, d)
      BY <2>1, <3>3, <3>6, <3>7, <3>8 DEF Contract!DecodeOk, Loaded
    <3> QED BY <3>6, <3>9 DEF Contract!ContractNext
  <2> QED BY <2>3, <2>4
<1>11. CASE CommitSpeculative
  <2>1. /\ model = "warm" /\ OpenInv /\ pending # << >> /\ pending' = << >>
    BY <1>11, IsIdle DEF CommitSpeculative, InSession, IdleInv
  <2>2. AnswerOk(reported.tokens) \/ UNCHANGED <<model, reported>>
    BY <1>11 DEF CommitSpeculative, Continue
  <2>3. CASE AnswerOk(reported.tokens)
    <3>1. PICK gives : gives = reported.tokens
      OBVIOUS
    <3>2. AnswerOk(gives)
      BY <2>3, <3>1 DEF AnswerOk
    <3>3. /\ reported' = Answer(gives, Len(gives), Len(pending'), "whole")
          /\ model' = model /\ Len(gives) \in 1 .. Context
      BY <3>2, Answered
    <3>4. reported = Answer(gives, Len(gives), Len(pending), "whole")
      BY <2>1, <3>1 DEF OpenInv, Answer
    <3>5. Len(pending') = 0 /\ Len(pending) \in Nat \ {0} /\ Len(gives) \in Nat
          /\ 0 \in 0 .. MaximumDrafts
      <4>1. pending \in Seq(Values) /\ Context \in Nat /\ MaximumDrafts \in Nat
        BY CpuExecutorAssumption DEF CpuInv, CpuTypeOK
      <4> QED BY <2>1, <3>3, <4>1
    <3>6. /\ reported.position = Len(gives) /\ reported.pending = Len(pending)
          /\ reported.state = "whole" /\ reported'.position = Len(gives)
          /\ reported'.pending = 0 /\ reported'.state = "whole"
      BY <3>3, <3>4, <3>5 DEF Answer
    <3>7. Len(gives) + 0 = Len(gives) /\ 0 <= Len(pending) /\ Len(pending) > 0
      BY <3>5
    <3>8. Contract!CommitOk(0)
      BY <2>1, <3>3, <3>6, <3>7 DEF Contract!CommitOk, Loaded
    <3> QED BY <3>5, <3>8 DEF Contract!ContractNext
  <2> QED BY <1>0, <2>2, <2>3
<1>12. CASE CommitToken
  <2>1. CASE Continue([call EXCEPT !.todo = Tail(@)])
    BY <1>0, <2>1 DEF Continue
  <2>2. CASE AnswerOk(call.gives)
    <3>1. PICK gives : gives = call.gives
      OBVIOUS
    <3>2. AnswerOk(gives)
      BY <2>2, <3>1 DEF AnswerOk
    <3>3. /\ reported' = Answer(gives, Len(gives), Len(pending'), "whole")
          /\ model' = model /\ Len(gives) \in 1 .. Context
      BY <3>2, Answered
    <3>4. model = "warm" /\ ConsumingInv /\ call.method = "commit"
      BY <1>12, IsConsuming DEF CommitToken
    <3>5. PICK before \in Seq(Values), branch \in Nat :
            /\ reported = Answer(before, Len(before), branch, "whole")
            /\ Len(before) < Len(gives) /\ Len(gives) <= Len(before) + branch
            /\ branch <= MaximumDrafts
      BY <3>1, <3>4 DEF ConsumingInv, Answer
    <3>6. pending' = << >> /\ Len(pending') = 0
      BY <1>12, <3>4 DEF ConsumingInv, CommitToken
    <3> DEFINE g == Len(gives)
               b == Len(before)
               k == g - b
    <3>7. g \in Nat /\ b \in Nat /\ b < g /\ g <= b + branch
      <4>1. Context \in Nat
        BY CpuExecutorAssumption
      <4> QED BY <3>3, <3>5, <4>1
    <3>8. /\ reported.position = b /\ reported.pending = branch
          /\ reported.state = "whole" /\ reported'.position = g
          /\ reported'.pending = 0 /\ reported'.state = "whole"
      BY <3>3, <3>5, <3>6 DEF Answer
    <3> HIDE DEF g, b
    <3>9. k \in 0 .. MaximumDrafts /\ k <= branch /\ branch > 0 /\ b + k = g
      BY <3>5, <3>7, CpuExecutorAssumption
    <3> HIDE DEF k
    <3>10. Contract!CommitOk(k)
      BY <3>3, <3>4, <3>8, <3>9 DEF Contract!CommitOk, Loaded
    <3> QED BY <3>9, <3>10 DEF Contract!ContractNext
  <2> QED BY <1>12, <2>1, <2>2 DEF CommitToken
<1>13. CASE Refused
  BY <1>13, ErrorStep DEF Refused, CanDecode, InSession
<1>14. CASE Cancelled
  BY <1>14, ErrorStep DEF Cancelled
<1>15. CASE Fails
  BY <1>15, ErrorStep DEF Fails
<1> QED BY <1>1, <1>2, <1>3, <1>4, <1>5, <1>6, <1>7, <1>8, <1>9, <1>10, <1>11, <1>12, <1>13,
           <1>14, <1>15 DEF CpuNext, ExecutorNext

(* CpuCorrectnessExecutor answers as the ModelExecutor trait promises the   *)
(* engine, for every context, policy, draft depth and prompt: one token and *)
(* a branch that fits for a decode, exactly the accepted prefix for a       *)
(* commit, no residue after an unload.                                      *)
THEOREM CpuImplementsExecutor == CpuSpec => ImplementsExecutor
<1>1. Init /\ ExecutorInit => Contract!ExecutorInit
  BY DEF ExecutorInit, Contract!ExecutorInit, Untouched, Loaded
<1> QED BY <1>1, ContractStep, CpuInvHolds, PTL
        DEF CpuSpec, CpuInit, ImplementsExecutor, Contract!ContractSpec

=============================================================================
