------------------------- MODULE MixedKvCacheProofs -------------------------
(***************************************************************************)
(* Proofs about MixedKvCache, for every capacity and every admitted        *)
(* policy.                                                                 *)
(***************************************************************************)
EXTENDS MixedKvCache, TLAPS

Token == [value : Values, precision : {Q2, Q4}]

MixedInv ==
    /\ policy \in Policies /\ Admitted(policy)
    /\ tokens \in Seq(Token)
    /\ PrecisionIsExact

(* What an append stores and requantizes, in terms of the length it reaches *)
(* and whatever the alignment of sink and window.                           *)
LEMMA Requantizing ==
    ASSUME policy \in Policies, tokens \in Seq(Token),
           NEW value \in Values
    PROVE  LET book == Append(tokens, [value |-> value, precision |-> Q4])
           IN  /\ Requantized(book) \in Seq(Token)
               /\ Len(Requantized(book)) = Len(tokens) + 1
               /\ DOMAIN Requantized(book) = 1 .. Len(tokens) + 1
               /\ \A i \in 1 .. Len(tokens) + 1 :
                    Requantized(book)[i] =
                      IF i = Candidate(Len(tokens) + 1) /\ i > policy.sink_tokens
                      THEN [book[i] EXCEPT !.precision = Q2] ELSE book[i]
<1> DEFINE book == Append(tokens, [value |-> value, precision |-> Q4])
           n == Len(tokens) + 1
<1>1. /\ book \in Seq(Token) /\ Len(book) = n /\ DOMAIN book = 1 .. n /\ n \in Nat
  BY DEF Token, Q4
<1>2. \A i \in 1 .. n : book[i] \in Token
  BY <1>1
<1>3. \A i \in 1 .. n : [book[i] EXCEPT !.precision = Q2] \in Token
  BY <1>2 DEF Token, Q2
<1>4. Requantized(book) = [i \in 1 .. n |->
          IF i = Candidate(n) /\ i > policy.sink_tokens
          THEN [book[i] EXCEPT !.precision = Q2] ELSE book[i]]
  BY <1>1 DEF Requantized
<1>5. Requantized(book) \in [1 .. n -> Token]
  BY <1>2, <1>3, <1>4
<1>6. Requantized(book) \in Seq(Token) /\ Len(Requantized(book)) = n
  BY <1>1, <1>5
<1> QED BY <1>1, <1>4, <1>6

LEMMA InitInv == Init => MixedInv
BY DEF Init, MixedInv, PrecisionIsExact

LEMMA NextInv == MixedInv /\ [Next]_vars => MixedInv'
<1> SUFFICES ASSUME MixedInv, [Next]_vars PROVE MixedInv'
  OBVIOUS
<1>1. CASE UNCHANGED vars
  BY <1>1 DEF vars, MixedInv, PrecisionIsExact, Admitted
<1>2. ASSUME NEW value \in Values, Push(value) PROVE MixedInv'
  <2> DEFINE book == Append(tokens, [value |-> value, precision |-> Q4])
             n == Len(tokens) + 1
  <2>1. policy' = policy /\ tokens' = Requantized(book)
    BY <1>2 DEF Push
  <2>2. policy \in Policies /\ tokens \in Seq(Token) /\ n \in Nat
    BY DEF MixedInv
  <2>3. tokens' \in Seq(Token) /\ Len(tokens') = n /\ DOMAIN (tokens') = 1 .. n
    BY <2>1, <2>2, Requantizing
  <2>4. policy.sink_tokens \in Nat /\ policy.recent_tokens \in Nat
    BY <2>2, CapacityAssumption DEF Policies
  <2>5. ASSUME NEW i \in 1 .. n
        PROVE  tokens'[i].precision = Q2 <=> /\ i > policy.sink_tokens
                                             /\ i + policy.recent_tokens <= n
    <3>1. tokens'[i] = IF i = Candidate(n) /\ i > policy.sink_tokens
                       THEN [book[i] EXCEPT !.precision = Q2] ELSE book[i]
      BY <2>1, <2>2, Requantizing
    <3>2. book \in Seq(Token) /\ DOMAIN book = 1 .. n /\ book[i] \in Token
      <4>1. [value |-> value, precision |-> Q4] \in Token
        BY DEF Token
      <4>2. book \in Seq(Token) /\ DOMAIN book = 1 .. n
        BY <2>2, <4>1
      <4> QED BY <4>2
    <3>3. CASE i = n
      <4>1. book[i].precision = Q4
        BY <2>2, <3>3
      <4>2. i = Candidate(n) <=> i + policy.recent_tokens <= n
        BY <2>2, <2>4, <3>3 DEF Candidate
      <4> QED BY <2>2, <2>4, <3>1, <3>2, <4>1, <4>2 DEF Token, Q2, Q4
    <3>4. CASE i < n
      <4>1. i \in DOMAIN tokens /\ book[i] = tokens[i]
        BY <2>2, <3>4
      <4>2. tokens[i].precision = Q2 <=> /\ i > policy.sink_tokens
                                         /\ i + policy.recent_tokens <= n - 1
        BY <2>2, <4>1 DEF MixedInv, PrecisionIsExact
      <4>3. i + policy.recent_tokens <= n <=>
                i + policy.recent_tokens <= n - 1 \/ i = Candidate(n)
        BY <2>2, <2>4, <3>4 DEF Candidate
      <4> QED BY <2>2, <2>4, <3>1, <3>2, <4>1, <4>2, <4>3 DEF Token, Q2, Q4
    <3> QED BY <2>2, <3>3, <3>4
  <2>6. PrecisionIsExact'
    BY <2>1, <2>3, <2>5 DEF PrecisionIsExact, Q2
  <2> QED BY <2>1, <2>3, <2>6 DEF MixedInv, Admitted
<1> QED BY <1>1, <1>2 DEF Next

(* At every length exactly the tokens between the sink and the recent       *)
(* window are at Q2 (MixedKvCache::push), for every admitted policy.        *)
THEOREM PrecisionStaysExact == Spec => []PrecisionIsExact
<1>1. MixedInv => PrecisionIsExact
  BY DEF MixedInv
<1> QED BY <1>1, InitInv, NextInv, PTL DEF Spec

(* Every append of MixedKvCache is one the retention contract allows, for   *)
(* every admitted policy.                                                   *)
THEOREM MixedImplementsRetention == Spec => ImplementsRetention
<1>1. Init => Retention!Init
  BY CapacityAssumption DEF Init, Policies, Retention!Init, Retention!TypedPolicy
<1>2. MixedInv /\ [Next]_vars => [Retention!Next]_(Retention!vars)
  <2> SUFFICES ASSUME MixedInv, [Next]_vars
               PROVE  [Retention!Next]_(Retention!vars)
    OBVIOUS
  <2>1. CASE UNCHANGED vars
    BY <2>1 DEF vars, Retention!vars
  <2>2. ASSUME NEW value \in Values, Push(value) PROVE Retention!Push(value)
    <3> DEFINE book == Append(tokens, [value |-> value, precision |-> Q4])
               n == Len(tokens) + 1
               which == {i \in {Candidate(n)} : i > policy.sink_tokens}
    <3>1. policy \in Policies /\ tokens \in Seq(Token) /\ n \in Nat
      BY DEF MixedInv
    <3>2. policy.sink_tokens \in Nat /\ policy.recent_tokens \in Nat
      BY <3>1, CapacityAssumption DEF Policies
    <3>3. which \in SUBSET Retention!Outside(n)
      BY <3>1, <3>2 DEF Candidate, Retention!Outside
    <3>4. DOMAIN book = 1 .. n
      BY <3>1
    <3>5. tokens' = Retention!Reduced(book, which)
      BY <2>2, <3>1, <3>4 DEF Push, Requantized, Retention!Reduced, Q2, Retention!Q2
    <3>6. Retention!Q4 = Q4
      BY DEF Retention!Q4, Q4
    <3> QED BY <2>2, <3>3, <3>5, <3>6 DEF Push, Retention!Push
  <2> QED BY <2>1, <2>2 DEF Next, Retention!Next
<1> QED BY <1>1, <1>2, InitInv, NextInv, PTL DEF Spec, ImplementsRetention, Retention!Spec

=============================================================================
