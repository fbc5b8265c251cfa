------------------------- MODULE KvRetentionProofs -------------------------
(***************************************************************************)
(* The retention contract keeps sink and window at Q4: what every store    *)
(* that implements KvRetention inherits, for every policy.                 *)
(***************************************************************************)
EXTENDS KvRetention, TLAPS

(* A sequence of stored tokens whose reduced ones are all uncovered. *)
Kept(s) ==
    /\ s \in Seq(StoredToken)
    /\ \A i \in DOMAIN s : s[i].precision = Q2 => i \in Outside(Len(s))

(* A branch could be rolled back at any time, so the tokens it saved have   *)
(* to satisfy the same as those held.                                       *)
RetentionInv ==
    /\ TypedPolicy
    /\ Kept(held)
    /\ branch # << >> => Kept(branch[1])

LEMMA EmptyIsKept == Kept(<< >>)
BY DEF Kept

(* Whatever uncovered tokens an append reduces, what is held afterwards is  *)
(* kept: a token uncovered before is uncovered in a longer store.           *)
LEMMA PushKeeps ==
    ASSUME TypedPolicy, Kept(held), NEW value \in Values,
           NEW which \in SUBSET Outside(Len(held) + 1)
    PROVE  Kept(Reduced(Append(held, [value |-> value, precision |-> Q4]), which))
<1> DEFINE new == [value |-> value, precision |-> Q4]
           n == Len(held) + 1
           written == Append(held, new)
           after == Reduced(written, which)
<1>1. held \in Seq(StoredToken) /\ new \in StoredToken /\ n \in Nat
  BY DEF Kept, StoredToken
<1>2. /\ written \in Seq(StoredToken) /\ Len(written) = n
      /\ DOMAIN written = 1 .. n
  BY <1>1
<1>3. \A i \in 1 .. n : written[i] \in StoredToken
  BY <1>2
<1>4. \A i \in 1 .. n : [written[i] EXCEPT !.precision = Q2] \in StoredToken
  BY <1>3 DEF StoredToken
<1>5. after = [i \in 1 .. n |-> IF i \in which
                                THEN [written[i] EXCEPT !.precision = Q2]
                                ELSE written[i]]
  BY <1>2 DEF Reduced
<1>6. after \in [1 .. n -> StoredToken]
  BY <1>3, <1>4, <1>5
<1>7. after \in Seq(StoredToken) /\ Len(after) = n /\ DOMAIN after = 1 .. n
  BY <1>1, <1>6
<1>8. ASSUME NEW i \in 1 .. n, after[i].precision = Q2
      PROVE  i \in Outside(n)
  <2>1. CASE i \in which
    BY <2>1
  <2>2. CASE i \notin which
    <3>1. written[i].precision = Q2
      BY <1>5, <1>8, <2>2
    <3>2. i # n
      BY <1>1, <3>1 DEF Q2, Q4
    <3>3. i \in DOMAIN held /\ written[i] = held[i]
      BY <1>1, <3>2
    <3>4. i \in Outside(Len(held))
      BY <3>1, <3>3 DEF Kept
    <3> QED BY <1>1, <3>4 DEF Outside, TypedPolicy
  <2> QED BY <2>1, <2>2
<1> QED BY <1>7, <1>8 DEF Kept

LEMMA RetentionStep == RetentionInv /\ [Next]_vars => RetentionInv'
<1> SUFFICES ASSUME RetentionInv, [Next]_vars PROVE RetentionInv'
  OBVIOUS
<1> USE DEF RetentionInv
<1>1. CASE UNCHANGED vars
  BY <1>1 DEF vars, Kept, Outside, TypedPolicy
<1>2. ASSUME NEW value \in Values, Push(value) PROVE RetentionInv'
  <2>1. PICK which \in SUBSET Outside(Len(held) + 1) :
          held' = Reduced(Append(held, [value |-> value, precision |-> Q4]), which)
    BY <1>2 DEF Push
  <2>2. Kept(Reduced(Append(held, [value |-> value, precision |-> Q4]), which))
    BY PushKeeps
  <2>3. UNCHANGED <<policy, branch>>
    BY <1>2 DEF Push
  <2> QED BY <2>1, <2>2, <2>3 DEF Kept, Outside, TypedPolicy
<1>3. CASE Break
  BY <1>3, EmptyIsKept DEF Break, Kept, Outside, TypedPolicy
<1>4. CASE Begin
  BY <1>4 DEF Begin, Kept, Outside, TypedPolicy
<1>5. CASE Rollback
  BY <1>5 DEF Rollback, Kept, Outside, TypedPolicy
<1>6. CASE Commit
  BY <1>6 DEF Commit, Kept, Outside, TypedPolicy
<1>7. CASE Reset
  BY <1>7, EmptyIsKept DEF Reset, Kept, Outside, TypedPolicy
<1> QED BY <1>1, <1>2, <1>3, <1>4, <1>5, <1>6, <1>7 DEF Next

(* In the sink and in the recent window every token reads at the precision  *)
(* it was written with, through branches, rollbacks, failures and resets,   *)
(* for every policy ("a page becomes Q2 only after every token in it has    *)
(* left the recent window").                                                *)
THEOREM WindowStaysQ4 == Spec => []WindowKeepsQ4
<1>1. Init => RetentionInv
  BY EmptyIsKept DEF Init, RetentionInv
<1>2. RetentionInv => WindowKeepsQ4
  BY DEF RetentionInv, Kept, WindowKeepsQ4
<1> QED BY <1>1, <1>2, RetentionStep, PTL DEF Spec

=============================================================================
