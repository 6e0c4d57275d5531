------------------------- MODULE FixedSearch_proofs -------------------------
(***************************************************************************)
(* The binary searches are right on every ascending array of keys.  The    *)
(* invariant is the usual one: what is left of lo is below the key, what   *)
(* is right of hi is above.                                                 *)
(***************************************************************************)
EXTENDS FixedSearch, TLAPS

(* What keys[i] must satisfy to be left of the position looked for.        *)
Before(k) == IF layout = "leaf" THEN k < key ELSE k <= key

Bracket ==
  /\ \A i \in 1 .. lo : Before(keys[i])
  /\ \A i \in hi + 1 .. Len(keys) : keys[i] > key
  /\ pc = "loop" => ~found
  /\ pc = "done" /\ ~found => idx = lo /\ lo = hi
  /\ pc = "done" /\ found =>
       layout = "leaf" /\ idx < Len(keys) /\ keys[idx + 1] = key

IInv == TypeOK /\ Bracket

-----------------------------------------------------------------------------
LEMMA KeysAreInts ==
  ASSUME NEW s \in Seq(Key)
  PROVE  \A i \in 1 .. Len(s) : s[i] \in Int
<1>1. \A i \in 1 .. Len(s) : s[i] \in Key
  OBVIOUS
<1>2. Key \subseteq Int
  BY DEF Key
<1> QED  BY <1>1, <1>2

(* There is only one position with the lower keys before it. *)
LEMMA LowerIdxUnique ==
  ASSUME NEW s \in Seq(Key), NEW k \in Key, NEW p \in 0 .. Len(s),
         \A j \in 1 .. p : s[j] < k, p < Len(s) => s[p + 1] >= k
  PROVE  LowerIdx(s, k) = p
<1> DEFINE P(i) == /\ \A j \in 1 .. i : s[j] < k
                   /\ i < Len(s) => s[i + 1] >= k
<1>1. P(p)  OBVIOUS
<1>2. ASSUME NEW i \in 0 .. Len(s), P(i) PROVE i = p
  <2>1. \A j \in 1 .. Len(s) : s[j] \in Int
    BY KeysAreInts
  <2>2. k \in Int
    BY DEF Key
  <2>3. ~(i < p)
    <3> SUFFICES ASSUME i < p PROVE FALSE
      OBVIOUS
    <3>1. i + 1 \in 1 .. p /\ i < Len(s) /\ i + 1 \in 1 .. Len(s)
      OBVIOUS
    <3>2. s[i + 1] < k /\ s[i + 1] >= k
      BY <1>2, <3>1
    <3> QED  BY <2>1, <2>2, <3>1, <3>2
  <2>4. ~(p < i)
    <3> SUFFICES ASSUME p < i PROVE FALSE
      OBVIOUS
    <3>1. p + 1 \in 1 .. i /\ p < Len(s) /\ p + 1 \in 1 .. Len(s)
      OBVIOUS
    <3>2. s[p + 1] < k /\ s[p + 1] >= k
      BY <1>1, <1>2, <3>1
    <3> QED  BY <2>1, <2>2, <3>1, <3>2
  <2> QED  BY <2>3, <2>4
<1>3. LowerIdx(s, k) = CHOOSE i \in 0 .. Len(s) : P(i)
  BY DEF LowerIdx
<1> QED  BY <1>1, <1>2, <1>3

LEMMA UpperIdxUnique ==
  ASSUME NEW s \in Seq(Key), NEW k \in Key, NEW p \in 0 .. Len(s),
         \A j \in 1 .. p : s[j] <= k, p < Len(s) => s[p + 1] > k
  PROVE  UpperIdx(s, k) = p
<1> DEFINE P(i) == /\ \A j \in 1 .. i : s[j] <= k
                   /\ i < Len(s) => s[i + 1] > k
<1>1. P(p)  OBVIOUS
<1>2. ASSUME NEW i \in 0 .. Len(s), P(i) PROVE i = p
  <2>1. \A j \in 1 .. Len(s) : s[j] \in Int
    BY KeysAreInts
  <2>2. k \in Int
    BY DEF Key
  <2>3. ~(i < p)
    <3> SUFFICES ASSUME i < p PROVE FALSE
      OBVIOUS
    <3>1. i + 1 \in 1 .. p /\ i < Len(s) /\ i + 1 \in 1 .. Len(s)
      OBVIOUS
    <3>2. s[i + 1] <= k /\ s[i + 1] > k
      BY <1>2, <3>1
    <3> QED  BY <2>1, <2>2, <3>1, <3>2
  <2>4. ~(p < i)
    <3> SUFFICES ASSUME p < i PROVE FALSE
      OBVIOUS
    <3>1. p + 1 \in 1 .. i /\ p < Len(s) /\ p + 1 \in 1 .. Len(s)
      OBVIOUS
    <3>2. s[p + 1] <= k /\ s[p + 1] > k
      BY <1>1, <1>2, <3>1
    <3> QED  BY <2>1, <2>2, <3>1, <3>2
  <2> QED  BY <2>3, <2>4
<1>3. UpperIdx(s, k) = CHOOSE i \in 0 .. Len(s) : P(i)
  BY DEF UpperIdx
<1> QED  BY <1>1, <1>2, <1>3

-----------------------------------------------------------------------------
LEMMA MiddleBounds ==
  ASSUME TypeOK, lo < hi
  PROVE  Middle \in Nat /\ lo <= Middle /\ Middle < hi
BY DEF TypeOK, Middle

LEMMA InitIInv == Init => IInv
<1> SUFFICES ASSUME Init PROVE IInv
  OBVIOUS
<1>1. keys \in Seq(Key) /\ Ascending(keys) /\ Len(keys) \in Nat
  BY ArraysAssumption DEF Init
<1>2. lo = 0 /\ hi = Len(keys) /\ pc = "loop" /\ idx = 0 /\ found = FALSE
  BY DEF Init
<1>3. TypeOK
  <2>1. lo \in Nat /\ hi \in Nat /\ lo <= hi /\ hi <= Len(keys) /\ idx \in Nat
    BY <1>1, <1>2
  <2> QED  BY <1>1, <1>2, <2>1, Zenon DEF Init, TypeOK
<1>4. Bracket
  BY <1>1, <1>2 DEF Bracket
<1> QED  BY <1>3, <1>4 DEF IInv

LEMMA NextIInv == IInv /\ [Next]_vars => IInv'
<1> SUFFICES ASSUME IInv, [Next]_vars PROVE IInv'
  OBVIOUS
<1> USE DEF IInv
<1>0. /\ keys \in Seq(Key) /\ key \in Int /\ lo \in Nat /\ hi \in Nat
      /\ hi <= Len(keys)
      /\ \A i \in 1 .. Len(keys) : keys[i] \in Int
      /\ \A i, j \in 1 .. Len(keys) : i < j => keys[i] < keys[j]
  <2>1. keys \in Seq(Key)
    BY DEF TypeOK
  <2>2. key \in Int
    BY DEF TypeOK, Key
  <2> QED  BY <2>1, <2>2, KeysAreInts DEF TypeOK, Ascending
<1>1. CASE Hit
  BY <1>0, <1>1, MiddleBounds DEF Hit, TypeOK, Bracket, Before, Probe
<1>2. CASE UpperHalf
  <2>1. Middle \in Nat /\ lo <= Middle /\ Middle < hi
    BY <1>2, MiddleBounds DEF UpperHalf
  <2>2. Before(keys[Middle + 1])
    BY <1>2, <1>0 DEF UpperHalf, Probe, Before, TypeOK
  <2>3. \A i \in 1 .. Middle + 1 : Before(keys[i])
    BY <2>1, <2>2, <1>0 DEF Before
  <2> QED  BY <1>2, <2>1, <2>3, <1>0 DEF UpperHalf, TypeOK, Bracket, Before
<1>3. CASE LowerHalf
  <2>1. Middle \in Nat /\ lo <= Middle /\ Middle < hi
    BY <1>3, MiddleBounds DEF LowerHalf
  <2>2. keys[Middle + 1] > key
    BY <1>3 DEF LowerHalf, Probe
  <2>3. \A i \in Middle + 1 .. Len(keys) : keys[i] > key
    BY <2>1, <2>2, <1>0
  <2> QED  BY <1>3, <2>1, <2>3, <1>0 DEF LowerHalf, TypeOK, Bracket, Before
<1>4. CASE Exhausted
  BY <1>4, <1>0 DEF Exhausted, TypeOK, Bracket, Before
<1>5. CASE UNCHANGED vars
  BY <1>5 DEF vars, TypeOK, Bracket, Before
<1> QED  BY <1>1, <1>2, <1>3, <1>4, <1>5 DEF Next, Ended

(* GetIdx of both layouts, for every page and key: what the rest of the    *)
(* project calls LowerIdx and UpperIdx is what the loops compute.          *)
THEOREM BinarySearch == Spec => []SearchCorrect
<1>1. IInv => SearchCorrect
  <2> SUFFICES ASSUME IInv, pc = "done" PROVE SearchCorrect
    BY DEF SearchCorrect
  <2> USE DEF IInv
  <2>0. /\ keys \in Seq(Key) /\ key \in Key /\ key \in Int
        /\ \A i \in 1 .. Len(keys) : keys[i] \in Int
        /\ \A i, j \in 1 .. Len(keys) : i < j => keys[i] < keys[j]
    <3>1. keys \in Seq(Key) /\ key \in Key
      BY DEF TypeOK
    <3>2. key \in Int
      BY DEF TypeOK, Key
    <3> QED  BY <3>1, <3>2, KeysAreInts DEF TypeOK, Ascending
  <2>1. CASE layout = "inter"
    <3>1. idx = lo /\ lo = hi /\ lo \in 0 .. Len(keys)
      BY <2>1 DEF Bracket, TypeOK
    <3>2. \A j \in 1 .. lo : keys[j] <= key
      BY <2>1 DEF Bracket, Before
    <3>3. lo < Len(keys) => keys[lo + 1] > key
      BY <2>0, <2>1, <3>1 DEF Bracket, Before
    <3> QED  BY <2>0, <2>1, <3>1, <3>2, <3>3, UpperIdxUnique DEF SearchCorrect
  <2>2. CASE layout = "leaf" /\ found
    <3>1. idx \in 0 .. Len(keys) /\ idx < Len(keys) /\ keys[idx + 1] = key
      BY <2>2 DEF Bracket, TypeOK
    <3>2. \A j \in 1 .. idx : keys[j] < key
      BY <2>0, <3>1
    <3>3. idx < Len(keys) => keys[idx + 1] >= key
      BY <2>0, <3>1
    <3>4. idx = LowerIdx(keys, key)
      BY <2>0, <3>1, <3>2, <3>3, LowerIdxUnique
    <3> QED  BY <2>2, <3>1, <3>4 DEF SearchCorrect
  <2>3. CASE layout = "leaf" /\ ~found
    <3>1. idx = lo /\ lo = hi /\ lo \in 0 .. Len(keys)
      BY <2>3 DEF Bracket, TypeOK
    <3>2. \A j \in 1 .. lo : keys[j] < key
      BY <2>3 DEF Bracket, Before
    <3>3. \A j \in lo + 1 .. Len(keys) : keys[j] > key
      BY <3>1 DEF Bracket
    <3>4. lo < Len(keys) => keys[lo + 1] >= key
      BY <2>0, <3>1, <3>3
    <3>5. idx = LowerIdx(keys, key)
      BY <2>0, <3>1, <3>2, <3>4, LowerIdxUnique
    <3>6. ~\E i \in 1 .. Len(keys) : keys[i] = key
      BY <2>0, <3>1, <3>2, <3>3
    <3> QED  BY <2>3, <3>5, <3>6 DEF SearchCorrect
  <2> QED  BY <2>1, <2>2, <2>3 DEF TypeOK
<1> QED  BY <1>1, InitIInv, NextIInv, PTL DEF Spec
=============================================================================
