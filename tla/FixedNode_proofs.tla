-------------------------- MODULE FixedNode_proofs --------------------------
(***************************************************************************)
(* What the operations on a node preserve, for every capacity and key      *)
(* type.  The order of the keys is taken weakly and bounded by the high    *)
(* key weakly: this is what holds on every page at all times, whichever    *)
(* page a separator is posted to.                                          *)
(***************************************************************************)
EXTENDS FixedNode, WellFoundedInduction, TLAPS

Sorted(s) == \A i, j \in 1 .. Len(s) : i <= j => s[i] <= s[j]

(* A node in a pool of n pages, with valid page ids wherever the code      *)
(* follows one without a check.                                            *)
NodeOK(node, n) ==
  /\ node \in Node
  /\ Len(node.refs) = Len(node.keys) + RefShift(node)
  /\ node.level > 0 => \A i \in 1 .. Len(node.refs) : node.refs[i] \in 0 .. n - 1
  /\ node.rlink \in (0 .. n - 1) \cup {NoPage}
  /\ node.llink \in (0 .. n - 1) \cup {NoPage}
  /\ Sorted(node.keys)
  /\ \A i \in 1 .. Len(node.keys) : node.keys[i] <= node.high

-----------------------------------------------------------------------------
LEMMA KeyInt == Key \subseteq Int
BY DEF Key

LEMMA SeqKeyInt ==
  ASSUME NEW s \in Seq(Key)
  PROVE  \A i \in 1 .. Len(s) : s[i] \in Key /\ s[i] \in Int
<1>1. \A i \in 1 .. Len(s) : s[i] \in Key
  OBVIOUS
<1> QED  BY <1>1, KeyInt

(* A set of indices that is not empty has a first element. *)
LEMMA FirstIndex ==
  ASSUME NEW T, T \subseteq Nat, T # {}
  PROVE  \E m \in T : \A j \in T : ~(j < m)
<1>1. PICK m \in T : \A j \in T : ~(<<j, m>> \in OpToRel(<, Nat))
  BY NatLessThanWellFounded, WFMin
<1> QED  BY <1>1 DEF OpToRel

LEMMA LowerIdxIs ==
  ASSUME NEW s \in Seq(Key), NEW k \in Key
  PROVE  /\ LowerIdx(s, k) \in 0 .. Len(s)
         /\ \A j \in 1 .. LowerIdx(s, k) : s[j] < k
         /\ LowerIdx(s, k) < Len(s) => s[LowerIdx(s, k) + 1] >= k
<1> DEFINE P(i) == /\ \A j \in 1 .. i : s[j] < k
                   /\ i < Len(s) => s[i + 1] >= k
           T == {i \in 0 .. Len(s) : i = Len(s) \/ s[i + 1] >= k}
<1>1. T \subseteq Nat /\ Len(s) \in T
  OBVIOUS
<1>2. PICK m \in T : \A j \in T : ~(j < m)
  BY <1>1, FirstIndex
<1>3. ASSUME NEW j \in 1 .. m PROVE s[j] < k
  <2>1. j - 1 \in 0 .. Len(s) /\ j - 1 < m /\ j \in 1 .. Len(s)
    OBVIOUS
  <2>2. j - 1 \notin T
    BY <1>2, <2>1
  <2>3. ~(s[j] >= k)
    BY <2>1, <2>2
  <2> QED  BY <2>1, <2>3, SeqKeyInt, KeyInt
<1>4. P(m)
  BY <1>3
<1>5. LowerIdx(s, k) = CHOOSE i \in 0 .. Len(s) : P(i)
  BY DEF LowerIdx
<1> HIDE DEF P
<1>6. LowerIdx(s, k) \in 0 .. Len(s) /\ P(LowerIdx(s, k))
  BY <1>4, <1>5
<1> QED  BY <1>6 DEF P

LEMMA UpperIdxIs ==
  ASSUME NEW s \in Seq(Key), NEW k \in Key
  PROVE  /\ UpperIdx(s, k) \in 0 .. Len(s)
         /\ \A j \in 1 .. UpperIdx(s, k) : s[j] <= k
         /\ UpperIdx(s, k) < Len(s) => s[UpperIdx(s, k) + 1] > k
<1> DEFINE P(i) == /\ \A j \in 1 .. i : s[j] <= k
                   /\ i < Len(s) => s[i + 1] > k
           T == {i \in 0 .. Len(s) : i = Len(s) \/ s[i + 1] > k}
<1>1. T \subseteq Nat /\ Len(s) \in T
  OBVIOUS
<1>2. PICK m \in T : \A j \in T : ~(j < m)
  BY <1>1, FirstIndex
<1>3. ASSUME NEW j \in 1 .. m PROVE s[j] <= k
  <2>1. j - 1 \in 0 .. Len(s) /\ j - 1 < m /\ j \in 1 .. Len(s)
    OBVIOUS
  <2>2. j - 1 \notin T
    BY <1>2, <2>1
  <2>3. ~(s[j] > k)
    BY <2>1, <2>2
  <2> QED  BY <2>1, <2>3, SeqKeyInt, KeyInt
<1>4. P(m)
  BY <1>3
<1>5. UpperIdx(s, k) = CHOOSE i \in 0 .. Len(s) : P(i)
  BY DEF UpperIdx
<1> HIDE DEF P
<1>6. UpperIdx(s, k) \in 0 .. Len(s) /\ P(UpperIdx(s, k))
  BY <1>4, <1>5
<1> QED  BY <1>6 DEF P

-----------------------------------------------------------------------------
LEMMA SubSeqIs ==
  ASSUME NEW S, NEW s \in Seq(S), NEW m \in 1 .. Len(s) + 1, NEW n \in m - 1 .. Len(s)
  PROVE  /\ SubSeq(s, m, n) \in Seq(S)
         /\ Len(SubSeq(s, m, n)) = n - m + 1
         /\ \A j \in 1 .. n - m + 1 : SubSeq(s, m, n)[j] = s[m + j - 1]
OBVIOUS

LEMMA ConcatIs ==
  ASSUME NEW S, NEW a \in Seq(S), NEW b \in Seq(S)
  PROVE  /\ a \o b \in Seq(S)
         /\ Len(a \o b) = Len(a) + Len(b)
         /\ \A j \in 1 .. Len(a) + Len(b) :
              (a \o b)[j] = IF j <= Len(a) THEN a[j] ELSE b[j - Len(a)]
OBVIOUS

LEMMA InsertAtIs ==
  ASSUME NEW S, NEW s \in Seq(S), NEW i \in 1 .. Len(s) + 1, NEW e \in S
  PROVE  /\ InsertAt(s, i, e) \in Seq(S)
         /\ Len(InsertAt(s, i, e)) = Len(s) + 1
         /\ \A j \in 1 .. Len(s) + 1 :
              InsertAt(s, i, e)[j] = IF j < i THEN s[j] ELSE IF j = i THEN e ELSE s[j - 1]
<1> DEFINE a == SubSeq(s, 1, i - 1)
           b == SubSeq(s, i, Len(s))
           c == a \o <<e>>
<1>0. Len(s) \in Nat /\ i \in Nat /\ i >= 1 /\ i <= Len(s) + 1
  OBVIOUS
<1>1. /\ a \in Seq(S) /\ Len(a) = i - 1
      /\ \A j \in 1 .. i - 1 : a[j] = s[j]
  BY SubSeqIs
<1>2. /\ b \in Seq(S) /\ Len(b) = Len(s) - i + 1
      /\ \A j \in 1 .. Len(s) - i + 1 : b[j] = s[i + j - 1]
  BY SubSeqIs
<1>3. <<e>> \in Seq(S) /\ Len(<<e>>) = 1 /\ <<e>>[1] = e
  OBVIOUS
<1> HIDE DEF a, b
<1>4. /\ c \in Seq(S) /\ Len(c) = i
      /\ \A j \in 1 .. i : c[j] = IF j <= i - 1 THEN a[j] ELSE <<e>>[j - (i - 1)]
  BY <1>1, <1>3, ConcatIs
<1>5. \A j \in 1 .. i : c[j] = IF j < i THEN s[j] ELSE e
  BY <1>1, <1>3, <1>4
<1> HIDE DEF c
<1> DEFINE d == c \o b
<1>6. /\ d \in Seq(S) /\ Len(d) = Len(c) + Len(b)
      /\ \A j \in 1 .. Len(c) + Len(b) :
           d[j] = IF j <= Len(c) THEN c[j] ELSE b[j - Len(c)]
  BY <1>2, <1>4, ConcatIs
<1> HIDE DEF d
<1>7. Len(c) + Len(b) = Len(s) + 1
  BY <1>0, <1>2, <1>4
<1>8. ASSUME NEW j \in 1 .. Len(s) + 1
      PROVE d[j] = IF j < i THEN s[j] ELSE IF j = i THEN e ELSE s[j - 1]
  <2>0. j \in Int /\ j >= 1 /\ j <= Len(s) + 1
    BY <1>0
  <2>1. CASE j <= i
    <3>1. d[j] = c[j]
      BY <2>0, <2>1, <1>4, <1>6, <1>7
    <3> QED  BY <3>1, <1>0, <2>0, <2>1, <1>5
  <2>2. CASE j > i
    <3>1. j - i \in 1 .. Len(s) - i + 1 /\ i + (j - i) - 1 = j - 1
      BY <1>0, <2>0, <2>2
    <3>2. d[j] = b[j - i]
      BY <1>0, <2>0, <2>2, <1>4, <1>6, <1>7
    <3> QED  BY <1>0, <2>0, <2>2, <3>1, <3>2, <1>2
  <2> QED  BY <1>0, <2>0, <2>1, <2>2
<1>9. InsertAt(s, i, e) = d
  BY DEF InsertAt, a, b, c, d
<1> QED  BY <1>6, <1>7, <1>8, <1>9

LEMMA RemoveAtIs ==
  ASSUME NEW S, NEW s \in Seq(S), NEW i \in 1 .. Len(s)
  PROVE  /\ RemoveAt(s, i) \in Seq(S)
         /\ Len(RemoveAt(s, i)) = Len(s) - 1
         /\ \A j \in 1 .. Len(s) - 1 :
              RemoveAt(s, i)[j] = IF j < i THEN s[j] ELSE s[j + 1]
<1> DEFINE a == SubSeq(s, 1, i - 1)
           b == SubSeq(s, i + 1, Len(s))
<1>0. Len(s) \in Nat /\ i \in Nat /\ i >= 1 /\ i <= Len(s)
  OBVIOUS
<1>1. /\ a \in Seq(S) /\ Len(a) = i - 1
      /\ \A j \in 1 .. i - 1 : a[j] = s[j]
  BY SubSeqIs
<1>2. /\ b \in Seq(S) /\ Len(b) = Len(s) - i
      /\ \A j \in 1 .. Len(s) - i : b[j] = s[i + j]
  BY SubSeqIs
<1> HIDE DEF a, b
<1> DEFINE d == a \o b
<1>3. /\ d \in Seq(S) /\ Len(d) = Len(a) + Len(b)
      /\ \A j \in 1 .. Len(a) + Len(b) :
           d[j] = IF j <= Len(a) THEN a[j] ELSE b[j - Len(a)]
  BY <1>1, <1>2, ConcatIs
<1> HIDE DEF d
<1>4. Len(a) + Len(b) = Len(s) - 1
  BY <1>0, <1>1, <1>2
<1>5. ASSUME NEW j \in 1 .. Len(s) - 1
      PROVE d[j] = IF j < i THEN s[j] ELSE s[j + 1]
  <2>0. j \in Int /\ j >= 1 /\ j <= Len(s) - 1
    BY <1>0
  <2>1. CASE j < i
    <3>1. d[j] = a[j]
      BY <1>0, <2>0, <2>1, <1>1, <1>3, <1>4
    <3> QED  BY <3>1, <1>0, <2>0, <2>1, <1>1
  <2>2. CASE j >= i
    <3>1. j - (i - 1) \in 1 .. Len(s) - i /\ i + (j - (i - 1)) = j + 1
      BY <1>0, <2>0, <2>2
    <3>2. d[j] = b[j - (i - 1)]
      BY <1>0, <2>0, <2>2, <1>1, <1>3, <1>4
    <3> QED  BY <1>0, <2>0, <2>2, <3>1, <3>2, <1>2
  <2> QED  BY <1>0, <2>0, <2>1, <2>2
<1>6. RemoveAt(s, i) = d
  BY DEF RemoveAt, a, b, d
<1> QED  BY <1>3, <1>4, <1>5, <1>6

-----------------------------------------------------------------------------
(* Sorted arrays: where GetIdx puts a key, and parts of an array.          *)

LEMMA InsertSorted ==
  ASSUME NEW s \in Seq(Key), Sorted(s), NEW k \in Key, NEW p \in 1 .. Len(s) + 1,
         \A j \in 1 .. Len(s) : IF j < p THEN s[j] <= k ELSE s[j] >= k
  PROVE  Sorted(InsertAt(s, p, k))
<1> DEFINE d == InsertAt(s, p, k)
<1>0. Len(s) \in Nat /\ p \in Nat /\ 1 <= p /\ p <= Len(s) + 1 /\ k \in Int
  BY KeyInt
<1>1. /\ Len(d) = Len(s) + 1
      /\ \A j \in 1 .. Len(s) + 1 :
           d[j] = IF j < p THEN s[j] ELSE IF j = p THEN k ELSE s[j - 1]
  BY InsertAtIs
<1>2. \A j \in 1 .. Len(s) : s[j] \in Int
  BY SeqKeyInt
<1> HIDE DEF d
<1>4. ASSUME NEW x \in 1 .. Len(s) + 1, NEW y \in 1 .. Len(s) + 1, x <= y
      PROVE  d[x] <= d[y]
  <2>0. x \in Int /\ y \in Int /\ 1 <= x /\ y <= Len(s) + 1
    BY <1>0
  <2>1. CASE y < p
    BY <1>0, <1>1, <1>4, <2>0, <2>1 DEF Sorted
  <2>2. CASE y = p
    BY <1>0, <1>1, <1>2, <1>4, <2>0, <2>2
  <2>3. CASE y > p
    <3>1. d[y] = s[y - 1] /\ y - 1 \in 1 .. Len(s) /\ y - 1 >= p
      BY <1>0, <1>1, <2>0, <2>3
    <3>2. CASE x < p
      <4>1. d[x] = s[x] /\ x \in 1 .. Len(s) /\ x <= y - 1
        BY <1>0, <1>1, <2>0, <2>3, <3>2
      <4> QED  BY <3>1, <4>1 DEF Sorted
    <3>3. CASE x = p
      <4>1. d[x] = k
        BY <1>0, <1>1, <2>0, <3>3
      <4>2. ~(y - 1 < p) /\ s[y - 1] \in Int
        BY <1>0, <1>2, <2>0, <3>1
      <4> QED  BY <1>0, <3>1, <4>1, <4>2
    <3>4. CASE x > p
      BY <1>0, <1>1, <1>4, <2>0, <3>1, <3>4 DEF Sorted
    <3> QED  BY <1>0, <2>0, <3>2, <3>3, <3>4
  <2> QED  BY <1>0, <2>0, <2>1, <2>2, <2>3
<1> QED  BY <1>1, <1>4 DEF Sorted, d

(* What holds of an array's elements and of a new one holds afterwards.    *)
LEMMA InsertElements ==
  ASSUME NEW s, NEW d, NEW e, NEW T, Len(s) \in Nat, NEW p \in 1 .. Len(s) + 1,
         e \in T, \A j \in 1 .. Len(s) : s[j] \in T,
         \A j \in 1 .. Len(s) + 1 :
           d[j] = IF j < p THEN s[j] ELSE IF j = p THEN e ELSE s[j - 1]
  PROVE  \A j \in 1 .. Len(s) + 1 : d[j] \in T
<1> TAKE j \in 1 .. Len(s) + 1
<1>1. CASE j < p
  BY <1>1
<1>2. CASE j = p
  BY <1>2
<1>3. CASE j > p
  <2>1. d[j] = s[j - 1] /\ j - 1 \in 1 .. Len(s)
    BY <1>3
  <2> QED  BY <2>1
<1> QED  BY <1>1, <1>2, <1>3

LEMMA RemoveSorted ==
  ASSUME NEW s \in Seq(Key), Sorted(s), NEW i \in 1 .. Len(s)
  PROVE  Sorted(RemoveAt(s, i))
<1>1. /\ Len(RemoveAt(s, i)) = Len(s) - 1
      /\ \A j \in 1 .. Len(s) - 1 :
           RemoveAt(s, i)[j] = IF j < i THEN s[j] ELSE s[j + 1]
  BY RemoveAtIs
<1>0. Len(s) \in Nat /\ i \in Nat
  OBVIOUS
<1>2. ASSUME NEW x \in 1 .. Len(s) - 1, NEW y \in 1 .. Len(s) - 1, x <= y
      PROVE  RemoveAt(s, i)[x] <= RemoveAt(s, i)[y]
  <2>0. x \in Int /\ y \in Int /\ 1 <= x /\ y <= Len(s) - 1
    BY <1>0
  <2>1. CASE y < i
    BY <1>0, <1>1, <1>2, <2>0, <2>1 DEF Sorted
  <2>2. CASE y >= i /\ x < i
    BY <1>0, <1>1, <1>2, <2>0, <2>2 DEF Sorted
  <2>3. CASE x >= i
    BY <1>0, <1>1, <1>2, <2>0, <2>3 DEF Sorted
  <2> QED  BY <1>0, <2>0, <2>1, <2>2, <2>3
<1> QED  BY <1>1, <1>2 DEF Sorted

LEMMA SubSeqSorted ==
  ASSUME NEW s \in Seq(Key), Sorted(s),
         NEW m \in 1 .. Len(s) + 1, NEW n \in m - 1 .. Len(s)
  PROVE  Sorted(SubSeq(s, m, n))
<1>0. Len(s) \in Nat /\ m \in Nat /\ n \in Int /\ m >= 1 /\ n <= Len(s)
  OBVIOUS
<1>1. /\ Len(SubSeq(s, m, n)) = n - m + 1
      /\ \A j \in 1 .. n - m + 1 : SubSeq(s, m, n)[j] = s[m + j - 1]
  BY SubSeqIs
<1>2. ASSUME NEW x \in 1 .. n - m + 1, NEW y \in 1 .. n - m + 1, x <= y
      PROVE  SubSeq(s, m, n)[x] <= SubSeq(s, m, n)[y]
  <2>1. /\ m + x - 1 \in 1 .. Len(s) /\ m + y - 1 \in 1 .. Len(s)
        /\ m + x - 1 <= m + y - 1
    BY <1>0, <1>2
  <2> QED  BY <1>1, <2>1 DEF Sorted
<1> QED  BY <1>1, <1>2 DEF Sorted

-----------------------------------------------------------------------------
(* The operations on a node. *)

LEMMA NodeFacts ==
  ASSUME NEW n \in Nat, NEW node, NodeOK(node, n)
  PROVE  /\ node.keys \in Seq(Key) /\ node.refs \in Seq(Nat)
         /\ node.level \in Nat /\ node.high \in Key /\ node.high \in Int
         /\ Len(node.keys) \in Nat
         /\ RefShift(node) \in {0, 1}
         /\ \A i \in 1 .. Len(node.keys) : node.keys[i] \in Key /\ node.keys[i] \in Int
         /\ \A i \in 1 .. Len(node.refs) : node.refs[i] \in Nat
<1>1. /\ node.keys \in Seq(Key) /\ node.refs \in Seq(Nat)
      /\ node.level \in Nat /\ node.high \in Key
  BY DEF NodeOK, Node
<1>2. RefShift(node) \in {0, 1}
  BY DEF RefShift
<1>3. Len(node.keys) \in Nat /\ \A i \in 1 .. Len(node.refs) : node.refs[i] \in Nat
  BY <1>1
<1> QED  BY <1>1, <1>2, <1>3, SeqKeyInt, KeyInt

LEMMA ArrayFacts ==
  ASSUME NEW n \in Nat, NEW node, NodeOK(node, n)
  PROVE  /\ Sorted(node.keys)
         /\ \A i \in 1 .. Len(node.keys) : node.keys[i] <= node.high
         /\ node.level = 0 =>
              RefShift(node) = 0 /\ Len(node.refs) = Len(node.keys)
         /\ node.level > 0 =>
              /\ RefShift(node) = 1 /\ Len(node.refs) = Len(node.keys) + 1
              /\ \A i \in 1 .. Len(node.refs) : node.refs[i] \in 0 .. n - 1
<1>1. Len(node.refs) = Len(node.keys) + RefShift(node) /\ Len(node.keys) \in Nat
  BY NodeFacts DEF NodeOK
<1>2. node.level = 0 => RefShift(node) = 0
  BY DEF RefShift
<1>3. node.level > 0 => RefShift(node) = 1
  BY NodeFacts DEF RefShift
<1>4. node.level = 0 => Len(node.refs) = Len(node.keys)
  BY <1>1, <1>2
<1>5. node.level > 0 => Len(node.refs) = Len(node.keys) + 1
  BY <1>1, <1>3
<1> QED  BY <1>2, <1>3, <1>4, <1>5 DEF NodeOK

(* A node keeps what NodeOK says when more pages are reserved. *)
LEMMA NodeOKGrows ==
  ASSUME NEW n \in Nat, NEW node, NodeOK(node, n)
  PROVE  NodeOK(node, n + 1)
<1>1. 0 .. n - 1 \subseteq 0 .. (n + 1) - 1
  OBVIOUS
<1> QED  BY <1>1 DEF NodeOK

(* Replacing the arrays of a node. *)
LEMMA ArraysOK ==
  ASSUME NEW n \in Nat, NEW node, NodeOK(node, n),
         NEW keys \in Seq(Key), NEW refs \in Seq(Nat),
         Len(refs) = Len(keys) + RefShift(node),
         node.level > 0 => \A i \in 1 .. Len(refs) : refs[i] \in 0 .. n - 1,
         Sorted(keys),
         \A i \in 1 .. Len(keys) : keys[i] <= node.high
  PROVE  NodeOK([node EXCEPT !.keys = keys, !.refs = refs], n)
<1> DEFINE new == [node EXCEPT !.keys = keys, !.refs = refs]
<1>1. node \in Node
  BY DEF NodeOK
<1>2. /\ new \in Node /\ new.keys = keys /\ new.refs = refs /\ new.level = node.level
      /\ new.high = node.high /\ new.rlink = node.rlink /\ new.llink = node.llink
  BY <1>1 DEF Node
<1>3. RefShift(new) = RefShift(node)
  BY <1>2 DEF RefShift
<1> HIDE DEF new
<1>4. NodeOK(new, n)
  BY <1>2, <1>3 DEF NodeOK
<1> QED  BY <1>4 DEF new

(* A node with key k put at p and a ref at q.                              *)
LEMMA InsertOK ==
  ASSUME NEW n \in Nat, NEW node, NodeOK(node, n),
         NEW k \in Key, k <= node.high, NEW v \in Nat,
         node.level > 0 => v \in 0 .. n - 1,
         NEW p \in 1 .. Len(node.keys) + 1, NEW q \in 1 .. Len(node.refs) + 1,
         \A j \in 1 .. Len(node.keys) :
           IF j < p THEN node.keys[j] <= k ELSE node.keys[j] >= k
  PROVE  NodeOK([node EXCEPT !.keys = InsertAt(@, p, k), !.refs = InsertAt(@, q, v)], n)
<1> DEFINE s == node.keys
           r == node.refs
           keys == InsertAt(s, p, k)
           refs == InsertAt(r, q, v)
           Below == {x \in Key : x <= node.high}
<1>1. /\ s \in Seq(Key) /\ Sorted(s) /\ Len(s) \in Nat
      /\ \A j \in 1 .. Len(s) : s[j] \in Below
      /\ \A j \in 1 .. Len(s) : IF j < p THEN s[j] <= k ELSE s[j] >= k
      /\ p \in 1 .. Len(s) + 1
      /\ k \in Below
  BY NodeFacts DEF NodeOK
<1>2. /\ r \in Seq(Nat) /\ Len(r) = Len(s) + RefShift(node)
      /\ RefShift(node) \in {0, 1}
      /\ q \in 1 .. Len(r) + 1
      /\ node.level > 0 => \A j \in 1 .. Len(r) : r[j] \in 0 .. n - 1
  BY <1>1, NodeFacts DEF NodeOK
<1> HIDE DEF s, r, Below
<1>3. /\ keys \in Seq(Key) /\ Len(keys) = Len(s) + 1
      /\ \A j \in 1 .. Len(s) + 1 :
           keys[j] = IF j < p THEN s[j] ELSE IF j = p THEN k ELSE s[j - 1]
  <2>1. s \in Seq(Key) /\ p \in 1 .. Len(s) + 1 /\ k \in Key
    BY <1>1
  <2> QED  BY ONLY <2>1, InsertAtIs
<1>4. Sorted(keys)
  BY <1>1, InsertSorted
<1> HIDE DEF keys
<1>5. \A j \in 1 .. Len(s) + 1 : keys[j] \in Below
  BY <1>1, <1>3, InsertElements
<1>6. /\ refs \in Seq(Nat) /\ Len(refs) = Len(r) + 1
      /\ \A j \in 1 .. Len(r) + 1 :
           refs[j] = IF j < q THEN r[j] ELSE IF j = q THEN v ELSE r[j - 1]
  <2>1. r \in Seq(Nat) /\ q \in 1 .. Len(r) + 1
    BY <1>2
  <2> QED  BY <2>1, InsertAtIs
<1> HIDE DEF refs
<1>7. ASSUME node.level > 0
      PROVE  \A j \in 1 .. Len(r) + 1 : refs[j] \in 0 .. n - 1
  <2>1. Len(r) \in Nat /\ q \in 1 .. Len(r) + 1 /\ v \in 0 .. n - 1
    BY <1>2, <1>7
  <2> QED  BY <1>2, <1>6, <1>7, <2>1, InsertElements
<1>8. Len(refs) = Len(keys) + RefShift(node)
  BY <1>1, <1>2, <1>3, <1>6
<1>9. \A j \in 1 .. Len(keys) : keys[j] <= node.high
  BY <1>3, <1>5 DEF Below
<1>10. NodeOK([node EXCEPT !.keys = keys, !.refs = refs], n)
  BY <1>3, <1>4, <1>6, <1>7, <1>8, <1>9, ArraysOK
<1> QED  BY <1>10 DEF keys, refs, s, r

LEMMA LeafInsertOK ==
  ASSUME NEW n \in Nat, NEW node, NodeOK(node, n), node.level = 0,
         NEW k \in Key, k <= node.high, NEW v \in Nat
  PROVE  NodeOK(LeafInsert(node, k, v), n)
<1> DEFINE s == node.keys
           i == LowerIdx(s, k)
           p == i + 1
<1>0. /\ s \in Seq(Key) /\ Len(s) \in Nat /\ Sorted(s) /\ k \in Int
      /\ \A j \in 1 .. Len(s) : s[j] \in Int
  BY NodeFacts, KeyInt DEF NodeOK
<1> HIDE DEF s
<1>1. /\ i \in 0 .. Len(s)
      /\ \A j \in 1 .. i : s[j] < k
      /\ i < Len(s) => s[i + 1] >= k
  BY <1>0, LowerIdxIs
<1> HIDE DEF i
<1>2. ASSUME NEW j \in 1 .. Len(s)
      PROVE  IF j < p THEN s[j] <= k ELSE s[j] >= k
  <2>1. CASE j < p
    BY <1>0, <1>1, <2>1
  <2>2. CASE ~(j < p)
    <3>1. i + 1 \in 1 .. Len(s) /\ i + 1 <= j /\ s[i + 1] >= k
      BY <1>0, <1>1, <2>2
    <3>2. s[i + 1] <= s[j]
      BY <1>0, <3>1 DEF Sorted
    <3> QED  BY <1>0, <2>2, <3>1, <3>2
  <2> QED  BY <2>1, <2>2
<1>3. /\ p \in 1 .. Len(s) + 1 /\ p \in 1 .. Len(node.refs) + 1
      /\ ~(node.level > 0)
  BY <1>0, <1>1 DEF RefShift, NodeOK, s
<1> HIDE DEF p
<1>4. NodeOK([node EXCEPT !.keys = InsertAt(@, p, k), !.refs = InsertAt(@, p, v)], n)
  BY <1>2, <1>3, InsertOK DEF s
<1> QED  BY <1>4 DEF LeafInsert, p, i, s

LEMMA InterInsertOK ==
  ASSUME NEW n \in Nat, NEW node, NodeOK(node, n),
         NEW k \in Key, k <= node.high, NEW child \in 0 .. n - 1
  PROVE  NodeOK(InterInsert(node, k, child), n)
<1> DEFINE s == node.keys
           i == UpperIdx(s, k)
           p == i + 1
           q == p + RefShift(node)
<1>0. /\ s \in Seq(Key) /\ Len(s) \in Nat /\ Sorted(s) /\ k \in Int
      /\ \A j \in 1 .. Len(s) : s[j] \in Int
      /\ child \in Nat
  BY NodeFacts, KeyInt DEF NodeOK
<1> HIDE DEF s
<1>1. /\ i \in 0 .. Len(s)
      /\ \A j \in 1 .. i : s[j] <= k
      /\ i < Len(s) => s[i + 1] > k
  BY <1>0, UpperIdxIs
<1> HIDE DEF i
<1>2. ASSUME NEW j \in 1 .. Len(s)
      PROVE  IF j < p THEN s[j] <= k ELSE s[j] >= k
  <2>1. CASE j < p
    BY <1>0, <1>1, <2>1
  <2>2. CASE ~(j < p)
    <3>1. i + 1 \in 1 .. Len(s) /\ i + 1 <= j /\ s[i + 1] > k
      BY <1>0, <1>1, <2>2
    <3>2. s[i + 1] <= s[j]
      BY <1>0, <3>1 DEF Sorted
    <3> QED  BY <1>0, <2>2, <3>1, <3>2
  <2> QED  BY <2>1, <2>2
<1>3. p \in 1 .. Len(s) + 1 /\ q \in 1 .. Len(node.refs) + 1
  <2>1. p \in Nat /\ 1 <= p /\ p <= Len(s) + 1
    BY <1>0, <1>1
  <2>2. Len(node.refs) = Len(s) + RefShift(node) /\ RefShift(node) \in {0, 1}
    BY NodeFacts DEF NodeOK, s
  <2> HIDE DEF p
  <2> QED  BY <1>0, <2>1, <2>2
<1> HIDE DEF p, q
<1>4. NodeOK([node EXCEPT !.keys = InsertAt(@, p, k), !.refs = InsertAt(@, q, child)], n)
  BY <1>0, <1>2, <1>3, InsertOK DEF s
<1> QED  BY <1>4 DEF InterInsert, q, p, i, s

LEMMA DeleteOK ==
  ASSUME NEW n \in Nat, NEW node, NodeOK(node, n), node.level = 0,
         NEW k \in Key, HasKey(node, k)
  PROVE  NodeOK(LeafDelete(node, k), n)
<1> DEFINE s == node.keys
           r == node.refs
           i == LowerIdx(s, k)
           p == i + 1
           keys == RemoveAt(s, p)
           refs == RemoveAt(r, p)
<1>0. /\ s \in Seq(Key) /\ Len(s) \in Nat /\ Sorted(s) /\ k \in Int
      /\ \A j \in 1 .. Len(s) : s[j] \in Int /\ s[j] <= node.high
      /\ r \in Seq(Nat) /\ Len(r) = Len(s)
      /\ RefShift(node) = 0 /\ ~(node.level > 0)
  BY NodeFacts, ArrayFacts, KeyInt
<1>1. \E j \in 1 .. Len(s) : s[j] = k
  BY <1>0 DEF HasKey
<1> HIDE DEF s, r
<1>2. /\ i \in 0 .. Len(s)
      /\ \A j \in 1 .. i : s[j] < k
  BY <1>0, LowerIdxIs
<1> HIDE DEF i
<1>3. i # Len(s)
  BY <1>0, <1>1, <1>2
<1>4. p \in 1 .. Len(s) /\ p \in 1 .. Len(r)
  BY <1>0, <1>2, <1>3
<1> HIDE DEF p
<1>5. /\ keys \in Seq(Key) /\ Len(keys) = Len(s) - 1
      /\ \A j \in 1 .. Len(s) - 1 : keys[j] = IF j < p THEN s[j] ELSE s[j + 1]
  BY <1>0, <1>4, RemoveAtIs
<1>6. Sorted(keys)
  BY <1>0, <1>4, RemoveSorted
<1>7. refs \in Seq(Nat) /\ Len(refs) = Len(r) - 1
  <2>1. r \in Seq(Nat) /\ p \in 1 .. Len(r)
    BY <1>0, <1>4
  <2> QED  BY <2>1, RemoveAtIs
<1> HIDE DEF keys, refs
<1>8. ASSUME NEW j \in 1 .. Len(keys) PROVE keys[j] <= node.high
  <2>1. j \in 1 .. Len(s) /\ j + 1 \in 1 .. Len(s) /\ j \in 1 .. Len(s) - 1
    BY <1>0, <1>5
  <2>2. keys[j] = s[j] \/ keys[j] = s[j + 1]
    BY <1>5, <2>1
  <2> QED  BY <1>0, <2>1, <2>2
<1>9. Len(refs) = Len(keys) + RefShift(node)
  BY <1>0, <1>5, <1>7
<1>10. NodeOK([node EXCEPT !.keys = keys, !.refs = refs], n)
  BY <1>0, <1>5, <1>6, <1>7, <1>8, <1>9, ArraysOK
<1> QED  BY <1>10 DEF LeafDelete, keys, refs, p, i, s, r

(* Reading a ref. *)
LEMMA LeafGetOK ==
  ASSUME NEW n \in Nat, NEW node, NodeOK(node, n), node.level = 0,
         NEW k \in Key, HasKey(node, k)
  PROVE  LeafGet(node, k) \in Nat
<1> DEFINE s == node.keys
           i == LowerIdx(s, k)
<1>0. /\ s \in Seq(Key) /\ Len(s) \in Nat /\ k \in Int
      /\ \A j \in 1 .. Len(s) : s[j] \in Int
      /\ Len(node.refs) = Len(s)
      /\ \A j \in 1 .. Len(node.refs) : node.refs[j] \in Nat
  BY NodeFacts, ArrayFacts, KeyInt
<1>1. \E j \in 1 .. Len(s) : s[j] = k
  BY <1>0 DEF HasKey
<1>2. /\ i \in 0 .. Len(s)
      /\ \A j \in 1 .. i : s[j] < k
  BY <1>0, LowerIdxIs
<1>3. LeafGet(node, k) = node.refs[i + 1]
  BY DEF LeafGet
<1> HIDE DEF s, i
<1>4. i # Len(s)
  BY <1>0, <1>1, <1>2
<1>5. i + 1 \in 1 .. Len(node.refs)
  BY <1>0, <1>2, <1>4
<1> QED  BY <1>0, <1>3, <1>5

LEMMA InterGetOK ==
  ASSUME NEW n \in Nat, NEW node, NodeOK(node, n), node.level > 0, NEW k \in Key
  PROVE  InterGet(node, k) \in 0 .. n - 1
<1> DEFINE s == node.keys
           i == UpperIdx(s, k)
<1>0. /\ s \in Seq(Key) /\ Len(s) \in Nat
      /\ Len(node.refs) = Len(s) + 1
      /\ \A j \in 1 .. Len(node.refs) : node.refs[j] \in 0 .. n - 1
  BY NodeFacts, ArrayFacts
<1>1. i \in 0 .. Len(s)
  BY <1>0, UpperIdxIs
<1>2. InterGet(node, k) = node.refs[i + 1]
  BY DEF InterGet
<1> HIDE DEF s, i
<1>3. i + 1 \in 1 .. Len(node.refs)
  BY <1>0, <1>1
<1> QED  BY <1>0, <1>2, <1>3

-----------------------------------------------------------------------------
(* Splits. *)

(* The halves of a node when page n is taken for the right one.            *)
SplitOK(node, halves, n) ==
  /\ halves.sep \in Key
  /\ NodeOK(halves.left, n + 1) /\ NodeOK(halves.right, n + 1)
  /\ halves.left.level = node.level /\ halves.right.level = node.level
  /\ halves.left.high <= node.high /\ halves.right.high = node.high
  /\ halves.left.high = halves.sep
  /\ halves.left.rlink = n /\ halves.right.rlink = node.rlink

LEMMA LeftHalfOK ==
  ASSUME NEW n \in Nat, NEW node, NodeOK(node, n),
         NEW m \in 0 .. Len(node.keys) - 1, NEW c, c = m + RefShift(node)
  PROVE  LET sep == node.keys[m + 1]
             left == LeftHalf(node, SubSeq(node.keys, 1, m),
                              SubSeq(node.refs, 1, c), sep, n)
         IN  /\ NodeOK(left, n + 1)
             /\ sep \in Key /\ sep <= node.high /\ left.high = sep
             /\ left.rlink = n /\ left.level = node.level
<1> DEFINE s == node.keys
           r == node.refs
           sep == s[m + 1]
           keys == SubSeq(s, 1, m)
           refs == SubSeq(r, 1, c)
           left == LeftHalf(node, keys, refs, sep, n)
<1>0. /\ s \in Seq(Key) /\ Len(s) \in Nat /\ Sorted(s)
      /\ \A j \in 1 .. Len(s) : s[j] \in Key /\ s[j] <= node.high
      /\ r \in Seq(Nat) /\ node.level \in Nat /\ node \in Node
      /\ \A j \in 1 .. Len(r) : r[j] \in Nat
      /\ node.rlink \in Link /\ node.llink \in (0 .. n - 1) \cup {NoPage}
  BY NodeFacts, ArrayFacts DEF NodeOK, Node
<1>1. /\ Len(r) \in Nat /\ c \in 0 .. Len(r)
      /\ node.level > 0 => \A j \in 1 .. Len(r) : r[j] \in 0 .. n - 1
  <2>1. CASE node.level = 0
    BY <2>1, ArrayFacts, NodeFacts
  <2>2. CASE node.level > 0
    BY <2>2, ArrayFacts, NodeFacts
  <2> QED  BY <1>0, <2>1, <2>2
<1>2. /\ m \in Nat /\ m + 1 \in 1 .. Len(s) /\ m <= Len(s)
      /\ \A j \in 1 .. m : j \in 1 .. Len(s)
  BY <1>0
<1> HIDE DEF s, r
<1>3. /\ keys \in Seq(Key) /\ Len(keys) = m
      /\ \A j \in 1 .. m : keys[j] = s[j]
  BY <1>0, <1>2, SubSeqIs
<1>4. Sorted(keys)
  BY <1>0, <1>2, SubSeqSorted
<1>5. /\ refs \in Seq(Nat) /\ Len(refs) = c
      /\ \A j \in 1 .. c : refs[j] = r[j]
  <2> HIDE DEF refs
  <2>1. r \in Seq(Nat) /\ 1 \in 1 .. Len(r) + 1 /\ c \in 1 - 1 .. Len(r)
    BY <1>0, <1>1
  <2> QED  BY <2>1, SubSeqIs DEF refs
<1>6. \A j \in 1 .. m : keys[j] <= sep
  BY <1>0, <1>2, <1>3 DEF Sorted
<1>7. node.level > 0 => \A j \in 1 .. c : refs[j] \in 0 .. (n + 1) - 1
  <2>1. \A j \in 1 .. c : j \in 1 .. Len(r)
    BY <1>1
  <2>2. 0 .. n - 1 \subseteq 0 .. (n + 1) - 1
    OBVIOUS
  <2> QED  BY <1>1, <1>5, <2>1, <2>2
<1>8. sep \in Key /\ sep <= node.high
  BY <1>0, <1>2
<1> HIDE DEF keys, refs, sep
<1>9. /\ left \in Node /\ left.keys = keys /\ left.refs = refs /\ left.level = node.level
      /\ left.high = sep /\ left.rlink = n /\ left.llink = node.llink
  BY <1>0, <1>3, <1>5, <1>8 DEF LeftHalf, Node, Link, Pid
<1>10. RefShift(left) = RefShift(node)
  BY <1>9 DEF RefShift
<1> HIDE DEF left
<1>11. left.rlink \in 0 .. (n + 1) - 1 /\ left.llink \in (0 .. (n + 1) - 1) \cup {NoPage}
  BY <1>0, <1>9
<1>12. NodeOK(left, n + 1)
  BY <1>3, <1>4, <1>5, <1>6, <1>7, <1>9, <1>10, <1>11 DEF NodeOK
<1> QED  BY <1>8, <1>9, <1>12 DEF left, keys, refs, sep, s, r

LEMMA RightHalfOK ==
  ASSUME NEW n \in Nat, NEW node, NodeOK(node, n), NEW pid \in 0 .. n - 1,
         NEW a \in 1 .. Len(node.keys) + 1, NEW c, c = Len(node.keys) + RefShift(node)
  PROVE  LET right == RightHalf(node, SubSeq(node.keys, a, Len(node.keys)),
                                SubSeq(node.refs, a, c), pid)
         IN  /\ NodeOK(right, n + 1)
             /\ right.high = node.high
             /\ right.rlink = node.rlink /\ right.level = node.level
<1> DEFINE s == node.keys
           r == node.refs
           keys == SubSeq(s, a, Len(s))
           refs == SubSeq(r, a, c)
           right == RightHalf(node, keys, refs, pid)
<1>0. /\ s \in Seq(Key) /\ Len(s) \in Nat /\ Sorted(s)
      /\ \A j \in 1 .. Len(s) : s[j] \in Key /\ s[j] <= node.high
      /\ r \in Seq(Nat) /\ node.level \in Nat /\ node \in Node
      /\ \A j \in 1 .. Len(r) : r[j] \in Nat
      /\ node.rlink \in (0 .. n - 1) \cup {NoPage}
      /\ RefShift(node) \in {0, 1}
  BY NodeFacts, ArrayFacts DEF NodeOK
<1>1. /\ c = Len(r) /\ Len(r) \in Nat /\ a \in 1 .. Len(r) + 1
      /\ node.level > 0 => \A j \in 1 .. Len(r) : r[j] \in 0 .. n - 1
  <2>1. CASE node.level = 0
    BY <2>1, ArrayFacts, NodeFacts
  <2>2. CASE node.level > 0
    BY <2>2, ArrayFacts, NodeFacts
  <2> QED  BY <1>0, <2>1, <2>2
<1>2. /\ a \in Nat /\ a >= 1 /\ a <= Len(s) + 1 /\ Len(s) \in a - 1 .. Len(s)
      /\ c \in Nat /\ c = Len(s) + RefShift(node) /\ a \in 1 .. Len(s) + 1
  BY <1>0, <1>1
<1> HIDE DEF s, r
<1>3. /\ keys \in Seq(Key) /\ Len(keys) = Len(s) - a + 1
      /\ \A j \in 1 .. Len(s) - a + 1 : keys[j] = s[a + j - 1]
  BY <1>0, <1>2, SubSeqIs
<1>4. Sorted(keys)
  BY <1>0, <1>2, SubSeqSorted
<1>5. /\ refs \in Seq(Nat) /\ Len(refs) = Len(r) - a + 1
      /\ \A j \in 1 .. Len(r) - a + 1 : refs[j] = r[a + j - 1]
  <2>1. r \in Seq(Nat) /\ a \in 1 .. Len(r) + 1 /\ Len(r) \in a - 1 .. Len(r)
    BY <1>0, <1>1, <1>2
  <2>2. refs = SubSeq(r, a, Len(r))
    BY <1>1
  <2> HIDE DEF refs
  <2> QED  BY <2>1, <2>2, SubSeqIs
<1>6. \A j \in 1 .. Len(keys) : keys[j] <= node.high
  <2>1. \A j \in 1 .. Len(s) - a + 1 : a + j - 1 \in 1 .. Len(s)
    BY <1>0, <1>2
  <2> QED  BY <1>0, <1>3, <2>1
<1>7. node.level > 0 => \A j \in 1 .. Len(refs) : refs[j] \in 0 .. (n + 1) - 1
  <2>1. \A j \in 1 .. Len(r) - a + 1 : a + j - 1 \in 1 .. Len(r)
    BY <1>1, <1>2
  <2>2. 0 .. n - 1 \subseteq 0 .. (n + 1) - 1
    OBVIOUS
  <2> QED  BY <1>1, <1>5, <2>1, <2>2
<1>8. Len(refs) = Len(keys) + RefShift(node)
  BY <1>0, <1>1, <1>2, <1>3, <1>5
<1> HIDE DEF keys, refs
<1>9. /\ right \in Node /\ right.keys = keys /\ right.refs = refs /\ right.level = node.level
      /\ right.high = node.high /\ right.rlink = node.rlink /\ right.llink = pid
  <2>1. node \in Node /\ keys \in Seq(Key) /\ refs \in Seq(Nat)
    BY <1>0, <1>3, <1>5
  <2>2. pid \in Link
    BY DEF Link, Pid
  <2> QED  BY <2>1, <2>2 DEF RightHalf, Node
<1>10. RefShift(right) = RefShift(node)
  BY <1>9 DEF RefShift
<1> HIDE DEF right
<1>11. /\ right.rlink \in (0 .. (n + 1) - 1) \cup {NoPage}
       /\ right.llink \in (0 .. (n + 1) - 1) \cup {NoPage}
  BY <1>0, <1>9
<1>12. NodeOK(right, n + 1)
  BY <1>4, <1>6, <1>7, <1>8, <1>9, <1>10, <1>11 DEF NodeOK
<1> QED  BY <1>9, <1>12 DEF right, keys, refs, s, r

(* Where the new entry of a split goes keeps the other half's links.       *)
LEMMA InsertKeeps ==
  ASSUME NEW node, NEW k, NEW v
  PROVE  LET a == LeafInsert(node, k, v)
             b == InterInsert(node, k, v)
         IN  node \in Node =>
               /\ a.level = node.level /\ a.high = node.high
               /\ a.rlink = node.rlink
               /\ b.level = node.level /\ b.high = node.high
               /\ b.rlink = node.rlink
BY DEF LeafInsert, InterInsert, Node

LEMMA DeleteKeeps ==
  ASSUME NEW node \in Node, NEW k
  PROVE  LET a == LeafDelete(node, k) IN
           a.level = node.level /\ a.high = node.high /\ a.rlink = node.rlink
BY DEF LeafDelete, Node

LEMMA MidIs ==
  ASSUME NEW c \in Nat, c >= 2
  PROVE  /\ (c + 1) \div 2 \in 0 .. c - 1
         /\ (c + 1) \div 2 + 1 \in 1 .. c + 1
         /\ c >= 4 => (c + 1) \div 2 + 2 \in 1 .. c + 1
OBVIOUS

LEMMA LeafSplitOK ==
  ASSUME NEW n \in Nat, NEW node, NodeOK(node, n), node.level = 0,
         Count(node) >= 2, NEW pid \in 0 .. n - 1,
         NEW k \in Key, k <= node.high, NEW v \in Nat
  PROVE  SplitOK(node, LeafSplit(node, pid, n, k, v), n)
<1> DEFINE mid == Mid(node)
           len == Count(node)
           sep == node.keys[mid + 1]
           left == LeftHalf(node, SubSeq(node.keys, 1, mid),
                            SubSeq(node.refs, 1, mid), sep, n)
           right == RightHalf(node, SubSeq(node.keys, mid + 1, len),
                              SubSeq(node.refs, mid + 1, len), pid)
           halves == LeafSplit(node, pid, n, k, v)
<1>1. /\ len \in Nat /\ mid \in 0 .. len - 1 /\ mid + 1 \in 1 .. len + 1
      /\ len = Len(node.keys)
  <2>1. len \in Nat /\ len = Len(node.keys) /\ mid = (len + 1) \div 2 /\ len >= 2
    BY NodeFacts DEF Mid, Count
  <2> HIDE DEF len, mid
  <2> QED  BY <2>1, MidIs
<1>2. RefShift(node) = 0 /\ mid = mid + RefShift(node) /\ len = len + RefShift(node)
  BY <1>1, ArrayFacts
<1> HIDE DEF mid, len
<1>3. /\ NodeOK(left, n + 1) /\ sep \in Key /\ sep <= node.high /\ left.high = sep
      /\ left.rlink = n /\ left.level = node.level
  BY <1>1, <1>2, LeftHalfOK
<1>4. /\ NodeOK(right, n + 1) /\ right.high = node.high
      /\ right.rlink = node.rlink /\ right.level = node.level
  <2> DEFINE a == mid + 1
  <2>1. a \in 1 .. Len(node.keys) + 1
    BY <1>1
  <2> HIDE DEF a
  <2>2. LET r == RightHalf(node, SubSeq(node.keys, a, Len(node.keys)),
                           SubSeq(node.refs, a, len), pid)
        IN  NodeOK(r, n + 1) /\ r.high = node.high
            /\ r.rlink = node.rlink /\ r.level = node.level
    BY <1>1, <1>2, <2>1, RightHalfOK
  <2> QED  BY <1>1, <2>2 DEF a
<1>5. left \in Node /\ right \in Node /\ n + 1 \in Nat
  BY <1>3, <1>4 DEF NodeOK
<1>6. /\ halves.sep = sep
      /\ halves.left = IF k < sep THEN LeafInsert(left, k, v) ELSE left
      /\ halves.right = IF k < sep THEN right ELSE LeafInsert(right, k, v)
  BY DEF LeafSplit, mid, len
<1> SUFFICES SplitOK(node, halves, n)
  OBVIOUS
<1> HIDE DEF left, right, halves, sep
<1>7. k < sep => k <= sep
  BY <1>3, KeyInt
<1>8. CASE k < sep
  <2>1. NodeOK(LeafInsert(left, k, v), n + 1)
    BY <1>3, <1>5, <1>7, <1>8, LeafInsertOK
  <2>2. /\ halves.left.level = left.level /\ halves.left.high = left.high
        /\ halves.left.rlink = left.rlink
    BY <1>5, <1>6, <1>8, InsertKeeps
  <2> QED  BY <1>3, <1>4, <1>6, <1>8, <2>1, <2>2 DEF SplitOK
<1>9. CASE ~(k < sep)
  <2>1. NodeOK(LeafInsert(right, k, v), n + 1)
    BY <1>4, <1>5, LeafInsertOK
  <2>2. /\ halves.right.level = right.level /\ halves.right.high = right.high
        /\ halves.right.rlink = right.rlink
    BY <1>5, <1>6, <1>9, InsertKeeps
  <2> QED  BY <1>3, <1>4, <1>6, <1>9, <2>1, <2>2 DEF SplitOK
<1> QED  BY <1>8, <1>9

LEMMA InterSplitOK ==
  ASSUME NEW n \in Nat, NEW node, NodeOK(node, n),
         Count(node) >= 4, NEW pid \in 0 .. n - 1,
         NEW k \in Key, k <= node.high, NEW child \in 0 .. n - 1
  PROVE  SplitOK(node, InterSplit(node, pid, n, k, child), n)
<1> DEFINE mid == Mid(node)
           len == Count(node)
           c == mid + RefShift(node)
           m == len + RefShift(node)
           sep == node.keys[mid + 1]
           left == LeftHalf(node, SubSeq(node.keys, 1, mid),
                            SubSeq(node.refs, 1, c), sep, n)
           right == RightHalf(node, SubSeq(node.keys, mid + 2, len),
                              SubSeq(node.refs, mid + 2, m), pid)
           halves == InterSplit(node, pid, n, k, child)
<1>1. /\ len \in Nat /\ mid \in 0 .. len - 1 /\ mid + 2 \in 1 .. len + 1
      /\ len = Len(node.keys)
  <2>1. len \in Nat /\ len = Len(node.keys) /\ mid = (len + 1) \div 2 /\ len >= 4
    BY NodeFacts DEF Mid, Count
  <2> HIDE DEF len, mid
  <2>2. len >= 2
    BY <2>1
  <2> QED  BY <2>1, <2>2, MidIs
<1> HIDE DEF mid, len
<1>3. /\ NodeOK(left, n + 1) /\ sep \in Key /\ sep <= node.high /\ left.high = sep
      /\ left.rlink = n /\ left.level = node.level
  BY <1>1, LeftHalfOK
<1>4. /\ NodeOK(right, n + 1) /\ right.high = node.high
      /\ right.rlink = node.rlink /\ right.level = node.level
  <2> DEFINE a == mid + 2
  <2>1. a \in 1 .. Len(node.keys) + 1
    BY <1>1
  <2> HIDE DEF a
  <2>2. LET r == RightHalf(node, SubSeq(node.keys, a, Len(node.keys)),
                           SubSeq(node.refs, a, m), pid)
        IN  NodeOK(r, n + 1) /\ r.high = node.high
            /\ r.rlink = node.rlink /\ r.level = node.level
    BY <1>1, <2>1, RightHalfOK
  <2> QED  BY <1>1, <2>2 DEF a
<1>5. /\ left \in Node /\ right \in Node /\ n + 1 \in Nat
      /\ child \in 0 .. (n + 1) - 1
  <2> HIDE DEF left, right, halves, sep
  <2>1. left \in Node /\ right \in Node
    BY <1>3, <1>4 DEF NodeOK
  <2>2. n + 1 \in Nat /\ child \in 0 .. (n + 1) - 1
    OBVIOUS
  <2> QED  BY <2>1, <2>2
<1>6. /\ halves.sep = sep
      /\ halves.left = IF k < sep THEN InterInsert(left, k, child) ELSE left
      /\ halves.right = IF k < sep THEN right ELSE InterInsert(right, k, child)
  BY DEF InterSplit, mid, len
<1> SUFFICES SplitOK(node, halves, n)
  OBVIOUS
<1> HIDE DEF left, right, halves, sep
<1>7. k < sep => k <= sep
  BY <1>3, KeyInt
<1>8. CASE k < sep
  <2>1. NodeOK(InterInsert(left, k, child), n + 1)
    BY <1>3, <1>5, <1>7, <1>8, InterInsertOK
  <2>2. /\ halves.left.level = left.level /\ halves.left.high = left.high
        /\ halves.left.rlink = left.rlink
    BY <1>5, <1>6, <1>8, InsertKeeps
  <2> QED  BY <1>3, <1>4, <1>6, <1>8, <2>1, <2>2 DEF SplitOK
<1>9. CASE ~(k < sep)
  <2>1. NodeOK(InterInsert(right, k, child), n + 1)
    BY <1>4, <1>5, InterInsertOK
  <2>2. /\ halves.right.level = right.level /\ halves.right.high = right.high
        /\ halves.right.rlink = right.rlink
    BY <1>5, <1>6, <1>9, InsertKeeps
  <2> QED  BY <1>3, <1>4, <1>6, <1>9, <2>1, <2>2 DEF SplitOK
<1> QED  BY <1>8, <1>9

-----------------------------------------------------------------------------
(* New pages. *)

LEMMA RootNodeOK ==
  ASSUME NEW n \in Nat, NEW level \in Nat, NEW sep \in Key,
         NEW left \in 0 .. n - 1, NEW right \in 0 .. n - 1
  PROVE  /\ NodeOK(RootNode(level, sep, left, right), n + 1)
         /\ RootNode(level, sep, left, right).level = level + 1
         /\ RootNode(level, sep, left, right).rlink = NoPage
<1> DEFINE keys == <<sep>>
           refs == <<left, right>>
           node == RootNode(level, sep, left, right)
<1>1. keys \in Seq(Key) /\ Len(keys) = 1 /\ keys[1] = sep
  OBVIOUS
<1>2. /\ refs \in Seq(Nat) /\ Len(refs) = 2
      /\ refs[1] \in 0 .. (n + 1) - 1 /\ refs[2] \in 0 .. (n + 1) - 1
  OBVIOUS
<1> HIDE DEF keys, refs
<1>3. MaxKey \in Key /\ sep <= MaxKey /\ sep <= sep
  BY CapacityAssumption DEF Key
<1>4. /\ node \in Node /\ node.keys = keys /\ node.refs = refs
      /\ node.level = level + 1 /\ node.high = MaxKey
      /\ node.rlink = NoPage /\ node.llink = NoPage
  BY <1>1, <1>2, <1>3 DEF RootNode, NewNode, Node, Link, keys, refs
<1>5. RefShift(node) = 1
  BY <1>4 DEF RefShift
<1> HIDE DEF node
<1>6. Sorted(keys)
  BY <1>1, <1>3 DEF Sorted
<1>7. \A i \in 1 .. Len(refs) : refs[i] \in 0 .. (n + 1) - 1
  BY <1>2
<1>8. \A i \in 1 .. Len(keys) : keys[i] <= MaxKey
  BY <1>1, <1>3
<1>9. Len(refs) = Len(keys) + RefShift(node)
  BY <1>1, <1>2, <1>5
<1>10. NodeOK(node, n + 1)
  BY <1>4, <1>6, <1>7, <1>8, <1>9 DEF NodeOK
<1> QED  BY <1>4, <1>10 DEF node

LEMMA EmptyLeafOK ==
  /\ NodeOK(NewNode(0, <<>>, <<>>), 1)
  /\ NewNode(0, <<>>, <<>>).level = 0
  /\ NewNode(0, <<>>, <<>>).rlink = NoPage
<1> DEFINE node == NewNode(0, <<>>, <<>>)
<1>1. MaxKey \in Key
  BY CapacityAssumption DEF Key
<1>2. /\ node \in Node /\ node.keys = <<>> /\ node.refs = <<>>
      /\ node.level = 0 /\ node.rlink = NoPage /\ node.llink = NoPage
  BY <1>1 DEF NewNode, Node, Link
<1>3. RefShift(node) = 0
  BY <1>2 DEF RefShift
<1> QED  BY <1>2, <1>3 DEF NodeOK, Sorted

-----------------------------------------------------------------------------
(* The entries of a node, and what the operations do to them.  An entry is *)
(* a key with its ref: a value, or the page right of the key.              *)

Holds(node, k, v) ==
  \E i \in 1 .. Len(node.keys) : node.keys[i] = k /\ node.refs[i + RefShift(node)] = v

Distinct(s) == \A i, j \in 1 .. Len(s) : s[i] = s[j] => i = j

LEMMA KeyHolds ==
  ASSUME NEW node, Len(node.keys) \in Nat, NEW k
  PROVE  HasKey(node, k) <=> \E v : Holds(node, k, v)
BY DEF HasKey, Holds

LEMMA HasKeyHolds ==
  ASSUME NEW n \in Nat, NEW node, NodeOK(node, n), NEW k
  PROVE  HasKey(node, k) <=> \E v \in Nat : Holds(node, k, v)
<1>1. /\ node.keys \in Seq(Key) /\ node.refs \in Seq(Nat) /\ Len(node.keys) \in Nat
      /\ Len(node.refs) = Len(node.keys) + RefShift(node) /\ RefShift(node) \in {0, 1}
      /\ \A i \in 1 .. Len(node.refs) : node.refs[i] \in Nat
  BY NodeFacts DEF NodeOK
<1>2. DOMAIN node.keys = 1 .. Len(node.keys)
  BY <1>1
<1>3. \A i \in 1 .. Len(node.keys) : i + RefShift(node) \in 1 .. Len(node.refs)
  BY <1>1
<1> QED  BY <1>1, <1>2, <1>3 DEF HasKey, Holds

LEMMA HoldsType ==
  ASSUME NEW n \in Nat, NEW node, NodeOK(node, n), NEW k, NEW v, Holds(node, k, v)
  PROVE  /\ k \in Key /\ v \in Nat /\ k <= node.high
         /\ node.level > 0 => v \in 0 .. n - 1
<1>1. PICK i \in 1 .. Len(node.keys) : node.keys[i] = k /\ node.refs[i + RefShift(node)] = v
  BY DEF Holds
<1>2. /\ node.keys[i] \in Key /\ node.keys[i] <= node.high
      /\ Len(node.refs) = Len(node.keys) + RefShift(node) /\ RefShift(node) \in {0, 1}
      /\ Len(node.keys) \in Nat
      /\ \A j \in 1 .. Len(node.refs) : node.refs[j] \in Nat
      /\ node.level > 0 => \A j \in 1 .. Len(node.refs) : node.refs[j] \in 0 .. n - 1
  BY NodeFacts DEF NodeOK
<1>3. i + RefShift(node) \in 1 .. Len(node.refs)
  BY <1>2
<1> QED  BY <1>1, <1>2, <1>3

(* In a node without a key twice an entry is known by its key. *)
LEMMA OneRef ==
  ASSUME NEW node, Distinct(node.keys), NEW k, NEW v, NEW w,
         Holds(node, k, v), Holds(node, k, w)
  PROVE  v = w
BY DEF Distinct, Holds

(* An entry put into the arrays at positions p and q. *)
InsertedAt(node, p, q, k, v) ==
  [node EXCEPT !.keys = InsertAt(@, p, k), !.refs = InsertAt(@, q, v)]

LEMMA InsertedIs ==
  ASSUME NEW S, NEW s \in Seq(S), NEW i \in 1 .. Len(s) + 1, NEW e \in S,
         NEW d, d = InsertAt(s, i, e)
  PROVE  /\ d \in Seq(S) /\ Len(d) = Len(s) + 1
         /\ \A j \in 1 .. Len(s) : j < i => d[j] = s[j]
         /\ d[i] = e
         /\ \A j \in 1 .. Len(s) : ~(j < i) => d[j + 1] = s[j]
<1>1. /\ d \in Seq(S) /\ Len(d) = Len(s) + 1
      /\ \A j \in 1 .. Len(s) + 1 :
           d[j] = IF j < i THEN s[j] ELSE IF j = i THEN e ELSE s[j - 1]
  BY InsertAtIs
<1>2. Len(s) \in Nat /\ i \in Nat
  OBVIOUS
<1>3. ASSUME NEW j \in 1 .. Len(s), ~(j < i)
      PROVE  d[j + 1] = s[j]
  <2>1. j + 1 \in 1 .. Len(s) + 1 /\ ~(j + 1 < i) /\ j + 1 # i /\ (j + 1) - 1 = j
    BY <1>2, <1>3
  <2> QED  BY <1>1, <2>1
<1> QED  BY <1>1, <1>2, <1>3

(* What becomes of the entries when one is taken out. *)
EntryRemoved(node, new, k) ==
  /\ \A x, y : Holds(new, x, y) => Holds(node, x, y)
  /\ Distinct(node.keys) =>
       /\ Distinct(new.keys)
       /\ \A x, y : Holds(new, x, y) <=> Holds(node, x, y) /\ x # k

(* What becomes of the entries when one is added. *)
EntryAdded(node, new, k, v) ==
  /\ Len(new.keys) = Len(node.keys) + 1
  /\ node.level > 0 => new.refs[1] = node.refs[1]
  /\ \A x, y : Holds(new, x, y) <=> Holds(node, x, y) \/ (x = k /\ y = v)
  /\ Distinct(node.keys) /\ ~HasKey(node, k) => Distinct(new.keys)

LEMMA InsertHolds ==
  ASSUME NEW n \in Nat, NEW node, NodeOK(node, n), NEW k \in Key, NEW v \in Nat,
         NEW p \in 1 .. Len(node.keys) + 1, NEW q, q = p + RefShift(node)
  PROVE  EntryAdded(node, InsertedAt(node, p, q, k, v), k, v)
<1> DEFINE s == node.keys
           r == node.refs
           c == RefShift(node)
           keys == InsertAt(s, p, k)
           refs == InsertAt(r, q, v)
           new == [node EXCEPT !.keys = keys, !.refs = refs]
<1>1. /\ s \in Seq(Key) /\ r \in Seq(Nat) /\ Len(s) \in Nat /\ Len(r) = Len(s) + c
      /\ c \in {0, 1} /\ (node.level > 0 => c = 1) /\ node \in Node
      /\ node.level \in Nat
  BY NodeFacts, ArrayFacts DEF NodeOK
<1>2. p \in Nat /\ 1 <= p /\ p <= Len(s) + 1 /\ q = p + c /\ p \in 1 .. Len(s) + 1
  BY <1>1
<1>3. new.keys = keys /\ new.refs = refs /\ new.level = node.level
  BY <1>1 DEF Node
<1>3a. RefShift(new) = c
  BY <1>3 DEF RefShift
<1>3b. HasKey(node, k) <=> \E i \in 1 .. Len(s) : s[i] = k
  BY <1>1 DEF HasKey
<1>3c. \A x, y : Holds(node, x, y) <=> \E i \in 1 .. Len(s) : s[i] = x /\ r[i + c] = y
  BY DEF Holds
<1> HIDE DEF s, r, c
<1>4. q \in 1 .. Len(r) + 1
  BY <1>1, <1>2
<1>5. /\ keys \in Seq(Key) /\ Len(keys) = Len(s) + 1
      /\ \A j \in 1 .. Len(s) : j < p => keys[j] = s[j]
      /\ keys[p] = k
      /\ \A j \in 1 .. Len(s) : ~(j < p) => keys[j + 1] = s[j]
  BY <1>1, <1>2, InsertedIs, SMTT(30)
<1> DEFINE N == Nat
<1>1a. r \in Seq(N) /\ v \in N
  BY <1>1
<1> HIDE DEF N
<1>6. /\ refs \in Seq(N) /\ Len(refs) = Len(r) + 1
      /\ \A j \in 1 .. Len(r) : j < q => refs[j] = r[j]
      /\ refs[q] = v
      /\ \A j \in 1 .. Len(r) : ~(j < q) => refs[j + 1] = r[j]
  BY <1>1a, <1>4, InsertedIs
<1> HIDE DEF keys, refs
<1>3d. \A x, y : Holds(new, x, y) <=> \E i \in 1 .. Len(keys) : keys[i] = x /\ refs[i + c] = y
  BY <1>3, <1>3a DEF Holds
<1> HIDE DEF new
<1>7. node.level > 0 => refs[1] = r[1]
  BY <1>1, <1>2, <1>6
<1>8. ASSUME NEW i \in 1 .. Len(s), i < p
      PROVE  i \in 1 .. Len(keys) /\ keys[i] = s[i] /\ refs[i + c] = r[i + c]
  <2>1. i \in 1 .. Len(keys) /\ i + c \in 1 .. Len(r) /\ i + c < q
    BY <1>1, <1>2, <1>5, <1>8, SMTT(30)
  <2> QED  BY <1>5, <1>6, <1>8, <2>1
<1>9. ASSUME NEW i \in 1 .. Len(s), ~(i < p)
      PROVE  i + 1 \in 1 .. Len(keys) /\ keys[i + 1] = s[i] /\ refs[(i + 1) + c] = r[i + c]
  <2> DEFINE j == i + c
  <2>1. i + 1 \in 1 .. Len(keys) /\ j \in 1 .. Len(r) /\ ~(j < q) /\ (i + 1) + c = j + 1
    BY <1>1, <1>2, <1>5, <1>9
  <2> HIDE DEF j
  <2>2. refs[j + 1] = r[j]
    BY <1>6, <2>1
  <2> QED  BY <1>5, <1>9, <2>1, <2>2 DEF j
<1>10. p \in 1 .. Len(keys) /\ keys[p] = k /\ refs[p + c] = v
  BY <1>2, <1>5, <1>6
<1>10a. ASSUME NEW x, NEW y, Holds(node, x, y) \/ (x = k /\ y = v)
        PROVE  Holds(new, x, y)
  <2>1. CASE x = k /\ y = v
    BY <1>3d, <1>10, <2>1
  <2>2. CASE Holds(node, x, y)
    <3>1. PICK i \in 1 .. Len(s) : s[i] = x /\ r[i + c] = y
      BY <1>3c, <2>2
    <3>2. CASE i < p
      BY <1>3d, <1>8, <3>1, <3>2
    <3>3. CASE ~(i < p)
      BY <1>3d, <1>9, <3>1, <3>3
    <3> QED  BY <3>2, <3>3
  <2> QED  BY <1>10a, <2>1, <2>2
<1>10b. ASSUME NEW x, NEW y, Holds(new, x, y)
        PROVE  Holds(node, x, y) \/ (x = k /\ y = v)
  <2>1. PICK i \in 1 .. Len(s) + 1 : keys[i] = x /\ refs[i + c] = y
    BY <1>3d, <1>5, <1>10b
  <2>2. CASE i < p
    <3>1. i \in 1 .. Len(s)
      BY <1>1, <1>2, <2>2
    <3> QED  BY <1>3c, <1>8, <2>1, <2>2, <3>1
  <2>3. CASE i = p
    BY <1>10, <2>1, <2>3
  <2>4. CASE i > p
    <3> DEFINE j == i - 1
    <3>1. j \in 1 .. Len(s) /\ ~(j < p) /\ i = j + 1
      BY <1>1, <1>2, <2>4
    <3> HIDE DEF j
    <3> QED  BY <1>3c, <1>9, <2>1, <3>1
  <2> QED  BY <1>1, <1>2, <2>2, <2>3, <2>4
<1>11. ASSUME Distinct(s), ~HasKey(node, k)
       PROVE  Distinct(keys)
  <2>1. ASSUME NEW i \in 1 .. Len(s) + 1, NEW j \in 1 .. Len(s) + 1, keys[i] = keys[j]
        PROVE  i = j
    <3> DEFINE back(x) == IF x < p THEN x ELSE x - 1
    <3>0. i \in Int /\ j \in Int
      BY <1>1
    <3>1. ASSUME NEW x \in 1 .. Len(s) + 1, x # p
          PROVE  back(x) \in 1 .. Len(s) /\ keys[x] = s[back(x)]
      <4>1. CASE x < p
        <5>1. x \in 1 .. Len(s) /\ back(x) = x
          BY <1>1, <1>2, <4>1
        <5> QED  BY <1>5, <4>1, <5>1
      <4>2. CASE ~(x < p)
        <5>1. x - 1 \in 1 .. Len(s) /\ ~(x - 1 < p) /\ (x - 1) + 1 = x
          BY <1>1, <1>2, <3>1, <4>2
        <5> QED  BY <1>5, <4>2, <5>1
      <4> QED  BY <4>1, <4>2
    <3>2. \A x \in 1 .. Len(s) : s[x] # k
      BY <1>3b, <1>11
    <3>3. keys[p] = k
      BY <1>2, <1>5
    <3>4. i = p <=> j = p
      BY <2>1, <3>1, <3>2, <3>3
    <3>5. i # p => back(i) = back(j)
      BY <1>11, <2>1, <3>1, <3>4 DEF Distinct
    <3> QED  BY <1>2, <3>0, <3>4, <3>5
  <2> QED  BY <1>5, <2>1 DEF Distinct
<1>12. new = InsertedAt(node, p, q, k, v)
  BY DEF new, InsertedAt, keys, refs, s, r
<1>13. /\ Len(new.keys) = Len(s) + 1
       /\ node.level > 0 => new.refs[1] = r[1]
       /\ \A x, y : Holds(new, x, y) <=> Holds(node, x, y) \/ (x = k /\ y = v)
       /\ Distinct(s) /\ ~HasKey(node, k) => Distinct(new.keys)
  BY <1>3, <1>5, <1>7, <1>10a, <1>10b, <1>11
<1> QED  BY <1>12, <1>13 DEF EntryAdded, s, r

LEMMA LeafInsertHolds ==
  ASSUME NEW n \in Nat, NEW node, NodeOK(node, n), node.level = 0,
         NEW k \in Key, NEW v \in Nat
  PROVE  EntryAdded(node, LeafInsert(node, k, v), k, v)
<1> DEFINE p == LowerIdx(node.keys, k) + 1
           q == p + RefShift(node)
<1>1. node.keys \in Seq(Key) /\ Len(node.keys) \in Nat /\ RefShift(node) = 0
  BY NodeFacts, ArrayFacts
<1>2. p \in 1 .. Len(node.keys) + 1
  BY <1>1, LowerIdxIs
<1>3. LeafInsert(node, k, v) = InsertedAt(node, p, q, k, v)
  <2>1. q = p
    BY <1>1, <1>2
  <2> QED  BY <2>1 DEF LeafInsert, InsertedAt
<1> HIDE DEF p
<1>4. q = p + RefShift(node)
  OBVIOUS
<1> HIDE DEF q
<1> QED  BY <1>2, <1>3, <1>4, InsertHolds

LEMMA InterInsertHolds ==
  ASSUME NEW n \in Nat, NEW node, NodeOK(node, n), NEW k \in Key, NEW v \in Nat
  PROVE  EntryAdded(node, InterInsert(node, k, v), k, v)
<1> DEFINE p == UpperIdx(node.keys, k) + 1
           q == p + RefShift(node)
<1>1. node.keys \in Seq(Key) /\ Len(node.keys) \in Nat
  BY NodeFacts
<1>2. p \in 1 .. Len(node.keys) + 1
  BY <1>1, UpperIdxIs
<1>3. InterInsert(node, k, v) = InsertedAt(node, p, q, k, v)
  BY DEF InterInsert, InsertedAt
<1> HIDE DEF p
<1>4. q = p + RefShift(node)
  OBVIOUS
<1> HIDE DEF q
<1> QED  BY <1>2, <1>3, <1>4, InsertHolds

LEMMA DeleteHolds ==
  ASSUME NEW n \in Nat, NEW node, NodeOK(node, n), node.level = 0,
         NEW k \in Key, HasKey(node, k)
  PROVE  EntryRemoved(node, LeafDelete(node, k), k)
<1> DEFINE s == node.keys
           r == node.refs
           i == LowerIdx(s, k) + 1
           keys == RemoveAt(s, i)
           refs == RemoveAt(r, i)
           new == [node EXCEPT !.keys = keys, !.refs = refs]
<1>1. /\ s \in Seq(Key) /\ r \in Seq(Nat) /\ Len(s) \in Nat /\ Len(r) = Len(s)
      /\ RefShift(node) = 0 /\ node \in Node /\ k \in Int
      /\ \A j \in 1 .. Len(s) : s[j] \in Int
      /\ \E j \in 1 .. Len(s) : s[j] = k
  <2>1. \E j \in 1 .. Len(s) : s[j] = k
    BY NodeFacts DEF HasKey
  <2> QED  BY <2>1, NodeFacts, ArrayFacts, KeyInt DEF NodeOK
<1>2. new = LeafDelete(node, k)
  BY DEF LeafDelete
<1>3. new.keys = keys /\ new.refs = refs /\ RefShift(new) = 0
  BY <1>1 DEF Node, RefShift
<1>4. /\ LowerIdx(s, k) \in 0 .. Len(s)
      /\ \A j \in 1 .. LowerIdx(s, k) : s[j] < k
      /\ LowerIdx(s, k) < Len(s) => s[LowerIdx(s, k) + 1] >= k
  BY <1>1, LowerIdxIs
<1>5. i \in 1 .. Len(s)
  <2>1. LowerIdx(s, k) # Len(s)
    BY <1>1, <1>4
  <2> QED  BY <1>1, <1>4, <2>1
<1>6. s[i] = k
  <2>1. PICK j \in 1 .. Len(s) : s[j] = k
    BY <1>1
  <2>2. i <= j
    BY <1>1, <1>4, <2>1
  <2>3. s[i] <= s[j] /\ s[i] >= k
    BY <1>4, <1>5, <2>1, <2>2, ArrayFacts DEF Sorted
  <2> QED  BY <1>1, <1>5, <2>1, <2>3
<1>7. /\ \A x, y : Holds(node, x, y) <=> \E j \in 1 .. Len(s) : s[j] = x /\ r[j] = y
      /\ \A x, y : Holds(new, x, y) <=> \E j \in 1 .. Len(keys) : keys[j] = x /\ refs[j] = y
  <2>1. ASSUME NEW d, NEW x, NEW y, RefShift(d) = 0, Len(d.keys) \in Nat
        PROVE  Holds(d, x, y) <=> \E j \in 1 .. Len(d.keys) : d.keys[j] = x /\ d.refs[j] = y
    BY <2>1 DEF Holds
  <2>2. Len(keys) \in Nat
    BY <1>1, <1>5, RemoveAtIs
  <2> HIDE DEF new, keys, refs
  <2> QED  BY <1>1, <1>3, <2>1, <2>2, SMTT(30)
<1> DEFINE N == Nat
<1>8. r \in Seq(N) /\ i \in 1 .. Len(r)
  BY <1>1, <1>5
<1> HIDE DEF N
<1> HIDE DEF i, s, r
<1>9. /\ keys \in Seq(Key) /\ Len(keys) = Len(s) - 1
      /\ \A j \in 1 .. Len(s) - 1 : keys[j] = IF j < i THEN s[j] ELSE s[j + 1]
  BY <1>1, <1>5, RemoveAtIs
<1>10. /\ refs \in Seq(N) /\ Len(refs) = Len(r) - 1
       /\ \A j \in 1 .. Len(r) - 1 : refs[j] = IF j < i THEN r[j] ELSE r[j + 1]
  BY <1>8, RemoveAtIs
<1> HIDE DEF keys, refs, new
<1> DEFINE from(j) == IF j < i THEN j ELSE j + 1
<1>11. ASSUME NEW j \in 1 .. Len(keys)
       PROVE  /\ from(j) \in 1 .. Len(s) /\ from(j) # i
              /\ keys[j] = s[from(j)] /\ refs[j] = r[from(j)]
  <2>1. j \in 1 .. Len(s) - 1 /\ j \in 1 .. Len(r) - 1 /\ j \in Int /\ i \in Int
    BY <1>1, <1>5, <1>9
  <2>2. CASE j < i
    <3>1. from(j) = j /\ j \in 1 .. Len(s) /\ j # i
      BY <1>1, <2>1, <2>2
    <3>2. keys[j] = s[j] /\ refs[j] = r[j]
      BY <1>9, <1>10, <2>1, <2>2
    <3> QED  BY <3>1, <3>2
  <2>3. CASE ~(j < i)
    <3>1. from(j) = j + 1 /\ j + 1 \in 1 .. Len(s) /\ j + 1 # i
      BY <1>1, <2>1, <2>3
    <3>2. keys[j] = s[j + 1] /\ refs[j] = r[j + 1]
      BY <1>9, <1>10, <2>1, <2>3
    <3> QED  BY <3>1, <3>2
  <2> QED  BY <2>2, <2>3
<1>12. \A a, b \in 1 .. Len(keys) : from(a) = from(b) => a = b
  BY <1>1, <1>5, <1>9, SMTT(30)
<1>13. ASSUME NEW j \in 1 .. Len(s), j # i
       PROVE  \E b \in 1 .. Len(keys) : from(b) = j
  <2> DEFINE b == IF j < i THEN j ELSE j - 1
  <2>1. b \in 1 .. Len(keys) /\ from(b) = j
    BY <1>1, <1>5, <1>9, <1>13
  <2> QED  BY <2>1
<1> HIDE DEF from
<1>14. ASSUME NEW x, NEW y, Holds(new, x, y)
       PROVE  Holds(node, x, y)
  BY <1>3, <1>7, <1>11, <1>14
<1>15. ASSUME Distinct(s)
       PROVE  Distinct(keys)
  BY <1>11, <1>12, <1>15 DEF Distinct
<1>16. ASSUME Distinct(s), NEW x, NEW y
       PROVE  Holds(new, x, y) <=> Holds(node, x, y) /\ x # k
  <2>1. ASSUME Holds(new, x, y) PROVE x # k
    BY <1>5, <1>6, <1>7, <1>11, <1>16, <2>1 DEF Distinct
  <2>2. ASSUME Holds(node, x, y), x # k PROVE Holds(new, x, y)
    <3>1. PICK j \in 1 .. Len(s) : s[j] = x /\ r[j] = y
      BY <1>7, <2>2
    <3>2. PICK b \in 1 .. Len(keys) : from(b) = j
      BY <1>6, <1>13, <2>2, <3>1
    <3> QED  BY <1>7, <1>11, <3>1, <3>2
  <2> QED  BY <1>14, <2>1, <2>2
<1>17. new.keys = keys /\ s = node.keys
  BY <1>3 DEF s
<1> QED  BY <1>2, <1>14, <1>15, <1>16, <1>17 DEF EntryRemoved

-----------------------------------------------------------------------------
(* Looking a key up. *)

LEMMA LeafGetHolds ==
  ASSUME NEW n \in Nat, NEW node, NodeOK(node, n), node.level = 0,
         NEW k \in Key, HasKey(node, k)
  PROVE  Holds(node, k, LeafGet(node, k))
<1> DEFINE s == node.keys
           i == LowerIdx(s, k) + 1
<1>1. /\ s \in Seq(Key) /\ Len(s) \in Nat /\ k \in Int
      /\ RefShift(node) = 0 /\ Sorted(s)
      /\ \A j \in 1 .. Len(s) : s[j] \in Int
      /\ \E j \in 1 .. Len(s) : s[j] = k
  <2>1. \E j \in 1 .. Len(s) : s[j] = k
    BY NodeFacts DEF HasKey
  <2> QED  BY <2>1, NodeFacts, ArrayFacts, KeyInt
<1>2. /\ LowerIdx(s, k) \in 0 .. Len(s)
      /\ \A j \in 1 .. LowerIdx(s, k) : s[j] < k
      /\ LowerIdx(s, k) < Len(s) => s[LowerIdx(s, k) + 1] >= k
  BY <1>1, LowerIdxIs
<1>3. i \in 1 .. Len(s)
  <2>1. LowerIdx(s, k) # Len(s)
    BY <1>1, <1>2
  <2> QED  BY <1>1, <1>2, <2>1
<1>4. s[i] = k
  <2>1. PICK j \in 1 .. Len(s) : s[j] = k
    BY <1>1
  <2>2. i <= j
    BY <1>1, <1>2, <2>1
  <2>3. s[i] <= s[j] /\ s[i] >= k
    BY <1>1, <1>2, <1>3, <2>1, <2>2 DEF Sorted
  <2> QED  BY <1>1, <1>3, <2>1, <2>3
<1>5. LeafGet(node, k) = node.refs[i + RefShift(node)]
  BY <1>1, <1>3 DEF LeafGet
<1> HIDE DEF i
<1> QED  BY <1>3, <1>4, <1>5 DEF Holds

LEMMA InterGetHolds ==
  ASSUME NEW n \in Nat, NEW node, NodeOK(node, n), node.level > 0, NEW k \in Key
  PROVE  \/ InterGet(node, k) = node.refs[1]
         \/ \E x : x <= k /\ Holds(node, x, InterGet(node, k))
<1> DEFINE s == node.keys
           i == UpperIdx(s, k)
<1>1. s \in Seq(Key) /\ Len(s) \in Nat /\ RefShift(node) = 1
  BY NodeFacts, ArrayFacts
<1>2. i \in 0 .. Len(s) /\ \A j \in 1 .. i : s[j] <= k
  BY <1>1, UpperIdxIs
<1>3. InterGet(node, k) = node.refs[i + RefShift(node)]
  BY <1>1 DEF InterGet
<1> HIDE DEF i
<1>4. i = 0 \/ i \in 1 .. Len(s)
  BY <1>1, <1>2
<1> QED  BY <1>1, <1>2, <1>3, <1>4 DEF Holds

-----------------------------------------------------------------------------
(* The two halves of a split. *)

(* The entries of node at the positions from a to b, as a node.            *)
IsPart(node, part, a, b) ==
  /\ Len(part.keys) = (b - a) + 1
  /\ part.level = node.level
  /\ node.level > 0 => part.refs[1] = node.refs[a]
  /\ \A x, y : Holds(part, x, y) <=>
       \E i \in a .. b : node.keys[i] = x /\ node.refs[i + RefShift(node)] = y
  /\ Distinct(node.keys) => Distinct(part.keys)

LEMMA PartHolds ==
  ASSUME NEW n \in Nat, NEW node, NodeOK(node, n), NEW part,
         NEW a \in 1 .. Len(node.keys) + 1, NEW b \in a - 1 .. Len(node.keys),
         NEW c, c = b + RefShift(node), part.level = node.level,
         part.keys = SubSeq(node.keys, a, b), part.refs = SubSeq(node.refs, a, c)
  PROVE  IsPart(node, part, a, b)
<1> DEFINE s == node.keys
           r == node.refs
           d == RefShift(node)
           keys == SubSeq(s, a, b)
           refs == SubSeq(r, a, c)
           N == Nat
<1>1. /\ s \in Seq(Key) /\ r \in Seq(N) /\ Len(s) \in Nat /\ Len(r) = Len(s) + d
      /\ d \in {0, 1} /\ (node.level > 0 => d = 1) /\ RefShift(part) = d
  <2>1. RefShift(part) = d
    BY DEF RefShift
  <2> QED  BY <2>1, NodeFacts, ArrayFacts DEF NodeOK
<1>2. \A x, y : Holds(part, x, y) <=> \E i \in 1 .. Len(keys) : keys[i] = x /\ refs[i + d] = y
  BY <1>1 DEF Holds
<1> HIDE DEF N, s, r, d
<1>3. /\ a \in Nat /\ 1 <= a /\ b \in Int /\ a - 1 <= b /\ b <= Len(s) /\ c = b + d
      /\ a \in 1 .. Len(s) + 1 /\ b \in a - 1 .. Len(s)
      /\ a \in 1 .. Len(r) + 1 /\ c \in a - 1 .. Len(r)
  BY <1>1, SMTT(30) DEF s, d
<1>4. /\ keys \in Seq(Key) /\ Len(keys) = b - a + 1
      /\ \A j \in 1 .. b - a + 1 : keys[j] = s[a + j - 1]
  BY <1>1, <1>3, SubSeqIs
<1>5. /\ refs \in Seq(N) /\ Len(refs) = c - a + 1
      /\ \A j \in 1 .. c - a + 1 : refs[j] = r[a + j - 1]
  BY <1>1, <1>3, SubSeqIs
<1> HIDE DEF keys, refs
<1> DEFINE at(j) == a + j - 1
<1>6. ASSUME NEW j \in 1 .. Len(keys)
      PROVE  at(j) \in a .. b /\ keys[j] = s[at(j)] /\ refs[j + d] = r[at(j) + d]
  <2>1. j \in 1 .. b - a + 1 /\ at(j) \in a .. b
    BY <1>1, <1>3, <1>4, SMTT(30)
  <2> DEFINE h == j + d
  <2>2. h \in 1 .. c - a + 1 /\ a + h - 1 = at(j) + d
    BY <1>1, <1>3, <2>1, SMTT(30)
  <2> HIDE DEF h
  <2>3. refs[h] = r[a + h - 1]
    BY <1>5, <2>2
  <2> QED  BY <1>4, <2>1, <2>2, <2>3 DEF h
<1>7. ASSUME NEW i \in a .. b
      PROVE  \E j \in 1 .. Len(keys) : at(j) = i
  <2>1. i - a + 1 \in 1 .. Len(keys) /\ at(i - a + 1) = i
    BY <1>1, <1>3, <1>4
  <2> QED  BY <2>1
<1>8. /\ \A i, j \in 1 .. Len(keys) : at(i) = at(j) => i = j
      /\ \A i \in a .. b : i \in 1 .. Len(s)
  BY <1>1, <1>3, <1>4
<1>9. node.level > 0 => refs[1] = r[a]
  <2>1. node.level > 0 => 1 \in 1 .. c - a + 1 /\ a + 1 - 1 = a
    BY <1>1, <1>3
  <2> QED  BY <1>5, <2>1
<1> HIDE DEF at
<1>10. ASSUME NEW x, NEW y
       PROVE  Holds(part, x, y) <=> \E i \in a .. b : s[i] = x /\ r[i + d] = y
  <2>1. ASSUME Holds(part, x, y)
        PROVE  \E i \in a .. b : s[i] = x /\ r[i + d] = y
    <3>1. PICK j \in 1 .. Len(keys) : keys[j] = x /\ refs[j + d] = y
      BY <1>2, <2>1
    <3> QED  BY <1>6, <3>1
  <2>2. ASSUME NEW i \in a .. b, s[i] = x, r[i + d] = y
        PROVE  Holds(part, x, y)
    <3>1. PICK j \in 1 .. Len(keys) : at(j) = i
      BY <1>7
    <3>2. keys[j] = x /\ refs[j + d] = y
      BY <1>6, <2>2, <3>1
    <3> QED  BY <1>2, <3>2
  <2> QED  BY <2>1, <2>2
<1>11. ASSUME Distinct(s)
       PROVE  Distinct(keys)
  <2>1. ASSUME NEW i \in 1 .. Len(keys), NEW j \in 1 .. Len(keys), keys[i] = keys[j]
        PROVE  i = j
    <3>1. /\ at(i) \in 1 .. Len(s) /\ at(j) \in 1 .. Len(s)
          /\ s[at(i)] = s[at(j)]
      BY <1>6, <1>8, <2>1
    <3>2. at(i) = at(j)
      BY <1>11, <3>1 DEF Distinct
    <3> QED  BY <1>8, <3>2
  <2> QED  BY <2>1 DEF Distinct
<1>12. part.keys = keys /\ part.refs = refs
  BY DEF keys, refs, s, r
<1>13. Len(keys) = (b - a) + 1
  BY <1>3, <1>4
<1> QED  BY <1>9, <1>10, <1>11, <1>12, <1>13 DEF IsPart, s, r, d

(* What becomes of the entries of node and of a new one, for key k.  The   *)
(* entry in the middle goes right, or up: then its ref is the right half's *)
(* first.                                                                  *)
Halved(node, halves, k, v, up) ==
  LET left == halves.left
      right == halves.right
      sep == halves.sep
  IN
  /\ \E y : Holds(node, sep, y)
  /\ node.level > 0 => left.refs[1] = node.refs[1]
  /\ up /\ node.level > 0 => Holds(node, sep, right.refs[1])
  /\ \A x, y : Holds(left, x, y) \/ Holds(right, x, y) =>
                 Holds(node, x, y) \/ (x = k /\ y = v)
  /\ \A x, y : Holds(node, x, y) \/ (x = k /\ y = v) =>
       \/ Holds(left, x, y) \/ Holds(right, x, y)
       \/ up /\ x = sep /\ (node.level > 0 => y = right.refs[1])
  /\ \A x, y : Holds(right, x, y) => x >= sep
  /\ Len(left.keys) > 0 /\ Len(right.keys) > 0
  /\ Distinct(node.keys) /\ ~HasKey(node, k) =>
       /\ Distinct(left.keys) /\ Distinct(right.keys)
       /\ \A x, y : Holds(left, x, y) => x < sep
       /\ up => \A x, y : Holds(right, x, y) => sep < x

LEMMA PartsHalved ==
  ASSUME NEW n \in Nat, NEW node, NodeOK(node, n), NEW halves,
         NEW k \in Key, NEW v, NEW left, NEW right, NEW up \in BOOLEAN,
         NEW m \in 1 .. Len(node.keys) - 1, NEW a \in m + 1 .. Len(node.keys),
         a = IF up THEN m + 2 ELSE m + 1,
         halves.sep = node.keys[m + 1],
         IsPart(node, left, 1, m), IsPart(node, right, a, Len(node.keys)),
         \/ /\ k < halves.sep /\ EntryAdded(left, halves.left, k, v)
            /\ halves.right = right
         \/ /\ ~(k < halves.sep) /\ EntryAdded(right, halves.right, k, v)
            /\ halves.left = left
  PROVE  Halved(node, halves, k, v, up)
<1> DEFINE s == node.keys
           c == RefShift(node)
           ref(i) == node.refs[i + c]
           sep == halves.sep
           l == halves.left
           r == halves.right
           len == Len(s)
<1>1. /\ s \in Seq(Key) /\ len \in Nat /\ Sorted(s) /\ k \in Int
      /\ \A i \in 1 .. len : s[i] \in Int
      /\ node.level > 0 => c = 1
  BY NodeFacts, ArrayFacts, KeyInt
<1>2. \A x, y : Holds(node, x, y) <=> \E i \in 1 .. len : s[i] = x /\ ref(i) = y
  BY DEF Holds
<1>3. /\ Len(left.keys) = m /\ Len(right.keys) = len - a + 1
      /\ left.level = node.level /\ right.level = node.level
      /\ node.level > 0 => left.refs[1] = node.refs[1] /\ right.refs[1] = node.refs[a]
      /\ \A x, y : Holds(left, x, y) <=> \E i \in 1 .. m : s[i] = x /\ ref(i) = y
      /\ \A x, y : Holds(right, x, y) <=> \E i \in a .. len : s[i] = x /\ ref(i) = y
      /\ Distinct(s) => Distinct(left.keys) /\ Distinct(right.keys)
  <2> HIDE DEF s, ref, c
  <2>1. m \in Nat /\ (m - 1) + 1 = m /\ (len - a) + 1 = len - a + 1
    BY <1>1 DEF s
  <2> QED  BY <2>1 DEF IsPart, s, ref, c
<1>4. /\ m \in Nat /\ 1 <= m /\ m + 1 <= len /\ a \in Nat /\ m + 1 <= a /\ a <= len
      /\ m + 1 \in 1 .. len /\ sep = s[m + 1] /\ sep \in Int
      /\ (a = m + 1 \/ (up /\ a = m + 2))
  BY <1>1
<1>5. k < sep \/ ~(k < sep)
  OBVIOUS
<1> HIDE DEF s, c, ref, sep, l, r, len
<1>6. Holds(node, sep, ref(m + 1))
  BY <1>2, <1>4
<1>7. \A i \in 1 .. len : (i <= m => s[i] <= sep) /\ (i > m => s[i] >= sep)
  BY <1>1, <1>4 DEF Sorted, len
<1>8. ASSUME NEW x, NEW y
      PROVE  /\ Holds(left, x, y) => Holds(node, x, y) /\ x <= sep
             /\ Holds(right, x, y) => Holds(node, x, y) /\ x >= sep
  <2>1. ASSUME Holds(left, x, y) PROVE Holds(node, x, y) /\ x <= sep
    <3>1. PICK i \in 1 .. m : s[i] = x /\ ref(i) = y
      BY <1>3, <2>1
    <3>2. i \in 1 .. len /\ i <= m
      BY <1>1, <1>4
    <3> QED  BY <1>2, <1>7, <3>1, <3>2
  <2>2. ASSUME Holds(right, x, y) PROVE Holds(node, x, y) /\ x >= sep
    <3>1. PICK i \in a .. len : s[i] = x /\ ref(i) = y
      BY <1>3, <2>2
    <3>2. i \in 1 .. len /\ i > m
      BY <1>1, <1>4
    <3> QED  BY <1>2, <1>7, <3>1, <3>2
  <2> QED  BY <2>1, <2>2
<1>9. ASSUME NEW x, NEW y, Holds(node, x, y)
      PROVE  \/ Holds(left, x, y) \/ Holds(right, x, y)
             \/ up /\ x = sep /\ y = ref(m + 1)
  <2>1. PICK i \in 1 .. len : s[i] = x /\ ref(i) = y
    BY <1>2, <1>9
  <2>2. i \in 1 .. m \/ i \in a .. len \/ (up /\ i = m + 1)
    BY <1>1, <1>4
  <2> QED  BY <1>3, <1>4, <2>1, <2>2
<1>10. node.level > 0 /\ up => right.refs[1] = ref(m + 1)
  <2>1. node.level > 0 /\ up => a = (m + 1) + c
    BY <1>1, <1>4
  <2> QED  BY <1>3, <2>1 DEF ref
<1>11. /\ node.level > 0 => l.refs[1] = left.refs[1] /\ r.refs[1] = right.refs[1]
       /\ \A x, y : Holds(l, x, y) <=> Holds(left, x, y) \/ (k < sep /\ x = k /\ y = v)
       /\ \A x, y : Holds(r, x, y) <=> Holds(right, x, y) \/ (~(k < sep) /\ x = k /\ y = v)
       /\ Len(l.keys) > 0 /\ Len(r.keys) > 0
  <2>1. Len(left.keys) \in Nat /\ Len(left.keys) > 0 /\ Len(right.keys) \in Nat
        /\ Len(right.keys) > 0
    BY <1>1, <1>3, <1>4
  <2>2. CASE k < sep /\ EntryAdded(left, l, k, v) /\ r = right
    BY <1>3, <2>1, <2>2 DEF EntryAdded
  <2>3. CASE ~(k < sep) /\ EntryAdded(right, r, k, v) /\ l = left
    BY <1>3, <2>1, <2>3 DEF EntryAdded
  <2> QED  BY <2>2, <2>3 DEF l, r, sep
<1>12. \A x, y : Holds(r, x, y) => x >= sep
  BY <1>1, <1>4, <1>8, <1>11
<1>13. ASSUME Distinct(s), ~HasKey(node, k)
       PROVE  /\ Distinct(l.keys) /\ Distinct(r.keys)
              /\ \A x, y : Holds(l, x, y) => x < sep
              /\ up => \A x, y : Holds(r, x, y) => sep < x
  <2>0. \A y : ~Holds(node, k, y)
    BY <1>1, <1>13, KeyHolds DEF s, len
  <2>1. ~HasKey(left, k) /\ ~HasKey(right, k)
    <3>1. Len(left.keys) \in Nat /\ Len(right.keys) \in Nat
      BY <1>1, <1>3, <1>4
    <3> QED  BY <1>8, <2>0, <3>1, KeyHolds
  <2>2. Distinct(l.keys) /\ Distinct(r.keys)
    BY <1>3, <1>13, <2>1 DEF EntryAdded, l, r
  <2>3. ASSUME NEW x, NEW y, Holds(left, x, y) PROVE x < sep
    <3>1. PICK i \in 1 .. m : s[i] = x
      BY <1>3, <2>3
    <3>2. i \in 1 .. len /\ i # m + 1
      BY <1>1, <1>4
    <3>3. s[i] # sep
      BY <1>4, <1>13, <3>2 DEF Distinct, len
    <3> QED  BY <1>1, <1>4, <1>8, <2>3, <3>1, <3>2, <3>3
  <2>4. ASSUME up, NEW x, NEW y, Holds(right, x, y) PROVE sep < x
    <3>1. PICK i \in a .. len : s[i] = x
      BY <1>3, <2>4
    <3>2. i \in 1 .. len /\ i # m + 1
      BY <1>1, <1>4, <2>4
    <3>3. s[i] # sep
      BY <1>4, <1>13, <3>2 DEF Distinct, len
    <3> QED  BY <1>1, <1>4, <1>8, <2>4, <3>1, <3>2, <3>3
  <2>5. k # sep
    BY <1>6, <2>0
  <2> QED  BY <1>1, <1>4, <1>11, <2>2, <2>3, <2>4, <2>5
<1>14. \A x, y : Holds(l, x, y) \/ Holds(r, x, y) => Holds(node, x, y) \/ (x = k /\ y = v)
  BY <1>8, <1>11
<1>15. \A x, y : Holds(node, x, y) \/ (x = k /\ y = v) =>
         \/ Holds(l, x, y) \/ Holds(r, x, y)
         \/ up /\ x = sep /\ (node.level > 0 => y = r.refs[1])
  BY <1>9, <1>10, <1>11
<1> QED
  BY <1>3, <1>6, <1>10, <1>11, <1>12, <1>13, <1>14, <1>15 DEF Halved, l, r, sep, s

LEMMA MidBounds ==
  ASSUME NEW c \in Nat, c >= 2
  PROVE  /\ (c + 1) \div 2 \in Nat /\ (c + 1) \div 2 >= 1
         /\ (c + 1) \div 2 + 1 <= c
         /\ c >= 4 => (c + 1) \div 2 + 2 <= c
OBVIOUS

LEMMA LeafSplitHolds ==
  ASSUME NEW n \in Nat, NEW node, NodeOK(node, n), node.level = 0,
         Count(node) >= 2, NEW pid \in 0 .. n - 1,
         NEW k \in Key, NEW v \in Nat
  PROVE  Halved(node, LeafSplit(node, pid, n, k, v), k, v, FALSE)
<1> DEFINE mid == Mid(node)
           a == mid + 1
           len == Count(node)
           sep == node.keys[mid + 1]
           left == LeftHalf(node, SubSeq(node.keys, 1, mid),
                            SubSeq(node.refs, 1, mid), sep, n)
           right == RightHalf(node, SubSeq(node.keys, a, len),
                              SubSeq(node.refs, a, len), pid)
           halves == LeafSplit(node, pid, n, k, v)
<1>1. /\ len \in Nat /\ mid \in 0 .. len - 1 /\ a \in 1 .. len + 1 /\ mid >= 1
      /\ len = Len(node.keys) /\ mid \in 1 .. len - 1 /\ a \in mid + 1 .. len
      /\ mid \in 1 - 1 .. len /\ len \in a - 1 .. len /\ 1 \in 1 .. len + 1
      /\ mid \in 0 .. len
  <2>1. len \in Nat /\ len = Len(node.keys) /\ mid = (len + 1) \div 2 /\ len >= 2
    BY NodeFacts DEF Mid, Count
  <2> HIDE DEF len, mid
  <2>2. len >= 2
    BY <2>1
  <2>3. /\ mid \in Nat /\ mid >= 1 /\ mid + 1 <= len
        /\ len \in Nat /\ len = Len(node.keys)
    BY <2>1, <2>2, MidBounds
  <2> QED  BY <2>3
<1>2. RefShift(node) = 0 /\ mid = mid + RefShift(node) /\ len = len + RefShift(node)
  BY <1>1, ArrayFacts
<1>3. /\ halves.sep = sep
      /\ halves.left = IF k < sep THEN LeafInsert(left, k, v) ELSE left
      /\ halves.right = IF k < sep THEN right ELSE LeafInsert(right, k, v)
  BY DEF LeafSplit
<1>4. sep = node.keys[mid + 1]
  OBVIOUS
<1> HIDE DEF mid, len, a
<1>5. /\ left.keys = SubSeq(node.keys, 1, mid) /\ left.refs = SubSeq(node.refs, 1, mid)
      /\ right.keys = SubSeq(node.keys, a, len) /\ right.refs = SubSeq(node.refs, a, len)
      /\ left.level = node.level /\ right.level = node.level
  BY DEF LeftHalf, RightHalf, NodeOK, Node
<1>6. NodeOK(left, n + 1) /\ NodeOK(right, n + 1) /\ n + 1 \in Nat
  <2>1. NodeOK(left, n + 1)
    BY <1>1, <1>2, LeftHalfOK
  <2>2. NodeOK(right, n + 1)
    BY <1>1, <1>2, RightHalfOK
  <2> QED  BY <2>1, <2>2
<1> HIDE DEF left, right, halves, sep
<1>7. IsPart(node, left, 1, mid)
  BY <1>1, <1>2, <1>5, PartHolds
<1>8. IsPart(node, right, a, Len(node.keys))
  BY <1>1, <1>2, <1>5, PartHolds
<1>9. \/ k < sep /\ EntryAdded(left, halves.left, k, v) /\ halves.right = right
      \/ ~(k < sep) /\ EntryAdded(right, halves.right, k, v) /\ halves.left = left
  <2>1. EntryAdded(left, LeafInsert(left, k, v), k, v)
    BY <1>5, <1>6, LeafInsertHolds
  <2>2. EntryAdded(right, LeafInsert(right, k, v), k, v)
    BY <1>5, <1>6, LeafInsertHolds
  <2> QED  BY <1>3, <2>1, <2>2
<1> DEFINE up == FALSE
<1>10. up \in BOOLEAN /\ a = IF up THEN mid + 2 ELSE mid + 1
  BY DEF a
<1>11. Halved(node, halves, k, v, up)
  <2> HIDE DEF up
  <2> QED  BY <1>1, <1>3, <1>4, <1>7, <1>8, <1>9, <1>10, PartsHalved
<1> QED  BY <1>11 DEF halves

LEMMA InterSplitHolds ==
  ASSUME NEW n \in Nat, NEW node, NodeOK(node, n),
         Count(node) >= 4, NEW pid \in 0 .. n - 1,
         NEW k \in Key, NEW child \in 0 .. n - 1
  PROVE  Halved(node, InterSplit(node, pid, n, k, child), k, child, TRUE)
<1> DEFINE mid == Mid(node)
           a == mid + 2
           len == Count(node)
           c == mid + RefShift(node)
           m == len + RefShift(node)
           sep == node.keys[mid + 1]
           left == LeftHalf(node, SubSeq(node.keys, 1, mid),
                            SubSeq(node.refs, 1, c), sep, n)
           right == RightHalf(node, SubSeq(node.keys, a, len),
                              SubSeq(node.refs, a, m), pid)
           halves == InterSplit(node, pid, n, k, child)
<1>1. /\ len \in Nat /\ mid \in 0 .. len - 1 /\ a \in 1 .. len + 1 /\ mid >= 1
      /\ len = Len(node.keys) /\ mid \in 1 .. len - 1 /\ a \in mid + 1 .. len
      /\ mid \in 1 - 1 .. len /\ len \in a - 1 .. len /\ 1 \in 1 .. len + 1
      /\ mid \in 0 .. len
  <2>1. len \in Nat /\ len = Len(node.keys) /\ mid = (len + 1) \div 2 /\ len >= 4
    BY NodeFacts DEF Mid, Count
  <2> HIDE DEF len, mid
  <2>2. len >= 2
    BY <2>1
  <2>3. /\ mid \in Nat /\ mid >= 1 /\ mid + 2 <= len
        /\ len \in Nat /\ len = Len(node.keys)
    BY <2>1, <2>2, MidBounds
  <2> QED  BY <2>3
<1>3. /\ halves.sep = sep
      /\ halves.left = IF k < sep THEN InterInsert(left, k, child) ELSE left
      /\ halves.right = IF k < sep THEN right ELSE InterInsert(right, k, child)
  BY DEF InterSplit
<1>4. sep = node.keys[mid + 1] /\ c = mid + RefShift(node) /\ m = len + RefShift(node)
  OBVIOUS
<1> HIDE DEF mid, len, a, c, m
<1>5. /\ left.keys = SubSeq(node.keys, 1, mid) /\ left.refs = SubSeq(node.refs, 1, c)
      /\ right.keys = SubSeq(node.keys, a, len) /\ right.refs = SubSeq(node.refs, a, m)
      /\ left.level = node.level /\ right.level = node.level
  BY DEF LeftHalf, RightHalf, NodeOK, Node
<1>6. NodeOK(left, n + 1) /\ NodeOK(right, n + 1) /\ n + 1 \in Nat /\ child \in Nat
  <2>1. NodeOK(left, n + 1)
    BY <1>1, <1>4, LeftHalfOK
  <2>2. NodeOK(right, n + 1)
    BY <1>1, <1>4, RightHalfOK
  <2> QED  BY <2>1, <2>2
<1> HIDE DEF left, right, halves, sep
<1>7. IsPart(node, left, 1, mid)
  BY <1>1, <1>4, <1>5, PartHolds
<1>8. IsPart(node, right, a, Len(node.keys))
  BY <1>1, <1>4, <1>5, PartHolds
<1>9. \/ k < sep /\ EntryAdded(left, halves.left, k, child) /\ halves.right = right
      \/ ~(k < sep) /\ EntryAdded(right, halves.right, k, child) /\ halves.left = left
  <2>1. EntryAdded(left, InterInsert(left, k, child), k, child)
    BY <1>6, InterInsertHolds
  <2>2. EntryAdded(right, InterInsert(right, k, child), k, child)
    BY <1>6, InterInsertHolds
  <2> QED  BY <1>3, <2>1, <2>2
<1> DEFINE up == TRUE
<1>10. up \in BOOLEAN /\ a = IF up THEN mid + 2 ELSE mid + 1
  BY DEF a
<1>11. Halved(node, halves, k, child, up)
  <2> HIDE DEF up
  <2> QED  BY <1>1, <1>3, <1>4, <1>7, <1>8, <1>9, <1>10, PartsHalved
<1> QED  BY <1>11 DEF halves

LEMMA RootNodeHolds ==
  ASSUME NEW level \in Nat, NEW sep, NEW left, NEW right
  PROVE  LET node == RootNode(level, sep, left, right) IN
         /\ node.level = level + 1 /\ node.high = MaxKey /\ node.rlink = NoPage
         /\ Len(node.keys) = 1 /\ node.refs[1] = left
         /\ Distinct(node.keys)
         /\ \A x, y : Holds(node, x, y) <=> x = sep /\ y = right
<1> DEFINE node == RootNode(level, sep, left, right)
<1>1. /\ node.level = level + 1 /\ node.high = MaxKey /\ node.rlink = NoPage
      /\ node.keys = <<sep>> /\ node.refs = <<left, right>>
  BY DEF RootNode, NewNode
<1>2. Len(<<sep>>) = 1 /\ <<sep>>[1] = sep /\ <<left, right>>[1] = left /\ <<left, right>>[2] = right
  OBVIOUS
<1>3. RefShift(node) = 1
  BY <1>1 DEF RefShift
<1> HIDE DEF node
<1>4. \A x, y : Holds(node, x, y) <=> x = sep /\ y = right
  BY <1>1, <1>2, <1>3 DEF Holds
<1>5. Distinct(node.keys)
  BY <1>1, <1>2 DEF Distinct
<1> QED  BY <1>1, <1>2, <1>4, <1>5 DEF node
=============================================================================
