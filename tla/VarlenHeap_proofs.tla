-------------------------- MODULE VarlenHeap_proofs --------------------------
(***************************************************************************)
(* The places of a variable-length page's entries, for every page size,    *)
(* alignment and length of keys.                                           *)
(***************************************************************************)
EXTENDS VarlenHeap, VarlenNode_proofs

-----------------------------------------------------------------------------
(* Offsets count from the page's start and are rounded down, the heap's    *)
(* size counts from its end and is rounded up: it is the same place.       *)
LEMMA DivIs ==
  ASSUME NEW n \in Int, NEW d \in Nat \ {0}, NEW q \in Int,
         q * d <= n, n < q * d + d
  PROVE  n \div d = q
<1> DEFINE p == n \div d
           r == n % d
<1>1. p \in Int /\ r \in 0 .. d - 1 /\ n = p * d + r  BY Z3
<1> HIDE DEF p, r
<1>2. p * d \in Int /\ q * d \in Int /\ (p - q) * d = p * d - q * d /\ p - q \in Int
  BY <1>1
<1>3. ~(p - q >= 1)
  <2> SUFFICES ASSUME p - q >= 1 PROVE FALSE  OBVIOUS
  <2>1. (p - q) * d >= d  BY <1>2
  <2> QED  BY <2>1, <1>1, <1>2
<1>4. ~(q - p >= 1)
  <2> SUFFICES ASSUME q - p >= 1 PROVE FALSE  OBVIOUS
  <2>1. (q - p) * d >= d /\ (q - p) * d = q * d - p * d  BY <1>1
  <2> QED  BY <2>1, <1>1, <1>2
<1>5. p = q  BY <1>1, <1>3, <1>4
<1> QED  BY <1>5 DEF p

LEMMA AlignDownIs ==
  ASSUME NEW n \in Nat
  PROVE  AlignDown(PageSize - n) = PageSize - AlignUp(n)
<1>0. PageSize \in Nat /\ Align \in Nat \ {0}  BY LayoutAssumption
<1>1. PICK p \in Int : PageSize = p * Align
  BY LayoutAssumption, MultipleOf DEF Multiple
<1>2. PICK u \in Int : AlignUp(n) = u * Align
  BY AlignUpBounds DEF Multiple
<1>3. AlignUp(n) \in Nat /\ n <= AlignUp(n) /\ AlignUp(n) < n + Align
  BY AlignUpBounds
<1>4. p - u \in Int /\ (p - u) * Align = PageSize - AlignUp(n)
  BY <1>0, <1>1, <1>2
<1>5. /\ (p - u) * Align <= PageSize - n
      /\ PageSize - n < (p - u) * Align + Align
  BY <1>0, <1>3, <1>4
<1> DEFINE m == PageSize - n
           q == p - u
<1>6. m \in Int /\ q \in Int /\ q * Align <= m /\ m < q * Align + Align
  BY <1>0, <1>4, <1>5
<1> HIDE DEF m, q
<1>7. m \div Align = q  BY ONLY <1>0, <1>6, DivIs
<1> QED  BY <1>4, <1>7 DEF AlignDown, m, q

LEMMA OffsetIs ==
  ASSUME NEW heap \in Nat, NEW k \in Seq(Int)
  PROVE  /\ ReserveSlot(heap, k) \in Nat
         /\ ReserveSlot(heap, k) >= heap + EntryHeader + Len(k)
         /\ ReserveSlot(heap, k) < heap + EntryHeader + Len(k) + Align
         /\ Multiple(ReserveSlot(heap, k), Align)
         /\ Offset(heap, k) = PageSize - ReserveSlot(heap, k)
         /\ Offset(heap, k) \in Int
         /\ Multiple(Offset(heap, k), Align)
<1> DEFINE n == heap + EntryHeader + Len(k)
<1>0. n \in Nat /\ PageSize \in Nat /\ Align \in Nat \ {0} /\ Len(k) \in Nat
      /\ EntryHeader \in Nat
  BY LayoutAssumption
<1>1. ReserveSlot(heap, k) = AlignUp(n)  BY DEF ReserveSlot
<1>2. PageSize - heap - Len(k) - EntryHeader = PageSize - n  BY <1>0
<1>3. Offset(heap, k) = AlignDown(PageSize - n)  BY <1>2 DEF Offset
<1> HIDE DEF n
<1>4. Offset(heap, k) = PageSize - AlignUp(n)  BY <1>0, <1>3, AlignDownIs
<1>5. /\ AlignUp(n) \in Nat /\ n <= AlignUp(n) /\ AlignUp(n) < n + Align
      /\ Multiple(AlignUp(n), Align)
  BY <1>0, AlignUpBounds
<1>6. Multiple(PageSize, Align)  BY LayoutAssumption, MultipleOf
<1>7. Multiple(PageSize - AlignUp(n), Align)
  BY <1>0, <1>5, <1>6, MultipleSum
<1> QED  BY <1>0, <1>1, <1>4, <1>5, <1>7 DEF n

-----------------------------------------------------------------------------
(* The entries of a page are at aligned offsets, one clear of another, and *)
(* none is past the page's end.                                            *)
UpTo(s) == s.ref + EntryHeader + Len(s.key)
Placed(slots) ==
  /\ slots \in Seq(Slot)
  /\ \A i \in DOMAIN slots : Multiple(slots[i].ref, Align) /\ UpTo(slots[i]) <= PageSize
  /\ \A i, j \in DOMAIN slots :
       i = j \/ UpTo(slots[i]) <= slots[j].ref \/ UpTo(slots[j]) <= slots[i].ref

(* The same, and all of them from lo on. *)
Laid(slots, lo) == Placed(slots) /\ \A i \in DOMAIN slots : slots[i].ref >= lo

(* The high key and the prefix beside them. *)
Clear(x, y) == x[2] <= y[1] \/ y[2] <= x[1]
FencesLaid(fences, slots, lo) ==
  /\ \A x \in fences :
       /\ x \in Int \X Int /\ x[1] >= lo /\ x[2] <= PageSize
       /\ \A i \in DOMAIN slots : Clear(x, <<slots[i].ref, UpTo(slots[i])>>)
  /\ \A x, y \in fences : x = y \/ Clear(x, y)

(* CompactHeap on its way: the entries it has not moved are below the new  *)
(* heap, the others in it.                                                 *)
Moving(slots, left, heap) ==
  /\ Placed(slots)
  /\ Multiple(heap, Align)
  /\ left \subseteq DOMAIN slots
  /\ \A i \in left : UpTo(slots[i]) <= PageSize - heap
  /\ \A i \in DOMAIN slots \ left : slots[i].ref >= PageSize - heap

-----------------------------------------------------------------------------
(* Sequences. *)

-----------------------------------------------------------------------------
(* What a page's operations do to the places of its entries. *)

(* Entries taken from a page, each once, stay where they are. *)
LEMMA PlacedPart ==
  ASSUME NEW s, Placed(s), NEW t \in Seq(Slot), NEW f,
         \A i \in DOMAIN t : f[i] \in DOMAIN s /\ t[i] = s[f[i]],
         \A i, j \in DOMAIN t : f[i] = f[j] => i = j
  PROVE  Placed(t)
BY DEF Placed

LEMMA PlacedWithout ==
  ASSUME NEW s, Placed(s), NEW i \in DOMAIN s
  PROVE  /\ Placed(RemoveAt(s, i))
         /\ \A j \in DOMAIN RemoveAt(s, i) :
              \E h \in DOMAIN s : RemoveAt(s, i)[j] = s[h]
<1> DEFINE t == RemoveAt(s, i)
           f == [j \in 1 .. Len(s) - 1 |-> IF j < i THEN j ELSE j + 1]
<1>1. s \in Seq(Slot) /\ DOMAIN s = 1 .. Len(s) /\ Len(s) \in Nat  BY DEF Placed
<1>2. t \in Seq(Slot) /\ Len(t) = Len(s) - 1
      /\ \A j \in 1 .. Len(s) - 1 : t[j] = IF j < i THEN s[j] ELSE s[j + 1]
  BY <1>1, RemoveAtElements
<1> HIDE DEF t
<1>3. DOMAIN t = 1 .. Len(s) - 1  BY <1>2
<1>4. \A j \in DOMAIN t : f[j] \in DOMAIN s /\ t[j] = s[f[j]]
  BY <1>1, <1>2, <1>3
<1>5. \A j, h \in DOMAIN t : f[j] = f[h] => j = h
  BY <1>1, <1>3
<1> HIDE DEF f
<1>6. Placed(t)
  <2>1. Placed(s) /\ t \in Seq(Slot)  BY <1>2
  <2> QED  BY ONLY <2>1, <1>4, <1>5, PlacedPart
<1> QED  BY <1>4, <1>6 DEF t

LEMMA PlacedRange ==
  ASSUME NEW s, Placed(s), NEW n \in 0 .. Len(s)
  PROVE  /\ Placed(SubSeq(s, 1, n))
         /\ DOMAIN SubSeq(s, 1, n) = 1 .. n
         /\ \A j \in 1 .. n : j \in DOMAIN s /\ SubSeq(s, 1, n)[j] = s[j]
<1> DEFINE t == SubSeq(s, 1, n)
           f == [j \in 1 .. n |-> j]
<1>1. s \in Seq(Slot) /\ DOMAIN s = 1 .. Len(s) /\ Len(s) \in Nat  BY DEF Placed
<1>2. t \in Seq(Slot) /\ DOMAIN t = 1 .. n /\ \A j \in 1 .. n : t[j] = s[j]
  BY <1>1
<1> HIDE DEF t
<1>3. \A j \in DOMAIN t : f[j] \in DOMAIN s /\ t[j] = s[f[j]]
  BY <1>1, <1>2
<1>4. \A j, h \in DOMAIN t : f[j] = f[h] => j = h
  BY <1>2
<1> HIDE DEF f
<1>5. Placed(t)
  <2>1. Placed(s) /\ t \in Seq(Slot)  BY <1>2
  <2> QED  BY ONLY <2>1, <1>3, <1>4, PlacedPart
<1> QED  BY <1>1, <1>2, <1>5 DEF t

(* A new entry, below all the others. *)
LEMMA LaidInsert ==
  ASSUME NEW s, NEW lo \in Int, Laid(s, lo), lo <= PageSize,
         NEW i \in 1 .. Len(s) + 1, NEW e \in Slot,
         Multiple(e.ref, Align), UpTo(e) <= lo
  PROVE  /\ Laid(InsertAt(s, i, e), e.ref)
         /\ \A j \in DOMAIN InsertAt(s, i, e) :
              InsertAt(s, i, e)[j] = e \/ \E h \in DOMAIN s : InsertAt(s, i, e)[j] = s[h]
<1> DEFINE t == InsertAt(s, i, e)
<1>1. s \in Seq(Slot) /\ DOMAIN s = 1 .. Len(s) /\ Len(s) \in Nat
  <2>1. s \in Seq(Slot)  BY DEF Laid, Placed
  <2> QED  BY ONLY <2>1
<1>2. t \in Seq(Slot) /\ Len(t) = Len(s) + 1
      /\ \A j \in 1 .. Len(s) + 1 :
           t[j] = IF j < i THEN s[j] ELSE IF j = i THEN e ELSE s[j - 1]
  <2>1. s \in Seq(Slot) /\ i \in 1 .. Len(s) + 1 /\ e \in Slot  BY <1>1
  <2>2. Inserted(t, s, i, e)  BY ONLY <2>1, InsertAtElements
  <2> QED  BY ONLY <2>2 DEF Inserted
<1> HIDE DEF t
<1>3. DOMAIN t = 1 .. Len(s) + 1  BY <1>2
<1>4. EntryHeader \in Nat /\ PageSize \in Nat /\ e.ref \in Int /\ Len(e.key) \in Nat
  BY LayoutAssumption DEF Slot
<1>5. e.ref <= lo  BY <1>4 DEF UpTo
<1> DEFINE f == [j \in 1 .. Len(s) + 1 |-> IF j < i THEN j ELSE j - 1]
<1>6. /\ \A j \in DOMAIN t : (j = i /\ t[j] = e) \/ (j # i /\ f[j] \in DOMAIN s /\ t[j] = s[f[j]])
      /\ \A j, h \in DOMAIN t : j # i /\ h # i /\ f[j] = f[h] => j = h
  BY <1>1, <1>2, <1>3
<1> HIDE DEF f
<1>7. \A h \in DOMAIN s :
        /\ s[h] \in Slot /\ s[h].ref \in Int /\ UpTo(s[h]) \in Int
        /\ s[h].ref >= lo /\ UpTo(s[h]) <= PageSize /\ Multiple(s[h].ref, Align)
  <2> SUFFICES ASSUME NEW h \in DOMAIN s
               PROVE  /\ s[h] \in Slot /\ s[h].ref \in Int /\ UpTo(s[h]) \in Int
                      /\ s[h].ref >= lo /\ UpTo(s[h]) <= PageSize
                      /\ Multiple(s[h].ref, Align)
    OBVIOUS
  <2>1. s[h] \in Slot  BY <1>1
  <2>2. s[h].ref \in Int /\ Len(s[h].key) \in Nat  BY <2>1 DEF Slot
  <2>3. UpTo(s[h]) \in Int  BY <2>2, <1>4 DEF UpTo
  <2> QED  BY <2>1, <2>2, <2>3 DEF Laid, Placed
<1>8. \A h, g \in DOMAIN s :
        h = g \/ UpTo(s[h]) <= s[g].ref \/ UpTo(s[g]) <= s[h].ref
  BY DEF Laid, Placed
<1> HIDE DEF UpTo
<1>9. UpTo(e) \in Int  BY <1>4 DEF UpTo
<1>10. \A j \in DOMAIN t : /\ Multiple(t[j].ref, Align) /\ UpTo(t[j]) <= PageSize
                           /\ t[j].ref >= e.ref
  BY <1>4, <1>5, <1>6, <1>7, <1>9
<1>11. ASSUME NEW j \in DOMAIN t, NEW h \in DOMAIN t
       PROVE  j = h \/ UpTo(t[j]) <= t[h].ref \/ UpTo(t[h]) <= t[j].ref
  <2>1. CASE j = i /\ h = i  BY <2>1
  <2>2. CASE j = i /\ h # i  BY <2>2, <1>4, <1>6, <1>7, <1>9
  <2>3. CASE j # i /\ h = i  BY <2>3, <1>4, <1>6, <1>7, <1>9
  <2>4. CASE j # i /\ h # i  BY <2>4, <1>6, <1>8
  <2> QED  BY <2>1, <2>2, <2>3, <2>4
<1>12. Laid(t, e.ref)  BY <1>2, <1>10, <1>11 DEF Laid, Placed
<1> QED  BY <1>6, <1>12 DEF t

(* CompactHeap moves the entry that is highest of those left: up, and not  *)
(* onto the others, of which one is below it and one it has moved above.   *)
Highest(s, left, i) == i \in left /\ \A j \in left : s[i].ref >= s[j].ref
MovedTo(s, i, k, ref, t) ==
  /\ t \in Seq(Slot) /\ DOMAIN t = DOMAIN s
  /\ t[i].key = k /\ t[i].ref = ref
  /\ \A j \in DOMAIN s : j # i => t[j] = s[j]
Rises(s, t) ==
  \A j, h \in DOMAIN s :
    /\ t[j].ref >= s[j].ref
    /\ s[j].ref < s[h].ref => t[j].ref < t[h].ref

LEMMA MoveStep ==
  ASSUME NEW s, NEW left, NEW heap \in Nat, Moving(s, left, heap),
         NEW i, Highest(s, left, i),
         NEW k \in Seq(Int), Len(k) <= Len(s[i].key),
         NEW t, MovedTo(s, i, k, Offset(heap, k), t)
  PROVE  Moving(t, left \ {i}, ReserveSlot(heap, k)) /\ Rises(s, t)
<1> DEFINE r == Offset(heap, k)
           e == t[i]
           heap2 == ReserveSlot(heap, k)
           lo == PageSize - heap
<1>0. EntryHeader \in Nat \ {0} /\ PageSize \in Nat /\ Align \in Nat \ {0}
      /\ Len(k) \in Nat /\ lo \in Int
  BY LayoutAssumption
<1>1. /\ heap2 \in Nat /\ heap2 >= heap + EntryHeader + Len(k)
      /\ heap2 < heap + EntryHeader + Len(k) + Align
      /\ Multiple(heap2, Align)
      /\ r = PageSize - heap2 /\ r \in Int /\ Multiple(r, Align)
  BY OffsetIs
<1>2. e.ref = r /\ UpTo(e) = r + EntryHeader + Len(k)
  BY <1>1 DEF MovedTo, UpTo
<1>3. /\ s \in Seq(Slot) /\ left \subseteq DOMAIN s /\ i \in DOMAIN s
      /\ i \in left /\ \A j \in left : s[i].ref >= s[j].ref
  BY DEF Moving, Placed, Highest
<1>4. t \in Seq(Slot) /\ DOMAIN t = DOMAIN s /\ t[i] = e
      /\ \A j \in DOMAIN s : j # i => t[j] = s[j]
  BY DEF MovedTo
<1>5. \A j \in DOMAIN s :
        /\ s[j].ref \in Int /\ UpTo(s[j]) \in Int /\ s[j].ref < UpTo(s[j])
        /\ Len(s[j].key) \in Nat /\ UpTo(s[j]) = s[j].ref + EntryHeader + Len(s[j].key)
  <2> SUFFICES ASSUME NEW j \in DOMAIN s
               PROVE  /\ s[j].ref \in Int /\ UpTo(s[j]) \in Int /\ s[j].ref < UpTo(s[j])
                      /\ Len(s[j].key) \in Nat
                      /\ UpTo(s[j]) = s[j].ref + EntryHeader + Len(s[j].key)
    OBVIOUS
  <2>1. s[j] \in Slot  BY <1>3
  <2>2. s[j].ref \in Int /\ Len(s[j].key) \in Nat  BY <2>1 DEF Slot
  <2> QED  BY <2>2, <1>0 DEF UpTo
<1> HIDE DEF e, r, heap2, UpTo
<1>6. /\ \A j \in DOMAIN s : Multiple(s[j].ref, Align) /\ UpTo(s[j]) <= PageSize
      /\ \A j, h \in DOMAIN s :
           j = h \/ UpTo(s[j]) <= s[h].ref \/ UpTo(s[h]) <= s[j].ref
      /\ \A j \in left : UpTo(s[j]) <= lo
      /\ \A j \in DOMAIN s \ left : s[j].ref >= lo
  BY DEF Moving, Placed
<1> HIDE DEF lo
<1>7. r >= s[i].ref
  <2> DEFINE d == s[i].ref - r
  <2> SUFFICES ASSUME d > 0 PROVE FALSE  BY <1>1, <1>3, <1>5
  <2>1. d \in Int /\ Multiple(d, Align)
    <3> DEFINE a == s[i].ref
    <3>1. a \in Int /\ Multiple(a, Align) /\ r \in Int /\ Multiple(r, Align) /\ Align \in Int
      BY <1>0, <1>1, <1>3, <1>5, <1>6
    <3> HIDE DEF a
    <3>2. Multiple(a - r, Align)  BY ONLY <3>1, MultipleSum
    <3> QED  BY <3>1, <3>2 DEF a
  <2>2. d >= Align
    <3> HIDE DEF d
    <3> QED  BY <2>1, <1>0, MultipleIsLarge
  <2>3. UpTo(s[i]) <= PageSize - heap  BY <1>3, <1>6 DEF lo
  <2>4. s[i].ref + EntryHeader + Len(k) <= PageSize - heap
    BY <2>3, <1>0, <1>3, <1>5
  <2> DEFINE a == s[i].ref
             n == heap + EntryHeader + Len(k)
  <2>5. a \in Int /\ n \in Int /\ a + n <= PageSize /\ a - r >= Align
    BY <2>2, <2>4, <1>0, <1>3, <1>5
  <2>6. heap2 < n + Align  BY <1>0, <1>1
  <2> HIDE DEF a, n, d
  <2> QED  BY ONLY <2>5, <2>6, <1>0, <1>1
<1>8. UpTo(e) \in Int /\ UpTo(e) <= lo /\ r < UpTo(e) /\ lo <= PageSize /\ r = PageSize - heap2
  BY <1>0, <1>1, <1>2 DEF lo
<1>9. \A j \in left : j # i => UpTo(s[j]) <= r
  BY <1>1, <1>3, <1>5, <1>6, <1>7
<1>10. ASSUME NEW j \in DOMAIN t
       PROVE  Multiple(t[j].ref, Align) /\ UpTo(t[j]) <= PageSize
  <2>1. CASE j = i
    <3>1. t[j] = e  BY <2>1, <1>4
    <3>2. UpTo(e) <= PageSize  BY ONLY <1>0, <1>8
    <3> QED  BY <3>1, <3>2, <1>1, <1>2
  <2>2. CASE j # i  BY <2>2, <1>4, <1>6
  <2> QED  BY <2>1, <2>2
<1>11. ASSUME NEW j \in DOMAIN t, NEW h \in DOMAIN t
       PROVE  j = h \/ UpTo(t[j]) <= t[h].ref \/ UpTo(t[h]) <= t[j].ref
  <2>1. ASSUME NEW g \in DOMAIN s, g # i
        PROVE  UpTo(e) <= s[g].ref \/ UpTo(s[g]) <= e.ref
    <3>1. CASE g \in left  BY <3>1, <2>1, <1>2, <1>9
    <3>2. CASE g \notin left  BY <3>2, <1>0, <1>5, <1>6, <1>8
    <3> QED  BY <3>1, <3>2
  <2>2. CASE j = i  BY <2>1, <2>2, <1>4
  <2>3. CASE h = i  BY <2>1, <2>3, <1>4
  <2>4. CASE j # i /\ h # i  BY <2>4, <1>4, <1>6
  <2> QED  BY <2>2, <2>3, <2>4
<1>12. Placed(t)  BY <1>4, <1>10, <1>11 DEF Placed
<1>13. /\ \A j \in left \ {i} : UpTo(t[j]) <= PageSize - heap2
       /\ \A j \in DOMAIN t \ (left \ {i}) : t[j].ref >= PageSize - heap2
  <2>1. r <= lo  BY <1>0, <1>1, <1>8
  <2>2. \A j \in DOMAIN s \ left : s[j].ref >= r  BY <2>1, <1>0, <1>1, <1>5, <1>6
  <2> QED  BY <2>2, <1>1, <1>2, <1>3, <1>4, <1>8, <1>9
<1>14. Moving(t, left \ {i}, heap2)
  BY <1>1, <1>3, <1>4, <1>12, <1>13 DEF Moving
<1>15. ASSUME NEW j \in DOMAIN s, NEW h \in DOMAIN s
       PROVE  /\ t[j].ref >= s[j].ref
              /\ s[j].ref < s[h].ref => t[j].ref < t[h].ref
  <2>1. t[j].ref >= s[j].ref
    <3>1. CASE j = i  BY <3>1, <1>2, <1>4, <1>7
    <3>2. CASE j # i
      <4>1. t[j].ref = s[j].ref /\ s[j].ref \in Int  BY <3>2, <1>4, <1>5
      <4> QED  BY ONLY <4>1
    <3> QED  BY <3>1, <3>2
  <2>2. ASSUME s[j].ref < s[h].ref  PROVE t[j].ref < t[h].ref
    <3>1. CASE j = i
      <4>1. h \notin left  BY <3>1, <2>2, <1>3, <1>5
      <4>2. s[h].ref >= lo /\ h # i  BY <4>1, <1>3, <1>6
      <4>3. t[j].ref = r /\ t[h].ref = s[h].ref
        BY <3>1, <4>2, <1>2, <1>4
      <4>4. s[h].ref \in Int /\ r \in Int /\ lo \in Int /\ UpTo(e) \in Int
        BY <1>0, <1>1, <1>5, <1>8
      <4> QED  BY ONLY <4>2, <4>3, <4>4, <1>8
    <3>2. CASE h = i
      <4>1. j # i  BY <3>2, <2>2, <1>5
      <4> QED  BY <3>2, <4>1, <2>2, <1>1, <1>2, <1>4, <1>5, <1>7
    <3>3. CASE j # i /\ h # i  BY <3>3, <2>2, <1>4
    <3> QED  BY <3>1, <3>2, <3>3
  <2> QED  BY <2>1, <2>2
<1> QED  BY <1>14, <1>15 DEF heap2, Rises

-----------------------------------------------------------------------------
(* Induction over the natural numbers, as a fact about sets of them. *)

-----------------------------------------------------------------------------
(* The heap of a new page, entry after entry. *)

(* There is a function that satisfies HeapAt's equation. *)
LEMMA HeapAtEquation ==
  ASSUME NEW slots, Len(slots) \in Nat
  PROVE  HeapAt(slots) = [i \in 0 .. Len(slots) |->
            IF i = 0 THEN 0 ELSE ReserveSlot(HeapAt(slots)[i - 1], slots[i].key)]
<1> DEFINE Is(f, m) == f = [i \in 0 .. m |->
            IF i = 0 THEN 0 ELSE ReserveSlot(f[i - 1], slots[i].key)]
           S == {m \in Nat : \E f : Is(f, m)}
<1>1. 0 \in S
  <2> DEFINE f == [i \in 0 .. 0 |-> 0]
  <2>1. Is(f, 0)  OBVIOUS
  <2> QED  BY <2>1
<1>2. ASSUME NEW m \in Nat, m \in S  PROVE m + 1 \in S
  <2>1. PICK f : Is(f, m)  BY <1>2
  <2> DEFINE g == [i \in 0 .. m + 1 |->
                     IF i <= m THEN f[i] ELSE ReserveSlot(f[m], slots[m + 1].key)]
  <2>2. ASSUME NEW i \in 0 .. m + 1
        PROVE  g[i] = IF i = 0 THEN 0 ELSE ReserveSlot(g[i - 1], slots[i].key)
    <3>1. CASE i = 0  BY <3>1, <2>1
    <3>2. CASE i \in 1 .. m  BY <3>2, <2>1
    <3>3. CASE i = m + 1
      <4>1. i # 0 /\ i - 1 = m /\ ~(m + 1 <= m) /\ m <= m /\ m \in 0 .. m + 1
        BY <3>3
      <4> QED  BY <3>3, <4>1
    <3> QED  BY <3>1, <3>2, <3>3
  <2>3. Is(g, m + 1)
    <3> HIDE DEF g
    <3>1. g = [i \in 0 .. m + 1 |-> g[i]]  BY DEF g
    <3> QED  BY <2>2, <3>1
  <2> HIDE DEF g, Is
  <2>4. \E f1 : Is(f1, m + 1)  BY <2>3
  <2> QED  BY <2>4
<1>3. Nat \subseteq S
  <2> HIDE DEF S
  <2> QED  BY <1>1, <1>2, Induction
<1>4. \E f : Is(f, Len(slots))  BY <1>3
<1> QED  BY <1>4 DEF HeapAt

LEMMA HeapAtGrows ==
  ASSUME NEW s \in Seq(Slot)
  PROVE  /\ \A i \in 0 .. Len(s) : HeapAt(s)[i] \in Nat
         /\ \A i \in 1 .. Len(s) : HeapAt(s)[i] = ReserveSlot(HeapAt(s)[i - 1], s[i].key)
         /\ \A i, j \in 0 .. Len(s) : i <= j => HeapAt(s)[i] <= HeapAt(s)[j]
<1> DEFINE at == HeapAt(s)
           n == Len(s)
<1>0. n \in Nat /\ DOMAIN s = 1 .. n /\ EntryHeader \in Nat
      /\ \A i \in 1 .. n : s[i].key \in Seq(Int) /\ Len(s[i].key) \in Nat
  <2>1. n \in Nat /\ DOMAIN s = 1 .. n  OBVIOUS
  <2>2. \A i \in 1 .. n : s[i] \in Slot  OBVIOUS
  <2> QED  BY <2>1, <2>2, LayoutAssumption DEF Slot
<1>1. at = [i \in 0 .. n |-> IF i = 0 THEN 0 ELSE ReserveSlot(at[i - 1], s[i].key)]
  BY <1>0, HeapAtEquation
<1> HIDE DEF at
<1>2. at[0] = 0 /\ \A i \in 1 .. n : at[i] = ReserveSlot(at[i - 1], s[i].key)
  BY <1>0, <1>1
<1> HIDE DEF n
<1> DEFINE S == {m \in Nat : m <= n => /\ at[m] \in Nat
                                       /\ \A i \in 0 .. m : at[i] \in Nat /\ at[i] <= at[m]}
<1>3. 0 \in S  BY <1>2
<1>4. ASSUME NEW m \in Nat, m \in S  PROVE m + 1 \in S
  <2> SUFFICES ASSUME m + 1 <= n
               PROVE  /\ at[m + 1] \in Nat
                      /\ \A i \in 0 .. m + 1 : at[i] \in Nat /\ at[i] <= at[m + 1]
    OBVIOUS
  <2>1. m + 1 \in 1 .. n /\ (m + 1) - 1 = m /\ m <= n  BY <1>0
  <2>2. at[m] \in Nat /\ \A i \in 0 .. m : at[i] \in Nat /\ at[i] <= at[m]  BY <1>4, <2>1
  <2>3. at[m + 1] = ReserveSlot(at[m], s[m + 1].key)  BY <1>2, <2>1
  <2>4. /\ s[m + 1].key \in Seq(Int) /\ Len(s[m + 1].key) \in Nat
    BY <1>0, <2>1
  <2>5. at[m + 1] \in Nat /\ at[m + 1] >= at[m] + EntryHeader + Len(s[m + 1].key)
    BY <2>2, <2>3, <2>4, OffsetIs
  <2>6. at[m] <= at[m + 1]  BY <2>2, <2>4, <2>5, <1>0
  <2>7. ASSUME NEW i \in 0 .. m + 1  PROVE at[i] \in Nat /\ at[i] <= at[m + 1]
    <3>1. CASE i = m + 1  BY <3>1, <2>5
    <3>2. CASE i # m + 1
      <4>1. i \in 0 .. m  BY <3>2
      <4>2. at[i] \in Nat /\ at[i] <= at[m]  BY <4>1, <2>2
      <4> QED  BY <4>2, <2>2, <2>5, <2>6
    <3> QED  BY <3>1, <3>2
  <2> QED  BY <2>5, <2>7
<1>5. Nat \subseteq S
  <2> HIDE DEF S
  <2> QED  BY <1>3, <1>4, Induction
<1>6. \A m \in 0 .. n : at[m] \in Nat /\ \A i \in 0 .. m : at[i] <= at[m]
  BY <1>0, <1>5
<1>7. \A i, j \in 0 .. n : i <= j => at[i] <= at[j]
  BY <1>0, <1>6
<1> QED  BY <1>2, <1>6, <1>7 DEF at, n

LEMMA FreshLaid ==
  ASSUME NEW s \in Seq(Slot),
         NEW t, t = [i \in DOMAIN s |->
                      [key |-> s[i].key, ref |-> Offset(HeapAt(s)[i - 1], s[i].key)]]
  PROVE  /\ HeapAt(s)[Len(s)] \in Nat
         /\ Laid(t, PageSize - HeapAt(s)[Len(s)])
<1> DEFINE at == HeapAt(s)
           n == Len(s)
<1>0. n \in Nat /\ DOMAIN s = 1 .. n /\ PageSize \in Nat /\ EntryHeader \in Nat
  BY LayoutAssumption
<1>1. /\ \A i \in 0 .. n : at[i] \in Nat
      /\ \A i \in 1 .. n : at[i] = ReserveSlot(at[i - 1], s[i].key)
      /\ \A i, j \in 0 .. n : i <= j => at[i] <= at[j]
  BY HeapAtGrows
<1>2. at[n] \in Nat  BY <1>0, <1>1
<1>3. \A i \in 1 .. n : s[i].key \in Seq(Int)
  <2>1. \A i \in 1 .. n : s[i] \in Slot  BY <1>0
  <2> QED  BY <2>1 DEF Slot
<1>4. DOMAIN t = 1 .. n
      /\ \A i \in 1 .. n : t[i] = [key |-> s[i].key, ref |-> Offset(at[i - 1], s[i].key)]
  BY <1>0
<1> HIDE DEF at, n
<1>5. ASSUME NEW i \in 1 .. n
      PROVE  /\ t[i] \in Slot /\ t[i].ref = PageSize - at[i]
             /\ UpTo(t[i]) \in Int /\ UpTo(t[i]) <= PageSize - at[i - 1]
             /\ Multiple(t[i].ref, Align)
             /\ at[i] \in Nat /\ at[i - 1] \in Nat /\ at[i] <= at[n]
  <2> DEFINE k == s[i].key
             a == at[i - 1]
             r == Offset(a, k)
  <2>1. i - 1 \in 0 .. n /\ i \in 0 .. n /\ n \in 0 .. n /\ i <= n  BY <1>0
  <2>2. a \in Nat /\ at[i] \in Nat /\ at[i] <= at[n] /\ k \in Seq(Int) /\ Len(k) \in Nat
    BY <2>1, <1>1, <1>3
  <2>3. at[i] = ReserveSlot(a, k)  BY <1>1
  <2>4. t[i] = [key |-> k, ref |-> r]  BY <1>4
  <2> HIDE DEF a, k, r
  <2>5. /\ ReserveSlot(a, k) >= a + EntryHeader + Len(k)
        /\ r = PageSize - ReserveSlot(a, k) /\ r \in Int /\ Multiple(r, Align)
    BY <2>2, OffsetIs DEF r
  <2>6. t[i] \in Slot /\ t[i].ref = r /\ t[i].key = k  BY <2>2, <2>4, <2>5 DEF Slot
  <2>7. UpTo(t[i]) = r + EntryHeader + Len(k)  BY <2>6 DEF UpTo
  <2>8. UpTo(t[i]) \in Int /\ UpTo(t[i]) <= PageSize - a
    <3> DEFINE u == UpTo(t[i])
               l == Len(k)
               h == ReserveSlot(a, k)
    <3>1. /\ a \in Nat /\ h \in Nat /\ l \in Nat /\ PageSize \in Nat /\ EntryHeader \in Nat
          /\ h >= a + EntryHeader + l /\ r = PageSize - h /\ u = r + EntryHeader + l
      BY <2>2, <2>3, <2>5, <2>7, <1>0
    <3> HIDE DEF u, l, h
    <3>2. u \in Int /\ u <= PageSize - a  BY ONLY <3>1
    <3> QED  BY ONLY <3>2 DEF u
  <2>9. Multiple(t[i].ref, Align)  BY ONLY <2>5, <2>6
  <2>10. t[i] \in Slot /\ t[i].ref = PageSize - at[i]  BY ONLY <2>3, <2>5, <2>6
  <2> QED  BY ONLY <2>2, <2>8, <2>9, <2>10 DEF a
<1>6. t \in Seq(Slot)
  <2>1. t = [i \in 1 .. n |-> t[i]]  BY <1>0
  <2>2. \A i \in 1 .. n : t[i] \in Slot  BY <1>5
  <2>3. t \in [1 .. n -> Slot]  BY ONLY <2>1, <2>2
  <2> QED  BY ONLY <2>3, <1>0
<1>7. \A i \in DOMAIN t : /\ Multiple(t[i].ref, Align) /\ UpTo(t[i]) <= PageSize
                          /\ t[i].ref >= PageSize - at[n]
  <2> SUFFICES ASSUME NEW i \in 1 .. n
               PROVE  /\ Multiple(t[i].ref, Align) /\ UpTo(t[i]) <= PageSize
                      /\ t[i].ref >= PageSize - at[n]
    BY <1>4
  <2>1. /\ t[i].ref = PageSize - at[i] /\ at[i] \in Nat /\ at[i] <= at[n]
        /\ UpTo(t[i]) \in Int /\ UpTo(t[i]) <= PageSize - at[i - 1] /\ at[i - 1] \in Nat
        /\ Multiple(t[i].ref, Align)
    BY <1>5
  <2> QED  BY <2>1, <1>0, <1>2
<1>8. ASSUME NEW i \in 1 .. n, NEW j \in 1 .. n, i < j  PROVE UpTo(t[j]) <= t[i].ref
  <2>1. i \in 0 .. n /\ j - 1 \in 0 .. n /\ i <= j - 1  BY <1>0, <1>8
  <2>2. at[i] <= at[j - 1]  BY <2>1, <1>1
  <2> QED  BY <2>2, <1>0, <1>5
<1>9. ASSUME NEW i \in DOMAIN t, NEW j \in DOMAIN t
      PROVE  i = j \/ UpTo(t[i]) <= t[j].ref \/ UpTo(t[j]) <= t[i].ref
  <2>1. i \in 1 .. n /\ j \in 1 .. n /\ (i = j \/ i < j \/ j < i)  BY <1>0, <1>4
  <2> QED  BY <2>1, <1>8
<1>10. Laid(t, PageSize - at[n])  BY <1>6, <1>7, <1>9 DEF Laid, Placed
<1> QED  BY <1>2, <1>10 DEF at, n

-----------------------------------------------------------------------------
(* The fences. *)

LEMMA HighSizeIs ==
  ASSUME NEW heap \in Nat, NEW high \in Seq(Int)
  PROVE  /\ HighSize(heap, high) \in Nat
         /\ HighSize(heap, high) >= heap
         /\ high # NoKey => HighSize(heap, high) >= heap + EntryHeader + Len(high)
<1>1. Len(high) \in Nat /\ EntryHeader \in Nat  BY LayoutAssumption
<1>2. /\ ReserveSlot(heap, high) \in Nat
      /\ ReserveSlot(heap, high) >= heap + EntryHeader + Len(high)
  BY OffsetIs
<1>3. ReserveSlot(heap, high) >= heap  BY <1>1, <1>2
<1>4. CASE high = NoKey  BY <1>4 DEF HighSize
<1>5. CASE high # NoKey  BY <1>2, <1>3, <1>5 DEF HighSize
<1> QED  BY <1>4, <1>5

(* They stay clear when entries are taken away, or come below them.        *)
LEMMA FencesKept ==
  ASSUME NEW fences, NEW s, NEW lo \in Int, FencesLaid(fences, s, lo),
         NEW t, NEW lo2 \in Int, lo2 <= lo,
         \A i \in DOMAIN t :
           \/ \E j \in DOMAIN s : t[i] = s[j]
           \/ UpTo(t[i]) \in Int /\ UpTo(t[i]) <= lo
  PROVE  FencesLaid(fences, t, lo2)
<1>1. ASSUME NEW x \in fences
      PROVE  /\ x \in Int \X Int /\ x[1] >= lo2 /\ x[2] <= PageSize
             /\ \A i \in DOMAIN t : Clear(x, <<t[i].ref, UpTo(t[i])>>)
  <2>1. /\ x \in Int \X Int /\ x[1] >= lo /\ x[2] <= PageSize
        /\ \A i \in DOMAIN s : Clear(x, <<s[i].ref, UpTo(s[i])>>)
    BY DEF FencesLaid
  <2>2. x[1] \in Int /\ x[1] >= lo2  BY <2>1
  <2>3. ASSUME NEW i \in DOMAIN t  PROVE Clear(x, <<t[i].ref, UpTo(t[i])>>)
    <3>1. CASE \E j \in DOMAIN s : t[i] = s[j]  BY <3>1, <2>1
    <3>2. CASE UpTo(t[i]) \in Int /\ UpTo(t[i]) <= lo
      <4>1. UpTo(t[i]) <= x[1]  BY <3>2, <2>1, <2>2
      <4> QED  BY <4>1 DEF Clear
    <3> QED  BY <3>1, <3>2
  <2> QED  BY <2>1, <2>2, <2>3
<1> QED  BY <1>1 DEF FencesLaid

(* A high key and a prefix that are appended to a heap, in either order.   *)
LEMMA FencesAppended ==
  ASSUME NEW s, NEW lo \in Int, Laid(s, lo), lo <= PageSize,
         NEW lo2 \in Int, lo2 <= lo, NEW fences,
         \A x \in fences : x \in Int \X Int /\ lo2 <= x[1] /\ x[2] <= lo,
         \A x, y \in fences : x = y \/ Clear(x, y)
  PROVE  Laid(s, lo2) /\ FencesLaid(fences, s, lo2)
<1>1. \A i \in DOMAIN s : s[i].ref \in Int /\ s[i].ref >= lo
  <2>1. s \in Seq(Slot) /\ \A i \in DOMAIN s : s[i].ref >= lo
    BY DEF Laid, Placed
  <2>2. \A i \in DOMAIN s : s[i] \in Slot  BY <2>1
  <2> QED  BY <2>1, <2>2 DEF Slot
<1>2. Laid(s, lo2)
  <2>1. \A i \in DOMAIN s : s[i].ref >= lo2  BY <1>1
  <2> QED  BY <2>1 DEF Laid
<1>3. ASSUME NEW x \in fences
      PROVE  /\ x \in Int \X Int /\ x[1] >= lo2 /\ x[2] <= PageSize
             /\ \A i \in DOMAIN s : Clear(x, <<s[i].ref, UpTo(s[i])>>)
  <2>1. x \in Int \X Int /\ x[1] \in Int /\ x[2] \in Int /\ lo2 <= x[1] /\ x[2] <= lo
    OBVIOUS
  <2>2. PageSize \in Nat  BY LayoutAssumption
  <2>3. \A i \in DOMAIN s : x[2] <= s[i].ref  BY <1>1, <2>1
  <2> QED  BY <2>1, <2>2, <2>3 DEF Clear
<1> QED  BY <1>2, <1>3 DEF FencesLaid

-----------------------------------------------------------------------------
(* The invariant of a page. *)

Top == PageSize - node.heap
Fences == (IF node.high = NoKey THEN {} ELSE {HighKey})
            \cup (IF node.prefix = <<>> THEN {} ELSE {Prefix})

HeapType ==
  /\ node \in Node
  /\ highAt \in Int /\ prefixAt \in Int
  /\ stage \in {"ready", "move", "insert"}
  /\ toMove \subseteq DOMAIN node.slots
  /\ plan \in [cut : Nat, high : Seq(Int), prefix : Seq(Int), key : Seq(Int)]

(* The key that waits for the split is not shorter than its half's prefix, *)
(* and no key is shorter than what is cut off it.                          *)
PlanFits ==
  /\ stage # "move" => toMove = {}
  /\ stage = "insert" => ~TooShort(node, plan.key)
  /\ stage = "move" =>
       /\ plan.key # NoKey => Len(plan.prefix) <= Len(plan.key)
       /\ \A i \in toMove : plan.cut <= Len(node.slots[i].key)

HeapInv ==
  /\ HeapType
  /\ PlanFits
  /\ stage = "move" => Moving(node.slots, toMove, node.heap)
  /\ stage # "move" =>
       Laid(node.slots, Top) /\ FencesLaid(Fences, node.slots, Top)

LEMMA NodeParts ==
  ASSUME node \in Node
  PROVE  /\ node.slots \in Seq(Slot) /\ Count(node) = Len(node.slots) /\ Count(node) \in Nat
         /\ DOMAIN node.slots = 1 .. Count(node)
         /\ node.heap \in Nat /\ node.dead \in Nat
         /\ node.prefix \in Seq(Int) /\ Len(node.prefix) \in Nat
         /\ node.high \in Seq(Int) /\ Len(node.high) \in Nat
         /\ \A i \in DOMAIN node.slots :
              /\ node.slots[i].key \in Seq(Int) /\ Len(node.slots[i].key) \in Nat
              /\ node.slots[i].ref \in Int
<1>1. node.slots \in Seq(Slot) /\ Count(node) = Len(node.slots)  BY DEF Node, Count
<1>2. \A i \in DOMAIN node.slots : node.slots[i] \in Slot  BY <1>1
<1>3. ASSUME NEW i \in DOMAIN node.slots
      PROVE  /\ node.slots[i].key \in Seq(Int) /\ Len(node.slots[i].key) \in Nat
             /\ node.slots[i].ref \in Int
  BY <1>2 DEF Slot
<1> QED  BY <1>1, <1>3 DEF Node

LEMMA KeysAreBytes ==
  ASSUME NEW k \in Keys
  PROVE  k \in Seq(Int)
<1>1. PICK n \in 1 .. MaxLen : k = [i \in 1 .. n |-> 0]  BY DEF Keys, Bytes
<1>2. n \in Nat  BY MaxLenAssumption
<1> QED  BY <1>1, <1>2

LEMMA NoPlanWith ==
  ASSUME NEW k \in Seq(Int)
  PROVE  /\ [NoPlan EXCEPT !.key = k] \in
              [cut : Nat, high : Seq(Int), prefix : Seq(Int), key : Seq(Int)]
         /\ [NoPlan EXCEPT !.key = k].key = k
<1>1. [NoPlan EXCEPT !.key = k] = [cut |-> 0, high |-> NoKey, prefix |-> <<>>, key |-> k]
  BY DEF NoPlan
<1>2. <<>> \in Seq(Int) /\ NoKey \in Seq(Int) /\ 0 \in Nat  BY NoKeyIsKey
<1> DEFINE p == [NoPlan EXCEPT !.key = k]
           none == <<>>
<1>3. p = [cut |-> 0, high |-> NoKey, prefix |-> none, key |-> k]  BY <1>1
<1>4. none \in Seq(Int)  BY <1>2
<1> HIDE DEF p, none
<1>5. /\ p \in [cut : Nat, high : Seq(Int), prefix : Seq(Int), key : Seq(Int)]
      /\ p.key = k
  BY <1>2, <1>3, <1>4
<1> QED  BY <1>5 DEF p

-----------------------------------------------------------------------------
(* An entry is put on a page. *)
LEMMA PutKeeps ==
  ASSUME node \in Node, Laid(node.slots, Top), FencesLaid(Fences, node.slots, Top),
         NEW k \in Seq(Int), ~TooShort(node, k), Put(k),
         highAt' = highAt, prefixAt' = prefixAt
  PROVE  /\ node' \in Node
         /\ Laid(node'.slots, Top') /\ FencesLaid(Fences', node'.slots, Top')
         /\ node'.prefix = node.prefix
<1> DEFINE s == RemoveKeyPrefix(node, k)
           e == [key |-> s, ref |-> Offset(node.heap, s)]
           heap == ReserveSlot(node.heap, s)
<1>1. /\ node.slots \in Seq(Slot) /\ Count(node) = Len(node.slots) /\ Count(node) \in Nat
      /\ node.heap \in Nat /\ node.prefix \in Seq(Int) /\ Len(node.prefix) \in Nat
  BY NodeParts
<1>2. s \in Seq(Int) /\ Len(s) \in Nat
  <2>1. Len(node.prefix) <= Len(k)  BY <1>1 DEF TooShort
  <2>2. SubSeq(k, Len(node.prefix) + 1, Len(k)) \in Seq(Int)  BY <1>1, <2>1, SuffixIs
  <2> QED  BY <2>2 DEF RemoveKeyPrefix
<1>3. PICK idx \in {0, Count(node)} :
        node' = [node EXCEPT !.slots = InsertAt(@, idx + 1, e), !.heap = heap]
  BY DEF Put, InsertSlot
<1> DEFINE i == idx + 1
           slots == InsertAt(node.slots, i, e)
<1>4. i \in 1 .. Len(node.slots) + 1  BY <1>1
<1> HIDE DEF s
<1>5. /\ heap \in Nat /\ heap >= node.heap + EntryHeader + Len(s)
      /\ e.ref = PageSize - heap /\ e.ref \in Int /\ Multiple(e.ref, Align)
  BY <1>1, <1>2, OffsetIs
<1>6. e \in Slot /\ UpTo(e) = PageSize - heap + EntryHeader + Len(s)
  BY <1>2, <1>5 DEF Slot, UpTo
<1> HIDE DEF e, heap, i
<1>7. Top \in Int /\ Top <= PageSize /\ UpTo(e) <= Top /\ UpTo(e) \in Int /\ e.ref <= Top
  <2> DEFINE a == node.heap
             l == Len(s)
             r == e.ref
             u == UpTo(e)
  <2>1. /\ a \in Nat /\ l \in Nat /\ heap \in Nat /\ PageSize \in Nat /\ EntryHeader \in Nat
        /\ heap >= a + EntryHeader + l /\ r = PageSize - heap
        /\ u = PageSize - heap + EntryHeader + l /\ Top = PageSize - a
    BY <1>1, <1>2, <1>5, <1>6, LayoutAssumption DEF Top
  <2> HIDE DEF a, l, r, u
  <2>2. Top \in Int /\ Top <= PageSize /\ u <= Top /\ u \in Int /\ r <= Top
    BY ONLY <2>1
  <2> QED  BY <2>2 DEF u, r
<1>8. /\ Laid(slots, e.ref)
      /\ \A j \in DOMAIN slots : slots[j] = e \/ \E h \in DOMAIN node.slots : slots[j] = node.slots[h]
  <2> DEFINE base == node.slots
             top == Top
  <2>1. /\ Laid(base, top) /\ top \in Int /\ top <= PageSize
        /\ i \in 1 .. Len(base) + 1 /\ e \in Slot
        /\ Multiple(e.ref, Align) /\ UpTo(e) <= top
    BY <1>4, <1>5, <1>6, <1>7
  <2> HIDE DEF base, top
  <2>2. /\ Laid(InsertAt(base, i, e), e.ref)
        /\ \A j \in DOMAIN InsertAt(base, i, e) :
             InsertAt(base, i, e)[j] = e \/ \E h \in DOMAIN base : InsertAt(base, i, e)[j] = base[h]
    BY ONLY <2>1, LaidInsert
  <2> QED  BY <2>2 DEF base
<1>9. slots \in Seq(Slot)  BY <1>8 DEF Laid, Placed
<1> HIDE DEF slots
<1>10. /\ node' \in Node /\ node'.slots = slots /\ node'.heap = heap
       /\ node'.prefix = node.prefix /\ node'.high = node.high
  <2>1. node' = [node EXCEPT !.slots = slots, !.heap = heap]
    BY <1>3 DEF slots, i
  <2> QED  BY <2>1, <1>5, <1>9 DEF Node
<1>11. Top' = e.ref  BY <1>5, <1>10 DEF Top
<1>12. Fences' = Fences
  <2>1. HighKey' = HighKey /\ Prefix' = Prefix  BY <1>10 DEF HighKey, Prefix
  <2> QED  BY <2>1, <1>10 DEF Fences
<1>13. FencesLaid(Fences, slots, e.ref)
  <2>1. \A j \in DOMAIN slots : \/ \E h \in DOMAIN node.slots : slots[j] = node.slots[h]
                                \/ UpTo(slots[j]) \in Int /\ UpTo(slots[j]) <= Top
    BY <1>7, <1>8
  <2> DEFINE fences == Fences
             top == Top
             lo == e.ref
             old == node.slots
  <2>2. /\ top \in Int /\ FencesLaid(fences, old, top) /\ lo \in Int /\ lo <= top
        /\ \A j \in DOMAIN slots : \/ \E h \in DOMAIN old : slots[j] = old[h]
                                   \/ UpTo(slots[j]) \in Int /\ UpTo(slots[j]) <= top
    BY <2>1, <1>5, <1>7
  <2> HIDE DEF fences, top, lo, old
  <2>3. FencesLaid(fences, slots, lo)  BY ONLY <2>2, FencesKept
  <2> QED  BY <2>3 DEF fences, lo
<1> QED  BY <1>8, <1>10, <1>11, <1>12, <1>13

(* CompactHeap begins. *)
LEMMA CompactKeeps ==
  ASSUME HeapType, NEW slots, Placed(slots),
         NEW cut \in Nat, NEW high \in Seq(Int), NEW prefix \in Seq(Int), NEW k \in Seq(Int),
         k # NoKey => Len(prefix) <= Len(k),
         \A i \in DOMAIN slots : cut <= Len(slots[i].key),
         Compact(slots, cut, high, prefix, k)
  PROVE  HeapInv'
<1>1. slots \in Seq(Slot)  BY DEF Placed
<1>2. node' = [node EXCEPT !.slots = slots, !.heap = 0]  BY DEF Compact
<1>3. node' \in Node /\ node'.slots = slots /\ node'.heap = 0
  BY <1>1, <1>2 DEF HeapType, Node
<1>4. /\ stage' = "move" /\ toMove' = DOMAIN slots
      /\ plan' = [cut |-> cut, high |-> high, prefix |-> prefix, key |-> k]
      /\ highAt' = highAt /\ prefixAt' = prefixAt
  BY DEF Compact
<1>5. HeapType'
  BY <1>3, <1>4 DEF HeapType
<1>6. PlanFits'
  BY <1>3, <1>4 DEF PlanFits
<1>7. Moving(slots, DOMAIN slots, 0)
  <2>1. Multiple(0, Align)
    <3>1. 0 = 0 * Align  BY LayoutAssumption
    <3> QED  BY <3>1 DEF Multiple
  <2>2. PageSize - 0 = PageSize  BY LayoutAssumption
  <2> QED  BY <2>1, <2>2 DEF Moving, Placed
<1>8. Moving(node'.slots, toMove', node'.heap)  BY <1>3, <1>4, <1>7
<1>9. stage' = "move"  BY <1>4
<1> QED  BY <1>5, <1>6, <1>8, <1>9 DEF HeapInv

(* Of the slots left there is one at the highest offset. *)
LEMMA NextToMoveIs ==
  ASSUME HeapType, Moving(node.slots, toMove, node.heap), toMove # {}
  PROVE  /\ NextToMove \in toMove
         /\ \A j \in toMove : node.slots[NextToMove].ref >= node.slots[j].ref
<1> DEFINE depth(i) == PageSize - node.slots[i].ref
           T == {depth(i) : i \in toMove}
<1>0. PageSize \in Nat /\ EntryHeader \in Nat  BY LayoutAssumption
<1>1. ASSUME NEW i \in toMove
      PROVE  node.slots[i].ref \in Int /\ depth(i) \in Nat
  <2>1. i \in DOMAIN node.slots /\ UpTo(node.slots[i]) <= PageSize
    BY DEF Moving, Placed
  <2>2. Len(node.slots[i].key) \in Nat /\ node.slots[i].ref \in Int
    BY <2>1, NodeParts DEF HeapType
  <2> QED  BY <2>1, <2>2, <1>0 DEF UpTo
<1>2. PICK d \in T : \A c \in T : d <= c
  <2>1. T \in SUBSET Nat /\ T # {}  BY <1>1
  <2> HIDE DEF T
  <2> QED  BY <2>1, LeastOf
<1>3. PICK i \in toMove : d = depth(i)  BY <1>2
<1>4. \A j \in toMove : depth(i) <= depth(j)  BY <1>2, <1>3
<1>5. \A j \in toMove : node.slots[i].ref >= node.slots[j].ref
  BY <1>0, <1>1, <1>4
<1> QED  BY <1>5 DEF NextToMove

LEMMA MoveKeeps ==
  ASSUME HeapInv, MoveEntry
  PROVE  /\ HeapInv'
         /\ DOMAIN node'.slots = DOMAIN node.slots /\ SlotsEnd(node') = SlotsEnd(node)
         /\ \A i, j \in DOMAIN node.slots :
              /\ node'.slots[i].ref >= node.slots[i].ref
              /\ node.slots[i].ref < node.slots[j].ref =>
                   node'.slots[i].ref < node'.slots[j].ref
<1> DEFINE i == NextToMove
           old == node.slots
           heap == node.heap
           k == SubSeq(old[i].key, plan.cut + 1, Len(old[i].key))
           e == [key |-> k, ref |-> Offset(heap, k)]
           t == [old EXCEPT ![i] = e]
<1>1. /\ HeapType /\ stage = "move" /\ toMove # {}
      /\ Moving(old, toMove, heap)
      /\ \A j \in toMove : plan.cut <= Len(old[j].key)
      /\ plan.key # NoKey => Len(plan.prefix) <= Len(plan.key)
  BY DEF HeapInv, MoveEntry, PlanFits
<1>2. i \in toMove /\ \A j \in toMove : old[i].ref >= old[j].ref
  BY <1>1, NextToMoveIs
<1>3. i \in DOMAIN old /\ heap \in Nat /\ old \in Seq(Slot)
      /\ old[i].key \in Seq(Int) /\ Len(old[i].key) \in Nat
      /\ plan.cut \in Nat /\ plan.cut <= Len(old[i].key)
  BY <1>1, <1>2, NodeParts DEF HeapType
<1>4. k \in Seq(Int) /\ Len(k) <= Len(old[i].key)
  BY <1>3, SuffixIs
<1>5. /\ node' = [node EXCEPT !.slots[i] = e, !.heap = ReserveSlot(heap, k)]
      /\ toMove' = toMove \ {i}
      /\ highAt' = highAt /\ prefixAt' = prefixAt /\ stage' = stage /\ plan' = plan
  BY DEF MoveEntry
<1> HIDE DEF i, k
<1>6. /\ t \in Seq(Slot) /\ DOMAIN t = DOMAIN old /\ t[i] = e
      /\ \A j \in DOMAIN old : j # i => t[j] = old[j]
      /\ ReserveSlot(heap, k) \in Nat
  <2>1. e \in Slot /\ ReserveSlot(heap, k) \in Nat  BY <1>3, <1>4, OffsetIs DEF Slot
  <2> HIDE DEF e, old, heap
  <2> QED  BY <2>1, <1>3
<1>7. Moving(t, toMove \ {i}, ReserveSlot(heap, k)) /\ Rises(old, t)
  <2> DEFINE left == toMove
             ref == Offset(heap, k)
  <2>1. Highest(old, left, i)  BY <1>2 DEF Highest
  <2>2. t[i].key = k /\ t[i].ref = ref  BY <1>6
  <2>3. MovedTo(old, i, k, ref, t)
    <3> HIDE DEF old, t, ref
    <3> QED  BY <1>6, <2>2 DEF MovedTo
  <2>4. /\ heap \in Nat /\ Moving(old, left, heap) /\ k \in Seq(Int)
        /\ Len(k) <= Len(old[i].key) /\ MovedTo(old, i, k, Offset(heap, k), t)
    BY <1>1, <1>3, <1>4, <2>3
  <2> HIDE DEF left, old, heap, e, t, ref
  <2>5. Moving(t, left \ {i}, ReserveSlot(heap, k)) /\ Rises(old, t)
    BY ONLY <2>1, <2>4, MoveStep
  <2> QED  BY <2>5 DEF left
<1>8. /\ node' \in Node /\ node'.slots = t /\ node'.heap = ReserveSlot(heap, k)
  BY <1>1, <1>5, <1>6 DEF HeapType, Node
<1> HIDE DEF t, heap, old, e
<1>9. HeapType'
  <2>1. toMove' \subseteq DOMAIN t  BY <1>1, <1>5, <1>6 DEF HeapType, old
  <2> QED  BY <2>1, <1>1, <1>5, <1>8 DEF HeapType
<1>10. PlanFits'
  <2>1. \A j \in toMove' : j \in toMove /\ t[j] = old[j]
    BY <1>1, <1>5, <1>6 DEF HeapType, old
  <2>2. \A j \in toMove' : plan'.cut <= Len(node'.slots[j].key)
    BY <2>1, <1>1, <1>5, <1>8
  <2> QED  BY <2>2, <1>1, <1>5 DEF PlanFits
<1>11. Moving(node'.slots, toMove', node'.heap)  BY <1>5, <1>7, <1>8
<1>12. stage' = "move"  BY <1>1, <1>5
<1>13. HeapInv'  BY <1>9, <1>10, <1>11, <1>12 DEF HeapInv
<1>14. DOMAIN node'.slots = DOMAIN node.slots  BY <1>6, <1>8 DEF old
<1>15. SlotsEnd(node') = SlotsEnd(node)
  <2>1. Len(t) = Len(old)
    <3>1. t \in Seq(Slot) /\ old \in Seq(Slot) /\ DOMAIN t = DOMAIN old  BY <1>3, <1>6
    <3> QED  BY ONLY <3>1
  <2> QED  BY <2>1, <1>8 DEF SlotsEnd, Count, old
<1> QED  BY <1>7, <1>8, <1>13, <1>14, <1>15 DEF old, Rises

(* The high key and the prefix of the page that is laid out anew. *)
LEMMA AppendKeeps ==
  ASSUME HeapInv, AppendFences
  PROVE  HeapInv' /\ node'.slots = node.slots
<1> DEFINE lo == PageSize - node.heap
           heap == HighSize(node.heap, plan.high)
           top == heap + Len(plan.prefix)
<1>1. /\ HeapType /\ stage = "move" /\ toMove = {}
      /\ Moving(node.slots, {}, node.heap)
      /\ plan.key # NoKey => Len(plan.prefix) <= Len(plan.key)
  BY DEF HeapInv, AppendFences, PlanFits
<1>2. /\ node' = [node EXCEPT !.dead = 0, !.heap = top, !.high = plan.high, !.prefix = plan.prefix]
      /\ highAt' = PageSize - heap
      /\ prefixAt' = PageSize - heap - Len(plan.prefix)
      /\ stage' = IF plan.key = NoKey THEN "ready" ELSE "insert"
      /\ plan' = [NoPlan EXCEPT !.key = plan.key]
      /\ toMove' = toMove
  BY DEF AppendFences
<1>3. /\ node.heap \in Nat /\ PageSize \in Nat /\ EntryHeader \in Nat
      /\ plan.high \in Seq(Int) /\ Len(plan.high) \in Nat
      /\ plan.prefix \in Seq(Int) /\ Len(plan.prefix) \in Nat
      /\ plan.key \in Seq(Int) /\ Len(plan.key) \in Nat
  <2>1. node.heap \in Nat  BY <1>1, NodeParts DEF HeapType
  <2> QED  BY <2>1, <1>1, LayoutAssumption DEF HeapType
<1>4. /\ heap \in Nat /\ heap >= node.heap
      /\ plan.high # NoKey => heap >= node.heap + EntryHeader + Len(plan.high)
  BY <1>3, HighSizeIs
<1> HIDE DEF heap
<1> DEFINE high == plan.high
           prefix == plan.prefix
           len == Len(prefix)
<1>5. /\ node' \in Node /\ node'.slots = node.slots /\ node'.heap = top
      /\ node'.high = high /\ node'.prefix = prefix
  <2>1. /\ node \in Node /\ top \in Nat /\ high \in Seq(Int) /\ prefix \in Seq(Int)
        /\ node' = [node EXCEPT !.dead = 0, !.heap = top, !.high = high, !.prefix = prefix]
    BY <1>1, <1>2, <1>3, <1>4 DEF HeapType
  <2> HIDE DEF top, high, prefix
  <2> QED  BY <2>1 DEF Node
<1>6. HeapType'
  <2>1. plan' \in [cut : Nat, high : Seq(Int), prefix : Seq(Int), key : Seq(Int)]
    BY <1>2, <1>3, NoPlanWith
  <2>2. highAt' \in Int /\ prefixAt' \in Int /\ stage' \in {"ready", "move", "insert"}
    BY <1>2, <1>3, <1>4
  <2> QED  BY <2>1, <2>2, <1>1, <1>2, <1>5 DEF HeapType
<1>7. PlanFits' /\ stage' # "move"
  <2>1. plan'.key = plan.key  BY <1>2, <1>3, NoPlanWith
  <2>2. stage' = "insert" => Len(plan'.key) >= Len(node'.prefix)
    BY <2>1, <1>1, <1>2, <1>5
  <2>3. stage' # "move"  BY <1>2
  <2>4. Len(plan'.key) \in Nat /\ Len(node'.prefix) \in Nat  BY <2>1, <1>3, <1>5
  <2>5. toMove' = {}  BY <1>1, <1>2
  <2> QED  BY <2>2, <2>3, <2>4, <2>5 DEF PlanFits, TooShort
<1>8. Laid(node.slots, lo)  BY <1>1 DEF Moving, Laid
<1>9. Top' = PageSize - top /\ Top' \in Int /\ Top' <= lo /\ lo \in Int /\ lo <= PageSize
  <2>1. Top' = PageSize - top  BY <1>5 DEF Top
  <2>2. top \in Nat /\ top >= node.heap  BY <1>3, <1>4
  <2> HIDE DEF top
  <2> QED  BY <2>1, <2>2, <1>3
<1>10. /\ node'.high # NoKey =>
            /\ HighKey' = <<PageSize - heap, PageSize - heap + EntryHeader + Len(high)>>
            /\ PageSize - heap \in Int /\ PageSize - heap + EntryHeader + Len(high) \in Int
            /\ PageSize - heap >= Top' /\ PageSize - heap + EntryHeader + Len(high) <= lo
       /\ /\ Prefix' = <<PageSize - top, PageSize - heap>>
          /\ PageSize - top \in Int /\ PageSize - heap \in Int
          /\ PageSize - top >= Top' /\ PageSize - heap <= lo
  <2>1. HighKey' = <<PageSize - heap, PageSize - heap + EntryHeader + Len(high)>>
    BY <1>2, <1>5 DEF HighKey
  <2>2. len \in Nat /\ prefixAt' = PageSize - heap - len  BY <1>2, <1>3
  <2>3. top = heap + len  OBVIOUS
  <2>4. Prefix' = <<prefixAt', prefixAt' + len>>  BY <1>5 DEF Prefix
  <2> HIDE DEF len, top
  <2>5. prefixAt' = PageSize - top /\ prefixAt' + len = PageSize - heap
    BY <2>2, <2>3, <1>3, <1>4
  <2>6. Prefix' = <<PageSize - top, PageSize - heap>>  BY <2>4, <2>5
  <2>7. /\ PageSize - top \in Int /\ PageSize - heap \in Int
        /\ PageSize - top >= Top' /\ PageSize - heap <= lo
        /\ PageSize - heap >= PageSize - top
    BY <2>2, <2>3, <1>3, <1>4, <1>9
  <2>8. ASSUME node'.high # NoKey
        PROVE  /\ PageSize - heap + EntryHeader + Len(high) \in Int
               /\ PageSize - heap + EntryHeader + Len(high) <= lo
    <3>1. high # NoKey  BY <2>8, <1>5
    <3>2. Len(high) \in Nat /\ heap >= node.heap + EntryHeader + Len(high)
      BY <3>1, <1>3, <1>4
    <3> HIDE DEF high
    <3> QED  BY <3>2, <1>3, <1>4
  <2>9. PageSize - heap >= Top'  BY <2>2, <2>3, <1>3, <1>4, <1>9
  <2> QED  BY <2>1, <2>6, <2>7, <2>8, <2>9
<1> HIDE DEF lo, top
<1>11. \A x \in Fences' : x \in Int \X Int /\ Top' <= x[1] /\ x[2] <= lo
  BY <1>10 DEF Fences
<1>12. \A x, y \in Fences' : x = y \/ Clear(x, y)
  BY <1>10 DEF Fences, Clear
<1>13. Laid(node.slots, Top') /\ FencesLaid(Fences', node.slots, Top')
  <2> DEFINE fences == Fences'
             lo2 == Top'
             s == node.slots
  <2>1. /\ lo \in Int /\ Laid(s, lo) /\ lo <= PageSize /\ lo2 \in Int /\ lo2 <= lo
        /\ \A x \in fences : x \in Int \X Int /\ lo2 <= x[1] /\ x[2] <= lo
        /\ \A x, y \in fences : x = y \/ Clear(x, y)
    BY <1>8, <1>9, <1>11, <1>12
  <2> HIDE DEF fences, lo2, s
  <2>2. Laid(s, lo2) /\ FencesLaid(fences, s, lo2)  BY ONLY <2>1, FencesAppended
  <2> QED  BY <2>2 DEF fences, lo2, s
<1> QED  BY <1>5, <1>6, <1>7, <1>13 DEF HeapInv

-----------------------------------------------------------------------------
(* Splits. *)

(* Both halves get entries. *)
LEMMA SplitPointIs ==
  ASSUME node \in Node, ~NoSplitPoint(node)
  PROVE  FindSplitPoint(node) \in 1 .. Count(node) - 1
<1>1. Count(node) \in Nat  BY NodeParts
<1>2. SplitPoints(node) \subseteq 1 .. Count(node)  BY DEF SplitPoints
<1>3. PICK m \in SplitPoints(node) : m # Count(node)
  BY DEF NoSplitPoint
<1>4. PICK n \in SplitPoints(node) : \A j \in SplitPoints(node) : n <= j
  <2> DEFINE T == SplitPoints(node)
  <2>1. T \in SUBSET Nat /\ T # {}  BY <1>1, <1>2, <1>3
  <2> HIDE DEF T
  <2>2. \E n \in T : \A j \in T : n <= j  BY <2>1, LeastOf
  <2> QED  BY <2>2 DEF T
<1> DEFINE p == FindSplitPoint(node)
<1>5. p \in SplitPoints(node) /\ \A j \in SplitPoints(node) : p <= j
  BY <1>4 DEF FindSplitPoint
<1> HIDE DEF p
<1>6. p \in 1 .. Count(node) /\ m \in 1 .. Count(node) /\ p <= m
  BY <1>2, <1>3, <1>5
<1>7. p \in 1 .. Count(node) - 1  BY <1>1, <1>3, <1>6
<1> QED  BY <1>7 DEF p

LEMMA SeparatorIs ==
  ASSUME node \in Node, ~NoSplitPoint(node)
  PROVE  /\ Separator \in Seq(Int)
         /\ Len(Separator) =
              Len(node.prefix) + Len(node.slots[FindSplitPoint(node) + 1].key)
<1> DEFINE i == FindSplitPoint(node) + 1
           a == node.prefix
           b == node.slots[i].key
<1>1. i \in DOMAIN node.slots
  <2>1. FindSplitPoint(node) \in 1 .. Count(node) - 1 /\ Count(node) \in Nat
        /\ DOMAIN node.slots = 1 .. Count(node)
    BY SplitPointIs, NodeParts
  <2> QED  BY <2>1
<1>2. a \in Seq(Int) /\ b \in Seq(Int)
  <2> HIDE DEF i
  <2> QED  BY <1>1, NodeParts
<1>3. Separator = a \o b  BY DEF Separator, Sentinel
<1> HIDE DEF a, b, i
<1>4. a \o b \in Seq(Int) /\ Len(a \o b) = Len(a) + Len(b)
  BY ONLY <1>2, ConcatLen
<1> QED  BY <1>3, <1>4 DEF a, b, i

LEMMA SplitLeftKeeps ==
  ASSUME HeapInv, NEW k \in Keys, Splits(k), NEW cut \in 0 .. MaxLen, NEW here \in BOOLEAN,
         SplitLeft(k, cut, here)
  PROVE  HeapInv'
<1> DEFINE n == FindSplitPoint(node)
           prefix == SubSeq(Separator, 1, Len(node.prefix) + cut)
           key == IF here THEN k ELSE NoKey
<1>1. /\ HeapType /\ node \in Node /\ stage = "ready" /\ Placed(node.slots)
      /\ ~NoSplitPoint(node) /\ k \in Seq(Int) /\ cut \in Nat
  BY KeysAreBytes, MaxLenAssumption DEF HeapInv, HeapType, Splits, Laid
<1>2. /\ \A len \in Lengths(Lower) : cut <= len
      /\ Len(node.prefix) + cut <= Len(Separator)
      /\ here => Len(node.prefix) + cut <= Len(k)
      /\ Compact(Lower, cut, Separator, prefix, key)
  BY DEF SplitLeft
<1>3. n \in 1 .. Count(node) - 1 /\ n \in 0 .. Len(node.slots)
  <2>1. n \in 1 .. Count(node) - 1 /\ Count(node) \in Nat /\ Count(node) = Len(node.slots)
    BY <1>1, SplitPointIs, NodeParts
  <2> QED  BY <2>1
<1>4. Placed(Lower)
  <2>1. Placed(SubSeq(node.slots, 1, n))  BY <1>1, <1>3, PlacedRange
  <2> QED  BY <2>1 DEF Lower
<1>5. Separator \in Seq(Int)  BY <1>1, SeparatorIs
<1>6. prefix \in Seq(Int) /\ Len(prefix) = Len(node.prefix) + cut
  <2> DEFINE len == Len(node.prefix) + cut
  <2>1. len \in Nat  BY <1>1, NodeParts
  <2>2. len <= Len(Separator)  BY <1>2
  <2> HIDE DEF len
  <2>3. SubSeq(Separator, 1, len) \in Seq(Int) /\ Len(SubSeq(Separator, 1, len)) = len
    BY <1>5, <2>1, <2>2, StartIs
  <2> QED  BY <2>3 DEF len
<1> HIDE DEF n, prefix
<1>7. key \in Seq(Int) /\ (key # NoKey => Len(prefix) <= Len(key))
  BY <1>1, <1>2, <1>6, NoKeyIsKey
<1>8. \A i \in DOMAIN Lower : cut <= Len(Lower[i].key)  BY <1>2 DEF Lengths
<1> HIDE DEF key
<1> QED  BY <1>1, <1>2, <1>4, <1>5, <1>6, <1>7, <1>8, CompactKeeps

LEMMA SplitRightKeeps ==
  ASSUME HeapInv, NEW k \in Keys, Splits(k), NEW cut \in 0 .. MaxLen, NEW here \in BOOLEAN,
         SplitRight(k, cut, here)
  PROVE  HeapInv'
<1> DEFINE n == FindSplitPoint(node)
           upper == Cut(Upper, cut)
           at == HeapAt(upper)
           prefix == SubSeq(Separator, 1, Len(node.prefix) + cut)
           first == at[Len(upper)]
           len == Len(prefix)
           heap == first + len
           top == HighSize(heap, node.high)
           slots == [i \in DOMAIN upper |->
                      [key |-> upper[i].key, ref |-> Offset(at[i - 1], upper[i].key)]]
           lo == PageSize - first
<1>1. /\ HeapType /\ node \in Node /\ stage = "ready" /\ toMove = {}
      /\ ~NoSplitPoint(node) /\ k \in Seq(Int) /\ cut \in Nat
  BY KeysAreBytes, MaxLenAssumption DEF HeapInv, HeapType, Splits, PlanFits
<1>2. /\ \A l \in Lengths(Upper) : cut <= l
      /\ here => Len(k) >= len
      /\ node' = [node EXCEPT !.slots = slots, !.heap = top, !.dead = 0,
                              !.prefix = prefix, !.llink = 0]
      /\ prefixAt' = PageSize - heap
      /\ highAt' = PageSize - top
      /\ plan' = [NoPlan EXCEPT !.key = IF here THEN k ELSE NoKey]
      /\ stage' = IF here THEN "insert" ELSE "ready"
      /\ toMove' = toMove
  BY DEF SplitRight
<1>3. /\ node.slots \in Seq(Slot) /\ Count(node) = Len(node.slots) /\ Count(node) \in Nat
      /\ node.prefix \in Seq(Int) /\ Len(node.prefix) \in Nat
      /\ node.high \in Seq(Int) /\ Len(node.high) \in Nat
      /\ PageSize \in Nat /\ EntryHeader \in Nat
  BY <1>1, NodeParts, LayoutAssumption
<1>4. n \in 1 .. Count(node) - 1  BY <1>1, SplitPointIs
<1>5. /\ Upper \in Seq(Slot) /\ 1 \in DOMAIN Upper /\ Upper[1] = node.slots[n + 1]
  <2> DEFINE s == node.slots
             c == Len(s)
  <2>1. s \in Seq(Slot) /\ c \in Nat /\ n \in 1 .. c - 1  BY <1>3, <1>4
  <2> HIDE DEF s, n
  <2>2. /\ SubSeq(s, n + 1, c) \in Seq(Slot) /\ 1 \in DOMAIN SubSeq(s, n + 1, c)
        /\ SubSeq(s, n + 1, c)[1] = s[n + 1]
    BY <2>1
  <2> QED  BY <2>2, <1>3 DEF Upper, s, n
<1>6. \A i \in DOMAIN Upper : cut <= Len(Upper[i].key)  BY <1>2 DEF Lengths
<1>7. upper \in Seq(Slot)  BY <1>1, <1>5, <1>6, CutIs
<1>8. prefix \in Seq(Int) /\ len \in Nat
  <2>1. /\ Separator \in Seq(Int)
        /\ Len(Separator) = Len(node.prefix) + Len(node.slots[n + 1].key)
    BY <1>1, SeparatorIs
  <2>2. cut <= Len(Upper[1].key)  BY <1>5, <1>6
  <2>3. Len(Upper[1].key) \in Nat
    <3>1. Upper[1] \in Slot  BY <1>5
    <3> QED  BY <3>1 DEF Slot
  <2>4. Len(Separator) = Len(node.prefix) + Len(Upper[1].key)  BY <2>1, <1>5
  <2>5. Len(node.prefix) + cut \in Nat /\ Len(node.prefix) + cut <= Len(Separator)
    BY <2>2, <2>3, <2>4, <1>1, <1>3
  <2> QED  BY <2>1, <2>5, StartIs
<1> HIDE DEF n, upper, prefix
<1>9. first \in Nat /\ Laid(slots, lo)
  BY <1>7, FreshLaid
<1>10. slots \in Seq(Slot)  BY <1>9 DEF Laid, Placed
<1> HIDE DEF slots, at, first, len
<1>11. heap \in Nat  BY <1>8, <1>9
<1>12. /\ top \in Nat /\ top >= heap
       /\ node.high # NoKey => top >= heap + EntryHeader + Len(node.high)
  <2> HIDE DEF heap
  <2> QED  BY <1>3, <1>11, HighSizeIs
<1> HIDE DEF top
<1>13. /\ node' \in Node /\ node'.slots = slots /\ node'.heap = top
       /\ node'.high = node.high /\ node'.prefix = prefix
  <2>1. /\ node \in Node /\ slots \in Seq(Slot) /\ top \in Nat /\ prefix \in Seq(Int)
        /\ node' = [node EXCEPT !.slots = slots, !.heap = top, !.dead = 0,
                                 !.prefix = prefix, !.llink = 0]
    BY <1>1, <1>2, <1>8, <1>10, <1>12
  <2>2. node' \in Node
    <3>1. node' = [level |-> node.level, slots |-> slots, heap |-> top, dead |-> 0,
                   prefix |-> prefix, marked |-> node.marked, high |-> node.high,
                   rlink |-> node.rlink, llink |-> 0]
      BY ONLY <2>1 DEF Node
    <3>2. /\ node.level \in Nat /\ node.marked \in BOOLEAN /\ node.high \in Seq(Int)
          /\ node.rlink \in Int
      BY ONLY <2>1 DEF Node
    <3> QED  BY ONLY <2>1, <3>1, <3>2 DEF Node
  <2>3. /\ node'.slots = slots /\ node'.heap = top
        /\ node'.high = node.high /\ node'.prefix = prefix
    BY ONLY <2>1 DEF Node
  <2> QED  BY ONLY <2>2, <2>3
<1>14. HeapType'
  <2>1. /\ plan' \in [cut : Nat, high : Seq(Int), prefix : Seq(Int), key : Seq(Int)]
    BY <1>1, <1>2, NoPlanWith, NoKeyIsKey
  <2>2. highAt' \in Int /\ prefixAt' \in Int  BY <1>2, <1>3, <1>11, <1>12
  <2>3. stage' \in {"ready", "move", "insert"} /\ toMove' = {}  BY <1>1, <1>2
  <2> QED  BY <2>1, <2>2, <2>3, <1>13 DEF HeapType
<1>15. PlanFits' /\ stage' # "move"
  <2>1. stage' # "move" /\ toMove' = {}  BY <1>1, <1>2
  <2>2. ASSUME stage' = "insert"  PROVE ~TooShort(node', plan'.key)
    <3>1. here  BY <2>2, <1>2
    <3>2. plan'.key = k  BY <3>1, <1>1, <1>2, NoPlanWith
    <3>3. Len(k) >= len /\ Len(node'.prefix) = len /\ Len(k) \in Nat
      BY <3>1, <1>1, <1>2, <1>13 DEF len
    <3> QED  BY <3>2, <3>3, <1>8 DEF TooShort
  <2> QED  BY <2>1, <2>2 DEF PlanFits
<1>16. Top' = PageSize - top /\ Top' \in Int /\ Top' <= lo /\ lo \in Int /\ lo <= PageSize
  BY <1>3, <1>8, <1>9, <1>12, <1>13 DEF Top
<1>17. /\ Prefix' = <<PageSize - heap, lo>>
       /\ PageSize - heap \in Int /\ PageSize - heap >= Top'
  <2>1. Prefix' = <<prefixAt', prefixAt' + len>>  BY <1>13 DEF Prefix, len
  <2>2. prefixAt' + len = lo  BY <1>2, <1>3, <1>8, <1>9
  <2>3. PageSize - heap \in Int /\ PageSize - heap >= Top'
    BY <1>3, <1>11, <1>12, <1>16
  <2> QED  BY <2>1, <2>2, <2>3, <1>2
<1>18. ASSUME node'.high # NoKey
       PROVE  /\ HighKey' = <<PageSize - top, PageSize - top + EntryHeader + Len(node.high)>>
              /\ PageSize - top \in Int /\ PageSize - top >= Top'
              /\ PageSize - top + EntryHeader + Len(node.high) \in Int
              /\ PageSize - top + EntryHeader + Len(node.high) <= PageSize - heap
              /\ PageSize - top + EntryHeader + Len(node.high) <= lo
  <2>1. HighKey' = <<PageSize - top, PageSize - top + EntryHeader + Len(node.high)>>
    BY <1>2, <1>13 DEF HighKey
  <2>2. top >= heap + EntryHeader + Len(node.high)  BY <1>12, <1>13, <1>18
  <2>3. heap >= first  BY <1>8, <1>9
  <2> DEFINE m == Len(node.high)
             a == PageSize - top
  <2>4. m \in Nat /\ EntryHeader \in Nat /\ PageSize \in Nat /\ top \in Nat
        /\ heap \in Nat /\ first \in Nat /\ top >= heap + EntryHeader + m
    BY <2>2, <1>3, <1>9, <1>11, <1>12
  <2>5. a \in Int /\ a >= Top'  BY <1>16, <2>4
  <2> HIDE DEF heap, m
  <2>6. a + EntryHeader + m \in Int /\ a + EntryHeader + m <= PageSize - heap
        /\ a + EntryHeader + m <= lo
    BY ONLY <2>3, <2>4 DEF a, lo
  <2> QED  BY <2>1, <2>5, <2>6 DEF m
<1> HIDE DEF lo, heap
<1>19. \A x \in Fences' : x \in Int \X Int /\ Top' <= x[1] /\ x[2] <= lo
  BY <1>16, <1>17, <1>18 DEF Fences
<1>20. \A x, y \in Fences' : x = y \/ Clear(x, y)
  BY <1>17, <1>18 DEF Fences, Clear
<1>21. Laid(node'.slots, Top') /\ FencesLaid(Fences', node'.slots, Top')
  <2> DEFINE fences == Fences'
             lo2 == Top'
  <2>1. /\ lo \in Int /\ Laid(slots, lo) /\ lo <= PageSize /\ lo2 \in Int /\ lo2 <= lo
        /\ \A x \in fences : x \in Int \X Int /\ lo2 <= x[1] /\ x[2] <= lo
        /\ \A x, y \in fences : x = y \/ Clear(x, y)
    BY <1>9, <1>16, <1>19, <1>20
  <2> HIDE DEF fences, lo2
  <2>2. Laid(slots, lo2) /\ FencesLaid(fences, slots, lo2)  BY ONLY <2>1, FencesAppended
  <2> QED  BY <2>2, <1>13 DEF fences, lo2
<1> QED  BY <1>14, <1>15, <1>21 DEF HeapInv

-----------------------------------------------------------------------------
LEMMA DeleteKeeps ==
  ASSUME HeapInv, NEW i \in DOMAIN node.slots, Delete(i)
  PROVE  /\ HeapInv'
         /\ node'.slots = RemoveAt(node.slots, i)
         /\ stage' # "move" => node'.heap = node.heap
<1> DEFINE slots == RemoveAt(node.slots, i)
           dead == node.dead + EntrySize(node.slots[i].key)
<1>1. /\ HeapType /\ node \in Node /\ stage = "ready" /\ Placed(node.slots)
      /\ Laid(node.slots, Top) /\ FencesLaid(Fences, node.slots, Top) /\ toMove = {}
  BY DEF HeapInv, HeapType, Delete, Laid, PlanFits
<1>2. Placed(slots) /\ \A j \in DOMAIN slots : \E h \in DOMAIN node.slots : slots[j] = node.slots[h]
  BY <1>1, PlacedWithout
<1>3. dead \in Nat
  <2> DEFINE k == node.slots[i].key
  <2>1. Len(k) \in Nat /\ node.dead \in Nat  BY <1>1, NodeParts
  <2>2. EntryHeader + Len(k) \in Nat  BY <2>1, LayoutAssumption
  <2> HIDE DEF k
  <2>3. EntrySize(k) \in Nat  BY <2>2, AlignUpBounds DEF EntrySize
  <2> QED  BY <2>1, <2>3 DEF k
<1> HIDE DEF slots, dead
<1>4. CASE dead > PageSize \div 4
  <2>1. Compact(slots, 0, node.high, node.prefix, NoKey)
    BY <1>1, <1>4 DEF Delete, slots, dead
  <2>2. node.high \in Seq(Int) /\ node.prefix \in Seq(Int)  BY <1>1, NodeParts
  <2>3. \A j \in DOMAIN slots : 0 <= Len(slots[j].key)
    <3> SUFFICES ASSUME NEW j \in DOMAIN slots PROVE 0 <= Len(slots[j].key)  OBVIOUS
    <3>1. PICK h \in DOMAIN node.slots : slots[j] = node.slots[h]  BY <1>2
    <3>2. Len(node.slots[h].key) \in Nat  BY <1>1, NodeParts
    <3> QED  BY <3>1, <3>2
  <2>4. HeapInv'
    <3> DEFINE cut == 0
    <3>1. cut \in Nat /\ (\A j \in DOMAIN slots : cut <= Len(slots[j].key))
          /\ Compact(slots, cut, node.high, node.prefix, NoKey)
      BY <2>1, <2>3
    <3> HIDE DEF cut
    <3> QED  BY <3>1, <2>2, <1>1, <1>2, NoKeyIsKey, CompactKeeps
  <2>5. node' = [node EXCEPT !.slots = slots, !.heap = 0] /\ stage' = "move"
    BY <2>1 DEF Compact
  <2>6. node'.slots = slots  BY <2>5, <1>1 DEF Node
  <2> QED  BY <2>4, <2>5, <2>6 DEF slots
<1>5. CASE ~(dead > PageSize \div 4)
  <2>1. /\ node' = [node EXCEPT !.slots = slots, !.dead = dead]
        /\ UNCHANGED <<highAt, prefixAt, stage, toMove, plan>>
    BY <1>1, <1>5 DEF Delete, slots, dead
  <2>2. slots \in Seq(Slot)  BY <1>2 DEF Placed
  <2>3. /\ node' \in Node /\ node'.slots = slots /\ node'.heap = node.heap
        /\ node'.high = node.high /\ node'.prefix = node.prefix
    BY <2>1, <2>2, <1>1, <1>3 DEF Node
  <2>4. HeapType' /\ PlanFits'
    BY <2>1, <2>3, <1>1 DEF HeapType, PlanFits
  <2>5. Top' = Top /\ Fences' = Fences
    BY <2>1, <2>3 DEF Top, Fences, HighKey, Prefix
  <2>6. Laid(slots, Top)
    <3>1. \A j \in DOMAIN slots : slots[j].ref >= Top  BY <1>1, <1>2 DEF Laid
    <3> QED  BY <3>1, <1>2 DEF Laid
  <2>7. FencesLaid(Fences, slots, Top)
    <3> DEFINE fences == Fences
               top == Top
               old == node.slots
    <3>1. top \in Int /\ top <= top
      <4>1. node.heap \in Nat  BY <1>1, NodeParts
      <4>2. Top \in Int  BY <4>1, LayoutAssumption DEF Top
      <4> QED  BY <4>2
    <3>2. /\ FencesLaid(fences, old, top)
          /\ \A j \in DOMAIN slots :
               \/ \E h \in DOMAIN old : slots[j] = old[h]
               \/ UpTo(slots[j]) \in Int /\ UpTo(slots[j]) <= top
      BY <1>1, <1>2
    <3> HIDE DEF fences, top, old
    <3>3. FencesLaid(fences, slots, top)  BY ONLY <3>1, <3>2, FencesKept
    <3> QED  BY <3>3 DEF fences, top
  <2>8. stage' # "move"  BY <2>1, <1>1
  <2>9. HeapInv'  BY <2>3, <2>4, <2>5, <2>6, <2>7, <2>8 DEF HeapInv
  <2> QED  BY <2>3, <2>9 DEF slots
<1> QED  BY <1>4, <1>5

LEMMA InsertKeeps ==
  ASSUME HeapInv, NEW k \in Keys, Insert(k)
  PROVE  HeapInv'
<1>1. /\ HeapType /\ node \in Node /\ stage = "ready" /\ toMove = {}
      /\ Laid(node.slots, Top) /\ FencesLaid(Fences, node.slots, Top)
      /\ ~TooShort(node, k) /\ Put(k) /\ k \in Seq(Int)
      /\ highAt' = highAt /\ prefixAt' = prefixAt /\ stage' = stage
      /\ toMove' = toMove /\ plan' = plan
  BY KeysAreBytes DEF HeapInv, HeapType, PlanFits, Insert
<1>2. /\ node' \in Node
      /\ Laid(node'.slots, Top') /\ FencesLaid(Fences', node'.slots, Top')
  BY <1>1, PutKeeps
<1>3. HeapType' /\ PlanFits'  BY <1>1, <1>2 DEF HeapType, PlanFits
<1> QED  BY <1>1, <1>2, <1>3 DEF HeapInv

LEMMA InsertPendingKeeps ==
  ASSUME HeapInv, InsertPending
  PROVE  HeapInv'
<1>1. /\ HeapType /\ node \in Node /\ stage = "insert" /\ toMove = {}
      /\ Laid(node.slots, Top) /\ FencesLaid(Fences, node.slots, Top)
      /\ ~TooShort(node, plan.key) /\ Put(plan.key) /\ plan.key \in Seq(Int)
      /\ highAt' = highAt /\ prefixAt' = prefixAt /\ stage' = "ready"
      /\ toMove' = toMove /\ plan' = NoPlan
  BY DEF HeapInv, HeapType, PlanFits, InsertPending
<1>2. /\ node' \in Node
      /\ Laid(node'.slots, Top') /\ FencesLaid(Fences', node'.slots, Top')
  BY <1>1, PutKeeps
<1>3. NoPlan \in [cut : Nat, high : Seq(Int), prefix : Seq(Int), key : Seq(Int)]
  <2>1. NoPlan = [NoPlan EXCEPT !.key = NoKey]  BY DEF NoPlan
  <2> QED  BY <2>1, NoKeyIsKey, NoPlanWith
<1>4. HeapType' /\ PlanFits'  BY <1>1, <1>2, <1>3 DEF HeapType, PlanFits
<1> QED  BY <1>1, <1>2, <1>4 DEF HeapInv

LEMMA HeapStep == HeapInv /\ [Next]_vars => HeapInv'
<1> SUFFICES ASSUME HeapInv, [Next]_vars PROVE HeapInv'
  OBVIOUS
<1>1. CASE UNCHANGED vars
  BY <1>1 DEF vars, HeapInv, HeapType, PlanFits, Top, Fences, HighKey, Prefix
<1>2. ASSUME NEW k \in Keys, Insert(k)  PROVE HeapInv'
  BY <1>2, InsertKeeps
<1>3. ASSUME NEW k \in Keys, Splits(k), NEW cut \in 0 .. MaxLen, NEW here \in BOOLEAN,
             SplitLeft(k, cut, here) \/ SplitRight(k, cut, here)
      PROVE  HeapInv'
  BY <1>3, SplitLeftKeeps, SplitRightKeeps
<1>4. ASSUME NEW i \in DOMAIN node.slots, Delete(i)  PROVE HeapInv'
  BY <1>4, DeleteKeeps
<1>5. CASE MoveEntry  BY <1>5, MoveKeeps
<1>6. CASE AppendFences  BY <1>6, AppendKeeps
<1>7. CASE InsertPending  BY <1>7, InsertPendingKeeps
<1> QED  BY <1>1, <1>2, <1>3, <1>4, <1>5, <1>6, <1>7 DEF Next

LEMMA HeapInit == Init => HeapInv
<1> SUFFICES ASSUME Init PROVE HeapInv
  OBVIOUS
<1>1. <<>> \in Seq(Int) /\ <<>> \in Seq(Slot) /\ DOMAIN <<>> = {}
  OBVIOUS
<1>2. node = [level |-> 0, slots |-> <<>>, heap |-> 0, dead |-> 0, prefix |-> <<>>,
              marked |-> FALSE, high |-> NoKey, rlink |-> -1, llink |-> -1]
  BY DEF Init, NewNode, NoPage
<1> DEFINE noSlots == <<>>
           noBytes == <<>>
<1>3. noSlots \in Seq(Slot) /\ noBytes \in Seq(Int) /\ DOMAIN noSlots = {}
  BY <1>1
<1>4. node = [level |-> 0, slots |-> noSlots, heap |-> 0, dead |-> 0, prefix |-> noBytes,
              marked |-> FALSE, high |-> NoKey, rlink |-> -1, llink |-> -1]
  BY <1>2
<1>5. node.prefix = <<>> /\ node.high = NoKey  BY <1>2
<1> HIDE DEF noSlots, noBytes
<1>6. node \in Node /\ node.slots = noSlots
  BY <1>3, <1>4, NoKeyIsKey DEF Node
<1>7. NoPlan \in [cut : Nat, high : Seq(Int), prefix : Seq(Int), key : Seq(Int)]
  <2>1. NoPlan = [NoPlan EXCEPT !.key = NoKey]  BY DEF NoPlan
  <2> QED  BY <2>1, NoKeyIsKey, NoPlanWith
<1>8. /\ highAt \in Int /\ prefixAt \in Int /\ stage = "ready" /\ toMove = {} /\ plan = NoPlan
  BY LayoutAssumption DEF Init
<1>9. HeapType /\ PlanFits  BY <1>6, <1>7, <1>8 DEF HeapType, PlanFits
<1>10. Laid(node.slots, Top)  BY <1>3, <1>6 DEF Laid, Placed
<1>11. Fences = {}  BY <1>5 DEF Fences
<1>12. FencesLaid({}, node.slots, Top)  BY DEF FencesLaid
<1> QED  BY <1>8, <1>9, <1>10, <1>11, <1>12 DEF HeapInv

(* The places of a page's parts, at every step. *)
THEOREM HeapLaidOut == Spec => []HeapInv
<1>1. Init => HeapInv  BY HeapInit
<1>2. HeapInv /\ [Next]_vars => HeapInv'  BY HeapStep
<1> QED  BY <1>1, <1>2, PTL DEF Spec

LEMMA EntryIs ==
  ASSUME NEW i \in DOMAIN node.slots
  PROVE  Entry(i) = <<node.slots[i].ref, UpTo(node.slots[i])>>
BY DEF Entry, UpTo

(* As many entries as slots. *)
LEMMA EntriesCounted ==
  ASSUME Placed(node.slots)
  PROVE  Cardinality(Entries) = Count(node)
<1> DEFINE n == Len(node.slots)
           E == Entries
           f == [i \in 1 .. n |-> Entry(i)]
<1>1. node.slots \in Seq(Slot) /\ n \in Nat /\ DOMAIN node.slots = 1 .. n
  BY DEF Placed
<1>2. ASSUME NEW i \in 1 .. n, NEW j \in 1 .. n, Entry(i) = Entry(j)  PROVE i = j
  <2> DEFINE s == node.slots[i]
             t == node.slots[j]
  <2>1. s \in Slot /\ t \in Slot  BY <1>1
  <2>2. s.ref = t.ref /\ UpTo(s) = UpTo(t)  BY <1>1, <1>2, EntryIs
  <2>3. /\ s.ref \in Int /\ Len(s.key) \in Nat /\ UpTo(s) = s.ref + EntryHeader + Len(s.key)
        /\ EntryHeader \in Nat \ {0}
    BY <2>1, LayoutAssumption DEF Slot, UpTo
  <2>4. s.ref < UpTo(s)  BY <2>3
  <2>5. i = j \/ UpTo(s) <= t.ref \/ UpTo(t) <= s.ref  BY <1>1 DEF Placed
  <2> HIDE DEF s, t
  <2> QED  BY <2>2, <2>3, <2>4, <2>5
<1>3. \A e \in E : \E i \in 1 .. n : Entry(i) = e  BY <1>1 DEF Entries
<1>4. \A i \in 1 .. n : Entry(i) \in E  BY <1>1 DEF Entries
<1> HIDE DEF E
<1>5. f \in [1 .. n -> E]  BY <1>4
<1>6. f \in Injection(1 .. n, E)
  BY <1>2, <1>5 DEF Injection, IsInjective
<1>7. f \in Surjection(1 .. n, E)
  BY <1>3, <1>5 DEF Surjection
<1>8. ExistsBijection(1 .. n, E)
  BY <1>6, <1>7 DEF ExistsBijection, Bijection
<1>9. Cardinality(E) = n
  BY <1>1, <1>8, FS_CountingElements
<1> QED  BY <1>9 DEF E, Count

(* No part of a page ever overwrites another, for every page size,         *)
(* alignment and length of keys: not when an entry is appended to the      *)
(* heap, not between two entries of CompactHeap or after it, and in        *)
(* neither half of a split.                                                *)
THEOREM PartsNeverOverlap == Spec => []PartsDisjoint
<1>1. HeapInv => PartsDisjoint
  <2> SUFFICES ASSUME HeapInv PROVE PartsDisjoint
    OBVIOUS
  <2>1. Placed(node.slots)  BY DEF HeapInv, Moving, Laid
  <2>2. Cardinality(Entries) = Count(node)  BY <2>1, EntriesCounted
  <2>3. ASSUME NEW x \in Entries, NEW y \in Entries  PROVE x = y \/ Clear(x, y)
    <3>1. PICK i \in DOMAIN node.slots : x = Entry(i)  BY DEF Entries
    <3>2. PICK j \in DOMAIN node.slots : y = Entry(j)  BY DEF Entries
    <3>3. \/ i = j
          \/ UpTo(node.slots[i]) <= node.slots[j].ref
          \/ UpTo(node.slots[j]) <= node.slots[i].ref
      BY <2>1 DEF Placed
    <3>4. x[1] = node.slots[i].ref /\ x[2] = UpTo(node.slots[i])  BY <3>1, EntryIs
    <3>5. y[1] = node.slots[j].ref /\ y[2] = UpTo(node.slots[j])  BY <3>2, EntryIs
    <3> QED  BY <3>1, <3>2, <3>3, <3>4, <3>5 DEF Clear
  <2>4. stage = "move" => Parts = Entries  BY DEF Parts
  <2>5. stage # "move" => Parts = Entries \cup Fences  BY DEF Parts, Fences
  <2>6. ASSUME stage # "move", NEW x \in Fences, NEW y \in Entries
        PROVE  Clear(x, y) /\ Clear(y, x)
    <3>1. PICK j \in DOMAIN node.slots : y = Entry(j)  BY DEF Entries
    <3>2. Clear(x, <<node.slots[j].ref, UpTo(node.slots[j])>>)
      BY <2>6 DEF HeapInv, FencesLaid
    <3>3. Clear(x, y)  BY <3>1, <3>2, EntryIs
    <3> QED  BY <3>3 DEF Clear
  <2>7. ASSUME stage # "move", NEW x \in Fences, NEW y \in Fences
        PROVE  x = y \/ Clear(x, y)
    BY <2>7 DEF HeapInv, FencesLaid
  <2>8. ASSUME NEW x \in Parts, NEW y \in Parts  PROVE x = y \/ Clear(x, y)
    BY <2>3, <2>4, <2>5, <2>6, <2>7
  <2> QED  BY <2>2, <2>8 DEF PartsDisjoint, Clear
<1> QED  BY <1>1, HeapLaidOut, PTL

(* CompactHeap moves each entry towards the page's end, or not at all, and *)
(* keeps the entries' order.                                               *)
THEOREM EntriesMoveUp == Spec => MovesUp
<1> DEFINE Up == stage = "move" =>
             \A i, j \in DOMAIN node.slots :
               /\ node'.slots[i].ref >= node.slots[i].ref
               /\ node.slots[i].ref < node.slots[j].ref =>
                    node'.slots[i].ref < node'.slots[j].ref
<1>1. HeapInv /\ [Next]_vars => [Up]_vars
  <2> SUFFICES ASSUME HeapInv, Next, stage = "move"
               PROVE  \A i, j \in DOMAIN node.slots :
                        /\ node'.slots[i].ref >= node.slots[i].ref
                        /\ node.slots[i].ref < node.slots[j].ref =>
                             node'.slots[i].ref < node'.slots[j].ref
    OBVIOUS
  <2>1. MoveEntry \/ AppendFences
    BY DEF Next, Insert, Splits, Delete, InsertPending
  <2>2. CASE MoveEntry  BY <2>2, MoveKeeps
  <2>3. CASE AppendFences
    <3>1. node'.slots = node.slots /\ node \in Node
      BY <2>3, AppendKeeps DEF HeapInv, HeapType
    <3>2. \A i \in DOMAIN node.slots : node.slots[i].ref \in Int
      BY <3>1, NodeParts
    <3> QED  BY <3>1, <3>2
  <2> QED  BY <2>1, <2>2, <2>3
<1>2. Spec => [][Up]_vars
  <2> HIDE DEF Up
  <2> QED  BY <1>1, HeapLaidOut, PTL DEF Spec
<1> QED  BY <1>2 DEF MovesUp

-----------------------------------------------------------------------------
(* CompactHeap's new heap is as large as the entries it has moved. *)
Accounted ==
  stage = "move" => node.heap = Sizes(node.slots)[DOMAIN node.slots \ toMove]

LEMMA AccountedStep ==
  ASSUME HeapInv, Accounted, [Next]_vars
  PROVE  Accounted'
<1>1. CASE UNCHANGED vars
  BY <1>1 DEF vars, Accounted
<1>2. ASSUME NEW slots, Placed(slots), NEW cut, NEW high, NEW prefix, NEW k,
             node \in Node, Compact(slots, cut, high, prefix, k)
      PROVE  Accounted'
  <2>1. node'.slots = slots /\ node'.heap = 0 /\ toMove' = DOMAIN slots
    BY <1>2 DEF Compact, Node
  <2>2. Sizes(slots)[{}] = 0  BY <1>2, SizesNone DEF Placed
  <2>3. DOMAIN slots \ DOMAIN slots = {}  OBVIOUS
  <2> QED  BY <2>1, <2>2, <2>3 DEF Accounted
<1>3. ASSUME NEW k \in Keys, Insert(k)  PROVE Accounted'
  BY <1>3 DEF Insert, Accounted
<1>4. ASSUME NEW k \in Keys, Splits(k), NEW cut \in 0 .. MaxLen, NEW here \in BOOLEAN,
             SplitLeft(k, cut, here)
      PROVE  Accounted'
  <2>1. /\ node \in Node /\ Placed(node.slots) /\ ~NoSplitPoint(node)
        /\ Count(node) \in Nat /\ Count(node) = Len(node.slots)
    BY <1>4, NodeParts DEF Splits, HeapInv, HeapType, Laid
  <2>2. FindSplitPoint(node) \in 0 .. Len(node.slots)
    <3>1. FindSplitPoint(node) \in 1 .. Count(node) - 1  BY <2>1, SplitPointIs
    <3> QED  BY <3>1, <2>1
  <2>3. Placed(Lower)  BY <2>1, <2>2, PlacedRange DEF Lower
  <2> QED  BY <2>1, <2>3, <1>2, <1>4 DEF SplitLeft
<1>5. ASSUME NEW k \in Keys, NEW cut \in 0 .. MaxLen, NEW here \in BOOLEAN,
             SplitRight(k, cut, here)
      PROVE  Accounted'
  BY <1>5 DEF SplitRight, Accounted
<1>6. ASSUME NEW i \in DOMAIN node.slots, Delete(i)  PROVE Accounted'
  <2>1. node \in Node /\ stage = "ready" /\ Placed(node.slots)
    BY <1>6 DEF Delete, HeapInv, HeapType, Laid
  <2>2. Placed(RemoveAt(node.slots, i))  BY <2>1, PlacedWithout
  <2>3. \/ Compact(RemoveAt(node.slots, i), 0, node.high, node.prefix, NoKey)
        \/ stage' = stage
    BY <1>6 DEF Delete
  <2> QED  BY <2>1, <2>2, <2>3, <1>2 DEF Accounted
<1>7. CASE MoveEntry
  <2> DEFINE i == NextToMove
             s == node.slots
             heap == node.heap
             k == SubSeq(s[i].key, plan.cut + 1, Len(s[i].key))
             e == [key |-> k, ref |-> Offset(heap, k)]
             t == [s EXCEPT ![i] = e]
  <2>1. /\ HeapType /\ node \in Node /\ stage = "move" /\ toMove # {}
        /\ Moving(s, toMove, heap) /\ toMove \subseteq DOMAIN s
        /\ \A j \in toMove : plan.cut <= Len(s[j].key)
    BY <1>7 DEF HeapInv, HeapType, MoveEntry, PlanFits
  <2>2. i \in toMove /\ i \in DOMAIN s  BY <2>1, NextToMoveIs
  <2>3. /\ heap \in Nat /\ s \in Seq(Slot) /\ Multiple(heap, Align)
        /\ s[i].key \in Seq(Int) /\ plan.cut \in Nat /\ plan.cut <= Len(s[i].key)
    BY <2>1, <2>2, NodeParts DEF HeapType, Moving
  <2>4. k \in Seq(Int)  BY <2>3, SuffixIs
  <2>5. /\ node' = [node EXCEPT !.slots[i] = e, !.heap = ReserveSlot(heap, k)]
        /\ toMove' = toMove \ {i}
    BY <1>7 DEF MoveEntry
  <2> HIDE DEF k, i
  <2>6. e \in Slot  BY <2>3, <2>4, OffsetIs DEF Slot
  <2>7. node'.slots = t /\ node'.heap = ReserveSlot(heap, k)
    BY <2>1, <2>5 DEF Node
  <2> HIDE DEF s, heap
  <2>8. /\ t \in Seq(Slot) /\ DOMAIN t = DOMAIN s /\ t[i].key = k
        /\ \A j \in DOMAIN s : j # i => t[j] = s[j]
    <3>1. e.key = k  OBVIOUS
    <3> HIDE DEF e
    <3> QED  BY <3>1, <2>2, <2>3, <2>6
  <2> HIDE DEF t, e
  <2> DEFINE moved == DOMAIN s \ toMove
             more == DOMAIN t \ toMove'
  <2>9. more \in SUBSET DOMAIN t /\ i \in more /\ more \ {i} = moved
    BY <2>1, <2>2, <2>5, <2>8
  <2>10. Sizes(t)[more] = Sizes(t)[moved] + SizeOf(t, i)
    <3>1. Sizes(t)[more] = Sizes(t)[more \ {i}] + SizeOf(t, i)
      <4> HIDE DEF more
      <4> QED  BY <2>8, <2>9, SizesWithout
    <3> QED  BY <3>1, <2>9
  <2>11. Sizes(t)[moved] = Sizes(s)[moved]
    <3>1. \A j \in moved : SizeOf(s, j) = SizeOf(t, j)  BY <2>2, <2>8 DEF SizeOf
    <3>2. moved \in SUBSET DOMAIN s  OBVIOUS
    <3> HIDE DEF moved
    <3> QED  BY <3>1, <3>2, <2>3, <2>8, SizesAgree
  <2>12. Sizes(s)[moved] = heap  BY <2>1 DEF Accounted, s, heap
  <2>13. ReserveSlot(heap, k) = heap + EntrySize(k)  BY <2>3, <2>4, ReserveAdds
  <2>14. SizeOf(t, i) = EntrySize(k)  BY <2>8 DEF SizeOf
  <2>15. node'.heap = Sizes(t)[more]  BY <2>7, <2>10, <2>11, <2>12, <2>13, <2>14
  <2> QED  BY <2>7, <2>15 DEF Accounted
<1>8. CASE AppendFences  BY <1>8 DEF AppendFences, Accounted
<1>9. CASE InsertPending  BY <1>9 DEF InsertPending, Accounted
<1> QED  BY <1>1, <1>3, <1>4, <1>5, <1>6, <1>7, <1>8, <1>9 DEF Next

(* A page that CompactHeap has laid out is as large as VarlenNode says, by *)
(* the sizes of its entries alone: nothing is lost to alignment or to the  *)
(* order in which they were moved.                                         *)
THEOREM CompactedIsPacked == Spec => LaidOutAfresh
<1> DEFINE Packed == stage = "move" /\ stage' # "move" =>
                       node'.heap = CompactHeap(node', node'.slots)
           Inv == HeapInv /\ Accounted
<1>1. Init => Inv
  BY HeapInit DEF Init, Accounted
<1>2. Inv /\ [Next]_vars => Inv'
  BY HeapStep, AccountedStep
<1>3. Inv /\ [Next]_vars => [Packed]_vars
  <2> SUFFICES ASSUME HeapInv, Accounted, Next, stage = "move", stage' # "move"
               PROVE  node'.heap = CompactHeap(node', node'.slots)
    OBVIOUS
  <2>1. AppendFences
    BY DEF Next, Insert, Splits, Delete, MoveEntry, InsertPending
  <2>2. /\ toMove = {} /\ node \in Node
        /\ node' = [node EXCEPT !.dead = 0,
                      !.heap = HighSize(node.heap, plan.high) + Len(plan.prefix),
                      !.high = plan.high, !.prefix = plan.prefix]
    BY <2>1 DEF AppendFences, HeapInv, HeapType
  <2>3. /\ node'.slots = node.slots /\ node'.high = plan.high /\ node'.prefix = plan.prefix
        /\ node'.heap = HighSize(node.heap, plan.high) + Len(plan.prefix)
    BY <2>2 DEF Node
  <2>4. node.heap = EntriesSize(node.slots)
    <3>1. DOMAIN node.slots \ toMove = DOMAIN node.slots  BY <2>2
    <3> QED  BY <3>1, EntriesSizeIs DEF Accounted
  <2> QED  BY <2>3, <2>4 DEF CompactHeap, PackedSize
<1>4. Spec => [][Packed]_vars
  <2> HIDE DEF Inv, Packed
  <2> QED  BY <1>1, <1>2, <1>3, PTL DEF Spec
<1> QED  BY <1>4 DEF LaidOutAfresh
=============================================================================
