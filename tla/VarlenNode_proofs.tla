-------------------------- MODULE VarlenNode_proofs --------------------------
(***************************************************************************)
(* Keys and pages of the variable-length layouts: the order of the keys,   *)
(* the bytes they share, and what the operations do to a page whose keys   *)
(* are in order and between its fences.                                    *)
(***************************************************************************)
EXTENDS VarlenNode, FiniteSetTheorems, WellFoundedInduction, TLAPS

(* Strings of bytes. *)
Str == Seq(Nat)

(* The pages, as far as it matters here. *)
Slot == [key : Seq(Int), ref : Int]
Node ==
  [level : Nat, slots : Seq(Slot), heap : Nat, dead : Nat, prefix : Seq(Int),
   marked : BOOLEAN, high : Seq(Int), rlink : Int, llink : Int]

LEMMA ConcatLen ==
  ASSUME NEW S, NEW a \in Seq(S), NEW b \in Seq(S)
  PROVE  a \o b \in Seq(S) /\ Len(a \o b) = Len(a) + Len(b)
OBVIOUS

LEMMA InsertAtLen ==
  ASSUME NEW S, NEW s \in Seq(S), NEW i \in 1 .. Len(s) + 1, NEW e \in S
  PROVE  Len(InsertAt(s, i, e)) = Len(s) + 1
<1> DEFINE a == SubSeq(s, 1, i - 1)
           b == SubSeq(s, i, Len(s))
           c == a \o <<e>>
<1>1. a \in Seq(S) /\ Len(a) = i - 1 /\ b \in Seq(S) /\ Len(b) = Len(s) - i + 1
  OBVIOUS
<1>2. <<e>> \in Seq(S) /\ Len(<<e>>) = 1  OBVIOUS
<1> HIDE DEF a, b
<1>3. i \in Int /\ Len(s) \in Nat  OBVIOUS
<1>4. c \in Seq(S) /\ Len(c) = Len(a) + Len(<<e>>)
  BY ONLY <1>1, <1>2, ConcatLen
<1> HIDE DEF c
<1>5. Len(c \o b) = Len(c) + Len(b)  BY ONLY <1>1, <1>4, ConcatLen
<1>6. Len(c \o b) = Len(s) + 1  BY ONLY <1>1, <1>2, <1>3, <1>4, <1>5
<1> QED  BY <1>6 DEF InsertAt, a, b, c

-----------------------------------------------------------------------------
(* n is a multiple of d. *)
Multiple(n, d) == \E q \in Int : n = q * d

(* Alignment adds less than Align, and makes a multiple of it. *)
LEMMA AlignUpBounds ==
  ASSUME NEW n \in Nat
  PROVE  /\ AlignUp(n) \in Nat /\ n <= AlignUp(n) /\ AlignUp(n) < n + Align
         /\ Multiple(AlignUp(n), Align)
<1> DEFINE q == (n + Align - 1) \div Align
           r == (n + Align - 1) % Align
<1>1. q \in Nat /\ r \in 0 .. Align - 1 /\ n + Align - 1 = q * Align + r
  BY LayoutAssumption, Z3
<1>2. q * Align \in Nat  BY <1>1, LayoutAssumption
<1>3. AlignUp(n) = q * Align  BY DEF AlignUp
<1> HIDE DEF q, r
<1>4. n <= q * Align /\ q * Align < n + Align
  BY <1>1, <1>2, LayoutAssumption
<1> QED  BY <1>1, <1>2, <1>3, <1>4 DEF Multiple

LEMMA MultipleOf ==
  ASSUME NEW n \in Nat, NEW d \in Nat \ {0}, n % d = 0
  PROVE  Multiple(n, d)
<1> DEFINE q == n \div d
           r == n % d
<1>1. q \in Int /\ n = q * d + r  BY Z3
<1>2. r = 0  OBVIOUS
<1> HIDE DEF q, r
<1>3. q * d \in Int  BY <1>1
<1> QED  BY <1>1, <1>2, <1>3 DEF Multiple

LEMMA MultipleSum ==
  ASSUME NEW m \in Int, NEW n \in Int, NEW d \in Int, Multiple(m, d), Multiple(n, d)
  PROVE  Multiple(m + n, d) /\ Multiple(m - n, d)
<1>1. PICK p \in Int : m = p * d  BY DEF Multiple
<1>2. PICK q \in Int : n = q * d  BY DEF Multiple
<1>3. m + n = (p + q) * d /\ m - n = (p - q) * d  BY <1>1, <1>2
<1>4. p + q \in Int /\ p - q \in Int  OBVIOUS
<1> QED  BY ONLY <1>3, <1>4 DEF Multiple

LEMMA MultipleOfMultiple ==
  ASSUME NEW n \in Int, NEW d \in Int, NEW e \in Int, Multiple(n, d), Multiple(d, e)
  PROVE  Multiple(n, e)
<1>1. PICK p \in Int : n = p * d  BY DEF Multiple
<1>2. PICK q \in Int : d = q * e  BY DEF Multiple
<1>3. n = (p * q) * e  BY <1>1, <1>2
<1>4. p * q \in Int  OBVIOUS
<1> QED  BY ONLY <1>3, <1>4 DEF Multiple

(* A positive multiple is at least the number it is a multiple of. *)
LEMMA MultipleIsLarge ==
  ASSUME NEW n \in Int, NEW d \in Nat \ {0}, Multiple(n, d), n > 0
  PROVE  n >= d
<1>1. PICK q \in Int : n = q * d  BY DEF Multiple
<1>2. q >= 1
  <2> SUFFICES ASSUME q <= 0 PROVE FALSE  BY <1>1
  <2>1. q * d <= 0  OBVIOUS
  <2> QED  BY <2>1, <1>1
<1>3. q * d = d + (q - 1) * d /\ (q - 1) * d >= 0  BY <1>2
<1> QED  BY <1>1, <1>3

-----------------------------------------------------------------------------
(* HasSpace does not count the slot that InsertInternal adds.  It need     *)
(* not: it asks for Align bytes that the entry does not use, and as slots, *)
(* header and page are aligned, what is left over is room for a slot.      *)
THEOREM InsertFits ==
  ASSUME NEW page \in Node, NEW k \in Seq(Int), ~TooShort(page, k), HasSpace(page, k),
         NEW idx \in 0 .. Count(page), NEW ref \in Int
  PROVE  LET after == InsertSlot(page, idx, RemoveKeyPrefix(page, k), ref) IN
         SlotsEnd(after) + after.heap <= PageSize
<1> DEFINE s == RemoveKeyPrefix(page, k)
           slot == [key |-> s, ref |-> ref]
           after == InsertSlot(page, idx, s, ref)
           n == Len(s)
           heap == ReserveSlot(page.heap, s)
           slots == Count(page) * SlotSize
           free == PageSize - HeaderSize - slots - heap
<1>0. s \in Seq(Int) /\ n \in Nat /\ page.heap \in Nat /\ Count(page) \in Nat
  BY DEF RemoveKeyPrefix, TooShort, Node, Count
<1>1. /\ heap \in Nat /\ heap < page.heap + EntryHeader + n + Align
      /\ Multiple(heap, Align)
  <2>1. page.heap + EntryHeader + n \in Nat  BY <1>0, LayoutAssumption
  <2>2. heap = AlignUp(page.heap + EntryHeader + n)  BY DEF ReserveSlot
  <2> QED  BY <2>1, <2>2, AlignUpBounds
<1>2. SlotsEnd(page) = HeaderSize + slots /\ slots \in Nat
  BY <1>0, LayoutAssumption DEF SlotsEnd
<1>3. HeaderSize + slots + page.heap + n + EntryHeader + Align < PageSize
  BY <1>2 DEF HasSpace
<1>4. after.heap = heap /\ Count(after) = Count(page) + 1
  <2>1. page.slots \in Seq(Slot) /\ slot \in Slot /\ idx + 1 \in 1 .. Len(page.slots) + 1
    BY <1>0 DEF Node, Slot, Count
  <2>2. Len(InsertAt(page.slots, idx + 1, slot)) = Len(page.slots) + 1
    BY <2>1, InsertAtLen
  <2>3. after = [page EXCEPT !.slots = InsertAt(page.slots, idx + 1, slot), !.heap = heap]
    BY DEF InsertSlot, Node
  <2> HIDE DEF after, heap, slot
  <2>4. after.heap = heap /\ after.slots = InsertAt(page.slots, idx + 1, slot)
    BY <2>3 DEF Node
  <2> QED  BY <2>2, <2>4 DEF Count
<1> HIDE DEF n, heap, after, s
<1>5. SlotsEnd(after) = HeaderSize + slots + SlotSize
  <2>1. (Count(page) + 1) * SlotSize = slots + SlotSize
    BY ONLY <1>0, LayoutAssumption DEF slots
  <2>2. SlotsEnd(after) = HeaderSize + (Count(page) + 1) * SlotSize
    BY ONLY <1>4 DEF SlotsEnd
  <2> QED  BY ONLY <1>2, <2>1, <2>2, LayoutAssumption
<1> HIDE DEF slots
<1>6. free \in Int /\ free > 0
  <2>1. /\ slots \in Nat /\ HeaderSize \in Nat /\ PageSize \in Nat
          /\ EntryHeader \in Nat /\ Align \in Nat
    BY ONLY <1>2, LayoutAssumption
  <2> DEFINE asked == page.heap + n + EntryHeader + Align
  <2>2. asked \in Nat /\ heap < asked  BY ONLY <1>0, <1>1, <2>1
  <2>3. HeaderSize + slots + asked < PageSize  BY ONLY <1>0, <1>3, <2>1
  <2> HIDE DEF asked
  <2> QED  BY ONLY <1>1, <2>1, <2>2, <2>3
<1>7. Multiple(free, SlotSize)
  <2>1. Multiple(Align, SlotSize) /\ Multiple(PageSize, Align) /\ Multiple(HeaderSize, SlotSize)
    BY LayoutAssumption, MultipleOf
  <2>2. Multiple(PageSize, SlotSize) /\ Multiple(heap, SlotSize)
    BY <2>1, <1>1, LayoutAssumption, MultipleOfMultiple
  <2>3. Multiple(slots, SlotSize)  BY <1>0 DEF slots, Multiple
  <2>4. Multiple(PageSize - HeaderSize, SlotSize)
    BY <2>1, <2>2, LayoutAssumption, MultipleSum
  <2>5. Multiple(PageSize - HeaderSize - slots, SlotSize)
    BY <2>3, <2>4, <1>2, LayoutAssumption, MultipleSum
  <2> QED  BY <2>2, <2>5, <1>1, <1>2, LayoutAssumption, MultipleSum
<1>8. free >= SlotSize  BY <1>6, <1>7, LayoutAssumption, MultipleIsLarge
<1>9. SlotsEnd(after) + after.heap <= PageSize
  BY <1>1, <1>2, <1>4, <1>5, <1>8, LayoutAssumption
<1> QED  BY <1>9 DEF after, s

LEMMA ConcatAt ==
  ASSUME NEW S, NEW a \in Seq(S), NEW b \in Seq(S)
  PROVE  /\ \A j \in 1 .. Len(a) : (a \o b)[j] = a[j]
         /\ \A j \in Len(a) + 1 .. Len(a) + Len(b) : (a \o b)[j] = b[j - Len(a)]
OBVIOUS

(* t is s with e put at place i. *)
Inserted(t, s, i, e) ==
  /\ t \in Seq(Slot) /\ Len(t) = Len(s) + 1
  /\ \A j \in 1 .. Len(s) + 1 :
       t[j] = IF j < i THEN s[j] ELSE IF j = i THEN e ELSE s[j - 1]

LEMMA InsertAtElements ==
  ASSUME NEW s \in Seq(Slot), NEW i \in 1 .. Len(s) + 1, NEW e \in Slot
  PROVE  Inserted(InsertAt(s, i, e), s, i, e)
<1> DEFINE S == Slot
           a == SubSeq(s, 1, i - 1)
           b == SubSeq(s, i, Len(s))
           c == a \o <<e>>
           t == c \o b
           n == Len(s)
<1>1. /\ a \in Seq(S) /\ Len(a) = i - 1 /\ b \in Seq(S) /\ Len(b) = Len(s) - i + 1
      /\ \A j \in 1 .. i - 1 : a[j] = s[j]
      /\ \A j \in 1 .. Len(s) - i + 1 : b[j] = s[j + i - 1]
  OBVIOUS
<1>2. <<e>> \in Seq(S) /\ Len(<<e>>) = 1 /\ <<e>>[1] = e  OBVIOUS
<1>3. i \in 1 .. n + 1 /\ n \in Nat  OBVIOUS
<1> HIDE DEF a, b, n, S
<1>4. c \in Seq(S) /\ Len(c) = i
      /\ (\A j \in 1 .. i - 1 : c[j] = a[j]) /\ c[i] = e
  <2>1. c \in Seq(S) /\ Len(c) = Len(a) + Len(<<e>>)
    BY ONLY <1>1, <1>2, ConcatLen
  <2>2. /\ \A j \in 1 .. Len(a) : c[j] = a[j]
        /\ \A j \in Len(a) + 1 .. Len(a) + Len(<<e>>) : c[j] = <<e>>[j - Len(a)]
    BY ONLY <1>1, <1>2, ConcatAt
  <2> HIDE DEF c
  <2>3. c \in Seq(S) /\ Len(c) = i  BY <1>1, <1>2, <1>3, <2>1
  <2>4. \A j \in 1 .. i - 1 : c[j] = a[j]  BY <1>1, <2>2
  <2>5. i \in Len(a) + 1 .. Len(a) + Len(<<e>>) /\ i - Len(a) = 1
    BY <1>1, <1>2, <1>3
  <2>6. c[i] = e  BY <1>2, <2>2, <2>5
  <2> QED  BY <2>3, <2>4, <2>6
<1> HIDE DEF c
<1>5. t \in Seq(S) /\ Len(t) = n + 1
      /\ \A j \in 1 .. n + 1 : t[j] = IF j < i THEN s[j] ELSE IF j = i THEN e ELSE s[j - 1]
  <2>1. t \in Seq(S) /\ Len(t) = Len(c) + Len(b)
    BY ONLY <1>1, <1>4, ConcatLen
  <2>2. /\ \A j \in 1 .. Len(c) : t[j] = c[j]
        /\ \A j \in Len(c) + 1 .. Len(c) + Len(b) : t[j] = b[j - Len(c)]
    BY ONLY <1>1, <1>4, ConcatAt
  <2> HIDE DEF t
  <2>3. Len(b) = n - i + 1  BY <1>1 DEF n
  <2>4. t \in Seq(S) /\ Len(t) = n + 1  BY <2>1, <2>3, <1>3, <1>4
  <2>5. ASSUME NEW j \in 1 .. n + 1
        PROVE  t[j] = IF j < i THEN s[j] ELSE IF j = i THEN e ELSE s[j - 1]
    <3>1. CASE j < i  BY <3>1, <2>2, <1>1, <1>3, <1>4
    <3>2. CASE j = i  BY <3>2, <2>2, <1>3, <1>4
    <3>3. CASE j > i
      <4>1. j \in Len(c) + 1 .. Len(c) + Len(b) /\ j - i \in 1 .. Len(s) - i + 1
            /\ (j - i) + i - 1 = j - 1
        BY <3>3, <2>3, <1>3, <1>4 DEF n
      <4>2. t[j] = b[j - i] /\ b[j - i] = s[(j - i) + i - 1]
        BY <4>1, <2>2, <1>1, <1>4
      <4> QED  BY <4>1, <4>2, <3>3, <1>3
    <3> QED  BY <3>1, <3>2, <3>3, <1>3
  <2> QED  BY <2>4, <2>5
<1>6. InsertAt(s, i, e) = t  BY DEF InsertAt, a, b, c, t
<1> HIDE DEF t
<1> QED  BY <1>5, <1>6 DEF n, S, Inserted

LEMMA RemoveAtElements ==
  ASSUME NEW S, NEW s \in Seq(S), NEW i \in 1 .. Len(s)
  PROVE  /\ RemoveAt(s, i) \in Seq(S)
         /\ Len(RemoveAt(s, i)) = Len(s) - 1
         /\ \A j \in 1 .. Len(s) - 1 :
              RemoveAt(s, i)[j] = IF j < i THEN s[j] ELSE s[j + 1]
<1> DEFINE a == SubSeq(s, 1, i - 1)
           b == SubSeq(s, i + 1, Len(s))
           t == a \o b
           n == Len(s)
<1>1. /\ a \in Seq(S) /\ Len(a) = i - 1 /\ b \in Seq(S) /\ Len(b) = Len(s) - i
      /\ \A j \in 1 .. i - 1 : a[j] = s[j]
      /\ \A j \in 1 .. Len(s) - i : b[j] = s[j + i]
  OBVIOUS
<1>2. i \in 1 .. n /\ n \in Nat  OBVIOUS
<1> HIDE DEF a, b, n
<1>3. t \in Seq(S) /\ Len(t) = Len(a) + Len(b)
  BY ONLY <1>1, ConcatLen
<1>4. /\ \A j \in 1 .. Len(a) : t[j] = a[j]
      /\ \A j \in Len(a) + 1 .. Len(a) + Len(b) : t[j] = b[j - Len(a)]
  BY ONLY <1>1, ConcatAt
<1> HIDE DEF t
<1>5. Len(t) = n - 1  BY <1>1, <1>2, <1>3 DEF n
<1>6. ASSUME NEW j \in 1 .. n - 1
      PROVE  t[j] = IF j < i THEN s[j] ELSE s[j + 1]
  <2>1. CASE j < i
    <3>1. j \in 1 .. i - 1 /\ j \in 1 .. Len(a)  BY <2>1, <1>1, <1>2
    <3> QED  BY <3>1, <2>1, <1>1, <1>4
  <2>2. CASE j >= i
    <3>1. j \in Len(a) + 1 .. Len(a) + Len(b) /\ j - (i - 1) \in 1 .. Len(s) - i
          /\ (j - (i - 1)) + i = j + 1 /\ ~(j < i)
      BY <2>2, <1>1, <1>2 DEF n
    <3>2. t[j] = b[j - (i - 1)] /\ b[j - (i - 1)] = s[(j - (i - 1)) + i]
      BY <3>1, <1>1, <1>4
    <3> QED  BY <3>1, <3>2
  <2> QED  BY <2>1, <2>2, <1>2
<1>7. RemoveAt(s, i) = t  BY DEF RemoveAt, a, b, t
<1> QED  BY <1>3, <1>5, <1>6, <1>7 DEF n

LEMMA LeastOf ==
  ASSUME NEW T \in SUBSET Nat, T # {}
  PROVE  \E n \in T : \A m \in T : n <= m
<1> DEFINE R == OpToRel(<, Nat)
<1>1. IsWellFoundedOn(R, Nat)
  BY NatLessThanWellFounded
<1>2. \A m, n \in Nat : m < n => <<m, n>> \in R
  BY DEF OpToRel
<1> HIDE DEF R
<1>3. PICK n \in T : \A m \in T : ~(<<m, n>> \in R)
  BY <1>1, WFMin
<1>4. \A m \in T : m \in Nat /\ ~(m < n)
  BY <1>2, <1>3
<1>5. n \in Nat /\ \A m \in T : n <= m
  BY <1>4
<1> QED  BY <1>5

LEMMA Induction ==
  ASSUME NEW S, 0 \in S, \A n \in Nat : n \in S => n + 1 \in S
  PROVE  Nat \subseteq S
<1> DEFINE T == Nat \ S
<1> SUFFICES ASSUME T # {} PROVE FALSE
  OBVIOUS
<1>1. PICK n \in T : \A m \in T : n <= m
  BY LeastOf
<1>2. n # 0 /\ n - 1 \in Nat /\ n - 1 \notin T
  BY <1>1
<1>3. n - 1 \in S /\ (n - 1) + 1 = n
  BY <1>2
<1> QED  BY <1>1, <1>2, <1>3

LEMMA SuffixIs ==
  ASSUME NEW k \in Seq(Int), NEW n \in Nat, n <= Len(k)
  PROVE  SubSeq(k, n + 1, Len(k)) \in Seq(Int) /\ Len(SubSeq(k, n + 1, Len(k))) = Len(k) - n
OBVIOUS

LEMMA StartIs ==
  ASSUME NEW k \in Seq(Int), NEW n \in Nat, n <= Len(k)
  PROVE  SubSeq(k, 1, n) \in Seq(Int) /\ Len(SubSeq(k, 1, n)) = n
OBVIOUS

LEMMA NoKeyIsKey == NoKey \in Seq(Int) /\ Len(NoKey) = 1
BY DEF NoKey

LEMMA CutIs ==
  ASSUME NEW s \in Seq(Slot), NEW cut \in Nat, \A i \in DOMAIN s : cut <= Len(s[i].key)
  PROVE  Cut(s, cut) \in Seq(Slot) /\ Len(Cut(s, cut)) = Len(s)
<1> DEFINE t == Cut(s, cut)
<1>1. ASSUME NEW i \in DOMAIN s
      PROVE  [s[i] EXCEPT !.key = SubSeq(@, cut + 1, Len(@))] \in Slot
  <2> DEFINE k == s[i].key
             c == SubSeq(k, cut + 1, Len(k))
  <2>1. s[i] \in Slot /\ cut <= Len(k)  OBVIOUS
  <2>2. k \in Seq(Int)  BY <2>1 DEF Slot
  <2> HIDE DEF k
  <2>3. c \in Seq(Int)  BY <2>1, <2>2, SuffixIs
  <2> HIDE DEF c
  <2>4. [s[i] EXCEPT !.key = c] \in Slot  BY <2>1, <2>3 DEF Slot
  <2> QED  BY <2>4 DEF c, k
<1>2. t = [i \in DOMAIN s |-> [s[i] EXCEPT !.key = SubSeq(@, cut + 1, Len(@))]]
  BY DEF Cut
<1>3. DOMAIN s = 1 .. Len(s) /\ Len(s) \in Nat  OBVIOUS
<1> HIDE DEF t
<1>4. DOMAIN t = 1 .. Len(s) /\ \A i \in 1 .. Len(s) : t[i] \in Slot
  BY <1>1, <1>2, <1>3
<1>5. t = [i \in 1 .. Len(s) |-> t[i]]  BY <1>2, <1>3
<1>6. t \in Seq(Slot) /\ Len(t) = Len(s)  BY <1>3, <1>4, <1>5
<1> QED  BY <1>6 DEF t

-----------------------------------------------------------------------------
(* What the entries of a set of slots take: EntriesSize is a fold, and this *)
(* is the function that the fold's definition chooses.                     *)
LEMMA MaxIs ==
  ASSUME NEW n \in Nat, NEW S \in SUBSET (1 .. n), S # {}
  PROVE  Max(S) \in S /\ \A y \in S : Max(S) >= y
<1> DEFINE T == {n - x : x \in S}
<1>1. T \in SUBSET Nat /\ T # {}
  <2>1. \A x \in S : n - x \in Nat  OBVIOUS
  <2>2. \E x \in S : TRUE  OBVIOUS
  <2> QED  BY <2>1, <2>2
<1> HIDE DEF T
<1>2. PICK d \in T : \A c \in T : d <= c  BY <1>1, LeastOf
<1>3. PICK x \in S : d = n - x  BY <1>2 DEF T
<1>4. ASSUME NEW y \in S  PROVE x >= y
  <2>1. n - y \in T  BY DEF T
  <2>2. n - x <= n - y  BY <2>1, <1>2, <1>3
  <2>3. x \in Nat /\ y \in Nat  OBVIOUS
  <2> QED  BY <2>2, <2>3
<1> QED  BY <1>4 DEF Max

SizeOf(s, i) == EntrySize(s[i].key)
Sizes(s) ==
  CHOOSE it : it = [S \in SUBSET DOMAIN s |->
                      IF S = {} THEN 0 ELSE it[S \ {Max(S)}] + SizeOf(s, Max(S))]

LEMMA EntriesSizeIs ==
  ASSUME NEW s
  PROVE  EntriesSize(s) = Sizes(s)[DOMAIN s]
BY DEF EntriesSize, FoldLeft, MapThenFoldSet, Sizes, SizeOf

LEMMA SizesEquation ==
  ASSUME NEW s \in Seq(Slot)
  PROVE  Sizes(s) = [S \in SUBSET DOMAIN s |->
            IF S = {} THEN 0 ELSE Sizes(s)[S \ {Max(S)}] + SizeOf(s, Max(S))]
<1> DEFINE Is(f, m) == f = [S \in SUBSET (1 .. m) |->
              IF S = {} THEN 0 ELSE f[S \ {Max(S)}] + SizeOf(s, Max(S))]
           N == {m \in Nat : \E f : Is(f, m)}
<1>1. 0 \in N
  <2> DEFINE f == [S \in SUBSET (1 .. 0) |-> 0]
  <2>1. 1 .. 0 = {}  OBVIOUS
  <2>2. \A S \in SUBSET (1 .. 0) : S = {}  BY <2>1
  <2>3. Is(f, 0)  BY <2>2
  <2> HIDE DEF f, Is
  <2>4. \E g : Is(g, 0)  BY <2>3
  <2> QED  BY <2>4
<1>2. ASSUME NEW m \in Nat, m \in N  PROVE m + 1 \in N
  <2>1. PICK f : Is(f, m)  BY <1>2
  <2> DEFINE g == [S \in SUBSET (1 .. m + 1) |->
                     IF m + 1 \in S THEN f[S \ {m + 1}] + SizeOf(s, m + 1) ELSE f[S]]
  <2>2. ASSUME NEW S \in SUBSET (1 .. m + 1)
        PROVE  g[S] = IF S = {} THEN 0 ELSE g[S \ {Max(S)}] + SizeOf(s, Max(S))
    <3>1. CASE S = {}
      <4>1. f[{}] = 0  BY <2>1
      <4> QED  BY <3>1, <4>1
    <3>2. CASE S # {} /\ m + 1 \notin S
      <4> DEFINE x == Max(S)
      <4>1. S \in SUBSET (1 .. m) /\ S \ {x} \in SUBSET (1 .. m)
        <5>1. \A y \in S : y \in 1 .. m  BY <3>2
        <5> QED  BY <5>1
      <4>2. f[S] = f[S \ {x}] + SizeOf(s, x)  BY <4>1, <3>2, <2>1
      <4>3. m + 1 \notin S \ {x} /\ S \ {x} \in SUBSET (1 .. m + 1)  BY <3>2
      <4> HIDE DEF x
      <4>4. g[S] = f[S] /\ g[S \ {x}] = f[S \ {x}]  BY <4>3, <3>2
      <4>5. g[S] = g[S \ {x}] + SizeOf(s, x)  BY <4>2, <4>4
      <4> HIDE DEF g
      <4> QED  BY <4>5, <3>2 DEF x
    <3>3. CASE m + 1 \in S
      <4>1. Max(S) = m + 1
        <5>1. Max(S) \in S /\ Max(S) >= m + 1
          <6>1. m + 1 \in Nat /\ S # {}  BY <3>3
          <6> QED  BY <6>1, <3>3, MaxIs
        <5>2. Max(S) \in 1 .. m + 1  BY <5>1
        <5> QED  BY <5>1, <5>2
      <4>2. S \ {m + 1} \in SUBSET (1 .. m + 1) /\ m + 1 \notin S \ {m + 1} /\ S # {}  BY <3>3
      <4>3. g[S \ {m + 1}] = f[S \ {m + 1}]  BY <4>2
      <4>4. g[S] = f[S \ {m + 1}] + SizeOf(s, m + 1)  BY <3>3
      <4> HIDE DEF g
      <4> QED  BY <4>1, <4>2, <4>3, <4>4
    <3> QED  BY <3>1, <3>2, <3>3
  <2>3. Is(g, m + 1)
    <3> HIDE DEF g
    <3>1. g = [S \in SUBSET (1 .. m + 1) |-> g[S]]  BY DEF g
    <3> QED  BY <2>2, <3>1
  <2> HIDE DEF g, Is
  <2>4. \E f1 : Is(f1, m + 1)  BY <2>3
  <2> QED  BY <2>4
<1>3. Nat \subseteq N
  <2> HIDE DEF N
  <2> QED  BY <1>1, <1>2, Induction
<1>4. DOMAIN s = 1 .. Len(s) /\ Len(s) \in Nat  OBVIOUS
<1>5. \E f : Is(f, Len(s))  BY <1>3, <1>4
<1> QED  BY <1>4, <1>5 DEF Sizes

LEMMA SizesMax ==
  ASSUME NEW s \in Seq(Slot), NEW S \in SUBSET DOMAIN s, S # {}
  PROVE  Sizes(s)[S] = Sizes(s)[S \ {Max(S)}] + SizeOf(s, Max(S))
<1> DEFINE f == Sizes(s)
<1>1. f = [T \in SUBSET DOMAIN s |->
             IF T = {} THEN 0 ELSE f[T \ {Max(T)}] + SizeOf(s, Max(T))]
  BY SizesEquation
<1> HIDE DEF f
<1>2. f[S] = f[S \ {Max(S)}] + SizeOf(s, Max(S))  BY <1>1
<1> QED  BY <1>2 DEF f

LEMMA SizesNone ==
  ASSUME NEW s \in Seq(Slot)
  PROVE  Sizes(s)[{}] = 0
<1> DEFINE f == Sizes(s)
<1>1. f = [T \in SUBSET DOMAIN s |->
             IF T = {} THEN 0 ELSE f[T \ {Max(T)}] + SizeOf(s, Max(T))]
  BY SizesEquation
<1> HIDE DEF f
<1>2. f[{}] = 0  BY <1>1
<1> QED  BY <1>2 DEF f

LEMMA SizeOfIs ==
  ASSUME NEW s \in Seq(Slot), NEW i \in DOMAIN s
  PROVE  SizeOf(s, i) \in Nat
<1> DEFINE k == s[i].key
<1>1. s[i] \in Slot  OBVIOUS
<1>2. Len(k) \in Nat  BY <1>1 DEF Slot
<1>3. EntryHeader + Len(k) \in Nat  BY <1>2, LayoutAssumption
<1> HIDE DEF k
<1>4. EntrySize(k) \in Nat  BY <1>3, AlignUpBounds DEF EntrySize
<1> QED  BY <1>4 DEF SizeOf, k

(* The sum does not depend on the order, nor on the other slots.           *)
LEMMA SizesWithout ==
  ASSUME NEW s \in Seq(Slot)
  PROVE  \A S \in SUBSET DOMAIN s :
           /\ Sizes(s)[S] \in Nat
           /\ \A i \in S : Sizes(s)[S] = Sizes(s)[S \ {i}] + SizeOf(s, i)
<1> DEFINE f == Sizes(s)
           n == Len(s)
           Sums(S) == f[S] \in Nat /\ \A i \in S : f[S] = f[S \ {i}] + SizeOf(s, i)
           N == {m \in Nat : m <= n => \A S \in SUBSET (1 .. m) : Sums(S)}
<1>0. DOMAIN s = 1 .. n /\ n \in Nat  OBVIOUS
<1>1. f[{}] = 0  BY SizesNone
<1>2. \A S \in SUBSET (1 .. n) : S # {} => f[S] = f[S \ {Max(S)}] + SizeOf(s, Max(S))
  BY <1>0, SizesMax
<1>3. \A i \in 1 .. n : SizeOf(s, i) \in Nat  BY <1>0, SizeOfIs
<1> HIDE DEF f, n
<1>4. 0 \in N
  <2>1. 1 .. 0 = {}  OBVIOUS
  <2>2. \A S \in SUBSET (1 .. 0) : S = {}  BY <2>1
  <2>3. Sums({})  BY <1>1
  <2> HIDE DEF Sums
  <2> QED  BY <2>2, <2>3
<1>5. ASSUME NEW m \in Nat, m \in N  PROVE m + 1 \in N
  <2> SUFFICES ASSUME m + 1 <= n, NEW S \in SUBSET (1 .. m + 1)
               PROVE  Sums(S)
    <3> HIDE DEF Sums
    <3> QED  OBVIOUS
  <2>1. \A T \in SUBSET (1 .. m) : Sums(T)
    <3>1. m <= n  BY <1>0
    <3> HIDE DEF Sums
    <3> QED  BY <3>1, <1>5
  <2>2. CASE S = {}  BY <2>2, <1>1
  <2>3. CASE S # {}
    <3> DEFINE x == Max(S)
    <3>1. x \in S /\ \A y \in S : x >= y
      <4>1. m + 1 \in Nat  OBVIOUS
      <4> QED  BY <4>1, <2>3, MaxIs
    <3>2. S \in SUBSET (1 .. n)
      <4>1. 1 .. m + 1 \subseteq 1 .. n  BY <1>0
      <4> QED  BY <4>1
    <3>3. f[S] = f[S \ {x}] + SizeOf(s, x)  BY <3>2, <2>3, <1>2
    <3> HIDE DEF x
    <3>4. S \ {x} \in SUBSET (1 .. m)
      <4> SUFFICES ASSUME NEW y \in S, y # x PROVE y \in 1 .. m  OBVIOUS
      <4>1. x \in 1 .. m + 1 /\ y \in 1 .. m + 1 /\ x >= y  BY <3>1
      <4> QED  BY <4>1
    <3>5. f[S \ {x}] \in Nat /\ SizeOf(s, x) \in Nat
      <4>1. x \in 1 .. n  BY <3>1, <3>2
      <4> QED  BY <4>1, <3>4, <2>1, <1>3
    <3>6. ASSUME NEW i \in S  PROVE f[S] = f[S \ {i}] + SizeOf(s, i)
      <4>1. CASE i = x  BY <4>1, <3>3
      <4>2. CASE i # x
        <5> DEFINE T == S \ {i}
                   U == T \ {x}
        <5>1. U = (S \ {x}) \ {i} /\ i \in S \ {x} /\ x \in T  BY <4>2, <3>1
        <5>2. f[S \ {x}] = f[U] + SizeOf(s, i)  BY <5>1, <3>4, <2>1
        <5>3. T \in SUBSET (1 .. n) /\ T # {}  BY <5>1, <3>2
        <5>4. Max(T) = x
          <6>1. Max(T) \in T /\ \A y \in T : Max(T) >= y  BY <5>3, <1>0, MaxIs
          <6>2. Max(T) >= x /\ x >= Max(T)  BY <6>1, <5>1, <3>1
          <6>3. Max(T) \in 1 .. n /\ x \in 1 .. n  BY <6>1, <5>1, <5>3
          <6> HIDE DEF T
          <6> QED  BY <6>2, <6>3, <1>0
        <5>5. f[T] = f[U] + SizeOf(s, x)  BY <5>3, <5>4, <1>2
        <5>6. f[U] \in Nat
          <6>1. U \in SUBSET (1 .. m)  BY <3>4
          <6> QED  BY <6>1, <2>1
        <5>7. SizeOf(s, i) \in Nat
          <6>1. i \in 1 .. n  BY <3>2
          <6> QED  BY <6>1, <1>3
        <5> DEFINE a == SizeOf(s, i)
                   b == SizeOf(s, x)
                   u == f[U]
                   t == f[T]
        <5>8. /\ a \in Nat /\ b \in Nat /\ u \in Nat
              /\ f[S] = f[S \ {x}] + b /\ f[S \ {x}] = u + a /\ t = u + b
          BY <5>2, <5>5, <5>6, <5>7, <3>3, <3>5
        <5> HIDE DEF a, b, u, t
        <5>9. f[S] = t + a  BY <5>8
        <5> QED  BY <5>9 DEF t, a
      <4> QED  BY <4>1, <4>2
    <3>7. f[S] \in Nat  BY <3>3, <3>5
    <3> QED  BY <3>6, <3>7
  <2> QED  BY <2>2, <2>3
<1>6. Nat \subseteq N
  <2> HIDE DEF N
  <2> QED  BY <1>4, <1>5, Induction
<1>7. \A S \in SUBSET (1 .. n) : Sums(S)
  <2>1. n \in N
    <3> HIDE DEF N
    <3> QED  BY <1>0, <1>6
  <2>2. n <= n  BY <1>0
  <2> HIDE DEF Sums
  <2> QED  BY <2>1, <2>2
<1> QED  BY <1>0, <1>7 DEF f

LEMMA SizesAgree ==
  ASSUME NEW s \in Seq(Slot), NEW t \in Seq(Slot), DOMAIN s = DOMAIN t
  PROVE  \A S \in SUBSET DOMAIN s :
           (\A i \in S : SizeOf(s, i) = SizeOf(t, i)) => Sizes(s)[S] = Sizes(t)[S]
<1> DEFINE f == Sizes(s)
           g == Sizes(t)
           n == Len(s)
           Same(S) == \A i \in S : SizeOf(s, i) = SizeOf(t, i)
           N == {m \in Nat : m <= n => \A S \in SUBSET (1 .. m) : Same(S) => f[S] = g[S]}
<1>0. DOMAIN s = 1 .. n /\ n \in Nat  OBVIOUS
<1>1. f[{}] = 0 /\ g[{}] = 0  BY SizesNone
<1>2. \A S \in SUBSET (1 .. n) : S # {} =>
        /\ f[S] = f[S \ {Max(S)}] + SizeOf(s, Max(S))
        /\ g[S] = g[S \ {Max(S)}] + SizeOf(t, Max(S))
  BY <1>0, SizesMax
<1> HIDE DEF f, g, n
<1>3. 0 \in N
  <2>1. 1 .. 0 = {}  OBVIOUS
  <2>2. \A S \in SUBSET (1 .. 0) : S = {}  BY <2>1
  <2> QED  BY <2>2, <1>1
<1>4. ASSUME NEW m \in Nat, m \in N  PROVE m + 1 \in N
  <2> SUFFICES ASSUME m + 1 <= n, NEW S \in SUBSET (1 .. m + 1), Same(S)
               PROVE  f[S] = g[S]
    OBVIOUS
  <2>1. \A T \in SUBSET (1 .. m) : Same(T) => f[T] = g[T]
    <3>1. m <= n  BY <1>0
    <3> QED  BY <3>1, <1>4
  <2>2. CASE S = {}  BY <2>2, <1>1
  <2>3. CASE S # {}
    <3> DEFINE x == Max(S)
    <3>1. x \in S /\ \A y \in S : x >= y
      <4>1. m + 1 \in Nat  OBVIOUS
      <4> QED  BY <4>1, <2>3, MaxIs
    <3>2. S \in SUBSET (1 .. n)
      <4>1. 1 .. m + 1 \subseteq 1 .. n  BY <1>0
      <4> QED  BY <4>1
    <3>3. f[S] = f[S \ {x}] + SizeOf(s, x) /\ g[S] = g[S \ {x}] + SizeOf(t, x)
      BY <3>2, <2>3, <1>2
    <3> HIDE DEF x
    <3>4. S \ {x} \in SUBSET (1 .. m)
      <4> SUFFICES ASSUME NEW y \in S, y # x PROVE y \in 1 .. m  OBVIOUS
      <4>1. x \in 1 .. m + 1 /\ y \in 1 .. m + 1 /\ x >= y  BY <3>1
      <4> QED  BY <4>1
    <3>5. f[S \ {x}] = g[S \ {x}]  BY <3>4, <2>1
    <3>6. SizeOf(s, x) = SizeOf(t, x)  BY <3>1
    <3> QED  BY <3>3, <3>5, <3>6
  <2> QED  BY <2>2, <2>3
<1>5. Nat \subseteq N
  <2> HIDE DEF N
  <2> QED  BY <1>3, <1>4, Induction
<1>6. \A S \in SUBSET (1 .. n) : Same(S) => f[S] = g[S]
  <2>1. n \in N
    <3> HIDE DEF N
    <3> QED  BY <1>0, <1>5
  <2>2. n <= n  BY <1>0
  <2> HIDE DEF Same
  <2> QED  BY <2>1, <2>2
<1> QED  BY <1>0, <1>6 DEF f, g

(* In a heap that ends at a multiple of Align each entry takes its own     *)
(* size, whatever came before it.                                          *)
LEMMA ReserveAdds ==
  ASSUME NEW heap \in Nat, Multiple(heap, Align), NEW k \in Seq(Int)
  PROVE  ReserveSlot(heap, k) = heap + EntrySize(k) /\ EntrySize(k) \in Nat
<1> DEFINE x == EntryHeader + Len(k)
           y == AlignUp(x)
           z == AlignUp(heap + x)
           d == z - (heap + y)
<1>0. x \in Nat /\ Align \in Nat \ {0} /\ Len(k) \in Nat /\ EntryHeader \in Nat
  BY LayoutAssumption
<1>1. heap + EntryHeader + Len(k) = heap + x  BY <1>0
<1>2. ReserveSlot(heap, k) = z /\ EntrySize(k) = y  BY <1>1 DEF ReserveSlot, EntrySize
<1> HIDE DEF x
<1>3. y \in Nat /\ x <= y /\ y < x + Align /\ Multiple(y, Align)
  BY <1>0, AlignUpBounds
<1>4. z \in Nat /\ heap + x <= z /\ z < heap + x + Align /\ Multiple(z, Align)
  <2>1. heap + x \in Nat  BY <1>0
  <2> QED  BY <2>1, AlignUpBounds
<1> HIDE DEF y, z
<1>5. d \in Int /\ d < Align /\ 0 - d < Align  BY <1>0, <1>3, <1>4
<1>6. Multiple(d, Align) /\ Multiple(0 - d, Align)
  <2> DEFINE h == heap + y
  <2>1. h \in Int /\ Multiple(h, Align) /\ Align \in Int  BY <1>0, <1>3, MultipleSum
  <2> HIDE DEF h
  <2>2. Multiple(z - h, Align) /\ Multiple(h - z, Align)
    BY ONLY <2>1, <1>4, MultipleSum
  <2>3. 0 - d = h - z  BY <1>4, <2>1 DEF h
  <2> QED  BY <2>2, <2>3 DEF h
<1> HIDE DEF d
<1>7. ~(d > 0)
  <2> SUFFICES ASSUME d > 0 PROVE FALSE  OBVIOUS
  <2>1. d >= Align  BY <1>0, <1>5, <1>6, MultipleIsLarge
  <2> QED  BY <2>1, <1>0, <1>5
<1>8. ~(0 - d > 0)
  <2> SUFFICES ASSUME 0 - d > 0 PROVE FALSE  OBVIOUS
  <2> DEFINE c == 0 - d
  <2>1. c \in Int /\ c > 0 /\ Multiple(c, Align)  BY <1>5, <1>6
  <2> HIDE DEF c
  <2>2. c >= Align  BY <2>1, <1>0, MultipleIsLarge
  <2> QED  BY <2>2, <1>0, <1>5 DEF c
<1>9. d = 0  BY <1>5, <1>7, <1>8
<1>10. z = heap + y  BY <1>9, <1>3, <1>4 DEF d
<1> QED  BY <1>2, <1>3, <1>10

-----------------------------------------------------------------------------
(* The order of the keys. *)

LEMMA SameKeys ==
  ASSUME NEW S, NEW a \in Seq(S), NEW b \in Seq(S), Len(a) = Len(b),
         \A i \in 1 .. Len(a) : a[i] = b[i]
  PROVE  a = b
<1>1. a = [i \in 1 .. Len(a) |-> a[i]] /\ b = [i \in 1 .. Len(b) |-> b[i]]
  OBVIOUS
<1>2. [i \in 1 .. Len(a) |-> a[i]] = [i \in 1 .. Len(b) |-> b[i]]
  OBVIOUS
<1> QED  BY ONLY <1>1, <1>2

(* Two keys share a number of bytes and no more. *)
LEMMA Meet ==
  ASSUME NEW a \in Str, NEW b \in Str
  PROVE  \E n \in Nat : /\ SharesFirst(a, b, n)
                        /\ n = Len(a) \/ n = Len(b) \/ a[n + 1] # b[n + 1]
<1> DEFINE T == {n \in Nat : ~SharesFirst(a, b, n + 1)}
<1>0. Len(a) \in Nat /\ Len(b) \in Nat  BY DEF Str
<1>1. T \in SUBSET Nat /\ T # {}
  <2>1. ~SharesFirst(a, b, Len(a) + 1)  BY <1>0 DEF SharesFirst
  <2> QED  BY <2>1, <1>0
<1> HIDE DEF T
<1>2. PICK n \in T : \A m \in T : n <= m  BY <1>1, LeastOf
<1>3. n \in Nat /\ ~SharesFirst(a, b, n + 1)  BY <1>2 DEF T
<1>4. SharesFirst(a, b, n)
  <2>1. CASE n = 0  BY <2>1, <1>0 DEF SharesFirst
  <2>2. CASE n # 0
    <3>1. n - 1 \in Nat /\ ~(n <= n - 1) /\ (n - 1) + 1 = n  BY <2>2, <1>3
    <3>2. n - 1 \notin T  BY <3>1, <1>2
    <3> QED  BY <3>1, <3>2 DEF T
  <2> QED  BY <2>1, <2>2
<1>5. n = Len(a) \/ n = Len(b) \/ a[n + 1] # b[n + 1]
  <2> SUFFICES ASSUME n # Len(a), n # Len(b), a[n + 1] = b[n + 1]  PROVE FALSE
    OBVIOUS
  <2>1. SharesFirst(a, b, n + 1)  BY <1>0, <1>3, <1>4 DEF SharesFirst
  <2> QED  BY <2>1, <1>3
<1> QED  BY <1>3, <1>4, <1>5

LEMMA BelowAt ==
  ASSUME NEW a \in Str, NEW b \in Str, NEW n \in Nat, SharesFirst(a, b, n), n < Len(b),
         n = Len(a) \/ a[n + 1] < b[n + 1]
  PROVE  Below(a, b)
<1>1. n \in 0 .. Len(a)  BY DEF Str, SharesFirst
<1> QED  BY <1>1 DEF Below

LEMMA Irreflexive ==
  ASSUME NEW a \in Str
  PROVE  ~Below(a, a)
<1>1. \A i \in 1 .. Len(a) : a[i] \in Nat  BY DEF Str
<1> SUFFICES ASSUME NEW n \in 0 .. Len(a), n < Len(a), n = Len(a) \/ a[n + 1] < a[n + 1]
             PROVE  FALSE
  BY DEF Below
<1>2. Len(a) \in Nat  BY DEF Str
<1> QED  BY <1>1, <1>2

LEMMA Transitive ==
  ASSUME NEW a \in Str, NEW b \in Str, NEW c \in Str, Below(a, b), Below(b, c)
  PROVE  Below(a, c)
<1>0. /\ Len(a) \in Nat /\ Len(b) \in Nat /\ Len(c) \in Nat
      /\ \A i \in 1 .. Len(a) : a[i] \in Nat
      /\ \A i \in 1 .. Len(b) : b[i] \in Nat
      /\ \A i \in 1 .. Len(c) : c[i] \in Nat
  BY DEF Str
<1>1. PICK n \in 0 .. Len(a) : /\ SharesFirst(a, b, n) /\ n < Len(b)
                               /\ n = Len(a) \/ a[n + 1] < b[n + 1]
  BY DEF Below
<1>2. PICK m \in 0 .. Len(b) : /\ SharesFirst(b, c, m) /\ m < Len(c)
                               /\ m = Len(b) \/ b[m + 1] < c[m + 1]
  BY DEF Below
<1>3. n \in Nat /\ m \in Nat /\ n <= Len(a) /\ m <= Len(b) /\ m <= Len(c)
  BY <1>0, <1>1, <1>2
<1>4. (\A i \in 1 .. n : a[i] = b[i]) /\ (\A i \in 1 .. m : b[i] = c[i])
  BY <1>1, <1>2 DEF SharesFirst
<1>5. CASE n < m
  <2>1. SharesFirst(a, c, n)  BY <1>0, <1>3, <1>4, <1>5 DEF SharesFirst
  <2>2. n < Len(c) /\ b[n + 1] = c[n + 1]  BY <1>0, <1>3, <1>4, <1>5
  <2> QED  BY <2>1, <2>2, <1>1, <1>3, BelowAt
<1>6. CASE n = m
  <2>1. SharesFirst(a, c, n)  BY <1>0, <1>3, <1>4, <1>6 DEF SharesFirst
  <2>2. n < Len(c) /\ (n = Len(a) \/ a[n + 1] < c[n + 1])
    BY <1>0, <1>1, <1>2, <1>3, <1>6
  <2> QED  BY <2>1, <2>2, <1>3, BelowAt
<1>7. CASE m < n
  <2>1. SharesFirst(a, c, m)  BY <1>0, <1>2, <1>3, <1>4, <1>7 DEF SharesFirst
  <2>2. m # Len(b) /\ a[m + 1] = b[m + 1]
    BY <1>0, <1>1, <1>3, <1>4, <1>7
  <2> QED  BY <2>1, <2>2, <1>2, <1>3, BelowAt
<1> QED  BY <1>3, <1>5, <1>6, <1>7

LEMMA Total ==
  ASSUME NEW a \in Str, NEW b \in Str, a # b
  PROVE  Below(a, b) \/ Below(b, a)
<1>0. /\ Len(a) \in Nat /\ Len(b) \in Nat
      /\ \A i \in 1 .. Len(a) : a[i] \in Nat
      /\ \A i \in 1 .. Len(b) : b[i] \in Nat
  BY DEF Str
<1>1. PICK n \in Nat : /\ SharesFirst(a, b, n)
                       /\ n = Len(a) \/ n = Len(b) \/ a[n + 1] # b[n + 1]
  BY Meet
<1>2. SharesFirst(b, a, n) /\ n <= Len(a) /\ n <= Len(b)  BY <1>1 DEF SharesFirst
<1>3. CASE n = Len(a) /\ n = Len(b)
  <2>1. \A i \in 1 .. Len(a) : a[i] = b[i]  BY <1>1, <1>3 DEF SharesFirst
  <2>2. a = b  BY <2>1, <1>3, SameKeys DEF Str
  <2> QED  BY <2>2
<1>4. CASE n = Len(a) /\ n # Len(b)
  BY <1>4, <1>1, <1>2, <1>0, BelowAt
<1>5. CASE n # Len(a) /\ n = Len(b)
  BY <1>5, <1>1, <1>2, <1>0, BelowAt
<1>6. CASE n # Len(a) /\ n # Len(b)
  <2>1. a[n + 1] < b[n + 1] \/ b[n + 1] < a[n + 1]  BY <1>6, <1>1, <1>2, <1>0
  <2>2. n < Len(a) /\ n < Len(b)  BY <1>6, <1>2, <1>0
  <2> QED  BY <2>1, <2>2, <1>1, <1>2, BelowAt
<1> QED  BY <1>3, <1>4, <1>5, <1>6

LEMMA EmptyFirst ==
  ASSUME NEW a \in Str
  PROVE  ~Below(a, <<>>) /\ (a # <<>> => Below(<<>>, a))
<1>1. ~Below(a, <<>>)  BY DEF Below, Str
<1>2. ASSUME a # <<>>  PROVE Below(<<>>, a)
  <2>1. Len(a) \in Nat /\ Len(a) # 0  BY <1>2 DEF Str
  <2>2. SharesFirst(<<>>, a, 0) /\ <<>> \in Str  BY <2>1 DEF SharesFirst, Str
  <2>3. 0 \in Nat /\ 0 < Len(a) /\ 0 = Len(<<>>)  BY <2>1
  <2> QED  BY <2>2, <2>3, BelowAt
<1> QED  BY <1>1, <1>2

(* The order's facts together, ~Below(b, a) for "a is not after b". *)
Ordered(a, b, c) ==
  /\ ~Below(a, a)
  /\ ~(Below(a, b) /\ Below(b, a))
  /\ a = b \/ Below(a, b) \/ Below(b, a)
  /\ Below(a, b) /\ Below(b, c) => Below(a, c)
  /\ Below(a, b) /\ ~Below(c, b) => Below(a, c)
  /\ ~Below(b, a) /\ Below(b, c) => Below(a, c)
  /\ ~Below(b, a) /\ ~Below(c, b) => ~Below(c, a)

LEMMA Order ==
  ASSUME NEW a \in Str, NEW b \in Str, NEW c \in Str
  PROVE  Ordered(a, b, c)
<1>1. ~Below(a, a) /\ ~Below(b, b) /\ ~Below(c, c)  BY Irreflexive
<1>2. /\ Below(a, b) /\ Below(b, a) => Below(a, a)
      /\ Below(a, b) /\ Below(b, c) => Below(a, c)
      /\ Below(a, c) /\ Below(c, b) => Below(a, b)
      /\ Below(b, a) /\ Below(a, c) => Below(b, c)
      /\ Below(c, a) /\ Below(a, b) => Below(c, b)
      /\ Below(c, b) /\ Below(b, a) => Below(c, a)
      /\ Below(b, c) /\ Below(c, a) => Below(b, a)
  BY Transitive
<1>3. /\ a = b \/ Below(a, b) \/ Below(b, a)
      /\ b = c \/ Below(b, c) \/ Below(c, b)
      /\ a = c \/ Below(a, c) \/ Below(c, a)
  BY Total
<1> QED  BY ONLY <1>1, <1>2, <1>3, Zenon DEF Ordered

-----------------------------------------------------------------------------
(* Keys that share their first bytes. *)

LEMMA ConcatIs ==
  ASSUME NEW S, NEW a \in Seq(S), NEW b \in Seq(S)
  PROVE  /\ a \o b \in Seq(S) /\ Len(a \o b) = Len(a) + Len(b)
         /\ \A j \in 1 .. Len(a) : (a \o b)[j] = a[j]
         /\ \A j \in Len(a) + 1 .. Len(a) + Len(b) : (a \o b)[j] = b[j - Len(a)]
OBVIOUS

LEMMA PartIs ==
  ASSUME NEW S, NEW a \in Seq(S), NEW m \in Nat, NEW n \in Nat, m <= n, n <= Len(a)
  PROVE  /\ SubSeq(a, m + 1, n) \in Seq(S) /\ Len(SubSeq(a, m + 1, n)) = n - m
         /\ \A i \in 1 .. n - m : SubSeq(a, m + 1, n)[i] = a[m + i]
OBVIOUS

(* A key is its first bytes and the others. *)
LEMMA Recompose ==
  ASSUME NEW p \in Str, NEW k \in Str, SharesFirst(p, k, Len(p))
  PROVE  /\ SubSeq(k, Len(p) + 1, Len(k)) \in Str
         /\ p \o SubSeq(k, Len(p) + 1, Len(k)) = k
<1> DEFINE m == Len(p)
           n == Len(k)
           s == SubSeq(k, m + 1, n)
<1>1. m \in Nat /\ n \in Nat /\ m <= n /\ \A i \in 1 .. m : p[i] = k[i]
  BY DEF SharesFirst, Str
<1>2. /\ s \in Seq(Nat) /\ Len(s) = n - m
      /\ \A i \in 1 .. n - m : s[i] = k[m + i]
  <2>1. k \in Seq(Nat) /\ n <= Len(k)  BY <1>1 DEF Str
  <2> HIDE DEF m, n
  <2> QED  BY <1>1, <2>1, PartIs
<1> DEFINE t == p \o s
<1> HIDE DEF s
<1>3. /\ t \in Seq(Nat) /\ Len(t) = m + Len(s)
      /\ \A j \in 1 .. m : t[j] = p[j]
      /\ \A j \in m + 1 .. m + Len(s) : t[j] = s[j - m]
  <2>1. p \in Seq(Nat)  BY DEF Str
  <2> QED  BY <2>1, <1>2, ConcatIs
<1> HIDE DEF t, m
<1>4. Len(t) = n  BY <1>1, <1>2, <1>3
<1>5. ASSUME NEW j \in 1 .. n  PROVE t[j] = k[j]
  <2>1. CASE j <= m  BY <2>1, <1>1, <1>3
  <2>2. CASE j > m
    <3>1. j - m \in 1 .. n - m /\ m + (j - m) = j /\ j \in m + 1 .. m + Len(s)
      BY <2>2, <1>1, <1>2
    <3>2. t[j] = s[j - m]  BY <3>1, <1>3
    <3>3. s[j - m] = k[m + (j - m)]  BY <3>1, <1>2
    <3> QED  BY <3>1, <3>2, <3>3
  <2> QED  BY <2>1, <2>2, <1>1
<1>6. t = k
  <2>1. k \in Seq(Nat)  BY DEF Str
  <2> QED  BY <2>1, <1>3, <1>4, <1>5, SameKeys DEF n
<1> QED  BY <1>2, <1>6 DEF s, t, m, Str

LEMMA JoinedIs ==
  ASSUME NEW p \in Str, NEW a \in Str
  PROVE  /\ p \o a \in Str /\ Len(p \o a) = Len(p) + Len(a)
         /\ SharesFirst(p, p \o a, Len(p))
<1> DEFINE c == p \o a
<1>1. /\ c \in Str /\ Len(c) = Len(p) + Len(a)
      /\ \A j \in 1 .. Len(p) : c[j] = p[j]
  BY ConcatIs DEF Str
<1> HIDE DEF c
<1>2. SharesFirst(p, c, Len(p))  BY <1>1 DEF Str, SharesFirst
<1> QED  BY <1>1, <1>2 DEF c

(* What comes before both keys does not count. *)
LEMMA JoinedBelow ==
  ASSUME NEW p \in Str, NEW a \in Str, NEW b \in Str
  PROVE  Below(p \o a, p \o b) <=> Below(a, b)
<1> DEFINE c == p \o a
           d == p \o b
           m == Len(p)
<1>1. m \in Nat /\ Len(a) \in Nat /\ Len(b) \in Nat  BY DEF Str
<1>2. /\ c \in Str /\ Len(c) = m + Len(a)
      /\ \A j \in 1 .. m : c[j] = p[j]
      /\ \A j \in m + 1 .. m + Len(a) : c[j] = a[j - m]
  BY ConcatIs DEF Str
<1>3. /\ d \in Str /\ Len(d) = m + Len(b)
      /\ \A j \in 1 .. m : d[j] = p[j]
      /\ \A j \in m + 1 .. m + Len(b) : d[j] = b[j - m]
  BY ConcatIs DEF Str
<1>b. \A j \in 1 .. m : p[j] \in Nat  BY DEF Str
<1> HIDE DEF c, d, m
<1>4. ASSUME Below(a, b)  PROVE Below(c, d)
  <2>1. PICK n \in 0 .. Len(a) : /\ SharesFirst(a, b, n) /\ n < Len(b)
                                 /\ n = Len(a) \/ a[n + 1] < b[n + 1]
    BY <1>4 DEF Below
  <2>2. n \in Nat /\ n <= Len(a) /\ \A i \in 1 .. n : a[i] = b[i]
    BY <2>1, <1>1 DEF SharesFirst
  <2>3. ASSUME NEW j \in 1 .. m + n  PROVE c[j] = d[j]
    <3>1. CASE j <= m  BY <3>1, <1>1, <1>2, <1>3
    <3>2. CASE j > m
      <4>1. j - m \in 1 .. n /\ j \in m + 1 .. m + Len(a) /\ j \in m + 1 .. m + Len(b)
        BY <3>2, <2>1, <2>2, <1>1
      <4> QED  BY <4>1, <2>2, <1>2, <1>3
    <3> QED  BY <3>1, <3>2, <2>2, <1>1
  <2>4. SharesFirst(c, d, m + n)  BY <2>1, <2>2, <2>3, <1>1, <1>2, <1>3 DEF SharesFirst
  <2>5. m + n \in Nat /\ m + n < Len(d)  BY <2>1, <2>2, <1>1, <1>3
  <2>6. m + n = Len(c) \/ c[(m + n) + 1] < d[(m + n) + 1]
    <3>1. CASE n = Len(a)  BY <3>1, <1>2
    <3>2. CASE n # Len(a) /\ a[n + 1] < b[n + 1]
      <4> DEFINE j == (m + n) + 1
      <4>1. j \in m + 1 .. m + Len(a) /\ j \in m + 1 .. m + Len(b) /\ j - m = n + 1
        BY <3>2, <2>1, <2>2, <1>1
      <4> HIDE DEF j
      <4>2. c[j] = a[n + 1] /\ d[j] = b[n + 1]  BY <4>1, <1>2, <1>3
      <4> QED  BY <4>2, <3>2 DEF j
    <3> QED  BY <3>1, <3>2, <2>1
  <2> QED  BY <2>4, <2>5, <2>6, <1>2, <1>3, BelowAt
<1>5. ASSUME Below(c, d)  PROVE Below(a, b)
  <2>1. PICK n \in 0 .. Len(c) : /\ SharesFirst(c, d, n) /\ n < Len(d)
                                 /\ n = Len(c) \/ c[n + 1] < d[n + 1]
    BY <1>5 DEF Below
  <2>2. n \in Nat /\ n <= Len(c) /\ \A i \in 1 .. n : c[i] = d[i]
    BY <2>1, <1>1, <1>2 DEF SharesFirst
  <2>3. m <= n
    <3> SUFFICES ASSUME n < m PROVE FALSE  BY <1>1, <2>2
    <3>1. n + 1 \in 1 .. m /\ n # Len(c)  BY <2>2, <1>1, <1>2
    <3>2. c[n + 1] = p[n + 1] /\ d[n + 1] = p[n + 1] /\ p[n + 1] \in Nat
      BY <3>1, <1>2, <1>3, <1>b
    <3> QED  BY <3>1, <3>2, <2>1
  <2> DEFINE q == n - m
  <2>4. q \in Nat /\ n = m + q /\ q <= Len(a) /\ q < Len(b)
    BY <2>1, <2>2, <2>3, <1>1, <1>2, <1>3
  <2> HIDE DEF q
  <2>5. SharesFirst(a, b, q)
    <3>1. ASSUME NEW i \in 1 .. q  PROVE a[i] = b[i]
      <4>1. /\ m + i \in 1 .. n /\ m + i \in m + 1 .. m + Len(a)
            /\ m + i \in m + 1 .. m + Len(b) /\ (m + i) - m = i
        BY <2>4, <1>1
      <4>2. c[m + i] = a[i] /\ d[m + i] = b[i]  BY <4>1, <1>2, <1>3
      <4> QED  BY <4>1, <4>2, <2>2
    <3> QED  BY <3>1, <2>4 DEF SharesFirst
  <2>6. q = Len(a) \/ a[q + 1] < b[q + 1]
    <3>1. CASE n = Len(c)
      <4>1. m + q = m + Len(a)  BY <3>1, <2>4, <1>2
      <4> QED  BY <4>1, <2>4, <1>1
    <3>2. CASE n # Len(c) /\ c[n + 1] < d[n + 1]
      <4> DEFINE j == n + 1
      <4>1. j \in m + 1 .. m + Len(a) /\ j \in m + 1 .. m + Len(b) /\ j - m = q + 1
        BY <3>2, <2>1, <2>2, <2>4, <1>1, <1>2, <1>3
      <4> HIDE DEF j
      <4>2. c[j] = a[q + 1] /\ d[j] = b[q + 1]  BY <4>1, <1>2, <1>3
      <4> QED  BY <4>2, <3>2 DEF j
    <3> QED  BY <3>1, <3>2, <2>1
  <2> QED  BY <2>4, <2>5, <2>6, BelowAt
<1> QED  BY <1>4, <1>5 DEF c, d

(* What both ends of a range start with, every key between them does.      *)
LEMMA Between ==
  ASSUME NEW p \in Str, NEW a \in Str, NEW b \in Str, NEW k \in Str,
         SharesFirst(p, a, Len(p)), SharesFirst(p, b, Len(p)),
         ~Below(k, a), ~Below(b, k)
  PROVE  SharesFirst(p, k, Len(p))
<1> DEFINE m == Len(p)
<1>0. /\ m \in Nat /\ Len(k) \in Nat /\ m <= Len(a) /\ m <= Len(b)
      /\ \A i \in 1 .. m : p[i] \in Nat /\ a[i] = p[i] /\ b[i] = p[i]
      /\ \A i \in 1 .. Len(k) : k[i] \in Nat
      /\ Len(a) \in Nat /\ Len(b) \in Nat
  <2>1. m \in Nat /\ Len(k) \in Nat /\ Len(a) \in Nat /\ Len(b) \in Nat  BY DEF Str
  <2>2. \A i \in 1 .. m : p[i] \in Nat  BY DEF Str
  <2>3. \A i \in 1 .. Len(k) : k[i] \in Nat  BY DEF Str
  <2>4. m <= Len(a) /\ m <= Len(b) /\ \A i \in 1 .. m : a[i] = p[i] /\ b[i] = p[i]
    BY DEF SharesFirst
  <2> QED  BY <2>1, <2>2, <2>3, <2>4
<1>1. PICK n \in Nat : /\ SharesFirst(p, k, n)
                       /\ n = m \/ n = Len(k) \/ p[n + 1] # k[n + 1]
  BY Meet
<1>2. n <= m /\ n <= Len(k) /\ \A i \in 1 .. n : p[i] = k[i]  BY <1>1 DEF SharesFirst
<1> SUFFICES ASSUME n # m  PROVE FALSE  BY <1>1
<1> HIDE DEF m
<1>3. n < m /\ n + 1 \in 1 .. m  BY <1>0, <1>2
<1>4. SharesFirst(k, a, n) /\ SharesFirst(b, k, n)
  BY <1>0, <1>2, <1>3 DEF SharesFirst
<1>5. CASE n = Len(k) \/ k[n + 1] < p[n + 1]
  <2>1. n = Len(k) \/ k[n + 1] < a[n + 1]  BY <1>0, <1>3, <1>5
  <2>2. n < Len(a)  BY <1>0, <1>3
  <2>3. Below(k, a)  BY <1>4, <2>1, <2>2, BelowAt
  <2> QED  BY <2>3
<1>6. CASE n # Len(k) /\ p[n + 1] < k[n + 1]
  <2>1. b[n + 1] < k[n + 1] /\ n < Len(k)  BY <1>0, <1>2, <1>3, <1>6
  <2>2. Below(b, k)  BY <1>4, <2>1, BelowAt
  <2> QED  BY <2>2
<1>7. n = Len(k) \/ k[n + 1] < p[n + 1] \/ p[n + 1] < k[n + 1]
  <2>1. CASE n # Len(k)
    <3>1. n + 1 \in 1 .. Len(k)  BY <2>1, <1>0, <1>2
    <3>2. p[n + 1] \in Nat /\ k[n + 1] \in Nat /\ p[n + 1] # k[n + 1]
      BY <3>1, <2>1, <1>0, <1>1, <1>3
    <3> QED  BY <3>2
  <2> QED  BY <2>1
<1> QED  BY <1>5, <1>6, <1>7

LEMMA CommonPrefixIs ==
  ASSUME NEW a \in Str, NEW b \in Str
  PROVE  CommonPrefixLen(a, b) \in Nat /\ SharesFirst(a, b, CommonPrefixLen(a, b))
<1>0. Len(a) \in Nat /\ Len(b) \in Nat  BY DEF Str
<1>1. PICK n \in Nat : /\ SharesFirst(a, b, n)
                       /\ n = Len(a) \/ n = Len(b) \/ a[n + 1] # b[n + 1]
  BY Meet
<1>2. n \in 0 .. Len(a)  BY <1>0, <1>1 DEF SharesFirst
<1>3. ~SharesFirst(a, b, n + 1)  BY <1>0, <1>1 DEF SharesFirst
<1> DEFINE c == CommonPrefixLen(a, b)
<1>4. c \in 0 .. Len(a) /\ SharesFirst(a, b, c)
  BY <1>1, <1>2, <1>3 DEF CommonPrefixLen
<1> HIDE DEF c
<1>5. c \in Nat  BY <1>0, <1>4
<1> QED  BY <1>4, <1>5 DEF c

(* The first bytes of a key, taken by themselves. *)
LEMMA StartShares ==
  ASSUME NEW k \in Str, NEW n \in Nat, n <= Len(k)
  PROVE  /\ SubSeq(k, 1, n) \in Str /\ Len(SubSeq(k, 1, n)) = n
         /\ SharesFirst(SubSeq(k, 1, n), k, n)
<1> DEFINE s == SubSeq(k, 1, n)
<1>1. s \in Seq(Nat) /\ Len(s) = n /\ \A i \in 1 .. n : s[i] = k[i]
  BY DEF Str
<1> HIDE DEF s
<1>2. SharesFirst(s, k, n)  BY <1>1 DEF SharesFirst
<1> QED  BY <1>1, <1>2 DEF s, Str

LEMMA SharesAcross ==
  ASSUME NEW a \in Str, NEW b \in Str, NEW c \in Str, NEW n \in Nat,
         SharesFirst(a, b, n), SharesFirst(b, c, n)
  PROVE  SharesFirst(a, c, n) /\ SharesFirst(b, a, n)
BY DEF SharesFirst

-----------------------------------------------------------------------------
(* Pages whose keys are in order and between the fences: lo is the one     *)
(* below the page, its high key the one above.                             *)

(* The whole key of a slot. *)
KeyAt(page, i) == page.prefix \o page.slots[i].key

Strings(page) ==
  /\ page \in Node /\ page.prefix \in Str /\ page.high \in Str \cup {NoKey}
  /\ \A i \in DOMAIN page.slots : page.slots[i].key \in Str

InOrder(slots) == \A i, j \in DOMAIN slots : i < j => Below(slots[i].key, slots[j].key)

(* The prefix is one of both fences. *)
Shares(page, lo) ==
  page.prefix # <<>> =>
    /\ SharesFirst(page.prefix, lo, Len(page.prefix))
    /\ page.high # NoKey /\ SharesFirst(page.prefix, page.high, Len(page.prefix))

Covers(page, lo, k) == ~Below(k, lo) /\ (page.high # NoKey => Below(k, page.high))

(* An intermediate page's first separator is its low fence, and so is the  *)
(* first key of a leaf, for the leftmost one.                              *)
StartsAt(page, lo) ==
  page.level > 0 \/ lo # <<>> => page.slots # <<>> /\ KeyAt(page, 1) = lo

(* The ends of a level are open. *)
EndsOpen(page, lo) ==
  (page.rlink = NoPage) = (page.high = NoKey) /\ (page.llink = NoPage) = (lo = <<>>)

NodeOK(page, lo) ==
  /\ lo \in Str /\ Strings(page) /\ InOrder(page.slots) /\ Shares(page, lo)
  /\ page.high # NoKey => Below(lo, page.high)
  /\ \A i \in DOMAIN page.slots : Covers(page, lo, KeyAt(page, i))
  /\ StartsAt(page, lo) /\ EndsOpen(page, lo)

(* A key and what the page holds with it. *)
Has(page, k, r) == \E i \in DOMAIN page.slots : KeyAt(page, i) = k /\ page.slots[i].ref = r

LEMMA PageParts ==
  ASSUME NEW page \in Node
  PROVE  /\ page.slots \in Seq(Slot) /\ Count(page) = Len(page.slots) /\ Count(page) \in Nat
         /\ DOMAIN page.slots = 1 .. Count(page)
         /\ page.heap \in Nat /\ page.dead \in Nat /\ page.level \in Nat
         /\ page.rlink \in Int /\ page.llink \in Int /\ page.marked \in BOOLEAN
         /\ page.prefix \in Seq(Int) /\ page.high \in Seq(Int)
         /\ \A i \in DOMAIN page.slots :
              page.slots[i] \in Slot /\ page.slots[i].key \in Seq(Int) /\ page.slots[i].ref \in Int
<1>1. page.slots \in Seq(Slot) /\ Count(page) = Len(page.slots)  BY DEF Node, Count
<1>2. \A i \in DOMAIN page.slots : page.slots[i] \in Slot  BY <1>1
<1>3. ASSUME NEW i \in DOMAIN page.slots
      PROVE  page.slots[i].key \in Seq(Int) /\ page.slots[i].ref \in Int
  BY <1>2 DEF Slot
<1> QED  BY <1>1, <1>2, <1>3 DEF Node

LEMMA KeyAtIs ==
  ASSUME NEW page, Strings(page), NEW i \in DOMAIN page.slots
  PROVE  KeyAt(page, i) \in Str /\ SharesFirst(page.prefix, KeyAt(page, i), Len(page.prefix))
<1>1. page.prefix \in Str /\ page.slots[i].key \in Str  BY DEF Strings
<1> QED  BY <1>1, JoinedIs DEF KeyAt

LEMMA EntriesInOrder ==
  ASSUME NEW page, Strings(page), NEW i \in DOMAIN page.slots, NEW j \in DOMAIN page.slots
  PROVE  Below(KeyAt(page, i), KeyAt(page, j)) <=> Below(page.slots[i].key, page.slots[j].key)
<1>1. page.prefix \in Str /\ page.slots[i].key \in Str /\ page.slots[j].key \in Str
  BY DEF Strings
<1> QED  BY <1>1, JoinedBelow DEF KeyAt

(* A key that a page covers has the page's prefix. *)
LEMMA CoveredShares ==
  ASSUME NEW page, NEW lo, NodeOK(page, lo), NEW k \in Str, Covers(page, lo, k)
  PROVE  SharesFirst(page.prefix, k, Len(page.prefix))
<1>1. page.prefix \in Str /\ lo \in Str /\ page.high \in Str \cup {NoKey}
  BY DEF NodeOK, Strings
<1>2. CASE page.prefix = <<>>
  <2>1. Len(k) \in Nat  BY DEF Str
  <2> QED  BY <1>2, <2>1 DEF SharesFirst
<1>3. CASE page.prefix # <<>>
  <2>1. /\ SharesFirst(page.prefix, lo, Len(page.prefix))
        /\ page.high # NoKey /\ SharesFirst(page.prefix, page.high, Len(page.prefix))
    BY <1>3 DEF NodeOK, Shares
  <2>2. page.high \in Str /\ ~Below(k, lo) /\ Below(k, page.high)
    BY <1>1, <2>1 DEF Covers
  <2>3. ~Below(page.high, k)  BY <2>2, Order DEF Ordered
  <2> QED  BY <1>1, <2>1, <2>2, <2>3, Between
<1> QED  BY <1>2, <1>3

(* RemoveKeyPrefix of such a key compares with the slots as the whole key  *)
(* does with their whole keys.                                             *)
Stripped(page, k, s) ==
  /\ s \in Str /\ page.prefix \o s = k /\ ~TooShort(page, k)
  /\ \A i \in DOMAIN page.slots :
       /\ Below(page.slots[i].key, s) <=> Below(KeyAt(page, i), k)
       /\ Below(s, page.slots[i].key) <=> Below(k, KeyAt(page, i))
       /\ page.slots[i].key = s <=> KeyAt(page, i) = k

LEMMA RemoveKeyPrefixIs ==
  ASSUME NEW page, NEW lo, NodeOK(page, lo), NEW k \in Str, Covers(page, lo, k)
  PROVE  Stripped(page, k, RemoveKeyPrefix(page, k))
<1> DEFINE s == RemoveKeyPrefix(page, k)
           p == page.prefix
<1>1. SharesFirst(p, k, Len(p)) /\ p \in Str /\ Strings(page)
  BY CoveredShares DEF NodeOK, Strings
<1>2. s \in Str /\ p \o s = k  BY <1>1, Recompose DEF RemoveKeyPrefix
<1>3. ~TooShort(page, k)
  <2>1. Len(k) \in Nat /\ Len(p) \in Nat  BY <1>1 DEF Str
  <2> QED  BY <1>1, <2>1 DEF TooShort, SharesFirst
<1> HIDE DEF s
<1>4. ASSUME NEW i \in DOMAIN page.slots
      PROVE  /\ Below(page.slots[i].key, s) <=> Below(KeyAt(page, i), k)
             /\ Below(s, page.slots[i].key) <=> Below(k, KeyAt(page, i))
             /\ page.slots[i].key = s <=> KeyAt(page, i) = k
  <2> DEFINE a == page.slots[i].key
  <2>1. a \in Str  BY <1>1 DEF Strings
  <2>2. KeyAt(page, i) = p \o a  BY DEF KeyAt
  <2> HIDE DEF a, p
  <2>3. /\ Below(p \o a, p \o s) <=> Below(a, s)
        /\ Below(p \o s, p \o a) <=> Below(s, a)
    BY <1>1, <1>2, <2>1, JoinedBelow
  <2>4. a # s => Below(a, s) \/ Below(s, a)  BY <1>2, <2>1, Total
  <2>5. ~Below(k, k)  BY Irreflexive
  <2>6. a = s <=> KeyAt(page, i) = k  BY <1>2, <2>2, <2>3, <2>4, <2>5
  <2> QED  BY <1>2, <2>2, <2>3, <2>6 DEF a
<1> QED  BY <1>2, <1>3, <1>4 DEF Stripped, s

-----------------------------------------------------------------------------
(* GetIdx. *)

LEMMA StartSet ==
  ASSUME NEW n \in Nat, NEW T \in SUBSET (1 .. n), \A i \in T : \A j \in 1 .. i : j \in T
  PROVE  Cardinality(T) \in 0 .. n /\ T = 1 .. Cardinality(T)
<1>1. CASE T = {}
  <2>1. Cardinality(T) = 0  BY <1>1, FS_EmptySet
  <2> QED  BY <2>1, <1>1
<1>2. CASE T # {}
  <2> DEFINE m == Max(T)
  <2>1. m \in T /\ \A i \in T : m >= i  BY <1>2, MaxIs
  <2> HIDE DEF m
  <2>2. m \in 1 .. n  BY <2>1
  <2>3. T = 1 .. m
    <3>1. \A i \in T : i \in 1 .. m  BY <2>1, <2>2
    <3>2. \A i \in 1 .. m : i \in T  BY <2>1
    <3> QED  BY <3>1, <3>2
  <2>4. Cardinality(1 .. m) = m
    <3>1. Cardinality(1 .. m) = IF 1 > m THEN 0 ELSE m - 1 + 1  BY <2>2, FS_Interval
    <3> QED  BY <3>1, <2>2
  <2> QED  BY <2>2, <2>3, <2>4
<1> QED  BY <1>1, <1>2

LEMMA LowerIdxIs ==
  ASSUME NEW slots \in Seq(Slot), \A i \in DOMAIN slots : slots[i].key \in Str,
         InOrder(slots), NEW k \in Str
  PROVE  /\ LowerIdx(slots, k) \in 0 .. Len(slots)
         /\ \A i \in DOMAIN slots : i <= LowerIdx(slots, k) <=> Below(slots[i].key, k)
<1> DEFINE T == {i \in DOMAIN slots : Below(slots[i].key, k)}
           n == Len(slots)
<1>1. n \in Nat /\ DOMAIN slots = 1 .. n /\ T \in SUBSET (1 .. n)  OBVIOUS
<1>2. ASSUME NEW i \in T, NEW j \in 1 .. i  PROVE j \in T
  <2>1. i \in DOMAIN slots /\ j \in DOMAIN slots /\ Below(slots[i].key, k)
    BY <1>1
  <2>2. CASE j = i  BY <2>2
  <2>3. CASE j # i
    <3>1. j < i  BY <2>3, <2>1, <1>1
    <3>2. Below(slots[j].key, slots[i].key)  BY <2>1, <3>1 DEF InOrder
    <3>3. Below(slots[j].key, k)  BY <2>1, <3>2, Transitive
    <3> QED  BY <2>1, <3>3
  <2> QED  BY <2>2, <2>3
<1> HIDE DEF T
<1>3. Cardinality(T) \in 0 .. n /\ T = 1 .. Cardinality(T)
  <2> HIDE DEF n
  <2> QED  BY <1>1, <1>2, StartSet
<1>4. LowerIdx(slots, k) = Cardinality(T)  BY DEF LowerIdx, T
<1>5. ASSUME NEW i \in DOMAIN slots  PROVE i \in T <=> i <= Cardinality(T)
  BY <1>1, <1>3
<1> QED  BY <1>3, <1>4, <1>5 DEF T

LEMMA UpperIdxIs ==
  ASSUME NEW slots \in Seq(Slot), \A i \in DOMAIN slots : slots[i].key \in Str,
         InOrder(slots), NEW k \in Str
  PROVE  /\ UpperIdx(slots, k) \in 0 .. Len(slots)
         /\ \A i \in DOMAIN slots : i <= UpperIdx(slots, k) <=> ~Below(k, slots[i].key)
<1> DEFINE T == {i \in DOMAIN slots : ~Below(k, slots[i].key)}
           n == Len(slots)
<1>1. n \in Nat /\ DOMAIN slots = 1 .. n /\ T \in SUBSET (1 .. n)  OBVIOUS
<1>2. ASSUME NEW i \in T, NEW j \in 1 .. i  PROVE j \in T
  <2>1. i \in DOMAIN slots /\ j \in DOMAIN slots /\ ~Below(k, slots[i].key)
    BY <1>1
  <2>2. CASE j = i  BY <2>2
  <2>3. CASE j # i
    <3>1. j < i  BY <2>3, <2>1, <1>1
    <3>2. Below(slots[j].key, slots[i].key)  BY <2>1, <3>1 DEF InOrder
    <3>3. ~Below(k, slots[j].key)  BY <2>1, <3>2, Transitive
    <3> QED  BY <2>1, <3>3
  <2> QED  BY <2>2, <2>3
<1> HIDE DEF T
<1>3. Cardinality(T) \in 0 .. n /\ T = 1 .. Cardinality(T)
  <2> HIDE DEF n
  <2> QED  BY <1>1, <1>2, StartSet
<1>4. UpperIdx(slots, k) = Cardinality(T)  BY DEF UpperIdx, T
<1>5. ASSUME NEW i \in DOMAIN slots  PROVE i \in T <=> i <= Cardinality(T)
  BY <1>1, <1>3
<1> QED  BY <1>3, <1>4, <1>5 DEF T

-----------------------------------------------------------------------------
(* Searches in a page. *)

LEMMA LeafFoundIs ==
  ASSUME NEW page, NEW lo, NodeOK(page, lo), NEW k \in Str, Covers(page, lo, k)
  PROVE  LeafFound(page, k) <=> \E i \in DOMAIN page.slots : KeyAt(page, i) = k
<1> DEFINE s == RemoveKeyPrefix(page, k)
<1>1. Stripped(page, k, s)  BY RemoveKeyPrefixIs
<1> HIDE DEF s
<1>2. \A i \in DOMAIN page.slots : page.slots[i].key = s <=> KeyAt(page, i) = k
  BY <1>1 DEF Stripped
<1>3. LeafFound(page, k) <=> \E i \in DOMAIN page.slots : page.slots[i].key = s
  BY DEF LeafFound, s
<1> QED  BY <1>2, <1>3

(* Where a key is or would go. *)
LowerPlace(page, k, n) ==
  /\ n \in 0 .. Count(page)
  /\ \A i \in DOMAIN page.slots : i <= n <=> Below(KeyAt(page, i), k)
UpperPlace(page, k, n) ==
  /\ n \in 0 .. Count(page)
  /\ \A i \in DOMAIN page.slots : i <= n <=> ~Below(k, KeyAt(page, i))

LEMMA PlacesAre ==
  ASSUME NEW page, NEW lo, NodeOK(page, lo), NEW k \in Str, Covers(page, lo, k)
  PROVE  /\ LowerPlace(page, k, LowerIdx(page.slots, RemoveKeyPrefix(page, k)))
         /\ UpperPlace(page, k, UpperIdx(page.slots, RemoveKeyPrefix(page, k)))
<1> DEFINE s == RemoveKeyPrefix(page, k)
           t == page.slots
           lower == LowerIdx(t, s)
           upper == UpperIdx(t, s)
<1>1. Stripped(page, k, s)  BY RemoveKeyPrefixIs
<1>2. Strings(page) /\ page \in Node /\ InOrder(t)  BY DEF NodeOK, Strings
<1>3. t \in Seq(Slot) /\ \A i \in DOMAIN t : t[i].key \in Str
  BY <1>2, PageParts DEF Strings
<1> HIDE DEF s
<1>4. s \in Str /\ \A i \in DOMAIN t : /\ Below(t[i].key, s) <=> Below(KeyAt(page, i), k)
                                       /\ Below(s, t[i].key) <=> Below(k, KeyAt(page, i))
  BY <1>1 DEF Stripped
<1> HIDE DEF t
<1>5. lower \in 0 .. Len(t) /\ \A i \in DOMAIN t : i <= lower <=> Below(t[i].key, s)
  BY <1>2, <1>3, <1>4, LowerIdxIs
<1>6. upper \in 0 .. Len(t) /\ \A i \in DOMAIN t : i <= upper <=> ~Below(s, t[i].key)
  BY <1>2, <1>3, <1>4, UpperIdxIs
<1> HIDE DEF lower, upper
<1>7. LowerPlace(page, k, lower)  BY <1>4, <1>5 DEF LowerPlace, Count, t
<1>8. UpperPlace(page, k, upper)  BY <1>4, <1>6 DEF UpperPlace, Count, t
<1> QED  BY <1>7, <1>8 DEF lower, upper, s, t

(* Get of an intermediate page always finds a child. *)
LEMMA InterGetIs ==
  ASSUME NEW page, NEW lo, NodeOK(page, lo), page.level > 0,
         NEW k \in Str, Covers(page, lo, k)
  PROVE  \E i \in DOMAIN page.slots :
           InterGet(page, k) = page.slots[i].ref /\ ~Below(k, KeyAt(page, i))
<1> DEFINE n == UpperIdx(page.slots, RemoveKeyPrefix(page, k))
<1>1. UpperPlace(page, k, n)  BY PlacesAre
<1>2. InterGet(page, k) = IF n = 0 THEN NoPage ELSE page.slots[n].ref
  BY DEF InterGet
<1> HIDE DEF n
<1>3. page \in Node /\ page.slots # <<>> /\ KeyAt(page, 1) = lo
  BY DEF NodeOK, Strings, StartsAt
<1>4. DOMAIN page.slots = 1 .. Count(page) /\ Count(page) \in Nat /\ Count(page) # 0
  <2>1. page.slots \in Seq(Slot) /\ Count(page) = Len(page.slots)  BY <1>3, PageParts
  <2> QED  BY <2>1, <1>3
<1>5. 1 \in DOMAIN page.slots /\ ~Below(k, KeyAt(page, 1))  BY <1>3, <1>4 DEF Covers
<1>6. 1 <= n  BY <1>1, <1>5 DEF UpperPlace
<1>7. n \in 0 .. Count(page)  BY <1>1 DEF UpperPlace
<1>8. n \in DOMAIN page.slots /\ n <= n /\ n # 0  BY <1>4, <1>6, <1>7
<1>9. ~Below(k, KeyAt(page, n))  BY <1>1, <1>8 DEF UpperPlace
<1> QED  BY <1>2, <1>8, <1>9

-----------------------------------------------------------------------------
(* Inserting into a page. *)

(* Nothing else of a page changes. *)
SameFences(new, page) ==
  /\ new.level = page.level /\ new.high = page.high
  /\ new.rlink = page.rlink /\ new.llink = page.llink

LEMMA InsertSlotIs ==
  ASSUME NEW page \in Node, NEW idx \in 0 .. Count(page), NEW s \in Seq(Int), NEW ref \in Int
  PROVE  LET new == InsertSlot(page, idx, s, ref) IN
         /\ new \in Node /\ SameFences(new, page) /\ new.prefix = page.prefix
         /\ Inserted(new.slots, page.slots, idx + 1, [key |-> s, ref |-> ref])
         /\ new.heap = ReserveSlot(page.heap, s) /\ new.dead = page.dead
<1> DEFINE e == [key |-> s, ref |-> ref]
           t == InsertAt(page.slots, idx + 1, e)
           h == ReserveSlot(page.heap, s)
           new == InsertSlot(page, idx, s, ref)
<1>1. /\ page.slots \in Seq(Slot) /\ Count(page) = Len(page.slots) /\ Count(page) \in Nat
      /\ page.heap \in Nat
  BY PageParts
<1>2. e \in Slot /\ idx + 1 \in 1 .. Len(page.slots) + 1  BY <1>1 DEF Slot
<1>3. Inserted(t, page.slots, idx + 1, e)
  <2> HIDE DEF e
  <2> QED  BY <1>1, <1>2, InsertAtElements
<1>4. h \in Nat
  <2>1. page.heap + EntryHeader + Len(s) \in Nat  BY <1>1, LayoutAssumption
  <2> QED  BY <2>1, AlignUpBounds DEF ReserveSlot
<1>5. new = [page EXCEPT !.slots = t, !.heap = h]  BY DEF InsertSlot
<1>6. t \in Seq(Slot)  BY <1>3 DEF Inserted
<1> HIDE DEF t, h, e, new
<1>7. new \in Node /\ SameFences(new, page) /\ new.prefix = page.prefix
      /\ new.slots = t /\ new.heap = h /\ new.dead = page.dead
  BY <1>4, <1>5, <1>6 DEF Node, SameFences
<1> QED  BY <1>3, <1>7 DEF h, e, new

(* A new key goes to its place. *)
PutIn(new, page, lo, k, ref) ==
  /\ NodeOK(new, lo) /\ SameFences(new, page)
  /\ \A x, r : Has(new, x, r) <=> Has(page, x, r) \/ (x = k /\ r = ref)

LEMMA InsertSlotKeeps ==
  ASSUME NEW page, NEW lo, NodeOK(page, lo), NEW k \in Str, Covers(page, lo, k),
         \A i \in DOMAIN page.slots : KeyAt(page, i) # k,
         page.level > 0 \/ lo # <<>> => k # lo,
         NEW idx, LowerPlace(page, k, idx), NEW ref \in Int
  PROVE  PutIn(InsertSlot(page, idx, RemoveKeyPrefix(page, k), ref), page, lo, k, ref)
<1> DEFINE s == RemoveKeyPrefix(page, k)
           e == [key |-> s, ref |-> ref]
           new == InsertSlot(page, idx, s, ref)
           n == Count(page)
<1>1. Strings(page) /\ page \in Node /\ lo \in Str /\ InOrder(page.slots)
  BY DEF NodeOK, Strings
<1>2. Stripped(page, k, s)  BY RemoveKeyPrefixIs
<1> HIDE DEF s
<1>3. s \in Str /\ s \in Seq(Int) /\ page.prefix \o s = k  BY <1>2 DEF Stripped, Str
<1>4. /\ page.slots \in Seq(Slot) /\ n = Len(page.slots) /\ n \in Nat
      /\ DOMAIN page.slots = 1 .. n
  BY <1>1, PageParts
<1>5. idx \in 0 .. n /\ \A i \in 1 .. n : i <= idx <=> Below(KeyAt(page, i), k)
  BY <1>4 DEF LowerPlace
<1>6. /\ new \in Node /\ SameFences(new, page) /\ new.prefix = page.prefix
      /\ Inserted(new.slots, page.slots, idx + 1, e)
  BY <1>1, <1>3, <1>5, InsertSlotIs
<1> HIDE DEF new, n
<1>7. /\ new.slots \in Seq(Slot) /\ DOMAIN new.slots = 1 .. n + 1
      /\ \A j \in 1 .. n + 1 : new.slots[j] = IF j < idx + 1 THEN page.slots[j]
                                              ELSE IF j = idx + 1 THEN e ELSE page.slots[j - 1]
  BY <1>4, <1>6 DEF Inserted
<1>8. e.key = s /\ e.ref = ref  OBVIOUS
<1> HIDE DEF e
(* Where the new page's entries were. *)
<1>9. /\ \A j \in 1 .. idx : j \in 1 .. n /\ j \in 1 .. n + 1 /\ new.slots[j] = page.slots[j]
      /\ idx + 1 \in 1 .. n + 1 /\ new.slots[idx + 1] = e
      /\ \A j \in idx + 2 .. n + 1 : j - 1 \in 1 .. n /\ new.slots[j] = page.slots[j - 1]
  <2>1. ASSUME NEW j \in 1 .. idx
        PROVE  j \in 1 .. n /\ j \in 1 .. n + 1 /\ new.slots[j] = page.slots[j]
    <3>1. j \in 1 .. n /\ j \in 1 .. n + 1 /\ j < idx + 1  BY <1>4, <1>5
    <3> QED  BY <3>1, <1>7
  <2>2. idx + 1 \in 1 .. n + 1 /\ new.slots[idx + 1] = e
    <3>1. idx + 1 \in 1 .. n + 1 /\ ~(idx + 1 < idx + 1)  BY <1>4, <1>5
    <3> QED  BY <3>1, <1>7
  <2>3. ASSUME NEW j \in idx + 2 .. n + 1
        PROVE  j - 1 \in 1 .. n /\ new.slots[j] = page.slots[j - 1]
    <3>1. j - 1 \in 1 .. n /\ j \in 1 .. n + 1 /\ ~(j < idx + 1) /\ j # idx + 1
      BY <1>4, <1>5
    <3> QED  BY <3>1, <1>7
  <2> QED  BY <2>1, <2>2, <2>3
<1>10. \A j \in 1 .. n + 1 : j \in 1 .. idx \/ j = idx + 1 \/ j \in idx + 2 .. n + 1
  BY <1>4, <1>5
<1>11. /\ \A j \in 1 .. idx : KeyAt(new, j) = KeyAt(page, j)
       /\ KeyAt(new, idx + 1) = k
       /\ \A j \in idx + 2 .. n + 1 : KeyAt(new, j) = KeyAt(page, j - 1)
  BY <1>3, <1>6, <1>8, <1>9 DEF KeyAt
<1>12. Strings(new)
  <2>1. \A j \in DOMAIN new.slots : new.slots[j].key \in Str
    BY <1>1, <1>3, <1>4, <1>7, <1>8, <1>9, <1>10 DEF Strings
  <2> QED  BY <2>1, <1>1, <1>6 DEF Strings, SameFences
<1>13. \A i \in 1 .. n : KeyAt(page, i) \in Str  BY <1>1, <1>4, KeyAtIs
<1>14. /\ \A j \in 1 .. idx : Below(KeyAt(new, j), k)
       /\ \A j \in idx + 2 .. n + 1 : Below(k, KeyAt(new, j))
  <2>1. ASSUME NEW j \in 1 .. idx  PROVE Below(KeyAt(new, j), k)
    <3>1. j \in 1 .. n /\ j <= idx  BY <1>4, <1>5
    <3> QED  BY <3>1, <1>5, <1>11
  <2>2. ASSUME NEW j \in idx + 2 .. n + 1  PROVE Below(k, KeyAt(new, j))
    <3>1. j - 1 \in 1 .. n /\ ~(j - 1 <= idx)  BY <1>4, <1>5
    <3>2. ~Below(KeyAt(page, j - 1), k) /\ KeyAt(page, j - 1) # k /\ KeyAt(page, j - 1) \in Str
      BY <3>1, <1>4, <1>5, <1>13
    <3>3. Below(k, KeyAt(page, j - 1))  BY <3>2, Total
    <3> QED  BY <3>3, <1>11
  <2> QED  BY <2>1, <2>2
<1>15. InOrder(new.slots)
  <2>1. ASSUME NEW i \in 1 .. n + 1, NEW j \in 1 .. n + 1, i < j
        PROVE  Below(KeyAt(new, i), KeyAt(new, j))
    <3>1. CASE i \in 1 .. idx /\ j \in 1 .. idx
      <4>1. i \in 1 .. n /\ j \in 1 .. n  BY <3>1, <1>9
      <4>2. Below(page.slots[i].key, page.slots[j].key)  BY <4>1, <2>1, <1>1, <1>4 DEF InOrder
      <4>3. Below(KeyAt(page, i), KeyAt(page, j))  BY <4>1, <4>2, <1>1, <1>4, EntriesInOrder
      <4> QED  BY <4>3, <3>1, <1>11
    <3>2. CASE i \in 1 .. idx /\ j = idx + 1  BY <3>2, <1>11, <1>14
    <3>3. CASE i = idx + 1 /\ j \in idx + 2 .. n + 1  BY <3>3, <1>11, <1>14
    <3>4. CASE i \in 1 .. idx /\ j \in idx + 2 .. n + 1
      <4>1. Below(KeyAt(new, i), k) /\ Below(k, KeyAt(new, j))  BY <3>4, <1>14
      <4>2. KeyAt(new, i) \in Str /\ KeyAt(new, j) \in Str
        BY <2>1, <1>7, <1>12, KeyAtIs
      <4> QED  BY <4>1, <4>2, Transitive
    <3>5. CASE i \in idx + 2 .. n + 1 /\ j \in idx + 2 .. n + 1
      <4> DEFINE a == i - 1
                 b == j - 1
      <4>1. a \in 1 .. n /\ b \in 1 .. n /\ a < b  BY <3>5, <2>1, <1>4, <1>5
      <4>2. KeyAt(new, i) = KeyAt(page, a) /\ KeyAt(new, j) = KeyAt(page, b)
        BY <3>5, <1>11
      <4> HIDE DEF a, b
      <4>3. Below(page.slots[a].key, page.slots[b].key)  BY <4>1, <1>1, <1>4 DEF InOrder
      <4>4. Below(KeyAt(page, a), KeyAt(page, b))  BY <4>1, <4>3, <1>1, <1>4, EntriesInOrder
      <4> QED  BY <4>2, <4>4
    <3> QED  BY <3>1, <3>2, <3>3, <3>4, <3>5, <2>1, <1>4, <1>5
  <2>2. \A i, j \in DOMAIN new.slots :
          i < j => Below(new.slots[i].key, new.slots[j].key)
    BY <2>1, <1>7, <1>12, EntriesInOrder
  <2> QED  BY <2>2 DEF InOrder
<1>16. Shares(new, lo) /\ (new.high # NoKey => Below(lo, new.high)) /\ EndsOpen(new, lo)
  BY <1>6 DEF NodeOK, Shares, EndsOpen, SameFences
<1>17. \A j \in DOMAIN new.slots : Covers(new, lo, KeyAt(new, j))
  <2>1. \A i \in 1 .. n : Covers(page, lo, KeyAt(page, i))  BY <1>4 DEF NodeOK
  <2>2. \A x : Covers(new, lo, x) <=> Covers(page, lo, x)  BY <1>6 DEF Covers, SameFences
  <2> QED  BY <2>1, <2>2, <1>7, <1>9, <1>10, <1>11
<1>18. StartsAt(new, lo)
  <2> SUFFICES ASSUME page.level > 0 \/ lo # <<>>
               PROVE  new.slots # <<>> /\ KeyAt(new, 1) = lo
    BY <1>6 DEF StartsAt, SameFences
  <2>1. page.slots # <<>> /\ KeyAt(page, 1) = lo /\ k # lo  BY DEF NodeOK, StartsAt
  <2>2. n # 0 /\ 1 \in 1 .. n  BY <2>1, <1>4
  <2>3. Below(lo, k)  BY <2>1, <1>1, Total DEF Covers
  <2>4. 1 <= idx  BY <2>1, <2>2, <2>3, <1>5
  <2>5. 1 \in 1 .. idx /\ 1 \in DOMAIN new.slots  BY <2>4, <1>4, <1>5, <1>7
  <2> QED  BY <2>1, <2>5, <1>11
<1>19. NodeOK(new, lo)
  BY <1>1, <1>12, <1>15, <1>16, <1>17, <1>18 DEF NodeOK
<1>20. ASSUME NEW x, NEW r
       PROVE  Has(new, x, r) <=> Has(page, x, r) \/ (x = k /\ r = ref)
  <2>1. ASSUME Has(new, x, r)  PROVE Has(page, x, r) \/ (x = k /\ r = ref)
    <3>1. PICK j \in 1 .. n + 1 : KeyAt(new, j) = x /\ new.slots[j].ref = r
      BY <2>1, <1>7 DEF Has
    <3>2. CASE j \in 1 .. idx  BY <3>1, <3>2, <1>4, <1>9, <1>11 DEF Has
    <3>3. CASE j = idx + 1  BY <3>1, <3>3, <1>8, <1>9, <1>11
    <3>4. CASE j \in idx + 2 .. n + 1
      <4>1. /\ j - 1 \in DOMAIN page.slots /\ KeyAt(page, j - 1) = x
            /\ page.slots[j - 1].ref = r
        BY <3>1, <3>4, <1>4, <1>9, <1>11
      <4> QED  BY <4>1 DEF Has
    <3> QED  BY <3>2, <3>3, <3>4, <1>10
  <2>2. ASSUME Has(page, x, r)  PROVE Has(new, x, r)
    <3>1. PICK i \in 1 .. n : KeyAt(page, i) = x /\ page.slots[i].ref = r
      BY <2>2, <1>4 DEF Has
    <3>2. CASE i <= idx
      <4>1. i \in 1 .. idx /\ i \in DOMAIN new.slots  BY <3>2, <1>4, <1>5, <1>7
      <4> QED  BY <4>1, <3>1, <1>9, <1>11 DEF Has
    <3>3. CASE i > idx
      <4> DEFINE j == i + 1
      <4>1. j \in idx + 2 .. n + 1 /\ j - 1 = i /\ j \in 1 .. n + 1  BY <3>3, <1>4, <1>5
      <4> HIDE DEF j
      <4>2. KeyAt(new, j) = x /\ new.slots[j].ref = r  BY <4>1, <3>1, <1>9, <1>11
      <4> QED  BY <4>1, <4>2, <1>7 DEF Has
    <3> QED  BY <3>2, <3>3, <1>4, <1>5
  <2>3. ASSUME x = k, r = ref  PROVE Has(new, x, r)
    <3>1. idx + 1 \in DOMAIN new.slots  BY <1>4, <1>5, <1>7
    <3> QED  BY <3>1, <2>3, <1>8, <1>9, <1>11 DEF Has
  <2> QED  BY <2>1, <2>2, <2>3
<1> QED  BY <1>6, <1>19, <1>20 DEF PutIn, new, s

(* An insertion where the key is not there yet. *)
NewHere(page, lo, k) ==
  /\ NodeOK(page, lo) /\ Covers(page, lo, k)
  /\ \A i \in DOMAIN page.slots : KeyAt(page, i) # k
  /\ page.level > 0 \/ lo # <<>> => k # lo

LEMMA LeafInsertIs ==
  ASSUME NEW page, NEW lo, NEW k \in Str, NewHere(page, lo, k), NEW v \in Int
  PROVE  PutIn(LeafInsert(page, k, v), page, lo, k, v)
<1> DEFINE idx == LowerIdx(page.slots, RemoveKeyPrefix(page, k))
<1>1. /\ NodeOK(page, lo) /\ Covers(page, lo, k)
      /\ \A i \in DOMAIN page.slots : KeyAt(page, i) # k
      /\ page.level > 0 \/ lo # <<>> => k # lo
  BY DEF NewHere
<1>2. LowerPlace(page, k, idx)  BY <1>1, PlacesAre
<1>3. LeafInsert(page, k, v) = InsertSlot(page, idx, RemoveKeyPrefix(page, k), v)
  BY DEF LeafInsert
<1> HIDE DEF idx
<1> QED  BY <1>1, <1>2, <1>3, InsertSlotKeeps

LEMMA InterInsertIs ==
  ASSUME NEW page, NEW lo, NEW k \in Str, NewHere(page, lo, k), NEW child \in Int
  PROVE  PutIn(InterInsert(page, k, child), page, lo, k, child)
<1> DEFINE idx == UpperIdx(page.slots, RemoveKeyPrefix(page, k))
<1>1. /\ NodeOK(page, lo) /\ Covers(page, lo, k) /\ Strings(page)
      /\ \A i \in DOMAIN page.slots : KeyAt(page, i) # k
      /\ page.level > 0 \/ lo # <<>> => k # lo
  BY DEF NewHere, NodeOK
<1>2. UpperPlace(page, k, idx)  BY <1>1, PlacesAre
<1>3. InterInsert(page, k, child) = InsertSlot(page, idx, RemoveKeyPrefix(page, k), child)
  BY DEF InterInsert
<1> HIDE DEF idx
<1>4. ASSUME NEW i \in DOMAIN page.slots
      PROVE  ~Below(k, KeyAt(page, i)) <=> Below(KeyAt(page, i), k)
  <2>1. KeyAt(page, i) \in Str /\ KeyAt(page, i) # k  BY <1>1, KeyAtIs
  <2> QED  BY <2>1, Order DEF Ordered
<1>5. LowerPlace(page, k, idx)  BY <1>2, <1>4 DEF LowerPlace, UpperPlace
<1> QED  BY <1>1, <1>3, <1>5, InsertSlotKeeps

-----------------------------------------------------------------------------
(* Sizes of pages. *)

LEMMA SizesAreNat ==
  ASSUME NEW slots \in Seq(Slot), NEW high \in Seq(Int), NEW prefix \in Seq(Int)
  PROVE  /\ EntriesSize(slots) \in Nat
         /\ PackedSize(slots, high, prefix) \in Nat
         /\ PackedRight(slots, high, prefix) \in Nat
<1> DEFINE n == EntriesSize(slots)
<1>1. n \in Nat
  <2>1. Sizes(slots)[DOMAIN slots] \in Nat  BY SizesWithout
  <2> QED  BY <2>1, EntriesSizeIs
<1> HIDE DEF n
<1>2. Len(prefix) \in Nat /\ Len(high) \in Nat  OBVIOUS
<1>3. ASSUME NEW h \in Nat  PROVE HighSize(h, high) \in Nat
  <2>1. h + EntryHeader + Len(high) \in Nat  BY <1>2, LayoutAssumption
  <2>2. ReserveSlot(h, high) \in Nat  BY <2>1, AlignUpBounds DEF ReserveSlot
  <2> QED  BY <2>2 DEF HighSize
<1>4. PackedSize(slots, high, prefix) = HighSize(n, high) + Len(prefix)
  BY DEF PackedSize, n
<1>5. PackedRight(slots, high, prefix) = HighSize(n + Len(prefix), high)
  BY DEF PackedRight, n
<1> DEFINE m == n + Len(prefix)
<1>6. m \in Nat  BY <1>1, <1>2
<1> HIDE DEF m
<1>7. HighSize(n, high) \in Nat /\ HighSize(m, high) \in Nat  BY <1>1, <1>3, <1>6
<1>8. HighSize(n, high) + Len(prefix) \in Nat  BY <1>2, <1>7
<1> QED  BY <1>1, <1>4, <1>5, <1>7, <1>8 DEF n, m

LEMMA EntrySizeIs ==
  ASSUME NEW k \in Seq(Int)
  PROVE  EntrySize(k) \in Nat
<1>1. EntryHeader + Len(k) \in Nat  BY LayoutAssumption
<1> QED  BY <1>1, AlignUpBounds DEF EntrySize

-----------------------------------------------------------------------------
(* Deleting a key. *)

TakenOut(new, page, lo, k) ==
  /\ NodeOK(new, lo) /\ SameFences(new, page)
  /\ \A x, r : Has(new, x, r) <=> Has(page, x, r) /\ x # k

LEMMA LeafDeleteIs ==
  ASSUME NEW page \in Node, NEW k \in Str, NEW m \in DOMAIN page.slots,
         m = LowerIdx(page.slots, RemoveKeyPrefix(page, k)) + 1,
         RemoveKeyPrefix(page, k) \in Seq(Int)
  PROVE  LET new == LeafDelete(page, k) IN
         /\ new \in Node /\ SameFences(new, page) /\ new.prefix = page.prefix
         /\ new.slots = RemoveAt(page.slots, m)
<1> DEFINE s == RemoveKeyPrefix(page, k)
           t == RemoveAt(page.slots, m)
           dead == page.dead + EntrySize(s)
           h == CompactHeap(page, t)
           new == LeafDelete(page, k)
<1>1. /\ page.slots \in Seq(Slot) /\ page.dead \in Nat /\ page.high \in Seq(Int)
      /\ page.prefix \in Seq(Int)
  BY PageParts
<1>2. t \in Seq(Slot)
  <2>1. m \in 1 .. Len(page.slots)  BY <1>1
  <2> QED  BY <1>1, <2>1, RemoveAtElements
<1>3. dead \in Nat  BY <1>1, EntrySizeIs
<1>4. h \in Nat  BY <1>1, <1>2, SizesAreNat DEF CompactHeap
<1>5. new = IF dead > PageSize \div 4
            THEN [page EXCEPT !.slots = t, !.dead = 0, !.heap = h]
            ELSE [page EXCEPT !.slots = t, !.dead = dead]
  BY DEF LeafDelete
<1> HIDE DEF s, t, dead, h, new
<1>6. CASE dead > PageSize \div 4
  <2>1. new = [page EXCEPT !.slots = t, !.dead = 0, !.heap = h]  BY <1>5, <1>6
  <2>2. new \in Node /\ SameFences(new, page) /\ new.prefix = page.prefix /\ new.slots = t
    BY ONLY <2>1, <1>2, <1>4, page \in Node DEF Node, SameFences
  <2> QED  BY <2>2 DEF t, new
<1>7. CASE ~(dead > PageSize \div 4)
  <2>1. new = [page EXCEPT !.slots = t, !.dead = dead]  BY <1>5, <1>7
  <2>2. new \in Node /\ SameFences(new, page) /\ new.prefix = page.prefix /\ new.slots = t
    BY ONLY <2>1, <1>2, <1>3, page \in Node DEF Node, SameFences
  <2> QED  BY <2>2 DEF t, new
<1> QED  BY <1>6, <1>7

LEMMA LeafDeleteKeeps ==
  ASSUME NEW page, NEW lo, NodeOK(page, lo), NEW k \in Str, Covers(page, lo, k),
         LeafFound(page, k), page.level > 0 \/ lo # <<>> => k # lo
  PROVE  TakenOut(LeafDelete(page, k), page, lo, k)
<1> DEFINE idx == LowerIdx(page.slots, RemoveKeyPrefix(page, k))
           m == idx + 1
           new == LeafDelete(page, k)
           n == Count(page)
<1>1. Strings(page) /\ page \in Node /\ lo \in Str /\ InOrder(page.slots)
  BY DEF NodeOK, Strings
<1>2. /\ page.slots \in Seq(Slot) /\ n = Len(page.slots) /\ n \in Nat
      /\ DOMAIN page.slots = 1 .. n
  BY <1>1, PageParts
<1>3. LowerPlace(page, k, idx)  BY PlacesAre
<1> HIDE DEF idx
<1>4. idx \in 0 .. n /\ \A i \in 1 .. n : i <= idx <=> Below(KeyAt(page, i), k)
  BY <1>2, <1>3 DEF LowerPlace
<1>5. \A i \in 1 .. n : KeyAt(page, i) \in Str  BY <1>1, <1>2, KeyAtIs
<1>6. m \in 1 .. n /\ KeyAt(page, m) = k
  <2>1. PICK i \in 1 .. n : KeyAt(page, i) = k  BY <1>2, LeafFoundIs
  <2>2. ~(i <= idx)  BY <2>1, <1>4, Irreflexive
  <2>3. m \in 1 .. n /\ m <= i /\ ~(m <= idx)  BY <2>2, <1>2, <1>4
  <2>4. ~Below(KeyAt(page, m), k)  BY <2>3, <1>4
  <2>5. CASE m = i  BY <2>1, <2>3, <2>5
  <2>6. CASE m # i
    <3>1. m < i  BY <2>3, <2>6, <1>2
    <3>2. Below(page.slots[m].key, page.slots[i].key)
      BY <2>3, <3>1, <1>1, <1>2 DEF InOrder
    <3>3. Below(KeyAt(page, m), KeyAt(page, i))
      BY <2>3, <3>2, <1>1, <1>2, EntriesInOrder
    <3> QED  BY <3>3, <2>1, <2>4
  <2> QED  BY <2>5, <2>6
<1>7. RemoveKeyPrefix(page, k) \in Seq(Int)
  <2>1. RemoveKeyPrefix(page, k) \in Str  BY RemoveKeyPrefixIs DEF Stripped
  <2> QED  BY <2>1 DEF Str
<1>8. /\ new \in Node /\ SameFences(new, page) /\ new.prefix = page.prefix
      /\ new.slots = RemoveAt(page.slots, m)
  BY <1>1, <1>2, <1>6, <1>7, LeafDeleteIs DEF idx
<1> HIDE DEF new, m, n
<1>9. /\ new.slots \in Seq(Slot) /\ DOMAIN new.slots = 1 .. n - 1
      /\ \A j \in 1 .. n - 1 : new.slots[j] = IF j < m THEN page.slots[j]
                                              ELSE page.slots[j + 1]
  <2> DEFINE t == RemoveAt(page.slots, m)
  <2>1. /\ t \in Seq(Slot) /\ Len(t) = n - 1
        /\ \A j \in 1 .. n - 1 : t[j] = IF j < m THEN page.slots[j] ELSE page.slots[j + 1]
    BY <1>2, <1>6, RemoveAtElements
  <2> HIDE DEF t
  <2>2. DOMAIN t = 1 .. n - 1  BY <2>1
  <2> QED  BY <2>1, <2>2, <1>8 DEF t
(* Where an entry was. *)
<1> DEFINE f == [j \in 1 .. n - 1 |-> IF j < m THEN j ELSE j + 1]
<1>10. \A j \in 1 .. n - 1 : /\ f[j] \in 1 .. n /\ f[j] # m
                             /\ new.slots[j] = page.slots[f[j]]
  <2>1. ASSUME NEW j \in 1 .. n - 1
        PROVE  f[j] \in 1 .. n /\ f[j] # m /\ new.slots[j] = page.slots[f[j]]
    <3>1. CASE j < m  BY <3>1, <1>2, <1>6, <1>9
    <3>2. CASE ~(j < m)  BY <3>2, <1>2, <1>6, <1>9
    <3> QED  BY <3>1, <3>2
  <2> QED  BY <2>1
<1>11. \A i, j \in 1 .. n - 1 : i < j => f[i] < f[j]  BY <1>2, <1>6
<1>12. \A i \in 1 .. n : i # m => \E j \in 1 .. n - 1 : f[j] = i
  <2>1. ASSUME NEW i \in 1 .. n, i # m  PROVE \E j \in 1 .. n - 1 : f[j] = i
    <3>1. CASE i < m
      <4>1. i \in 1 .. n - 1 /\ f[i] = i  BY <3>1, <1>2, <1>6
      <4> QED  BY <4>1
    <3>2. CASE i > m
      <4>1. i - 1 \in 1 .. n - 1 /\ f[i - 1] = i  BY <3>2, <1>2, <1>6
      <4> QED  BY <4>1
    <3> QED  BY <3>1, <3>2, <2>1, <1>6
  <2> QED  BY <2>1
<1>a. n > 1 => (m # 1 => f[1] = 1 /\ 1 \in 1 .. n - 1)  BY <1>2, <1>6
<1> HIDE DEF f
<1>13. \A j \in 1 .. n - 1 : KeyAt(new, j) = KeyAt(page, f[j])
  BY <1>8, <1>10 DEF KeyAt
<1>14. Strings(new)
  <2>1. \A j \in DOMAIN new.slots : new.slots[j].key \in Str
    BY <1>1, <1>2, <1>9, <1>10 DEF Strings
  <2> QED  BY <2>1, <1>1, <1>8 DEF Strings, SameFences
<1>15. InOrder(new.slots)
  <2>1. ASSUME NEW i \in 1 .. n - 1, NEW j \in 1 .. n - 1, i < j
        PROVE  Below(KeyAt(new, i), KeyAt(new, j))
    <3>1. f[i] \in 1 .. n /\ f[j] \in 1 .. n /\ f[i] < f[j]  BY <2>1, <1>10, <1>11
    <3>2. Below(page.slots[f[i]].key, page.slots[f[j]].key)
      BY <3>1, <1>1, <1>2 DEF InOrder
    <3>3. Below(KeyAt(page, f[i]), KeyAt(page, f[j]))
      BY <3>1, <3>2, <1>1, <1>2, EntriesInOrder
    <3> QED  BY <3>3, <1>13
  <2>2. \A i, j \in DOMAIN new.slots :
          i < j => Below(new.slots[i].key, new.slots[j].key)
    BY <2>1, <1>9, <1>14, EntriesInOrder
  <2> QED  BY <2>2 DEF InOrder
<1>16. Shares(new, lo) /\ (new.high # NoKey => Below(lo, new.high)) /\ EndsOpen(new, lo)
  BY <1>8 DEF NodeOK, Shares, EndsOpen, SameFences
<1>17. \A j \in DOMAIN new.slots : Covers(new, lo, KeyAt(new, j))
  <2>1. \A i \in 1 .. n : Covers(page, lo, KeyAt(page, i))  BY <1>2 DEF NodeOK
  <2>2. \A x : Covers(new, lo, x) <=> Covers(page, lo, x)  BY <1>8 DEF Covers, SameFences
  <2> QED  BY <2>1, <2>2, <1>9, <1>10, <1>13
<1>18. StartsAt(new, lo)
  <2> SUFFICES ASSUME page.level > 0 \/ lo # <<>>
               PROVE  new.slots # <<>> /\ KeyAt(new, 1) = lo
    BY <1>8 DEF StartsAt, SameFences
  <2>1. page.slots # <<>> /\ KeyAt(page, 1) = lo /\ k # lo  BY DEF NodeOK, StartsAt
  <2>2. m # 1  BY <2>1, <1>6
  <2>3. n > 1  BY <2>2, <1>2, <1>6
  <2>4. f[1] = 1 /\ 1 \in DOMAIN new.slots /\ 1 \in 1 .. n - 1  BY <2>2, <2>3, <1>a, <1>9
  <2> QED  BY <2>1, <2>4, <1>13
<1>19. NodeOK(new, lo)
  BY <1>1, <1>14, <1>15, <1>16, <1>17, <1>18 DEF NodeOK
<1>20. ASSUME NEW x, NEW r
       PROVE  Has(new, x, r) <=> Has(page, x, r) /\ x # k
  <2>1. ASSUME Has(new, x, r)  PROVE Has(page, x, r) /\ x # k
    <3>1. PICK j \in 1 .. n - 1 : KeyAt(new, j) = x /\ new.slots[j].ref = r
      BY <2>1, <1>9 DEF Has
    <3>2. f[j] \in DOMAIN page.slots /\ KeyAt(page, f[j]) = x /\ page.slots[f[j]].ref = r
          /\ f[j] # m /\ f[j] \in 1 .. n
      BY <3>1, <1>2, <1>10, <1>13
    <3>3. x # k
      <4>1. f[j] < m \/ m < f[j]  BY <3>2, <1>6, <1>2
      <4>2. \/ Below(page.slots[f[j]].key, page.slots[m].key)
            \/ Below(page.slots[m].key, page.slots[f[j]].key)
        BY <4>1, <3>2, <1>1, <1>2, <1>6 DEF InOrder
      <4>3. \/ Below(KeyAt(page, f[j]), KeyAt(page, m))
            \/ Below(KeyAt(page, m), KeyAt(page, f[j]))
        BY <4>2, <3>2, <1>1, <1>2, <1>6, EntriesInOrder
      <4> QED  BY <4>3, <3>2, <1>6, Irreflexive
    <3> QED  BY <3>2, <3>3 DEF Has
  <2>2. ASSUME Has(page, x, r), x # k  PROVE Has(new, x, r)
    <3>1. PICK i \in 1 .. n : KeyAt(page, i) = x /\ page.slots[i].ref = r
      BY <2>2, <1>2 DEF Has
    <3>2. i # m  BY <3>1, <2>2, <1>6
    <3>3. PICK j \in 1 .. n - 1 : f[j] = i  BY <3>2, <1>12
    <3> QED  BY <3>1, <3>3, <1>9, <1>10, <1>13 DEF Has
  <2> QED  BY <2>1, <2>2
<1> QED  BY <1>8, <1>19, <1>20 DEF TakenOut, new

-----------------------------------------------------------------------------
(* Splitting a page. *)

(* Some of a page's entries under a longer prefix: its slots from b to c    *)
(* lose as many bytes as the prefix gains.                                 *)
PartOf(half, page, b, c) ==
  /\ DOMAIN half.slots = 1 .. c - b
  /\ \A i \in 1 .. c - b :
       /\ half.slots[i].key \in Str /\ half.slots[i].ref = page.slots[b + i].ref
       /\ KeyAt(half, i) = KeyAt(page, b + i)

LEMMA JoinedSuffix ==
  ASSUME NEW p \in Str, NEW a \in Str, NEW n \in Nat, n <= Len(a)
  PROVE  SubSeq(p \o a, Len(p) + n + 1, Len(p \o a)) = SubSeq(a, n + 1, Len(a))
<1> DEFINE c == p \o a
           m == Len(p)
           l == Len(a)
           u == SubSeq(c, (m + n) + 1, m + l)
           v == SubSeq(a, n + 1, l)
<1>1. m \in Nat /\ l \in Nat /\ n \in Nat /\ n <= l  BY DEF Str
<1>2. /\ c \in Seq(Nat) /\ Len(c) = m + l
      /\ \A j \in m + 1 .. m + l : c[j] = a[j - m]
  BY ConcatIs DEF Str
<1>3. a \in Seq(Nat) /\ Len(a) = l  BY DEF Str
<1> HIDE DEF c, m, l
<1>4. /\ v \in Seq(Nat) /\ Len(v) = l - n /\ \A i \in 1 .. l - n : v[i] = a[n + i]
  BY <1>1, <1>3, PartIs
<1>5. /\ u \in Seq(Nat) /\ Len(u) = (m + l) - (m + n)
      /\ \A i \in 1 .. (m + l) - (m + n) : u[i] = c[(m + n) + i]
  <2> DEFINE q == m + n
             r == m + l
  <2>1. q \in Nat /\ r \in Nat /\ q <= r /\ r <= Len(c)  BY <1>1, <1>2
  <2> HIDE DEF q, r
  <2>2. /\ SubSeq(c, q + 1, r) \in Seq(Nat) /\ Len(SubSeq(c, q + 1, r)) = r - q
        /\ \A i \in 1 .. r - q : SubSeq(c, q + 1, r)[i] = c[q + i]
    BY <2>1, <1>2, PartIs
  <2> QED  BY <2>2 DEF q, r
<1> HIDE DEF u, v
<1>6. Len(u) = l - n /\ Len(u) = Len(v)  BY <1>1, <1>4, <1>5
<1>7. ASSUME NEW i \in 1 .. l - n  PROVE u[i] = v[i]
  <2> DEFINE j == (m + n) + i
  <2>1. j \in m + 1 .. m + l /\ j - m = n + i /\ i \in 1 .. (m + l) - (m + n)  BY <1>1
  <2>2. u[i] = c[j]  BY <2>1, <1>5
  <2> HIDE DEF j
  <2>3. c[j] = a[n + i]  BY <2>1, <1>2
  <2> QED  BY <2>2, <2>3, <1>4
<1>8. u = v  BY <1>4, <1>5, <1>6, <1>7, SameKeys
<1> QED  BY <1>8, <1>2 DEF u, v, c, m, l

LEMMA PartIsCut ==
  ASSUME NEW page, Strings(page), NEW n \in Nat, NEW b \in Nat, NEW c \in Nat,
         b <= c, c <= Count(page), NEW half,
         half.slots = Cut(SubSeq(page.slots, b + 1, c), n),
         half.prefix \in Str, Len(half.prefix) = Len(page.prefix) + n,
         \A i \in b + 1 .. c : SharesFirst(half.prefix, KeyAt(page, i), Len(half.prefix))
  PROVE  half.slots \in Seq(Slot) /\ PartOf(half, page, b, c)
<1> DEFINE t == SubSeq(page.slots, b + 1, c)
           p == page.prefix
           q == half.prefix
<1>1. /\ page \in Node /\ p \in Str /\ Len(p) \in Nat
      /\ \A i \in DOMAIN page.slots : page.slots[i].key \in Str
  BY DEF Strings, Str
<1>2. /\ page.slots \in Seq(Slot) /\ Count(page) = Len(page.slots)
      /\ DOMAIN page.slots = 1 .. Count(page) /\ Count(page) \in Nat
  BY <1>1, PageParts
<1>3. /\ t \in Seq(Slot) /\ Len(t) = c - b
      /\ \A i \in 1 .. c - b : t[i] = page.slots[b + i]
  BY <1>2, PartIs
<1> HIDE DEF t, p, q
<1>4. ASSUME NEW i \in 1 .. c - b
      PROVE  /\ b + i \in DOMAIN page.slots /\ b + i \in b + 1 .. c
             /\ t[i].key \in Str /\ n <= Len(t[i].key)
             /\ SubSeq(t[i].key, n + 1, Len(t[i].key)) \in Str
             /\ q \o SubSeq(t[i].key, n + 1, Len(t[i].key)) = KeyAt(page, b + i)
  <2> DEFINE j == b + i
             k == t[i].key
             e == KeyAt(page, j)
  <2>1. j \in DOMAIN page.slots /\ j \in b + 1 .. c  BY <1>2
  <2>2. k = page.slots[j].key  BY <1>3
  <2>3. SharesFirst(q, e, Len(q)) /\ Len(q) = Len(p) + n /\ q \in Str
    BY <2>1 DEF q, p
  <2> HIDE DEF j, k
  <2>4. k \in Str /\ e = p \o k  BY <2>1, <2>2, <1>1 DEF KeyAt, p
  <2> HIDE DEF e
  <2>5. e \in Str /\ Len(e) = Len(p) + Len(k)  BY <2>4, <1>1, JoinedIs
  <2>6. n <= Len(k)
    <3>1. Len(q) <= Len(e) /\ Len(k) \in Nat  BY <2>3, <2>4 DEF SharesFirst, Str
    <3> QED  BY <3>1, <2>3, <2>5, <1>1
  <2>7. SubSeq(e, Len(q) + 1, Len(e)) \in Str /\ q \o SubSeq(e, Len(q) + 1, Len(e)) = e
    BY <2>3, <2>5, Recompose
  <2>8. SubSeq(e, Len(p) + n + 1, Len(e)) = SubSeq(k, n + 1, Len(k))
    BY <2>4, <2>6, <1>1, JoinedSuffix
  <2>9. SubSeq(e, Len(q) + 1, Len(e)) = SubSeq(k, n + 1, Len(k))  BY <2>3, <2>8
  <2>10. SubSeq(k, n + 1, Len(k)) \in Str /\ q \o SubSeq(k, n + 1, Len(k)) = e
    BY <2>7, <2>9
  <2> QED  BY <2>1, <2>4, <2>6, <2>10 DEF j, k, e
<1> DEFINE u == Cut(t, n)
<1>5. DOMAIN t = 1 .. c - b  BY <1>3
<1>6. u \in Seq(Slot) /\ Len(u) = c - b
  <2>1. \A i \in DOMAIN t : n <= Len(t[i].key)  BY <1>4, <1>5
  <2> QED  BY <2>1, <1>3, CutIs
<1>7. ASSUME NEW i \in 1 .. c - b
      PROVE  /\ u[i].key = SubSeq(t[i].key, n + 1, Len(t[i].key))
             /\ u[i].ref = t[i].ref
  <2>1. u[i] = [t[i] EXCEPT !.key = SubSeq(t[i].key, n + 1, Len(t[i].key))]
    BY <1>5 DEF Cut
  <2>2. t[i] \in Slot  BY <1>3
  <2> HIDE DEF u
  <2> QED  BY <2>1, <2>2 DEF Slot
<1>8. half.slots = u  BY DEF t
<1> HIDE DEF u
<1>9. DOMAIN u = 1 .. c - b  BY <1>6
<1>10. ASSUME NEW i \in 1 .. c - b
       PROVE  /\ half.slots[i].key \in Str /\ half.slots[i].ref = page.slots[b + i].ref
              /\ KeyAt(half, i) = KeyAt(page, b + i)
  <2>1. half.slots[i].key = SubSeq(t[i].key, n + 1, Len(t[i].key))  BY <1>7, <1>8
  <2>2. KeyAt(half, i) = q \o SubSeq(t[i].key, n + 1, Len(t[i].key))
    BY <2>1 DEF KeyAt, q
  <2>3. half.slots[i].ref = page.slots[b + i].ref  BY <1>3, <1>7, <1>8
  <2> QED  BY <2>1, <2>2, <2>3, <1>4
<1> QED  BY <1>6, <1>8, <1>9, <1>10 DEF PartOf

(* What a half of a page keeps of it. *)
LEMMA PartKeeps ==
  ASSUME NEW page, NEW lo, NodeOK(page, lo), NEW half, Strings(half),
         NEW b \in Nat, NEW c \in Nat, b <= c, c <= Count(page), PartOf(half, page, b, c)
  PROVE  /\ InOrder(half.slots)
         /\ \A x, r : Has(half, x, r) <=>
              \E i \in b + 1 .. c : KeyAt(page, i) = x /\ page.slots[i].ref = r
<1>1. /\ DOMAIN half.slots = 1 .. c - b
      /\ \A i \in 1 .. c - b : /\ half.slots[i].ref = page.slots[b + i].ref
                               /\ KeyAt(half, i) = KeyAt(page, b + i)
  BY DEF PartOf
<1>2. Strings(page) /\ InOrder(page.slots) /\ page \in Node  BY DEF NodeOK, Strings
<1>3. DOMAIN page.slots = 1 .. Count(page) /\ Count(page) \in Nat  BY <1>2, PageParts
<1>4. ASSUME NEW i \in 1 .. c - b, NEW j \in 1 .. c - b, i < j
      PROVE  Below(half.slots[i].key, half.slots[j].key)
  <2> DEFINE d == b + i
             e == b + j
  <2>1. d \in DOMAIN page.slots /\ e \in DOMAIN page.slots /\ d < e  BY <1>3, <1>4
  <2>2. KeyAt(half, i) = KeyAt(page, d) /\ KeyAt(half, j) = KeyAt(page, e)  BY <1>1
  <2> HIDE DEF d, e
  <2>3. Below(page.slots[d].key, page.slots[e].key)  BY <2>1, <1>2 DEF InOrder
  <2>4. Below(KeyAt(page, d), KeyAt(page, e))  BY <2>1, <2>3, <1>2, EntriesInOrder
  <2>5. i \in DOMAIN half.slots /\ j \in DOMAIN half.slots  BY <1>1
  <2> QED  BY <2>2, <2>4, <2>5, EntriesInOrder
<1>5. ASSUME NEW x, NEW r
      PROVE  Has(half, x, r) <=>
               \E i \in b + 1 .. c : KeyAt(page, i) = x /\ page.slots[i].ref = r
  <2>1. ASSUME Has(half, x, r)
        PROVE  \E i \in b + 1 .. c : KeyAt(page, i) = x /\ page.slots[i].ref = r
    <3>1. PICK i \in 1 .. c - b : KeyAt(half, i) = x /\ half.slots[i].ref = r
      BY <2>1, <1>1 DEF Has
    <3>2. b + i \in b + 1 .. c  OBVIOUS
    <3> QED  BY <3>1, <3>2, <1>1
  <2>2. ASSUME NEW i \in b + 1 .. c, KeyAt(page, i) = x, page.slots[i].ref = r
        PROVE  Has(half, x, r)
    <3> DEFINE j == i - b
    <3>1. j \in 1 .. c - b /\ b + j = i  OBVIOUS
    <3> HIDE DEF j
    <3>2. KeyAt(half, j) = x /\ half.slots[j].ref = r /\ j \in DOMAIN half.slots
      BY <3>1, <2>2, <1>1
    <3> QED  BY <3>2 DEF Has
  <2> QED  BY <2>1, <2>2
<1> QED  BY <1>1, <1>4, <1>5 DEF InOrder

LEMMA SplitPlace ==
  ASSUME NEW page \in Node, ~NoSplitPoint(page)
  PROVE  FindSplitPoint(page) \in 1 .. Count(page) - 1
<1>1. Count(page) \in Nat  BY PageParts
<1>2. SplitPoints(page) \subseteq 1 .. Count(page)  BY DEF SplitPoints
<1>3. PICK m \in SplitPoints(page) : m # Count(page)
  BY DEF NoSplitPoint
<1>4. PICK n \in SplitPoints(page) : \A j \in SplitPoints(page) : n <= j
  <2> DEFINE T == SplitPoints(page)
  <2>1. T \in SUBSET Nat /\ T # {}  BY <1>1, <1>2, <1>3
  <2> HIDE DEF T
  <2>2. \E n \in T : \A j \in T : n <= j  BY <2>1, LeastOf
  <2> QED  BY <2>2 DEF T
<1> DEFINE p == FindSplitPoint(page)
<1>5. p \in SplitPoints(page) /\ \A j \in SplitPoints(page) : p <= j
  BY <1>4 DEF FindSplitPoint
<1> HIDE DEF p
<1>6. p \in 1 .. Count(page) /\ m \in 1 .. Count(page) /\ p <= m
  BY <1>2, <1>3, <1>5
<1>7. p \in 1 .. Count(page) - 1  BY <1>1, <1>3, <1>6
<1> QED  BY <1>7 DEF p

(* Bytes that two keys share after a prefix, and with it. *)
LEMMA JoinedShares ==
  ASSUME NEW p \in Str, NEW a \in Str, NEW b \in Str, NEW n \in Nat, SharesFirst(a, b, n)
  PROVE  SharesFirst(p \o a, p \o b, Len(p) + n)
<1> DEFINE c == p \o a
           d == p \o b
           m == Len(p)
<1>1. /\ m \in Nat /\ Len(a) \in Nat /\ Len(b) \in Nat /\ n <= Len(a) /\ n <= Len(b)
      /\ \A i \in 1 .. n : a[i] = b[i]
  BY DEF Str, SharesFirst
<1>2. /\ Len(c) = m + Len(a)
      /\ \A j \in 1 .. m : c[j] = p[j]
      /\ \A j \in m + 1 .. m + Len(a) : c[j] = a[j - m]
  BY ConcatIs DEF Str
<1>3. /\ Len(d) = m + Len(b)
      /\ \A j \in 1 .. m : d[j] = p[j]
      /\ \A j \in m + 1 .. m + Len(b) : d[j] = b[j - m]
  BY ConcatIs DEF Str
<1> HIDE DEF c, d, m
<1>4. ASSUME NEW j \in 1 .. m + n  PROVE c[j] = d[j]
  <2>1. CASE j <= m  BY <2>1, <1>1, <1>2, <1>3
  <2>2. CASE j > m
    <3>1. j - m \in 1 .. n /\ j \in m + 1 .. m + Len(a) /\ j \in m + 1 .. m + Len(b)
      BY <2>2, <1>1
    <3> QED  BY <3>1, <1>1, <1>2, <1>3
  <2> QED  BY <2>1, <2>2, <1>1
<1>5. SharesFirst(c, d, m + n)  BY <1>1, <1>2, <1>3, <1>4 DEF SharesFirst
<1> QED  BY <1>5 DEF c, d, m

Halved(h, page, lo, new) ==
  /\ h.sep \in Str /\ Below(lo, h.sep) /\ (page.high # NoKey => Below(h.sep, page.high))
  /\ \E i \in DOMAIN page.slots : KeyAt(page, i) = h.sep
  /\ NodeOK(h.left, lo) /\ NodeOK(h.right, h.sep)
  /\ h.left.level = page.level /\ h.right.level = page.level
  /\ h.left.high = h.sep /\ h.right.high = page.high
  /\ h.left.rlink = new /\ h.right.rlink = page.rlink
  /\ \A x, r : /\ Has(h.left, x, r) <=> Has(page, x, r) /\ Below(x, h.sep)
               /\ Has(h.right, x, r) <=> Has(page, x, r) /\ ~Below(x, h.sep)

(* Entries before the split point are below the separator, the others are  *)
(* not, and the separator is the first of them.                            *)
SplitAt(page, lo, n, sep) ==
  /\ n \in 1 .. Count(page) - 1 /\ sep = KeyAt(page, n + 1)
  /\ sep \in Str /\ sep # NoKey /\ sep # <<>>
  /\ Below(lo, sep) /\ (page.high # NoKey => Below(sep, page.high))
  /\ \A i \in 1 .. n : Below(KeyAt(page, i), sep)
  /\ \A i \in n + 1 .. Count(page) : ~Below(KeyAt(page, i), sep)

LEMMA SplitAtIs ==
  ASSUME NEW page, NEW lo, NodeOK(page, lo), ~NoSplitPoint(page)
  PROVE  SplitAt(page, lo, FindSplitPoint(page), Sentinel(page, FindSplitPoint(page)))
<1> DEFINE n == FindSplitPoint(page)
           sep == Sentinel(page, n)
           m == Count(page)
<1>1. Strings(page) /\ page \in Node /\ lo \in Str /\ InOrder(page.slots)
  BY DEF NodeOK, Strings
<1>2. n \in 1 .. m - 1  BY <1>1, SplitPlace
<1>3. sep = KeyAt(page, n + 1)  BY DEF Sentinel, KeyAt
<1> HIDE DEF n, sep, m
<1>4. m \in Nat /\ DOMAIN page.slots = 1 .. m  BY <1>1, PageParts DEF m
<1>5. \A i \in 1 .. m : KeyAt(page, i) \in Str /\ Covers(page, lo, KeyAt(page, i))
  BY <1>1, <1>4, KeyAtIs DEF NodeOK
<1>6. n + 1 \in 1 .. m /\ 1 \in 1 .. m /\ 1 <= n  BY <1>2, <1>4
<1>7. ASSUME NEW i \in 1 .. m, NEW j \in 1 .. m, i < j
      PROVE  Below(KeyAt(page, i), KeyAt(page, j))
  <2>1. Below(page.slots[i].key, page.slots[j].key)  BY <1>1, <1>4, <1>7 DEF InOrder
  <2> QED  BY <2>1, <1>1, <1>4, EntriesInOrder
<1>8. ASSUME NEW i \in 1 .. n  PROVE Below(KeyAt(page, i), sep)
  <2>1. i \in 1 .. m /\ i < n + 1  BY <1>2, <1>4
  <2> QED  BY <2>1, <1>3, <1>6, <1>7
<1>9. ASSUME NEW i \in n + 1 .. m  PROVE ~Below(KeyAt(page, i), sep)
  <2>1. i \in 1 .. m /\ (i = n + 1 \/ n + 1 < i)  BY <1>2, <1>4
  <2>2. CASE i = n + 1  BY <2>2, <1>3, <1>5, <1>6, Irreflexive
  <2>3. CASE n + 1 < i
    <3>1. Below(sep, KeyAt(page, i))  BY <2>1, <2>3, <1>3, <1>6, <1>7
    <3> QED  BY <3>1, <2>1, <1>3, <1>5, <1>6, Order DEF Ordered
  <2> QED  BY <2>1, <2>2, <2>3
<1>10. Below(lo, sep)
  <2>1. 1 \in 1 .. n  BY <1>2, <1>6
  <2>2. Below(KeyAt(page, 1), sep)  BY <2>1, <1>8
  <2>3. ~Below(KeyAt(page, 1), lo)  BY <1>5, <1>6 DEF Covers
  <2>4. KeyAt(page, 1) \in Str /\ sep \in Str  BY <1>3, <1>5, <1>6
  <2> QED  BY <2>2, <2>3, <2>4, <1>1, Order DEF Ordered
<1>11. sep \in Str /\ (page.high # NoKey => Below(sep, page.high))
  BY <1>3, <1>5, <1>6 DEF Covers
<1>12. sep # NoKey
  <2> SUFFICES ASSUME sep = NoKey PROVE FALSE  OBVIOUS
  <2>1. sep[1] \in Nat /\ sep[1] = -1
    <3>1. NoKey[1] = -1 /\ Len(NoKey) = 1  BY DEF NoKey
    <3>2. \A i \in 1 .. Len(sep) : sep[i] \in Nat  BY <1>11 DEF Str
    <3>3. 1 \in 1 .. Len(sep) /\ sep[1] = -1  BY <3>1
    <3> QED  BY <3>2, <3>3
  <2> QED  BY <2>1
<1>13. sep # <<>>  BY <1>1, <1>10, EmptyFirst
<1> QED  BY <1>2, <1>3, <1>8, <1>9, <1>10, <1>11, <1>12, <1>13 DEF SplitAt, m, n, sep

(* The bytes that a half's keys share. *)
LEMMA SharedLeftIs ==
  ASSUME NEW page, NEW lo, NodeOK(page, lo), NEW n, NEW sep, SplitAt(page, lo, n, sep)
  PROVE  LET c == SharedLeft(page, n)
             q == SubSeq(sep, 1, Len(page.prefix) + c) IN
         /\ c \in Nat /\ q \in Str /\ Len(q) = Len(page.prefix) + c
         /\ q # <<>> => SharesFirst(q, lo, Len(q)) /\ SharesFirst(q, sep, Len(q))
         /\ \A i \in 1 .. n : SharesFirst(q, KeyAt(page, i), Len(q))
<1> DEFINE c == SharedLeft(page, n)
           p == page.prefix
           q == SubSeq(sep, 1, Len(p) + c)
           a == page.slots[1].key
           b == page.slots[n + 1].key
<1>1. /\ Strings(page) /\ page \in Node /\ lo \in Str /\ p \in Str /\ Len(p) \in Nat
      /\ Shares(page, lo) /\ StartsAt(page, lo) /\ EndsOpen(page, lo)
  BY DEF NodeOK, Strings, Str
<1>2. /\ n \in 1 .. Count(page) - 1 /\ sep = KeyAt(page, n + 1) /\ sep \in Str
      /\ \A i \in 1 .. n : Below(KeyAt(page, i), sep)
  BY DEF SplitAt
<1>3. Count(page) \in Nat /\ DOMAIN page.slots = 1 .. Count(page)  BY <1>1, PageParts
<1>4. /\ 1 \in DOMAIN page.slots /\ n + 1 \in DOMAIN page.slots
      /\ \A i \in 1 .. n : i \in DOMAIN page.slots
  BY <1>2, <1>3
<1>5. a \in Str /\ b \in Str /\ sep = p \o b /\ page.slots # <<>>
  BY <1>1, <1>2, <1>4 DEF Strings, KeyAt
<1>6. c = IF page.llink = NoPage THEN 0 ELSE CommonPrefixLen(a, b)
  BY DEF SharedLeft
<1> HIDE DEF c, q, a, b, p
<1>7. CASE page.llink = NoPage
  <2>1. c = 0 /\ lo = <<>>  BY <1>1, <1>6, <1>7 DEF EndsOpen
  <2>2. p = <<>> /\ Len(p) = 0
    <3> SUFFICES ASSUME p # <<>> PROVE FALSE  OBVIOUS
    <3>1. SharesFirst(p, <<>>, Len(p)) /\ Len(p) # 0  BY <2>1, <1>1 DEF Shares, p, Str
    <3> QED  BY <3>1, <1>1 DEF SharesFirst
  <2>3. Len(sep) \in Nat  BY <1>2 DEF Str
  <2>4. q \in Str /\ Len(q) = 0
    <3>1. SubSeq(sep, 1, 0) \in Str /\ Len(SubSeq(sep, 1, 0)) = 0
      BY <1>2, <2>3, StartShares
    <3> QED  BY <3>1, <2>1, <2>2 DEF q
  <2>5. q = <<>>  BY <2>4 DEF Str
  <2>6. \A i \in 1 .. n : SharesFirst(q, KeyAt(page, i), 0)
    <3>1. \A i \in 1 .. n : Len(KeyAt(page, i)) \in Nat  BY <1>1, <1>4, KeyAtIs DEF Str
    <3> QED  BY <3>1, <2>4 DEF SharesFirst
  <2> QED  BY <2>1, <2>2, <2>4, <2>5, <2>6 DEF c, q, p
<1>8. CASE page.llink # NoPage
  <2>1. c \in Nat /\ SharesFirst(a, b, c)  BY <1>5, <1>6, <1>8, CommonPrefixIs
  <2>2. lo = p \o a
    <3>1. lo # <<>>  BY <1>1, <1>8 DEF EndsOpen
    <3>2. KeyAt(page, 1) = lo  BY <3>1, <1>1 DEF StartsAt
    <3> QED  BY <3>2 DEF KeyAt, a, p
  <2> DEFINE m == Len(p) + c
  <2>3. SharesFirst(lo, sep, m)
    <3>1. SharesFirst(p \o a, p \o b, Len(p) + c)  BY <2>1, <1>1, <1>5, JoinedShares
    <3> QED  BY <3>1, <2>2, <1>5
  <2>4. m \in Nat /\ m <= Len(sep)  BY <2>1, <2>3, <1>1 DEF SharesFirst
  <2>5. q = SubSeq(sep, 1, m)  BY DEF q, p
  <2> HIDE DEF m
  <2>6. q \in Str /\ Len(q) = m /\ SharesFirst(q, sep, m)
    BY <2>4, <2>5, <1>2, StartShares
  <2>7. SharesFirst(q, lo, m)
    <3>1. SharesFirst(sep, lo, m)  BY <2>3, <2>4 DEF SharesFirst
    <3> QED  BY <3>1, <2>4, <2>6, <1>1, <1>2, SharesAcross
  <2>8. ASSUME NEW i \in 1 .. n  PROVE SharesFirst(q, KeyAt(page, i), Len(q))
    <3>1. KeyAt(page, i) \in Str  BY <1>1, <1>4, KeyAtIs
    <3>2. ~Below(KeyAt(page, i), lo)  BY <1>4 DEF NodeOK, Covers
    <3>3. ~Below(sep, KeyAt(page, i))  BY <3>1, <1>2, Order DEF Ordered
    <3> QED  BY <3>1, <3>2, <3>3, <2>6, <2>7, <1>1, <1>2, Between
  <2> QED  BY <2>1, <2>6, <2>7, <2>8 DEF m, q, c, p
<1> QED  BY <1>7, <1>8

LEMMA SharedRightIs ==
  ASSUME NEW page, NEW lo, NodeOK(page, lo), NEW n, NEW sep, SplitAt(page, lo, n, sep)
  PROVE  LET c == SharedRight(page, n)
             q == SubSeq(sep, 1, Len(page.prefix) + c) IN
         /\ c \in Nat /\ q \in Str /\ Len(q) = Len(page.prefix) + c
         /\ q # <<>> => /\ SharesFirst(q, sep, Len(q))
                        /\ page.high # NoKey /\ SharesFirst(q, page.high, Len(q))
         /\ \A i \in n + 1 .. Count(page) : SharesFirst(q, KeyAt(page, i), Len(q))
<1> DEFINE c == SharedRight(page, n)
           p == page.prefix
           q == SubSeq(sep, 1, Len(p) + c)
           a == RemoveKeyPrefix(page, page.high)
           b == page.slots[n + 1].key
           m == Count(page)
<1>1. /\ Strings(page) /\ page \in Node /\ lo \in Str /\ p \in Str /\ Len(p) \in Nat
      /\ Shares(page, lo) /\ EndsOpen(page, lo) /\ page.high \in Str \cup {NoKey}
  BY DEF NodeOK, Strings, Str
<1>2. /\ n \in 1 .. m - 1 /\ sep = KeyAt(page, n + 1) /\ sep \in Str
      /\ \A i \in n + 1 .. m : ~Below(KeyAt(page, i), sep)
  BY DEF SplitAt
<1>3. m \in Nat /\ DOMAIN page.slots = 1 .. m  BY <1>1, PageParts
<1> HIDE DEF m
<1>4. /\ n + 1 \in DOMAIN page.slots
      /\ \A i \in n + 1 .. m : i \in DOMAIN page.slots
  BY <1>2, <1>3
<1>5. b \in Str /\ sep = p \o b
  BY <1>1, <1>2, <1>4 DEF Strings, KeyAt
<1>6. c = IF page.rlink = NoPage THEN 0 ELSE CommonPrefixLen(b, a)
  BY DEF SharedRight
<1> HIDE DEF c, q, b, p
<1>7. CASE page.rlink = NoPage
  <2>1. c = 0 /\ page.high = NoKey  BY <1>1, <1>6, <1>7 DEF EndsOpen
  <2>2. p = <<>> /\ Len(p) = 0  BY <2>1, <1>1 DEF Shares, p
  <2>3. Len(sep) \in Nat  BY <1>2 DEF Str
  <2>4. q \in Str /\ Len(q) = 0
    <3>1. SubSeq(sep, 1, 0) \in Str /\ Len(SubSeq(sep, 1, 0)) = 0
      BY <1>2, <2>3, StartShares
    <3> QED  BY <3>1, <2>1, <2>2 DEF q
  <2>5. q = <<>>  BY <2>4 DEF Str
  <2>6. \A i \in n + 1 .. m : SharesFirst(q, KeyAt(page, i), 0)
    <3>1. \A i \in n + 1 .. m : Len(KeyAt(page, i)) \in Nat  BY <1>1, <1>4, KeyAtIs DEF Str
    <3> QED  BY <3>1, <2>4 DEF SharesFirst
  <2> QED  BY <2>1, <2>2, <2>4, <2>5, <2>6 DEF c, q, p, m
<1>8. CASE page.rlink # NoPage
  <2>1. page.high \in Str /\ page.high # NoKey  BY <1>1, <1>8 DEF EndsOpen
  <2>2. SharesFirst(p, page.high, Len(p))
    <3>1. CASE p = <<>>
      <4>1. Len(page.high) \in Nat  BY <2>1 DEF Str
      <4> QED  BY <3>1, <4>1 DEF SharesFirst
    <3>2. CASE p # <<>>  BY <3>2, <1>1 DEF Shares, p
    <3> QED  BY <3>1, <3>2
  <2>3. a \in Str /\ p \o a = page.high
    BY <2>1, <2>2, <1>1, Recompose DEF RemoveKeyPrefix, p
  <2> HIDE DEF a
  <2>4. c \in Nat /\ SharesFirst(b, a, c)  BY <2>3, <1>5, <1>6, <1>8, CommonPrefixIs
  <2> DEFINE l == Len(p) + c
  <2>5. SharesFirst(sep, page.high, l)
    <3>1. SharesFirst(p \o b, p \o a, Len(p) + c)
      BY <2>3, <2>4, <1>1, <1>5, JoinedShares
    <3> QED  BY <3>1, <2>3, <1>5
  <2>6. l \in Nat /\ l <= Len(sep)  BY <2>4, <2>5, <1>1 DEF SharesFirst
  <2>7. q = SubSeq(sep, 1, l)  BY DEF q, p
  <2> HIDE DEF l
  <2>8. q \in Str /\ Len(q) = l /\ SharesFirst(q, sep, l)
    BY <2>6, <2>7, <1>2, StartShares
  <2>9. SharesFirst(q, page.high, l)  BY <2>1, <2>5, <2>6, <2>8, <1>2, SharesAcross
  <2>10. ASSUME NEW i \in n + 1 .. m  PROVE SharesFirst(q, KeyAt(page, i), Len(q))
    <3>1. KeyAt(page, i) \in Str  BY <1>1, <1>4, KeyAtIs
    <3>2. Below(KeyAt(page, i), page.high)  BY <1>4, <2>1 DEF NodeOK, Covers
    <3>3. ~Below(page.high, KeyAt(page, i))  BY <3>1, <3>2, <2>1, Order DEF Ordered
    <3>4. ~Below(KeyAt(page, i), sep)  BY <1>2
    <3> QED  BY <3>1, <3>3, <3>4, <2>1, <2>8, <2>9, <1>2, Between
  <2> QED  BY <2>1, <2>4, <2>8, <2>9, <2>10 DEF l, q, c, p, m
<1> QED  BY <1>7, <1>8

LEMMA NotEmpty ==
  ASSUME NEW s, 1 \in DOMAIN s
  PROVE  s # <<>>
OBVIOUS

(* The two parts of Halves, for a split point.                             *)
LeftHalf(page, n, new) ==
  LET sep == Sentinel(page, n)
      prefix == SubSeq(sep, 1, Len(page.prefix) + SharedLeft(page, n))
      slots == Cut(SubSeq(page.slots, 1, n), SharedLeft(page, n))
  IN [page EXCEPT !.slots = slots, !.dead = 0, !.high = sep,
                  !.heap = PackedSize(slots, sep, prefix),
                  !.prefix = prefix, !.marked = page.llink # NoPage, !.rlink = new]

RightHalf(page, n, pid) ==
  LET prefix == SubSeq(Sentinel(page, n), 1, Len(page.prefix) + SharedRight(page, n))
      slots == Cut(SubSeq(page.slots, n + 1, Count(page)), SharedRight(page, n))
  IN [page EXCEPT !.slots = slots, !.dead = 0,
                  !.heap = PackedRight(slots, page.high, prefix),
                  !.prefix = prefix, !.marked = page.rlink # NoPage, !.llink = pid]

LeftHalved(half, page, lo, sep, new) ==
  /\ NodeOK(half, lo) /\ half.level = page.level /\ half.high = sep
  /\ half.rlink = new /\ half.llink = page.llink
  /\ \A x, r : Has(half, x, r) <=> Has(page, x, r) /\ Below(x, sep)

RightHalved(half, page, sep, pid) ==
  /\ NodeOK(half, sep) /\ half.level = page.level /\ half.high = page.high
  /\ half.rlink = page.rlink /\ half.llink = pid
  /\ \A x, r : Has(half, x, r) <=> Has(page, x, r) /\ ~Below(x, sep)

LEMMA HalfLeftIs ==
  ASSUME NEW page, NEW lo, NodeOK(page, lo), NEW n, SplitAt(page, lo, n, Sentinel(page, n)),
         NEW new \in Nat
  PROVE  LeftHalved(LeftHalf(page, n, new), page, lo, Sentinel(page, n), new)
<1> DEFINE sep == Sentinel(page, n)
           c == SharedLeft(page, n)
           q == SubSeq(sep, 1, Len(page.prefix) + c)
           t == Cut(SubSeq(page.slots, 1, n), c)
           half == LeftHalf(page, n, new)
           m == Count(page)
           h == PackedSize(t, sep, q)
           marked == page.llink # NoPage
<1>0. /\ SplitAt(page, lo, n, sep) /\ c = SharedLeft(page, n)
      /\ q = SubSeq(sep, 1, Len(page.prefix) + c) /\ t = Cut(SubSeq(page.slots, 1, n), c)
      /\ half = [page EXCEPT !.slots = t, !.dead = 0, !.high = sep, !.heap = h,
                             !.prefix = q, !.marked = marked, !.rlink = new]
  BY DEF LeftHalf
<1> HIDE DEF sep, c, q, t, half
<1>1. /\ Strings(page) /\ page \in Node /\ lo \in Str /\ page.prefix \in Str
      /\ StartsAt(page, lo) /\ EndsOpen(page, lo)
  BY DEF NodeOK, Strings
<1>2. /\ n \in 1 .. m - 1 /\ sep \in Str /\ sep # NoKey /\ Below(lo, sep)
      /\ \A i \in 1 .. n : Below(KeyAt(page, i), sep)
      /\ \A i \in n + 1 .. m : ~Below(KeyAt(page, i), sep)
  BY <1>0 DEF SplitAt
<1>3. /\ c \in Nat /\ q \in Str /\ Len(q) = Len(page.prefix) + c
      /\ q # <<>> => SharesFirst(q, lo, Len(q)) /\ SharesFirst(q, sep, Len(q))
      /\ \A i \in 1 .. n : SharesFirst(q, KeyAt(page, i), Len(q))
  BY <1>0, SharedLeftIs
<1>4. m \in Nat /\ DOMAIN page.slots = 1 .. m  BY <1>1, PageParts
<1>5. n \in Nat /\ 0 <= n /\ n <= m /\ n - 0 = n /\ 0 + 1 = 1 /\ 0 \in Nat  BY <1>2, <1>4
<1>6. half.slots = t /\ half.prefix = q  BY <1>0, <1>1 DEF Node
<1>7. t \in Seq(Slot) /\ PartOf(half, page, 0, n)
  <2>1. half.slots = Cut(SubSeq(page.slots, 0 + 1, n), c)  BY <1>0, <1>5, <1>6
  <2>2. half.prefix \in Str /\ Len(half.prefix) = Len(page.prefix) + c
        /\ \A i \in 0 + 1 .. n : SharesFirst(half.prefix, KeyAt(page, i), Len(half.prefix))
    BY <1>3, <1>5, <1>6
  <2>3. half.slots \in Seq(Slot) /\ PartOf(half, page, 0, n)
    BY ONLY <1>1, <1>3, <1>5, <2>1, <2>2, PartIsCut DEF m
  <2> QED  BY <2>3, <1>6
<1>8. sep \in Seq(Int) /\ q \in Seq(Int)  BY <1>2, <1>3 DEF Str
<1>9. h \in Nat  BY <1>7, <1>8, SizesAreNat
<1>11. marked \in BOOLEAN /\ new \in Int /\ new # NoPage  BY DEF NoPage
<1> HIDE DEF h, marked, m
<1>12. /\ half \in Node /\ half.slots = t /\ half.prefix = q /\ half.high = sep
       /\ half.level = page.level /\ half.rlink = new /\ half.llink = page.llink
  BY ONLY <1>0, <1>1, <1>7, <1>8, <1>9, <1>11 DEF Node
<1>13. /\ DOMAIN half.slots = 1 .. n
       /\ \A i \in 1 .. n : half.slots[i].key \in Str /\ KeyAt(half, i) = KeyAt(page, i)
  <2>1. \A i \in 1 .. n : 0 + i = i  BY <1>5
  <2> QED  BY <2>1, <1>5, <1>7 DEF PartOf
<1>14. Strings(half)  BY <1>2, <1>3, <1>12, <1>13 DEF Strings
<1>15. /\ InOrder(half.slots)
       /\ \A x, r : Has(half, x, r) <=>
            \E i \in 1 .. n : KeyAt(page, i) = x /\ page.slots[i].ref = r
  <2>1. /\ InOrder(half.slots)
        /\ \A x, r : Has(half, x, r) <=>
             \E i \in 0 + 1 .. n : KeyAt(page, i) = x /\ page.slots[i].ref = r
    <3>1. /\ NodeOK(page, lo) /\ Strings(half) /\ 0 \in Nat /\ n \in Nat /\ 0 <= n
          /\ n <= Count(page) /\ PartOf(half, page, 0, n)
      BY <1>5, <1>7, <1>14 DEF m
    <3> QED  BY ONLY <3>1, PartKeeps
  <2> QED  BY <2>1, <1>5
<1>16. Shares(half, lo)  BY <1>2, <1>3, <1>12 DEF Shares
<1>17. \A i \in DOMAIN half.slots : Covers(half, lo, KeyAt(half, i))
  <2>1. \A i \in 1 .. n : ~Below(KeyAt(page, i), lo)
    <3>1. \A i \in 1 .. n : i \in DOMAIN page.slots  BY <1>2, <1>4
    <3> QED  BY <3>1 DEF NodeOK, Covers
  <2> QED  BY <2>1, <1>2, <1>12, <1>13 DEF Covers
<1>18. StartsAt(half, lo)
  <2>1. 1 \in 1 .. n  BY <1>2, <1>4
  <2>2. half.slots # <<>>  BY <2>1, <1>13, NotEmpty
  <2>3. KeyAt(half, 1) = KeyAt(page, 1)  BY ONLY <2>1, <1>13
  <2> QED  BY ONLY <2>2, <2>3, <1>1, <1>12 DEF StartsAt
<1>19. EndsOpen(half, lo)  BY <1>1, <1>2, <1>11, <1>12 DEF EndsOpen
<1>20. NodeOK(half, lo)
  BY <1>1, <1>2, <1>12, <1>14, <1>15, <1>16, <1>17, <1>18, <1>19 DEF NodeOK
<1>21. ASSUME NEW x, NEW r
       PROVE  Has(half, x, r) <=> Has(page, x, r) /\ Below(x, sep)
  <2>1. ASSUME Has(half, x, r)  PROVE Has(page, x, r) /\ Below(x, sep)
    <3>1. PICK i \in 1 .. n : KeyAt(page, i) = x /\ page.slots[i].ref = r
      BY <2>1, <1>15
    <3>2. i \in DOMAIN page.slots  BY <1>2, <1>4
    <3> QED  BY <3>1, <3>2, <1>2 DEF Has
  <2>2. ASSUME Has(page, x, r), Below(x, sep)  PROVE Has(half, x, r)
    <3>1. PICK i \in 1 .. m : KeyAt(page, i) = x /\ page.slots[i].ref = r
      BY <2>2, <1>4 DEF Has
    <3>2. i \notin n + 1 .. m  BY <3>1, <2>2, <1>2
    <3>3. i \in 1 .. n  BY <3>2, <1>2, <1>4
    <3> QED  BY <3>1, <3>3, <1>15
  <2> QED  BY <2>1, <2>2
<1>22. LeftHalved(half, page, lo, sep, new)  BY <1>12, <1>20, <1>21 DEF LeftHalved
<1> QED  BY <1>22 DEF half, sep

LEMMA HalfRightIs ==
  ASSUME NEW page, NEW lo, NodeOK(page, lo), NEW n, SplitAt(page, lo, n, Sentinel(page, n)),
         NEW pid \in Nat
  PROVE  RightHalved(RightHalf(page, n, pid), page, Sentinel(page, n), pid)
<1> DEFINE sep == Sentinel(page, n)
           c == SharedRight(page, n)
           q == SubSeq(sep, 1, Len(page.prefix) + c)
           t == Cut(SubSeq(page.slots, n + 1, Count(page)), c)
           half == RightHalf(page, n, pid)
           m == Count(page)
           h == PackedRight(t, page.high, q)
           marked == page.rlink # NoPage
<1>0. /\ SplitAt(page, lo, n, sep) /\ c = SharedRight(page, n)
      /\ q = SubSeq(sep, 1, Len(page.prefix) + c)
      /\ t = Cut(SubSeq(page.slots, n + 1, Count(page)), c)
      /\ half = [page EXCEPT !.slots = t, !.dead = 0, !.heap = h,
                             !.prefix = q, !.marked = marked, !.llink = pid]
  BY DEF RightHalf
<1> HIDE DEF sep, c, q, t, half
<1>1. /\ Strings(page) /\ page \in Node /\ lo \in Str /\ page.prefix \in Str
      /\ EndsOpen(page, lo) /\ page.high \in Str \cup {NoKey}
  BY DEF NodeOK, Strings
<1>2. /\ n \in 1 .. m - 1 /\ sep \in Str /\ sep # <<>> /\ sep = KeyAt(page, n + 1)
      /\ \A i \in 1 .. n : Below(KeyAt(page, i), sep)
      /\ \A i \in n + 1 .. m : ~Below(KeyAt(page, i), sep)
      /\ page.high # NoKey => Below(sep, page.high)
  BY <1>0 DEF SplitAt
<1>3. /\ c \in Nat /\ q \in Str /\ Len(q) = Len(page.prefix) + c
      /\ q # <<>> => /\ SharesFirst(q, sep, Len(q))
                     /\ page.high # NoKey /\ SharesFirst(q, page.high, Len(q))
      /\ \A i \in n + 1 .. m : SharesFirst(q, KeyAt(page, i), Len(q))
  BY <1>0, SharedRightIs
<1>4. m \in Nat /\ DOMAIN page.slots = 1 .. m  BY <1>1, PageParts
<1>5. n \in Nat /\ n <= m /\ m <= m  BY <1>2, <1>4
<1>6. half.slots = t /\ half.prefix = q  BY <1>0, <1>1 DEF Node
<1>7. t \in Seq(Slot) /\ PartOf(half, page, n, m)
  <2>1. half.slots = Cut(SubSeq(page.slots, n + 1, m), c)  BY <1>0, <1>6
  <2>2. half.prefix \in Str /\ Len(half.prefix) = Len(page.prefix) + c
        /\ \A i \in n + 1 .. m : SharesFirst(half.prefix, KeyAt(page, i), Len(half.prefix))
    BY <1>3, <1>6
  <2>3. half.slots \in Seq(Slot) /\ PartOf(half, page, n, m)
    BY ONLY <1>1, <1>3, <1>4, <1>5, <2>1, <2>2, PartIsCut DEF m
  <2> QED  BY <2>3, <1>6
<1>8. page.high \in Seq(Int) /\ q \in Seq(Int)  BY <1>1, <1>3, PageParts DEF Str
<1>9. h \in Nat  BY <1>7, <1>8, SizesAreNat
<1>11. marked \in BOOLEAN /\ pid \in Int /\ pid # NoPage  BY DEF NoPage
<1> HIDE DEF h, marked, m
<1>12. /\ half \in Node /\ half.slots = t /\ half.prefix = q /\ half.high = page.high
       /\ half.level = page.level /\ half.llink = pid /\ half.rlink = page.rlink
  BY ONLY <1>0, <1>1, <1>7, <1>8, <1>9, <1>11 DEF Node
<1>13. /\ DOMAIN half.slots = 1 .. m - n
       /\ \A i \in 1 .. m - n : /\ half.slots[i].key \in Str
                                /\ KeyAt(half, i) = KeyAt(page, n + i)
                                /\ n + i \in n + 1 .. m /\ n + i \in DOMAIN page.slots
  <2>1. \A i \in 1 .. m - n : n + i \in n + 1 .. m /\ n + i \in DOMAIN page.slots
    BY <1>4, <1>5
  <2> QED  BY <2>1, <1>7 DEF PartOf
<1>14. Strings(half)  BY <1>1, <1>3, <1>12, <1>13 DEF Strings
<1>15. /\ InOrder(half.slots)
       /\ \A x, r : Has(half, x, r) <=>
            \E i \in n + 1 .. m : KeyAt(page, i) = x /\ page.slots[i].ref = r
  <2>1. /\ NodeOK(page, lo) /\ Strings(half) /\ n \in Nat /\ Count(page) \in Nat
        /\ n <= Count(page) /\ Count(page) <= Count(page)
        /\ PartOf(half, page, n, Count(page))
    BY <1>4, <1>5, <1>7, <1>14 DEF m
  <2>2. /\ InOrder(half.slots)
        /\ \A x, r : Has(half, x, r) <=>
             \E i \in n + 1 .. Count(page) : KeyAt(page, i) = x /\ page.slots[i].ref = r
    BY ONLY <2>1, PartKeeps
  <2> QED  BY <2>2 DEF m
<1>16. Shares(half, sep)  BY <1>3, <1>12 DEF Shares
<1>17. \A i \in DOMAIN half.slots : Covers(half, sep, KeyAt(half, i))
  <2>1. \A i \in 1 .. m - n : ~Below(KeyAt(half, i), sep)  BY <1>2, <1>13
  <2>2. \A i \in 1 .. m - n : page.high # NoKey => Below(KeyAt(half, i), page.high)
    BY <1>13 DEF NodeOK, Covers
  <2> QED  BY <2>1, <2>2, <1>12, <1>13 DEF Covers
<1>18. StartsAt(half, sep)
  <2>1. 1 \in 1 .. m - n  BY <1>2, <1>4
  <2>2. half.slots # <<>>  BY <2>1, <1>13, NotEmpty
  <2>3. KeyAt(half, 1) = sep  BY ONLY <2>1, <1>2, <1>13
  <2> QED  BY ONLY <2>2, <2>3 DEF StartsAt
<1>19. EndsOpen(half, sep)  BY <1>1, <1>2, <1>11, <1>12 DEF EndsOpen
<1>20. NodeOK(half, sep)
  BY <1>1, <1>2, <1>12, <1>14, <1>15, <1>16, <1>17, <1>18, <1>19 DEF NodeOK
<1>21. ASSUME NEW x, NEW r
       PROVE  Has(half, x, r) <=> Has(page, x, r) /\ ~Below(x, sep)
  <2>1. ASSUME Has(half, x, r)  PROVE Has(page, x, r) /\ ~Below(x, sep)
    <3>1. PICK i \in n + 1 .. m : KeyAt(page, i) = x /\ page.slots[i].ref = r
      BY <2>1, <1>15
    <3>2. i \in DOMAIN page.slots  BY <1>2, <1>4
    <3> QED  BY <3>1, <3>2, <1>2 DEF Has
  <2>2. ASSUME Has(page, x, r), ~Below(x, sep)  PROVE Has(half, x, r)
    <3>1. PICK i \in 1 .. m : KeyAt(page, i) = x /\ page.slots[i].ref = r
      BY <2>2, <1>4 DEF Has
    <3>2. i \notin 1 .. n  BY <3>1, <2>2, <1>2
    <3>3. i \in n + 1 .. m  BY <3>2, <1>2, <1>4
    <3> QED  BY <3>1, <3>3, <1>15
  <2> QED  BY <2>1, <2>2
<1>22. RightHalved(half, page, sep, pid)  BY <1>12, <1>20, <1>21 DEF RightHalved
<1> QED  BY <1>22 DEF half, sep

(* Both halves are in order, and the separator is the fence between them. *)
LEMMA HalvesAre ==
  ASSUME NEW page, NEW lo, NodeOK(page, lo), ~NoSplitPoint(page),
         NEW pid \in Nat, NEW new \in Nat
  PROVE  Halved(Halves(page, pid, new), page, lo, new)
<1> DEFINE n == FindSplitPoint(page)
           sep == Sentinel(page, n)
           left == LeftHalf(page, n, new)
           right == RightHalf(page, n, pid)
           h == Halves(page, pid, new)
<1>1. SplitAt(page, lo, n, sep)  BY SplitAtIs
<1>2. h = [sep |-> sep, left |-> left, right |-> right]
  BY DEF Halves, LeftHalf, RightHalf
<1> HIDE DEF n
<1>3. LeftHalved(left, page, lo, sep, new)  BY <1>1, HalfLeftIs
<1>4. RightHalved(right, page, sep, pid)  BY <1>1, HalfRightIs
<1> HIDE DEF sep
<1>5. /\ sep \in Str /\ Below(lo, sep) /\ (page.high # NoKey => Below(sep, page.high))
      /\ \E i \in DOMAIN page.slots : KeyAt(page, i) = sep
  <2>1. n \in 1 .. Count(page) - 1 /\ sep = KeyAt(page, n + 1)  BY <1>1 DEF SplitAt
  <2>2. page \in Node  BY DEF NodeOK, Strings
  <2>3. DOMAIN page.slots = 1 .. Count(page) /\ Count(page) \in Nat  BY <2>2, PageParts
  <2>4. n + 1 \in DOMAIN page.slots  BY <2>1, <2>3
  <2> QED  BY <1>1, <2>1, <2>4 DEF SplitAt
<1> HIDE DEF left, right, h
<1>6. h.sep = sep /\ h.left = left /\ h.right = right  BY <1>2
<1>7. Halved(h, page, lo, new)
  BY <1>3, <1>4, <1>5, <1>6 DEF Halved, LeftHalved, RightHalved
<1> QED  BY <1>7 DEF h

(* The low fence of the half that a new key goes to. *)
LowFor(h, lo, k) == IF Below(k, h.sep) THEN lo ELSE h.sep

LEMMA HalfTakes ==
  ASSUME NEW page, NEW lo, NEW k \in Str, NewHere(page, lo, k),
         NEW h, NEW new, Halved(h, page, lo, new)
  PROVE  NewHere(HalfFor(h, k), LowFor(h, lo, k), k)
<1> DEFINE sep == h.sep
<1>1. /\ NodeOK(page, lo) /\ Covers(page, lo, k)
      /\ \A i \in DOMAIN page.slots : KeyAt(page, i) # k
      /\ page.level > 0 \/ lo # <<>> => k # lo
  BY DEF NewHere
<1>2. /\ sep \in Str /\ Below(lo, sep) /\ (page.high # NoKey => Below(sep, page.high))
      /\ \E i \in DOMAIN page.slots : KeyAt(page, i) = sep
      /\ NodeOK(h.left, lo) /\ NodeOK(h.right, sep)
      /\ h.left.level = page.level /\ h.right.level = page.level
      /\ h.left.high = sep /\ h.right.high = page.high
      /\ \A x, r : /\ Has(h.left, x, r) <=> Has(page, x, r) /\ Below(x, sep)
                   /\ Has(h.right, x, r) <=> Has(page, x, r) /\ ~Below(x, sep)
  BY DEF Halved
<1>3. ASSUME NEW half, \A x, r : Has(half, x, r) => Has(page, x, r)
      PROVE  \A i \in DOMAIN half.slots : KeyAt(half, i) # k
  <2> SUFFICES ASSUME NEW i \in DOMAIN half.slots, KeyAt(half, i) = k  PROVE FALSE
    OBVIOUS
  <2>1. Has(half, k, half.slots[i].ref)  BY DEF Has
  <2>2. Has(page, k, half.slots[i].ref)  BY <2>1, <1>3
  <2> QED  BY <2>2, <1>1 DEF Has
<1> HIDE DEF sep
<1>4. CASE Below(k, sep)
  <2>1. \A i \in DOMAIN h.left.slots : KeyAt(h.left, i) # k  BY <1>2, <1>3
  <2>2. Covers(h.left, lo, k)  BY <1>1, <1>2, <1>4 DEF Covers
  <2>3. NewHere(h.left, lo, k)  BY <1>1, <1>2, <2>1, <2>2 DEF NewHere
  <2> QED  BY <2>3, <1>4 DEF HalfFor, LowFor, sep
<1>5. CASE ~Below(k, sep)
  <2>1. \A i \in DOMAIN h.right.slots : KeyAt(h.right, i) # k  BY <1>2, <1>3
  <2>2. Covers(h.right, sep, k)  BY <1>1, <1>2, <1>5 DEF Covers
  <2>3. k # sep  BY <1>1, <1>2
  <2>4. NewHere(h.right, sep, k)  BY <1>2, <2>1, <2>2, <2>3 DEF NewHere
  <2> QED  BY <2>4, <1>5 DEF HalfFor, LowFor, sep
<1> QED  BY <1>4, <1>5

(* Of LeafSplitFails, the split point and the room are left: a key is      *)
(* never too short for its half, and never found there.                    *)
LEMMA HalfSuits ==
  ASSUME NEW page, NEW lo, NEW k \in Str, NewHere(page, lo, k), ~NoSplitPoint(page),
         NEW pid \in Nat, NEW new \in Nat
  PROVE  LET half == HalfFor(Halves(page, pid, new), k) IN
         ~TooShort(half, k) /\ ~LeafFound(half, k)
<1> DEFINE h == Halves(page, pid, new)
           half == HalfFor(h, k)
           low == LowFor(h, lo, k)
<1>1. Halved(h, page, lo, new)  BY HalvesAre DEF NewHere
<1> HIDE DEF h
<1>2. NewHere(half, low, k)  BY <1>1, HalfTakes
<1> HIDE DEF half, low
<1>3. /\ NodeOK(half, low) /\ Covers(half, low, k)
      /\ \A i \in DOMAIN half.slots : KeyAt(half, i) # k
  BY <1>2 DEF NewHere
<1>4. ~TooShort(half, k)  BY <1>3, RemoveKeyPrefixIs DEF Stripped
<1>5. ~LeafFound(half, k)  BY <1>3, LeafFoundIs
<1> QED  BY <1>4, <1>5 DEF half, h

SplitInto(h, page, lo, new, k, ref) ==
  /\ h.sep \in Str /\ Below(lo, h.sep) /\ (page.high # NoKey => Below(h.sep, page.high))
  /\ \E i \in DOMAIN page.slots : KeyAt(page, i) = h.sep
  /\ NodeOK(h.left, lo) /\ NodeOK(h.right, h.sep)
  /\ h.left.level = page.level /\ h.right.level = page.level
  /\ h.left.high = h.sep /\ h.right.high = page.high
  /\ h.left.rlink = new /\ h.right.rlink = page.rlink
  /\ \A x, r :
       /\ Has(h.left, x, r) <=> (Has(page, x, r) \/ (x = k /\ r = ref)) /\ Below(x, h.sep)
       /\ Has(h.right, x, r) <=> (Has(page, x, r) \/ (x = k /\ r = ref)) /\ ~Below(x, h.sep)

(* g is h with the new key in its half. *)
LEMMA SplitIntoIs ==
  ASSUME NEW page, NEW lo, NEW k, NEW ref, NEW new, NEW h, Halved(h, page, lo, new), NEW g,
         g.sep = h.sep,
         Below(k, h.sep) => PutIn(g.left, h.left, lo, k, ref) /\ g.right = h.right,
         ~Below(k, h.sep) => PutIn(g.right, h.right, h.sep, k, ref) /\ g.left = h.left
  PROVE  SplitInto(g, page, lo, new, k, ref)
<1>1. CASE Below(k, h.sep)
  BY <1>1 DEF Halved, SplitInto, PutIn, SameFences
<1>2. CASE ~Below(k, h.sep)
  BY <1>2 DEF Halved, SplitInto, PutIn, SameFences
<1> QED  BY <1>1, <1>2

LEMMA LeafSplitIs ==
  ASSUME NEW page, NEW lo, NEW k \in Str, NewHere(page, lo, k), ~NoSplitPoint(page),
         NEW pid \in Nat, NEW new \in Nat, NEW v \in Int
  PROVE  SplitInto(LeafSplit(page, pid, new, k, v), page, lo, new, k, v)
<1> DEFINE h == Halves(page, pid, new)
           g == LeafSplit(page, pid, new, k, v)
<1>1. Halved(h, page, lo, new)  BY HalvesAre DEF NewHere
<1>2. NewHere(HalfFor(h, k), LowFor(h, lo, k), k)
  <2> HIDE DEF h
  <2> QED  BY <1>1, HalfTakes
<1>3. h = [sep |-> h.sep, left |-> h.left, right |-> h.right]  BY DEF Halves
<1>4. g = IF Below(k, h.sep) THEN [h EXCEPT !.left = LeafInsert(@, k, v)]
                             ELSE [h EXCEPT !.right = LeafInsert(@, k, v)]
  BY DEF LeafSplit
<1> HIDE DEF h, g
<1>5. CASE Below(k, h.sep)
  <2>1. g = [sep |-> h.sep, left |-> LeafInsert(h.left, k, v), right |-> h.right]
    BY <1>3, <1>4, <1>5
  <2>2. NewHere(h.left, lo, k)  BY <1>2, <1>5 DEF HalfFor, LowFor
  <2>3. PutIn(LeafInsert(h.left, k, v), h.left, lo, k, v)  BY <2>2, LeafInsertIs
  <2>4. g.sep = h.sep /\ g.left = LeafInsert(h.left, k, v) /\ g.right = h.right
    BY ONLY <2>1
  <2>5. SplitInto(g, page, lo, new, k, v)  BY <2>3, <2>4, <1>1, <1>5, SplitIntoIs
  <2> QED  BY <2>5 DEF g
<1>6. CASE ~Below(k, h.sep)
  <2>1. g = [sep |-> h.sep, left |-> h.left, right |-> LeafInsert(h.right, k, v)]
    BY <1>3, <1>4, <1>6
  <2>2. NewHere(h.right, h.sep, k)  BY <1>2, <1>6 DEF HalfFor, LowFor
  <2>3. PutIn(LeafInsert(h.right, k, v), h.right, h.sep, k, v)  BY <2>2, LeafInsertIs
  <2>4. g.sep = h.sep /\ g.right = LeafInsert(h.right, k, v) /\ g.left = h.left
    BY ONLY <2>1
  <2>5. SplitInto(g, page, lo, new, k, v)  BY <2>3, <2>4, <1>1, <1>6, SplitIntoIs
  <2> QED  BY <2>5 DEF g
<1> QED  BY <1>5, <1>6

LEMMA InterSplitIs ==
  ASSUME NEW page, NEW lo, NEW k \in Str, NewHere(page, lo, k), ~NoSplitPoint(page),
         NEW pid \in Nat, NEW new \in Nat, NEW child \in Int
  PROVE  SplitInto(InterSplit(page, pid, new, k, child), page, lo, new, k, child)
<1> DEFINE h == Halves(page, pid, new)
           g == InterSplit(page, pid, new, k, child)
<1>1. Halved(h, page, lo, new)  BY HalvesAre DEF NewHere
<1>2. NewHere(HalfFor(h, k), LowFor(h, lo, k), k)
  <2> HIDE DEF h
  <2> QED  BY <1>1, HalfTakes
<1>3. h = [sep |-> h.sep, left |-> h.left, right |-> h.right]  BY DEF Halves
<1>4. g = IF Below(k, h.sep) THEN [h EXCEPT !.left = InterInsert(@, k, child)]
                             ELSE [h EXCEPT !.right = InterInsert(@, k, child)]
  BY DEF InterSplit
<1> HIDE DEF h, g
<1>5. CASE Below(k, h.sep)
  <2>1. g = [sep |-> h.sep, left |-> InterInsert(h.left, k, child), right |-> h.right]
    BY <1>3, <1>4, <1>5
  <2>2. NewHere(h.left, lo, k)  BY <1>2, <1>5 DEF HalfFor, LowFor
  <2>3. PutIn(InterInsert(h.left, k, child), h.left, lo, k, child)  BY <2>2, InterInsertIs
  <2>4. g.sep = h.sep /\ g.left = InterInsert(h.left, k, child) /\ g.right = h.right
    BY ONLY <2>1
  <2>5. SplitInto(g, page, lo, new, k, child)  BY <2>3, <2>4, <1>1, <1>5, SplitIntoIs
  <2> QED  BY <2>5 DEF g
<1>6. CASE ~Below(k, h.sep)
  <2>1. g = [sep |-> h.sep, left |-> h.left, right |-> InterInsert(h.right, k, child)]
    BY <1>3, <1>4, <1>6
  <2>2. NewHere(h.right, h.sep, k)  BY <1>2, <1>6 DEF HalfFor, LowFor
  <2>3. PutIn(InterInsert(h.right, k, child), h.right, h.sep, k, child)
    BY <2>2, InterInsertIs
  <2>4. g.sep = h.sep /\ g.right = InterInsert(h.right, k, child) /\ g.left = h.left
    BY ONLY <2>1
  <2>5. SplitInto(g, page, lo, new, k, child)  BY <2>3, <2>4, <1>1, <1>6, SplitIntoIs
  <2> QED  BY <2>5 DEF g
<1> QED  BY <1>5, <1>6
=============================================================================
