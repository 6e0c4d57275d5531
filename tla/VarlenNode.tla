----------------------------- MODULE VarlenNode -----------------------------
(***************************************************************************)
(* The variable-length page layouts as operators on nodes: what            *)
(* BtreeVarlenLayoutLeaf and BtreeVarlenLayoutIntermediate do to one page. *)
(* A key is a string of bytes.  A page stores its keys without the prefix  *)
(* they share, in a heap that grows down towards the slot array; only the  *)
(* sizes of the heap's parts are kept here, VarlenHeap has their places.   *)
(* The two layouts differ in the bytes they compare: leaves hold keys as   *)
(* they are given, intermediate pages hold them encoded.                   *)
(***************************************************************************)
EXTENDS Integers, Sequences, FiniteSets, SequencesExt

CONSTANTS
  PageSize,     \* DB7_PAGE_SIZE
  HeaderSize,   \* key_offset_: sizeof(VarlenHeader)
  SlotSize,     \* sizeof(Slot)
  EntryHeader,  \* sizeof(SlotValHeader)
  Align         \* alignof(SlotValHeader)

ASSUME LayoutAssumption ==
  /\ PageSize \in Nat /\ HeaderSize \in Nat
  /\ SlotSize \in Nat \ {0} /\ EntryHeader \in Nat \ {0} /\ Align \in Nat \ {0}
  /\ HeaderSize <= PageSize /\ PageSize % Align = 0
  /\ HeaderSize % SlotSize = 0 /\ Align % SlotSize = 0

NoPage == -1                \* UNDEFINED where a page id is expected
NoKey == <<-1>>             \* max_val = UNDEFINED_OFFSET

Count(node) == Len(node.slots)
AlignUp(n) == ((n + Align - 1) \div Align) * Align

-----------------------------------------------------------------------------
(* Comparing keys. *)

SharesFirst(a, b, n) == n <= Len(a) /\ n <= Len(b) /\ \A i \in 1 .. n : a[i] = b[i]

CommonPrefixLen(a, b) ==
  CHOOSE n \in 0 .. Len(a) : SharesFirst(a, b, n) /\ ~SharesFirst(a, b, n + 1)

(* Cmp < 0: by bytes, and a key before those it is a prefix of. *)
Below(a, b) ==
  \E n \in 0 .. Len(a) :
    /\ SharesFirst(a, b, n) /\ n < Len(b)
    /\ n = Len(a) \/ a[n + 1] < b[n + 1]

(* Leaf GetIdx and intermediate GetIdx: how many slots are before a key,   *)
(* and before or at it.  The slots are in order.                           *)
LowerIdx(slots, k) == Cardinality({i \in DOMAIN slots : Below(slots[i].key, k)})
UpperIdxMut(slots, k) == LowerIdx(slots, k)     \* mutant: the lower bound

UpperIdx(slots, k) == Cardinality({i \in DOMAIN slots : ~Below(k, slots[i].key)})

(* RemoveKeyPrefix asserts the length and does not look at the bytes. *)
TooShort(node, k) == Len(k) < Len(node.prefix)
RemoveKeyPrefix(node, k) == SubSeq(k, Len(node.prefix) + 1, Len(k))

(* HasSplit compares with the whole high key, rightmost pages have none. *)
HasSplitMut(node, k) == node.high # NoKey /\ Below(node.high, k) \* mutant: the high key is the page's

HasSplit(node, k) == node.high # NoKey /\ ~Below(k, node.high)

-----------------------------------------------------------------------------
(* The heap.  ReserveSlot takes an entry's bytes and aligns it; the page's *)
(* end is aligned, so the heap's size is rounded up.  ReserveSlotRaw takes *)
(* a prefix's bytes as they are.                                           *)

EntrySize(k) == AlignUp(EntryHeader + Len(k))
ReserveSlot(heap, k) == AlignUp(heap + EntryHeader + Len(k))
EntriesSize(slots) == FoldLeft(LAMBDA n, s : n + EntrySize(s.key), 0, slots)

(* A page laid out afresh: its entries, and then a high key and a prefix   *)
(* if it has them.  CompactHeap and the left half of a split append the    *)
(* high key before the prefix, the right half the prefix first.            *)
HighSize(heap, high) == IF high = NoKey THEN heap ELSE ReserveSlot(heap, high)
PackedSize(slots, high, prefix) == HighSize(EntriesSize(slots), high) + Len(prefix)
PackedRight(slots, high, prefix) == HighSize(EntriesSize(slots) + Len(prefix), high)

SlotsEnd(node) == HeaderSize + Count(node) * SlotSize

HasSpaceMut(node, k) ==                         \* mutant: the slots are not counted
  HeaderSize + node.heap + Len(RemoveKeyPrefix(node, k)) + EntryHeader + Align < PageSize

HasSpace(node, k) ==
  SlotsEnd(node) + node.heap
    + Len(RemoveKeyPrefix(node, k)) + EntryHeader + Align < PageSize

(* AppendHeap's assertion: the new entry's offset is in the page.          *)
HeapOverflow(node, k) == ReserveSlot(node.heap, k) >= PageSize

-----------------------------------------------------------------------------
(* Pages. *)

(* InitHeader.  marked says that prefix_offset is not UNDEFINED_OFFSET.    *)
NewNode(level, slots, heap) ==
  [level |-> level, slots |-> slots, heap |-> heap, dead |-> 0,
   prefix |-> <<>>, marked |-> FALSE, high |-> NoKey,
   rlink |-> NoPage, llink |-> NoPage]

(* CreateRoot: the page on the left goes under the empty key. *)
RootNode(level, sep, left, right) ==
  NewNode(level + 1, <<[key |-> <<>>, ref |-> left], [key |-> sep, ref |-> right]>>,
          ReserveSlot(ReserveSlot(0, <<>>), sep))

(* InsertInternal of a key without the page's prefix. *)
InsertSlot(node, idx, k, ref) ==
  [node EXCEPT !.slots = InsertAt(@, idx + 1, [key |-> k, ref |-> ref]),
               !.heap = ReserveSlot(@, k)]

LeafFound(node, k) ==
  \E i \in DOMAIN node.slots : node.slots[i].key = RemoveKeyPrefix(node, k)

LeafGet(node, k) == node.slots[LowerIdx(node.slots, RemoveKeyPrefix(node, k)) + 1].ref

LeafInsert(node, k, v) ==
  LET s == RemoveKeyPrefix(node, k) IN InsertSlot(node, LowerIdx(node.slots, s), s, v)

(* The child before the first separator above the key, UNDEFINED if there  *)
(* is none.                                                                *)
InterGet(node, k) ==
  LET idx == UpperIdx(node.slots, RemoveKeyPrefix(node, k)) IN
  IF idx = 0 THEN NoPage ELSE node.slots[idx].ref

InterInsertMut(node, k, child) ==               \* mutant: the whole key
  InsertSlot(node, UpperIdx(node.slots, RemoveKeyPrefix(node, k)), k, child)

InterInsert(node, k, child) ==
  LET s == RemoveKeyPrefix(node, k) IN InsertSlot(node, UpperIdx(node.slots, s), s, child)

CompactHeapMut(node, slots) == PackedSize(slots, NoKey, node.prefix) \* mutant: high key lost

(* CompactHeap when enough entries have been deleted. *)
CompactHeap(node, slots) == PackedSize(slots, node.high, node.prefix)

(* The entry's bytes stay in the heap until a quarter of the page is dead. *)
LeafDelete(node, k) ==
  LET s == RemoveKeyPrefix(node, k)
      slots == RemoveAt(node.slots, LowerIdx(node.slots, s) + 1)
      dead == node.dead + EntrySize(s)
  IN IF dead > PageSize \div 4
     THEN [node EXCEPT !.slots = slots, !.dead = 0, !.heap = CompactHeap(node, slots)]
     ELSE [node EXCEPT !.slots = slots, !.dead = dead]

-----------------------------------------------------------------------------
(* Split. *)

(* FindSplitPoint: how many entries make up half of the heap, which also   *)
(* holds dead entries, the high key and the prefix.                        *)
SplitPoints(node) ==
  {n \in 1 .. Count(node) :
     EntriesSize(SubSeq(node.slots, 1, n)) >= node.heap \div 2}
FindSplitPoint(node) == CHOOSE n \in SplitPoints(node) : \A m \in SplitPoints(node) : n <= m

(* It ends in DB7_UNREACHABLE, or leaves nothing for the right half.       *)
NoSplitPoint(node) == SplitPoints(node) \subseteq {Count(node)}

(* The separator is the first key of the upper half, whole. *)
SentinelMut(node, n) == node.slots[n + 1].key   \* mutant: as it is on the page

Sentinel(node, n) == node.prefix \o node.slots[n + 1].key

(* The left half can drop what its first key shares with the separator,    *)
(* the right half what the separator shares with the high key; the pages   *)
(* at the ends of a level keep whole keys.                                 *)
SharedLeftMut(node, n) ==                       \* mutant: of the last key
  IF node.llink = NoPage THEN 0
  ELSE CommonPrefixLen(node.slots[1].key, node.slots[n].key)

SharedLeft(node, n) ==
  IF node.llink = NoPage THEN 0
  ELSE CommonPrefixLen(node.slots[1].key, node.slots[n + 1].key)
SharedRight(node, n) ==
  IF node.rlink = NoPage THEN 0
  ELSE CommonPrefixLen(node.slots[n + 1].key, RemoveKeyPrefix(node, node.high))

(* Slots that lose n more bytes of their keys. *)
Cut(slots, n) == [i \in DOMAIN slots |->
                    [slots[i] EXCEPT !.key = SubSeq(@, n + 1, Len(@))]]

(* Both halves, before the new key goes to its side. *)
Halves(node, pid, new) ==
  LET n == FindSplitPoint(node)
      sep == Sentinel(node, n)
      prefixL == SubSeq(sep, 1, Len(node.prefix) + SharedLeft(node, n))
      prefixR == SubSeq(sep, 1, Len(node.prefix) + SharedRight(node, n))
      slotsL == Cut(SubSeq(node.slots, 1, n), SharedLeft(node, n))
      slotsR == Cut(SubSeq(node.slots, n + 1, Count(node)), SharedRight(node, n))
  IN [sep |-> sep,
      left |-> [node EXCEPT !.slots = slotsL, !.dead = 0, !.high = sep,
                            !.heap = PackedSize(slotsL, sep, prefixL),
                            !.prefix = prefixL, !.marked = node.llink # NoPage,
                            !.rlink = new],
      right |-> [node EXCEPT !.slots = slotsR, !.dead = 0,
                             !.heap = PackedRight(slotsR, node.high, prefixR),
                             !.prefix = prefixR, !.marked = node.rlink # NoPage,
                             !.llink = pid]]

LeafSplit(node, pid, new, k, v) ==
  LET h == Halves(node, pid, new) IN
  IF Below(k, h.sep) THEN [h EXCEPT !.left = LeafInsert(@, k, v)]
                     ELSE [h EXCEPT !.right = LeafInsert(@, k, v)]

InterSplit(node, pid, new, k, child) ==
  LET h == Halves(node, pid, new) IN
  IF Below(k, h.sep) THEN [h EXCEPT !.left = InterInsert(@, k, child)]
                     ELSE [h EXCEPT !.right = InterInsert(@, k, child)]

(* Where a split of either layout stops: no split point; a key shorter     *)
(* than the prefix of the half it goes to; no room for it there.           *)
HalfFor(h, k) == IF Below(k, h.sep) THEN h.left ELSE h.right

SplitFails(node, pid, new, k) ==
  \/ NoSplitPoint(node)
  \/ LET half == HalfFor(Halves(node, pid, new), k) IN
     TooShort(half, k) \/ HeapOverflow(half, RemoveKeyPrefix(half, k))

(* A leaf's key that is found in its half after all leaves the split half  *)
(* written.                                                                *)
LeafSplitFails(node, pid, new, k) ==
  \/ SplitFails(node, pid, new, k)
  \/ LeafFound(HalfFor(Halves(node, pid, new), k), k)

(* "prefix inconsistency": a page marked with an empty prefix.             *)
InterSplitFails(node, pid, new, k) ==
  \/ SplitFails(node, pid, new, k)
  \/ node.marked /\ node.prefix = <<>>
=============================================================================
