----------------------------- MODULE VarlenHeap -----------------------------
(***************************************************************************)
(* One variable-length page with the places of its entries: the heap that  *)
(* grows down from the page's end, the slot array that grows up, and the   *)
(* compaction that moves entries one by one within the page.  VarlenNode   *)
(* has the same pages without the places.  Of a key only the length counts *)
(* here, so a common prefix has any length that the keys allow.            *)
(***************************************************************************)
EXTENDS VarlenNode, FiniteSetsExt

CONSTANT MaxLen     \* bytes of the longest key

ASSUME MaxLenAssumption == MaxLen \in Nat

VARIABLES
  node,       \* the page; the ref of a slot is its offset
  highAt,     \* max_val: the high key's offset
  prefixAt,   \* prefix_offset
  stage,      \* "ready", or in CompactHeap and Split: "move", "fences", "insert"
  toMove,     \* the slots that CompactHeap has yet to move
  plan        \* what it cuts off and what is appended afterwards

vars == <<node, highAt, prefixAt, stage, toMove, plan>>

Bytes(n) == [i \in 1 .. n |-> 0]
Keys == {Bytes(n) : n \in 1 .. MaxLen}
Lengths(slots) == {Len(slots[i].key) : i \in DOMAIN slots}
NoPlan == [cut |-> 0, high |-> NoKey, prefix |-> <<>>, key |-> NoKey]

AlignDown(n) == (n \div Align) * Align

(* ReserveSlot's offset for a key's entry. *)
Offset(heap, k) == AlignDown(PageSize - heap - Len(k) - EntryHeader)

Init ==
  /\ node = NewNode(0, <<>>, 0)
  /\ highAt = PageSize /\ prefixAt = PageSize
  /\ stage = "ready"
  /\ toMove = {}
  /\ plan = NoPlan

-----------------------------------------------------------------------------
(* InsertInternal, of a key that goes before or after all the others. *)
Put(k) ==
  \E idx \in {0, Count(node)} :
    LET s == RemoveKeyPrefix(node, k) IN
    node' = InsertSlot(node, idx, s, Offset(node.heap, s))

Insert(k) ==
  /\ stage = "ready" /\ ~TooShort(node, k)
  /\ HasSpace(node, k)
  /\ Put(k)
  /\ UNCHANGED <<highAt, prefixAt, stage, toMove, plan>>

(* CompactHeap begins to write the heap anew, with the slots that are left.*)
Compact(slots, cut, high, prefix, k) ==
  /\ node' = [node EXCEPT !.slots = slots, !.heap = 0]
  /\ stage' = "move"
  /\ toMove' = DOMAIN slots
  /\ plan' = [cut |-> cut, high |-> high, prefix |-> prefix, key |-> k]
  /\ UNCHANGED <<highAt, prefixAt>>

Delete(i) ==
  /\ stage = "ready"
  /\ LET slots == RemoveAt(node.slots, i)
         dead == node.dead + EntrySize(node.slots[i].key)
     IN IF dead > PageSize \div 4
        THEN Compact(slots, 0, node.high, node.prefix, NoKey)
        ELSE /\ node' = [node EXCEPT !.slots = slots, !.dead = dead]
             /\ UNCHANGED <<highAt, prefixAt, stage, toMove, plan>>

NextToMoveMut ==                                \* mutant: in the order of the keys
  CHOOSE i \in toMove : \A j \in toMove : i <= j

(* CompactHeap sorts the slots, the one at the highest offset first. *)
NextToMove ==
  CHOOSE i \in toMove : \A j \in toMove : node.slots[i].ref >= node.slots[j].ref

MoveEntry ==
  /\ stage = "move" /\ toMove # {}
  /\ LET i == NextToMove
         k == SubSeq(node.slots[i].key, plan.cut + 1, Len(node.slots[i].key))
     IN node' = [node EXCEPT !.slots[i] = [key |-> k, ref |-> Offset(node.heap, k)],
                             !.heap = ReserveSlot(@, k)]
  /\ toMove' = toMove \ {NextToMove}
  /\ UNCHANGED <<highAt, prefixAt, stage, plan>>

AppendFencesMut ==                              \* mutant: heap_size without the prefix
  /\ stage = "move" /\ toMove = {}
  /\ LET heap == HighSize(node.heap, plan.high) IN
     /\ node' = [node EXCEPT !.dead = 0, !.heap = heap,
                             !.high = plan.high, !.prefix = plan.prefix]
     /\ highAt' = PageSize - heap
     /\ prefixAt' = PageSize - heap - Len(plan.prefix)
  /\ stage' = IF plan.key = NoKey THEN "ready" ELSE "insert"
  /\ plan' = [NoPlan EXCEPT !.key = plan.key]
  /\ UNCHANGED toMove

(* The high key, and the prefix without alignment. *)
AppendFences ==
  /\ stage = "move" /\ toMove = {}
  /\ LET heap == HighSize(node.heap, plan.high) IN
     /\ node' = [node EXCEPT !.dead = 0, !.heap = heap + Len(plan.prefix),
                             !.high = plan.high, !.prefix = plan.prefix]
     /\ highAt' = PageSize - heap
     /\ prefixAt' = PageSize - heap - Len(plan.prefix)
  /\ stage' = IF plan.key = NoKey THEN "ready" ELSE "insert"
  /\ plan' = [NoPlan EXCEPT !.key = plan.key]
  /\ UNCHANGED toMove

-----------------------------------------------------------------------------
(* Split, followed to one of its halves.  The separator is the first key   *)
(* of the upper half.                                                      *)
Splits(k) ==
  /\ stage = "ready" /\ ~TooShort(node, k)
  /\ ~HasSpace(node, k) /\ ~NoSplitPoint(node)
Lower == SubSeq(node.slots, 1, FindSplitPoint(node))
Upper == SubSeq(node.slots, FindSplitPoint(node) + 1, Count(node))
Separator == Sentinel(node, FindSplitPoint(node))

(* The left half is compacted in place; its keys and the separator share   *)
(* cut more bytes, unless there is no page on the left.                    *)
SplitLeft(k, cut, here) ==
  /\ node.llink = NoPage => cut = 0
  /\ \A len \in Lengths(Lower) : cut <= len
  /\ Len(node.prefix) + cut <= Len(Separator)
  /\ here => Len(node.prefix) + cut <= Len(k)
  /\ Compact(Lower, cut, Separator, SubSeq(Separator, 1, Len(node.prefix) + cut),
             IF here THEN k ELSE NoKey)

(* heap_size after each of the entries that AppendHeap gives a new page. *)
HeapAt(slots) ==
  LET at[i \in 0 .. Len(slots)] ==
        IF i = 0 THEN 0 ELSE ReserveSlot(at[i - 1], slots[i].key)
  IN at

(* The right half is another page, which gets the entries in the order of  *)
(* the slots, then the prefix and then the high key.                       *)
SplitRight(k, cut, here) ==
  LET upper == Cut(Upper, cut)
      heapAt == HeapAt(upper)
      prefix == SubSeq(Separator, 1, Len(node.prefix) + cut)
      heap == heapAt[Len(upper)] + Len(prefix)
  IN
  /\ node.high = NoKey => cut = 0
  /\ \A len \in Lengths(Upper) : cut <= len
  /\ node.high # NoKey => Len(node.prefix) + cut <= Len(node.high)
  /\ here => Len(k) >= Len(prefix)
  /\ node' = [node EXCEPT
       !.slots = [i \in DOMAIN upper |->
                   [key |-> upper[i].key, ref |-> Offset(heapAt[i - 1], upper[i].key)]],
       !.heap = HighSize(heap, node.high), !.dead = 0, !.prefix = prefix, !.llink = 0]
  /\ prefixAt' = PageSize - heap
  /\ highAt' = PageSize - HighSize(heap, node.high)
  /\ plan' = [NoPlan EXCEPT !.key = IF here THEN k ELSE NoKey]
  /\ stage' = IF here THEN "insert" ELSE "ready"
  /\ UNCHANGED toMove

(* Split's InsertInternal: the half's HasSpace is not asked. *)
InsertPending ==
  /\ stage = "insert"
  /\ Put(plan.key)
  /\ stage' = "ready"
  /\ plan' = NoPlan
  /\ UNCHANGED <<highAt, prefixAt, toMove>>

Next ==
  \/ \E k \in Keys :
       \/ Insert(k)
       \/ Splits(k) /\ \E cut \in 0 .. MaxLen, here \in BOOLEAN :
                         SplitLeft(k, cut, here) \/ SplitRight(k, cut, here)
  \/ \E i \in DOMAIN node.slots : Delete(i)
  \/ MoveEntry \/ AppendFences \/ InsertPending

Spec == Init /\ [][Next]_vars

-----------------------------------------------------------------------------
(* The bytes each part of the page occupies, from and up to. *)
Entry(i) == <<node.slots[i].ref, node.slots[i].ref + EntryHeader + Len(node.slots[i].key)>>
Entries == {Entry(i) : i \in DOMAIN node.slots}
HighKey == <<highAt, highAt + EntryHeader + Len(node.high)>>
Prefix == <<prefixAt, prefixAt + Len(node.prefix)>>

(* While entries are moved, the high key and the prefix are copies that    *)
(* the page does not hold.                                                 *)
Parts ==
  Entries \cup (IF stage = "move" \/ node.high = NoKey THEN {} ELSE {HighKey})
          \cup (IF stage = "move" \/ node.prefix = <<>> THEN {} ELSE {Prefix})

(* No part of a page overwrites another: not when an entry is appended,    *)
(* not when an entry is moved onto what others leave, and no two slots     *)
(* have the same offset.                                                   *)
PartsDisjoint ==
  /\ Cardinality(Entries) = Count(node)
  /\ \A x, y \in Parts : x = y \/ x[2] <= y[1] \/ y[2] <= x[1]

(* Every part is between the slot array and the page's end, and heap_size  *)
(* covers it: what is appended next goes below all of them.  True of       *)
(* entries that are small against the page only, as those of the run are   *)
(* (4 of 32 bytes): Split inserts its key without asking HasSpace, and     *)
(* with entries of 6 bytes on this page a half may have no room for it.    *)
PartsInHeap ==
  \A x \in Parts :
    /\ x[2] <= PageSize
    /\ x[1] >= SlotsEnd(node)
    /\ stage # "move" => x[1] >= PageSize - node.heap

(* CompactHeap moves entries only towards the page's end, so that a        *)
(* memmove never runs into the slots, and does not change their order.     *)
MovesUp ==
  [][stage = "move" =>
       \A i, j \in DOMAIN node.slots :
         /\ node'.slots[i].ref >= node.slots[i].ref
         /\ node.slots[i].ref < node.slots[j].ref =>
              node'.slots[i].ref < node'.slots[j].ref]_vars

(* A page that has been compacted or split has no byte to give away: its   *)
(* heap is as large as VarlenNode says.                                    *)
LaidOutAfresh ==
  [][stage = "move" /\ stage' # "move" =>
       node'.heap = CompactHeap(node', node'.slots)]_vars
=============================================================================
