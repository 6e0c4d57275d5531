-------------------------- MODULE VarlenTreeProps --------------------------
(***************************************************************************)
(* What makes VarlenTree correct: its refinement of KeyMap, what the bytes *)
(* that a page leaves out of its keys rest on, and the room in its heap.   *)
(***************************************************************************)
EXTENDS VarlenTree, FiniteSetsExt

Leaves == {p \in DOMAIN pages : pages[p].level = 0}

(* The whole key of a slot. *)
Whole(p, i) == pages[p].prefix \o pages[p].slots[i].key

(* The fence below a page: the high key of the page that links to it.      *)
LeftOf(p) == {q \in DOMAIN pages : pages[q].rlink = p}
Low(p) == IF LeftOf(p) = {} THEN <<>> ELSE pages[CHOOSE q \in LeftOf(p) : TRUE].high

-----------------------------------------------------------------------------
(* A key's value is in whichever leaf has it. *)
Slots == UNION {{<<p, i>> : i \in DOMAIN pages[p].slots} : p \in Leaves}
Stored == {<<Whole(x[1], x[2]), pages[x[1]].slots[x[2]].ref>> : x \in Slots}
Contents ==
  LET stored == Stored IN
  [k \in Key |-> IF \E v \in Val : <<k, v>> \in stored
                  THEN CHOOSE v \in Val : <<k, v>> \in stored ELSE NoPage]

PhaseOf(t) == CASE pc[t] = "idle" -> "idle"
                [] pc[t] = "leaf" -> "called"
                [] OTHER -> "answered"

Abstract == INSTANCE KeyMap WITH
  Absent <- NoPage,
  map <- Contents,
  phase <- [t \in Thread |-> PhaseOf(t)],
  call <- [t \in Thread |-> IF pc[t] = "idle" THEN NoPage ELSE call[t]]

(* Insert, Delete and Get of whole keys are linearizable, although pages   *)
(* keep parts of them, searches compare encoded keys and leaves raw ones,  *)
(* and the bytes of deleted entries stay until a page is compacted.        *)
Linearizable == Abstract!Spec

(* No assertion of the layouts can fail and no search leaves the tree: a   *)
(* page that is split has a split point with entries on both sides, a key  *)
(* is never shorter than the prefix of the page it belongs to, Get always  *)
(* finds a child, and both halves of a split have room for the new key.    *)
AssertionsHold == \A t \in Thread : ~Faulty(t)

(* A Get that finds a key finds one that is there (test_single_thread.cpp: *)
(* "key should be absent after delete").  For workloads of one thread.     *)
FoundKeysAreStored ==
  \A t \in Thread : pc[t] = "return" /\ call[t].kind = "get" /\ answer[t].ok =>
    <<call[t].key, answer[t].val>> \in Stored

-----------------------------------------------------------------------------
(* What a page leaves out of its keys, every key between its fences has:   *)
(* the prefix is one of both fences.  RemoveKeyPrefix drops as many bytes  *)
(* of a key without looking at them.                                       *)
PrefixesShared ==
  \A p \in DOMAIN pages : pages[p].prefix # <<>> =>
    /\ SharesFirst(pages[p].prefix, Low(p), Len(pages[p].prefix))
    /\ pages[p].high # NoKey
    /\ SharesFirst(pages[p].prefix, pages[p].high, Len(pages[p].prefix))

(* The keys of a page are in order and between its fences, the chains of a *)
(* level end without a high key, and only there, and a page has an llink,  *)
(* however old, if there is a page on its left: Split asks no more of it.  *)
FencesPartition ==
  \A p \in DOMAIN pages :
    /\ (pages[p].high = NoKey) = (pages[p].rlink = NoPage)
    /\ (pages[p].llink = NoPage) = (LeftOf(p) = {})
    /\ Cardinality(LeftOf(p)) <= 1
    /\ \A i \in DOMAIN pages[p].slots :
         /\ ~Below(Whole(p, i), Low(p))
         /\ pages[p].high # NoKey => Below(Whole(p, i), pages[p].high)
         /\ i > 1 => Below(Whole(p, i - 1), Whole(p, i))

(* A separator is the encoded low fence of the leaf it leads to, or the    *)
(* low fence of the intermediate page: routing by encoded keys ends at the *)
(* leaf whose raw fences the key is between.                               *)
SeparatorsMeetFences ==
  \A p \in DOMAIN pages \ Leaves : \A i \in DOMAIN pages[p].slots :
    LET child == pages[p].slots[i].ref IN
    /\ pages[child].level = pages[p].level - 1
    /\ Whole(p, i) = IF LeftOf(child) = {} THEN <<>>
                     ELSE IF child \in Leaves THEN Encode(Low(child)) ELSE Low(child)

-----------------------------------------------------------------------------
(* The heap never reaches the slot array, although HasSpace forgets the    *)
(* slot that Insert adds and Split inserts without asking it.              *)
HeapClearOfSlots ==
  \A p \in DOMAIN pages : SlotsEnd(pages[p]) + pages[p].heap <= PageSize

(* heap_size and dead_space account for all of the heap: live and dead     *)
(* entries, the high key and the prefix, and the bytes lost to alignment.  *)
(* A compaction or a split that forgets to reset the one, or to re-append  *)
(* a part, makes pages run full, or FindSplitPoint miss the middle.        *)
HeapAccounted ==
  \A p \in DOMAIN pages :
    LET node == pages[p]
        parts == EntriesSize(node.slots) + node.dead + Len(node.prefix)
                   + (IF node.high = NoKey THEN 0 ELSE EntryHeader + Len(node.high))
    IN /\ parts - Align < node.heap /\ node.heap < parts + 2 * Align
       /\ node.dead <= PageSize \div 4
=============================================================================
