----------------------------- MODULE FixedNode -----------------------------
(***************************************************************************)
(* The fixed (numeric) page layouts as operators on nodes: what            *)
(* BtreeNumberLayoutLeaf and BtreeNumberLayoutIntermediate do to the bytes *)
(* of one page.  A node is the record of a page's header fields and of its *)
(* two arrays; the header's count is Len(keys).  A leaf holds one ref (a   *)
(* value) per key; an intermediate node holds one ref (a child page) more  *)
(* than keys, refs[1] for the keys below keys[1].                          *)
(***************************************************************************)
EXTENDS Integers, Sequences, SequencesExt

CONSTANTS
  LeafMax,    \* max_count_ of the leaf layout
  InterMax,   \* max_count_ of the intermediate layout
  MaxKey      \* std::numeric_limits<KeyTyp>::max(), the layouts' UNDEFINED

(* Less room than this and a split would leave a page without a key (the   *)
(* layouts' real capacities are several hundred).  The largest key is not  *)
(* the only one.                                                           *)
ASSUME CapacityAssumption ==
  /\ LeafMax \in Nat /\ LeafMax >= 2
  /\ InterMax \in Nat /\ InterMax >= 4
  /\ MaxKey \in Nat \ {0}

NoPage == -1                \* UNDEFINED where a page id is expected
Key == 0 .. MaxKey
Pid == Nat
Link == Pid \cup {NoPage}

(* refs of a leaf are values, which are numbers too: the same bytes hold   *)
(* either.                                                                 *)
Node == [level : Nat, keys : Seq(Key), refs : Seq(Nat),
         high : Key, rlink : Link, llink : Link]

Count(node) == Len(node.keys)
HasKey(node, k) == \E i \in DOMAIN node.keys : node.keys[i] = k

-----------------------------------------------------------------------------
(* Searching.  The arrays' indices start at 0 in the code and at 1 here;   *)
(* an index operator returns the code's index, the number of keys before   *)
(* it.  FixedSearch has the loops that compute them.                       *)

(* Leaf GetIdx: the first position whose key is not below k. *)
LowerIdx(keys, k) ==
  CHOOSE i \in 0 .. Len(keys) :
    /\ \A j \in 1 .. i : keys[j] < k
    /\ i < Len(keys) => keys[i + 1] >= k

(* Intermediate GetIdx: the first position whose key is above k. *)
UpperIdx(keys, k) ==
  CHOOSE i \in 0 .. Len(keys) :
    /\ \A j \in 1 .. i : keys[j] <= k
    /\ i < Len(keys) => keys[i + 1] > k

-----------------------------------------------------------------------------
(* Both layouts. *)

HasSplitMut(node, k) == k > node.high      \* mutant: the high key is the page's

HasSplit(node, k) == k >= node.high

(* InitHeader: a page with no neighbours. *)
NewNode(level, keys, refs) ==
  [level |-> level, keys |-> keys, refs |-> refs,
   high |-> MaxKey, rlink |-> NoPage, llink |-> NoPage]

LeftHalfMut(node, keys, refs, sep, new) ==      \* mutant: the right link is left as it was
  [node EXCEPT !.keys = keys, !.refs = refs, !.high = sep]

(* The two WriteHeader calls that end a split of page pid at key sep. *)
LeftHalf(node, keys, refs, sep, new) ==
  [node EXCEPT !.keys = keys, !.refs = refs, !.high = sep, !.rlink = new]
RightHalf(node, keys, refs, pid) ==
  [node EXCEPT !.keys = keys, !.refs = refs, !.llink = pid]

Mid(node) == (Count(node) + 1) \div 2

-----------------------------------------------------------------------------
(* The leaf layout. *)

LeafHasSpace(node) == Count(node) < LeafMax

LeafGet(node, k) == node.refs[LowerIdx(node.keys, k) + 1]

LeafInsert(node, k, v) ==
  LET i == LowerIdx(node.keys, k) + 1 IN
  [node EXCEPT !.keys = InsertAt(@, i, k), !.refs = InsertAt(@, i, v)]

LeafDelete(node, k) ==
  LET i == LowerIdx(node.keys, k) + 1 IN
  [node EXCEPT !.keys = RemoveAt(@, i), !.refs = RemoveAt(@, i)]

(* Split and insert of an absent key.  The separator is the first key of   *)
(* the upper half as it was copied, before the new key goes to its side.   *)
LeafSplit(node, pid, new, k, v) ==
  LET mid == Mid(node)
      n == Count(node)
      sep == node.keys[mid + 1]
      left == LeftHalf(node, SubSeq(node.keys, 1, mid),
                       SubSeq(node.refs, 1, mid), sep, new)
      right == RightHalf(node, SubSeq(node.keys, mid + 1, n),
                         SubSeq(node.refs, mid + 1, n), pid)
  IN [sep |-> sep,
      left |-> IF k < sep THEN LeafInsert(left, k, v) ELSE left,
      right |-> IF k < sep THEN right ELSE LeafInsert(right, k, v)]

-----------------------------------------------------------------------------
(* The intermediate layout.  Its ref array starts one element after the    *)
(* leaf's on the same bytes (the constructors' ref_offset_ for 8-byte keys *)
(* and values), so on a page that is a leaf the ref it would find at an    *)
(* index is the leaf's ref one index earlier.                              *)

RefShift(node) == IF node.level = 0 THEN 0 ELSE 1

InterHasSpace(node) == Count(node) < InterMax

InterGet(node, k) == node.refs[UpperIdx(node.keys, k) + 1]

InterInsertMut(node, k, child) ==               \* mutant: the child goes before the key
  LET i == UpperIdx(node.keys, k) + 1 IN
  [node EXCEPT !.keys = InsertAt(@, i, k), !.refs = InsertAt(@, i, child)]

InterInsert(node, k, child) ==
  LET i == UpperIdx(node.keys, k) + 1 IN
  [node EXCEPT !.keys = InsertAt(@, i, k),
               !.refs = InsertAt(@, i + RefShift(node), child)]

InterSplitMut(node, pid, new, k, child) ==      \* mutant: as in a leaf, the middle
  LET mid == Mid(node)                          \* key stays, in the right half
      n == Count(node)
      sep == node.keys[mid + 1]
      left == LeftHalf(node, SubSeq(node.keys, 1, mid),
                       SubSeq(node.refs, 1, mid + 1), sep, new)
      right == RightHalf(node, SubSeq(node.keys, mid + 1, n),
                         SubSeq(node.refs, mid + 1, n + 1), pid)
  IN [sep |-> sep,
      left |-> IF k < sep THEN InterInsert(left, k, child) ELSE left,
      right |-> IF k < sep THEN right ELSE InterInsert(right, k, child)]

(* The key in the middle goes to neither half: it is the separator. *)
InterSplit(node, pid, new, k, child) ==
  LET mid == Mid(node)
      n == Count(node)
      m == n + RefShift(node)
      sep == node.keys[mid + 1]
      left == LeftHalf(node, SubSeq(node.keys, 1, mid),
                       SubSeq(node.refs, 1, mid + RefShift(node)), sep, new)
      right == RightHalf(node, SubSeq(node.keys, mid + 2, n),
                         SubSeq(node.refs, mid + 2, m), pid)
  IN [sep |-> sep,
      left |-> IF k < sep THEN InterInsert(left, k, child) ELSE left,
      right |-> IF k < sep THEN right ELSE InterInsert(right, k, child)]

(* CreateRoot, after InitHeader with one key at the level above. *)
RootNode(level, sep, left, right) ==
  NewNode(level + 1, <<sep>>, <<left, right>>)
=============================================================================
