--------------------------- MODULE BLinkTreeProps ---------------------------
(***************************************************************************)
(* What makes BLinkTree correct: its refinement of KeyMap, the shape of    *)
(* the pages that the algorithm relies on, where threads stand in it, and  *)
(* what a step may never do to a page.                                     *)
(***************************************************************************)
EXTENDS BLinkTree

Leaves == {p \in Reserved : pages[p].level = 0}
RangeOf(s) == {s[i] : i \in DOMAIN s}

(* The fence below a page: the high key of the page that links to it.      *)
LeftOf(p) == {q \in Reserved : pages[q].rlink = p}
Leftmost == Reserved \ {pages[q].rlink : q \in Reserved}
Low(p) == IF LeftOf(p) = {} THEN 0 ELSE pages[CHOOSE q \in LeftOf(p) : TRUE].high

(* Threads that still owe the tree a separator, and those that have not    *)
(* reached the latch of the page it goes to.                               *)
Owing == {t \in Thread : pc[t] \in {"rootLock", "rootCheck", "reload",
                          "latchRedescend", "redescend", "latchPost", "post"}}

-----------------------------------------------------------------------------
(* Types, and that the page ids and the stack that the code uses without a *)
(* check are in range.                                                     *)
TypeOK ==
  /\ nextFree \in Nat \ {0}
  /\ pages \in [Reserved -> Node]
  /\ root \in Reserved
  /\ aborted \in BOOLEAN
  /\ pc \in [Thread -> PC]
  /\ todo \in [Thread -> Seq(SUBSET Calls)]
  /\ call \in [Thread -> Calls \cup {NoCall}]
  /\ cur \in [Thread -> Reserved \cup {NoPage}]
  /\ stack \in [Thread -> Seq(Reserved)]
  /\ sep \in [Thread -> Key]
  /\ child \in [Thread -> Reserved \cup {NoPage}]
  /\ level \in [Thread -> Nat]
  /\ drop \in [Thread -> Nat]
  /\ answer \in [Thread -> [ok : BOOLEAN, val : Nat \cup {NoPage}]]
  /\ \A t \in Thread :
       /\ pc[t] # "idle" => call[t] \in Calls /\ cur[t] \in Reserved
       /\ Len(stack[t]) <= StackSize
       /\ t \in Owing => child[t] \in Reserved

(* A latch excludes: who holds a page exclusively is the only one at it,   *)
(* and one thread at most is under root_mtx_.  It is what lets the work    *)
(* under a latch be one step.                                              *)
LatchesExclude ==
  \A t, u \in Thread : t # u =>
    /\ pc[t] \in ExclusivePC /\ pc[u] \in LatchPC => cur[t] # cur[u]
    /\ ~(pc[t] = "rootCheck" /\ pc[u] = "rootCheck")

-----------------------------------------------------------------------------
(* A key's value is where a search would find it: in any leaf page, since  *)
(* every leaf is on the chain (FencesPartition).                           *)
Contents ==
  LET leaves == Leaves
      holder(k) == {p \in leaves : HasKey(pages[p], k)}
  IN [k \in Key |-> LET at == holder(k) IN
        IF at = {} THEN NoPage ELSE LeafGet(pages[CHOOSE p \in at : TRUE], k)]

PhaseOf(t) ==
  CASE pc[t] = "idle" -> "idle"
    [] pc[t] \in {"latchDescend", "descend", "latchRead", "read",
                  "latchWrite", "write"} -> "called"
    [] OTHER -> "answered"

Abstract == INSTANCE KeyMap WITH
  Absent <- NoPage,
  map <- Contents,
  phase <- [t \in Thread |-> PhaseOf(t)],
  call <- [t \in Thread |-> IF pc[t] = "idle" THEN NoPage ELSE call[t]]

(* Insert, Delete and Get are linearizable: whatever splits, moves right   *)
(* and new roots happen meanwhile, each takes effect at once under the     *)
(* latch of the leaf it ends at, and answers as the map then demands.      *)
Linearizable == Abstract!Spec

-----------------------------------------------------------------------------
(* No key is in two leaves or twice in one: a key posted or copied to the  *)
(* wrong page would be (SplitLeaf moves the upper half, it copies none).   *)
DistinctLeafKeys ==
  /\ \A p, q \in Leaves : p # q => RangeOf(pages[p].keys) \cap RangeOf(pages[q].keys) = {}
  /\ \A p \in Leaves : Cardinality(RangeOf(pages[p].keys)) = Count(pages[p])

(* The repository's own specification of the algorithm states this of the  *)
(* tree that is left when all threads are done (specification/             *)
(* btree_index.tla, DistinctCheck == AllDone => AllLeafKeysDistinct).      *)
AllDone == \A t \in Thread : pc[t] = "idle" /\ todo[t] = <<>>
DistinctCheck == ~aborted /\ AllDone => DistinctLeafKeys

(* At every level the pages form one chain of rlinks whose fences cut the  *)
(* key space into consecutive pieces, up to MaxKey and no rlink; every key *)
(* of a page is in order and between its fences.  A split that is half     *)
(* done, or done twice, must keep this for the readers that go right.      *)
FencesPartition ==
  /\ \A p, q \in Leftmost : p # q => pages[p].level # pages[q].level
  /\ \A p \in Reserved :
       LET node == pages[p]
           low == Low(p)
       IN
       /\ Cardinality(LeftOf(p)) <= 1
       /\ low < node.high
       /\ (node.rlink = NoPage) = (node.high = MaxKey)
       /\ node.rlink # NoPage =>
            node.rlink \in Reserved /\ pages[node.rlink].level = node.level
       /\ \A i \in DOMAIN node.keys :
            /\ low <= node.keys[i] /\ node.keys[i] < node.high
            /\ i > 1 => node.keys[i - 1] < node.keys[i]

(* Every child pointer leads one level down to the page whose low fence is *)
(* the separator before the pointer, however late the separator is posted  *)
(* and however often the child has split since: a search led through it    *)
(* never lands to the right of its key, where no link leads back.          *)
SeparatorsMeetFences ==
  \A p \in Reserved :
    LET node == pages[p] IN
    node.level > 0 =>
      /\ Len(node.refs) = Count(node) + 1 /\ Count(node) > 0
      /\ \A i \in DOMAIN node.refs :
           /\ node.refs[i] \in Reserved
           /\ pages[node.refs[i]].level = node.level - 1
           /\ Low(node.refs[i]) = IF i = 1 THEN Low(p) ELSE node.keys[i - 1]

(* Every page but the leftmost of its level and the root is reached from a *)
(* parent, or a thread still carries the separator that will lead to it,   *)
(* and exactly one of these: no split is forgotten or posted twice.        *)
Parents(p) ==
  {q \in Reserved : pages[q].level > 0 /\ \E i \in DOMAIN pages[q].refs : pages[q].refs[i] = p}
Carriers(p) == {t \in Owing : child[t] = p}
NoOrphanPage ==
  \A p \in Reserved :
    /\ LeftOf(p) # {} => Cardinality(Parents(p)) + Cardinality(Carriers(p)) = 1
    /\ LeftOf(p) = {} /\ p # root => Cardinality(Parents(p)) = 1

(* The root is the leftmost page of the top level, and it has right        *)
(* siblings only while a thread is on its way to raise the tree.           *)
RootCoversTop ==
  /\ LeftOf(root) = {}
  /\ \A p \in Reserved : pages[p].level <= pages[root].level
  /\ pages[root].rlink # NoPage => \E t \in Owing : level[t] <= pages[root].level

-----------------------------------------------------------------------------
(* No thread is ever to the right of the key it looks for, at the page it  *)
(* is at or about to latch or on those it will come back to: the links     *)
(* only lead right, so that it would search the wrong part of the tree.    *)
SoughtKey(t) == IF t \in Owing THEN sep[t] ELSE SearchKey(t)
NeverPastKey ==
  \A t \in Thread : pc[t] \notin {"idle", "return"} =>
    /\ Low(cur[t]) <= SoughtKey(t)
    /\ \A i \in DOMAIN stack[t] : Low(stack[t][i]) <= SoughtKey(t)

(* A separator is posted one level above the page that split (the comment  *)
(* on drop_level: "we have to descend to the level above the starting      *)
(* point").                                                                *)
SeparatorAtRightLevel ==
  \A t \in Thread : pc[t] \in {"latchPost", "post"} =>
    LET from == pages[child[t]].level IN
    /\ pages[cur[t]].level = from + 1
    /\ \A i \in DOMAIN stack[t] :
         pages[stack[t][i]].level = from + 2 + Len(stack[t]) - i

(* None of the assertions on the way can fail, and UNDEFINED is never      *)
(* followed as a page id.                                                  *)
AssertionsHold == ~aborted

(* Short of that, the process stops only on the account of a thread that   *)
(* was handed the reserved key MaxKey, which no page's high key is above.  *)
OnlyReservedKeyAborts ==
  aborted => \E t \in Thread : pc[t] # "idle" /\ SearchKey(t) = MaxKey

-----------------------------------------------------------------------------
(* What a step may do to a page in use: leave its level alone; keep its    *)
(* high key and right link, or lower the one and set the other to a new    *)
(* page that takes over the old ones.  Readers between two latches, and    *)
(* writers with a page on their stack, rely on it.                         *)
KeptOrSplit(p) ==
  /\ p \in DOMAIN pages'
  /\ pages'[p].level = pages[p].level
  /\ IF pages'[p].rlink = pages[p].rlink
     THEN pages'[p].high = pages[p].high
     ELSE /\ pages'[p].rlink \in DOMAIN pages' \ Reserved
          /\ pages'[p].high <= pages[p].high
          /\ pages'[pages'[p].rlink].level = pages[p].level
          /\ pages'[pages'[p].rlink].rlink = pages[p].rlink
          /\ pages'[pages'[p].rlink].high = pages[p].high

PagesOnlySplit == [][\A p \in Reserved : KeptOrSplit(p)]_vars

(* Every call that is made returns, and the threads get through all their  *)
(* calls.                                                                  *)
Termination == <>[]AllDone
=============================================================================
