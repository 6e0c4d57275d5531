---------------------------- MODULE MC_BLinkTree ----------------------------
(***************************************************************************)
(* Workloads for TLC.  main fills the tree; the others then run against    *)
(* each other.                                                             *)
(***************************************************************************)
EXTENDS BLinkTreeProps

CONSTANTS main, a, b, c

Put(k) == [kind |-> "insert", key |-> k, val |-> 0]
Update1(k) == [kind |-> "insert", key |-> k, val |-> 1]
Drop(k) == [kind |-> "delete", key |-> k, val |-> 0]
Look(k) == [kind |-> "get", key |-> k, val |-> 0]
Fill(keys) == [i \in DOMAIN keys |-> {Put(keys[i])}]

(* a and b both split the root leaf <<4, 6>>, or a page split from it, and *)
(* race to put a root above it; c reads, deletes and meets both.           *)
RootRace ==
  (main :> Fill(<<4, 6>>)) @@
  (a :> <<{Update1(7)}>>) @@
  (b :> <<{Update1(2)}, {Update1(3)}>>) @@
  (c :> <<{Drop(4), Look(6), Update1(6)}>>)
RootThreads == {main, a, b, c}

(* a grows the tree from one page to four levels, always splitting the     *)
(* leftmost page; b, which may have started at any root on the way, splits *)
(* that page too, and c looks for keys that move right meanwhile.          *)
TallRace ==
  (main :> Fill(<<17, 16>>)) @@
  (a :> [i \in 1 .. 13 |-> {Update1(16 - i)}]) @@
  (b :> <<{Update1(1)}>>) @@
  (c :> <<>>)

(* Two levels with a full root: a and b insert anywhere, so that any two   *)
(* leaves split and with them their parent; c reads or deletes.  Where b   *)
(* and c use the reserved key, the process stops in the midst of it all.   *)
Crossing ==
  (main :> Fill(<<3, 6, 9, 12, 15, 18, 4, 10>>)) @@
  (a :> <<{Update1(k) : k \in {2, 5}}, {Update1(11)}>>) @@
  (b :> <<{Update1(k) : k \in {5, 19, MaxKey}}>>) @@
  (c :> <<{Drop(10), Look(4), Drop(MaxKey), Look(MaxKey)}>>)

(* a splits the root leaf; before it has put a root above it, b follows    *)
(* the new right link, fills the right half and splits it too.             *)
SiblingRace ==
  (main :> Fill(<<2, 4, 6, 8, 10>>)) @@
  (a :> <<{Update1(12)}>>) @@
  (b :> <<{Update1(14)}, {Update1(16)}, {Update1(18)}>>) @@
  (c :> <<>>)
=============================================================================
