# Verification of concurrent-btree-lehman-yao

This directory models and checks the concurrent B-link tree of this repository
(`src/include/`). The modules are written in TLA+; TLC model-checks them on small
instances and TLAPS proves theorems about them for every value of their constants.
`PROJECT.json` ties each definition to the source lines it models, each run to its
properties, and each property to a mutation of the model that breaks it.

## Inventory

| Part | Source | State | Operations |
| --- | --- | --- | --- |
| B-link tree | `btree/btree.hpp`, `btree/header.hpp` | `root_id_`, `root_mtx_`, the pages | `Insert`, `Delete`, `Get`; inside them two `DropToLevel`, `GoRightLeaf/Inter`, `SplitLeaf/Inter`, `CreateNewRoot`, `PropagateInsert` |
| Thread state | `utils/thread_local.hpp` | `version_`, `tries_`, a stack of 16 page ids | `Clear`, `Push`, `Pop`, `IsEmpty`, `Lock<Mode>`, `Unlock<Mode>` |
| Fixed layouts | `layouts/fixed/*` | header (pid, links, count, level, `max_val`), key and ref arrays | search, insert, delete, split, new root |
| Latch | `utils/adaptive_version_lock.hpp`, `utils/page.hpp` | `seq`, `rw_mtx` | exclusive, shared, optimistic read and validate |
| Page pool | `utils/page_pool.hpp`, `utils/page.hpp` | `next_free_`, `ref_count_` of each page | `Reserve`, `Get`, `Return` |
| Variable-length layouts | `layouts/varlen/*` | header (as above, with `heap_size`, `dead_space`, `prefix_offset`, `prefix_len`), slot array, heap of entries, high key and prefix | `GetIdx`, `Insert`, `Delete`, `Split`, `CreateRoot`, `HasSpace`, `CompactHeap`, `RemoveKeyPrefix` |
| Key encoder | `utils/key_encoder.hpp` | none | `EncodeStringNormalized`, number encodings |
| Benchmark, tests | `src/main.cpp`, `test/*` | | a prefill by one thread, then threads that insert, delete and look up |

How they interact. A call clears the thread's stack, loads `root_id_` and descends,
taking each page's latch shared and pushing the pages it goes down through. At the
leaf it takes the latch exclusively (a second time: the page may have split
meanwhile), moves right as long as its key is not below the page's high key, and
does its work. An insert into a full leaf reserves a page, moves the upper half
there, and releases the leaf *before* it posts the separator: into the page on top
of the stack, or one to its right, which may split in turn. When the stack is empty
the page that split was the root of the descent: under `root_mtx_` the thread puts
a new root above it if it still is the root, and otherwise starts a second descent
to the level above. Threads share the pages, their latches, `root_id_`, `root_mtx_`
and the pool; a thread never holds two page latches, nor a page latch together
with `root_mtx_`.

Over variable-length keys the same tree code runs on another page layout. A leaf keeps
keys as the caller gave them and compares bytes; an intermediate page keeps
separators as the encoder normalises them (case folded, zero terminated). A page
stores the bytes that its keys share once, as its prefix, which a split chooses, and
a search drops as many bytes of its key without comparing them. Entries stay in the
heap when they are deleted, until a quarter of the page is dead and it is compacted.

What is hard: everything between two latches. The page a thread is on its way to
can split any number of times; so can the parents on its stack, and the root can
move several levels away. What makes it correct is that pages only ever split to
the right (`PagesOnlySplit`), that separators match the fences of the pages they
lead to (`SeparatorsMeetFences`), that each separator is posted exactly once at the
right level (`NoOrphanPage`, `SeparatorAtRightLevel`), that there is one root above
everything (`RootCoversTop`), and, as the sum of these, that the three operations
behave as an atomic map (`Linearizable`). With variable-length keys it further rests on
what a page leaves out of its keys being common to everything between its fences
(`PrefixesShared`), on routing by encoded keys ending at the leaf whose raw fences the
key is between (`SeparatorsMeetFences` of VarlenTreeProps), and on a heap whose
bookkeeping survives moves and splits (`PartsDisjoint`, `HeapAccounted`).

Paths below are relative to `src/include/` unless they start with `src/`.

## Modules

- **KeyMap**: the abstract specification. A map on which every call takes effect at
  one moment between its invocation and its return, with the answer the map then
  demands (`Insert` of a present key and `Delete` or `Get` of an absent one fail).
- **FixedNode**: the two numeric layouts as operators on one node, a record of the
  header fields and the two arrays. `LowerIdx` and `UpperIdx` stand for the binary
  searches. `RefShift` states what the intermediate layout's offsets do on a page
  that is a leaf, because the code gets there (see `sibling_race`).
- **FixedSearch**, **MC_FixedSearch**: the loops of both `GetIdx`, one round a step.
- **BLinkTree**: the tree and its threads. One action is one stretch of code
  between two operations on shared memory that other threads can tell apart; the
  work under a page's latch and its release is one action (`Exclusion` below is the
  reason it may be). `pc[t]` names the place:

  | pc | code |
  | --- | --- |
  | `latchDescend`, `descend` | `DropToLevel(key)`, before and under the shared latch |
  | `latchRead`, `read` | `InternalGet` |
  | `latchWrite`, `write` | `InsertInternal`, `DeleteInternal`, `GoRightLeaf` |
  | `rootLock`, `rootCheck` | before and under `root_mtx_` |
  | `reload` | `root_mtx_` released, `GetRoot` of the second `DropToLevel` to come |
  | `latchRedescend`, `redescend` | `DropToLevel(key, drop_level)` |
  | `latchPost`, `post` | `PropagateInsert`, `GoRightInter` |
  | `return` | the result is known |

  `stack` is `TlState`'s, `sep` and `child` the key and page id that travel up,
  `level` and `drop` the code's `level` and `drop_level`. `Abort` is what stops the
  process: each `DB7_ASSERT` on the way, and the use of `UNDEFINED` as a page id.
- **BLinkTreeProps**: the properties of the tree and the refinement mapping to
  KeyMap (`Abstract`): the map is the union of the leaves, a call is answered when
  its leaf has been read or written.
- **MC_BLinkTree**: workloads for TLC.
- **AdaptiveLock**: `Lock` and `Unlock` of the modes Write and Optimistic on one
  page of a few words, for any `MAX_OPTIMISTIC_TRIES`.
- **PagePool**: `Reserve` as the two atomic operations it is, `Get`, `Return`, and where
  the constructor puts each page's bytes.
- **VarlenNode**: both variable-length layouts as operators on one node: slots with the
  suffixes of their keys, prefix, high key, links, and the *sizes* `heap_size` and
  `dead_space`. A key is a sequence of bytes, `Below` is `Cmp`. `PackedSize` is what
  `CompactHeap` and `Split` leave behind. `SplitFails` is what either layout's split may
  stop at (no split point, a key shorter than its half's prefix, no room on the page);
  `LeafSplitFails` adds a key that is found in its half, `InterSplitFails` the assertion on
  an empty prefix.
- **VarlenHeap**: one page with the *places* of its entries (a slot's `ref` is its
  offset). `Insert`, `Delete`, `SplitLeft`, `SplitRight` are the layout's operations;
  `MoveEntry` is one round of `CompactHeap`'s loop, `AppendFences` what follows it, so
  that the properties see the page between two moves. Bytes of keys do not matter here,
  only lengths; a key goes before or after all the others.
- **VarlenTree**: `BTreeIndex` over these layouts. What happens between two latches is
  BLinkTree's subject; here a search is one step, and other threads' steps come
  between search, leaf and each page a separator goes to:

  | `pc` | code |
  | --- | --- |
  | `idle` | before a call; `Start` is `DropToLevel(key)` with the encoded key |
  | `leaf` | `InsertInternal`, `DeleteInternal`, `InternalGet` at the leaf that `GoRightLeaf` finds |
  | `root` | before `root_mtx_`: `Raise` is `CreateNewRoot`, `Redescend` the second `DropToLevel`, from whatever the root is by then: one that is not above the page that split is where it ends |
  | `post` | `PropagateInsert` at the page that `GoRightInter` finds |
  | `return` | the result is known |

  A thread for which an assertion fails has no step; `Faulty` says when that is.
- **VarlenTreeProps**: its properties and the refinement mapping to KeyMap.
- **MC_VarlenTree**: the encoder for TLC (`EncodeFolded`: case folding and the
  terminating zero) and the workloads, in rounds as `run_parallel` of `src/src/main.cpp`
  makes them: threads start together and are joined. What the threads call in each round is
  the workloads' own (the benchmark has a prefill, one round of inserts and one of
  lookups; the tests delete as well).
- **\*_proofs**: theorems and proofs, one module for each of FixedNode, FixedSearch,
  AdaptiveLock, PagePool, BLinkTree, VarlenNode, VarlenHeap and VarlenTree.
  BLinkTree_proofs has three parts: types, splits and latches; fences and searches, in
  every behaviour; shape, map and refinement, short of finding 1. VarlenTree_proofs ends with the workloads
  that cannot meet findings 1 and 2.

Definitions marked `mutant:` are changed forms of the definition after them. No
specification uses them; they are there to show that a property can fail.

## Runs

| Run | Instance | Shows |
| --- | --- | --- |
| `root_race` | pages of 2 keys; a prefilled root leaf; two threads that split it (or what it split into), a third that deletes, looks up and inserts | `Linearizable`, one covering root, no page lost, splits only, latches exclude, every call returns |
| `crossing` | two levels, the root full; two threads whose inserts split any two leaves and the root, or use the largest key; a third that deletes or looks up, that key too | `Linearizable`, the fences, separators against fences, nobody right of its key; only a thread that uses the largest key stops the process, and nothing is answered wrongly before |
| `tall_race` | one to four levels while a second thread is on its way with a separator from any of the roots | the second descent reaches the right level with the right count, and posts once |
| `sibling_race` | **violated**: leaves of 5; the right half of a parentless leaf splits | finding 1 |
| `lock_optimistic` | 2 writers, 1 reader, 2 words, 2 tries, 2 rounds | exclusion, balanced unlock, no torn or stale read, everyone finishes |
| `search` | all ascending arrays of at most 5 keys out of 7 | both searches return the index the tree relies on |
| `pool` | 3 threads, 2 reserves each, a limit of 3 pages, 7 pages in the pool, of which the last two lie on the memory of the first two | pages and their memory are handed out once; the limit is overshot by less than the number of threads |
| `pool_full` | **violated**: as many pages as the limit, 3 | finding 4 |
| `varlen_tree` | three levels of variable-length pages; two splits of neighbouring leaves, and of the middle intermediate page above them, against deletes that compact one of the leaves | `Linearizable`, prefixes shared by both fences, raw fences against encoded separators, heaps accounted for and clear of the slots, no assertion fails |
| `varlen_heap` | one page of 32 bytes, keys of 1 and 2 bytes, any history | no entry is overwritten, compaction moves entries up only, and leaves the layout that a new page has |
| `varlen_prefix` | **violated**: one thread; deletes, then a leaf fills with keys that share more | finding 2 |
| `varlen_inter` | **violated**: one thread; inserts of keys without a common first byte | finding 3 |

Bounds and why they suffice. A leaf of two keys and an intermediate page of four are
the smallest capacities that leave both halves of a split with keys; every split
then needs few inserts, so two or three threads meet in all of: split against
search, split against split of the same page, two separators for one parent in both
orders, parent splits before the separator arrives, new root against separator in
flight. The keys of each workload are fixed or drawn from a set of two or three, and
the prefill (by one thread, as in `src/src/main.cpp`) has one behaviour. Real
capacities are several hundred and enter nowhere but in `HasSpace` and in the
middle of a split; the proofs are for any capacity. `lock_optimistic` lets the one
reader meet two writes in one try, exhaust its tries within a page or between two,
and go through the shared path afterwards. The `search` bounds cover every shape of
an interval up to three rounds; the proof is for any length.

In `varlen_tree` and the two runs like it a byte of a key stands for four of the code's,
and so does a unit of the sizes; a slot, an entry's header and the alignment then have
the proportions of the code (4, 16 and 8 bytes), and a page holds some eight entries,
few enough for three levels. Every thread's calls are fixed, or one of two, except
where threads meet; the prefill brings the tree to just before the splits of interest,
among them those of a leaf and of an intermediate page with neighbours on both sides,
the only ones that choose a prefix. What the run shows rests on conditions that the code
does not check, and that callers must keep:

- the raw and the encoded order of the keys agree (all keys share their first byte,
  an upper case one, and no other byte has a case);
- a key that is the low fence of a leaf is not deleted, so that the leaf's first key is
  as close to its fence as the prefix assumes (finding 2 is what happens otherwise);
- keys share their first byte (finding 3 is what happens otherwise), as those of
  `src/src/main.cpp` and of the tests do;
- entries are small against the page.

The last condition shows in `varlen_heap` as well: `Split` inserts the new key without
asking for room, and a half may have none. `PartsInHeap` therefore says something about small
entries only: of the run's bounds, entries of at most 4 bytes on a page of 32, it holds, and
it does not catch this hazard; with `MaxLen = 3` on this page (entries of 6 bytes), or this
`MaxLen` on a page of 28, it fails. `HeapClearOfSlots` of `varlen_tree` is bounded in the
same way. `HeapAlwaysClear` below proves that it holds of entries short enough (`KeysFit`). A page of 32 bytes holds up to five entries: each
order of offsets against slots occurs, dead entries below, between and above live ones,
and halves of one entry.

What the passing tree runs do *not* cover is the situation of `sibling_race`, in which
almost every property fails: a second split of a page that has no parent yet, at the
right half. In `root_race` the second split is of the left half, whose thread finds
itself at the root (and then raises the tree itself); in `tall_race` the tree has
always grown above the level concerned. So read the passing runs as: the algorithm
is correct as long as no thread redescends from a root that is still too low. The same goes
for `varlen_tree`, no behaviour of which gets there. The
theorems of BLinkTree_proofs's third part and of VarlenTree_proofs make this condition
explicit (`RedescentHigh`); that of BLinkTree_proofs is an invariant of `root_race`, `crossing` and `tall_race`, and not of `sibling_race`.

Fairness. `FairSpec` assumes weak fairness of each thread's next step: the operating
system goes on scheduling every thread. No order of lock acquisition is assumed: a
`std::mutex` or `shared_mutex` may overtake a waiting thread, but each thread makes
finitely many calls, so the lock eventually stays free. With endless traffic a
writer may starve behind readers; `Termination` does not say otherwise. Deadlock is
checked in every passing run (`Ended` is the only step of a finished system).

## Findings

1. *Root-split race* (`sibling_race`). `InsertInternal` releases the leaf
   (`btree.hpp:293`) before it takes `root_mtx_`. If another thread meanwhile splits
   the new right half, it has an empty stack, finds that its page is not the root,
   and calls `DropToLevel(sentinel, 1)` on a root of level 0, which stops at once and
   has `PropagateInsert` insert the separator into that leaf as if it were a parent.
   The run ends with the key 14 twice in one leaf, once with the value 2, a page id. The
   same happens a level higher (`btree.hpp:362`). The repository's own specification
   requires the opposite (`src/specification/btree_index.tla:444`).
2. *A prefix too long* (`varlen_prefix`). `Split` takes for the left half's prefix what its
   first key shares with the separator (`varlen_layout_leaf.hpp:504`), not what its low
   fence shares with it, and `RemoveKeyPrefix` does not look at the bytes it drops. If
   the keys near the fence have been deleted, a key between the fence and the first key
   loses bytes in which it differs: `Get` finds a deleted key under another's entry,
   and `Insert` of it is refused.
3. *No prefix* (`varlen_inter`). `Split` of an intermediate page asserts that a page
   without prefix bytes has no prefix (`varlen_layout_intermediate.hpp:370`), but a half
   whose keys share nothing is written with a prefix of length 0: inserting keys that
   differ in their first byte stops the process at the page's second split.
4. *The end of the pool* (`pool_full`). `Reserve` asserts that `next_free_` is below 100'000,
   "out of mem" (`page_pool.hpp:34`), and increments it in another operation. Of a pool of
   exactly 100'000 pages, as that of `src/src/main.cpp:117`, two threads that both pass the
   assertion at the last page are given a page past the pool's end. The limit does not
   depend on `page_count`: the tests' pools of 80'000 pages are overrun by one thread alone
   that asks for more. How far the limit is overshot, `OvershootBounded` says: a pool of one
   page more for each thread but one would be large enough.

Two observations are no runs of their own. `UNDEFINED`, the high key of a rightmost
page, is the largest `KeyTyp`, and `HasSplit` is `>=`: a call with that key follows
`UNDEFINED` out of the tree (`OnlyReservedKeyAborts`, run `crossing`, says that nothing
else goes wrong). With `MAX_OPTIMISTIC_TRIES = 0`, as built, the
optimistic mode that `thread_local.hpp:64-69` describes as taking no lock always takes the
shared one.

## Proofs

All are for every value of the constants: any number of threads and any workload. For
the fixed layouts that is any capacities with `LeafMax >= 2` and `InterMax >= 4`
(`CapacityAssumption`; with less, a split would leave a page without keys), and any
largest key above 0 (with one key only, the fences of the first page would coincide).
For the variable-length ones it is any page size, header, slot, alignment and entry
header that fit together as the code's do (`LayoutAssumption`), any set of non-empty
strings of numbers as keys (`WorkloadAssumption`) and any encoder that gives non-empty
strings (`EncodeAssumption`: the code's encoded keys end with a zero).

- **BLinkTree_proofs, first part**. `Typing` (`Spec => []TypeOK`), `SplitsOnly` (`PagesOnlySplit`) and
  `Exclusion` (`[]LatchesExclude`). `TypeOK` alone is not inductive: that a right link
  leads to a reserved page of the same level, that a page's arrays have the lengths
  its level asks for and its keys are sorted (`PagesOK`), and what a thread at each
  place knows of the page it is at (`Standing`: a key to split with is there, the
  page it split has the level it carries) are needed with it. `IInv` is their
  conjunction; one lemma per group of actions shows that a step keeps it and, from the
  same case split, that it only splits pages. Since the type invariant must also
  hold after the race of finding 1, it admits leaves with separators in them: these
  three theorems hold of the program as it is, bug included.
- **BLinkTree_proofs, second part**. `NeverPast` (`Spec => []NeverPastKey`), bug included as well.
  The invariant `FInv` says of the pages that no two link to the same one and none to
  the root, that no entry of a page is below its low fence, and that the page a
  separator leads to has this separator as its low fence (`Fences`); and of the
  threads, that they are guided (`Guided`): neither the page a thread goes to nor one on
  its stack starts above its key. `Low` is a `CHOOSE` over the page on the left, so
  the heart is that *a page in use never changes its low fence* (`LowsKept`): a split
  takes keys from the right end only, and the new page's low fence is the separator.
  Then nothing a thread has read about a low fence is ever out of date.
- **BLinkTree_proofs, third part**. The invariant `SInv`, on top of these: each page's entries are
  distinct and below its high key, pages of one level do not overlap (`Shape`); each page
  but the root has a parent, or is carried by one thread as long as it has none
  (`Carried`); nothing is above the root, and right of it only while a thread is about
  to raise the tree (`TopOK`); the levels of the pages on a stack count up one by one
  (`Placed`). It is an invariant of every behaviour in which
  `RedescentHigh` always holds: a thread that goes down a second time
  (`pc[t] = "redescend"`) is at a page whose level is at least the one its separator
  is for. Without this hypothesis a separator is inserted into a leaf and nothing of
  the above is left (finding 1), so that the theorems are of the form
  `Spec /\ []RedescentHigh => []P`. From `SInv` follow `Partition`, `Separators`, `NoOrphans`,
  `RootOnTop`, `RightLevel` and `KeysDistinct`.

  `Linearizes` is the refinement of KeyMap under the same hypothesis. `IsMap` relates
  `Contents`, a `CHOOSE` among leaves, to the entries that leaves hold: by `Shape` a key is
  in one leaf at most. `RightLeaf` shows that a thread which holds a leaf's latch and
  is not sent right is at the one leaf its key can be in (not too far right by
  `Guided`, not too far left by the high key, nowhere else because leaves do not
  overlap); `InsertMap`, `SplitLeafMap`, `DeleteMap` and `InnerMap` say what each write does
  to the map, and `AbstractStep` puts a step of KeyMap or a stutter against each action.

  The hypothesis is discharged for workloads with one inserting thread besides the
  prefill (`OneInserter`): the root then cannot change under the inserter, whose
  stack, where not empty, has the root at its bottom (`Rooted`), so that it never finds the
  root moved and never descends twice. `OneInserterLinearizes` and
  `OneInserterKeepsShape` have no temporal hypothesis: with any number of threads that
  delete and look up, under any workload, the tree is correct.

  `OnlyReserved` and `NoAborts` are about the assertions. A full stack is one of them, and
  nothing in the model bounds the height of the tree, hence their second hypothesis
  `LowTree`: the root's level stays within the stack of 16 (with the code's capacities
  of several hundred a higher tree does not fit into 2^64 pages). `NoAborts`
  further assumes that no call is for the largest key (`NoReservedKey`).
- **FixedNode_proofs**. What each layout operator returns and preserves: order,
  lengths, and that a split gives two pages that fit.
- **FixedSearch_proofs**. `BinarySearch`: both loops return `LowerIdx` or `UpperIdx`, by
  the usual interval invariant.
- **AdaptiveLock_proofs**. Mutual exclusion, balanced unlock, whole and fresh reads. The
  invariant relates the parity of `seq`, the words already stamped by the current
  writer, and, for a reader whose version is still current, each word read so far.
- **PagePool_proofs**. The four invariants of the `pool` run, for any number of threads.
  `OvershootBounded` is not inductive: that the pages given out and those that will be
  without another check (`Taking`) stay below the limit plus the number of threads is.
  `Ownership` adds that each page below `next_free_` has at most one owner. From the bound
  follows `OwnMemory`, under its condition on the sizes: the pages which can be handed out
  fit in 2^32 bytes (524'288 pages of 8192 bytes, against a limit of 100'000 and the overshoot).
- **VarlenNode_proofs**. What the operations on one page do to its keys. `Below` is
  a strict total order of strings of bytes (`Order`), and strings between two that share
  their first bytes share these as well (`Between`). `NodeOK(page, lo)` says of a page
  whose low fence is `lo` that its entries are in order and between its fences, that its prefix is one of
  both fences, and that an intermediate page, or any page with something on its left,
  starts with its low fence. `LeafInsertIs`, `InterInsertIs`, `LeafDeleteKeeps`,
  `LeafSplitIs` and `InterSplitIs` say that each operation keeps `NodeOK` and what it does to
  the set of whole keys a page has (`Has`). `SharedLeftIs` is where the condition on
  deletes enters: the first key of a page *is* its low fence, so the prefix that the
  left half takes is one of its fence.

  `InsertFits`: although `HasSpace` does not count the slot that an
  insert adds, the heap never meets the slot array. It asks for `Align` bytes more than
  the entry needs, of which rounding up takes less than `Align`; what is left is positive
  and a multiple of the slot's size, because header, page and alignment are
  (`LayoutAssumption`, which holds of the code's 4, 8 and 8192; it also says that the
  header is part of the page).
- **VarlenHeap_proofs**. `PartsNeverOverlap`, `EntriesMoveUp` and `CompactedIsPacked`
  have no hypothesis but these assumptions. `PartsDisjoint` alone is not inductive: that a move does not run into an
  entry which is still to move takes that the entries are at multiples of `Align`, that those
  moved already are packed from the page's end down, and that the next one is the
  highest of the rest. `HeapInv` says so for each stage of an operation: `Laid`
  (entries aligned, pairwise clear, none below the heap's end), `FencesLaid` (high key
  and prefix clear of them and of each other) and, during a compaction, `Moving`.
  `HeapLaidOut` is `Spec => []HeapInv`, with one lemma for each action (`PutKeeps`,
  `DeleteKeeps`, `CompactKeeps`, `MoveKeeps`, `AppendKeeps`, `SplitLeftKeeps`,
  `SplitRightKeeps`). `CompactedIsPacked` needs a second invariant, `Accounted`: the bytes
  handed out so far are the sum of the rounded sizes of the entries moved so far.

  `PartsInHeap` is no theorem: it does not hold of every length of keys (see the runs), and
  the bound under which the sizes fit is `HeapAlwaysClear`'s of VarlenTree_proofs.

  `HeapAt`, the sizes a new page goes through, is a recursive function, and the sum of the
  entries' sizes a fold over a set; what is proved of them rests on the induction
  principle `Induction`, a fact about *sets* of naturals derived from the well-foundedness
  of `<` (`LeastOf`), which needs no parameter that is an operator.

- **VarlenTree_proofs**. All safety properties of the `varlen_tree` run and its refinement
  of KeyMap, in every behaviour that meets neither finding 1 nor finding 2. The inductive invariant `TreeInv` gives every page a low fence (`Lows`: the
  high key of the page that links to it, the empty key at the left end) and says that
  each page is `NodeOK` with it, that pages of a level do not overlap (`Apart`), that links
  go to pages of the same level and never to the root (`Linked`), that each separator is
  the encoded low fence of the leaf, or the low fence of the page, that it leads to
  (`EntriesOK`), and that no page is above the root (`Topped`); and of a thread, that the
  page it goes to and those on its stack do not start above its key, at levels that
  count up (`Arrives`), and that the separator it carries is the low fence of its child,
  which no page leads down to yet (`Carries`) and no other thread carries (`Apiece`). Pages keep their low fence and their level for good, so what
  a thread has read stays true however stale it is; a search by encoded keys followed by
  one by raw keys ends at the one leaf that covers the key (`LeafIs`, from
  `EncodeOrdered`). `Rights` and `Descents` are recursive functions over pages; that a
  search ends is an induction over the pages that are left to pass.

  From `TreeInv` follow `PrefixesAlwaysShared`, `FencesAlwaysPartition` and
  `SeparatorsAlwaysMeet`. `HeapAlwaysAccounted` needs `AllAccounted` with it, whose
  heart is that `EntriesSize`, a fold, is the sum its name says (`SizesOfFirst` and the lemmas
  after it); `HeapAlwaysClear` needs `AllClear`, and that after a split each half has room for
  one more key: the split point is the first at which half of the heap has been passed, so
  neither half gets more than a half and one entry (`SplitRoom`). `AssertionsAlwaysHold`
  adds that a split has a split point, that the half which gets the key covers it, and
  `NoEmptyMarks`. `Linearizes` relates `Contents`, a `CHOOSE` among the leaves' entries,
  to what the leaves hold (`IsMap`); `LeafKnows` says that whether a key is in the map is
  decided at the leaf the thread is at, `MapGains` and `MapLoses` what inserts, splits and
  deletes do to it, and `AbstractStep` puts a step of KeyMap or a stutter against each
  action.

  The hypotheses, each theorem with those it needs only:

  | hypothesis | says | needed by |
  | --- | --- | --- |
  | `EncodeOrdered` | the encoder keeps the order of the keys | all: otherwise the encoded separators lead to leaves that do not cover the key |
  | `[]FencesStay` | no delete takes a leaf's low fence out of it | all but the last three: finding 2 is what happens otherwise |
  | `[][RedescentHigh]_vars` | a second descent (`Redescend`) starts at a root that is above the page that split | all but the last five: finding 1 is what happens otherwise; its separator goes into a leaf, and neither fences nor the map survive |
  | `OneInserter` | in each round of the workload at most one thread inserts | the last five, in place of the one before |
  | `KeysFit(max)` | 40 entries of the longest key and three headers fit on a page: keys of up to 180 bytes for the code's 8192 | `HeapAlwaysClear`, `OnlyMarksFail`, `AssertionsAlwaysHold`, `InsertsSucceed`: a split does not ask whether there is room |
  | `CodesShare` | keys share their first encoded byte | `AssertionsAlwaysHold`, `InsertsSucceed`: finding 3 is what happens otherwise |
  | `NoDeletes` | the workload has no delete | the last three, in place of `FencesStay` |

  `OnlyMarksFail` says, without `CodesShare`, that the assertion of finding 3 is the only one
  that can fail. `FencesStay` and `RedescentHigh` are conditions on behaviours, which no caller
  can see to. With one inserting thread a round the second follows from the first
  (`OneInserterHigh`, `OneInserterLinearizes`): the invariant `Sole` says that this thread, wherever it
  is, has come down from a page at the top level, that the top level has but the root and
  a page this thread is about to put under a new one, and that, when its stack is empty, the page it
  split is the root itself. So it never descends a second time. Without deletes as
  well, both conditions are gone: `InsertsLinearize`, `InsertsKeepShape` and
  `InsertsSucceed` are theorems of `Spec` alone, of any number of lookups beside the one
  inserter. That covers the benchmark's prefill and its reads. It does not cover its
  phase 1: several threads insert there, the tree may need a new root while they do, and
  then finding 1 can happen to them.
  `KeysFit` is far from necessary: the pages of the `varlen_tree` run, with some eight
  entries, do not meet it, and there TLC checks the heap and the assertions directly.

Only model-checked: everything about liveness, for which TLAPS as installed has neither
fairness nor `ENABLED` (`Termination` of the runs). The steps within a search over
variable-length keys are in no model. With two or more inserting threads neither tree's
shape nor its refinement of KeyMap is a theorem of `Spec` alone: finding 1 is the
counterexample of both. In the run `varlen_tree` no thread's root is too low, so that
`RedescentHigh` holds there. The four properties that findings violate are no theorems either.

## Not modelled, and abstractions

- In VarlenTree: steps within a search (BLinkTree has them); a
  thread at a failing assertion stops instead of the process, which `AssertionsHold`
  notices first; the leaf of a split that fails after both halves are written is not
  looked at.
- Of the key encoder, the branches for numbers and the failure on input that is not
  UTF-8; `utf8proc`'s decomposition is external and stands for an identity here on all
  but upper case.
- `heap_size` of a page fresh from the pool is taken to be zero (`InitHeader` does not set it).
- Weak memory. Latched accesses are ordered by the mutex; the optimistic path's
  fences are not modelled, and `AdaptiveLock` assumes sequential consistency. The
  release order of `WriteLock`'s increment is listed as a hazard.
- Pin counts in the tree: `Get` and `Return` are in PagePool only. Nothing reads
  `ref_count_`.
- Bytes: offsets, alignment, `memmove`. One consequence of the offsets is modelled,
  `RefShift`. `ValTyp` and `KeyTyp` other than `u64` are not.
- Exhaustion of the pool: pages are unlimited in BLinkTree.
- `level` is a number, not a `u8`: the stack of 16 stops a tree long before 256.

## Plan

1. *Repair of the race*: the same program with the page's latch held across
   `root_mtx_`, shown to satisfy `RedescentHigh`, so that the repair suffices for any number
   of inserting threads.
2. *Proofs*: `PartsInHeap` for entries short enough, at the offsets as `HeapAlwaysClear` has
   it for the sizes; a sharper `KeysFit`; a condition on workloads with deletes under which `FencesStay` holds.
3. *Pins*: PagePool composed with BLinkTree, `PinBalance`.
4. *Memory order*: AdaptiveLock with delayed stores.
