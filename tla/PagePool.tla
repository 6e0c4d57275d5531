------------------------------ MODULE PagePool ------------------------------
(***************************************************************************)
(* PagePool: the pages the tree lives in.  Reserve hands out the pages in  *)
(* order and never takes one back; its assertion reads next_free_ and its  *)
(* increment comes after, as another operation on the atomic.  Get and     *)
(* Return count a page's users in ref_count_, an unsigned counter.         *)
(* ReserveNode does not count, yet ReleaseNode<None> undoes a count.       *)
(***************************************************************************)
EXTENDS Integers, FiniteSets

CONSTANTS
  Thread,
  PageCount,    \* page_count: pages in pages_
  Limit,        \* the 100'000 of Reserve's assertion
  Reserves,     \* how often a thread reserves a page
  Counter,      \* 2^32: how many values ref_count_ has
  PageBytes,    \* DB7_PAGE_SIZE
  Offsets       \* 2^32: how many values a u32 offset has

ASSUME PoolAssumption ==
  /\ IsFiniteSet(Thread)
  /\ PageCount \in Nat /\ Limit \in Nat /\ Reserves \in Nat
  /\ Counter \in Nat \ {0} /\ PageBytes \in Nat \ {0} /\ Offsets \in Nat \ {0}

VARIABLES
  nextFree,   \* next_free_
  refCount,   \* ref_count_ of each page
  pc,
  page,       \* the page a thread works on
  owned,      \* the pages Reserve has given to each thread
  left,       \* Reserves still to make
  aborted     \* the assertion has stopped the process

vars == <<nextFree, refCount, pc, page, owned, left, aborted>>

NoPage == -1

Init ==
  /\ nextFree = 0
  /\ refCount = [p \in 0 .. PageCount - 1 |-> 0]
  /\ pc = [t \in Thread |-> "idle"]
  /\ page = [t \in Thread |-> NoPage]
  /\ owned = [t \in Thread |-> {}]
  /\ left = [t \in Thread |-> Reserves]
  /\ aborted = FALSE

Goto(t, l) == pc' = [pc EXCEPT ![t] = l]
At(t, l) == ~aborted /\ pc[t] = l
Valid(p) == p \in DOMAIN refCount

(* Where the constructor puts a page's bytes: i * DB7_PAGE_SIZE as a u32.  *)
Data(p) == (p * PageBytes) % Offsets

-----------------------------------------------------------------------------
CheckLimitMut(t) ==                             \* mutant: no assertion
  /\ At(t, "idle") /\ left[t] > 0
  /\ left' = [left EXCEPT ![t] = @ - 1]
  /\ Goto(t, "take")
  /\ UNCHANGED <<nextFree, refCount, page, owned, aborted>>

CheckLimitLate(t) ==                            \* mutant: <= for <
  /\ At(t, "idle") /\ left[t] > 0
  /\ nextFree <= Limit
  /\ left' = [left EXCEPT ![t] = @ - 1]
  /\ Goto(t, "take")
  /\ UNCHANGED <<nextFree, refCount, page, owned, aborted>>

(* Reserve: the assertion, then next_free_++. *)
CheckLimit(t) ==
  /\ At(t, "idle") /\ left[t] > 0
  /\ nextFree < Limit
  /\ left' = [left EXCEPT ![t] = @ - 1]
  /\ Goto(t, "take")
  /\ UNCHANGED <<nextFree, refCount, page, owned, aborted>>

OutOfMem(t) ==
  /\ At(t, "idle") /\ left[t] > 0
  /\ nextFree >= Limit
  /\ aborted' = TRUE
  /\ UNCHANGED <<nextFree, refCount, pc, page, owned, left>>

TakePageMut(t) ==                               \* mutant: the counter is not atomic,
  /\ At(t, "take")                              \* and an old value of it is counted up
  /\ \E n \in 0 .. nextFree :
       /\ nextFree' = n + 1
       /\ page' = [page EXCEPT ![t] = n]
       /\ owned' = [owned EXCEPT ![t] = @ \cup {n}]
  /\ Goto(t, "reserved")
  /\ UNCHANGED <<refCount, left, aborted>>

TakePage(t) ==
  /\ At(t, "take")
  /\ nextFree' = nextFree + 1
  /\ page' = [page EXCEPT ![t] = nextFree]
  /\ owned' = [owned EXCEPT ![t] = @ \cup {nextFree}]
  /\ Goto(t, "reserved")
  /\ UNCHANGED <<refCount, left, aborted>>

CountMut(p, by) ==                              \* mutant: a signed counter
  refCount' = IF Valid(p) THEN [refCount EXCEPT ![p] = @ + by] ELSE refCount

(* Get and Return of a page in the pool; a page past its end is memory     *)
(* that is not the pool's, and what becomes of it is left open.            *)
Count(p, by) ==
  refCount' = IF Valid(p)
              THEN [refCount EXCEPT ![p] = (@ + by + Counter) % Counter]
              ELSE refCount

Get(t, p) ==
  /\ At(t, "idle")
  /\ Count(p, 1)
  /\ page' = [page EXCEPT ![t] = p]
  /\ Goto(t, "pinned")
  /\ UNCHANGED <<nextFree, owned, left, aborted>>

(* Return after Get, and after Reserve. *)
Return(t) ==
  /\ At(t, "pinned") \/ At(t, "reserved")
  /\ Count(page[t], -1)
  /\ page' = [page EXCEPT ![t] = NoPage]
  /\ Goto(t, "idle")
  /\ UNCHANGED <<nextFree, owned, left, aborted>>

Ended ==
  /\ aborted \/ \A t \in Thread : pc[t] = "idle" /\ left[t] = 0
  /\ UNCHANGED vars

(* The tree asks for pages it has been given. *)
Next ==
  \/ \E t \in Thread :
       \/ CheckLimit(t) \/ OutOfMem(t) \/ TakePage(t) \/ Return(t)
       \/ \E p \in 0 .. nextFree - 1 : Get(t, p)
  \/ Ended

Spec == Init /\ [][Next]_vars

-----------------------------------------------------------------------------
TypeOK ==
  /\ nextFree \in Nat
  /\ refCount \in [0 .. PageCount - 1 -> 0 .. Counter - 1]
  /\ pc \in [Thread -> {"idle", "take", "reserved", "pinned"}]
  /\ page \in [Thread -> Nat \cup {NoPage}]
  /\ owned \in [Thread -> SUBSET Nat]
  /\ left \in [Thread -> Nat]
  /\ aborted \in BOOLEAN

(* No page is handed to two threads, or twice: two trees' nodes, or two    *)
(* halves of different splits, would share its memory.                     *)
PagesDistinct ==
  /\ \A t, u \in Thread : t # u => owned[t] \cap owned[u] = {}
  /\ \A t \in Thread : Cardinality(owned[t]) =
       Reserves - left[t] - (IF pc[t] = "take" THEN 1 ELSE 0)

(* Past the limit at most one page per thread but one is handed out: by    *)
(* those that made the check before the last permitted increment.          *)
OvershootBounded == nextFree <= Limit \/ nextFree - Limit < Cardinality(Thread)

(* The assertion "out of mem" of Reserve: a page that is handed out is one *)
(* of the pool's.  It compares with a number of its own, and not at the    *)
(* moment of the increment, so that it does not hold of a pool with as     *)
(* many pages as the limit, nor of a smaller one.                          *)
ReservedInPool == \A t \in Thread : \A p \in owned[t] : p < PageCount

(* No two pages in use share their bytes, as the pages of a large pool do  *)
(* whose offsets differ by 2^32: the limit and the overshoot stop short of *)
(* them.                                                                   *)
MemoryDistinct ==
  LET all == UNION {owned[t] : t \in Thread} IN
  \A p, q \in all : p # q => Data(p) # Data(q)
=============================================================================
