--------------------------- MODULE PagePool_proofs ---------------------------
(***************************************************************************)
(* For any number of threads and of pages: Reserve hands each page out     *)
(* once, goes past its limit by less than the number of threads, and hands *)
(* out no two pages that share memory if these pages lie below 2^32 bytes. *)
(***************************************************************************)
EXTENDS PagePool, FiniteSetTheorems, TLAPS

(* The threads that have passed Reserve's check and not yet taken a page.  *)
Taking == {t \in Thread : pc[t] = "take"}

(* What Overshoot is about: the pages that are given out and those that    *)
(* will be without another check.                                          *)
Overshoot ==
  \/ nextFree = 0 /\ Taking = {}
  \/ nextFree + Cardinality(Taking) < Limit + Cardinality(Thread)

(* Each page below next_free_ has at most one owner, others have none, and *)
(* a thread has as many as its Reserves have returned.                     *)
Given(t) == Reserves - left[t] - (IF pc[t] = "take" THEN 1 ELSE 0)
Ownership ==
  /\ \A t \in Thread : owned[t] \subseteq 0 .. nextFree - 1
  /\ \A t \in Thread : IsFiniteSet(owned[t]) /\ Cardinality(owned[t]) = Given(t)
  /\ \A t, u \in Thread : t # u => owned[t] \cap owned[u] = {}

IInv == TypeOK /\ Ownership /\ Overshoot

-----------------------------------------------------------------------------
LEMMA InitIInv == Init => IInv
<1> SUFFICES ASSUME Init PROVE IInv
  OBVIOUS
<1> USE PoolAssumption DEF Init
<1>1. TypeOK
  <2>1. refCount \in [0 .. PageCount - 1 -> 0 .. Counter - 1]  OBVIOUS
  <2>2. pc \in [Thread -> {"idle", "take", "reserved", "pinned"}]  OBVIOUS
  <2>3. page \in [Thread -> Nat \cup {NoPage}]  OBVIOUS
  <2>4. owned \in [Thread -> SUBSET Nat] /\ left \in [Thread -> Nat]  OBVIOUS
  <2>5. nextFree \in Nat /\ aborted \in BOOLEAN  OBVIOUS
  <2> QED  BY ONLY <2>1, <2>2, <2>3, <2>4, <2>5 DEF TypeOK
<1>2. Ownership
  <2>1. \A t \in Thread : owned[t] = {} /\ Given(t) = 0  BY DEF Given
  <2>2. IsFiniteSet({}) /\ Cardinality({}) = 0  BY FS_EmptySet
  <2> QED  BY <2>1, <2>2 DEF Ownership
<1>3. Overshoot  BY DEF Overshoot, Taking
<1> QED  BY <1>1, <1>2, <1>3 DEF IInv

(* Taking is finite, and counts one more or less when a thread joins or    *)
(* leaves it.                                                              *)
LEMMA TakingFinite ==
  /\ IsFiniteSet(Taking) /\ Cardinality(Taking) \in Nat
  /\ IsFiniteSet(Thread) /\ Cardinality(Thread) \in Nat
  /\ Cardinality(Taking) <= Cardinality(Thread)
<1>1. Taking \in SUBSET Thread  BY DEF Taking
<1> QED  BY <1>1, PoolAssumption, FS_Subset, FS_CardinalityType

LEMMA TakingJoins ==
  ASSUME TypeOK, NEW t \in Thread, pc[t] = "idle", pc' = [pc EXCEPT ![t] = "take"]
  PROVE  /\ Cardinality(Taking') = Cardinality(Taking) + 1
         /\ Cardinality(Taking') <= Cardinality(Thread)
<1>1. Taking' = Taking \cup {t} /\ t \notin Taking  BY DEF Taking, TypeOK
<1>2. Taking' \in SUBSET Thread  BY DEF Taking
<1> QED  BY <1>1, <1>2, TakingFinite, FS_AddElement, FS_Subset

LEMMA TakingLeaves ==
  ASSUME TypeOK, NEW t \in Thread, pc[t] = "take", pc' = [pc EXCEPT ![t] = "reserved"]
  PROVE  Cardinality(Taking') = Cardinality(Taking) - 1
<1>1. Taking' = Taking \ {t} /\ t \in Taking  BY DEF Taking, TypeOK
<1> QED  BY <1>1, TakingFinite, FS_RemoveElement

LEMMA TakingStays ==
  ASSUME TypeOK, NEW t \in Thread, pc[t] # "take", NEW l, l # "take",
         pc' = [pc EXCEPT ![t] = l]
  PROVE  Taking' = Taking
  BY DEF Taking, TypeOK

(* A page's count stays within an unsigned counter. *)
LEMMA CountOK ==
  ASSUME TypeOK, NEW p \in Int, NEW by \in {-1, 1}, Count(p, by)
  PROVE  refCount' \in [0 .. PageCount - 1 -> 0 .. Counter - 1]
<1>1. CASE Valid(p)
  <2>1. refCount[p] \in 0 .. Counter - 1  BY <1>1 DEF Valid, TypeOK
  <2>2. (refCount[p] + by + Counter) % Counter \in 0 .. Counter - 1
    BY <2>1, PoolAssumption
  <2> QED  BY <1>1, <2>2 DEF Count, TypeOK
<1>2. CASE ~Valid(p)
  BY <1>2 DEF Count, TypeOK
<1> QED  BY <1>1, <1>2

-----------------------------------------------------------------------------
LEMMA CheckLimitKeeps ==
  ASSUME IInv, NEW t \in Thread, CheckLimit(t)
  PROVE  IInv'
<1> USE PoolAssumption DEF CheckLimit, At, Goto
<1>0. TypeOK /\ Ownership /\ Overshoot  BY DEF IInv
<1>1. TypeOK'  BY <1>0 DEF TypeOK
<1>2. Ownership'
  <2>1. \A u \in Thread : Given(u)' = Given(u)
    BY <1>0 DEF Given, TypeOK
  <2> QED  BY <1>0, <2>1 DEF Ownership
<1>3. Overshoot'
  <2>1. /\ Cardinality(Taking') = Cardinality(Taking) + 1
        /\ Cardinality(Taking') <= Cardinality(Thread)
    BY <1>0, TakingJoins
  <2>2. nextFree' = nextFree /\ nextFree \in Nat /\ nextFree < Limit
    BY <1>0 DEF TypeOK
  <2> QED  BY <2>1, <2>2, TakingFinite DEF Overshoot
<1> QED  BY <1>1, <1>2, <1>3 DEF IInv

LEMMA TakePageKeeps ==
  ASSUME IInv, NEW t \in Thread, TakePage(t)
  PROVE  IInv'
<1> USE PoolAssumption DEF TakePage, At, Goto
<1>0. TypeOK /\ Ownership /\ Overshoot  BY DEF IInv
<1>1. TypeOK'
  BY <1>0 DEF TypeOK
<1>2. Ownership'
  <2>1. nextFree \in Nat /\ nextFree' = nextFree + 1  BY <1>0 DEF TypeOK
  <2>2. owned'[t] = owned[t] \cup {nextFree} /\ Given(t)' = Given(t) + 1
    BY <1>0 DEF TypeOK, Given
  <2>3. ASSUME NEW u \in Thread, u # t
        PROVE  owned'[u] = owned[u] /\ Given(u)' = Given(u)
    BY <1>0, <2>3 DEF TypeOK, Given
  <2>4. \A u \in Thread : owned[u] \subseteq 0 .. nextFree - 1 /\ nextFree \notin owned[u]
    BY <1>0, <2>1 DEF Ownership
  <2>5. \A u \in Thread : owned'[u] \subseteq 0 .. nextFree' - 1
    BY <2>1, <2>2, <2>3, <2>4
  <2>6. \A u \in Thread : IsFiniteSet(owned'[u]) /\ Cardinality(owned'[u]) = Given(u)'
    <3>1. \A u \in Thread : IsFiniteSet(owned[u]) /\ Cardinality(owned[u]) = Given(u)
      BY ONLY <1>0 DEF Ownership
    <3>2. /\ IsFiniteSet(owned[t] \cup {nextFree})
          /\ Cardinality(owned[t] \cup {nextFree}) = Given(t) + 1
      BY ONLY <3>1, <2>4, FS_AddElement
    <3> QED  BY ONLY <3>1, <3>2, <2>2, <2>3
  <2>7. \A u, v \in Thread : u # v => owned'[u] \cap owned'[v] = {}
    BY <1>0, <2>2, <2>3, <2>4 DEF Ownership
  <2> QED  BY <2>5, <2>6, <2>7 DEF Ownership
<1>3. Overshoot'
  <2>1. Cardinality(Taking') = Cardinality(Taking) - 1  BY <1>0, TakingLeaves
  <2>2. t \in Taking  BY <1>0 DEF Taking
  <2>3. nextFree \in Nat /\ nextFree' = nextFree + 1  BY <1>0 DEF TypeOK
  <2> QED  BY <1>0, <2>1, <2>2, <2>3, TakingFinite DEF Overshoot
<1> QED  BY <1>1, <1>2, <1>3 DEF IInv

(* The other steps change neither owners nor who is taking. *)
LEMMA OtherKeeps ==
  ASSUME TypeOK, Ownership, Overshoot, TypeOK',
         UNCHANGED <<nextFree, owned, left>>, Taking' = Taking
  PROVE  IInv'
<1>1. \A u \in Thread : (pc'[u] = "take") = (pc[u] = "take")
  BY DEF Taking
<1>2. \A u \in Thread : Given(u)' = Given(u)
  BY <1>1 DEF Given
<1>3. Ownership'  BY <1>2 DEF Ownership
<1>4. Overshoot'  BY DEF Overshoot
<1> QED  BY <1>3, <1>4 DEF IInv

LEMMA NextIInv == IInv /\ [Next]_vars => IInv'
<1> SUFFICES ASSUME IInv, [Next]_vars PROVE IInv'
  OBVIOUS
<1>0. TypeOK /\ Ownership /\ Overshoot  BY DEF IInv
<1>1. ASSUME NEW t \in Thread, CheckLimit(t) PROVE IInv'
  BY <1>1, CheckLimitKeeps
<1>2. ASSUME NEW t \in Thread, OutOfMem(t) PROVE IInv'
  <2>1. TypeOK'  BY <1>0, <1>2 DEF OutOfMem, TypeOK
  <2>2. Taking' = Taking  BY <1>2 DEF OutOfMem, Taking
  <2> QED  BY <1>0, <1>2, <2>1, <2>2, OtherKeeps DEF OutOfMem
<1>3. ASSUME NEW t \in Thread, TakePage(t) PROVE IInv'
  BY <1>3, TakePageKeeps
<1>4. ASSUME NEW t \in Thread, Return(t) PROVE IInv'
  <2>1. page[t] \in Int /\ pc[t] # "take"  BY <1>0, <1>4 DEF Return, At, TypeOK, NoPage
  <2>2. refCount' \in [0 .. PageCount - 1 -> 0 .. Counter - 1]
    BY <1>0, <1>4, <2>1, CountOK DEF Return
  <2>3. TypeOK'  BY <1>0, <1>4, <2>2 DEF Return, Goto, TypeOK
  <2>4. Taking' = Taking  BY <1>0, <1>4, <2>1, TakingStays DEF Return, Goto
  <2> QED  BY <1>0, <1>4, <2>3, <2>4, OtherKeeps DEF Return
<1>5. ASSUME NEW t \in Thread, NEW p \in 0 .. nextFree - 1, Get(t, p) PROVE IInv'
  <2>1. p \in Nat /\ pc[t] # "take"  BY <1>0, <1>5 DEF Get, At, TypeOK
  <2>2. refCount' \in [0 .. PageCount - 1 -> 0 .. Counter - 1]
    BY <1>0, <1>5, <2>1, CountOK DEF Get
  <2>3. TypeOK'  BY <1>0, <1>5, <2>1, <2>2 DEF Get, Goto, TypeOK
  <2>4. Taking' = Taking  BY <1>0, <1>5, <2>1, TakingStays DEF Get, Goto
  <2> QED  BY <1>0, <1>5, <2>3, <2>4, OtherKeeps DEF Get
<1>6. CASE UNCHANGED vars
  <2>1. TypeOK'  BY <1>0, <1>6 DEF TypeOK, vars
  <2>2. Taking' = Taking  BY <1>6 DEF Taking, vars
  <2> QED  BY <1>0, <1>6, <2>1, <2>2, OtherKeeps DEF vars
<1> QED  BY <1>1, <1>2, <1>3, <1>4, <1>5, <1>6 DEF Next, Ended

LEMMA Inductive == Spec => []IInv
  BY InitIInv, NextIInv, PTL DEF Spec

-----------------------------------------------------------------------------
(* The counters keep their types: ref_count_ wraps and stays a counter.    *)
THEOREM Typing == Spec => []TypeOK
<1>1. IInv => TypeOK  BY DEF IInv
<1> QED  BY <1>1, Inductive, PTL

(* Reserve hands no page to two threads, or to one thread twice.           *)
THEOREM HandedOutOnce == Spec => []PagesDistinct
<1>1. IInv => PagesDistinct  BY DEF IInv, Ownership, Given, PagesDistinct
<1> QED  BY <1>1, Inductive, PTL

(* How far next_free_ gets. *)
LEMMA Extent ==
  ASSUME IInv
  PROVE  nextFree \in Nat /\ (nextFree = 0 \/ nextFree < Limit + Cardinality(Thread))
  BY TakingFinite, PoolAssumption DEF IInv, TypeOK, Overshoot

(* Reserve's check and increment are two operations, yet fewer pages than  *)
(* there are threads are handed out past the limit.                        *)
THEOREM LimitOvershot == Spec => []OvershootBounded
<1>1. IInv => OvershootBounded
  BY Extent, TakingFinite, PoolAssumption DEF OvershootBounded
<1> QED  BY <1>1, Inductive, PTL

(* A product below 2^32 is itself as a u32. *)
LEMMA NoWrap ==
  ASSUME NEW n \in Nat, NEW p \in 0 .. n - 1, n * PageBytes <= Offsets
  PROVE  Data(p) = p * PageBytes
<1> USE PoolAssumption
<1>1. p * PageBytes \in Nat  OBVIOUS
<1>2. n * PageBytes = p * PageBytes + (n - p) * PageBytes  OBVIOUS
<1>3. (n - p) * PageBytes > 0  OBVIOUS
<1>4. p * PageBytes < Offsets  BY <1>1, <1>2, <1>3
<1> QED  BY <1>1, <1>4 DEF Data

(* As long as the pages up to the limit and the overshoot lie below 2^32   *)
(* bytes, no two pages in use share memory, however large the pool is.     *)
THEOREM OwnMemory ==
  ASSUME (Limit + Cardinality(Thread) - 1) * PageBytes <= Offsets
  PROVE  Spec => []MemoryDistinct
<1>1. IInv => MemoryDistinct
  <2> DEFINE n == Limit + Cardinality(Thread) - 1
  <2> SUFFICES ASSUME IInv,
                      NEW t \in Thread, NEW u \in Thread,
                      NEW p \in owned[t], NEW q \in owned[u], p # q
               PROVE  Data(p) # Data(q)
    BY DEF MemoryDistinct
  <2>1. p \in 0 .. nextFree - 1 /\ q \in 0 .. nextFree - 1  BY DEF IInv, Ownership
  <2>2. n \in Nat /\ p \in 0 .. n - 1 /\ q \in 0 .. n - 1
    BY <2>1, Extent, TakingFinite, PoolAssumption
  <2>3. n * PageBytes <= Offsets  OBVIOUS
  <2> HIDE DEF n
  <2>4. Data(p) = p * PageBytes /\ Data(q) = q * PageBytes
    BY <2>2, <2>3, NoWrap
  <2>5. p * PageBytes # q * PageBytes
    <3>1. (p - q) * PageBytes # 0  BY <2>2, PoolAssumption
    <3>2. (p - q) * PageBytes = p * PageBytes - q * PageBytes  BY <2>2, PoolAssumption
    <3> QED  BY <3>1, <3>2, <2>2, PoolAssumption
  <2> QED  BY <2>4, <2>5
<1> QED  BY <1>1, Inductive, PTL
=============================================================================
