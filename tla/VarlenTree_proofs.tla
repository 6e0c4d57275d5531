-------------------------- MODULE VarlenTree_proofs --------------------------
(***************************************************************************)
(* The tree of variable-length pages, for every set of keys, every layout, *)
(* every workload and any number of threads, in the behaviours that meet   *)
(* neither finding 1 (RedescentHigh) nor finding 2 (FencesStay), and, at   *)
(* the end, in all behaviours of the workloads that cannot.                *)
(***************************************************************************)
EXTENDS VarlenTreeProps, VarlenNode_proofs

(* What callers have to keep to: the encoder does not change the order of  *)
(* the keys.                                                               *)
EncodeOrdered == \A x, y \in Key : Below(x, y) => Below(Encode(x), Encode(y))

-----------------------------------------------------------------------------
(* A tree: its pages and, for each of them, the fence below it.            *)

Pool(pg) == \E n \in Nat : DOMAIN pg = 0 .. n - 1

(* The fence below a page is the high key of the page on its left.         *)
LowsFit(pg, low) ==
  /\ low \in [DOMAIN pg -> Str]
  /\ \A p \in DOMAIN pg : pg[p].rlink # NoPage => low[pg[p].rlink] = pg[p].high
  /\ \A q \in DOMAIN pg : low[q] # <<>> => \E p \in DOMAIN pg : pg[p].rlink = q

Pages(pg, low) == \A p \in DOMAIN pg : NodeOK(pg[p], low[p])

(* Links stay on their level, and no two lead to the same page or one to   *)
(* the root.                                                               *)
Linked(pg, rt) ==
  /\ \A p \in DOMAIN pg : pg[p].rlink # NoPage =>
       /\ pg[p].rlink \in DOMAIN pg /\ pg[p].rlink # rt
       /\ pg[pg[p].rlink].level = pg[p].level
  /\ \A p, q \in DOMAIN pg : pg[p].rlink = pg[q].rlink /\ pg[p].rlink # NoPage => p = q

(* The root is on the highest level. *)
Topped(pg, rt) == rt \in DOMAIN pg /\ \A p \in DOMAIN pg : pg[p].level <= pg[rt].level

(* What the page's parent has as its separator. *)
Fence(pg, low, p) ==
  IF low[p] = <<>> THEN <<>> ELSE IF pg[p].level = 0 THEN Encode(low[p]) ELSE low[p]

(* A leaf holds keys and values, an intermediate page the fences of pages  *)
(* one level below and their page ids.                                     *)
EntryOK(pg, low, level, x, r) ==
  IF level = 0 THEN x \in Key /\ r \in Val
  ELSE r \in DOMAIN pg /\ pg[r].level = level - 1 /\ x = Fence(pg, low, r)

EntriesOK(pg, low) ==
  \A p \in DOMAIN pg : \A x, r : Has(pg[p], x, r) => EntryOK(pg, low, pg[p].level, x, r)

HighsAreKeys(pg) == \A p \in DOMAIN pg : pg[p].level = 0 => pg[p].high \in Key \cup {NoKey}

(* The pages of a level share no key. *)
Before(pg, low, p, q) == pg[p].high # NoKey /\ ~Below(low[q], pg[p].high)
Apart(pg, low) ==
  \A p, q \in DOMAIN pg :
    p = q \/ pg[p].level # pg[q].level \/ Before(pg, low, p, q) \/ Before(pg, low, q, p)

Tree(pg, rt, low) ==
  /\ Pool(pg) /\ LowsFit(pg, low) /\ Pages(pg, low) /\ Linked(pg, rt) /\ Topped(pg, rt)
  /\ EntriesOK(pg, low) /\ HighsAreKeys(pg) /\ Apart(pg, low)

-----------------------------------------------------------------------------
(* What is true of every tree. *)

LEMMA KeysAreStrings ==
  /\ \A k \in Key : k \in Str /\ k # <<>> /\ Encode(k) \in Str /\ Encode(k) # <<>>
  /\ \A v \in Val : v \in Int
BY WorkloadAssumption, EncodeAssumption DEF Str

LEMMA TreePage ==
  ASSUME NEW pg, NEW rt, NEW low, Tree(pg, rt, low), NEW p \in DOMAIN pg
  PROVE  /\ pg[p] \in Node /\ low[p] \in Str /\ pg[p].high \in Str \cup {NoKey}
         /\ pg[p].level \in Nat /\ pg[p].rlink \in Int
         /\ pg[p].high # NoKey => Below(low[p], pg[p].high)
         /\ NodeOK(pg[p], low[p]) /\ Strings(pg[p])
<1>1. NodeOK(pg[p], low[p])  BY DEF Tree, Pages
<1>2. Strings(pg[p]) /\ pg[p] \in Node  BY <1>1 DEF NodeOK, Strings
<1> QED  BY <1>1, <1>2, PageParts DEF NodeOK, Strings

(* Low fences of leaves are keys. *)
LEMMA LeafLow ==
  ASSUME NEW pg, NEW rt, NEW low, Tree(pg, rt, low), NEW p \in DOMAIN pg,
         pg[p].level = 0, low[p] # <<>>
  PROVE  low[p] \in Key
<1>1. PICK q \in DOMAIN pg : pg[q].rlink = p  BY DEF Tree, LowsFit
<1>2. p # NoPage
  <2>1. PICK n \in Nat : DOMAIN pg = 0 .. n - 1  BY DEF Tree, Pool
  <2> QED  BY <2>1 DEF NoPage
<1>3. low[p] = pg[q].high /\ pg[q].level = 0  BY <1>1, <1>2 DEF Tree, LowsFit, Linked
<1>4. pg[q].high # NoKey
  <2>1. NodeOK(pg[q], low[q])  BY TreePage
  <2> QED  BY <2>1, <1>1, <1>2 DEF NodeOK, EndsOpen
<1> QED  BY <1>3, <1>4 DEF Tree, HighsAreKeys

LEMMA FenceIs ==
  ASSUME NEW pg, NEW rt, NEW low, Tree(pg, rt, low), NEW p \in DOMAIN pg
  PROVE  /\ Fence(pg, low, p) \in Str
         /\ Fence(pg, low, p) = <<>> <=> low[p] = <<>>
         /\ pg[p].level > 0 => Fence(pg, low, p) = low[p]
         /\ pg[p].level = 0 /\ low[p] # <<>> =>
              low[p] \in Key /\ Fence(pg, low, p) = Encode(low[p])
<1>1. low[p] \in Str /\ pg[p].level \in Nat  BY TreePage
<1>2. CASE low[p] = <<>>  BY <1>1, <1>2 DEF Fence
<1>3. CASE low[p] # <<>> /\ pg[p].level = 0
  <2>1. low[p] \in Key  BY <1>3, LeafLow
  <2> QED  BY <2>1, <1>3, KeysAreStrings DEF Fence
<1>4. CASE low[p] # <<>> /\ pg[p].level # 0  BY <1>1, <1>4 DEF Fence
<1> QED  BY <1>2, <1>3, <1>4

(* The separators of a level's pages are in the order of their fences.     *)
LEMMA FencesOrdered ==
  ASSUME EncodeOrdered, NEW pg, NEW rt, NEW low, Tree(pg, rt, low),
         NEW p \in DOMAIN pg, NEW q \in DOMAIN pg, pg[p].level = pg[q].level,
         Below(low[p], low[q])
  PROVE  Below(Fence(pg, low, p), Fence(pg, low, q))
<1>1. low[p] \in Str /\ low[q] \in Str /\ pg[p].level \in Nat  BY TreePage
<1>2. low[q] # <<>>  BY <1>1, EmptyFirst
<1>3. CASE low[p] = <<>>
  <2>1. Fence(pg, low, p) = <<>> /\ Fence(pg, low, q) # <<>> /\ Fence(pg, low, q) \in Str
    BY <1>2, <1>3, FenceIs
  <2> QED  BY <2>1, EmptyFirst
<1>4. CASE low[p] # <<>> /\ pg[p].level = 0
  <2>0. pg[q].level = 0  BY <1>4
  <2>1. low[p] \in Key /\ Fence(pg, low, p) = Encode(low[p])  BY <1>4, FenceIs
  <2>2. low[q] \in Key /\ Fence(pg, low, q) = Encode(low[q])  BY <1>2, <2>0, FenceIs
  <2>3. Below(Encode(low[p]), Encode(low[q]))  BY <2>1, <2>2 DEF EncodeOrdered
  <2> QED  BY <2>1, <2>2, <2>3
<1>5. CASE pg[p].level # 0
  <2>1. Fence(pg, low, p) = low[p] /\ Fence(pg, low, q) = low[q]  BY <1>1, <1>5, FenceIs
  <2> QED  BY <2>1
<1> QED  BY <1>3, <1>4, <1>5

LEMMA ApartIs ==
  ASSUME NEW pg, NEW rt, NEW low, Tree(pg, rt, low),
         NEW p \in DOMAIN pg, NEW q \in DOMAIN pg, p # q, pg[p].level = pg[q].level
  PROVE  Below(low[p], low[q]) \/ Below(low[q], low[p])
<1>1. Before(pg, low, p, q) \/ Before(pg, low, q, p)  BY DEF Tree, Apart
<1>2. /\ low[p] \in Str /\ pg[p].high \in Str \cup {NoKey}
      /\ pg[p].high # NoKey => Below(low[p], pg[p].high)
  BY TreePage
<1>3. /\ low[q] \in Str /\ pg[q].high \in Str \cup {NoKey}
      /\ pg[q].high # NoKey => Below(low[q], pg[q].high)
  BY TreePage
<1>4. CASE Before(pg, low, p, q)
  <2>1. pg[p].high \in Str /\ Below(low[p], pg[p].high) /\ ~Below(low[q], pg[p].high)
    BY <1>2, <1>4 DEF Before
  <2> QED  BY <2>1, <1>2, <1>3, Order DEF Ordered
<1>5. CASE Before(pg, low, q, p)
  <2>1. pg[q].high \in Str /\ Below(low[q], pg[q].high) /\ ~Below(low[p], pg[q].high)
    BY <1>3, <1>5 DEF Before
  <2> QED  BY <2>1, <1>2, <1>3, Order DEF Ordered
<1> QED  BY <1>1, <1>4, <1>5

(* No two pages of a level have the same separator. *)
LEMMA FencesDiffer ==
  ASSUME EncodeOrdered, NEW pg, NEW rt, NEW low, Tree(pg, rt, low),
         NEW p \in DOMAIN pg, NEW q \in DOMAIN pg, pg[p].level = pg[q].level,
         Fence(pg, low, p) = Fence(pg, low, q)
  PROVE  p = q
<1> SUFFICES ASSUME p # q PROVE FALSE  OBVIOUS
<1>1. Below(low[p], low[q]) \/ Below(low[q], low[p])  BY ApartIs
<1>2. \/ Below(Fence(pg, low, p), Fence(pg, low, q))
      \/ Below(Fence(pg, low, q), Fence(pg, low, p))
  BY <1>1, FencesOrdered
<1>3. Fence(pg, low, p) \in Str  BY FenceIs
<1> QED  BY <1>2, <1>3, Irreflexive

LEMMA RootIsFirst ==
  ASSUME NEW pg, NEW rt, NEW low, Tree(pg, rt, low)
  PROVE  rt \in DOMAIN pg /\ low[rt] = <<>> /\ Fence(pg, low, rt) = <<>>
<1>1. rt \in DOMAIN pg  BY DEF Tree, Topped
<1>2. rt # NoPage
  <2>1. PICK n \in Nat : DOMAIN pg = 0 .. n - 1  BY DEF Tree, Pool
  <2> QED  BY <2>1, <1>1 DEF NoPage
<1>3. low[rt] = <<>>
  <2> SUFFICES ASSUME low[rt] # <<>> PROVE FALSE  OBVIOUS
  <2>1. PICK p \in DOMAIN pg : pg[p].rlink = rt  BY <1>1 DEF Tree, LowsFit
  <2> QED  BY <2>1, <1>2 DEF Tree, Linked
<1> QED  BY <1>1, <1>3 DEF Fence

-----------------------------------------------------------------------------
(* The steps that change pages keep the tree. *)

(* Old pages keep their levels and low fences, whatever else changes.      *)
Grown(pg2, low2, pg, low) ==
  /\ DOMAIN pg \subseteq DOMAIN pg2
  /\ \A p \in DOMAIN pg : pg2[p].level = pg[p].level /\ low2[p] = low[p]

LEMMA FenceKept ==
  ASSUME NEW pg, NEW low, NEW pg2, NEW low2, Grown(pg2, low2, pg, low), NEW p \in DOMAIN pg
  PROVE  Fence(pg2, low2, p) = Fence(pg, low, p)
BY DEF Grown, Fence

LEMMA EntryKept ==
  ASSUME NEW pg, NEW low, NEW pg2, NEW low2, Grown(pg2, low2, pg, low),
         NEW level, NEW x, NEW r, EntryOK(pg, low, level, x, r)
  PROVE  EntryOK(pg2, low2, level, x, r)
<1>1. CASE level = 0  BY <1>1 DEF EntryOK
<1>2. CASE level # 0
  <2>1. r \in DOMAIN pg /\ pg[r].level = level - 1 /\ x = Fence(pg, low, r)
    BY <1>2 DEF EntryOK
  <2>2. Fence(pg2, low2, r) = Fence(pg, low, r)  BY <2>1, FenceKept
  <2> QED  BY <1>2, <2>1, <2>2 DEF EntryOK, Grown
<1> QED  BY <1>1, <1>2

(* A page is written that has the fences it had. *)
LEMMA WriteKeeps ==
  ASSUME NEW pg, NEW rt, NEW low, Tree(pg, rt, low), NEW p \in DOMAIN pg, NEW page,
         NodeOK(page, low[p]), SameFences(page, pg[p]),
         \A x, r : Has(page, x, r) => EntryOK(pg, low, pg[p].level, x, r),
         NEW pg2, pg2 = [pg EXCEPT ![p] = page]
  PROVE  Tree(pg2, rt, low) /\ Grown(pg2, low, pg, low)
<1>1. /\ DOMAIN pg2 = DOMAIN pg /\ pg2[p] = page
      /\ \A q \in DOMAIN pg : q # p => pg2[q] = pg[q]
  OBVIOUS
<1>2. \A q \in DOMAIN pg : /\ pg2[q].level = pg[q].level /\ pg2[q].high = pg[q].high
                           /\ pg2[q].rlink = pg[q].rlink
  BY <1>1 DEF SameFences
<1>3. Grown(pg2, low, pg, low)  BY <1>1, <1>2 DEF Grown
<1>4. Pool(pg2)  BY <1>1 DEF Tree, Pool
<1>5. LowsFit(pg2, low)  BY ONLY Tree(pg, rt, low), <1>1, <1>2 DEF Tree, LowsFit
<1>6. Pages(pg2, low)  BY <1>1 DEF Tree, Pages
<1>7. Linked(pg2, rt)
  <2>1. \A q \in DOMAIN pg : pg[q].rlink # NoPage => pg[q].rlink \in DOMAIN pg
    BY DEF Tree, Linked
  <2> QED  BY ONLY Tree(pg, rt, low), <1>1, <1>2, <2>1 DEF Tree, Linked
<1>8. Topped(pg2, rt)  BY ONLY Tree(pg, rt, low), <1>1, <1>2 DEF Tree, Topped
<1>9. EntriesOK(pg2, low)
  <2>1. ASSUME NEW q \in DOMAIN pg, NEW x, NEW r, Has(pg2[q], x, r)
        PROVE  EntryOK(pg, low, pg[q].level, x, r)
    <3>1. CASE q = p  BY <3>1, <2>1, <1>1
    <3>2. CASE q # p  BY <3>2, <2>1, <1>1 DEF Tree, EntriesOK
    <3> QED  BY <3>1, <3>2
  <2>2. ASSUME NEW q \in DOMAIN pg, NEW x, NEW r, Has(pg2[q], x, r)
        PROVE  EntryOK(pg2, low, pg2[q].level, x, r)
    BY <2>1, <2>2, <1>2, <1>3, EntryKept
  <2> QED  BY <2>2, <1>1 DEF EntriesOK
<1>10. HighsAreKeys(pg2)  BY ONLY Tree(pg, rt, low), <1>1, <1>2 DEF Tree, HighsAreKeys
<1>11. Apart(pg2, low)  BY ONLY Tree(pg, rt, low), <1>1, <1>2 DEF Tree, Apart, Before
<1> QED  BY <1>3, <1>4, <1>5, <1>6, <1>7, <1>8, <1>9, <1>10, <1>11 DEF Tree

(* A page is split: its upper half goes to a new page. *)
WithNew(low, new, sep) == [q \in DOMAIN low \cup {new} |-> IF q = new THEN sep ELSE low[q]]

LEMMA SplitKeeps ==
  ASSUME NEW pg, NEW rt, NEW low, Tree(pg, rt, low), NEW p \in DOMAIN pg,
         NEW new, new \notin DOMAIN pg, new # NoPage,
         NEW h, NEW k, NEW ref, SplitInto(h, pg[p], low[p], new, k, ref),
         EntryOK(pg, low, pg[p].level, k, ref),
         NEW pg2, pg2 = [q \in DOMAIN pg \cup {new} |->
                           IF q = new THEN h.right ELSE IF q = p THEN h.left ELSE pg[q]],
         Pool(pg2)
  PROVE  /\ Tree(pg2, rt, WithNew(low, new, h.sep))
         /\ Grown(pg2, WithNew(low, new, h.sep), pg, low)
<1> DEFINE sep == h.sep
           low2 == WithNew(low, new, sep)
<1>0. p # new  OBVIOUS
<1>1. /\ sep \in Str /\ Below(low[p], sep) /\ (pg[p].high # NoKey => Below(sep, pg[p].high))
      /\ \E i \in DOMAIN pg[p].slots : KeyAt(pg[p], i) = sep
      /\ NodeOK(h.left, low[p]) /\ NodeOK(h.right, sep)
      /\ h.left.level = pg[p].level /\ h.right.level = pg[p].level
      /\ h.left.high = sep /\ h.right.high = pg[p].high
      /\ h.left.rlink = new /\ h.right.rlink = pg[p].rlink
      /\ \A x, r : /\ Has(h.left, x, r) => Has(pg[p], x, r) \/ (x = k /\ r = ref)
                   /\ Has(h.right, x, r) => Has(pg[p], x, r) \/ (x = k /\ r = ref)
  BY DEF SplitInto
<1>2. /\ DOMAIN pg2 = DOMAIN pg \cup {new} /\ pg2[p] = h.left /\ pg2[new] = h.right
      /\ \A q \in DOMAIN pg : q # p => pg2[q] = pg[q]
  OBVIOUS
<1>3. /\ DOMAIN low = DOMAIN pg /\ low \in [DOMAIN pg -> Str]  BY DEF Tree, LowsFit
<1> HIDE DEF sep
<1>4. /\ low2 \in [DOMAIN pg2 -> Str] /\ low2[new] = sep
      /\ \A q \in DOMAIN pg : low2[q] = low[q]
  BY <1>1, <1>2, <1>3 DEF WithNew
<1> HIDE DEF low2
<1>5. \A q \in DOMAIN pg : pg2[q].level = pg[q].level  BY <1>1, <1>2
<1>6. Grown(pg2, low2, pg, low)  BY <1>2, <1>4, <1>5 DEF Grown
<1>7. \A q \in DOMAIN pg : pg[q].rlink # NoPage =>
        /\ pg[q].rlink \in DOMAIN pg /\ pg[q].rlink # rt
        /\ pg[pg[q].rlink].level = pg[q].level /\ low[pg[q].rlink] = pg[q].high
        /\ pg[q].rlink # new
  BY DEF Tree, Linked, LowsFit
<1>8. \A q, s \in DOMAIN pg : pg[q].rlink = pg[s].rlink /\ pg[q].rlink # NoPage => q = s
  BY DEF Tree, Linked
<1>9. /\ \A q \in DOMAIN pg : q # p => pg2[q].rlink = pg[q].rlink /\ pg2[q].high = pg[q].high
      /\ pg2[p].rlink = new /\ pg2[new].rlink = pg[p].rlink
      /\ pg2[p].high = sep /\ pg2[new].high = pg[p].high
      /\ pg2[new].level = pg[p].level
  BY <1>1, <1>2
<1>10. LowsFit(pg2, low2)
  <2>1. ASSUME NEW q \in DOMAIN pg2, pg2[q].rlink # NoPage
        PROVE  low2[pg2[q].rlink] = pg2[q].high
    <3>1. CASE q = p  BY ONLY <3>1, <1>4, <1>9
    <3>2. CASE q = new
      <4>1. pg[p].rlink # NoPage  BY ONLY <3>2, <2>1, <1>9
      <4>2. pg[p].rlink \in DOMAIN pg /\ low[pg[p].rlink] = pg[p].high  BY <4>1, <1>7
      <4> QED  BY ONLY <3>2, <4>2, <1>4, <1>9
    <3>3. CASE q \in DOMAIN pg /\ q # p
      <4>1. pg2[q].rlink = pg[q].rlink /\ pg2[q].high = pg[q].high  BY ONLY <3>3, <1>9
      <4>2. pg[q].rlink \in DOMAIN pg /\ low[pg[q].rlink] = pg[q].high
        BY ONLY <3>3, <4>1, <2>1, <1>7
      <4> QED  BY ONLY <4>1, <4>2, <1>4
    <3> QED  BY ONLY <2>1, <3>1, <3>2, <3>3, <1>2
  <2>2. ASSUME NEW q \in DOMAIN pg2, low2[q] # <<>>
        PROVE  \E s \in DOMAIN pg2 : pg2[s].rlink = q
    <3>1. CASE q = new
      <4>1. p \in DOMAIN pg2  BY <1>2
      <4> QED  BY ONLY <3>1, <4>1, <1>9
    <3>2. CASE q \in DOMAIN pg
      <4>1. low[q] # <<>>  BY ONLY <3>2, <2>2, <1>4
      <4>2. PICK s \in DOMAIN pg : pg[s].rlink = q  BY <3>2, <4>1 DEF Tree, LowsFit
      <4>3. CASE s = p  BY ONLY <4>2, <4>3, <1>2, <1>9
      <4>4. CASE s # p  BY ONLY <4>2, <4>4, <1>2, <1>9
      <4> QED  BY <4>3, <4>4
    <3> QED  BY ONLY <2>2, <3>1, <3>2, <1>2
  <2> QED  BY ONLY <2>1, <2>2, <1>4 DEF LowsFit
<1>11. Pages(pg2, low2)
  <2>1. ASSUME NEW q \in DOMAIN pg2  PROVE NodeOK(pg2[q], low2[q])
    <3>1. CASE q = p  BY ONLY <3>1, <1>1, <1>2, <1>4, p \in DOMAIN pg
    <3>2. CASE q = new  BY ONLY <3>2, <1>1, <1>2, <1>4
    <3>3. CASE q \in DOMAIN pg /\ q # p
      <4>1. NodeOK(pg[q], low[q])  BY <3>3 DEF Tree, Pages
      <4> QED  BY ONLY <4>1, <3>3, <1>2, <1>4
    <3> QED  BY ONLY <2>1, <3>1, <3>2, <3>3, <1>2
  <2> QED  BY ONLY <2>1 DEF Pages
<1>12. Linked(pg2, rt)
  <2>0. rt \in DOMAIN pg /\ rt # new  BY DEF Tree, Topped
  <2>1. ASSUME NEW q \in DOMAIN pg2, pg2[q].rlink # NoPage
        PROVE  /\ pg2[q].rlink \in DOMAIN pg2 /\ pg2[q].rlink # rt
               /\ pg2[pg2[q].rlink].level = pg2[q].level
    <3>1. CASE q = p  BY ONLY <3>1, <2>0, <1>2, <1>5, <1>9, p \in DOMAIN pg
    <3>2. CASE q = new
      <4>1. pg[p].rlink # NoPage  BY ONLY <3>2, <2>1, <1>9
      <4>2. /\ pg[p].rlink \in DOMAIN pg /\ pg[p].rlink # rt
            /\ pg[pg[p].rlink].level = pg[p].level
        BY <4>1, <1>7
      <4> QED  BY ONLY <3>2, <4>2, <1>2, <1>5, <1>9
    <3>3. CASE q \in DOMAIN pg /\ q # p
      <4>1. pg2[q].rlink = pg[q].rlink /\ pg2[q].level = pg[q].level
        BY ONLY <3>3, <1>5, <1>9
      <4>2. /\ pg[q].rlink \in DOMAIN pg /\ pg[q].rlink # rt
            /\ pg[pg[q].rlink].level = pg[q].level
        BY ONLY <3>3, <4>1, <2>1, <1>7
      <4> QED  BY ONLY <4>1, <4>2, <1>2, <1>5
    <3> QED  BY ONLY <2>1, <3>1, <3>2, <3>3, <1>2
  <2>2. ASSUME NEW q \in DOMAIN pg2, NEW s \in DOMAIN pg2, pg2[q].rlink = pg2[s].rlink,
               pg2[q].rlink # NoPage
        PROVE  q = s
    <3> DEFINE Old(x) == IF x = new THEN p ELSE x
    <3>1. \A x \in DOMAIN pg2 : x # p =>
            Old(x) \in DOMAIN pg /\ pg2[x].rlink = pg[Old(x)].rlink
      BY ONLY <1>2, <1>9, p \in DOMAIN pg
    <3>2. \A x \in DOMAIN pg2 : x # p /\ pg2[x].rlink # NoPage => pg2[x].rlink # new
      BY ONLY <3>1, <1>7
    <3>3. q = p <=> s = p  BY ONLY <3>2, <2>2, <1>9
    <3>4. CASE q = p  BY <3>3, <3>4
    <3>5. CASE q # p
      <4>1. Old(q) = Old(s)  BY ONLY <2>2, <3>1, <3>3, <3>5, <1>8
      <4> QED  BY ONLY <2>2, <3>3, <3>5, <4>1
    <3> QED  BY <3>4, <3>5
  <2> QED  BY ONLY <2>1, <2>2 DEF Linked
<1>13. Topped(pg2, rt)
  <2>1. rt \in DOMAIN pg /\ \A q \in DOMAIN pg : pg[q].level <= pg[rt].level
    BY DEF Tree, Topped
  <2> QED  BY ONLY <2>1, <1>2, <1>5, <1>9, p \in DOMAIN pg DEF Topped
<1>14. EntriesOK(pg2, low2)
  <2>1. ASSUME NEW q \in DOMAIN pg2, NEW x, NEW r, Has(pg2[q], x, r)
        PROVE  EntryOK(pg, low, pg2[q].level, x, r)
    <3>1. CASE q = p \/ q = new
      <4>1. Has(pg[p], x, r) \/ (x = k /\ r = ref)  BY ONLY <2>1, <3>1, <1>1, <1>2
      <4>2. pg2[q].level = pg[p].level  BY ONLY <3>1, <1>5, <1>9, p \in DOMAIN pg
      <4>3. Has(pg[p], x, r) => EntryOK(pg, low, pg[p].level, x, r)
        BY DEF Tree, EntriesOK
      <4> QED  BY <4>1, <4>2, <4>3
    <3>2. CASE q \in DOMAIN pg /\ q # p
      <4>1. EntryOK(pg, low, pg[q].level, x, r)  BY <2>1, <3>2, <1>2 DEF Tree, EntriesOK
      <4> QED  BY ONLY <3>2, <4>1, <1>5
    <3> QED  BY ONLY <2>1, <3>1, <3>2, <1>2
  <2>2. ASSUME NEW q \in DOMAIN pg2, NEW x, NEW r, Has(pg2[q], x, r)
        PROVE  EntryOK(pg2, low2, pg2[q].level, x, r)
    BY <2>1, <2>2, <1>6, EntryKept
  <2> QED  BY ONLY <2>2 DEF EntriesOK
<1>15. HighsAreKeys(pg2)
  <2>1. pg[p].level = 0 => sep \in Key
    <3> SUFFICES ASSUME pg[p].level = 0 PROVE sep \in Key  OBVIOUS
    <3>1. PICK i \in DOMAIN pg[p].slots : KeyAt(pg[p], i) = sep  BY <1>1
    <3>2. Has(pg[p], sep, pg[p].slots[i].ref)  BY <3>1 DEF Has
    <3>3. EntryOK(pg, low, 0, sep, pg[p].slots[i].ref)  BY <3>2 DEF Tree, EntriesOK
    <3> QED  BY <3>3 DEF EntryOK
  <2>2. \A q \in DOMAIN pg : pg[q].level = 0 => pg[q].high \in Key \cup {NoKey}
    BY DEF Tree, HighsAreKeys
  <2>3. ASSUME NEW q \in DOMAIN pg2, pg2[q].level = 0
        PROVE  pg2[q].high \in Key \cup {NoKey}
    <3>1. CASE q = p  BY ONLY <2>1, <2>3, <3>1, <1>5, <1>9, p \in DOMAIN pg
    <3>2. CASE q = new  BY ONLY <2>2, <2>3, <3>2, <1>9, p \in DOMAIN pg
    <3>3. CASE q \in DOMAIN pg /\ q # p  BY ONLY <2>2, <2>3, <3>3, <1>5, <1>9
    <3> QED  BY ONLY <2>3, <3>1, <3>2, <3>3, <1>2
  <2> QED  BY ONLY <2>3 DEF HighsAreKeys
<1>16. Apart(pg2, low2)
  <2>1. ASSUME NEW q \in DOMAIN pg, NEW s \in DOMAIN pg, q # s, pg[q].level = pg[s].level
        PROVE  Before(pg2, low2, q, s) \/ Before(pg2, low2, s, q)
    <3>1. ASSUME NEW y \in DOMAIN pg, NEW z \in DOMAIN pg, Before(pg, low, y, z)
          PROVE  Before(pg2, low2, y, z)
      <4>1. CASE y = p
        <5>1. pg[p].high # NoKey /\ ~Below(low[z], pg[p].high)  BY <3>1, <4>1 DEF Before
        <5>2. pg[p].high \in Str /\ low[z] \in Str /\ Below(sep, pg[p].high)
          BY <5>1, <1>1, <1>3, TreePage DEF sep
        <5>3. ~Below(low[z], sep)  BY <5>1, <5>2, <1>1, Order DEF Ordered
        <5>4. sep # NoKey
          <6>1. NodeOK(h.left, low[p]) /\ h.left.high = sep /\ h.left.rlink = new  BY <1>1
          <6> QED  BY <6>1 DEF NodeOK, EndsOpen
        <5> QED  BY ONLY <5>3, <5>4, <4>1, <3>1, <1>4, <1>9 DEF Before
      <4>2. CASE y # p  BY ONLY <4>2, <3>1, <1>4, <1>9 DEF Before
      <4> QED  BY <4>1, <4>2
    <3>2. Before(pg, low, q, s) \/ Before(pg, low, s, q)  BY <2>1 DEF Tree, Apart
    <3> QED  BY <3>1, <3>2
  <2>2. ASSUME NEW q \in DOMAIN pg, pg[q].level = pg[p].level
        PROVE  Before(pg2, low2, q, new) \/ Before(pg2, low2, new, q)
    <3>0. sep # NoKey
      <4>1. NodeOK(h.left, low[p]) /\ h.left.high = sep /\ h.left.rlink = new  BY <1>1
      <4> QED  BY <4>1 DEF NodeOK, EndsOpen
    <3>1. CASE q = p
      <4>1. ~Below(sep, sep)  BY <1>1, Irreflexive
      <4> QED  BY ONLY <3>0, <3>1, <4>1, <1>4, <1>9 DEF Before
    <3>2. CASE q # p
      <4>1. CASE Before(pg, low, p, q)
        <5>1. pg[p].high # NoKey /\ ~Below(low[q], pg[p].high)  BY <4>1 DEF Before
        <5> QED  BY ONLY <5>1, <1>4, <1>9, q \in DOMAIN pg DEF Before
      <4>2. CASE Before(pg, low, q, p)
        <5>1. pg[q].high # NoKey /\ ~Below(low[p], pg[q].high)  BY <4>2 DEF Before
        <5>2. pg[q].high \in Str /\ low[p] \in Str  BY <5>1, <1>3, TreePage
        <5>3. ~Below(sep, pg[q].high)  BY <5>1, <5>2, <1>1, Order DEF Ordered
        <5> QED  BY ONLY <3>2, <5>1, <5>3, <1>4, <1>9, q \in DOMAIN pg DEF Before
      <4> QED  BY <3>2, <2>2, <4>1, <4>2 DEF Tree, Apart
    <3> QED  BY <3>1, <3>2
  <2>3. ASSUME NEW q \in DOMAIN pg2, NEW s \in DOMAIN pg2, q # s, pg2[q].level = pg2[s].level
        PROVE  Before(pg2, low2, q, s) \/ Before(pg2, low2, s, q)
    <3>1. CASE q \in DOMAIN pg /\ s \in DOMAIN pg  BY <3>1, <2>1, <2>3, <1>5
    <3>2. CASE q = new /\ s \in DOMAIN pg  BY <3>2, <2>2, <2>3, <1>5, <1>9
    <3>3. CASE q \in DOMAIN pg /\ s = new  BY <3>3, <2>2, <2>3, <1>5, <1>9
    <3> QED  BY ONLY <3>1, <3>2, <3>3, <2>3, <1>2
  <2> QED  BY ONLY <2>3 DEF Apart
<1>17. Tree(pg2, rt, low2)
  BY <1>10, <1>11, <1>12, <1>13, <1>14, <1>15, <1>16 DEF Tree
<1> QED  BY <1>6, <1>17 DEF low2, sep

-----------------------------------------------------------------------------
(* The first tree, and a tree that gets a new root. *)

LEMMA KeyOf ==
  ASSUME NEW k \in Str, NEW ref \in Int
  PROVE  [key |-> k, ref |-> ref] \in Slot
<1>1. k \in Seq(Int)  BY DEF Str
<1> QED  BY <1>1 DEF Slot

LEMMA FirstPage ==
  /\ NodeOK(NewNode(0, <<>>, 0), <<>>)
  /\ \A x, r : ~Has(NewNode(0, <<>>, 0), x, r)
  /\ NewNode(0, <<>>, 0).rlink = NoPage /\ NewNode(0, <<>>, 0).high = NoKey
  /\ NewNode(0, <<>>, 0).level = 0
<1> DEFINE page == NewNode(0, <<>>, 0)
<1>1. /\ page.level = 0 /\ page.slots = <<>> /\ page.prefix = <<>> /\ page.high = NoKey
      /\ page.rlink = NoPage /\ page.llink = NoPage
  BY DEF NewNode
<1>2. page \in Node
  <2>1. <<>> \in Seq(Slot) /\ <<>> \in Seq(Int) /\ NoKey \in Seq(Int) /\ NoPage \in Int
    BY NoKeyIsKey DEF NoPage
  <2> QED  BY <2>1 DEF NewNode, Node
<1>3. <<>> \in Str /\ DOMAIN page.slots = {}  BY <1>1 DEF Str
<1> HIDE DEF page
<1>4. Strings(page)  BY <1>1, <1>2, <1>3 DEF Strings
<1>5. NodeOK(page, <<>>)
  <2>1. InOrder(page.slots)  BY <1>3 DEF InOrder
  <2>2. ~(page.level > 0 \/ <<>> # <<>>)  BY <1>1
  <2>3. StartsAt(page, <<>>)  BY ONLY <2>2 DEF StartsAt
  <2>4. EndsOpen(page, <<>>) /\ Shares(page, <<>>)
    BY <1>1 DEF EndsOpen, Shares
  <2> QED  BY <1>1, <1>3, <1>4, <2>1, <2>3, <2>4 DEF NodeOK
<1> QED  BY <1>1, <1>3, <1>5 DEF page, Has

LEMMA RootNodeIs ==
  ASSUME NEW level \in Nat, NEW sep \in Str, sep # <<>>, NEW left \in Int, NEW right \in Int
  PROVE  LET page == RootNode(level, sep, left, right) IN
         /\ NodeOK(page, <<>>) /\ page.level = level + 1
         /\ page.rlink = NoPage /\ page.high = NoKey
         /\ \A x, r : Has(page, x, r) <=> (x = <<>> /\ r = left) \/ (x = sep /\ r = right)
<1> DEFINE page == RootNode(level, sep, left, right)
           a == [key |-> <<>>, ref |-> left]
           b == [key |-> sep, ref |-> right]
           heap == ReserveSlot(ReserveSlot(0, <<>>), sep)
<1>0. <<>> \in Str  BY DEF Str
<1>1. /\ page.level = level + 1 /\ page.slots = <<a, b>> /\ page.prefix = <<>>
      /\ page.high = NoKey /\ page.rlink = NoPage /\ page.llink = NoPage
  BY DEF RootNode, NewNode
<1>2. a \in Slot /\ b \in Slot  BY <1>0, KeyOf
<1>3. heap \in Nat
  <2>1. EntryHeader \in Nat /\ Len(<<>>) = 0 /\ Len(sep) \in Nat
    BY LayoutAssumption DEF Str
  <2>2. ReserveSlot(0, <<>>) \in Nat  BY <2>1, AlignUpBounds DEF ReserveSlot
  <2> QED  BY <2>1, <2>2, AlignUpBounds DEF ReserveSlot
<1>4. page = [level |-> level + 1, slots |-> <<a, b>>, heap |-> heap, dead |-> 0,
              prefix |-> <<>>, marked |-> FALSE, high |-> NoKey,
              rlink |-> NoPage, llink |-> NoPage]
  BY DEF RootNode, NewNode
<1> HIDE DEF page, a, b, heap
<1>5. page \in Node
  <2>1. <<a, b>> \in Seq(Slot) /\ <<>> \in Seq(Int) /\ NoKey \in Seq(Int) /\ NoPage \in Int
    BY <1>2, NoKeyIsKey DEF NoPage
  <2> QED  BY <2>1, <1>3, <1>4 DEF Node
<1>6. DOMAIN page.slots = {1, 2} /\ page.slots[1] = a /\ page.slots[2] = b
  BY <1>1
<1>7. /\ page.slots[1].key = <<>> /\ page.slots[1].ref = left
      /\ page.slots[2].key = sep /\ page.slots[2].ref = right
  BY <1>6 DEF a, b
<1>8. KeyAt(page, 1) = <<>> /\ KeyAt(page, 2) = sep
  <2>1. <<>> \o <<>> = <<>> /\ <<>> \o sep = sep  BY DEF Str
  <2> QED  BY <1>1, <1>7, <2>1 DEF KeyAt
<1>9. Strings(page)  BY <1>0, <1>1, <1>5, <1>6, <1>7 DEF Strings
<1>10. Below(<<>>, sep) /\ ~Below(sep, <<>>) /\ ~Below(<<>>, <<>>)
  BY <1>0, EmptyFirst
<1>11. InOrder(page.slots)  BY <1>6, <1>7, <1>10 DEF InOrder
<1>12. \A i \in DOMAIN page.slots : Covers(page, <<>>, KeyAt(page, i))
  BY <1>1, <1>6, <1>8, <1>10 DEF Covers
<1>13. StartsAt(page, <<>>)
  <2>1. page.slots # <<>>  BY <1>6, NotEmpty
  <2> QED  BY <1>8, <2>1 DEF StartsAt
<1>14. NodeOK(page, <<>>)
  BY <1>0, <1>1, <1>9, <1>11, <1>12, <1>13 DEF NodeOK, Shares, EndsOpen
<1>15. \A x, r : Has(page, x, r) <=> (x = <<>> /\ r = left) \/ (x = sep /\ r = right)
  BY <1>6, <1>7, <1>8 DEF Has
<1> QED  BY <1>1, <1>14, <1>15 DEF page

LEMMA PoolIs ==
  ASSUME NEW pg, Pool(pg), NEW pg2, DOMAIN pg2 = DOMAIN pg \cup {Cardinality(DOMAIN pg)}
  PROVE  /\ Cardinality(DOMAIN pg) \in Nat /\ Cardinality(DOMAIN pg) \notin DOMAIN pg
         /\ Cardinality(DOMAIN pg) # NoPage
         /\ Pool(pg2) /\ NoPage \notin DOMAIN pg /\ DOMAIN pg \subseteq Nat
         /\ IsFiniteSet(DOMAIN pg)
<1>1. PICK n \in Nat : DOMAIN pg = 0 .. n - 1  BY DEF Pool
<1>2. Cardinality(DOMAIN pg) = n /\ IsFiniteSet(DOMAIN pg)
  <2>1. 0 \in Int /\ n - 1 \in Int  OBVIOUS
  <2>2. IsFiniteSet(0 .. n - 1) /\ Cardinality(0 .. n - 1) = IF 0 > n - 1 THEN 0 ELSE n - 1 - 0 + 1
    BY <2>1, FS_Interval
  <2> QED  BY <1>1, <2>2
<1>3. DOMAIN pg2 = 0 .. (n + 1) - 1  BY <1>1, <1>2
<1>4. n + 1 \in Nat  OBVIOUS
<1>5. Pool(pg2)  BY <1>3, <1>4 DEF Pool
<1> QED  BY <1>1, <1>2, <1>5 DEF NoPage

FirstLow == [p \in {0} |-> <<>>]

LEMMA FirstTree == Tree([p \in {0} |-> NewNode(0, <<>>, 0)], 0, FirstLow)
<1> DEFINE page == NewNode(0, <<>>, 0)
           pg == [p \in {0} |-> page]
<1>1. DOMAIN pg = {0} /\ pg[0] = page  OBVIOUS
<1>2. FirstLow \in [{0} -> Str] /\ FirstLow[0] = <<>>  BY DEF FirstLow, Str
<1>3. /\ NodeOK(page, <<>>) /\ \A x, r : ~Has(page, x, r)
      /\ page.rlink = NoPage /\ page.high = NoKey /\ page.level = 0
  BY FirstPage
<1> HIDE DEF page, pg
<1>4. Pool(pg)
  <2>1. {0} = 0 .. 1 - 1 /\ 1 \in Nat  OBVIOUS
  <2> QED  BY <1>1, <2>1 DEF Pool
<1>5. LowsFit(pg, FirstLow)  BY <1>1, <1>2, <1>3 DEF LowsFit
<1>6. Pages(pg, FirstLow)  BY <1>1, <1>2, <1>3 DEF Pages
<1>7. Linked(pg, 0)  BY <1>1, <1>3 DEF Linked
<1>8. Topped(pg, 0)  BY <1>1, <1>3 DEF Topped
<1>9. EntriesOK(pg, FirstLow)  BY <1>1, <1>3 DEF EntriesOK
<1>10. HighsAreKeys(pg)  BY <1>1, <1>3 DEF HighsAreKeys
<1>11. Apart(pg, FirstLow)  BY <1>1 DEF Apart
<1>12. Tree(pg, 0, FirstLow)
  BY <1>4, <1>5, <1>6, <1>7, <1>8, <1>9, <1>10, <1>11 DEF Tree
<1> QED  BY <1>12 DEF pg, page

AfterRaise(pg, new, page) ==
  [q \in DOMAIN pg \cup {new} |-> IF q = new THEN page ELSE pg[q]]

(* A new root, over the old one and a page on its level. *)
NewRoot(pg, rt, low, child, new, page) ==
  /\ Tree(pg, rt, low) /\ child \in DOMAIN pg
  /\ pg[child].level = pg[rt].level /\ Fence(pg, low, child) # <<>>
  /\ new \notin DOMAIN pg /\ new # NoPage
  /\ page = RootNode(pg[rt].level, Fence(pg, low, child), rt, child)
  /\ Pool(AfterRaise(pg, new, page))

Raised(pg2, pg, rt, low, child, new, page) ==
  /\ Tree(pg2, new, WithNew(low, new, <<>>))
  /\ Grown(pg2, WithNew(low, new, <<>>), pg, low)
  /\ \A x, r : Has(page, x, r) => r \in {rt, child}

LEMMA RaiseKeeps ==
  ASSUME NEW pg, NEW rt, NEW low, NEW child, NEW new, NEW page,
         NewRoot(pg, rt, low, child, new, page)
  PROVE  Raised(AfterRaise(pg, new, page), pg, rt, low, child, new, page)
<1> DEFINE pg2 == AfterRaise(pg, new, page)
<1>0. /\ Tree(pg, rt, low) /\ child \in DOMAIN pg
      /\ pg[child].level = pg[rt].level /\ Fence(pg, low, child) # <<>>
      /\ new \notin DOMAIN pg /\ new # NoPage
      /\ page = RootNode(pg[rt].level, Fence(pg, low, child), rt, child)
      /\ Pool(pg2)
  BY DEF NewRoot
<1> HIDE DEF pg2
<1> DEFINE low2 == WithNew(low, new, <<>>)
           level == pg[rt].level
           sep == Fence(pg, low, child)
<1>1. rt \in DOMAIN pg /\ Fence(pg, low, rt) = <<>> /\ low[rt] = <<>>  BY <1>0, RootIsFirst
<1>2. level \in Nat /\ sep \in Str  BY <1>0, <1>1, TreePage, FenceIs
<1> HIDE DEF sep
<1>3. rt \in Int /\ child \in Int
  <2>1. PICK n \in Nat : DOMAIN pg = 0 .. n - 1  BY <1>0 DEF Tree, Pool
  <2> QED  BY <1>0, <1>1, <2>1
<1>4. /\ NodeOK(page, <<>>) /\ page.level = level + 1
      /\ page.rlink = NoPage /\ page.high = NoKey
      /\ \A x, r : Has(page, x, r) <=> (x = <<>> /\ r = rt) \/ (x = sep /\ r = child)
  <2>1. page = RootNode(level, sep, rt, child) /\ sep # <<>>  BY <1>0 DEF sep
  <2> HIDE DEF level
  <2> QED  BY <1>2, <1>3, <2>1, RootNodeIs
<1>5. /\ DOMAIN pg2 = DOMAIN pg \cup {new} /\ pg2[new] = page
      /\ \A q \in DOMAIN pg : pg2[q] = pg[q]
  BY <1>0 DEF AfterRaise, pg2
<1>6. low \in [DOMAIN pg -> Str] /\ DOMAIN low = DOMAIN pg  BY <1>0 DEF Tree, LowsFit
<1>7. <<>> \in Str  BY DEF Str
<1>8. /\ low2 \in [DOMAIN pg2 -> Str] /\ low2[new] = <<>>
      /\ \A q \in DOMAIN pg : low2[q] = low[q]
  BY <1>0, <1>5, <1>6, <1>7 DEF WithNew
<1> HIDE DEF low2
<1>9. Grown(pg2, low2, pg, low)  BY <1>5, <1>8 DEF Grown
<1>10. \A q \in DOMAIN pg : pg[q].rlink # NoPage =>
         /\ pg[q].rlink \in DOMAIN pg /\ pg[q].rlink # new
         /\ pg[pg[q].rlink].level = pg[q].level /\ low[pg[q].rlink] = pg[q].high
  BY <1>0 DEF Tree, Linked, LowsFit
<1>11. LowsFit(pg2, low2)
  <2>1. ASSUME NEW q \in DOMAIN pg2, pg2[q].rlink # NoPage
        PROVE  low2[pg2[q].rlink] = pg2[q].high
    BY ONLY <2>1, <1>4, <1>5, <1>8, <1>10
  <2>2. ASSUME NEW q \in DOMAIN pg2, low2[q] # <<>>
        PROVE  \E s \in DOMAIN pg2 : pg2[s].rlink = q
    <3>1. q \in DOMAIN pg /\ low[q] # <<>>  BY ONLY <2>2, <1>5, <1>8
    <3>2. PICK s \in DOMAIN pg : pg[s].rlink = q  BY <1>0, <3>1 DEF Tree, LowsFit
    <3> QED  BY ONLY <3>2, <1>5
  <2> QED  BY ONLY <2>1, <2>2, <1>8 DEF LowsFit
<1>12. Pages(pg2, low2)
  <2>1. \A q \in DOMAIN pg : NodeOK(pg[q], low[q])  BY <1>0 DEF Tree, Pages
  <2> QED  BY ONLY <2>1, <1>4, <1>5, <1>8 DEF Pages
<1>13. Linked(pg2, new)
  <2>1. \A q, s \in DOMAIN pg : pg[q].rlink = pg[s].rlink /\ pg[q].rlink # NoPage => q = s
    BY <1>0 DEF Tree, Linked
  <2> QED  BY ONLY <2>1, <1>4, <1>5, <1>10 DEF Linked
<1>14. \A q \in DOMAIN pg : pg[q].level <= level /\ pg[q].level \in Nat
  <2>1. \A q \in DOMAIN pg : pg[q].level \in Nat  BY <1>0, TreePage
  <2> QED  BY <1>0, <2>1 DEF Tree, Topped
<1>15. Topped(pg2, new)  BY ONLY <1>2, <1>4, <1>5, <1>14 DEF Topped
<1>16. EntriesOK(pg2, low2)
  <2>1. ASSUME NEW x, NEW r, Has(page, x, r)  PROVE EntryOK(pg, low, level + 1, x, r)
    <3>1. level + 1 # 0 /\ level + 1 - 1 = level  BY <1>2
    <3>2. /\ rt \in DOMAIN pg /\ pg[rt].level = level /\ Fence(pg, low, rt) = <<>>
          /\ child \in DOMAIN pg /\ pg[child].level = level /\ Fence(pg, low, child) = sep
      BY <1>0, <1>1 DEF sep
    <3>4. level \in Nat  BY <1>2
    <3> HIDE DEF level
    <3>3. (x = <<>> /\ r = rt) \/ (x = sep /\ r = child)  BY ONLY <2>1, <1>4
    <3> QED  BY ONLY <3>1, <3>2, <3>3, <3>4 DEF EntryOK
  <2>2. ASSUME NEW q \in DOMAIN pg, NEW x, NEW r, Has(pg[q], x, r)
        PROVE  EntryOK(pg, low, pg[q].level, x, r)
    BY <1>0, <2>2 DEF Tree, EntriesOK
  <2>3. ASSUME NEW q \in DOMAIN pg2, NEW x, NEW r, Has(pg2[q], x, r)
        PROVE  EntryOK(pg, low, pg2[q].level, x, r)
    BY ONLY <2>1, <2>2, <2>3, <1>4, <1>5
  <2>4. ASSUME NEW q \in DOMAIN pg2, NEW x, NEW r, Has(pg2[q], x, r)
        PROVE  EntryOK(pg2, low2, pg2[q].level, x, r)
    <3>1. EntryOK(pg, low, pg2[q].level, x, r)  BY ONLY <2>3, <2>4
    <3> QED  BY ONLY <3>1, <1>9, EntryKept
  <2> QED  BY ONLY <2>4 DEF EntriesOK
<1>17. HighsAreKeys(pg2)
  <2>1. \A q \in DOMAIN pg : pg[q].level = 0 => pg[q].high \in Key \cup {NoKey}
    BY <1>0 DEF Tree, HighsAreKeys
  <2> QED  BY ONLY <2>1, <1>4, <1>5 DEF HighsAreKeys
<1>18. Apart(pg2, low2)
  <2>1. \A q, s \in DOMAIN pg :
          q = s \/ pg[q].level # pg[s].level \/ Before(pg, low, q, s) \/ Before(pg, low, s, q)
    BY <1>0 DEF Tree, Apart
  <2>2. \A q, s \in DOMAIN pg : Before(pg, low, q, s) => Before(pg2, low2, q, s)
    BY ONLY <1>5, <1>8 DEF Before
  <2>3. \A q \in DOMAIN pg : pg2[q].level # pg2[new].level
    BY ONLY <1>2, <1>4, <1>5, <1>14
  <2> QED  BY ONLY <2>1, <2>2, <2>3, <1>5 DEF Apart
<1>19. Tree(pg2, new, low2)
  BY <1>0, <1>11, <1>12, <1>13, <1>15, <1>16, <1>17, <1>18 DEF Tree
<1> QED  BY <1>4, <1>9, <1>19 DEF low2, pg2, Raised

-----------------------------------------------------------------------------
(* Searches end: every link and every child leads to a later page.         *)

Later(pg, low, p) ==
  {x \in DOMAIN pg : \/ pg[x].level < pg[p].level
                     \/ pg[x].level = pg[p].level /\ Below(low[p], low[x])}
Far(pg, low, p) == Cardinality(Later(pg, low, p))

LEMMA NoPageIsNone ==
  ASSUME NEW pg, NEW rt, NEW low, Tree(pg, rt, low)
  PROVE  NoPage \notin DOMAIN pg /\ IsFiniteSet(DOMAIN pg) /\ DOMAIN pg \subseteq Int
<1>1. PICK n \in Nat : DOMAIN pg = 0 .. n - 1  BY DEF Tree, Pool
<1>2. IsFiniteSet(0 .. n - 1)
  <2>1. 0 \in Int /\ n - 1 \in Int  OBVIOUS
  <2> QED  BY <2>1, FS_Interval
<1> QED  BY <1>1, <1>2 DEF NoPage

LEMMA LaterIs ==
  ASSUME NEW pg, NEW low, NEW p, NEW x \in Later(pg, low, p)
  PROVE  /\ x \in DOMAIN pg
         /\ pg[x].level < pg[p].level \/ (pg[x].level = pg[p].level /\ Below(low[p], low[x]))
BY DEF Later

LEMMA FarFalls ==
  ASSUME NEW pg, NEW rt, NEW low, Tree(pg, rt, low),
         NEW p \in DOMAIN pg, NEW q \in Later(pg, low, p)
  PROVE  Far(pg, low, p) \in Nat /\ Far(pg, low, q) \in Nat /\ Far(pg, low, q) < Far(pg, low, p)
<1> DEFINE A == Later(pg, low, p)
           B == Later(pg, low, q)
<1>1. IsFiniteSet(DOMAIN pg)  BY NoPageIsNone
<1>2. A \in SUBSET DOMAIN pg /\ q \in DOMAIN pg  BY DEF Later
<1>3. IsFiniteSet(A)  BY <1>1, <1>2, FS_Subset
<1>4. B \in SUBSET A
  <2>1. ASSUME NEW x \in B  PROVE x \in A
    <3>1. x \in DOMAIN pg  BY DEF Later
    <3>2. low[p] \in Str /\ low[q] \in Str /\ low[x] \in Str  BY <1>2, <3>1, TreePage
    <3>3. pg[p].level \in Nat /\ pg[q].level \in Nat /\ pg[x].level \in Nat
      BY <1>2, <3>1, TreePage
    <3>4. Below(low[p], low[q]) /\ Below(low[q], low[x]) => Below(low[p], low[x])
      BY <3>2, Transitive
    <3>5. pg[q].level < pg[p].level \/ (pg[q].level = pg[p].level /\ Below(low[p], low[q]))
      BY LaterIs
    <3>6. pg[x].level < pg[q].level \/ (pg[x].level = pg[q].level /\ Below(low[q], low[x]))
      BY <2>1, LaterIs
    <3>7. pg[x].level < pg[p].level \/ (pg[x].level = pg[p].level /\ Below(low[p], low[x]))
      BY ONLY <3>3, <3>4, <3>5, <3>6
    <3> QED  BY <3>1, <3>7 DEF Later
  <2> QED  BY <2>1
<1>5. q \notin B
  <2>1. low[q] \in Str /\ pg[q].level \in Nat  BY <1>2, TreePage
  <2>2. ~Below(low[q], low[q])  BY <2>1, Irreflexive
  <2> QED  BY <2>1, <2>2 DEF Later
<1>6. q \in A /\ A # B  BY <1>5
<1> HIDE DEF A, B
<1>7. IsFiniteSet(B) /\ Cardinality(B) <= Cardinality(A) /\ Cardinality(B) # Cardinality(A)
  BY <1>3, <1>4, <1>6, FS_Subset
<1>8. Cardinality(A) \in Nat /\ Cardinality(B) \in Nat  BY <1>3, <1>7, FS_CardinalityType
<1> QED  BY <1>7, <1>8 DEF A, B, Far

LEMMA FarIs ==
  ASSUME NEW pg, NEW rt, NEW low, Tree(pg, rt, low), NEW p \in DOMAIN pg
  PROVE  Far(pg, low, p) \in Nat
<1>1. Later(pg, low, p) \in SUBSET DOMAIN pg  BY DEF Later
<1>2. IsFiniteSet(Later(pg, low, p))  BY <1>1, NoPageIsNone, FS_Subset
<1> QED  BY <1>2, FS_CardinalityType DEF Far

LEMMA LinkIs ==
  ASSUME NEW pg, NEW rt, NEW low, Tree(pg, rt, low), NEW p \in DOMAIN pg, pg[p].high # NoKey
  PROVE  /\ pg[p].rlink \in DOMAIN pg /\ pg[pg[p].rlink].level = pg[p].level
         /\ low[pg[p].rlink] = pg[p].high /\ Below(low[p], low[pg[p].rlink])
         /\ pg[p].rlink \in Later(pg, low, p)
<1>1. pg[p].rlink # NoPage
  <2>1. NodeOK(pg[p], low[p])  BY TreePage
  <2> QED  BY <2>1 DEF NodeOK, EndsOpen
<1>2. /\ pg[p].rlink \in DOMAIN pg /\ pg[pg[p].rlink].level = pg[p].level
      /\ low[pg[p].rlink] = pg[p].high
  BY <1>1 DEF Tree, Linked, LowsFit
<1>3. Below(low[p], pg[p].high)  BY TreePage
<1> QED  BY <1>2, <1>3 DEF Later

(* The child a search takes: Get's. *)
LEMMA GetIs ==
  ASSUME NEW pg, NEW rt, NEW low, Tree(pg, rt, low), NEW p \in DOMAIN pg, pg[p].level > 0,
         NEW k \in Str, ~TooShort(pg[p], k)
  PROVE  InterGet(pg[p], k) = NoPage \/ InterGet(pg[p], k) \in Later(pg, low, p)
<1> DEFINE page == pg[p]
           s == RemoveKeyPrefix(page, k)
           n == UpperIdx(page.slots, s)
<1>1. page \in Node /\ Strings(page) /\ InOrder(page.slots) /\ page.level \in Nat
  BY TreePage DEF NodeOK
<1>2. page.slots \in Seq(Slot) /\ DOMAIN page.slots = 1 .. Len(page.slots)
      /\ Len(page.slots) \in Nat
  BY <1>1, PageParts
<1>3. \A i \in DOMAIN page.slots : page.slots[i].key \in Str  BY <1>1 DEF Strings
<1>4. s \in Str
  <2>1. page.prefix \in Str /\ Len(page.prefix) \in Nat /\ Len(k) \in Nat
        /\ Len(page.prefix) <= Len(k)
    BY <1>1 DEF Strings, TooShort, Str
  <2>2. SubSeq(k, Len(page.prefix) + 1, Len(k)) \in Seq(Nat)  BY <2>1, PartIs DEF Str
  <2> QED  BY <2>2 DEF Str, RemoveKeyPrefix
<1> HIDE DEF s
<1>5. n \in 0 .. Len(page.slots)  BY <1>1, <1>2, <1>3, <1>4, UpperIdxIs
<1>6. InterGet(page, k) = IF n = 0 THEN NoPage ELSE page.slots[n].ref
  BY DEF InterGet, s
<1> HIDE DEF n, page
<1>7. CASE n # 0
  <2>1. n \in DOMAIN page.slots  BY <1>2, <1>5, <1>7
  <2>2. Has(page, KeyAt(page, n), page.slots[n].ref)  BY <2>1 DEF Has
  <2>3. EntryOK(pg, low, page.level, KeyAt(page, n), page.slots[n].ref)
    BY <2>2 DEF Tree, EntriesOK, page
  <2>4. page.level # 0 /\ page.level > 0  BY <1>1 DEF page
  <2>5. page.slots[n].ref \in DOMAIN pg /\ pg[page.slots[n].ref].level = page.level - 1
    BY <2>3, <2>4 DEF EntryOK
  <2>6. pg[page.slots[n].ref].level < page.level  BY <2>5, <1>1
  <2> QED  BY <2>5, <2>6, <1>6, <1>7 DEF Later, page
<1> QED  BY <1>6, <1>7 DEF page

-----------------------------------------------------------------------------
(* GoRight and Descent, as functions of the pages. *)

RightsOf(pg, k) ==
  CHOOSE f : f = [q \in DOMAIN pg |-> IF HasSplit(pg[q], k) THEN f[pg[q].rlink] ELSE q]

DescentsOf(pg, k, drop) ==
  CHOOSE f : f = [q \in DOMAIN pg \cup {NoPage} |->
                    IF q = NoPage \/ pg[q].level <= drop THEN <<q>>
                    ELSE IF HasSplit(pg[q], k) THEN f[pg[q].rlink]
                    ELSE <<q>> \o (IF TooShort(pg[q], k) THEN <<NoPage>>
                                   ELSE f[InterGet(pg[q], k)])]

LEMMA SearchesAre ==
  /\ \A k : Rights(k) = RightsOf(pages, k)
  /\ \A k, drop : Descents(k, drop) = DescentsOf(pages, k, drop)
BY DEF Rights, RightsOf, Descents, DescentsOf

(* The pages nearer than m to the end of every search, all for a large m.  *)
Near(pg, low, m) == {q \in DOMAIN pg : Far(pg, low, q) < m}

LEMMA AllNear ==
  ASSUME NEW pg, NEW rt, NEW low, Tree(pg, rt, low)
  PROVE  \E m \in Nat : Near(pg, low, m) = DOMAIN pg
<1> DEFINE c == Cardinality(DOMAIN pg)
<1>1. IsFiniteSet(DOMAIN pg) /\ c \in Nat  BY NoPageIsNone, FS_CardinalityType
<1>2. ASSUME NEW q \in DOMAIN pg  PROVE Far(pg, low, q) < c + 1
  <2>1. Later(pg, low, q) \in SUBSET DOMAIN pg  BY DEF Later
  <2>2. Far(pg, low, q) <= c  BY <1>1, <2>1, FS_Subset DEF Far
  <2>3. Far(pg, low, q) \in Nat  BY FarIs
  <2> QED  BY <1>1, <2>2, <2>3
<1> HIDE DEF c
<1>3. Near(pg, low, c + 1) = DOMAIN pg  BY <1>2 DEF Near
<1>4. c + 1 \in Nat  BY <1>1
<1> QED  BY <1>3, <1>4

LEMMA NearStep ==
  ASSUME NEW pg, NEW rt, NEW low, Tree(pg, rt, low), NEW m \in Nat,
         NEW q \in Near(pg, low, m + 1), NEW x \in Later(pg, low, q)
  PROVE  x \in Near(pg, low, m) /\ x \in Near(pg, low, m + 1)
<1>1. q \in DOMAIN pg /\ Far(pg, low, q) < m + 1  BY DEF Near
<1>2. Far(pg, low, x) \in Nat /\ Far(pg, low, q) \in Nat /\ Far(pg, low, x) < Far(pg, low, q)
  BY <1>1, FarFalls
<1>3. Far(pg, low, x) < m /\ Far(pg, low, x) < m + 1  BY <1>1, <1>2
<1>4. x \in DOMAIN pg  BY LaterIs
<1> QED  BY <1>3, <1>4 DEF Near

LEMMA NoneNear ==
  ASSUME NEW pg, NEW rt, NEW low, Tree(pg, rt, low)
  PROVE  Near(pg, low, 0) = {}
<1>1. \A q \in DOMAIN pg : Far(pg, low, q) \in Nat  BY FarIs
<1>2. \A q \in DOMAIN pg : ~(Far(pg, low, q) < 0)  BY <1>1
<1> QED  BY <1>2 DEF Near

LEMMA RightsEquation ==
  ASSUME NEW pg, NEW rt, NEW low, Tree(pg, rt, low), NEW k
  PROVE  RightsOf(pg, k) =
           [q \in DOMAIN pg |->
              IF HasSplit(pg[q], k) THEN RightsOf(pg, k)[pg[q].rlink] ELSE q]
<1> DEFINE Body(f, q) == IF HasSplit(pg[q], k) THEN f[pg[q].rlink] ELSE q
           Is(f, m) == f = [q \in Near(pg, low, m) |-> Body(f, q)]
           N == {m \in Nat : \E f : Is(f, m)}
<1>1. 0 \in N
  <2> DEFINE f == [q \in {} |-> q]
  <2>1. Near(pg, low, 0) = {}  BY NoneNear
  <2>2. Is(f, 0)  BY <2>1
  <2> HIDE DEF f, Is
  <2>3. \E g : Is(g, 0)  BY <2>2
  <2> QED  BY <2>3
<1>2. ASSUME NEW m \in Nat, m \in N  PROVE m + 1 \in N
  <2>1. PICK f : Is(f, m)  BY <1>2
  <2> DEFINE g == [q \in Near(pg, low, m + 1) |-> Body(f, q)]
  <2>2. ASSUME NEW q \in Near(pg, low, m + 1)  PROVE g[q] = Body(g, q)
    <3>1. CASE ~HasSplit(pg[q], k)  BY <3>1
    <3>2. CASE HasSplit(pg[q], k)
      <4>1. q \in DOMAIN pg /\ pg[q].high # NoKey  BY <3>2 DEF Near, HasSplit
      <4>2. pg[q].rlink \in Near(pg, low, m) /\ pg[q].rlink \in Near(pg, low, m + 1)
        BY <4>1, LinkIs, NearStep
      <4>3. g[pg[q].rlink] = Body(f, pg[q].rlink) /\ f[pg[q].rlink] = Body(f, pg[q].rlink)
        BY <2>1, <4>2
      <4>4. g[pg[q].rlink] = f[pg[q].rlink]  BY ONLY <4>3
      <4>5. g[q] = f[pg[q].rlink]  BY <3>2
      <4> QED  BY ONLY <3>2, <4>4, <4>5
    <3> QED  BY <3>1, <3>2
  <2>3. Is(g, m + 1)
    <3>1. g = [q \in Near(pg, low, m + 1) |-> g[q]]  OBVIOUS
    <3> HIDE DEF g, Body
    <3> QED  BY <2>2, <3>1
  <2> HIDE DEF g, Is
  <2>4. \E f1 : Is(f1, m + 1)  BY <2>3
  <2> QED  BY <2>4
<1>3. Nat \subseteq N
  <2> HIDE DEF N
  <2> QED  BY <1>1, <1>2, Induction
<1>4. PICK m \in Nat : Near(pg, low, m) = DOMAIN pg  BY AllNear
<1>5. PICK f : Is(f, m)  BY <1>3
<1>6. f = [q \in DOMAIN pg |-> Body(f, q)]  BY <1>4, <1>5
<1> QED  BY <1>6 DEF RightsOf

(* GoRight finds the page of the level that has the key between its fences. *)
Reaches(pg, low, k, p, q) ==
  /\ q \in DOMAIN pg /\ pg[q].level = pg[p].level
  /\ ~Below(low[q], low[p]) /\ Covers(pg[q], low[q], k)

LEMMA RightIs ==
  ASSUME NEW pg, NEW rt, NEW low, Tree(pg, rt, low), NEW k \in Str,
         NEW p \in DOMAIN pg, ~Below(k, low[p])
  PROVE  Reaches(pg, low, k, p, RightsOf(pg, k)[p])
<1> DEFINE f == RightsOf(pg, k)
           N == {m \in Nat : \A q \in Near(pg, low, m) :
                               ~Below(k, low[q]) => Reaches(pg, low, k, q, f[q])}
<1>1. \A q \in DOMAIN pg : f[q] = IF HasSplit(pg[q], k) THEN f[pg[q].rlink] ELSE q
  <2>1. f = [q \in DOMAIN pg |-> IF HasSplit(pg[q], k) THEN f[pg[q].rlink] ELSE q]
    BY RightsEquation
  <2> HIDE DEF f
  <2> QED  BY <2>1
<1> HIDE DEF f
<1>2. 0 \in N  BY NoneNear
<1>3. ASSUME NEW m \in Nat, m \in N  PROVE m + 1 \in N
  <2> SUFFICES ASSUME NEW q \in Near(pg, low, m + 1), ~Below(k, low[q])
               PROVE  Reaches(pg, low, k, q, f[q])
    OBVIOUS
  <2>1. q \in DOMAIN pg  BY DEF Near
  <2>2. /\ low[q] \in Str /\ pg[q].high \in Str \cup {NoKey} /\ pg[q].level \in Nat
    BY <2>1, TreePage
  <2>3. CASE ~HasSplit(pg[q], k)
    <3>1. f[q] = q  BY <1>1, <2>1, <2>3
    <3>2. ~Below(low[q], low[q])  BY <2>2, Irreflexive
    <3>3. Covers(pg[q], low[q], k)  BY <2>3 DEF HasSplit, Covers
    <3> QED  BY <3>1, <3>2, <3>3, <2>1 DEF Reaches
  <2>4. CASE HasSplit(pg[q], k)
    <3> DEFINE y == pg[q].rlink
               z == f[y]
    <3>1. pg[q].high # NoKey /\ ~Below(k, pg[q].high)  BY <2>4 DEF HasSplit
    <3>2. /\ y \in DOMAIN pg /\ pg[y].level = pg[q].level /\ low[y] = pg[q].high
          /\ Below(low[q], low[y]) /\ y \in Later(pg, low, q)
      BY <2>1, <3>1, LinkIs
    <3>3. y \in Near(pg, low, m)  BY <3>2, NearStep
    <3>4. f[q] = z  BY <1>1, <2>1, <2>4
    <3> HIDE DEF y
    <3>5. Reaches(pg, low, k, y, z)  BY <1>3, <3>1, <3>2, <3>3
    <3>6. z \in DOMAIN pg /\ pg[z].level = pg[y].level /\ ~Below(low[z], low[y])
          /\ Covers(pg[z], low[z], k)
      BY <3>5 DEF Reaches
    <3> HIDE DEF z
    <3>7. low[y] \in Str /\ low[z] \in Str  BY <3>2, <3>6, TreePage
    <3>8. ~Below(low[z], low[q])
      <4>1. Ordered(low[q], low[y], low[z])  BY <2>2, <3>7, Order
      <4>2. Ordered(low[z], low[q], low[z])  BY <2>2, <3>7, Order
      <4> QED  BY ONLY <4>1, <4>2, <3>2, <3>6 DEF Ordered
    <3> QED  BY ONLY <3>2, <3>4, <3>6, <3>8 DEF Reaches
  <2> QED  BY <2>3, <2>4
<1>4. Nat \subseteq N
  <2> HIDE DEF N
  <2> QED  BY <1>2, <1>3, Induction
<1>5. PICK m \in Nat : Near(pg, low, m) = DOMAIN pg  BY AllNear
<1>6. m \in N  BY <1>4
<1> QED  BY <1>5, <1>6 DEF f

LEMMA DescentsEquation ==
  ASSUME NEW pg, NEW rt, NEW low, Tree(pg, rt, low), NEW k \in Str, NEW drop \in Nat
  PROVE  DescentsOf(pg, k, drop) =
           [q \in DOMAIN pg \cup {NoPage} |->
              IF q = NoPage \/ pg[q].level <= drop THEN <<q>>
              ELSE IF HasSplit(pg[q], k) THEN DescentsOf(pg, k, drop)[pg[q].rlink]
              ELSE <<q>> \o (IF TooShort(pg[q], k) THEN <<NoPage>>
                             ELSE DescentsOf(pg, k, drop)[InterGet(pg[q], k)])]
<1> DEFINE Body(f, q) ==
             IF q = NoPage \/ pg[q].level <= drop THEN <<q>>
             ELSE IF HasSplit(pg[q], k) THEN f[pg[q].rlink]
             ELSE <<q>> \o (IF TooShort(pg[q], k) THEN <<NoPage>>
                            ELSE f[InterGet(pg[q], k)])
           P(m) == Near(pg, low, m) \cup {NoPage}
           Is(f, m) == f = [q \in P(m) |-> Body(f, q)]
           N == {m \in Nat : \E f : Is(f, m)}
<1>1. 0 \in N
  <2> DEFINE f == [q \in {NoPage} |-> <<q>>]
  <2>1. P(0) = {NoPage}  BY NoneNear
  <2>2. \A q \in {NoPage} : Body(f, q) = <<q>>  OBVIOUS
  <2>3. [q \in {NoPage} |-> Body(f, q)] = f
    <3> HIDE DEF Body
    <3> QED  BY <2>2
  <2>4. Is(f, 0)  BY ONLY <2>1, <2>3
  <2> HIDE DEF f, Is
  <2>5. \E g : Is(g, 0)  BY <2>4
  <2> QED  BY <2>5
<1>2. ASSUME NEW m \in Nat, m \in N  PROVE m + 1 \in N
  <2>1. PICK f : Is(f, m)  BY <1>2
  <2> DEFINE g == [q \in P(m + 1) |-> Body(f, q)]
  <2>0. \A x \in P(m) : x \in P(m + 1) => g[x] = f[x]
    <3> SUFFICES ASSUME NEW x \in P(m), x \in P(m + 1)  PROVE g[x] = f[x]  OBVIOUS
    <3>1. f[x] = Body(f, x)  BY <2>1
    <3> HIDE DEF Body
    <3> QED  BY <3>1
  <2>2. ASSUME NEW q \in P(m + 1)  PROVE g[q] = Body(g, q)
    <3>0. g[q] = Body(f, q)
      <4> HIDE DEF Body
      <4> QED  BY <2>2
    <3> HIDE DEF g
    <3>1. CASE q = NoPage \/ pg[q].level <= drop  BY <3>0, <3>1
    <3>2. CASE ~(q = NoPage \/ pg[q].level <= drop)
      <4>1. q \in DOMAIN pg /\ q \in Near(pg, low, m + 1) /\ pg[q].level \in Nat
        <5>1. q \in Near(pg, low, m + 1) /\ q \in DOMAIN pg  BY <3>2 DEF Near
        <5> QED  BY <5>1, TreePage
      <4>2. CASE HasSplit(pg[q], k)
        <5>1. pg[q].high # NoKey  BY <4>2 DEF HasSplit
        <5>2. pg[q].rlink \in Near(pg, low, m) /\ pg[q].rlink \in Near(pg, low, m + 1)
          BY <4>1, <5>1, LinkIs, NearStep
        <5>3. g[pg[q].rlink] = f[pg[q].rlink]  BY <2>0, <5>2
        <5> QED  BY ONLY <3>0, <3>2, <4>2, <5>3
      <4>3. CASE ~HasSplit(pg[q], k) /\ TooShort(pg[q], k)  BY ONLY <3>0, <3>2, <4>3
      <4>4. CASE ~HasSplit(pg[q], k) /\ ~TooShort(pg[q], k)
        <5> DEFINE c == InterGet(pg[q], k)
        <5>1. pg[q].level > 0  BY ONLY <4>1, <3>2, drop \in Nat
        <5>2. c = NoPage \/ c \in Later(pg, low, q)  BY <4>1, <4>4, <5>1, GetIs
        <5>3. c \in P(m) /\ c \in P(m + 1)
          <6>1. CASE c = NoPage  BY <6>1
          <6>2. CASE c \in Later(pg, low, q)  BY <6>2, <4>1, NearStep
          <6> QED  BY <5>2, <6>1, <6>2
        <5>4. g[c] = f[c]
          <6> HIDE DEF c, P
          <6> QED  BY <2>0, <5>3
        <5> QED  BY ONLY <3>0, <3>2, <4>4, <5>4
      <4> QED  BY <4>2, <4>3, <4>4
    <3> QED  BY <3>1, <3>2
  <2>3. Is(g, m + 1)
    <3> HIDE DEF Body
    <3>1. g = [q \in P(m + 1) |-> g[q]]  OBVIOUS
    <3> HIDE DEF g
    <3> QED  BY <2>2, <3>1
  <2> HIDE DEF g, Is
  <2>4. \E f1 : Is(f1, m + 1)  BY <2>3
  <2> QED  BY <2>4
<1>3. Nat \subseteq N
  <2> HIDE DEF N
  <2> QED  BY <1>1, <1>2, Induction
<1>4. PICK m \in Nat : Near(pg, low, m) = DOMAIN pg  BY AllNear
<1>5. PICK f : Is(f, m)  BY <1>3
<1>6. f = [q \in DOMAIN pg \cup {NoPage} |-> Body(f, q)]  BY <1>4, <1>5
<1> QED  BY <1>6 DEF DescentsOf

-----------------------------------------------------------------------------
(* The pages of a descent: from level to level, and never to the left.     *)

Way(pg, low, path) ==
  /\ path \in Seq(DOMAIN pg)
  /\ \A i \in 1 .. Len(path) - 1 :
       /\ pg[path[i]].level = pg[path[i + 1]].level + 1
       /\ ~Below(Fence(pg, low, path[i + 1]), Fence(pg, low, path[i]))

Goes(pg, low, k, drop, q, path) ==
  /\ Way(pg, low, path) /\ path # <<>>
  /\ pg[path[1]].level = pg[q].level /\ ~Below(Fence(pg, low, path[1]), Fence(pg, low, q))
  /\ pg[path[Len(path)]].level = drop /\ ~Below(k, Fence(pg, low, path[Len(path)]))

LEMMA OneIs ==
  ASSUME NEW S, NEW x \in S
  PROVE  /\ <<x>> \in Seq(S) /\ Len(<<x>>) = 1 /\ <<x>>[1] = x /\ <<x>> # <<>>
OBVIOUS

LEMMA PrependIs ==
  ASSUME NEW S, NEW x \in S, NEW s \in Seq(S), s # <<>>
  PROVE  LET t == <<x>> \o s IN
         /\ t \in Seq(S) /\ Len(t) = Len(s) + 1 /\ t[1] = x /\ t # <<>>
         /\ \A i \in 2 .. Len(t) : t[i] = s[i - 1]
         /\ Len(s) \in Nat /\ Len(s) >= 1 /\ t[Len(t)] = s[Len(s)]
<1> DEFINE t == <<x>> \o s
<1>1. <<x>> \in Seq(S) /\ Len(<<x>>) = 1 /\ <<x>>[1] = x  BY OneIs
<1>2. /\ t \in Seq(S) /\ Len(t) = 1 + Len(s)
      /\ \A j \in 1 .. 1 : t[j] = <<x>>[j]
      /\ \A j \in 1 + 1 .. 1 + Len(s) : t[j] = s[j - 1]
  BY <1>1, ConcatIs
<1>3. Len(s) \in Nat /\ Len(s) >= 1  OBVIOUS
<1> HIDE DEF t
<1>4. t # <<>>  BY <1>2, <1>3, NotEmpty
<1>5. t[Len(t)] = s[Len(s)]  BY <1>2, <1>3
<1> QED  BY <1>1, <1>2, <1>3, <1>4, <1>5 DEF t

LEMMA GoesOn ==
  ASSUME NEW pg, NEW low, NEW k, NEW drop, NEW q \in DOMAIN pg, NEW c, NEW path,
         Goes(pg, low, k, drop, c, path), pg[q].level \in Int, pg[c].level \in Int,
         pg[q].level = pg[c].level + 1,
         ~Below(Fence(pg, low, path[1]), Fence(pg, low, q)),
         ~Below(Fence(pg, low, q), Fence(pg, low, q))
  PROVE  Goes(pg, low, k, drop, q, <<q>> \o path)
<1> DEFINE t == <<q>> \o path
           n == Len(path)
<1>1. path \in Seq(DOMAIN pg) /\ path # <<>>  BY DEF Goes, Way
<1>2. /\ t \in Seq(DOMAIN pg) /\ Len(t) = n + 1 /\ t[1] = q /\ t # <<>>
      /\ \A i \in 2 .. Len(t) : t[i] = path[i - 1]
      /\ n \in Nat /\ n >= 1 /\ t[Len(t)] = path[n]
  BY <1>1, PrependIs
<1> HIDE DEF t
<1>3. \A i \in 1 .. n - 1 :
        /\ pg[path[i]].level = pg[path[i + 1]].level + 1
        /\ ~Below(Fence(pg, low, path[i + 1]), Fence(pg, low, path[i]))
  BY DEF Goes, Way
<1>4. /\ pg[path[1]].level = pg[c].level
      /\ pg[path[n]].level = drop /\ ~Below(k, Fence(pg, low, path[n]))
  BY DEF Goes
<1> HIDE DEF n
<1>5. ASSUME NEW i \in 1 .. Len(t) - 1
      PROVE  /\ pg[t[i]].level = pg[t[i + 1]].level + 1
             /\ ~Below(Fence(pg, low, t[i + 1]), Fence(pg, low, t[i]))
  <2>1. CASE i = 1
    <3>1. t[i] = q /\ t[i + 1] = path[1]
      <4>1. 2 \in 2 .. Len(t)  BY <1>2
      <4>2. t[2] = path[2 - 1]  BY <4>1, <1>2
      <4> QED  BY <2>1, <4>2, <1>2
    <3> QED  BY <3>1, <1>4
  <2>2. CASE i # 1
    <3> DEFINE j == i - 1
    <3>1. j \in 1 .. n - 1 /\ i \in 2 .. Len(t) /\ i + 1 \in 2 .. Len(t) /\ (i + 1) - 1 = j + 1
      BY <2>2, <1>2
    <3>2. t[i] = path[j] /\ t[i + 1] = path[j + 1]
      <4>1. t[i + 1] = path[(i + 1) - 1]  BY ONLY <3>1, <1>2
      <4> QED  BY ONLY <4>1, <3>1, <1>2
    <3> HIDE DEF j
    <3> QED  BY ONLY <3>1, <3>2, <1>3
  <2> QED  BY <2>1, <2>2
<1>6. Way(pg, low, t)  BY ONLY <1>2, <1>5 DEF Way
<1> QED  BY <1>2, <1>4, <1>6 DEF Goes, t

LEMMA DescentIs ==
  ASSUME NEW pg, NEW rt, NEW low, Tree(pg, rt, low), NEW k \in Str, NEW drop \in Nat,
         NEW p \in DOMAIN pg, pg[p].level >= drop, ~Below(k, Fence(pg, low, p))
  PROVE  Goes(pg, low, k, drop, p, DescentsOf(pg, k, drop)[p])
<1> DEFINE f == DescentsOf(pg, k, drop)
           N == {m \in Nat : \A q \in Near(pg, low, m) :
                   pg[q].level >= drop /\ ~Below(k, Fence(pg, low, q)) =>
                     Goes(pg, low, k, drop, q, f[q])}
<1>1. \A q \in DOMAIN pg :
        f[q] = IF pg[q].level <= drop THEN <<q>>
               ELSE IF HasSplit(pg[q], k) THEN f[pg[q].rlink]
               ELSE <<q>> \o (IF TooShort(pg[q], k) THEN <<NoPage>>
                              ELSE f[InterGet(pg[q], k)])
  <2>1. f = [q \in DOMAIN pg \cup {NoPage} |->
              IF q = NoPage \/ pg[q].level <= drop THEN <<q>>
              ELSE IF HasSplit(pg[q], k) THEN f[pg[q].rlink]
              ELSE <<q>> \o (IF TooShort(pg[q], k) THEN <<NoPage>>
                             ELSE f[InterGet(pg[q], k)])]
    BY DescentsEquation
  <2>2. NoPage \notin DOMAIN pg  BY NoPageIsNone
  <2> HIDE DEF f
  <2>3. ASSUME NEW q \in DOMAIN pg
        PROVE  f[q] = IF q = NoPage \/ pg[q].level <= drop THEN <<q>>
                      ELSE IF HasSplit(pg[q], k) THEN f[pg[q].rlink]
                      ELSE <<q>> \o (IF TooShort(pg[q], k) THEN <<NoPage>>
                                     ELSE f[InterGet(pg[q], k)])
    BY <2>1
  <2> QED  BY <2>2, <2>3
<1> HIDE DEF f
<1>2. 0 \in N  BY NoneNear
<1>3. ASSUME NEW m \in Nat, m \in N  PROVE m + 1 \in N
  <2> SUFFICES ASSUME NEW q \in Near(pg, low, m + 1), pg[q].level >= drop,
                      ~Below(k, Fence(pg, low, q))
               PROVE  Goes(pg, low, k, drop, q, f[q])
    OBVIOUS
  <2>1. q \in DOMAIN pg  BY DEF Near
  <2>2. /\ low[q] \in Str /\ pg[q].high \in Str \cup {NoKey} /\ pg[q].level \in Nat
        /\ Fence(pg, low, q) \in Str /\ NodeOK(pg[q], low[q])
    BY <2>1, TreePage, FenceIs
  <2>3. ~Below(Fence(pg, low, q), Fence(pg, low, q))  BY <2>2, Irreflexive
  <2>4. CASE pg[q].level <= drop
    <3>1. f[q] = <<q>>  BY <1>1, <2>1, <2>4
    <3>2. pg[q].level = drop  BY <2>2, <2>4
    <3>3. <<q>> \in Seq(DOMAIN pg) /\ Len(<<q>>) = 1 /\ <<q>>[1] = q /\ <<q>> # <<>>
      BY <2>1, OneIs
    <3>4. Way(pg, low, <<q>>)
      <4>1. 1 .. Len(<<q>>) - 1 = {}  BY <3>3
      <4> QED  BY <3>3, <4>1 DEF Way
    <3> QED  BY <3>1, <3>2, <3>3, <3>4, <2>3 DEF Goes
  <2>5. CASE ~(pg[q].level <= drop)
    <3>1. pg[q].level > 0 /\ pg[q].level > drop /\ pg[q].level # 0  BY <2>2, <2>5
    <3>2. Fence(pg, low, q) = low[q]  BY <2>1, <3>1, FenceIs
    <3>3. CASE HasSplit(pg[q], k)
      <4> DEFINE y == pg[q].rlink
      <4>1. pg[q].high # NoKey /\ ~Below(k, pg[q].high)  BY <3>3 DEF HasSplit
      <4>2. /\ y \in DOMAIN pg /\ pg[y].level = pg[q].level /\ low[y] = pg[q].high
            /\ Below(low[q], low[y]) /\ y \in Later(pg, low, q)
        BY <2>1, <4>1, LinkIs
      <4>3. y \in Near(pg, low, m)  BY <4>2, NearStep
      <4>4. f[q] = f[y]  BY <1>1, <2>1, <2>5, <3>3
      <4> HIDE DEF y
      <4>5. Fence(pg, low, y) = low[y]  BY <3>1, <4>2, FenceIs
      <4>6. Goes(pg, low, k, drop, y, f[y])  BY <1>3, <4>1, <4>2, <4>3, <4>5, <3>1
      <4> DEFINE z == f[y][1]
      <4>7. z \in DOMAIN pg /\ ~Below(Fence(pg, low, z), low[y])
        <5>1. f[y] \in Seq(DOMAIN pg) /\ f[y] # <<>>  BY <4>6 DEF Goes, Way
        <5>2. ~Below(Fence(pg, low, f[y][1]), Fence(pg, low, y))  BY <4>6 DEF Goes
        <5> QED  BY <5>1, <5>2, <4>5
      <4>8. ~Below(Fence(pg, low, z), Fence(pg, low, q))
        <5> HIDE DEF z
        <5>1. Fence(pg, low, z) \in Str /\ low[y] \in Str /\ low[q] \in Str
          BY <4>7, <4>2, <2>2, FenceIs, TreePage
        <5>2. /\ Ordered(low[q], low[y], Fence(pg, low, z))
              /\ Ordered(Fence(pg, low, z), low[q], Fence(pg, low, z))
          BY <5>1, Order
        <5> QED  BY ONLY <5>2, <4>7, <4>2, <3>2 DEF Ordered
      <4> QED  BY ONLY <4>2, <4>4, <4>6, <4>8 DEF Goes
    <3>4. CASE ~HasSplit(pg[q], k)
      <4> DEFINE c == InterGet(pg[q], k)
      <4>1. Covers(pg[q], low[q], k)  BY <3>2, <3>4 DEF HasSplit, Covers
      <4>2. ~TooShort(pg[q], k)  BY <2>2, <4>1, RemoveKeyPrefixIs DEF Stripped
      <4>3. f[q] = <<q>> \o f[c]  BY <1>1, <2>1, <2>5, <3>4, <4>2
      <4>4. PICK i \in DOMAIN pg[q].slots :
              c = pg[q].slots[i].ref /\ ~Below(k, KeyAt(pg[q], i))
        BY <2>2, <3>1, <4>1, InterGetIs
      <4> HIDE DEF c
      <4>5. Has(pg[q], KeyAt(pg[q], i), c)  BY <4>4 DEF Has
      <4>6. EntryOK(pg, low, pg[q].level, KeyAt(pg[q], i), c)
        BY <2>1, <4>5 DEF Tree, EntriesOK
      <4>7. c \in DOMAIN pg /\ pg[c].level = pg[q].level - 1 /\ KeyAt(pg[q], i) = Fence(pg, low, c)
        BY <3>1, <4>6 DEF EntryOK
      <4>8. pg[c].level \in Nat /\ pg[q].level = pg[c].level + 1 /\ pg[c].level >= drop
            /\ pg[c].level < pg[q].level
        BY <2>2, <3>1, <4>7
      <4>9. c \in Near(pg, low, m)
        <5>1. c \in Later(pg, low, q)  BY <4>7, <4>8 DEF Later
        <5> QED  BY <5>1, NearStep
      <4>10. Goes(pg, low, k, drop, c, f[c])  BY <1>3, <4>4, <4>7, <4>8, <4>9
      <4> DEFINE z == f[c][1]
      <4>11. z \in DOMAIN pg /\ ~Below(Fence(pg, low, z), Fence(pg, low, c))
        <5>1. f[c] \in Seq(DOMAIN pg) /\ f[c] # <<>>  BY <4>10 DEF Goes, Way
        <5>2. ~Below(Fence(pg, low, f[c][1]), Fence(pg, low, c))  BY <4>10 DEF Goes
        <5> QED  BY <5>1, <5>2
      <4>12. ~Below(Fence(pg, low, c), low[q])
        <5>1. Covers(pg[q], low[q], KeyAt(pg[q], i))  BY <2>2, <4>4 DEF NodeOK
        <5> QED  BY <5>1, <4>7 DEF Covers
      <4>13. ~Below(Fence(pg, low, z), Fence(pg, low, q))
        <5> HIDE DEF z
        <5>1. Fence(pg, low, z) \in Str /\ Fence(pg, low, c) \in Str /\ low[q] \in Str
          BY <4>11, <4>7, <2>2, FenceIs
        <5>2. Ordered(low[q], Fence(pg, low, c), Fence(pg, low, z))  BY <5>1, Order
        <5>3. Ordered(Fence(pg, low, z), Fence(pg, low, c), low[q])  BY <5>1, Order
        <5> QED  BY ONLY <5>2, <5>3, <4>11, <4>12, <3>2 DEF Ordered
      <4>14. Goes(pg, low, k, drop, q, <<q>> \o f[c])
        <5>1. pg[q].level \in Int /\ pg[c].level \in Int /\ pg[q].level = pg[c].level + 1
          BY <2>2, <4>8
        <5> QED  BY <5>1, <2>1, <2>3, <4>10, <4>13, GoesOn
      <4> QED  BY <4>3, <4>14
    <3> QED  BY <3>3, <3>4
  <2> QED  BY <2>4, <2>5
<1>4. Nat \subseteq N
  <2> HIDE DEF N
  <2> QED  BY <1>2, <1>3, Induction
<1>5. PICK m \in Nat : Near(pg, low, m) = DOMAIN pg  BY AllNear
<1>6. m \in N  BY <1>4
<1> QED  BY <1>5, <1>6 DEF f

-----------------------------------------------------------------------------
(* Where a thread is in the tree, and what it has still to post.           *)

LowOf(pg, p) ==
  LET lefts == {q \in DOMAIN pg : pg[q].rlink = p} IN
  IF lefts = {} THEN <<>> ELSE pg[CHOOSE q \in lefts : TRUE].high
LowsOf(pg) == [p \in DOMAIN pg |-> LowOf(pg, p)]

(* It has come down to a page of a level, at or left of the key's.         *)
Arrives(pg, low, s, p, level, k) ==
  /\ s \in Seq(DOMAIN pg) /\ p \in DOMAIN pg /\ Way(pg, low, Append(s, p))
  /\ pg[p].level = level /\ ~Below(k, Fence(pg, low, p))

Posted(pg, c) == \E p \in DOMAIN pg : pg[p].level > 0 /\ \E x : Has(pg[p], x, c)

(* The page that a split added, and no page leads down to yet.             *)
Carries(pg, low, m) ==
  /\ m.child \in DOMAIN pg /\ ~Posted(pg, m.child)
  /\ m.sep = Fence(pg, low, m.child) /\ m.sep # <<>>

Placed(pg, low, l, c, p, s, m) ==
  /\ l = "leaf" => c \in Calls /\ Arrives(pg, low, s, p, 0, Encode(c.key))
  /\ l = "root" => /\ Carries(pg, low, m) /\ s = <<>>
                   /\ p \in DOMAIN pg /\ pg[m.child].level = pg[p].level
  /\ l = "post" => /\ Carries(pg, low, m)
                   /\ Arrives(pg, low, s, p, pg[m.child].level + 1, m.sep)

LEMMA LowsAre ==
  ASSUME NEW pg, NEW rt, NEW low, Tree(pg, rt, low)
  PROVE  LowsOf(pg) = low
<1>1. low \in [DOMAIN pg -> Str]  BY DEF Tree, LowsFit
<1>2. ASSUME NEW p \in DOMAIN pg  PROVE LowOf(pg, p) = low[p]
  <2> DEFINE lefts == {q \in DOMAIN pg : pg[q].rlink = p}
  <2>1. p # NoPage  BY NoPageIsNone
  <2>2. CASE lefts = {}
    <3>1. low[p] = <<>>  BY <2>2 DEF Tree, LowsFit
    <3> QED  BY <2>2, <3>1 DEF LowOf
  <2>3. CASE lefts # {}
    <3> DEFINE q == CHOOSE q \in lefts : TRUE
    <3>1. q \in lefts  BY <2>3
    <3>2. LowOf(pg, p) = pg[q].high  BY <2>3 DEF LowOf
    <3> HIDE DEF q
    <3>3. low[p] = pg[q].high  BY <2>1, <3>1 DEF Tree, LowsFit
    <3> QED  BY <3>2, <3>3
  <2> QED  BY <2>2, <2>3
<1> QED  BY <1>1, <1>2 DEF LowsOf

LEMMA FrontLastIs ==
  ASSUME NEW S, NEW s \in Seq(S), s # <<>>
  PROVE  /\ Front(s) \in Seq(S) /\ Last(s) \in S /\ Append(Front(s), Last(s)) = s
         /\ Last(s) = s[Len(s)] /\ Len(s) \in Nat /\ Len(s) >= 1
<1> DEFINE n == Len(s)
<1>1. n \in Nat /\ n >= 1 /\ DOMAIN s = 1 .. n  OBVIOUS
<1>2. Last(s) = s[n] /\ Last(s) \in S  BY <1>1 DEF Last
<1>3. Front(s) = SubSeq(s, 1, n - 1)  BY DEF Front
<1>4. Front(s) \in Seq(S) /\ Len(Front(s)) = n - 1 /\ \A i \in 1 .. n - 1 : Front(s)[i] = s[i]
  <2>1. 0 \in Nat /\ n - 1 \in Nat /\ 0 <= n - 1 /\ n - 1 <= Len(s)  BY <1>1
  <2>2. /\ SubSeq(s, 0 + 1, n - 1) \in Seq(S) /\ Len(SubSeq(s, 0 + 1, n - 1)) = n - 1 - 0
        /\ \A i \in 1 .. n - 1 - 0 : SubSeq(s, 0 + 1, n - 1)[i] = s[0 + i]
    BY <2>1, PartIs
  <2>3. n - 1 - 0 = n - 1 /\ 0 + 1 = 1 /\ \A i \in 1 .. n - 1 : 0 + i = i  BY <1>1
  <2> HIDE DEF n
  <2> QED  BY <1>3, <2>2, <2>3
<1> HIDE DEF n
<1> DEFINE f == Front(s)
           e == Last(s)
           t == Append(f, e)
<1>5. f \in Seq(S) /\ Len(f) = n - 1 /\ \A i \in 1 .. n - 1 : f[i] = s[i]  BY <1>4
<1>6. e \in S /\ e = s[n]  BY <1>2
<1> HIDE DEF f, e
<1>7. t \in Seq(S) /\ Len(t) = n
      /\ \A i \in 1 .. n : t[i] = IF i = n THEN e ELSE f[i]
  BY <1>1, <1>5, <1>6
<1>8. \A i \in 1 .. n : t[i] = s[i]  BY <1>1, <1>5, <1>6, <1>7
<1> HIDE DEF t
<1>9. t = s
  <2>1. Len(t) = Len(s)  BY <1>7 DEF n
  <2>2. \A i \in 1 .. Len(t) : t[i] = s[i]  BY <1>7, <1>8
  <2> QED  BY <1>7, <2>1, <2>2, SameKeys
<1> QED  BY <1>1, <1>2, <1>4, <1>9 DEF t, f, e, n

LEMMA GoesArrives ==
  ASSUME NEW pg, NEW low, NEW k, NEW drop, NEW q, NEW path, Goes(pg, low, k, drop, q, path)
  PROVE  Arrives(pg, low, Front(path), Last(path), drop, k)
<1>1. path \in Seq(DOMAIN pg) /\ path # <<>> /\ Way(pg, low, path)
      /\ pg[path[Len(path)]].level = drop /\ ~Below(k, Fence(pg, low, path[Len(path)]))
  BY DEF Goes, Way
<1>2. /\ Front(path) \in Seq(DOMAIN pg) /\ Last(path) \in DOMAIN pg
      /\ Append(Front(path), Last(path)) = path /\ Last(path) = path[Len(path)]
  BY <1>1, FrontLastIs
<1> QED  BY <1>1, <1>2 DEF Arrives

(* GoRight does not go back over a separator. *)
LEMMA FencesAfter ==
  ASSUME EncodeOrdered, NEW pg, NEW rt, NEW low, Tree(pg, rt, low), NEW k,
         NEW p \in DOMAIN pg, NEW q, Reaches(pg, low, k, p, q)
  PROVE  ~Below(Fence(pg, low, q), Fence(pg, low, p))
<1>1. q \in DOMAIN pg /\ pg[q].level = pg[p].level /\ ~Below(low[q], low[p])
  BY DEF Reaches
<1>2. Fence(pg, low, p) \in Str /\ Fence(pg, low, q) \in Str  BY <1>1, FenceIs
<1>3. CASE p = q  BY <1>2, <1>3, Irreflexive
<1>4. CASE p # q
  <2>1. Below(low[p], low[q])  BY <1>1, <1>4, ApartIs
  <2>2. Below(Fence(pg, low, p), Fence(pg, low, q))  BY <1>1, <2>1, FencesOrdered
  <2>3. Ordered(Fence(pg, low, p), Fence(pg, low, q), Fence(pg, low, p))  BY <1>2, Order
  <2> QED  BY ONLY <2>2, <2>3 DEF Ordered
<1> QED  BY <1>3, <1>4

(* A page split: its parent is where the thread came from. *)
LEMMA ArrivesUp ==
  ASSUME EncodeOrdered, NEW pg, NEW rt, NEW low, Tree(pg, rt, low), NEW k, NEW level \in Nat,
         NEW s, s # <<>>, NEW p, Arrives(pg, low, s, p, level, k),
         NEW j, NEW q, Reaches(pg, low, j, p, q),
         NEW sep \in Str, Below(Fence(pg, low, q), sep)
  PROVE  Arrives(pg, low, Front(s), Last(s), level + 1, sep)
<1> DEFINE path == Append(s, p)
           n == Len(s)
           u == Last(s)
<1>1. s \in Seq(DOMAIN pg) /\ p \in DOMAIN pg /\ Way(pg, low, path) /\ pg[p].level = level
  BY DEF Arrives
<1>2. /\ Front(s) \in Seq(DOMAIN pg) /\ u \in DOMAIN pg /\ Append(Front(s), u) = s
      /\ u = s[n] /\ n \in Nat /\ n >= 1
  BY <1>1, FrontLastIs
<1>3. Len(path) = n + 1 /\ path[n + 1] = p /\ \A i \in 1 .. n : path[i] = s[i]
  BY <1>1, <1>2
<1>4. \A i \in 1 .. Len(path) - 1 :
        /\ pg[path[i]].level = pg[path[i + 1]].level + 1
        /\ ~Below(Fence(pg, low, path[i + 1]), Fence(pg, low, path[i]))
  BY <1>1 DEF Way
<1> HIDE DEF path, n, u
<1>5. Way(pg, low, s)
  <2>1. ASSUME NEW i \in 1 .. n - 1
        PROVE  /\ pg[s[i]].level = pg[s[i + 1]].level + 1
               /\ ~Below(Fence(pg, low, s[i + 1]), Fence(pg, low, s[i]))
    <3>1. i \in 1 .. n /\ i + 1 \in 1 .. n /\ i \in 1 .. Len(path) - 1  BY <1>2, <1>3
    <3> QED  BY ONLY <3>1, <1>3, <1>4
  <2> QED  BY <2>1, <1>1 DEF Way, n
<1>6. pg[u].level = level + 1 /\ ~Below(Fence(pg, low, p), Fence(pg, low, u))
  <2>1. n \in 1 .. Len(path) - 1 /\ n \in 1 .. n  BY <1>2, <1>3
  <2> QED  BY ONLY <2>1, <1>1, <1>2, <1>3, <1>4
<1>7. q \in DOMAIN pg /\ ~Below(Fence(pg, low, q), Fence(pg, low, p))
  BY <1>1, FencesAfter DEF Reaches
<1>8. ~Below(sep, Fence(pg, low, u))
  <2>1. Fence(pg, low, p) \in Str /\ Fence(pg, low, q) \in Str /\ Fence(pg, low, u) \in Str
    BY <1>1, <1>2, <1>7, FenceIs
  <2>2. /\ Ordered(Fence(pg, low, q), Fence(pg, low, p), Fence(pg, low, u))
        /\ Ordered(Fence(pg, low, u), Fence(pg, low, q), sep)
        /\ Ordered(Fence(pg, low, u), Fence(pg, low, p), Fence(pg, low, q))
        /\ Ordered(sep, Fence(pg, low, u), Fence(pg, low, q))
        /\ Ordered(sep, Fence(pg, low, q), Fence(pg, low, u))
    BY <2>1, Order
  <2> QED  BY ONLY <2>2, <1>6, <1>7, Below(Fence(pg, low, q), sep) DEF Ordered
<1> QED  BY <1>2, <1>5, <1>6, <1>8 DEF Arrives, u

LEMMA ArrivesKept ==
  ASSUME NEW pg, NEW low, NEW pg2, NEW low2, Grown(pg2, low2, pg, low),
         NEW s, NEW p, NEW level, NEW k, Arrives(pg, low, s, p, level, k)
  PROVE  Arrives(pg2, low2, s, p, level, k)
<1> DEFINE path == Append(s, p)
<1>1. s \in Seq(DOMAIN pg) /\ p \in DOMAIN pg /\ Way(pg, low, path)
      /\ pg[p].level = level /\ ~Below(k, Fence(pg, low, p))
  BY DEF Arrives
<1>2. path \in Seq(DOMAIN pg) /\ DOMAIN path = 1 .. Len(path) /\ Len(path) \in Nat
      /\ \A i \in 1 .. Len(path) : path[i] \in DOMAIN pg
  <2>1. path \in Seq(DOMAIN pg)  BY <1>1
  <2> HIDE DEF path
  <2> QED  BY <2>1
<1>3. \A i \in 1 .. Len(path) - 1 :
        /\ pg[path[i]].level = pg[path[i + 1]].level + 1
        /\ ~Below(Fence(pg, low, path[i + 1]), Fence(pg, low, path[i]))
  BY <1>1 DEF Way
<1>4. DOMAIN pg \subseteq DOMAIN pg2 /\ \A q \in DOMAIN pg : pg2[q].level = pg[q].level
  BY DEF Grown
<1>5. \A q \in DOMAIN pg : Fence(pg2, low2, q) = Fence(pg, low, q)  BY FenceKept
<1>6. s \in Seq(DOMAIN pg2)  BY <1>1, <1>4
<1> HIDE DEF path
<1>7. path \in Seq(DOMAIN pg2)  BY <1>2, <1>4
<1>8. ASSUME NEW i \in 1 .. Len(path) - 1
      PROVE  /\ pg2[path[i]].level = pg2[path[i + 1]].level + 1
             /\ ~Below(Fence(pg2, low2, path[i + 1]), Fence(pg2, low2, path[i]))
  <2>1. i \in 1 .. Len(path) /\ i + 1 \in 1 .. Len(path)  BY <1>2
  <2>2. path[i] \in DOMAIN pg /\ path[i + 1] \in DOMAIN pg  BY ONLY <2>1, <1>2
  <2> QED  BY ONLY <2>2, <1>3, <1>4, <1>5, <1>8
<1>9. Way(pg2, low2, path)  BY ONLY <1>7, <1>8 DEF Way
<1> QED  BY <1>1, <1>4, <1>5, <1>6, <1>9 DEF Arrives, path

LEMMA PlacedKept ==
  ASSUME NEW pg, NEW low, NEW pg2, NEW low2, Grown(pg2, low2, pg, low),
         NEW l, NEW c, NEW p, NEW s, NEW m, Placed(pg, low, l, c, p, s, m),
         l \in {"root", "post"} => ~Posted(pg2, m.child)
  PROVE  Placed(pg2, low2, l, c, p, s, m)
<1>1. DOMAIN pg \subseteq DOMAIN pg2 /\ \A q \in DOMAIN pg : pg2[q].level = pg[q].level
  BY DEF Grown
<1>2. l = "leaf" => c \in Calls /\ Arrives(pg2, low2, s, p, 0, Encode(c.key))
  BY ArrivesKept DEF Placed
<1>3. l \in {"root", "post"} => Carries(pg2, low2, m) /\ m.child \in DOMAIN pg
  <2> SUFFICES ASSUME l \in {"root", "post"}
               PROVE  Carries(pg2, low2, m) /\ m.child \in DOMAIN pg
    OBVIOUS
  <2>1. Carries(pg, low, m)  BY DEF Placed
  <2>2. m.child \in DOMAIN pg  BY <2>1 DEF Carries
  <2>3. Fence(pg2, low2, m.child) = Fence(pg, low, m.child)  BY <2>2, FenceKept
  <2> QED  BY <2>1, <2>2, <2>3, <1>1 DEF Carries
<1>4. l = "root" => /\ s = <<>> /\ p \in DOMAIN pg2
                    /\ pg2[m.child].level = pg2[p].level
  BY <1>1, <1>3 DEF Placed
<1>5. l = "post" => Arrives(pg2, low2, s, p, pg2[m.child].level + 1, m.sep)
  <2> SUFFICES ASSUME l = "post"
               PROVE  Arrives(pg2, low2, s, p, pg2[m.child].level + 1, m.sep)
    OBVIOUS
  <2>1. Arrives(pg, low, s, p, pg[m.child].level + 1, m.sep)  BY DEF Placed
  <2>2. pg2[m.child].level = pg[m.child].level  BY <1>1, <1>3
  <2> QED  BY <2>1, <2>2, ArrivesKept
<1> QED  BY <1>2, <1>3, <1>4, <1>5 DEF Placed

-----------------------------------------------------------------------------
(* The invariant. *)

Typed ==
  /\ pc \in [Thread -> {"idle", "leaf", "root", "post", "return"}]
  /\ call \in [Thread -> Calls \cup {NoCall}]
  /\ cur \in [Thread -> Int]
  /\ stack \in [Thread -> Seq(Int)]
  /\ post \in [Thread -> [sep : Str, child : Int]]
  /\ round \in 1 .. Len(Workload) /\ todo \in [Thread -> Seq(SUBSET Calls)]

Where(t) == Placed(pages, LowsOf(pages), pc[t], call[t], cur[t], stack[t], post[t])

Owing(t) == pc[t] \in {"root", "post"}

(* No two threads have the same page to post. *)
Apiece ==
  \A t, u \in Thread : Owing(t) /\ Owing(u) /\ post[t].child = post[u].child => t = u

TreeInv ==
  /\ Typed /\ Tree(pages, root, LowsOf(pages))
  /\ \A t \in Thread : Where(t)
  /\ Apiece

Same(t) ==
  /\ pc'[t] = pc[t] /\ call'[t] = call[t] /\ cur'[t] = cur[t]
  /\ stack'[t] = stack[t] /\ post'[t] = post[t]

(* What a step of one thread leaves to the others. *)
LEMMA OthersKept ==
  ASSUME TreeInv, NEW t \in Thread, Typed', NEW low, Tree(pages', root', low),
         Grown(pages', low, pages, LowsOf(pages)),
         \A u \in Thread : u # t => Same(u),
         Placed(pages', low, pc'[t], call'[t], cur'[t], stack'[t], post'[t]),
         \A c : Posted(pages', c) =>
           Posted(pages, c) \/ c = root \/ (Owing(t) /\ c = post[t].child),
         pc'[t] \in {"root", "post"} =>
           post'[t].child \notin DOMAIN pages \/ (Owing(t) /\ post'[t].child = post[t].child)
  PROVE  TreeInv'
<1>1. LowsOf(pages') = low  BY LowsAre
<1>2. \A u \in Thread : Owing(u) =>
        /\ Carries(pages, LowsOf(pages), post[u]) /\ post[u].child \in DOMAIN pages
        /\ post[u].child # root
  <2> SUFFICES ASSUME NEW u \in Thread, Owing(u)
               PROVE  /\ Carries(pages, LowsOf(pages), post[u]) /\ post[u].child \in DOMAIN pages
                      /\ post[u].child # root
    OBVIOUS
  <2>1. Carries(pages, LowsOf(pages), post[u])  BY DEF TreeInv, Where, Placed, Owing
  <2>2. /\ post[u].child \in DOMAIN pages /\ post[u].sep # <<>>
        /\ post[u].sep = Fence(pages, LowsOf(pages), post[u].child)
    BY <2>1 DEF Carries
  <2>3. Fence(pages, LowsOf(pages), root) = <<>>  BY RootIsFirst DEF TreeInv
  <2> QED  BY <2>1, <2>2, <2>3
<1>3. ASSUME NEW u \in Thread, u # t
      PROVE  Placed(pages', low, pc'[u], call'[u], cur'[u], stack'[u], post'[u])
  <2>1. Placed(pages, LowsOf(pages), pc[u], call[u], cur[u], stack[u], post[u])
    BY DEF TreeInv, Where
  <2>2. pc[u] \in {"root", "post"} => ~Posted(pages', post[u].child)
    <3> SUFFICES ASSUME Owing(u)  PROVE ~Posted(pages', post[u].child)  BY DEF Owing
    <3>1. ~Posted(pages, post[u].child) /\ post[u].child # root  BY <1>2 DEF Carries
    <3>2. ~(Owing(t) /\ post[u].child = post[t].child)  BY <1>3 DEF TreeInv, Apiece
    <3> QED  BY <3>1, <3>2
  <2>3. Placed(pages', low, pc[u], call[u], cur[u], stack[u], post[u])
    BY <2>1, <2>2, PlacedKept
  <2> QED  BY <2>3, <1>3 DEF Same
<1>4. \A u \in Thread : Where(u)'  BY <1>1, <1>3 DEF Where
<1>5. Apiece'
  <2>1. \A u \in Thread : u # t => (Owing(u)' <=> Owing(u)) /\ post'[u] = post[u]
    BY DEF Same, Owing
  <2>2. Owing(t)' => post'[t].child \notin DOMAIN pages \/ (Owing(t) /\ post'[t].child = post[t].child)
    BY DEF Owing
  <2>3. ASSUME NEW u \in Thread, u # t, Owing(u)', Owing(t)'
        PROVE  post'[u].child # post'[t].child
    BY <2>1, <2>2, <2>3, <1>2 DEF TreeInv, Apiece
  <2>4. ASSUME NEW u \in Thread, NEW v \in Thread, u # t, v # t, Owing(u)', Owing(v)',
               post'[u].child = post'[v].child
        PROVE  u = v
    BY <2>1, <2>4 DEF TreeInv, Apiece
  <2> QED  BY <2>3, <2>4 DEF Apiece
<1> QED  BY <1>1, <1>4, <1>5 DEF TreeInv

LEMMA TreeStart == ASSUME Init  PROVE TreeInv
<1>1. pages = [p \in {0} |-> NewNode(0, <<>>, 0)] /\ root = 0  BY DEF Init
<1>2. Tree(pages, root, FirstLow)  BY <1>1, FirstTree
<1>3. Tree(pages, root, LowsOf(pages))  BY <1>2, LowsAre
<1>4. Typed
  <2>1. 1 \in 1 .. Len(Workload)
    <3>1. Len(Workload) \in Nat /\ Len(Workload) # 0  BY WorkloadAssumption
    <3> QED  BY <3>1
  <2>2. Workload[1] \in [Thread -> Seq(SUBSET Calls)]  BY <2>1, WorkloadAssumption
  <2>3. NoPost \in [sep : Str, child : Int]  BY DEF NoPost, Str, NoPage
  <2>4. <<>> \in Seq(Int) /\ NoPage \in Int  BY DEF NoPage
  <2> QED  BY <2>1, <2>2, <2>3, <2>4 DEF Init, Typed
<1>5. \A t \in Thread : pc[t] = "idle"  BY DEF Init
<1> QED  BY <1>3, <1>4, <1>5 DEF TreeInv, Where, Placed, Apiece, Owing

LEMMA TreeStutter == ASSUME TreeInv, UNCHANGED vars  PROVE TreeInv'
BY DEF TreeInv, Typed, Where, Apiece, Owing, vars

LEMMA TreeNextRound == ASSUME TreeInv, NextRound  PROVE TreeInv'
<1>1. Typed'
  <2>1. round' \in 1 .. Len(Workload) /\ Workload[round + 1] \in [Thread -> Seq(SUBSET Calls)]
    <3>1. Len(Workload) \in Nat  BY WorkloadAssumption
    <3>2. round + 1 \in 1 .. Len(Workload)  BY <3>1 DEF NextRound, TreeInv, Typed
    <3> QED  BY <3>2, WorkloadAssumption DEF NextRound
  <2> QED  BY <2>1 DEF NextRound, TreeInv, Typed
<1>2. UNCHANGED <<pages, root, pc, call, cur, stack, post>>  BY DEF NextRound
<1> QED  BY <1>1, <1>2 DEF TreeInv, Where, Apiece, Owing

-----------------------------------------------------------------------------
(* The leaf a call works at, and the page a separator goes to.             *)

Lows == LowsOf(pages)

LEMMA LeafIs ==
  ASSUME EncodeOrdered, TreeInv, NEW t \in Thread, pc[t] = "leaf"
  PROVE  /\ call[t] \in Calls /\ call[t].key \in Key /\ call[t].val \in Val
         /\ call[t].key \in Str /\ call[t].key # <<>> /\ call[t].val \in Int
         /\ cur[t] \in DOMAIN pages /\ cur[t] # NoPage
         /\ Arrives(pages, Lows, stack[t], cur[t], 0, Encode(call[t].key))
         /\ Reaches(pages, Lows, call[t].key, cur[t], Leaf(t))
         /\ Leaf(t) \in DOMAIN pages /\ Leaf(t) \in Nat /\ pages[Leaf(t)].level = 0
         /\ NodeOK(pages[Leaf(t)], Lows[Leaf(t)])
         /\ Covers(pages[Leaf(t)], Lows[Leaf(t)], call[t].key)
         /\ ~TooShort(pages[Leaf(t)], call[t].key)
<1> DEFINE k == call[t].key
           p == cur[t]
           q == Leaf(t)
<1>0. Tree(pages, root, Lows)  BY DEF TreeInv, Lows
<1>1. call[t] \in Calls /\ Arrives(pages, Lows, stack[t], p, 0, Encode(k))
  BY DEF TreeInv, Where, Placed, Lows
<1>2. k \in Key /\ call[t].val \in Val  BY <1>1 DEF Calls
<1>3. /\ k \in Str /\ k # <<>> /\ Encode(k) \in Str /\ Encode(k) # <<>> /\ call[t].val \in Int
  BY <1>2, KeysAreStrings
<1>4. p \in DOMAIN pages /\ pages[p].level = 0 /\ ~Below(Encode(k), Fence(pages, Lows, p))
  BY <1>1 DEF Arrives
<1>5. p # NoPage  BY <1>0, <1>4, NoPageIsNone
<1>6. ~Below(k, Lows[p])
  <2>1. Lows[p] \in Str  BY <1>0, <1>4, TreePage
  <2>2. CASE Lows[p] = <<>>  BY <1>3, <2>2, EmptyFirst
  <2>3. CASE Lows[p] # <<>>
    <3>1. Lows[p] \in Key /\ Fence(pages, Lows, p) = Encode(Lows[p])
      BY <1>0, <1>4, <2>3, FenceIs
    <3> QED  BY <3>1, <1>2, <1>4 DEF EncodeOrdered
  <2> QED  BY <2>2, <2>3
<1>7. q = RightsOf(pages, k)[p]  BY SearchesAre DEF Leaf, GoRight
<1> HIDE DEF q, p, k
<1>8. Reaches(pages, Lows, k, p, q)  BY <1>0, <1>3, <1>4, <1>6, <1>7, RightIs
<1>9. q \in DOMAIN pages /\ pages[q].level = 0 /\ Covers(pages[q], Lows[q], k)
  BY <1>4, <1>8 DEF Reaches
<1>10. NodeOK(pages[q], Lows[q])  BY <1>0, <1>9, TreePage
<1>11. ~TooShort(pages[q], k)  BY <1>3, <1>9, <1>10, RemoveKeyPrefixIs DEF Stripped
<1>12. q \in Nat
  <2>1. PICK n \in Nat : DOMAIN pages = 0 .. n - 1  BY <1>0 DEF Tree, Pool
  <2> QED  BY <2>1, <1>9
<1> QED
  BY <1>1, <1>2, <1>3, <1>4, <1>5, <1>8, <1>9, <1>10, <1>11, <1>12 DEF k, p, q

(* The page has no separator for the carried page yet. *)
LEMMA ParentIs ==
  ASSUME EncodeOrdered, TreeInv, NEW t \in Thread, pc[t] = "post"
  PROVE  /\ Carries(pages, Lows, post[t]) /\ post[t].child \in DOMAIN pages
         /\ post[t].sep \in Str /\ post[t].child \in Int
         /\ cur[t] \in DOMAIN pages /\ cur[t] # NoPage
         /\ Arrives(pages, Lows, stack[t], cur[t], pages[post[t].child].level + 1, post[t].sep)
         /\ Reaches(pages, Lows, post[t].sep, cur[t], Parent(t))
         /\ Parent(t) \in DOMAIN pages /\ Parent(t) \in Nat
         /\ pages[Parent(t)].level = pages[post[t].child].level + 1
         /\ pages[post[t].child].level \in Nat
         /\ NodeOK(pages[Parent(t)], Lows[Parent(t)])
         /\ NewHere(pages[Parent(t)], Lows[Parent(t)], post[t].sep)
         /\ ~TooShort(pages[Parent(t)], post[t].sep)
<1> DEFINE k == post[t].sep
           c == post[t].child
           p == cur[t]
           q == Parent(t)
           level == pages[c].level
<1>0. Tree(pages, root, Lows)  BY DEF TreeInv, Lows
<1>1. Carries(pages, Lows, post[t]) /\ Arrives(pages, Lows, stack[t], p, level + 1, k)
  BY DEF TreeInv, Where, Placed, Lows
<1>2. c \in DOMAIN pages /\ ~Posted(pages, c) /\ k = Fence(pages, Lows, c) /\ k # <<>>
  BY <1>1 DEF Carries
<1>3. k \in Str /\ level \in Nat  BY <1>0, <1>2, FenceIs, TreePage
<1>4. p \in DOMAIN pages /\ pages[p].level = level + 1 /\ ~Below(k, Fence(pages, Lows, p))
  BY <1>1 DEF Arrives
<1>5. p # NoPage  BY <1>0, <1>4, NoPageIsNone
<1>6. Fence(pages, Lows, p) = Lows[p]
  <2>1. pages[p].level > 0  BY <1>3, <1>4
  <2> QED  BY <1>0, <1>4, <2>1, FenceIs
<1>7. q = RightsOf(pages, k)[p]  BY SearchesAre DEF Parent, GoRight
<1>8. c \in Int
  <2>1. post[t] \in [sep : Str, child : Int]  BY DEF TreeInv, Typed
  <2> QED  BY <2>1
<1> HIDE DEF q, p, k, c, level
<1>9. Reaches(pages, Lows, k, p, q)  BY <1>0, <1>3, <1>4, <1>6, <1>7, RightIs
<1>10. q \in DOMAIN pages /\ pages[q].level = level + 1 /\ Covers(pages[q], Lows[q], k)
  BY <1>4, <1>9 DEF Reaches
<1>11. NodeOK(pages[q], Lows[q])  BY <1>0, <1>10, TreePage
<1>12. ~TooShort(pages[q], k)  BY <1>3, <1>10, <1>11, RemoveKeyPrefixIs DEF Stripped
<1>13. q \in Nat
  <2>1. PICK n \in Nat : DOMAIN pages = 0 .. n - 1  BY <1>0 DEF Tree, Pool
  <2> QED  BY <2>1, <1>10
<1>14. \A i \in DOMAIN pages[q].slots : KeyAt(pages[q], i) # k
  <2> SUFFICES ASSUME NEW i \in DOMAIN pages[q].slots, KeyAt(pages[q], i) = k  PROVE FALSE
    OBVIOUS
  <2> DEFINE r == pages[q].slots[i].ref
  <2>1. Has(pages[q], k, r)  BY DEF Has
  <2> HIDE DEF r
  <2>2. EntryOK(pages, Lows, level + 1, k, r)  BY <1>0, <1>10, <2>1 DEF Tree, EntriesOK
  <2>3. r \in DOMAIN pages /\ pages[r].level = level /\ k = Fence(pages, Lows, r)
    BY <1>3, <2>2 DEF EntryOK
  <2>4. pages[r].level = pages[c].level  BY <2>3 DEF level
  <2>5. Fence(pages, Lows, r) = Fence(pages, Lows, c)  BY <1>2, <2>3
  <2>6. r = c  BY <1>0, <1>2, <2>3, <2>4, <2>5, FencesDiffer
  <2>7. pages[q].level > 0  BY <1>3, <1>10
  <2>8. Posted(pages, c)  BY <1>10, <2>1, <2>6, <2>7 DEF Posted
  <2> QED  BY <1>2, <2>8
<1>15. k # Lows[q]
  <2>1. pages[q].level > 0  BY <1>3, <1>10
  <2>2. pages[q].slots # <<>> /\ KeyAt(pages[q], 1) = Lows[q]
    BY <1>11, <2>1 DEF NodeOK, StartsAt
  <2>3. pages[q].slots \in Seq(Slot)  BY <1>11, PageParts DEF NodeOK, Strings
  <2>4. 1 \in DOMAIN pages[q].slots  BY <2>2, <2>3
  <2> QED  BY <2>2, <2>4, <1>14
<1>16. NewHere(pages[q], Lows[q], k)  BY <1>10, <1>11, <1>14, <1>15 DEF NewHere
<1> QED
  BY <1>1, <1>2, <1>3, <1>4, <1>5, <1>8, <1>9, <1>10, <1>11, <1>12, <1>13, <1>16
  DEF k, c, p, q, level

(* A key that is not found is no entry of the leaf. *)
LEMMA LeafNew ==
  ASSUME EncodeOrdered, TreeInv, NEW t \in Thread, pc[t] = "leaf", ~Found(t)
  PROVE  NewHere(pages[Leaf(t)], Lows[Leaf(t)], call[t].key)
<1> DEFINE k == call[t].key
           page == pages[Leaf(t)]
           lo == Lows[Leaf(t)]
<1>1. k \in Str /\ NodeOK(page, lo) /\ Covers(page, lo, k) /\ page.level = 0  BY LeafIs
<1>2. ~LeafFound(page, k)  BY DEF Found
<1> HIDE DEF k, page, lo
<1>3. \A i \in DOMAIN page.slots : KeyAt(page, i) # k  BY <1>1, <1>2, LeafFoundIs
<1>4. page.level > 0 \/ lo # <<>> => k # lo
  <2> SUFFICES ASSUME page.level > 0 \/ lo # <<>>  PROVE k # lo  OBVIOUS
  <2>1. page.slots # <<>> /\ KeyAt(page, 1) = lo  BY <1>1 DEF NodeOK, StartsAt
  <2>2. page.slots \in Seq(Slot)  BY <1>1, PageParts DEF NodeOK, Strings
  <2>3. 1 \in DOMAIN page.slots  BY <2>1, <2>2
  <2> QED  BY <2>1, <2>3, <1>3
<1> QED  BY <1>1, <1>3, <1>4 DEF NewHere, k, page, lo

-----------------------------------------------------------------------------
(* Steps that leave the pages as they are. *)

LEMMA QuietKeeps ==
  ASSUME TreeInv, NEW t \in Thread, Typed', UNCHANGED <<pages, root>>,
         \A u \in Thread : u # t => Same(u),
         Placed(pages, Lows, pc'[t], call'[t], cur'[t], stack'[t], post'[t]),
         pc'[t] \in {"root", "post"} => Owing(t) /\ post'[t].child = post[t].child
  PROVE  TreeInv'
<1>1. Tree(pages', root', Lows)  BY DEF TreeInv, Lows
<1>2. Grown(pages', Lows, pages, LowsOf(pages))  BY DEF Grown, Lows
<1>3. Placed(pages', Lows, pc'[t], call'[t], cur'[t], stack'[t], post'[t])  OBVIOUS
<1>4. \A c : Posted(pages', c) => Posted(pages, c)  OBVIOUS
<1> QED  BY <1>1, <1>2, <1>3, <1>4, OthersKept

(* A thread that goes on to "return" is nowhere in the tree.               *)
LEMMA NowhereIs ==
  ASSUME NEW pg, NEW low, NEW l, l \notin {"leaf", "root", "post"},
         NEW c, NEW p, NEW s, NEW m
  PROVE  Placed(pg, low, l, c, p, s, m)
BY DEF Placed

LEMMA GotoTyped ==
  ASSUME Typed, NEW t \in Thread, NEW l \in {"idle", "leaf", "root", "post", "return"}, Goto(t, l),
         UNCHANGED <<round, todo, call, cur, stack, post>>
  PROVE  Typed' /\ pc'[t] = l /\ \A u \in Thread : u # t => Same(u)
BY DEF Typed, Goto, Same

LEMMA AnswerKeeps ==
  ASSUME TreeInv, NEW t \in Thread, Get(t) \/ Refuse(t)
  PROVE  TreeInv'
<1>1. Goto(t, "return") /\ UNCHANGED <<pages, root, round, todo, call, cur, stack, post>>
  BY DEF Get, Refuse
<1>2. Typed' /\ pc'[t] = "return" /\ \A u \in Thread : u # t => Same(u)
  BY <1>1, GotoTyped DEF TreeInv
<1>3. Placed(pages, Lows, pc'[t], call'[t], cur'[t], stack'[t], post'[t])  BY <1>2, NowhereIs
<1> QED  BY <1>1, <1>2, <1>3, QuietKeeps

LEMMA ReturnKeeps ==
  ASSUME TreeInv, NEW t \in Thread, Return(t)
  PROVE  TreeInv'
<1>1. Typed' /\ pc'[t] = "idle" /\ \A u \in Thread : u # t => Same(u)
  <2>1. NoPost \in [sep : Str, child : Int] /\ NoPage \in Int /\ <<>> \in Seq(Int)
    BY DEF NoPost, Str, NoPage
  <2> QED  BY <2>1 DEF TreeInv, Typed, Return, Goto, Same
<1>2. Placed(pages, Lows, pc'[t], call'[t], cur'[t], stack'[t], post'[t])  BY <1>1, NowhereIs
<1> QED  BY <1>1, <1>2, QuietKeeps DEF Return

(* What Descent finds. *)
LEMMA DescentFinds ==
  ASSUME TreeInv, NEW k \in Str, NEW drop \in Nat, pages[root].level >= drop
  PROVE  LET path == Descent(k, drop) IN
         /\ Arrives(pages, Lows, Front(path), Last(path), drop, k)
         /\ Front(path) \in Seq(Int) /\ Last(path) \in Int
<1> DEFINE path == Descent(k, drop)
<1>0. Tree(pages, root, Lows)  BY DEF TreeInv, Lows
<1>1. root \in DOMAIN pages /\ Fence(pages, Lows, root) = <<>>  BY <1>0, RootIsFirst
<1>2. ~Below(k, Fence(pages, Lows, root))  BY <1>1, EmptyFirst
<1>3. path = DescentsOf(pages, k, drop)[root]  BY SearchesAre DEF Descent
<1> HIDE DEF path
<1>4. Goes(pages, Lows, k, drop, root, path)  BY <1>0, <1>1, <1>2, <1>3, DescentIs
<1>5. Arrives(pages, Lows, Front(path), Last(path), drop, k)  BY <1>4, GoesArrives
<1>6. DOMAIN pages \subseteq Int  BY <1>0, NoPageIsNone
<1>7. Front(path) \in Seq(Int) /\ Last(path) \in Int  BY <1>5, <1>6 DEF Arrives
<1> QED  BY <1>5, <1>7 DEF path

LEMMA StartKeeps ==
  ASSUME TreeInv, NEW t \in Thread, Start(t)
  PROVE  TreeInv'
<1>1. PICK c \in Head(todo[t]) :
        LET path == Descent(Encode(c.key), 0) IN
        /\ call' = [call EXCEPT ![t] = c]
        /\ cur' = [cur EXCEPT ![t] = Last(path)]
        /\ stack' = [stack EXCEPT ![t] = Front(path)]
  BY DEF Start
<1>2. /\ pc' = [pc EXCEPT ![t] = "leaf"] /\ todo' = [todo EXCEPT ![t] = Tail(@)]
      /\ todo[t] # <<>> /\ UNCHANGED <<pages, root, round, post>>
  BY DEF Start, Goto
<1>3. todo[t] \in Seq(SUBSET Calls)  BY DEF TreeInv, Typed
<1>4. Head(todo[t]) \in SUBSET Calls /\ Tail(todo[t]) \in Seq(SUBSET Calls)  BY <1>2, <1>3
<1>5. c \in Calls /\ c.key \in Key  BY <1>4 DEF Calls
<1> DEFINE k == Encode(c.key)
           path == Descent(k, 0)
<1>6. k \in Str  BY <1>5, KeysAreStrings
<1>7. pages[root].level >= 0
  <2>1. Tree(pages, root, Lows)  BY DEF TreeInv, Lows
  <2>2. pages[root].level \in Nat  BY <2>1, RootIsFirst, TreePage
  <2> QED  BY <2>2
<1>8. /\ Arrives(pages, Lows, Front(path), Last(path), 0, k)
      /\ Front(path) \in Seq(Int) /\ Last(path) \in Int
  <2> HIDE DEF k
  <2> QED  BY <1>6, <1>7, DescentFinds
<1>9. /\ call' = [call EXCEPT ![t] = c] /\ cur' = [cur EXCEPT ![t] = Last(path)]
      /\ stack' = [stack EXCEPT ![t] = Front(path)]
  BY <1>1
<1> HIDE DEF path
<1>10. Typed'  BY <1>2, <1>4, <1>5, <1>8, <1>9 DEF TreeInv, Typed
<1>11. \A u \in Thread : u # t => Same(u)  BY <1>2, <1>9 DEF TreeInv, Typed, Same
<1>12. pc'[t] = "leaf" /\ call'[t] = c /\ cur'[t] = Last(path) /\ stack'[t] = Front(path)
  BY <1>2, <1>9 DEF TreeInv, Typed
<1>13. Placed(pages, Lows, pc'[t], call'[t], cur'[t], stack'[t], post'[t])
  BY <1>5, <1>8, <1>12 DEF Placed
<1> QED  BY <1>2, <1>10, <1>11, <1>12, <1>13, QuietKeeps

(* No second descent starts at a root that is not above the page that      *)
(* split: its separator would be posted into that root, a leaf or a page   *)
(* of the same level.  (Finding 1 is what happens then.)                   *)
RedescentHigh ==
  \A t \in Thread : Redescend(t) => pages[root].level > pages[cur[t]].level

LEMMA RedescendKeeps ==
  ASSUME TreeInv, RedescentHigh, NEW t \in Thread, Redescend(t)
  PROVE  TreeInv'
<1> DEFINE k == post[t].sep
           c == post[t].child
           drop == pages[cur[t]].level + 1
           path == Descent(k, drop)
<1>0. Tree(pages, root, Lows)  BY DEF TreeInv, Lows
<1>1. /\ pc[t] = "root" /\ pages[root].level > pages[cur[t]].level
      /\ cur' = [cur EXCEPT ![t] = Last(path)] /\ stack' = [stack EXCEPT ![t] = Front(path)]
      /\ pc' = [pc EXCEPT ![t] = "post"] /\ UNCHANGED <<pages, root, round, todo, call, post>>
  BY DEF Redescend, At, Goto, RedescentHigh
<1>2. /\ Carries(pages, Lows, post[t]) /\ cur[t] \in DOMAIN pages
      /\ pages[c].level = pages[cur[t]].level
  BY <1>1 DEF TreeInv, Where, Placed, Lows
<1>3. k \in Str
  <2>1. post[t] \in [sep : Str, child : Int]  BY DEF TreeInv, Typed
  <2> QED  BY <2>1
<1>4. drop \in Nat /\ pages[root].level >= drop /\ drop = pages[c].level + 1
  <2>1. pages[cur[t]].level \in Nat /\ pages[root].level \in Nat
    BY <1>0, <1>2, RootIsFirst, TreePage
  <2> QED  BY <1>1, <1>2, <2>1
<1> HIDE DEF drop
<1>5. /\ Arrives(pages, Lows, Front(path), Last(path), drop, k)
      /\ Front(path) \in Seq(Int) /\ Last(path) \in Int
  <2> HIDE DEF k
  <2> QED  BY <1>3, <1>4, DescentFinds
<1> HIDE DEF path
<1>6. Typed'  BY <1>1, <1>5 DEF TreeInv, Typed
<1>7. \A u \in Thread : u # t => Same(u)  BY <1>1 DEF TreeInv, Typed, Same
<1>8. pc'[t] = "post" /\ cur'[t] = Last(path) /\ stack'[t] = Front(path) /\ post'[t] = post[t]
  BY <1>1 DEF TreeInv, Typed
<1>9. Placed(pages, Lows, pc'[t], call'[t], cur'[t], stack'[t], post'[t])
  BY <1>2, <1>4, <1>5, <1>8 DEF Placed
<1>10. Owing(t)  BY <1>1 DEF Owing
<1> QED  BY <1>1, <1>6, <1>7, <1>8, <1>9, <1>10, QuietKeeps

-----------------------------------------------------------------------------
(* Steps that write one page. *)

(* What a page takes in: nothing but one entry. *)
Gains(page, old, k, ref) ==
  \A x, r : Has(page, x, r) => Has(old, x, r) \/ (x = k /\ r = ref)

(* No page is posted but by what a written page of the upper levels gains. *)
LEMMA WritePosts ==
  ASSUME NEW pg, NEW p \in DOMAIN pg, NEW page, page.level = pg[p].level,
         NEW k, NEW ref, Gains(page, pg[p], k, ref),
         NEW c, Posted([pg EXCEPT ![p] = page], c)
  PROVE  Posted(pg, c) \/ (pg[p].level > 0 /\ c = ref)
<1> DEFINE pg2 == [pg EXCEPT ![p] = page]
<1>1. PICK q \in DOMAIN pg2 : pg2[q].level > 0 /\ \E x : Has(pg2[q], x, c)  BY DEF Posted
<1>2. PICK x : Has(pg2[q], x, c)  BY <1>1
<1>3. CASE q = p
  <2>1. Has(page, x, c) /\ pg[p].level > 0  BY <1>1, <1>2, <1>3
  <2> QED  BY <2>1 DEF Posted, Gains
<1>4. CASE q # p
  <2>1. q \in DOMAIN pg /\ pg2[q] = pg[q]  BY <1>4
  <2> QED  BY <1>1, <1>2, <2>1 DEF Posted
<1> QED  BY <1>3, <1>4

(* A page takes in an entry of its level, or loses some. *)
LEMMA WriteStep ==
  ASSUME TreeInv, NEW t \in Thread, NEW p \in DOMAIN pages, NEW page,
         Write(p, page), UNCHANGED root, Typed', pc'[t] = "return",
         \A u \in Thread : u # t => Same(u),
         NodeOK(page, Lows[p]), SameFences(page, pages[p]), NEW k, NEW ref,
         Gains(page, pages[p], k, ref),
         Has(page, k, ref) => EntryOK(pages, Lows, pages[p].level, k, ref),
         pages[p].level > 0 => Owing(t) /\ ref = post[t].child
  PROVE  TreeInv'
<1>0. Tree(pages, root, Lows)  BY DEF TreeInv, Lows
<1>1. pages' = [pages EXCEPT ![p] = page]  BY DEF Write
<1>2. \A x, r : Has(page, x, r) => EntryOK(pages, Lows, pages[p].level, x, r)
  <2>1. \A x, r : Has(pages[p], x, r) => EntryOK(pages, Lows, pages[p].level, x, r)
    BY <1>0 DEF Tree, EntriesOK
  <2> QED  BY <2>1 DEF Gains
<1>3. Tree(pages', root', Lows) /\ Grown(pages', Lows, pages, LowsOf(pages))
  <2>1. Tree(pages', root, Lows) /\ Grown(pages', Lows, pages, Lows)
    BY <1>0, <1>1, <1>2, WriteKeeps
  <2> QED  BY <2>1 DEF Lows
<1>4. Placed(pages', Lows, pc'[t], call'[t], cur'[t], stack'[t], post'[t])  BY NowhereIs
<1>5. \A c : Posted(pages', c) =>
        Posted(pages, c) \/ c = root \/ (Owing(t) /\ c = post[t].child)
  <2> SUFFICES ASSUME NEW c, Posted(pages', c)
               PROVE  Posted(pages, c) \/ (Owing(t) /\ c = post[t].child)
    OBVIOUS
  <2>1. page.level = pages[p].level  BY DEF SameFences
  <2>2. p \in DOMAIN pages /\ Gains(page, pages[p], k, ref)  OBVIOUS
  <2>4. Posted([pages EXCEPT ![p] = page], c)  BY <1>1
  <2>3. Posted(pages, c) \/ (pages[p].level > 0 /\ c = ref)
    BY ONLY <2>1, <2>2, <2>4, WritePosts
  <2> QED  BY <2>3
<1> QED  BY <1>3, <1>4, <1>5, OthersKept

LEMMA InsertKeeps ==
  ASSUME EncodeOrdered, TreeInv, NEW t \in Thread, Insert(t)
  PROVE  TreeInv'
<1> DEFINE p == Leaf(t)
           k == call[t].key
           v == call[t].val
           page == LeafInsert(pages[p], k, v)
<1>1. /\ pc[t] = "leaf" /\ ~Found(t) /\ Write(p, page) /\ Goto(t, "return")
      /\ UNCHANGED <<root, round, todo, call, cur, stack, post>>
  BY DEF Insert, AtLeaf, At
<1>2. /\ p \in DOMAIN pages /\ pages[p].level = 0 /\ k \in Str /\ v \in Int
      /\ k \in Key /\ v \in Val
  BY <1>1, LeafIs
<1>3. NewHere(pages[p], Lows[p], k)  BY <1>1, LeafNew
<1>4. Typed' /\ pc'[t] = "return" /\ \A u \in Thread : u # t => Same(u)
  BY <1>1, GotoTyped DEF TreeInv
<1> HIDE DEF p, k, v
<1>5. PutIn(page, pages[p], Lows[p], k, v)  BY <1>2, <1>3, LeafInsertIs
<1>6. EntryOK(pages, Lows, pages[p].level, k, v)  BY <1>2 DEF EntryOK
<1> HIDE DEF page
<1>7. /\ NodeOK(page, Lows[p]) /\ SameFences(page, pages[p])
      /\ Gains(page, pages[p], k, v)
  BY <1>5 DEF PutIn, Gains
<1>8. ~(pages[p].level > 0)  BY <1>2
<1>9. UNCHANGED root  BY <1>1
<1> QED  BY <1>1, <1>2, <1>4, <1>6, <1>7, <1>8, <1>9, WriteStep

LEMMA PostKeeps ==
  ASSUME EncodeOrdered, TreeInv, NEW t \in Thread, PostSeparator(t)
  PROVE  TreeInv'
<1> DEFINE p == Parent(t)
           k == post[t].sep
           c == post[t].child
           page == InterInsert(pages[p], k, c)
<1>1. /\ pc[t] = "post" /\ Write(p, page) /\ Goto(t, "return")
      /\ UNCHANGED <<root, round, todo, call, cur, stack, post>>
  BY DEF PostSeparator, AtParent, At
<1>2. /\ p \in DOMAIN pages /\ pages[p].level = pages[c].level + 1 /\ pages[c].level \in Nat
      /\ k \in Str /\ c \in Int /\ NewHere(pages[p], Lows[p], k)
      /\ Carries(pages, Lows, post[t])
  BY <1>1, ParentIs
<1>3. c \in DOMAIN pages /\ k = Fence(pages, Lows, c)  BY <1>2 DEF Carries
<1>4. Typed' /\ pc'[t] = "return" /\ \A u \in Thread : u # t => Same(u)
  BY <1>1, GotoTyped DEF TreeInv
<1>5. Owing(t) /\ c = post[t].child  BY <1>1 DEF Owing
<1> HIDE DEF p, k, c
<1>6. PutIn(page, pages[p], Lows[p], k, c)  BY <1>2, InterInsertIs
<1>7. EntryOK(pages, Lows, pages[p].level, k, c)
  <2>1. pages[p].level # 0 /\ pages[c].level = pages[p].level - 1  BY <1>2
  <2> QED  BY <1>3, <2>1 DEF EntryOK
<1> HIDE DEF page
<1>8. /\ NodeOK(page, Lows[p]) /\ SameFences(page, pages[p])
      /\ Gains(page, pages[p], k, c)
  BY <1>6 DEF PutIn, Gains
<1>9. UNCHANGED root  BY <1>1
<1> QED  BY <1>1, <1>2, <1>4, <1>5, <1>7, <1>8, <1>9, WriteStep

(* A delete does not take a leaf's low fence: that would be its first      *)
(* entry, with which its prefix and its parent's separator agree.  (Finding *)
(* 2 is what happens otherwise.)                                           *)
FencesStay ==
  \A t \in Thread :
    pc[t] = "leaf" /\ call[t].kind = "delete" => call[t].key # Low(Leaf(t))

LEMMA LowIs ==
  ASSUME NEW p \in DOMAIN pages
  PROVE  Low(p) = Lows[p]
BY DEF Low, LeftOf, Lows, LowsOf, LowOf

LEMMA DeleteKeeps ==
  ASSUME EncodeOrdered, TreeInv, FencesStay, NEW t \in Thread, Delete(t)
  PROVE  TreeInv'
<1> DEFINE p == Leaf(t)
           k == call[t].key
           page == LeafDelete(pages[p], k)
<1>1. /\ pc[t] = "leaf" /\ call[t].kind = "delete" /\ Goto(t, "return")
      /\ UNCHANGED <<root, round, todo, call, cur, stack, post>>
  BY DEF Delete, AtLeaf, At
<1>2. /\ p \in DOMAIN pages /\ pages[p].level = 0 /\ k \in Str /\ k \in Key
      /\ NodeOK(pages[p], Lows[p]) /\ Covers(pages[p], Lows[p], k)
  BY <1>1, LeafIs
<1>3. Typed' /\ pc'[t] = "return" /\ \A u \in Thread : u # t => Same(u)
  BY <1>1, GotoTyped DEF TreeInv
<1>4. CASE ~Found(t)
  <2>1. UNCHANGED <<pages, root>>  BY <1>1, <1>4 DEF Delete
  <2>2. Placed(pages, Lows, pc'[t], call'[t], cur'[t], stack'[t], post'[t])
    BY <1>3, NowhereIs
  <2> QED  BY <1>3, <2>1, <2>2, QuietKeeps
<1>5. CASE Found(t)
  <2>1. Write(p, page) /\ LeafFound(pages[p], k)  BY <1>5 DEF Delete, Found
  <2>2. k # Lows[p]
    <3>1. k # Low(p)  BY <1>1 DEF FencesStay
    <3> QED  BY <1>2, <3>1, LowIs
  <2> HIDE DEF p, k
  <2>3. TakenOut(page, pages[p], Lows[p], k)  BY <1>2, <2>1, <2>2, LeafDeleteKeeps
  <2> HIDE DEF page
  <2>4. /\ NodeOK(page, Lows[p]) /\ SameFences(page, pages[p])
        /\ Gains(page, pages[p], k, 0) /\ ~Has(page, k, 0)
    BY <2>3 DEF TakenOut, Gains
  <2>5. ~(pages[p].level > 0)  BY <1>2
  <2>6. UNCHANGED root  BY <1>1
  <2> QED  BY <1>2, <1>3, <2>1, <2>4, <2>5, <2>6, WriteStep
<1> QED  BY <1>4, <1>5

-----------------------------------------------------------------------------
(* Steps that add a page. *)

AfterSplit(pg, p, new, h) ==
  [q \in DOMAIN pg \cup {new} |-> IF q = new THEN h.right ELSE IF q = p THEN h.left ELSE pg[q]]

HalvesGain(h, old, k, ref) ==
  /\ h.left.level = old.level /\ h.right.level = old.level
  /\ Gains(h.left, old, k, ref) /\ Gains(h.right, old, k, ref)

LEMMA SplitPosts ==
  ASSUME NEW pg, NEW p \in DOMAIN pg, NEW new, new \notin DOMAIN pg, NEW h, NEW k, NEW ref, HalvesGain(h, pg[p], k, ref),
         NEW c, Posted(AfterSplit(pg, p, new, h), c)
  PROVE  Posted(pg, c) \/ (pg[p].level > 0 /\ c = ref)
<1> DEFINE pg2 == AfterSplit(pg, p, new, h)
<1>0. /\ DOMAIN pg2 = DOMAIN pg \cup {new}
      /\ pg2[new] = h.right /\ pg2[p] = h.left
      /\ \A q \in DOMAIN pg : q # p => pg2[q] = pg[q]
  BY DEF AfterSplit
<1> HIDE DEF pg2
<1>1. PICK q \in DOMAIN pg2 : pg2[q].level > 0 /\ \E x : Has(pg2[q], x, c)
  BY DEF Posted, pg2
<1>2. PICK x : Has(pg2[q], x, c)  BY <1>1
<1>3. CASE q = p \/ q = new
  <2>1. pg[p].level > 0 /\ (Has(pg[p], x, c) \/ c = ref)
    BY <1>0, <1>1, <1>2, <1>3 DEF HalvesGain, Gains
  <2> QED  BY <2>1 DEF Posted
<1>4. CASE q # p /\ q # new
  <2>1. q \in DOMAIN pg /\ pg2[q] = pg[q]  BY <1>0, <1>4
  <2> QED  BY <1>1, <1>2, <2>1 DEF Posted
<1> QED  BY <1>3, <1>4

LEMMA PostedIsPage ==
  ASSUME NEW pg, NEW rt, NEW low, Tree(pg, rt, low), NEW c, Posted(pg, c)
  PROVE  c \in DOMAIN pg
<1>1. PICK p \in DOMAIN pg : pg[p].level > 0 /\ \E x : Has(pg[p], x, c)  BY DEF Posted
<1>2. PICK x : Has(pg[p], x, c)  BY <1>1
<1>3. EntryOK(pg, low, pg[p].level, x, c)  BY <1>2 DEF Tree, EntriesOK
<1>4. pg[p].level # 0  BY <1>1, TreePage
<1> QED  BY <1>3, <1>4 DEF EntryOK

LEMMA SplitStep ==
  ASSUME EncodeOrdered, TreeInv, NEW t \in Thread, pc[t] \in {"leaf", "post"},
         NEW p \in DOMAIN pages, NEW h, NEW k, NEW ref,
         SplitInto(h, pages[p], Lows[p], NewPage, k, ref),
         EntryOK(pages, Lows, pages[p].level, k, ref),
         pages[p].level > 0 => Owing(t) /\ ref = post[t].child,
         NEW j, Arrives(pages, Lows, stack[t], cur[t], pages[p].level, j),
         NEW i, Reaches(pages, Lows, i, cur[t], p),
         WriteSplit(p, h), UNCHANGED <<root, round, todo, call>>,
         NEW sep, sep = IF pages[p].level = 0 THEN Encode(h.sep) ELSE h.sep,
         Propagate(t, p, sep)
  PROVE  TreeInv'
<1> DEFINE new == NewPage
           low == WithNew(Lows, new, h.sep)
           level == pages[p].level
           s == stack[t]
<1>0. Tree(pages, root, Lows) /\ Typed  BY DEF TreeInv, Lows
<1>1. pages' = [q \in DOMAIN pages \cup {new} |->
                  IF q = new THEN h.right ELSE IF q = p THEN h.left ELSE pages[q]]
  BY DEF WriteSplit
<1>2. /\ new \in Nat /\ new \notin DOMAIN pages /\ new # NoPage /\ Pool(pages')
      /\ DOMAIN pages \subseteq Nat
  <2>1. Pool(pages)  BY <1>0 DEF Tree
  <2>2. DOMAIN pages' = DOMAIN pages \cup {new}  BY <1>1
  <2> QED  BY <2>1, <2>2, PoolIs DEF NewPage
<1>3. SplitInto(h, pages[p], Lows[p], new, k, ref)  OBVIOUS
<1> HIDE DEF new
<1>4. Tree(pages', root, low) /\ Grown(pages', low, pages, Lows)
  BY <1>0, <1>1, <1>2, <1>3, SplitKeeps
<1>5. /\ h.sep \in Str /\ Below(Lows[p], h.sep) /\ h.left.level = level /\ h.right.level = level
      /\ Gains(h.left, pages[p], k, ref) /\ Gains(h.right, pages[p], k, ref)
  BY <1>3 DEF SplitInto, Gains
<1>6. Lows[p] \in Str /\ DOMAIN Lows = DOMAIN pages /\ level \in Nat
  <2>1. DOMAIN Lows = DOMAIN pages  BY DEF Lows, LowsOf
  <2> QED  BY <1>0, <2>1, TreePage
<1>7. h.sep # <<>>  BY <1>5, <1>6, EmptyFirst
<1>8. pages'[new].level = level /\ pages'[p].level = level /\ p # new
      /\ p \in DOMAIN pages' /\ new \in DOMAIN pages'
  BY <1>1, <1>2, <1>5
<1>9. low[new] = h.sep /\ low[p] = Lows[p]  BY <1>2, <1>6 DEF WithNew
<1> HIDE DEF low, level
<1>10. Fence(pages', low, new) = sep
  BY <1>7, <1>8, <1>9 DEF Fence, level
<1>11. sep \in Str /\ sep # <<>>
  <2>1. Fence(pages', low, new) \in Str /\ (Fence(pages', low, new) = <<>> <=> low[new] = <<>>)
    BY <1>4, <1>8, FenceIs
  <2> QED  BY <2>1, <1>7, <1>9, <1>10
<1>12. \A c : Posted(pages', c) => Posted(pages, c) \/ (level > 0 /\ c = ref)
  <2> SUFFICES ASSUME NEW c, Posted(pages', c)
               PROVE  Posted(pages, c) \/ (level > 0 /\ c = ref)
    OBVIOUS
  <2>1. Posted(AfterSplit(pages, p, new, h), c)  BY <1>1 DEF AfterSplit
  <2>2. p \in DOMAIN pages /\ new \notin DOMAIN pages /\ HalvesGain(h, pages[p], k, ref)
    BY <1>2, <1>5 DEF level, HalvesGain
  <2>3. Posted(pages, c) \/ (pages[p].level > 0 /\ c = ref)
    BY ONLY <2>1, <2>2, SplitPosts
  <2> QED  BY <2>3 DEF level
<1>13. ~Posted(pages', new)
  <2>1. ~Posted(pages, new)  BY <1>0, <1>2, PostedIsPage
  <2>2. level > 0 => ref \in DOMAIN pages
    <3> SUFFICES ASSUME level > 0  PROVE ref \in DOMAIN pages  OBVIOUS
    <3>1. pages[p].level # 0  BY <1>6 DEF level
    <3> QED  BY <3>1 DEF EntryOK
  <2> QED  BY <1>2, <1>12, <2>1, <2>2
<1>14. post' = [post EXCEPT ![t] = [sep |-> sep, child |-> new]]
  BY DEF Propagate, new
<1>15. post'[t] = [sep |-> sep, child |-> new]  BY <1>0, <1>14 DEF Typed
<1>16. Carries(pages', low, post'[t])
  BY <1>8, <1>10, <1>11, <1>13, <1>15 DEF Carries
<1>17. pages'[post'[t].child].level = level  BY <1>8, <1>15
<1>18. post' \in [Thread -> [sep : Str, child : Int]]
  <2>1. [sep |-> sep, child |-> new] \in [sep : Str, child : Int]  BY <1>2, <1>11
  <2> QED  BY <1>0, <1>14, <2>1 DEF Typed
<1>19. CASE s = <<>>
  <2>1. pc' = [pc EXCEPT ![t] = "root"] /\ cur' = [cur EXCEPT ![t] = p] /\ UNCHANGED stack
    BY <1>19 DEF Propagate, Goto
  <2>2. p \in Int  BY <1>2
  <2>3. Typed'  BY <1>0, <1>18, <2>1, <2>2 DEF Typed
  <2>4. \A u \in Thread : u # t => Same(u)  BY <1>0, <1>14, <2>1 DEF Typed, Same
  <2>5. pc'[t] = "root" /\ cur'[t] = p /\ stack'[t] = <<>>  BY <1>0, <1>19, <2>1 DEF Typed
  <2>6. Placed(pages', low, pc'[t], call'[t], cur'[t], stack'[t], post'[t])
    BY <1>8, <1>16, <1>17, <2>5 DEF Placed
  <2> QED  BY <1>2, <1>4, <1>12, <1>15, <2>3, <2>4, <2>6, OthersKept DEF Lows, level
<1>20. CASE s # <<>>
  <2>1. /\ pc' = [pc EXCEPT ![t] = "post"] /\ cur' = [cur EXCEPT ![t] = Last(s)]
        /\ stack' = [stack EXCEPT ![t] = Front(s)]
    BY <1>20 DEF Propagate, Goto
  <2>2. Below(Fence(pages, Lows, p), sep)
    <3>1. Below(low[p], low[new]) /\ pages'[p].level = pages'[new].level
      BY <1>5, <1>8, <1>9
    <3>2. Below(Fence(pages', low, p), Fence(pages', low, new))
      BY <1>4, <1>8, <3>1, FencesOrdered
    <3>3. Fence(pages', low, p) = Fence(pages, Lows, p)  BY <1>4, FenceKept
    <3> QED  BY <3>2, <3>3, <1>10
  <2>3. Arrives(pages, Lows, Front(s), Last(s), level + 1, sep)
    <3>1. Arrives(pages, Lows, s, cur[t], level, j)  BY DEF level
    <3> HIDE DEF s
    <3> QED  BY <3>1, <1>0, <1>6, <1>11, <1>20, <2>2, ArrivesUp
  <2>4. Arrives(pages', low, Front(s), Last(s), level + 1, sep)  BY <1>4, <2>3, ArrivesKept
  <2>5. Front(s) \in Seq(Int) /\ Last(s) \in Int
    <3>1. Front(s) \in Seq(DOMAIN pages) /\ Last(s) \in DOMAIN pages  BY <2>3 DEF Arrives
    <3> QED  BY <3>1, <1>2
  <2> HIDE DEF s
  <2>6. Typed'  BY <1>0, <1>18, <2>1, <2>5 DEF Typed
  <2>7. \A u \in Thread : u # t => Same(u)  BY <1>0, <1>14, <2>1 DEF Typed, Same
  <2>8. pc'[t] = "post" /\ cur'[t] = Last(s) /\ stack'[t] = Front(s)  BY <1>0, <2>1 DEF Typed
  <2>9. Placed(pages', low, pc'[t], call'[t], cur'[t], stack'[t], post'[t])
    BY <1>15, <1>16, <1>17, <2>4, <2>8 DEF Placed
  <2> QED  BY <1>2, <1>4, <1>12, <1>15, <2>6, <2>7, <2>9, OthersKept DEF Lows, level
<1> QED  BY <1>19, <1>20

LEMMA NewPageIs ==
  ASSUME TreeInv
  PROVE  NewPage \in Nat /\ NewPage \notin DOMAIN pages
<1>1. Pool(pages)  BY DEF TreeInv, Tree
<1> DEFINE pg2 == [p \in DOMAIN pages \cup {Cardinality(DOMAIN pages)} |-> 0]
<1>2. DOMAIN pg2 = DOMAIN pages \cup {Cardinality(DOMAIN pages)}  OBVIOUS
<1> HIDE DEF pg2
<1> QED  BY <1>1, <1>2, PoolIs DEF NewPage

LEMMA SplitLeafKeeps ==
  ASSUME EncodeOrdered, TreeInv, NEW t \in Thread, SplitLeaf(t)
  PROVE  TreeInv'
<1> DEFINE p == Leaf(t)
           k == call[t].key
           v == call[t].val
           new == NewPage
           h == LeafSplit(pages[p], p, new, k, v)
           sep == IF pages[p].level = 0 THEN Encode(h.sep) ELSE h.sep
<1>1. pc[t] = "leaf" /\ ~Found(t) /\ UNCHANGED <<root, round, todo, call>>
  BY DEF SplitLeaf, AtLeaf, At
<1>2. ~LeafSplitFails(pages[p], p, new, k) /\ WriteSplit(p, h) /\ Propagate(t, p, Encode(h.sep))
  BY DEF SplitLeaf
<1>3. /\ p \in DOMAIN pages /\ p \in Nat /\ pages[p].level = 0 /\ k \in Str /\ v \in Int
      /\ k \in Key /\ v \in Val
      /\ Arrives(pages, Lows, stack[t], cur[t], 0, Encode(k))
      /\ Reaches(pages, Lows, k, cur[t], p)
  BY <1>1, LeafIs
<1>4. NewHere(pages[p], Lows[p], k)  BY <1>1, LeafNew
<1>5. new \in Nat  BY NewPageIs
<1>6. ~NoSplitPoint(pages[p])  BY <1>2 DEF LeafSplitFails, SplitFails
<1>7. Propagate(t, p, sep)  BY <1>2, <1>3
<1> DEFINE kk == Encode(k)
<1> HIDE DEF p, k, v
<1>8. SplitInto(h, pages[p], Lows[p], new, k, v)  BY <1>3, <1>4, <1>5, <1>6, LeafSplitIs
<1>9. EntryOK(pages, Lows, pages[p].level, k, v)  BY <1>3 DEF EntryOK
<1>10. ~(pages[p].level > 0)  BY <1>3
<1>11. Arrives(pages, Lows, stack[t], cur[t], pages[p].level, kk)  BY <1>3
<1>12. sep = IF pages[p].level = 0 THEN Encode(h.sep) ELSE h.sep  OBVIOUS
<1>13. WriteSplit(p, h)  BY <1>2
<1>14. SplitInto(h, pages[p], Lows[p], NewPage, k, v)  BY <1>8
<1>15. pc[t] \in {"leaf", "post"}  BY <1>1
<1> HIDE DEF h, sep, new, kk
<1> QED
  BY <1>1, <1>3, <1>7, <1>9, <1>10, <1>11, <1>12, <1>13, <1>14, <1>15, SplitStep

LEMMA SplitInterKeeps ==
  ASSUME EncodeOrdered, TreeInv, NEW t \in Thread, SplitInter(t)
  PROVE  TreeInv'
<1> DEFINE p == Parent(t)
           k == post[t].sep
           c == post[t].child
           new == NewPage
           h == InterSplit(pages[p], p, new, k, c)
           sep == IF pages[p].level = 0 THEN Encode(h.sep) ELSE h.sep
<1>1. pc[t] = "post" /\ UNCHANGED <<root, round, todo, call>>
  BY DEF SplitInter, AtParent, At
<1>2. ~InterSplitFails(pages[p], p, new, k) /\ WriteSplit(p, h) /\ Propagate(t, p, h.sep)
  BY DEF SplitInter
<1>3. /\ p \in DOMAIN pages /\ p \in Nat /\ pages[p].level = pages[c].level + 1
      /\ pages[c].level \in Nat /\ k \in Str /\ c \in Int
      /\ NewHere(pages[p], Lows[p], k) /\ Carries(pages, Lows, post[t])
      /\ Arrives(pages, Lows, stack[t], cur[t], pages[c].level + 1, k)
      /\ Reaches(pages, Lows, k, cur[t], p)
  BY <1>1, ParentIs
<1>4. c \in DOMAIN pages /\ k = Fence(pages, Lows, c)  BY <1>3 DEF Carries
<1>5. new \in Nat  BY NewPageIs
<1>6. ~NoSplitPoint(pages[p])  BY <1>2 DEF InterSplitFails, SplitFails
<1>7. pages[p].level # 0 /\ pages[c].level = pages[p].level - 1  BY <1>3
<1>8. Propagate(t, p, sep)  BY <1>2, <1>7
<1>9. Owing(t) /\ c = post[t].child  BY <1>1 DEF Owing
<1>10. Arrives(pages, Lows, stack[t], cur[t], pages[p].level, k)  BY <1>3
<1> HIDE DEF p, k, c
<1>11. SplitInto(h, pages[p], Lows[p], new, k, c)  BY <1>3, <1>5, <1>6, InterSplitIs
<1>12. EntryOK(pages, Lows, pages[p].level, k, c)  BY <1>4, <1>7 DEF EntryOK
<1>13. sep = IF pages[p].level = 0 THEN Encode(h.sep) ELSE h.sep  OBVIOUS
<1>14. WriteSplit(p, h)  BY <1>2
<1>15. SplitInto(h, pages[p], Lows[p], NewPage, k, c)  BY <1>11
<1>16. pc[t] \in {"leaf", "post"}  BY <1>1
<1> HIDE DEF h, sep, new
<1> QED
  BY <1>1, <1>3, <1>8, <1>9, <1>10, <1>12, <1>13, <1>14, <1>15, <1>16, SplitStep

Holds(page, a, b) == \A x, r : Has(page, x, r) => r \in {a, b}

LEMMA RootPosts ==
  ASSUME NEW pg, NEW new, NEW page, NEW a, NEW b, Holds(page, a, b),
         NEW c, Posted(AfterRaise(pg, new, page), c)
  PROVE  Posted(pg, c) \/ c = a \/ c = b
<1> DEFINE pg2 == AfterRaise(pg, new, page)
<1>0. /\ DOMAIN pg2 = DOMAIN pg \cup {new} /\ pg2[new] = page
      /\ \A q \in DOMAIN pg : q # new => pg2[q] = pg[q]
  BY DEF AfterRaise
<1> HIDE DEF pg2
<1>1. PICK q \in DOMAIN pg2 : pg2[q].level > 0 /\ \E x : Has(pg2[q], x, c)
  BY DEF Posted, pg2
<1>2. CASE q = new  BY <1>0, <1>1, <1>2 DEF Holds
<1>3. CASE q # new
  <2>1. q \in DOMAIN pg /\ pg2[q] = pg[q]  BY <1>0, <1>3
  <2> QED  BY <1>1, <2>1 DEF Posted
<1> QED  BY <1>2, <1>3

LEMMA RaiseStep ==
  ASSUME EncodeOrdered, TreeInv, NEW t \in Thread, Raise(t)
  PROVE  TreeInv'
<1> DEFINE k == post[t].sep
           c == post[t].child
           new == NewPage
           page == RootNode(pages[root].level, k, root, c)
           low == WithNew(Lows, new, <<>>)
<1>0. Tree(pages, root, Lows)  BY DEF TreeInv, Lows
<1>1. /\ pc[t] = "root" /\ root = cur[t] /\ root' = new /\ Goto(t, "return")
      /\ UNCHANGED <<round, todo, call, cur, stack, post>>
  BY DEF Raise, At
<1>2. pages' = AfterRaise(pages, new, page)  BY <1>1 DEF Raise, AfterRaise
<1>3. /\ c \in DOMAIN pages /\ k = Fence(pages, Lows, c) /\ k # <<>>
      /\ pages[c].level = pages[root].level
  BY <1>1 DEF TreeInv, Where, Placed, Carries, Lows
<1>4. new \notin DOMAIN pages /\ new # NoPage /\ Pool(pages')
  <2>1. Pool(pages)  BY <1>0 DEF Tree
  <2>2. DOMAIN pages' = DOMAIN pages \cup {new}  BY <1>2 DEF AfterRaise
  <2> QED  BY <2>1, <2>2, PoolIs DEF NewPage
<1>5. Typed' /\ pc'[t] = "return" /\ \A u \in Thread : u # t => Same(u)
  BY <1>1, GotoTyped DEF TreeInv
<1>6. Owing(t)  BY <1>1 DEF Owing
<1>7. page = RootNode(pages[root].level, Fence(pages, Lows, c), root, c)  BY <1>3
<1> HIDE DEF page, new, k
<1>8. /\ Tree(pages', new, low) /\ Grown(pages', low, pages, Lows)
      /\ Holds(page, root, c)
  <2>1. Fence(pages, Lows, c) # <<>>  BY <1>3
  <2> HIDE DEF c
  <2>2. NewRoot(pages, root, Lows, c, new, page)
    BY <1>0, <1>2, <1>3, <1>4, <1>7, <2>1 DEF NewRoot
  <2>3. Raised(AfterRaise(pages, new, page), pages, root, Lows, c, new, page)
    BY ONLY <2>2, RaiseKeeps
  <2> QED  BY <1>2, <2>3 DEF Raised, Holds
<1>9. \A d : Posted(pages', d) => Posted(pages, d) \/ d = root \/ (Owing(t) /\ d = c)
  <2> SUFFICES ASSUME NEW d, Posted(pages', d)
               PROVE  Posted(pages, d) \/ d = root \/ d = c
    BY <1>6
  <2> HIDE DEF c
  <2>1. Posted(AfterRaise(pages, new, page), d)  BY <1>2
  <2> QED  BY ONLY <1>8, <2>1, RootPosts
<1>10. Placed(pages', low, pc'[t], call'[t], cur'[t], stack'[t], post'[t])
  BY <1>5, NowhereIs
<1>11. Tree(pages', root', low) /\ Grown(pages', low, pages, LowsOf(pages))
  BY <1>1, <1>8 DEF Lows
<1> HIDE DEF low
<1> QED  BY <1>5, <1>9, <1>10, <1>11, OthersKept

LEMMA TreeStep ==
  ASSUME EncodeOrdered, TreeInv, FencesStay, [RedescentHigh]_vars, [Next]_vars
  PROVE  TreeInv'
<1>1. CASE UNCHANGED vars  BY <1>1, TreeStutter
<1>2. CASE NextRound  BY <1>2, TreeNextRound
<1>3. CASE Ended  BY <1>3, TreeStutter DEF Ended
<1>4. ASSUME NEW t \in Thread, Step(t), RedescentHigh  PROVE TreeInv'
  <2>1. CASE Start(t)  BY <2>1, StartKeeps
  <2>2. CASE Get(t) \/ Refuse(t)  BY <2>2, AnswerKeeps
  <2>3. CASE Insert(t)  BY <2>3, InsertKeeps
  <2>4. CASE SplitLeaf(t)  BY <2>4, SplitLeafKeeps
  <2>5. CASE Delete(t)  BY <2>5, DeleteKeeps
  <2>6. CASE Raise(t)  BY <2>6, RaiseStep
  <2>7. CASE Redescend(t)  BY <1>4, <2>7, RedescendKeeps
  <2>8. CASE PostSeparator(t)  BY <2>8, PostKeeps
  <2>9. CASE SplitInter(t)  BY <2>9, SplitInterKeeps
  <2>10. CASE Return(t)  BY <2>10, ReturnKeeps
  <2> QED
    BY <1>4, <2>1, <2>2, <2>3, <2>4, <2>5, <2>6, <2>7, <2>8, <2>9, <2>10 DEF Step
<1> QED  BY <1>1, <1>2, <1>3, <1>4 DEF Next

-----------------------------------------------------------------------------
(* What follows from the invariant. *)

LEMMA TreeAlways ==
  ASSUME EncodeOrdered
  PROVE  Spec /\ []FencesStay /\ [][RedescentHigh]_vars => []TreeInv
<1>1. Init => TreeInv  BY TreeStart
<1>2. TreeInv /\ FencesStay /\ [RedescentHigh]_vars /\ [Next]_vars => TreeInv'  BY TreeStep
<1> QED  BY <1>1, <1>2, PTL DEF Spec

LEMMA LeftOfIs ==
  ASSUME TreeInv, NEW p \in DOMAIN pages
  PROVE  /\ LeftOf(p) = {} <=> Low(p) = <<>>
         /\ Low(p) = Lows[p] /\ Low(p) \in Str
         /\ \A q, s \in LeftOf(p) : q = s
<1>0. Tree(pages, root, Lows)  BY DEF TreeInv, Lows
<1>1. Low(p) = Lows[p]  BY LowIs
<1>2. p # NoPage  BY <1>0, NoPageIsNone
<1>3. LeftOf(p) = {} => Low(p) = <<>>  BY DEF Low
<1>4. ASSUME NEW q \in LeftOf(p)  PROVE Low(p) # <<>>
  <2>1. q \in DOMAIN pages /\ pages[q].rlink = p  BY DEF LeftOf
  <2>2. NodeOK(pages[q], Lows[q]) /\ Lows[q] \in Str  BY <1>0, <2>1, TreePage
  <2>3. pages[q].high # NoKey  BY <1>2, <2>1, <2>2 DEF NodeOK, EndsOpen
  <2>4. Below(Lows[q], pages[q].high) /\ pages[q].high = Lows[p]
    BY <1>0, <2>1, <2>3, LinkIs
  <2> QED  BY <1>1, <2>2, <2>4, EmptyFirst
<1>5. \A q, s \in LeftOf(p) : q = s
  <2>1. \A q \in LeftOf(p) : q \in DOMAIN pages /\ pages[q].rlink = p  BY DEF LeftOf
  <2> QED  BY <1>0, <1>2, <2>1 DEF Tree, Linked
<1>6. Lows[p] \in Str  BY <1>0, TreePage
<1> QED  BY <1>1, <1>3, <1>4, <1>5, <1>6

LEMMA PrefixesFollow == ASSUME TreeInv  PROVE PrefixesShared
<1>0. Tree(pages, root, Lows)  BY DEF TreeInv, Lows
<1> SUFFICES ASSUME NEW p \in DOMAIN pages, pages[p].prefix # <<>>
             PROVE  /\ SharesFirst(pages[p].prefix, Low(p), Len(pages[p].prefix))
                    /\ pages[p].high # NoKey
                    /\ SharesFirst(pages[p].prefix, pages[p].high, Len(pages[p].prefix))
  BY DEF PrefixesShared
<1>1. Low(p) = Lows[p] /\ NodeOK(pages[p], Lows[p])  BY <1>0, LeftOfIs, TreePage
<1> QED  BY <1>1 DEF NodeOK, Shares

LEMMA AtMostOne ==
  ASSUME NEW S, IsFiniteSet(S), \A x, y \in S : x = y
  PROVE  Cardinality(S) <= 1
<1>1. CASE S = {}  BY <1>1, FS_EmptySet
<1>2. CASE S # {}
  <2>1. PICK x : x \in S  BY <1>2
  <2>2. S = {x}  BY <2>1
  <2> QED  BY <2>2, FS_Singleton
<1> QED  BY <1>1, <1>2

LEMMA FencesFollow == ASSUME TreeInv  PROVE FencesPartition
<1>0. Tree(pages, root, Lows)  BY DEF TreeInv, Lows
<1> SUFFICES ASSUME NEW p \in DOMAIN pages
             PROVE  /\ (pages[p].high = NoKey) = (pages[p].rlink = NoPage)
                    /\ (pages[p].llink = NoPage) = (LeftOf(p) = {})
                    /\ Cardinality(LeftOf(p)) <= 1
                    /\ \A i \in DOMAIN pages[p].slots :
                         /\ ~Below(Whole(p, i), Low(p))
                         /\ pages[p].high # NoKey => Below(Whole(p, i), pages[p].high)
                         /\ i > 1 => Below(Whole(p, i - 1), Whole(p, i))
  BY DEF FencesPartition
<1>1. /\ LeftOf(p) = {} <=> Low(p) = <<>>
      /\ Low(p) = Lows[p] /\ \A q, s \in LeftOf(p) : q = s
  BY LeftOfIs
<1>2. NodeOK(pages[p], Low(p)) /\ Strings(pages[p])  BY <1>0, <1>1, TreePage
<1>3. (pages[p].high = NoKey) = (pages[p].rlink = NoPage)  BY <1>2 DEF NodeOK, EndsOpen
<1>4. (pages[p].llink = NoPage) = (LeftOf(p) = {})  BY <1>1, <1>2 DEF NodeOK, EndsOpen
<1>5. Cardinality(LeftOf(p)) <= 1
  <2>1. LeftOf(p) \in SUBSET DOMAIN pages  BY DEF LeftOf
  <2>2. IsFiniteSet(LeftOf(p))  BY <1>0, <2>1, NoPageIsNone, FS_Subset
  <2> QED  BY <1>1, <2>2, AtMostOne
<1>6. \A i : Whole(p, i) = KeyAt(pages[p], i)  BY DEF Whole, KeyAt
<1>7. ASSUME NEW i \in DOMAIN pages[p].slots
      PROVE  /\ ~Below(Whole(p, i), Low(p))
             /\ pages[p].high # NoKey => Below(Whole(p, i), pages[p].high)
             /\ i > 1 => Below(Whole(p, i - 1), Whole(p, i))
  <2>1. Covers(pages[p], Low(p), KeyAt(pages[p], i))  BY <1>2 DEF NodeOK
  <2>2. i > 1 => Below(KeyAt(pages[p], i - 1), KeyAt(pages[p], i))
    <3> SUFFICES ASSUME i > 1  PROVE Below(KeyAt(pages[p], i - 1), KeyAt(pages[p], i))
      OBVIOUS
    <3>1. DOMAIN pages[p].slots = 1 .. Count(pages[p]) /\ Count(pages[p]) \in Nat
      BY <1>2, PageParts DEF Strings
    <3>2. i - 1 \in DOMAIN pages[p].slots /\ i - 1 < i  BY <3>1
    <3>3. Below(pages[p].slots[i - 1].key, pages[p].slots[i].key)
      BY <1>2, <3>2 DEF NodeOK, InOrder
    <3> QED  BY <1>2, <3>2, <3>3, EntriesInOrder
  <2> QED  BY <1>6, <2>1, <2>2 DEF Covers
<1> QED  BY <1>3, <1>4, <1>5, <1>7

LEMMA SeparatorsFollow == ASSUME TreeInv  PROVE SeparatorsMeetFences
<1>0. Tree(pages, root, Lows)  BY DEF TreeInv, Lows
<1> SUFFICES ASSUME NEW p \in DOMAIN pages \ Leaves, NEW i \in DOMAIN pages[p].slots,
                    NEW c, c = pages[p].slots[i].ref
             PROVE  /\ pages[c].level = pages[p].level - 1
                    /\ Whole(p, i) = IF LeftOf(c) = {} THEN <<>>
                                     ELSE IF c \in Leaves THEN Encode(Low(c)) ELSE Low(c)
  BY DEF SeparatorsMeetFences
<1>1. pages[p].level # 0  BY DEF Leaves
<1>2. Has(pages[p], Whole(p, i), c)  BY DEF Has, Whole, KeyAt
<1>3. EntryOK(pages, Lows, pages[p].level, Whole(p, i), c)
  BY <1>0, <1>2 DEF Tree, EntriesOK
<1>4. c \in DOMAIN pages /\ pages[c].level = pages[p].level - 1
      /\ Whole(p, i) = Fence(pages, Lows, c)
  BY <1>1, <1>3 DEF EntryOK
<1>5. (LeftOf(c) = {} <=> Low(c) = <<>>) /\ Low(c) = Lows[c]  BY <1>4, LeftOfIs
<1>6. c \in Leaves <=> pages[c].level = 0  BY <1>4 DEF Leaves
<1> QED  BY <1>4, <1>5, <1>6 DEF Fence

(* The bytes a page leaves out of its keys are the first of both of its    *)
(* fences, so that RemoveKeyPrefix drops from any key between them what    *)
(* the page left out.  That holds in every behaviour in which no Delete    *)
(* takes a leaf's lower fence out of it (FencesStay; finding 2 shows that  *)
(* Split's choice of the left half's prefix asks for it) and DropToLevel   *)
(* is not called again from a root that is no higher than the page that    *)
(* split (RedescentHigh; finding 1 shows what it leads to).                *)
THEOREM PrefixesAlwaysShared ==
  ASSUME EncodeOrdered
  PROVE  Spec /\ []FencesStay /\ [][RedescentHigh]_vars => []PrefixesShared
<1>1. Spec /\ []FencesStay /\ [][RedescentHigh]_vars => []TreeInv  BY TreeAlways
<1>2. TreeInv => PrefixesShared  BY PrefixesFollow
<1> QED  BY <1>1, <1>2, PTL

(* Under the same conditions the pages of a level hold their keys in order *)
(* and between fences that meet, whatever splits and compactions did, and  *)
(* a page has an llink exactly if there is a page on its left.             *)
THEOREM FencesAlwaysPartition ==
  ASSUME EncodeOrdered
  PROVE  Spec /\ []FencesStay /\ [][RedescentHigh]_vars => []FencesPartition
<1>1. Spec /\ []FencesStay /\ [][RedescentHigh]_vars => []TreeInv  BY TreeAlways
<1>2. TreeInv => FencesPartition  BY FencesFollow
<1> QED  BY <1>1, <1>2, PTL

(* Under the same conditions every separator is the low fence of the page   *)
(* it leads to, encoded above the leaves, however late it was posted: the  *)
(* descent by encoded keys ends where the raw keys belong.                 *)
THEOREM SeparatorsAlwaysMeet ==
  ASSUME EncodeOrdered
  PROVE  Spec /\ []FencesStay /\ [][RedescentHigh]_vars => []SeparatorsMeetFences
<1>1. Spec /\ []FencesStay /\ [][RedescentHigh]_vars => []TreeInv  BY TreeAlways
<1>2. TreeInv => SeparatorsMeetFences  BY SeparatorsFollow
<1> QED  BY <1>1, <1>2, PTL

-----------------------------------------------------------------------------
(* The sizes of a page's entries, with one more and with one less.         *)

LEMMA SizesOfFirst ==
  ASSUME NEW s \in Seq(Slot), NEW m \in 1 .. Len(s)
  PROVE  /\ Sizes(s)[1 .. m] = Sizes(s)[1 .. m - 1] + SizeOf(s, m)
         /\ Sizes(s)[1 .. m] \in Nat /\ Sizes(s)[1 .. m - 1] \in Nat
<1>1. DOMAIN s = 1 .. Len(s) /\ Len(s) \in Nat  OBVIOUS
<1>2. 1 .. m \in SUBSET DOMAIN s /\ 1 .. m - 1 \in SUBSET DOMAIN s /\ m \in 1 .. m  BY <1>1
<1>3. (1 .. m) \ {m} = 1 .. m - 1  BY <1>1
<1> QED  BY <1>2, <1>3, SizesWithout

LEMMA EntriesAdd ==
  ASSUME NEW s \in Seq(Slot), NEW t \in Seq(Slot), NEW i \in 1 .. Len(s) + 1, NEW e \in Slot,
         Inserted(t, s, i, e)
  PROVE  EntriesSize(t) = EntriesSize(s) + EntrySize(e.key)
<1> DEFINE f == Sizes(s)
           g == Sizes(t)
           n == Len(s)
           a == EntrySize(e.key)
           N == {m \in Nat : m <= n + 1 =>
                   g[1 .. m] = IF m < i THEN f[1 .. m] ELSE f[1 .. m - 1] + a}
<1>0. n \in Nat /\ Len(t) = n + 1 /\ DOMAIN s = 1 .. n /\ DOMAIN t = 1 .. n + 1
  BY DEF Inserted
<1>1. f[{}] = 0 /\ g[{}] = 0  BY SizesNone
<1>2. a \in Nat  BY EntrySizeIs DEF Slot
<1>3. \A m \in 1 .. n : /\ f[1 .. m] = f[1 .. m - 1] + SizeOf(s, m)
                        /\ f[1 .. m] \in Nat /\ f[1 .. m - 1] \in Nat
  BY SizesOfFirst
<1>4. \A m \in 1 .. n + 1 : g[1 .. m] = g[1 .. m - 1] + SizeOf(t, m)
  BY <1>0, SizesOfFirst
<1>5. \A m \in 1 .. n + 1 : /\ m < i => SizeOf(t, m) = SizeOf(s, m)
                            /\ m = i => SizeOf(t, m) = a
                            /\ m > i => SizeOf(t, m) = SizeOf(s, m - 1)
  <2>1. \A m \in 1 .. n + 1 : t[m] = IF m < i THEN s[m] ELSE IF m = i THEN e ELSE s[m - 1]
    BY DEF Inserted
  <2> QED  BY <2>1 DEF SizeOf
<1>6. \A m \in 1 .. n : SizeOf(s, m) \in Nat  BY <1>0, SizeOfIs
<1>7. i \in 1 .. n + 1  OBVIOUS
<1>8. g[1 .. n + 1] = EntriesSize(t) /\ f[1 .. n] = EntriesSize(s)
  BY <1>0, EntriesSizeIs
<1>9. f[1 .. 0] = 0 /\ g[1 .. 0] = 0
  <2>1. 1 .. 0 = {}  OBVIOUS
  <2> QED  BY <1>1, <2>1
<1> HIDE DEF f, g, n, a
<1>10. 0 \in N  BY <1>7, <1>9
<1>11. ASSUME NEW m \in Nat, m \in N  PROVE m + 1 \in N
  <2> SUFFICES ASSUME m + 1 <= n + 1
               PROVE  g[1 .. m + 1] = IF m + 1 < i THEN f[1 .. m + 1] ELSE f[1 .. m] + a
    OBVIOUS
  <2>1. m <= n /\ m + 1 \in 1 .. n + 1 /\ (m + 1) - 1 = m  BY <1>0
  <2>2. g[1 .. m] = IF m < i THEN f[1 .. m] ELSE f[1 .. m - 1] + a  BY <1>0, <1>11, <2>1
  <2>3. g[1 .. m + 1] = g[1 .. m] + SizeOf(t, m + 1)  BY <1>4, <2>1
  <2>4. CASE m + 1 < i
    <3>1. m < i /\ m + 1 \in 1 .. n  BY <2>4, <2>1, <1>0, <1>7
    <3>2. f[1 .. m + 1] = f[1 .. m] + SizeOf(s, m + 1)  BY <1>3, <2>1, <3>1
    <3>3. SizeOf(t, m + 1) = SizeOf(s, m + 1)  BY <1>5, <2>1, <2>4
    <3> QED  BY <2>2, <2>3, <2>4, <3>1, <3>2, <3>3
  <2>5. CASE m + 1 = i
    <3>1. m < i  BY <2>5
    <3>2. SizeOf(t, m + 1) = a  BY <1>5, <2>1, <2>5
    <3> QED  BY <2>2, <2>3, <2>5, <3>1, <3>2
  <2>6. CASE m + 1 > i
    <3>1. ~(m < i) /\ m \in 1 .. n /\ ~(m + 1 < i)  BY <2>6, <2>1, <1>0, <1>7
    <3>2. SizeOf(t, m + 1) = SizeOf(s, m)  BY <1>5, <2>1, <2>6
    <3>3. /\ f[1 .. m] = f[1 .. m - 1] + SizeOf(s, m) /\ f[1 .. m - 1] \in Nat
          /\ SizeOf(s, m) \in Nat
      BY <1>3, <1>6, <3>1
    <3>4. g[1 .. m + 1] = f[1 .. m - 1] + a + SizeOf(s, m)
      BY <2>2, <2>3, <3>1, <3>2
    <3>5. f[1 .. m - 1] + a + SizeOf(s, m) = f[1 .. m] + a  BY <3>3, <1>2
    <3> QED  BY <3>1, <3>4, <3>5
  <2>7. m + 1 < i \/ m + 1 = i \/ m + 1 > i  BY <1>7, <1>0
  <2> QED  BY <2>4, <2>5, <2>6, <2>7
<1>12. n + 1 \in N
  <2> HIDE DEF N
  <2>1. Nat \subseteq N  BY <1>10, <1>11, Induction
  <2> QED  BY <1>0, <2>1
<1>13. g[1 .. n + 1] = f[1 .. (n + 1) - 1] + a  BY <1>0, <1>7, <1>12
<1> QED  BY <1>0, <1>8, <1>13 DEF a

LEMMA EntriesLess ==
  ASSUME NEW s \in Seq(Slot), NEW m \in 1 .. Len(s)
  PROVE  EntriesSize(s) = EntriesSize(RemoveAt(s, m)) + EntrySize(s[m].key)
<1> DEFINE t == RemoveAt(s, m)
<1>1. /\ t \in Seq(Slot) /\ Len(t) = Len(s) - 1
      /\ \A j \in 1 .. Len(s) - 1 : t[j] = IF j < m THEN s[j] ELSE s[j + 1]
  BY RemoveAtElements
<1> HIDE DEF t
<1>2. s[m] \in Slot /\ Len(s) \in Nat  OBVIOUS
<1>3. Inserted(s, t, m, s[m])
  <2>1. Len(s) = Len(t) + 1  BY <1>1, <1>2
  <2>2. ASSUME NEW j \in 1 .. Len(t) + 1
        PROVE  s[j] = IF j < m THEN t[j] ELSE IF j = m THEN s[m] ELSE t[j - 1]
    <3>1. CASE j < m
      <4>1. j \in 1 .. Len(s) - 1  BY <3>1, <2>1, <1>2
      <4> QED  BY <3>1, <4>1, <1>1
    <3>2. CASE j = m  BY <3>2
    <3>3. CASE j > m
      <4>1. j - 1 \in 1 .. Len(s) - 1 /\ ~(j - 1 < m) /\ (j - 1) + 1 = j
        BY <3>3, <2>1, <1>2
      <4>2. t[j - 1] = s[j]  BY <4>1, <1>1
      <4> QED  BY <3>3, <4>2
    <3> QED  BY <3>1, <3>2, <3>3, <1>2
  <2> QED  BY <1>1, <2>1, <2>2 DEF Inserted
<1>4. m \in 1 .. Len(t) + 1  BY <1>1, <1>2
<1>5. EntriesSize(s) = EntriesSize(t) + EntrySize(s[m].key)
  BY <1>1, <1>2, <1>3, <1>4, EntriesAdd
<1> QED  BY <1>5 DEF t

LEMMA EntriesAligned ==
  ASSUME NEW s \in Seq(Slot)
  PROVE  Multiple(EntriesSize(s), Align) /\ EntriesSize(s) \in Nat
<1> DEFINE f == Sizes(s)
           n == Len(s)
           N == {m \in Nat : m <= n => Multiple(f[1 .. m], Align) /\ f[1 .. m] \in Nat}
<1>0. n \in Nat /\ DOMAIN s = 1 .. n /\ Align \in Int  BY LayoutAssumption
<1>1. f[1 .. 0] = 0
  <2>1. 1 .. 0 = {}  OBVIOUS
  <2> QED  BY <2>1, SizesNone
<1>2. \A m \in 1 .. n : f[1 .. m] = f[1 .. m - 1] + SizeOf(s, m) /\ f[1 .. m] \in Nat
  BY SizesOfFirst
<1>3. \A m \in 1 .. n : Multiple(SizeOf(s, m), Align) /\ SizeOf(s, m) \in Nat
  <2> SUFFICES ASSUME NEW m \in 1 .. n
               PROVE  Multiple(SizeOf(s, m), Align) /\ SizeOf(s, m) \in Nat
    OBVIOUS
  <2>0. s[m] \in Slot  OBVIOUS
  <2>1. s[m].key \in Seq(Int)  BY <2>0 DEF Slot
  <2>2. EntryHeader + Len(s[m].key) \in Nat  BY <2>1, LayoutAssumption
  <2> QED  BY <2>2, AlignUpBounds DEF SizeOf, EntrySize
<1>4. EntriesSize(s) = f[1 .. n]  BY <1>0, EntriesSizeIs
<1> HIDE DEF f, n
<1>5. 0 \in N
  <2>1. Multiple(0, Align)
    <3>1. 0 = 0 * Align  BY <1>0
    <3> QED  BY <3>1 DEF Multiple
  <2> QED  BY <1>1, <2>1
<1>6. ASSUME NEW m \in Nat, m \in N  PROVE m + 1 \in N
  <2> SUFFICES ASSUME m + 1 <= n
               PROVE  Multiple(f[1 .. m + 1], Align) /\ f[1 .. m + 1] \in Nat
    OBVIOUS
  <2>1. m <= n /\ m + 1 \in 1 .. n /\ (m + 1) - 1 = m  BY <1>0
  <2>2. Multiple(f[1 .. m], Align) /\ f[1 .. m] \in Nat  BY <1>6, <2>1
  <2>3. f[1 .. m + 1] = f[1 .. m] + SizeOf(s, m + 1) /\ f[1 .. m + 1] \in Nat
    BY <1>2, <2>1
  <2>4. Multiple(SizeOf(s, m + 1), Align) /\ SizeOf(s, m + 1) \in Nat  BY <1>3, <2>1
  <2> DEFINE a == f[1 .. m]
             b == SizeOf(s, m + 1)
  <2>5. a \in Int /\ b \in Int /\ Multiple(a, Align) /\ Multiple(b, Align)  BY <2>2, <2>4
  <2> HIDE DEF a, b
  <2>6. Multiple(a + b, Align)  BY <1>0, <2>5, MultipleSum
  <2> QED  BY <2>3, <2>6 DEF a, b
<1>7. n \in N
  <2> HIDE DEF N
  <2>1. Nat \subseteq N  BY <1>5, <1>6, Induction
  <2> QED  BY <1>0, <2>1
<1>8. Multiple(f[1 .. n], Align) /\ f[1 .. n] \in Nat  BY <1>0, <1>7
<1> QED  BY <1>4, <1>8

-----------------------------------------------------------------------------
(* What the heap holds: live and dead entries, high key and prefix.        *)

HighBytes(page) == IF page.high = NoKey THEN 0 ELSE EntryHeader + Len(page.high)
Parts(page) ==
  EntriesSize(page.slots) + page.dead + Len(page.prefix) + HighBytes(page)

(* An entry after a heap that does not end at a multiple of Align changes  *)
(* what alignment costs by less than Align, and the heap is aligned then.  *)
Accounted(page) ==
  /\ Parts(page) - Align < page.heap /\ page.heap < Parts(page) + 2 * Align
  /\ ~Multiple(page.heap, Align) =>
       Parts(page) <= page.heap /\ page.heap < Parts(page) + Align
  /\ page.dead <= PageSize \div 4

LEMMA PartsAre ==
  ASSUME NEW page \in Node
  PROVE  /\ EntriesSize(page.slots) \in Nat /\ page.dead \in Nat /\ Len(page.prefix) \in Nat
         /\ HighBytes(page) \in Nat /\ Parts(page) \in Nat /\ page.heap \in Nat
<1>1. /\ EntriesSize(page.slots) \in Nat /\ page.dead \in Nat /\ page.heap \in Nat
      /\ page.prefix \in Seq(Int) /\ page.high \in Seq(Int)
  BY PageParts, EntriesAligned
<1>2. Len(page.prefix) \in Nat /\ HighBytes(page) \in Nat
  BY <1>1, LayoutAssumption DEF HighBytes
<1> QED  BY <1>1, <1>2 DEF Parts

LEMMA SlotAccounted ==
  ASSUME NEW page \in Node, Accounted(page), NEW idx \in 0 .. Count(page),
         NEW s \in Seq(Int), NEW ref \in Int
  PROVE  Accounted(InsertSlot(page, idx, s, ref))
<1> DEFINE new == InsertSlot(page, idx, s, ref)
           a == EntrySize(s)
           x == EntryHeader + Len(s)
           h == page.heap
           h2 == new.heap
           P == Parts(page)
           P2 == Parts(new)
<1>1. /\ new \in Node /\ SameFences(new, page) /\ new.prefix = page.prefix
      /\ Inserted(new.slots, page.slots, idx + 1, [key |-> s, ref |-> ref])
      /\ new.heap = ReserveSlot(page.heap, s) /\ new.dead = page.dead
  BY InsertSlotIs
<1>2. page.slots \in Seq(Slot) /\ new.slots \in Seq(Slot)
      /\ idx + 1 \in 1 .. Len(page.slots) + 1
  BY <1>1, PageParts
<1>3. EntriesSize(new.slots) = EntriesSize(page.slots) + a
  <2> DEFINE e == [key |-> s, ref |-> ref]
  <2>1. e \in Slot /\ e.key = s  BY DEF Slot
  <2>2. Inserted(new.slots, page.slots, idx + 1, e)  BY <1>1
  <2> HIDE DEF e, new
  <2> QED  BY <1>2, <2>1, <2>2, EntriesAdd
<1>4. HighBytes(new) = HighBytes(page)  BY <1>1 DEF HighBytes, SameFences
<1>5. x \in Nat /\ Align \in Nat \ {0}  BY LayoutAssumption
<1>6. /\ h2 = AlignUp(h + x) /\ a = AlignUp(x)
  <2>1. h + EntryHeader + Len(s) = h + x  BY PageParts, LayoutAssumption
  <2> QED  BY <1>1, <2>1 DEF ReserveSlot, EntrySize
<1>7. h \in Nat /\ P \in Nat  BY PartsAre
<1>8. a \in Nat /\ x <= a /\ a < x + Align  BY <1>5, <1>6, AlignUpBounds
<1>9. P2 = P + a
  <2>1. /\ EntriesSize(page.slots) \in Nat /\ page.dead \in Nat /\ Len(page.prefix) \in Nat
        /\ HighBytes(page) \in Nat
    BY PartsAre
  <2> HIDE DEF new, a
  <2> QED  BY ONLY <2>1, <1>1, <1>3, <1>4, <1>8 DEF Parts
<1>10. h2 \in Nat /\ h + x <= h2 /\ h2 < h + x + Align /\ Multiple(h2, Align)
  <2> HIDE DEF x
  <2>1. h + x \in Nat  BY <1>5, <1>7
  <2> QED  BY <1>6, <2>1, AlignUpBounds
<1>11. Multiple(h, Align) => h2 = h + a
  <2> SUFFICES ASSUME Multiple(h, Align)  PROVE h2 = h + a  OBVIOUS
  <2> QED  BY <1>1, <1>7, ReserveAdds
<1>12. /\ P - Align < h /\ h < P + 2 * Align
       /\ ~Multiple(h, Align) => P <= h /\ h < P + Align
       /\ page.dead <= PageSize \div 4
  BY DEF Accounted
<1> HIDE DEF a, x, h, h2, P, P2, new
<1>13. P2 - Align < h2 /\ h2 < P2 + 2 * Align
  <2>1. CASE Multiple(h, Align)  BY <2>1, <1>5, <1>7, <1>8, <1>9, <1>11, <1>12
  <2>2. CASE ~Multiple(h, Align)
    <3>1. P <= h /\ h < P + Align  BY <2>2, <1>12
    <3> QED  BY ONLY <3>1, <1>5, <1>7, <1>8, <1>9, <1>10
  <2> QED  BY <2>1, <2>2
<1>14. new.dead <= PageSize \div 4  BY <1>1, <1>12
<1> QED  BY <1>10, <1>13, <1>14 DEF Accounted, h2, P2, new

(* A page laid out afresh loses the alignment of its high key.             *)
LEMMA PackedIs ==
  ASSUME NEW slots \in Seq(Slot), NEW high \in Seq(Int), NEW prefix \in Seq(Int)
  PROVE  LET n == EntriesSize(slots) + Len(prefix)
                    + (IF high = NoKey THEN 0 ELSE EntryHeader + Len(high)) IN
         /\ n <= PackedSize(slots, high, prefix) /\ PackedSize(slots, high, prefix) < n + Align
         /\ n <= PackedRight(slots, high, prefix) /\ PackedRight(slots, high, prefix) < n + Align
<1> DEFINE e == EntriesSize(slots)
           l == Len(prefix)
           x == EntryHeader + Len(high)
           a == PackedSize(slots, high, prefix)
           b == PackedRight(slots, high, prefix)
           n == e + l + (IF high = NoKey THEN 0 ELSE x)
<1>1. /\ e \in Nat /\ l \in Nat /\ x \in Nat /\ Align \in Nat \ {0}
      /\ Multiple(e, Align) /\ EntryHeader \in Nat /\ Len(high) \in Nat
  BY EntriesAligned, LayoutAssumption
<1>2. a = HighSize(e, high) + l /\ b = HighSize(e + l, high)
  BY DEF PackedSize, PackedRight
<1> HIDE DEF a, b, e, l
<1>3. ASSUME NEW h \in Nat, high # NoKey
      PROVE  HighSize(h, high) = AlignUp(h + x)
  <2>1. h + EntryHeader + Len(high) = h + x  BY <1>1
  <2> QED  BY <1>3, <2>1 DEF HighSize, ReserveSlot
<1>4. e + l \in Nat /\ e + x \in Nat /\ e + l + x \in Nat  BY <1>1
<1> HIDE DEF x
<1>5. CASE high = NoKey
  <2>1. a = e + l /\ b = e + l /\ n = e + l  BY <1>1, <1>2, <1>5 DEF HighSize
  <2>2. n <= a /\ a < n + Align /\ n <= b /\ b < n + Align  BY <1>1, <2>1
  <2> QED  BY <2>2 DEF a, b, n, x, e, l
<1>6. CASE high # NoKey
  <2>1. a = AlignUp(e + x) + l /\ b = AlignUp(e + l + x) /\ n = e + l + x
    BY <1>1, <1>2, <1>3, <1>4, <1>6
  <2>2. AlignUp(e + x) \in Nat /\ e + x <= AlignUp(e + x) /\ AlignUp(e + x) < e + x + Align
    BY <1>4, AlignUpBounds
  <2>3. /\ AlignUp(e + l + x) \in Nat /\ e + l + x <= AlignUp(e + l + x)
        /\ AlignUp(e + l + x) < e + l + x + Align
    BY <1>4, AlignUpBounds
  <2>4. n <= a /\ a < n + Align /\ n <= b /\ b < n + Align  BY <1>1, <2>1, <2>2, <2>3
  <2> QED  BY <2>4 DEF a, b, n, x, e, l
<1> QED  BY <1>5, <1>6

LaidOut(page) ==
  /\ page.dead = 0
  /\ page.heap \in {PackedSize(page.slots, page.high, page.prefix),
                    PackedRight(page.slots, page.high, page.prefix)}

LEMMA LaidOutAccounted ==
  ASSUME NEW page \in Node, LaidOut(page)
  PROVE  /\ Accounted(page)
         /\ Parts(page) <= page.heap /\ page.heap < Parts(page) + Align
<1> DEFINE n == EntriesSize(page.slots) + Len(page.prefix)
                  + (IF page.high = NoKey THEN 0 ELSE EntryHeader + Len(page.high))
<1>1. page.slots \in Seq(Slot) /\ page.high \in Seq(Int) /\ page.prefix \in Seq(Int)
  BY PageParts
<1>2. /\ n <= PackedSize(page.slots, page.high, page.prefix)
      /\ PackedSize(page.slots, page.high, page.prefix) < n + Align
      /\ n <= PackedRight(page.slots, page.high, page.prefix)
      /\ PackedRight(page.slots, page.high, page.prefix) < n + Align
  BY <1>1, PackedIs
<1>3. Parts(page) = n
  <2>1. /\ EntriesSize(page.slots) \in Nat /\ page.dead \in Nat /\ Len(page.prefix) \in Nat
        /\ HighBytes(page) \in Nat
    BY PartsAre
  <2>2. page.dead = 0  BY DEF LaidOut
  <2> QED  BY <2>1, <2>2 DEF Parts, HighBytes
<1> HIDE DEF n
<1>4. Parts(page) <= page.heap /\ page.heap < Parts(page) + Align
  BY <1>2, <1>3 DEF LaidOut
<1>5. Parts(page) \in Nat /\ page.heap \in Nat /\ Align \in Nat \ {0}
  BY PartsAre, LayoutAssumption
<1>6. Parts(page) - Align < page.heap /\ page.heap < Parts(page) + 2 * Align
  BY ONLY <1>4, <1>5
<1>7. page.dead <= PageSize \div 4
  <2>1. PageSize \in Nat  BY LayoutAssumption
  <2>2. 0 <= PageSize \div 4  BY <2>1
  <2> QED  BY <2>2 DEF LaidOut
<1> QED  BY <1>4, <1>6, <1>7 DEF Accounted

LEMMA HalvesLaidOut ==
  ASSUME NEW page, NEW lo, NodeOK(page, lo), ~NoSplitPoint(page),
         NEW pid \in Nat, NEW new \in Nat
  PROVE  LET h == Halves(page, pid, new) IN
         /\ h.left \in Node /\ LaidOut(h.left)
         /\ h.right \in Node /\ LaidOut(h.right)
<1> DEFINE n == FindSplitPoint(page)
           left == LeftHalf(page, n, new)
           right == RightHalf(page, n, pid)
           h == Halves(page, pid, new)
           sep == Sentinel(page, n)
           prefixL == SubSeq(sep, 1, Len(page.prefix) + SharedLeft(page, n))
           slotsL == Cut(SubSeq(page.slots, 1, n), SharedLeft(page, n))
           prefixR == SubSeq(sep, 1, Len(page.prefix) + SharedRight(page, n))
           slotsR == Cut(SubSeq(page.slots, n + 1, Count(page)), SharedRight(page, n))
           heapL == PackedSize(slotsL, sep, prefixL)
           heapR == PackedRight(slotsR, page.high, prefixR)
           markL == page.llink # NoPage
           markR == page.rlink # NoPage
<1>0. page \in Node  BY DEF NodeOK, Strings
<1>1. h.left = left /\ h.right = right  BY DEF Halves, LeftHalf, RightHalf
<1>2. h.left \in Node /\ h.right \in Node
  <2>1. Halved(h, page, lo, new)  BY HalvesAre
  <2> QED  BY <2>1 DEF Halved, NodeOK, Strings
<1>3. /\ left = [page EXCEPT !.slots = slotsL, !.dead = 0, !.high = sep, !.heap = heapL,
                             !.prefix = prefixL, !.marked = markL, !.rlink = new]
      /\ right = [page EXCEPT !.slots = slotsR, !.dead = 0, !.heap = heapR,
                              !.prefix = prefixR, !.marked = markR, !.llink = pid]
      /\ heapL = PackedSize(slotsL, sep, prefixL)
      /\ heapR = PackedRight(slotsR, page.high, prefixR)
  BY DEF LeftHalf, RightHalf
<1> HIDE DEF h, left, right, n, sep, prefixL, slotsL, prefixR, slotsR, heapL, heapR, markL, markR
<1>4. /\ left.slots = slotsL /\ left.dead = 0 /\ left.high = sep /\ left.heap = heapL
      /\ left.prefix = prefixL
      /\ right.slots = slotsR /\ right.dead = 0 /\ right.high = page.high
      /\ right.heap = heapR /\ right.prefix = prefixR
  BY ONLY <1>0, <1>3 DEF Node
<1>5. LaidOut(left) /\ LaidOut(right)  BY ONLY <1>3, <1>4 DEF LaidOut
<1> QED  BY <1>1, <1>2, <1>5 DEF h

LEMMA LeafInsertAccounted ==
  ASSUME NEW page, NEW lo, NEW k \in Str, NewHere(page, lo, k), Accounted(page), NEW v \in Int
  PROVE  Accounted(LeafInsert(page, k, v)) /\ Accounted(InterInsert(page, k, v))
<1> DEFINE s == RemoveKeyPrefix(page, k)
           i == LowerIdx(page.slots, s)
           j == UpperIdx(page.slots, s)
<1>1. page \in Node /\ NodeOK(page, lo) /\ Covers(page, lo, k)
  BY DEF NewHere, NodeOK, Strings
<1>2. s \in Seq(Int)
  <2>1. s \in Str  BY <1>1, RemoveKeyPrefixIs DEF Stripped
  <2> QED  BY <2>1 DEF Str
<1>3. i \in 0 .. Count(page) /\ j \in 0 .. Count(page)
  BY <1>1, PlacesAre DEF LowerPlace, UpperPlace
<1>4. LeafInsert(page, k, v) = InsertSlot(page, i, s, v)
      /\ InterInsert(page, k, v) = InsertSlot(page, j, s, v)
  BY DEF LeafInsert, InterInsert
<1> HIDE DEF s, i, j
<1> QED  BY <1>1, <1>2, <1>3, <1>4, SlotAccounted

LEMMA HalvesAccounted ==
  ASSUME NEW page, NEW lo, NEW k \in Str, NewHere(page, lo, k), ~NoSplitPoint(page),
         NEW pid \in Nat, NEW new \in Nat, NEW ref \in Int
  PROVE  LET g == LeafSplit(page, pid, new, k, ref)
             h == InterSplit(page, pid, new, k, ref)
         IN /\ Accounted(g.left) /\ Accounted(g.right)
            /\ Accounted(h.left) /\ Accounted(h.right)
<1> DEFINE c == Halves(page, pid, new)
           g == LeafSplit(page, pid, new, k, ref)
           h == InterSplit(page, pid, new, k, ref)
<1>1. Halved(c, page, lo, new)  BY HalvesAre DEF NewHere
<1>2. NewHere(HalfFor(c, k), LowFor(c, lo, k), k)
  <2> HIDE DEF c
  <2> QED  BY <1>1, HalfTakes
<1>3. Accounted(c.left) /\ Accounted(c.right)
  <2>1. NodeOK(page, lo)  BY DEF NewHere
  <2>2. c.left \in Node /\ LaidOut(c.left) /\ c.right \in Node /\ LaidOut(c.right)
    BY <2>1, HalvesLaidOut
  <2> HIDE DEF c
  <2> QED  BY <2>2, LaidOutAccounted
<1>4. c = [sep |-> c.sep, left |-> c.left, right |-> c.right]  BY DEF Halves
<1>5. /\ g = IF Below(k, c.sep) THEN [c EXCEPT !.left = LeafInsert(@, k, ref)]
                                ELSE [c EXCEPT !.right = LeafInsert(@, k, ref)]
      /\ h = IF Below(k, c.sep) THEN [c EXCEPT !.left = InterInsert(@, k, ref)]
                                ELSE [c EXCEPT !.right = InterInsert(@, k, ref)]
  BY DEF LeafSplit, InterSplit
<1> HIDE DEF c, g, h
<1>6. CASE Below(k, c.sep)
  <2>1. /\ g = [sep |-> c.sep, left |-> LeafInsert(c.left, k, ref), right |-> c.right]
        /\ h = [sep |-> c.sep, left |-> InterInsert(c.left, k, ref), right |-> c.right]
    BY <1>4, <1>5, <1>6
  <2>2. /\ g.left = LeafInsert(c.left, k, ref) /\ g.right = c.right
        /\ h.left = InterInsert(c.left, k, ref) /\ h.right = c.right
    BY ONLY <2>1
  <2>3. NewHere(c.left, lo, k)  BY <1>2, <1>6 DEF HalfFor, LowFor
  <2>4. Accounted(LeafInsert(c.left, k, ref)) /\ Accounted(InterInsert(c.left, k, ref))
    BY <1>3, <2>3, LeafInsertAccounted
  <2> QED  BY <1>3, <2>2, <2>4 DEF g, h
<1>7. CASE ~Below(k, c.sep)
  <2>1. /\ g = [sep |-> c.sep, left |-> c.left, right |-> LeafInsert(c.right, k, ref)]
        /\ h = [sep |-> c.sep, left |-> c.left, right |-> InterInsert(c.right, k, ref)]
    BY <1>4, <1>5, <1>7
  <2>2. /\ g.right = LeafInsert(c.right, k, ref) /\ g.left = c.left
        /\ h.right = InterInsert(c.right, k, ref) /\ h.left = c.left
    BY ONLY <2>1
  <2>3. NewHere(c.right, c.sep, k)  BY <1>2, <1>7 DEF HalfFor, LowFor
  <2>4. Accounted(LeafInsert(c.right, k, ref)) /\ Accounted(InterInsert(c.right, k, ref))
    BY <1>3, <2>3, LeafInsertAccounted
  <2> QED  BY <1>3, <2>2, <2>4 DEF g, h
<1> QED  BY <1>6, <1>7

(* The entry that a delete takes out is one of the size it adds to the     *)
(* dead space.                                                             *)
DeletedFrom(new, page, s, t) ==
  /\ s \in Seq(Int) /\ t \in Seq(Slot) /\ Len(t) = Len(page.slots) - 1
  /\ EntriesSize(page.slots) = EntriesSize(t) + EntrySize(s)
  /\ new = IF page.dead + EntrySize(s) > PageSize \div 4
           THEN [page EXCEPT !.slots = t, !.dead = 0,
                             !.heap = PackedSize(t, page.high, page.prefix)]
           ELSE [page EXCEPT !.slots = t, !.dead = page.dead + EntrySize(s)]

LEMMA LeafDeleteSizes ==
  ASSUME NEW page, NEW lo, NodeOK(page, lo), NEW k \in Str, Covers(page, lo, k),
         LeafFound(page, k)
  PROVE  \E s, t : DeletedFrom(LeafDelete(page, k), page, s, t)
<1> DEFINE s == RemoveKeyPrefix(page, k)
           m == LowerIdx(page.slots, s) + 1
           t == RemoveAt(page.slots, m)
           new == LeafDelete(page, k)
<1>1. page \in Node /\ Strings(page) /\ InOrder(page.slots)  BY DEF NodeOK, Strings
<1>2. page.slots \in Seq(Slot) /\ DOMAIN page.slots = 1 .. Len(page.slots)
      /\ Len(page.slots) \in Nat /\ page.dead \in Nat
  BY <1>1, PageParts
<1>3. Stripped(page, k, s)  BY RemoveKeyPrefixIs
<1>4. s \in Str /\ s \in Seq(Int)  BY <1>3 DEF Stripped, Str
<1>5. m \in 1 .. Len(page.slots) /\ page.slots[m].key = s
  <2>1. PICK i \in DOMAIN page.slots : page.slots[i].key = s  BY DEF LeafFound
  <2>2. /\ LowerIdx(page.slots, s) \in 0 .. Len(page.slots)
        /\ \A j \in DOMAIN page.slots :
             j <= LowerIdx(page.slots, s) <=> Below(page.slots[j].key, s)
    <3>1. \A j \in DOMAIN page.slots : page.slots[j].key \in Str  BY <1>1 DEF Strings
    <3> QED  BY <1>1, <1>2, <1>4, <3>1, LowerIdxIs
  <2> DEFINE l == LowerIdx(page.slots, s)
  <2>3. m = l + 1  OBVIOUS
  <2> HIDE DEF l, m, s
  <2>4. ~(i <= l)  BY <2>1, <2>2, <1>4, Irreflexive DEF l
  <2>5. m \in 1 .. Len(page.slots) /\ m <= i /\ ~(m <= l)
    BY <2>1, <2>2, <2>3, <2>4, <1>2 DEF l
  <2>6. ~Below(page.slots[m].key, s)  BY <2>2, <2>5, <1>2 DEF l
  <2>7. m = i
    <3> SUFFICES ASSUME m # i PROVE FALSE  OBVIOUS
    <3>1. m < i  BY <2>1, <2>5, <1>2
    <3>2. Below(page.slots[m].key, page.slots[i].key)
      BY <2>1, <2>5, <3>1, <1>1, <1>2 DEF InOrder
    <3> QED  BY <2>1, <2>6, <3>2
  <2> QED  BY <2>1, <2>5, <2>7
<1>6. EntriesSize(page.slots) = EntriesSize(t) + EntrySize(s)
  <2>1. EntriesSize(page.slots) = EntriesSize(t) + EntrySize(page.slots[m].key)
    BY <1>2, <1>5, EntriesLess
  <2> QED  BY <1>5, <2>1
<1>7. t \in Seq(Slot) /\ Len(t) = Len(page.slots) - 1  BY <1>2, <1>5, RemoveAtElements
<1>8. new = IF page.dead + EntrySize(s) > PageSize \div 4
            THEN [page EXCEPT !.slots = t, !.dead = 0,
                              !.heap = PackedSize(t, page.high, page.prefix)]
            ELSE [page EXCEPT !.slots = t, !.dead = page.dead + EntrySize(s)]
  BY DEF LeafDelete, CompactHeap
<1> HIDE DEF s, m, t, new
<1>9. DeletedFrom(new, page, s, t)  BY <1>4, <1>6, <1>7, <1>8 DEF DeletedFrom
<1> QED  BY <1>9 DEF new

LEMMA DeleteAccounted ==
  ASSUME NEW page, NEW lo, NodeOK(page, lo), NEW k \in Str, Covers(page, lo, k),
         LeafFound(page, k), Accounted(page), LeafDelete(page, k) \in Node
  PROVE  Accounted(LeafDelete(page, k))
<1> DEFINE new == LeafDelete(page, k)
<1>1. page \in Node  BY DEF NodeOK, Strings
<1>2. page.dead \in Nat  BY <1>1, PageParts
<1>3. PICK s, t : DeletedFrom(new, page, s, t)  BY LeafDeleteSizes
<1> DEFINE dead == page.dead + EntrySize(s)
           h == PackedSize(t, page.high, page.prefix)
<1>6. /\ s \in Seq(Int) /\ t \in Seq(Slot)
      /\ EntriesSize(page.slots) = EntriesSize(t) + EntrySize(s)
  BY <1>3 DEF DeletedFrom
<1>8. new = IF dead > PageSize \div 4
            THEN [page EXCEPT !.slots = t, !.dead = 0, !.heap = h]
            ELSE [page EXCEPT !.slots = t, !.dead = dead]
  BY <1>3 DEF DeletedFrom
<1>9. dead \in Nat /\ EntrySize(s) \in Nat /\ EntriesSize(t) \in Nat
      /\ EntriesSize(page.slots) \in Nat
  BY <1>1, <1>2, <1>6, EntrySizeIs, EntriesAligned, PageParts
<1>10. dead = page.dead + EntrySize(s) /\ h = PackedSize(t, page.high, page.prefix)
  OBVIOUS
<1>11. new \in Node  OBVIOUS
<1> HIDE DEF dead, h, new
<1>12. CASE dead > PageSize \div 4
  <2>1. new = [page EXCEPT !.slots = t, !.dead = 0, !.heap = h]  BY <1>8, <1>12
  <2>2. /\ new.slots = t /\ new.dead = 0 /\ new.heap = h /\ new.high = page.high
        /\ new.prefix = page.prefix
    BY ONLY <2>1, <1>1 DEF Node
  <2>3. LaidOut(new)  BY <2>2, <1>10 DEF LaidOut
  <2> QED  BY <1>11, <2>3, LaidOutAccounted DEF new
<1>13. CASE ~(dead > PageSize \div 4)
  <2>1. new = [page EXCEPT !.slots = t, !.dead = dead]  BY <1>8, <1>13
  <2>2. /\ new.slots = t /\ new.dead = dead /\ new.heap = page.heap /\ new.high = page.high
        /\ new.prefix = page.prefix
    BY ONLY <2>1, <1>1 DEF Node
  <2>3. HighBytes(new) = HighBytes(page)  BY <2>2 DEF HighBytes
  <2>4. HighBytes(page) \in Nat /\ Len(page.prefix) \in Nat  BY <1>1, PartsAre
  <2>5. Parts(new) = Parts(page)
    BY ONLY <2>2, <2>3, <2>4, <1>2, <1>6, <1>9, <1>10 DEF Parts
  <2>6. new.dead <= PageSize \div 4
    <3>1. PageSize \div 4 \in Int  BY LayoutAssumption
    <3> HIDE DEF Accounted
    <3> QED  BY <2>2, <3>1, <1>9, <1>13
  <2> QED  BY <2>2, <2>5, <2>6 DEF Accounted, new
<1> QED  BY <1>12, <1>13

(* HeapAccounted, with what makes it inductive.                            *)
AllAccounted == \A p \in DOMAIN pages : Accounted(pages[p])

LEMMA WrittenAccounted ==
  ASSUME AllAccounted, NEW p, NEW page, Accounted(page), pages' = [pages EXCEPT ![p] = page]
  PROVE  AllAccounted'
BY DEF AllAccounted

LEMMA SplitInTwoAccounted ==
  ASSUME AllAccounted, NEW p, NEW h, Accounted(h.left), Accounted(h.right), WriteSplit(p, h)
  PROVE  AllAccounted'
BY DEF AllAccounted, WriteSplit

LEMMA FreshAccounted ==
  ASSUME NEW level, NEW slots \in Seq(Slot), NEW page, page = NewNode(level, slots, EntriesSize(slots))
  PROVE  Accounted(page)
<1> DEFINE n == EntriesSize(slots)
<1>1. n \in Nat /\ Multiple(n, Align)  BY EntriesAligned
<1>2. /\ page.slots = slots /\ page.heap = n /\ page.dead = 0 /\ page.prefix = <<>>
      /\ page.high = NoKey
  BY DEF NewNode
<1> HIDE DEF n
<1>3. Len(page.prefix) = 0 /\ HighBytes(page) = 0  BY <1>2 DEF HighBytes
<1>4. Parts(page) = n  BY <1>1, <1>2, <1>3 DEF Parts, n
<1>5. Align \in Nat \ {0} /\ PageSize \in Nat  BY LayoutAssumption
<1>6. 0 <= PageSize \div 4  BY <1>5
<1> QED  BY <1>1, <1>2, <1>4, <1>5, <1>6 DEF Accounted

LEMMA EmptySize == EntriesSize(<<>>) = 0 /\ <<>> \in Seq(Slot)
<1>1. <<>> \in Seq(Slot) /\ DOMAIN <<>> = {}  OBVIOUS
<1>2. Sizes(<<>>)[{}] = 0  BY <1>1, SizesNone
<1> QED  BY <1>1, <1>2, EntriesSizeIs

LEMMA RootAccounted ==
  ASSUME NEW level, NEW sep \in Str, NEW left \in Int, NEW right \in Int
  PROVE  Accounted(RootNode(level, sep, left, right))
<1> DEFINE a == [key |-> <<>>, ref |-> left]
           b == [key |-> sep, ref |-> right]
           s == <<a, b>>
           h == ReserveSlot(0, <<>>)
           f == Sizes(s)
<1>1. a \in Slot /\ b \in Slot /\ a.key = <<>> /\ b.key = sep  BY DEF Slot, Str
<1> HIDE DEF a, b
<1>2. s \in Seq(Slot) /\ Len(s) = 2 /\ s[1] = a /\ s[2] = b /\ DOMAIN s = 1 .. 2
  BY <1>1
<1> HIDE DEF s
<1>3. f[1 .. 2] = f[1 .. 1] + SizeOf(s, 2)
  <2>1. 2 \in 1 .. Len(s) /\ 2 - 1 = 1  BY <1>2
  <2> QED  BY <1>2, <2>1, SizesOfFirst
<1>4. f[1 .. 1] = f[1 .. 0] + SizeOf(s, 1)
  <2>1. 1 \in 1 .. Len(s) /\ 1 - 1 = 0  BY <1>2
  <2> QED  BY <1>2, <2>1, SizesOfFirst
<1>5. f[1 .. 0] = 0
  <2>1. 1 .. 0 = {}  OBVIOUS
  <2> QED  BY <1>2, <2>1, SizesNone
<1>6. SizeOf(s, 1) = EntrySize(<<>>) /\ SizeOf(s, 2) = EntrySize(sep)
  BY <1>1, <1>2 DEF SizeOf
<1>7. /\ h = EntrySize(<<>>) /\ EntrySize(<<>>) \in Nat /\ Multiple(h, Align)
      /\ EntrySize(sep) \in Nat
  <2>1. <<>> \in Seq(Int) /\ sep \in Seq(Int)  BY DEF Str
  <2>2. Multiple(0, Align)
    <3>1. Align \in Int  BY LayoutAssumption
    <3>2. 0 = 0 * Align  BY <3>1
    <3> QED  BY <3>2 DEF Multiple
  <2>3. h = 0 + EntrySize(<<>>) /\ EntrySize(<<>>) \in Nat  BY <2>1, <2>2, ReserveAdds
  <2>4. Multiple(h, Align)
    <3>1. 0 + EntryHeader + Len(<<>>) \in Nat  BY LayoutAssumption
    <3> QED  BY <3>1, AlignUpBounds DEF ReserveSlot
  <2> QED  BY <2>1, <2>3, <2>4, EntrySizeIs
<1>8. ReserveSlot(h, sep) = h + EntrySize(sep)
  <2>1. h \in Nat /\ sep \in Seq(Int)  BY <1>7 DEF Str
  <2> HIDE DEF h
  <2> QED  BY <1>7, <2>1, ReserveAdds
<1>9. EntriesSize(s) = f[1 .. 2]  BY <1>2, EntriesSizeIs
<1> HIDE DEF f
<1>10. EntriesSize(s) = ReserveSlot(h, sep)
  BY <1>3, <1>4, <1>5, <1>6, <1>7, <1>8, <1>9
<1>11. RootNode(level, sep, left, right) = NewNode(level + 1, s, ReserveSlot(h, sep))
  BY DEF RootNode, s, a, b
<1> HIDE DEF h
<1> QED  BY <1>2, <1>10, <1>11, FreshAccounted

LEMMA AccountedStart == ASSUME Init  PROVE AllAccounted
<1>1. NewNode(0, <<>>, 0) = NewNode(0, <<>>, EntriesSize(<<>>))  BY EmptySize
<1>2. Accounted(NewNode(0, <<>>, 0))  BY <1>1, EmptySize, FreshAccounted
<1>3. pages = [p \in {0} |-> NewNode(0, <<>>, 0)]  BY DEF Init
<1> QED  BY <1>2, <1>3 DEF AllAccounted

LEMMA AccountedStep ==
  ASSUME EncodeOrdered, TreeInv, FencesStay, AllAccounted, [Next]_vars
  PROVE  AllAccounted'
<1>1. CASE UNCHANGED pages  BY <1>1 DEF AllAccounted
<1>2. ASSUME NEW t \in Thread, Insert(t)  PROVE AllAccounted'
  <2> DEFINE p == Leaf(t)
             k == call[t].key
             v == call[t].val
             page == LeafInsert(pages[p], k, v)
  <2>1. pc[t] = "leaf" /\ ~Found(t) /\ Write(p, page)  BY <1>2 DEF Insert, AtLeaf, At
  <2>2. p \in DOMAIN pages /\ k \in Str /\ v \in Int  BY <2>1, LeafIs
  <2>3. NewHere(pages[p], Lows[p], k)  BY <2>1, LeafNew
  <2> HIDE DEF p, k, v
  <2>4. Accounted(page)  BY <2>2, <2>3, LeafInsertAccounted DEF AllAccounted
  <2> HIDE DEF page
  <2> QED  BY <2>1, <2>4, WrittenAccounted DEF Write
<1>3. ASSUME NEW t \in Thread, PostSeparator(t)  PROVE AllAccounted'
  <2> DEFINE p == Parent(t)
             k == post[t].sep
             c == post[t].child
             page == InterInsert(pages[p], k, c)
  <2>1. pc[t] = "post" /\ Write(p, page)  BY <1>3 DEF PostSeparator, AtParent, At
  <2>2. p \in DOMAIN pages /\ k \in Str /\ c \in Int /\ NewHere(pages[p], Lows[p], k)
    BY <2>1, ParentIs
  <2> HIDE DEF p, k, c
  <2>4. Accounted(page)  BY <2>2, LeafInsertAccounted DEF AllAccounted
  <2> HIDE DEF page
  <2> QED  BY <2>1, <2>4, WrittenAccounted DEF Write
<1>4. ASSUME NEW t \in Thread, SplitLeaf(t)  PROVE AllAccounted'
  <2> DEFINE p == Leaf(t)
             k == call[t].key
             v == call[t].val
             h == LeafSplit(pages[p], p, NewPage, k, v)
  <2>1. /\ pc[t] = "leaf" /\ ~Found(t) /\ WriteSplit(p, h)
        /\ ~LeafSplitFails(pages[p], p, NewPage, k)
    BY <1>4 DEF SplitLeaf, AtLeaf, At
  <2>2. p \in DOMAIN pages /\ p \in Nat /\ k \in Str /\ v \in Int  BY <2>1, LeafIs
  <2>3. NewHere(pages[p], Lows[p], k)  BY <2>1, LeafNew
  <2>4. NewPage \in Nat /\ ~NoSplitPoint(pages[p])  BY <2>1, NewPageIs DEF LeafSplitFails, SplitFails
  <2> HIDE DEF p, k, v
  <2>5. Accounted(h.left) /\ Accounted(h.right)
    BY <2>2, <2>3, <2>4, HalvesAccounted
  <2> HIDE DEF h
  <2> QED  BY <2>1, <2>5, SplitInTwoAccounted
<1>5. ASSUME NEW t \in Thread, SplitInter(t)  PROVE AllAccounted'
  <2> DEFINE p == Parent(t)
             k == post[t].sep
             c == post[t].child
             h == InterSplit(pages[p], p, NewPage, k, c)
  <2>1. /\ pc[t] = "post" /\ WriteSplit(p, h) /\ ~InterSplitFails(pages[p], p, NewPage, k)
    BY <1>5 DEF SplitInter, AtParent, At
  <2>2. /\ p \in DOMAIN pages /\ p \in Nat /\ k \in Str /\ c \in Int
        /\ NewHere(pages[p], Lows[p], k)
    BY <2>1, ParentIs
  <2>4. NewPage \in Nat /\ ~NoSplitPoint(pages[p])  BY <2>1, NewPageIs DEF InterSplitFails, SplitFails
  <2> HIDE DEF p, k, c
  <2>5. Accounted(h.left) /\ Accounted(h.right)
    BY <2>2, <2>4, HalvesAccounted
  <2> HIDE DEF h
  <2> QED  BY <2>1, <2>5, SplitInTwoAccounted
<1>6. ASSUME NEW t \in Thread, Delete(t)  PROVE AllAccounted'
  <2> DEFINE p == Leaf(t)
             k == call[t].key
             page == LeafDelete(pages[p], k)
  <2>1. pc[t] = "leaf" /\ call[t].kind = "delete"  BY <1>6 DEF Delete, AtLeaf, At
  <2>2. /\ p \in DOMAIN pages /\ k \in Str /\ NodeOK(pages[p], Lows[p])
        /\ Covers(pages[p], Lows[p], k)
    BY <2>1, LeafIs
  <2>3. CASE ~Found(t)
    <3>1. UNCHANGED pages  BY <1>6, <2>3 DEF Delete
    <3> QED  BY <1>1, <3>1
  <2>4. CASE Found(t)
    <3>1. Write(p, page) /\ LeafFound(pages[p], k)  BY <1>6, <2>4 DEF Delete, Found
    <3>2. k # Lows[p]
      <4>1. k # Low(p)  BY <2>1 DEF FencesStay
      <4> QED  BY <2>2, <4>1, LowIs
    <3> HIDE DEF p, k
    <3>3. TakenOut(page, pages[p], Lows[p], k)  BY <2>2, <3>1, <3>2, LeafDeleteKeeps
    <3>4. page \in Node  BY <3>3 DEF TakenOut, NodeOK, Strings
    <3>5. Accounted(page)  BY <2>2, <3>1, <3>4, DeleteAccounted DEF AllAccounted
    <3> HIDE DEF page
    <3> QED  BY <3>1, <3>5, WrittenAccounted DEF Write
  <2> QED  BY <2>3, <2>4
<1>7. ASSUME NEW t \in Thread, Raise(t)  PROVE AllAccounted'
  <2> DEFINE page == RootNode(pages[cur[t]].level, post[t].sep, cur[t], post[t].child)
  <2>1. /\ pages' = [p \in DOMAIN pages \cup {NewPage} |-> IF p = NewPage THEN page ELSE pages[p]]
    BY <1>7 DEF Raise
  <2>2. post[t].sep \in Str /\ post[t].child \in Int /\ cur[t] \in Int
    <3>1. post[t] \in [sep : Str, child : Int]  BY DEF TreeInv, Typed
    <3> QED  BY <3>1 DEF TreeInv, Typed
  <2>3. Accounted(page)  BY <2>2, RootAccounted
  <2> HIDE DEF page
  <2> QED  BY <2>1, <2>3 DEF AllAccounted
<1>8. ASSUME NEW t \in Thread, Step(t)  PROVE AllAccounted'
  <2>1. \/ UNCHANGED pages
        \/ Insert(t) \/ PostSeparator(t) \/ SplitLeaf(t) \/ SplitInter(t) \/ Delete(t) \/ Raise(t)
    BY <1>8 DEF Step, Start, Get, Refuse, Redescend, Return
  <2> QED  BY <2>1, <1>1, <1>2, <1>3, <1>4, <1>5, <1>6, <1>7
<1>9. CASE NextRound \/ Ended \/ UNCHANGED vars
  BY <1>9, <1>1 DEF NextRound, Ended, vars
<1> QED  BY <1>8, <1>9 DEF Next

(* No byte of a page's heap is lost or counted twice: heap_size is, up to  *)
(* the padding of one entry, the sum of the entries, the dead space, the   *)
(* prefix and the high key, through inserts, deletes, compactions, splits  *)
(* and new roots (HeapAccounted), under FencesStay and RedescentHigh.      *)
THEOREM HeapAlwaysAccounted ==
  ASSUME EncodeOrdered
  PROVE  Spec /\ []FencesStay /\ [][RedescentHigh]_vars => []HeapAccounted
<1>1. Init => TreeInv /\ AllAccounted  BY TreeStart, AccountedStart
<1>2. TreeInv /\ AllAccounted /\ FencesStay /\ [RedescentHigh]_vars /\ [Next]_vars => TreeInv' /\ AllAccounted'
  BY TreeStep, AccountedStep
<1>3. AllAccounted => HeapAccounted
  <2>1. \A p \in DOMAIN pages : Accounted(pages[p]) =>
           LET node == pages[p]
               parts == EntriesSize(node.slots) + node.dead + Len(node.prefix)
                          + (IF node.high = NoKey THEN 0 ELSE EntryHeader + Len(node.high))
           IN /\ parts - Align < node.heap /\ node.heap < parts + 2 * Align
              /\ node.dead <= PageSize \div 4
    BY DEF Accounted, Parts, HighBytes
  <2> QED  BY <2>1 DEF AllAccounted, HeapAccounted
<1> QED  BY <1>1, <1>2, <1>3, PTL DEF Spec

-----------------------------------------------------------------------------
(* Room for a split.  The keys are short enough for many to be on a page.  *)

Largest(max) == AlignUp(EntryHeader + max)

(* For the code's pages of 8192 bytes, with 64 for the header and 16 for   *)
(* each entry's: keys of up to 180 bytes, encoded or not.                  *)
KeysFit(max) ==
  /\ max \in Nat
  /\ \A k \in Key : Len(k) <= max /\ Len(Encode(k)) <= max
  /\ 4 * SlotSize <= EntryHeader
  /\ 3 * HeaderSize + 40 * Largest(max) <= PageSize

LEMMA AlignUpGrows ==
  ASSUME NEW m \in Nat, NEW n \in Nat, m <= n
  PROVE  AlignUp(m) <= AlignUp(n)
<1> DEFINE a == AlignUp(m)
           b == AlignUp(n)
           d == a - b
<1>0. Align \in Nat \ {0} /\ Align \in Int  BY LayoutAssumption
<1>1. a \in Nat /\ a < m + Align /\ Multiple(a, Align)  BY AlignUpBounds
<1>2. b \in Nat /\ n <= b /\ Multiple(b, Align)  BY AlignUpBounds
<1> HIDE DEF a, b
<1>3. d \in Int /\ Multiple(d, Align)  BY <1>0, <1>1, <1>2, MultipleSum
<1>4. d < Align  BY <1>0, <1>1, <1>2
<1> SUFFICES ASSUME a > b PROVE FALSE  BY <1>1, <1>2 DEF a, b
<1>5. d > 0  BY <1>1, <1>2
<1> HIDE DEF d
<1>6. d >= Align  BY <1>0, <1>3, <1>5, MultipleIsLarge
<1> QED  BY <1>0, <1>3, <1>4, <1>6

LEMMA LargestIs ==
  ASSUME NEW max, KeysFit(max)
  PROVE  /\ Largest(max) \in Nat /\ EntryHeader + max <= Largest(max) /\ max \in Nat
         /\ Align <= Largest(max) /\ 1 <= Largest(max)
         /\ Align \in Nat \ {0} /\ EntryHeader \in Nat \ {0} /\ SlotSize \in Nat \ {0}
         /\ HeaderSize \in Nat /\ PageSize \in Nat
         /\ 4 * SlotSize <= EntryHeader /\ 3 * HeaderSize + 40 * Largest(max) <= PageSize
<1>1. /\ max \in Nat /\ 4 * SlotSize <= EntryHeader
      /\ 3 * HeaderSize + 40 * Largest(max) <= PageSize
  BY DEF KeysFit
<1>2. /\ Align \in Nat \ {0} /\ EntryHeader \in Nat \ {0} /\ SlotSize \in Nat \ {0}
      /\ HeaderSize \in Nat /\ PageSize \in Nat
  BY LayoutAssumption
<1>3. EntryHeader + max \in Nat  BY <1>1, <1>2
<1>4. /\ Largest(max) \in Nat /\ EntryHeader + max <= Largest(max)
      /\ Multiple(Largest(max), Align)
  BY <1>3, AlignUpBounds DEF Largest
<1> DEFINE e == Largest(max)
<1>5. e \in Nat /\ EntryHeader + max <= e /\ Multiple(e, Align)  BY <1>4
<1> HIDE DEF e
<1>6. e > 0 /\ e \in Int  BY <1>1, <1>2, <1>5
<1>7. e >= Align  BY <1>2, <1>5, <1>6, MultipleIsLarge
<1> QED  BY <1>1, <1>2, <1>4, <1>6, <1>7 DEF e

LEMMA EntryFits ==
  ASSUME NEW max, KeysFit(max), NEW s \in Seq(Int), Len(s) <= max
  PROVE  EntrySize(s) \in Nat /\ EntrySize(s) <= Largest(max)
<1>1. EntryHeader \in Nat /\ max \in Nat /\ Len(s) \in Nat  BY LargestIs
<1>2. EntryHeader + Len(s) \in Nat /\ EntryHeader + max \in Nat
      /\ EntryHeader + Len(s) <= EntryHeader + max
  BY <1>1
<1> QED  BY <1>2, EntrySizeIs, AlignUpGrows DEF EntrySize, Largest

(* Every entry takes more room in the heap than four slots.                *)
LEMMA EntriesOutweighSlots ==
  ASSUME 4 * SlotSize <= EntryHeader, NEW s \in Seq(Slot)
  PROVE  4 * (Len(s) * SlotSize) <= EntriesSize(s)
<1> DEFINE f == Sizes(s)
           n == Len(s)
           N == {m \in Nat : m <= n => 4 * (m * SlotSize) <= f[1 .. m]}
<1>0. n \in Nat /\ DOMAIN s = 1 .. n /\ SlotSize \in Nat /\ EntryHeader \in Nat
  BY LayoutAssumption
<1>1. f[1 .. 0] = 0
  <2>1. 1 .. 0 = {}  OBVIOUS
  <2> QED  BY <2>1, SizesNone
<1>2. \A m \in 1 .. n : f[1 .. m] = f[1 .. m - 1] + SizeOf(s, m) /\ f[1 .. m - 1] \in Nat
  BY SizesOfFirst
<1>3. \A m \in 1 .. n : SizeOf(s, m) \in Nat /\ SizeOf(s, m) >= 4 * SlotSize
  <2> SUFFICES ASSUME NEW m \in 1 .. n
               PROVE  SizeOf(s, m) \in Nat /\ SizeOf(s, m) >= 4 * SlotSize
    OBVIOUS
  <2>0. s[m] \in Slot  OBVIOUS
  <2>1. s[m].key \in Seq(Int)  BY <2>0 DEF Slot
  <2>2. EntryHeader + Len(s[m].key) \in Nat /\ Len(s[m].key) \in Nat  BY <2>1, <1>0
  <2>3. SizeOf(s, m) \in Nat /\ EntryHeader + Len(s[m].key) <= SizeOf(s, m)
    BY <2>2, AlignUpBounds DEF SizeOf, EntrySize
  <2> QED  BY <2>2, <2>3, <1>0
<1>4. EntriesSize(s) = f[1 .. n]  BY <1>0, EntriesSizeIs
<1> HIDE DEF f, n
<1>5. 0 \in N  BY <1>0, <1>1
<1>6. ASSUME NEW m \in Nat, m \in N  PROVE m + 1 \in N
  <2> SUFFICES ASSUME m + 1 <= n
               PROVE  4 * ((m + 1) * SlotSize) <= f[1 .. m + 1]
    OBVIOUS
  <2>1. m <= n /\ m + 1 \in 1 .. n /\ (m + 1) - 1 = m  BY <1>0
  <2>2. 4 * (m * SlotSize) <= f[1 .. m]  BY <1>6, <2>1
  <2>3. f[1 .. m + 1] = f[1 .. m] + SizeOf(s, m + 1) /\ f[1 .. m] \in Nat  BY <1>2, <2>1
  <2>4. SizeOf(s, m + 1) \in Nat /\ SizeOf(s, m + 1) >= 4 * SlotSize  BY <1>3, <2>1
  <2>5. (m + 1) * SlotSize = m * SlotSize + SlotSize /\ m * SlotSize \in Nat  BY <1>0
  <2> QED  BY ONLY <2>2, <2>3, <2>4, <2>5, <1>0
<1>7. n \in N
  <2> HIDE DEF N
  <2>1. Nat \subseteq N  BY <1>5, <1>6, Induction
  <2> QED  BY <1>0, <2>1
<1>8. 4 * (n * SlotSize) <= f[1 .. n]  BY <1>0, <1>7
<1> QED  BY <1>4, <1>8 DEF n

(* Part of a sequence of entries, whose keys may have lost bytes.          *)
LEMMA PartSize ==
  ASSUME NEW s \in Seq(Slot), NEW t \in Seq(Slot), NEW b \in Nat, b + Len(t) <= Len(s),
         \A i \in DOMAIN t : SizeOf(t, i) <= SizeOf(s, b + i)
  PROVE  Sizes(t)[1 .. Len(t)] + Sizes(s)[1 .. b] <= Sizes(s)[1 .. b + Len(t)]
<1> DEFINE f == Sizes(s)
           g == Sizes(t)
           n == Len(t)
           N == {m \in Nat : m <= n => g[1 .. m] + f[1 .. b] <= f[1 .. b + m]}
<1>0. n \in Nat /\ Len(s) \in Nat /\ DOMAIN t = 1 .. n /\ DOMAIN s = 1 .. Len(s)
      /\ b + n <= Len(s)
  OBVIOUS
<1>1. g[1 .. 0] = 0
  <2>1. 1 .. 0 = {}  OBVIOUS
  <2> QED  BY <2>1, SizesNone
<1>2. \A m \in 1 .. n : /\ g[1 .. m] = g[1 .. m - 1] + SizeOf(t, m)
                        /\ g[1 .. m] \in Nat /\ g[1 .. m - 1] \in Nat
  BY SizesOfFirst
<1>3. \A m \in 1 .. Len(s) : /\ f[1 .. m] = f[1 .. m - 1] + SizeOf(s, m)
                             /\ f[1 .. m] \in Nat /\ f[1 .. m - 1] \in Nat
  BY SizesOfFirst
<1>4. /\ \A m \in 1 .. n : SizeOf(t, m) \in Nat /\ SizeOf(t, m) <= SizeOf(s, b + m)
      /\ \A m \in 1 .. Len(s) : SizeOf(s, m) \in Nat
  BY <1>0, SizeOfIs
<1>5. f[1 .. b] \in Nat
  <2>1. 1 .. b \in SUBSET DOMAIN s  BY <1>0
  <2> QED  BY <2>1, SizesWithout
<1> HIDE DEF f, g, n
<1>6. 0 \in N
  <2>1. b + 0 = b  OBVIOUS
  <2> QED  BY <2>1, <1>1, <1>5
<1>7. ASSUME NEW m \in Nat, m \in N  PROVE m + 1 \in N
  <2> SUFFICES ASSUME m + 1 <= n
               PROVE  g[1 .. m + 1] + f[1 .. b] <= f[1 .. b + (m + 1)]
    OBVIOUS
  <2> DEFINE c == b + (m + 1)
  <2>1. /\ m <= n /\ m + 1 \in 1 .. n /\ (m + 1) - 1 = m
        /\ c \in 1 .. Len(s) /\ c - 1 = b + m
    BY <1>0
  <2>2. g[1 .. m] + f[1 .. b] <= f[1 .. b + m]  BY <1>7, <2>1
  <2>3. /\ g[1 .. m + 1] = g[1 .. m] + SizeOf(t, m + 1) /\ g[1 .. m] \in Nat
        /\ SizeOf(t, m + 1) \in Nat
    BY <1>2, <1>4, <2>1
  <2>4. SizeOf(t, m + 1) <= SizeOf(s, c)  BY <1>4, <2>1
  <2> HIDE DEF c
  <2>5. /\ f[1 .. c] = f[1 .. b + m] + SizeOf(s, c) /\ f[1 .. b + m] \in Nat
        /\ SizeOf(s, c) \in Nat
    BY <1>3, <1>4, <2>1
  <2>6. g[1 .. m + 1] + f[1 .. b] <= f[1 .. c]
    BY ONLY <2>2, <2>3, <2>4, <2>5, <1>5
  <2> QED  BY <2>6 DEF c
<1>8. n \in N
  <2> HIDE DEF N
  <2>1. Nat \subseteq N  BY <1>6, <1>7, Induction
  <2> QED  BY <1>0, <2>1
<1>9. g[1 .. n] + f[1 .. b] <= f[1 .. b + n]  BY <1>0, <1>8
<1> QED  BY <1>9 DEF f, g, n

LEMMA FirstSize ==
  ASSUME NEW s \in Seq(Slot), NEW n \in 0 .. Len(s)
  PROVE  EntriesSize(SubSeq(s, 1, n)) = Sizes(s)[1 .. n]
<1> DEFINE t == SubSeq(s, 1, n)
           f == Sizes(s)
           g == Sizes(t)
           N == {m \in Nat : m <= n => g[1 .. m] = f[1 .. m]}
<1>0. n \in Nat /\ Len(s) \in Nat /\ n <= Len(s)  OBVIOUS
<1>1. t \in Seq(Slot) /\ Len(t) = n /\ \A i \in 1 .. n : t[i] = s[i]
  <2>1. n - 0 = n /\ 0 + 1 = 1 /\ 0 <= n /\ \A i \in Nat : 0 + i = i  BY <1>0
  <2> QED  BY <1>0, <2>1, PartIs
<1> HIDE DEF t
<1>2. DOMAIN t = 1 .. n  BY <1>0, <1>1
<1>3. \A m \in 1 .. n : g[1 .. m] = g[1 .. m - 1] + SizeOf(t, m)  BY <1>1, SizesOfFirst
<1>4. \A m \in 1 .. n : f[1 .. m] = f[1 .. m - 1] + SizeOf(s, m)
  <2>1. \A m \in 1 .. n : m \in 1 .. Len(s)  BY <1>0
  <2> QED  BY <2>1, SizesOfFirst
<1>5. \A m \in 1 .. n : SizeOf(t, m) = SizeOf(s, m)  BY <1>1 DEF SizeOf
<1>6. g[1 .. 0] = 0 /\ f[1 .. 0] = 0
  <2>1. 1 .. 0 = {}  OBVIOUS
  <2> QED  BY <1>1, <2>1, SizesNone
<1>7. EntriesSize(t) = g[1 .. n]  BY <1>2, EntriesSizeIs
<1> HIDE DEF f, g
<1>8. 0 \in N  BY <1>6
<1>9. ASSUME NEW m \in Nat, m \in N  PROVE m + 1 \in N
  <2> SUFFICES ASSUME m + 1 <= n  PROVE g[1 .. m + 1] = f[1 .. m + 1]  OBVIOUS
  <2>1. m <= n /\ m + 1 \in 1 .. n /\ (m + 1) - 1 = m  BY <1>0
  <2>2. g[1 .. m] = f[1 .. m]  BY <1>9, <2>1
  <2> QED  BY <2>1, <2>2, <1>3, <1>4, <1>5
<1>10. n \in N
  <2> HIDE DEF N
  <2>1. Nat \subseteq N  BY <1>8, <1>9, Induction
  <2> QED  BY <1>0, <2>1
<1>11. g[1 .. n] = f[1 .. n]  BY <1>0, <1>10
<1> QED  BY <1>7, <1>11 DEF t, f

(* No key of a page is longer than max.                                    *)
Brief(page, lo, max) ==
  /\ Len(lo) <= max /\ (page.high # NoKey => Len(page.high) <= max)
  /\ \A i \in DOMAIN page.slots : Len(KeyAt(page, i)) <= max

LEMMA BriefIs ==
  ASSUME NEW max, KeysFit(max), NEW page, NEW lo, NodeOK(page, lo), Brief(page, lo, max)
  PROVE  /\ page \in Node /\ Len(page.prefix) <= max
         /\ Len(page.prefix) + HighBytes(page) <= 2 * Largest(max)
         /\ \A i \in DOMAIN page.slots : SizeOf(page.slots, i) <= Largest(max)
<1>0. /\ max \in Nat /\ Largest(max) \in Nat /\ EntryHeader + max <= Largest(max)
      /\ EntryHeader \in Nat
  BY LargestIs
<1>1. /\ page \in Node /\ page.prefix \in Str /\ lo \in Str /\ Shares(page, lo)
      /\ page.high \in Str \cup {NoKey}
      /\ \A i \in DOMAIN page.slots : page.slots[i].key \in Str
  BY DEF NodeOK, Strings
<1>2. Len(page.prefix) <= max
  <2>1. CASE page.prefix = <<>>  BY <2>1, <1>0
  <2>2. CASE page.prefix # <<>>
    <3>1. Len(page.prefix) <= Len(lo)  BY <1>1, <2>2 DEF Shares, SharesFirst
    <3>2. Len(lo) <= max  BY DEF Brief
    <3>3. Len(lo) \in Nat /\ Len(page.prefix) \in Nat  BY <1>1 DEF Str
    <3> QED  BY <3>1, <3>2, <3>3, <1>0
  <2> QED  BY <2>1, <2>2
<1>3. HighBytes(page) \in Nat /\ HighBytes(page) <= Largest(max)
  <2>1. HighBytes(page) \in Nat  BY <1>1, PartsAre
  <2>2. CASE page.high = NoKey
    <3>1. HighBytes(page) = 0  BY <2>2 DEF HighBytes
    <3> QED  BY <3>1, <1>0
  <2>3. CASE page.high # NoKey
    <3>1. HighBytes(page) = EntryHeader + Len(page.high)  BY <2>3 DEF HighBytes
    <3>2. Len(page.high) <= max /\ Len(page.high) \in Nat  BY <1>1, <2>3 DEF Brief, Str
    <3> QED  BY <3>1, <3>2, <2>1, <1>0
  <2> QED  BY <2>2, <2>3
<1>4. ASSUME NEW i \in DOMAIN page.slots  PROVE SizeOf(page.slots, i) <= Largest(max)
  <2> DEFINE s == page.slots[i].key
  <2>1. Len(page.prefix \o s) <= max  BY DEF Brief, KeyAt
  <2>2. page.prefix \in Seq(Nat) /\ s \in Seq(Nat) /\ s \in Seq(Int)  BY <1>1 DEF Str
  <2>3. SizeOf(page.slots, i) = EntrySize(s)  BY DEF SizeOf
  <2> HIDE DEF s
  <2>4. Len(page.prefix \o s) = Len(page.prefix) + Len(s)  BY <2>2, ConcatLen
  <2>5. Len(s) <= max
    <3>1. Len(s) \in Nat /\ Len(page.prefix) \in Nat  BY <2>2
    <3> QED  BY <3>1, <2>1, <2>4, <1>0
  <2> QED  BY <2>2, <2>3, <2>5, EntryFits
<1>5. Len(page.prefix) \in Nat  BY <1>1 DEF Str
<1>6. Len(page.prefix) + HighBytes(page) <= 2 * Largest(max)  BY ONLY <1>0, <1>2, <1>3, <1>5
<1> QED  BY <1>1, <1>2, <1>4, <1>6

(* A half's entries take no more room than they did.                       *)
ShorterPart(t, s, b, c) ==
  Len(t) = c - b /\ \A i \in DOMAIN t : SizeOf(t, i) <= SizeOf(s, b + i)

LEMMA CutShorter ==
  ASSUME NEW s \in Seq(Slot), NEW b \in Nat, NEW c \in Nat, b <= c, c <= Len(s),
         NEW cut \in Nat, Cut(SubSeq(s, b + 1, c), cut) \in Seq(Slot)
  PROVE  ShorterPart(Cut(SubSeq(s, b + 1, c), cut), s, b, c)
<1> DEFINE u == SubSeq(s, b + 1, c)
           t == Cut(u, cut)
<1>0. t \in Seq(Slot)  OBVIOUS
<1>1. u \in Seq(Slot) /\ Len(u) = c - b /\ \A i \in 1 .. c - b : u[i] = s[b + i]
  BY PartIs
<1>2. t = [i \in DOMAIN u |-> [u[i] EXCEPT !.key = SubSeq(@, cut + 1, Len(@))]]
  BY DEF Cut
<1> HIDE DEF u, t
<1>3. DOMAIN u = 1 .. c - b /\ DOMAIN t = DOMAIN u /\ DOMAIN t = 1 .. Len(t)
      /\ Len(t) \in Nat /\ c - b \in Nat
  BY <1>0, <1>1, <1>2
<1>4. Len(t) = c - b  BY ONLY <1>3
<1>5. ASSUME NEW i \in DOMAIN t  PROVE SizeOf(t, i) <= SizeOf(s, b + i)
  <2> DEFINE k == s[b + i].key
             l == t[i].key
  <2>1. u[i] \in Slot /\ u[i] = s[b + i] /\ t[i] \in Slot  BY <1>0, <1>1, <1>3
  <2>2. t[i] = [u[i] EXCEPT !.key = SubSeq(@, cut + 1, Len(@))]  BY <1>2, <1>3
  <2>3. k \in Seq(Int) /\ l \in Seq(Int) /\ l = SubSeq(k, cut + 1, Len(k))
    BY <2>1, <2>2 DEF Slot
  <2>4. SizeOf(t, i) = AlignUp(EntryHeader + Len(l))
        /\ SizeOf(s, b + i) = AlignUp(EntryHeader + Len(k))
    BY DEF SizeOf, EntrySize
  <2> HIDE DEF k, l
  <2>5. Len(l) \in Nat /\ Len(k) \in Nat /\ Len(l) <= Len(k)  BY ONLY <2>3, cut \in Nat
  <2>6. /\ EntryHeader + Len(l) \in Nat /\ EntryHeader + Len(k) \in Nat
        /\ EntryHeader + Len(l) <= EntryHeader + Len(k)
    BY <2>5, LayoutAssumption
  <2> QED  BY <2>4, <2>6, AlignUpGrows
<1> QED  BY <1>4, <1>5 DEF ShorterPart, t, u

HalfSizes(h, page, n) ==
  /\ h.left.slots \in Seq(Slot) /\ h.right.slots \in Seq(Slot)
  /\ Len(h.left.slots) = n /\ Len(h.right.slots) = Count(page) - n
  /\ EntriesSize(h.left.slots) <= Sizes(page.slots)[1 .. n]
  /\ EntriesSize(h.right.slots) + Sizes(page.slots)[1 .. n] <= EntriesSize(page.slots)

LEMMA HalfSizesAre ==
  ASSUME NEW page, NEW lo, NodeOK(page, lo), ~NoSplitPoint(page),
         NEW pid \in Nat, NEW new \in Nat
  PROVE  HalfSizes(Halves(page, pid, new), page, FindSplitPoint(page))
<1> DEFINE n == FindSplitPoint(page)
           h == Halves(page, pid, new)
           m == Count(page)
           s == page.slots
           l == h.left.slots
           r == h.right.slots
           cl == SharedLeft(page, n)
           cr == SharedRight(page, n)
           f == Sizes(s)
<1>1. page \in Node  BY DEF NodeOK, Strings
<1>2. s \in Seq(Slot) /\ Len(s) = m /\ m \in Nat  BY <1>1, PageParts
<1>3. SplitAt(page, lo, n, Sentinel(page, n))  BY SplitAtIs
<1>4. n \in 1 .. m - 1  BY <1>3 DEF SplitAt
<1>5. l = Cut(SubSeq(s, 1, n), cl) /\ r = Cut(SubSeq(s, n + 1, m), cr)
  <2> DEFINE sep == Sentinel(page, n)
             prefixL == SubSeq(sep, 1, Len(page.prefix) + SharedLeft(page, n))
             slotsL == Cut(SubSeq(page.slots, 1, n), SharedLeft(page, n))
             prefixR == SubSeq(sep, 1, Len(page.prefix) + SharedRight(page, n))
             slotsR == Cut(SubSeq(page.slots, n + 1, Count(page)), SharedRight(page, n))
             heapL == PackedSize(slotsL, sep, prefixL)
             heapR == PackedRight(slotsR, page.high, prefixR)
             markL == page.llink # NoPage
             markR == page.rlink # NoPage
  <2>1. /\ h.left = [page EXCEPT !.slots = slotsL, !.dead = 0, !.high = sep, !.heap = heapL,
                             !.prefix = prefixL, !.marked = markL, !.rlink = new]
        /\ h.right = [page EXCEPT !.slots = slotsR, !.dead = 0, !.heap = heapR,
                              !.prefix = prefixR, !.marked = markR, !.llink = pid]
    BY DEF Halves
  <2> HIDE DEF h, sep, prefixL, slotsL, prefixR, slotsR, heapL, heapR, markL, markR
  <2>2. h.left.slots = slotsL /\ h.right.slots = slotsR  BY ONLY <2>1, <1>1 DEF Node
  <2> QED  BY <2>2 DEF slotsL, slotsR
<1>6. cl \in Nat /\ cr \in Nat  BY <1>3, SharedLeftIs, SharedRightIs
<1>7. l \in Seq(Slot) /\ r \in Seq(Slot)
  <2>1. h.left \in Node /\ h.right \in Node  BY HalvesLaidOut
  <2> QED  BY <2>1, PageParts
<1>8. f[1 .. m] = EntriesSize(s)
  <2>1. DOMAIN s = 1 .. m  BY <1>2
  <2> QED  BY <2>1, EntriesSizeIs
<1>9. n \in Nat /\ n <= m /\ 0 <= n /\ n - 0 = n /\ 0 + 1 = 1 /\ m - n \in Nat
      /\ n + (m - n) = m /\ n <= Len(s) /\ m <= Len(s) /\ 0 + n = n
  BY <1>2, <1>4
<1> HIDE DEF h, n, m, s, l, r, cl, cr
<1>10. Len(l) = n /\ \A i \in DOMAIN l : SizeOf(l, i) <= SizeOf(s, 0 + i)
  <2>1. l = Cut(SubSeq(s, 0 + 1, n), cl)  BY <1>5, <1>9
  <2>2. ShorterPart(Cut(SubSeq(s, 0 + 1, n), cl), s, 0, n)
    BY <2>1, <1>2, <1>6, <1>7, <1>9, CutShorter
  <2> QED  BY <2>1, <2>2, <1>9 DEF ShorterPart
<1>11. Len(r) = m - n /\ \A i \in DOMAIN r : SizeOf(r, i) <= SizeOf(s, n + i)
  <2>1. ShorterPart(Cut(SubSeq(s, n + 1, m), cr), s, n, m)
    BY <1>2, <1>5, <1>6, <1>7, <1>9, CutShorter
  <2> QED  BY <2>1, <1>5 DEF ShorterPart
<1>12. EntriesSize(l) <= f[1 .. n]
  <2>1. Sizes(l)[1 .. Len(l)] + f[1 .. 0] <= f[1 .. 0 + Len(l)]
    <3>1. 0 \in Nat /\ 0 + Len(l) <= Len(s)  BY <1>9, <1>10
    <3> QED  BY <3>1, <1>2, <1>7, <1>10, PartSize
  <2>2. f[1 .. 0] = 0
    <3>1. 1 .. 0 = {}  OBVIOUS
    <3> QED  BY <3>1, <1>2, SizesNone
  <2>3. EntriesSize(l) = Sizes(l)[1 .. Len(l)]
    <3>1. DOMAIN l = 1 .. Len(l)  BY <1>7
    <3> QED  BY <3>1, EntriesSizeIs
  <2>4. EntriesSize(l) \in Nat  BY <1>7, EntriesAligned
  <2> HIDE DEF f
  <2>5. 0 + Len(l) = n  BY <1>9, <1>10
  <2>6. EntriesSize(l) + 0 <= f[1 .. n]  BY <2>1, <2>2, <2>3, <2>5
  <2> QED  BY <2>4, <2>6
<1>13. EntriesSize(r) + f[1 .. n] <= EntriesSize(s)
  <2>1. Sizes(r)[1 .. Len(r)] + f[1 .. n] <= f[1 .. n + Len(r)]
    <3>1. n \in Nat /\ n + Len(r) <= Len(s)  BY <1>9, <1>11
    <3> QED  BY <3>1, <1>2, <1>7, <1>11, PartSize
  <2>3. EntriesSize(r) = Sizes(r)[1 .. Len(r)]
    <3>1. DOMAIN r = 1 .. Len(r)  BY <1>7
    <3> QED  BY <3>1, EntriesSizeIs
  <2>4. n + Len(r) = m  BY <1>9, <1>11
  <2> QED  BY <2>1, <2>3, <2>4, <1>8
<1>14. HalfSizes(h, page, n)
  BY <1>7, <1>10, <1>11, <1>12, <1>13 DEF HalfSizes, l, r, m, s
<1> QED  BY <1>14 DEF h, n

Clear(page) == SlotsEnd(page) + page.heap <= PageSize

(* A page without room for one more entry of e bytes: the live entries     *)
(* take more than half of the heap, by more than one entry, and both       *)
(* halves leave room for several.                                          *)
Filled(page, e) ==
  LET h == page.heap \div 2 IN
  /\ h + e < EntriesSize(page.slots) /\ EntriesSize(page.slots) <= 2 * h + 2 * e
  /\ h + 7 * e < page.heap

LEMMA FilledSizes ==
  ASSUME NEW p \in Nat, NEW q \in Nat, 4 * q <= p, NEW hd \in Nat, NEW w \in Nat,
         NEW h \in Nat, NEW m \in Nat, 2 * m <= h, h <= 2 * m + 1,
         NEW e \in Nat, 1 <= e, NEW a \in Nat, a <= e, NEW x \in Nat, x <= e,
         NEW t \in Nat, NEW d \in Nat, d <= q, NEW y \in Nat, y <= 2 * e,
         4 * w <= t, t + d + y - a < h, h < t + d + y + 2 * a,
         hd + w + h + x + a >= p, 3 * hd + 40 * e <= p
  PROVE  m + e < t /\ t <= 2 * m + 2 * e /\ m + 7 * e < h
<1>1. t < h + a /\ h < t + q + 4 * e  OBVIOUS
<1>2. 2 * h >= p + 20 * e  BY ONLY <1>1, 4 * w <= t, hd + w + h + x + a >= p,
         3 * hd + 40 * e <= p, x <= e, a <= e, p \in Nat, hd \in Nat, w \in Nat, h \in Nat,
         e \in Nat, a \in Nat, x \in Nat, t \in Nat
<1>3. m + 7 * e < h  BY <1>2
<1>4. m + e < t
  BY ONLY <1>1, <1>2, 4 * q <= p, 2 * m <= h, 1 <= e,
     p \in Nat, q \in Nat, h \in Nat, m \in Nat, e \in Nat, t \in Nat
<1>5. t <= 2 * m + 2 * e
  BY ONLY <1>1, h <= 2 * m + 1, a <= e, 1 <= e,
     h \in Nat, m \in Nat, e \in Nat, t \in Nat, a \in Nat
<1> QED  BY <1>3, <1>4, <1>5

(* The key's entry, as HasSpace counts it.                                 *)
LEMMA EntryBytes ==
  ASSUME NEW max, KeysFit(max), NEW page, NEW lo, NodeOK(page, lo), NEW k \in Str,
         Covers(page, lo, k), Len(k) <= max
  PROVE  /\ RemoveKeyPrefix(page, k) \in Seq(Int) /\ Len(RemoveKeyPrefix(page, k)) \in Nat
         /\ Len(RemoveKeyPrefix(page, k)) + EntryHeader <= Largest(max)
<1> DEFINE s == RemoveKeyPrefix(page, k)
<1>1. s \in Str /\ page.prefix \o s = k  BY RemoveKeyPrefixIs DEF Stripped
<1>2. page.prefix \in Str  BY DEF NodeOK, Strings
<1> HIDE DEF s
<1>3. Len(k) = Len(page.prefix) + Len(s)  BY <1>1, <1>2, ConcatLen DEF Str
<1>4. Len(page.prefix) \in Nat /\ Len(s) \in Nat /\ s \in Seq(Int)  BY <1>1, <1>2 DEF Str
<1>5. /\ max \in Nat /\ Largest(max) \in Nat /\ EntryHeader + max <= Largest(max)
      /\ EntryHeader \in Nat
  BY LargestIs
<1>6. Len(s) + EntryHeader <= Largest(max)  BY <1>3, <1>4, <1>5
<1> QED  BY <1>4, <1>6 DEF s

LEMMA FullIsFilled ==
  ASSUME NEW max, KeysFit(max), NEW page, NEW lo, NodeOK(page, lo), Brief(page, lo, max),
         Accounted(page), NEW k \in Str, Covers(page, lo, k), Len(k) <= max,
         ~HasSpace(page, k)
  PROVE  Filled(page, Largest(max))
<1> DEFINE p == PageSize
           q == PageSize \div 4
           w == Count(page) * SlotSize
           h == page.heap
           m == page.heap \div 2
           e == Largest(max)
           r == Len(RemoveKeyPrefix(page, k))
           x == r + EntryHeader
           t == EntriesSize(page.slots)
           d == page.dead
           l == Len(page.prefix)
           b == HighBytes(page)
           y == l + b
           z == Parts(page)
<1>1. /\ e \in Nat /\ 1 <= e /\ Align \in Nat /\ Align <= e /\ HeaderSize \in Nat /\ p \in Nat
      /\ SlotSize \in Nat /\ 4 * SlotSize <= EntryHeader /\ 3 * HeaderSize + 40 * e <= p
      /\ EntryHeader \in Nat
  BY LargestIs
<1>2. page \in Node /\ y <= 2 * e  BY BriefIs
<1>3. /\ h \in Nat /\ t \in Nat /\ d \in Nat /\ Len(page.prefix) \in Nat
      /\ HighBytes(page) \in Nat
  BY <1>2, PartsAre
<1>4. r \in Nat /\ x <= e  BY EntryBytes
<1>5. /\ Parts(page) - Align < h /\ h < Parts(page) + 2 * Align /\ d <= q
  BY DEF Accounted
<1>6. Parts(page) = t + d + Len(page.prefix) + HighBytes(page)  BY DEF Parts
<1>7. page.slots \in Seq(Slot) /\ Count(page) = Len(page.slots) /\ Count(page) \in Nat
  BY <1>2, PageParts
<1>8. 4 * w <= t /\ w \in Nat
  <2>1. 4 * (Len(page.slots) * SlotSize) <= t  BY <1>1, <1>7, EntriesOutweighSlots
  <2>2. Len(page.slots) * SlotSize \in Nat  BY <1>1, <1>7
  <2> QED  BY <2>1, <2>2, <1>7
<1>9. HeaderSize + w + h + r + EntryHeader + Align >= p
  <2>1. ~(HeaderSize + w + h + r + EntryHeader + Align < p)
    BY DEF HasSpace, SlotsEnd
  <2> HIDE DEF w, h, r, p
  <2> QED  BY <2>1, <1>1, <1>3, <1>4, <1>8
<1>10. q \in Nat /\ 4 * q <= p  BY <1>1
<1>11. m \in Nat /\ 2 * m <= h /\ h <= 2 * m + 1  BY <1>3
<1> HIDE DEF p, q, w, h, m, e, r, t, d
<1>12. t + d + y - Align < h /\ h < t + d + y + 2 * Align /\ y \in Nat
  <2>1. z = t + d + l + b /\ z - Align < h /\ h < z + 2 * Align  BY <1>5, <1>6 DEF l, b
  <2>2. l \in Nat /\ b \in Nat  BY <1>3 DEF l, b
  <2> HIDE DEF z, l, b
  <2> QED  BY ONLY <2>1, <2>2, <1>1, <1>3
<1>13. HeaderSize + w + h + x + Align >= p /\ x \in Nat  BY <1>1, <1>3, <1>4, <1>8, <1>9
<1> HIDE DEF x, y
<1>14. m + e < t /\ t <= 2 * m + 2 * e /\ m + 7 * e < h
  BY <1>1, <1>2, <1>3, <1>4, <1>5, <1>8, <1>10, <1>11, <1>12, <1>13, FilledSizes
<1> QED  BY <1>14 DEF Filled, m, e, t, h

Balanced(page, n, e) ==
  /\ n \in 1 .. Count(page) - 1 /\ Sizes(page.slots)[1 .. n] \in Nat
  /\ page.heap \div 2 <= Sizes(page.slots)[1 .. n]
  /\ Sizes(page.slots)[1 .. n] <= page.heap \div 2 + e

(* There is a split point then, and it is in the middle.                   *)
LEMMA FilledSplits ==
  ASSUME NEW page \in Node, NEW e \in Nat, Filled(page, e),
         \A i \in DOMAIN page.slots : SizeOf(page.slots, i) <= e
  PROVE  ~NoSplitPoint(page) /\ Balanced(page, FindSplitPoint(page), e)
<1> DEFINE s == page.slots
           m == Count(page)
           h == page.heap \div 2
           f == Sizes(s)
           t == EntriesSize(s)
           n == FindSplitPoint(page)
           P == SplitPoints(page)
<1>1. s \in Seq(Slot) /\ Len(s) = m /\ m \in Nat /\ DOMAIN s = 1 .. m /\ page.heap \in Nat
  BY PageParts
<1>2. h \in Nat  BY <1>1
<1>3. t = f[1 .. m] /\ t \in Nat  BY <1>1, EntriesSizeIs, EntriesAligned
<1>4. \A i \in 1 .. m : /\ f[1 .. i] = f[1 .. i - 1] + SizeOf(s, i)
                        /\ f[1 .. i] \in Nat /\ f[1 .. i - 1] \in Nat
  BY <1>1, SizesOfFirst
<1>5. \A i \in 1 .. m : SizeOf(s, i) \in Nat /\ SizeOf(s, i) <= e  BY <1>1, SizeOfIs
<1>6. f[1 .. 0] = 0
  <2>1. 1 .. 0 = {}  OBVIOUS
  <2> QED  BY <2>1, <1>1, SizesNone
<1>7. h + e < t  BY DEF Filled
<1>8. P = {i \in 1 .. m : f[1 .. i] >= h}
  <2>1. \A i \in 1 .. m : EntriesSize(SubSeq(s, 1, i)) = f[1 .. i]
    <3>1. \A i \in 1 .. m : i \in 0 .. Len(s)  BY <1>1
    <3> QED  BY <3>1, <1>1, FirstSize
  <2>2. P = {i \in 1 .. m : EntriesSize(SubSeq(s, 1, i)) >= h}  BY DEF SplitPoints
  <2> QED  BY <2>1, <2>2
<1>9. m - 1 \in P
  <2> HIDE DEF s, m, h, f, t, P
  <2>1. m # 0
    <3> SUFFICES ASSUME m = 0 PROVE FALSE  OBVIOUS
    <3>1. t = 0  BY <1>3, <1>6
    <3> QED  BY <3>1, <1>2, <1>7
  <2>2. m \in 1 .. m  BY <2>1, <1>1
  <2>3. t = f[1 .. m - 1] + SizeOf(s, m) /\ f[1 .. m - 1] \in Nat
        /\ SizeOf(s, m) \in Nat /\ SizeOf(s, m) <= e
    BY <2>2, <1>3, <1>4, <1>5
  <2>4. f[1 .. m - 1] > h  BY ONLY <2>3, <1>2, <1>3, <1>7, e \in Nat
  <2>5. m # 1
    <3> SUFFICES ASSUME m = 1 PROVE FALSE  OBVIOUS
    <3>1. m - 1 = 0  OBVIOUS
    <3>2. f[1 .. m - 1] = 0  BY <3>1, <1>6
    <3> QED  BY <3>2, <2>4, <1>2
  <2>6. m - 1 \in 1 .. m  BY <2>1, <2>5, <1>1
  <2>7. f[1 .. m - 1] >= h  BY <2>3, <2>4, <1>2
  <2> QED  BY <2>6, <2>7, <1>8
<1>10. ~NoSplitPoint(page)
  <2>1. m - 1 # m  BY <1>1
  <2> QED  BY <2>1, <1>9 DEF NoSplitPoint
<1>11. n \in 1 .. m - 1  BY <1>10, SplitPlace
<1>12. n \in P /\ \A i \in P : n <= i
  <2>1. \E i \in P : \A j \in P : i <= j
    <3>1. P \in SUBSET Nat /\ P # {}  BY <1>8, <1>9
    <3> HIDE DEF P
    <3> QED  BY <3>1, LeastOf
  <2> QED  BY <2>1 DEF FindSplitPoint
<1> HIDE DEF s, m, h, f, t, n, P
<1>13. n \in 1 .. m /\ n - 1 \in Int  BY <1>1, <1>11
<1>14. f[1 .. n] \in Nat /\ h <= f[1 .. n]  BY <1>2, <1>4, <1>8, <1>12, <1>13
<1>15. f[1 .. n - 1] <= h
  <2>1. CASE n = 1
    <3>1. n - 1 = 0  BY <2>1
    <3> QED  BY <3>1, <1>2, <1>6
  <2>2. CASE n # 1
    <3>1. n - 1 \in 1 .. m /\ ~(n <= n - 1)  BY <2>2, <1>1, <1>11
    <3>2. n - 1 \notin P  BY <3>1, <1>12
    <3>3. ~(f[1 .. n - 1] >= h)  BY <3>1, <3>2, <1>8
    <3> QED  BY <3>3, <1>2, <1>4, <1>13
  <2> QED  BY <2>1, <2>2
<1>16. f[1 .. n] <= h + e
  <2>1. /\ f[1 .. n] = f[1 .. n - 1] + SizeOf(s, n) /\ f[1 .. n - 1] \in Nat
        /\ SizeOf(s, n) \in Nat /\ SizeOf(s, n) <= e
    BY <1>4, <1>5, <1>13
  <2> QED  BY ONLY <2>1, <1>2, <1>15, e \in Nat
<1> QED  BY <1>10, <1>11, <1>14, <1>16 DEF Balanced, n, m, h, f, s

LEMMA HalvesBrief ==
  ASSUME NEW max, NEW page, NEW lo, Brief(page, lo, max), NEW h, NEW new,
         Halved(h, page, lo, new)
  PROVE  Brief(h.left, lo, max) /\ Brief(h.right, h.sep, max)
<1>1. \A x, r : Has(page, x, r) => Len(x) <= max  BY DEF Has, Brief
<1>2. /\ \A x, r : Has(h.left, x, r) => Has(page, x, r)
      /\ \A x, r : Has(h.right, x, r) => Has(page, x, r)
  BY DEF Halved
<1>3. ASSUME NEW half, \A x, r : Has(half, x, r) => Has(page, x, r), NEW i \in DOMAIN half.slots
      PROVE  Len(KeyAt(half, i)) <= max
  <2>1. Has(half, KeyAt(half, i), half.slots[i].ref)  BY DEF Has
  <2> QED  BY <2>1, <1>1, <1>3
<1>4. Len(lo) <= max /\ (page.high # NoKey => Len(page.high) <= max)  BY DEF Brief
<1>5. Len(h.sep) <= max /\ h.left.high = h.sep /\ h.right.high = page.high
  BY DEF Halved, Brief
<1> QED  BY <1>2, <1>3, <1>4, <1>5 DEF Brief

LEMMA ReserveIs ==
  ASSUME NEW h \in Nat, NEW s \in Seq(Int)
  PROVE  /\ ReserveSlot(h, s) \in Nat /\ ReserveSlot(h, s) < h + EntryHeader + Len(s) + Align
<1>1. h + EntryHeader + Len(s) \in Nat  BY LayoutAssumption
<1> QED  BY <1>1, AlignUpBounds DEF ReserveSlot

(* A half laid out afresh, and with the new key.                           *)
LEMMA HalfHeap ==
  ASSUME NEW max, KeysFit(max), NEW half, NEW low, NodeOK(half, low), Brief(half, low, max),
         LaidOut(half), NEW m \in Nat, EntriesSize(half.slots) <= m + 2 * Largest(max)
  PROVE  /\ half.heap <= m + 5 * Largest(max)
         /\ \A k \in Str : Covers(half, low, k) /\ Len(k) <= max =>
              ReserveSlot(half.heap, RemoveKeyPrefix(half, k)) <= m + 7 * Largest(max)
<1> DEFINE e == Largest(max)
           l == Len(half.prefix)
           b == HighBytes(half)
           t == EntriesSize(half.slots)
           z == Parts(half)
           h == half.heap
<1>1. /\ e \in Nat /\ 1 <= e /\ Align \in Nat /\ Align <= e /\ EntryHeader \in Nat
  BY LargestIs
<1>2. half \in Node /\ l + b <= 2 * e  BY BriefIs
<1>3. l \in Nat /\ b \in Nat /\ t \in Nat /\ z \in Nat /\ h \in Nat /\ half.dead \in Nat
  BY <1>2, PartsAre
<1>4. h < z + Align  BY <1>2, LaidOutAccounted
<1>5. z = t + half.dead + l + b /\ half.dead = 0  BY DEF Parts, LaidOut
<1>6. t <= m + 2 * e  OBVIOUS
<1> HIDE DEF e, l, b, t, z, h
<1>7. h <= m + 5 * e  BY ONLY <1>1, <1>2, <1>3, <1>4, <1>5, <1>6, m \in Nat
<1>8. ASSUME NEW k \in Str, Covers(half, low, k), Len(k) <= max
      PROVE  ReserveSlot(h, RemoveKeyPrefix(half, k)) <= m + 7 * e
  <2> DEFINE s == RemoveKeyPrefix(half, k)
  <2>1. s \in Seq(Int) /\ Len(s) \in Nat /\ Len(s) + EntryHeader <= e
    BY <1>8, EntryBytes DEF e
  <2> HIDE DEF s
  <2>2. ReserveSlot(h, s) \in Nat /\ ReserveSlot(h, s) < h + EntryHeader + Len(s) + Align
    BY <1>3, <2>1, ReserveIs
  <2>3. ReserveSlot(h, s) <= m + 7 * e
    BY ONLY <1>1, <1>3, <1>7, <2>1, <2>2, m \in Nat
  <2> QED  BY <2>3 DEF s
<1> QED  BY <1>7, <1>8 DEF e, h

LEMMA ProductGrows ==
  ASSUME NEW a \in Nat, NEW b \in Nat, NEW s \in Nat, a <= b
  PROVE  a * s \in Nat /\ b * s \in Nat /\ a * s <= b * s
<1> DEFINE d == b - a
<1>1. d \in Nat /\ b = a + d  OBVIOUS
<1> HIDE DEF d
<1>2. b * s = a * s + d * s  BY <1>1
<1>3. a * s \in Nat /\ d * s \in Nat  BY <1>1
<1> QED  BY ONLY <1>2, <1>3

(* No more slots and no larger a heap than a clear page has.               *)
LEMMA ClearSmaller ==
  ASSUME NEW page, NEW new, Clear(page), Count(page) \in Nat, Count(new) \in Nat,
         page.heap \in Nat, new.heap \in Nat, Count(new) <= Count(page), new.heap <= page.heap
  PROVE  Clear(new)
<1> DEFINE a == Count(new) * SlotSize
           b == Count(page) * SlotSize
<1>1. HeaderSize \in Nat /\ PageSize \in Nat /\ SlotSize \in Nat  BY LayoutAssumption
<1>2. a \in Nat /\ b \in Nat /\ a <= b  BY <1>1, ProductGrows
<1>3. HeaderSize + b + page.heap <= PageSize  BY DEF Clear, SlotsEnd
<1> HIDE DEF a, b
<1>4. HeaderSize + a + new.heap <= PageSize  BY <1>1, <1>2, <1>3
<1> QED  BY <1>4 DEF Clear, SlotsEnd, a

LEMMA InsertedIs ==
  ASSUME NEW page, NEW lo, NEW k \in Str, NewHere(page, lo, k), NEW v \in Int, NEW new,
         new \in {LeafInsert(page, k, v), InterInsert(page, k, v)}
  PROVE  /\ new \in Node /\ Count(new) = Count(page) + 1
         /\ new.heap = ReserveSlot(page.heap, RemoveKeyPrefix(page, k))
         /\ HasSpace(page, k) => Clear(new)
<1> DEFINE s == RemoveKeyPrefix(page, k)
           i == LowerIdx(page.slots, s)
           j == UpperIdx(page.slots, s)
<1>1. page \in Node /\ NodeOK(page, lo) /\ Covers(page, lo, k)
  BY DEF NewHere, NodeOK, Strings
<1>2. s \in Seq(Int) /\ ~TooShort(page, k)
  <2>1. s \in Str /\ ~TooShort(page, k)  BY <1>1, RemoveKeyPrefixIs DEF Stripped
  <2> QED  BY <2>1 DEF Str
<1>3. i \in 0 .. Count(page) /\ j \in 0 .. Count(page)
  BY <1>1, PlacesAre DEF LowerPlace, UpperPlace
<1>4. LeafInsert(page, k, v) = InsertSlot(page, i, s, v)
      /\ InterInsert(page, k, v) = InsertSlot(page, j, s, v)
  BY DEF LeafInsert, InterInsert
<1> HIDE DEF i, j
<1>5. PICK idx \in 0 .. Count(page) : new = InsertSlot(page, idx, s, v)
  BY <1>3, <1>4
<1>6. /\ new \in Node /\ new.heap = ReserveSlot(page.heap, s)
      /\ Inserted(new.slots, page.slots, idx + 1, [key |-> s, ref |-> v])
  <2> HIDE DEF s
  <2> QED  BY <1>1, <1>2, <1>5, InsertSlotIs
<1>7. Count(new) = Count(page) + 1  BY <1>6 DEF Inserted, Count
<1>8. ASSUME HasSpace(page, k)  PROVE Clear(new)
  <2>1. k \in Seq(Int)  BY DEF Str
  <2>2. SlotsEnd(InsertSlot(page, idx, s, v)) + InsertSlot(page, idx, s, v).heap <= PageSize
    BY <2>1, <1>1, <1>2, <1>8, InsertFits
  <2> HIDE DEF s
  <2> QED  BY <2>2, <1>5 DEF Clear
<1> QED  BY <1>6, <1>7, <1>8

(* A half of a full page, as it is and with the new key. *)
Roomy(half, low, page, max) ==
  /\ half \in Node /\ Count(half) + 1 <= Count(page) /\ half.heap < page.heap
  /\ \A k \in Str : Covers(half, low, k) /\ Len(k) <= max =>
       ReserveSlot(half.heap, RemoveKeyPrefix(half, k)) < page.heap

LEMMA HalvesRoomy ==
  ASSUME NEW max, KeysFit(max), NEW page, NEW lo, NEW k \in Str, NewHere(page, lo, k),
         Len(k) <= max, Brief(page, lo, max), Accounted(page), ~HasSpace(page, k),
         NEW pid \in Nat, NEW new \in Nat
  PROVE  /\ ~NoSplitPoint(page)
         /\ LET h == Halves(page, pid, new) IN
            Roomy(h.left, lo, page, max) /\ Roomy(h.right, h.sep, page, max)
<1> DEFINE e == Largest(max)
           h == Halves(page, pid, new)
           n == FindSplitPoint(page)
           m == page.heap \div 2
           f == Sizes(page.slots)[1 .. n]
           t == EntriesSize(page.slots)
<1>1. NodeOK(page, lo) /\ Covers(page, lo, k) /\ page \in Node
  BY DEF NewHere, NodeOK, Strings
<1>2. e \in Nat  BY LargestIs
<1>3. Filled(page, e)  BY <1>1, FullIsFilled
<1>4. \A i \in DOMAIN page.slots : SizeOf(page.slots, i) <= e  BY <1>1, BriefIs
<1>5. ~NoSplitPoint(page) /\ Balanced(page, n, e)
  <2> HIDE DEF e
  <2> QED  BY <1>1, <1>2, <1>3, <1>4, FilledSplits
<1>6. n \in 1 .. Count(page) - 1 /\ f \in Nat /\ m <= f /\ f <= m + e
  BY <1>5 DEF Balanced
<1>7. t <= 2 * m + 2 * e /\ m + 7 * e < page.heap  BY <1>3 DEF Filled
<1>8. /\ h.left.slots \in Seq(Slot) /\ h.right.slots \in Seq(Slot)
      /\ Count(h.left) = n /\ Count(h.right) = Count(page) - n
      /\ EntriesSize(h.left.slots) <= f /\ EntriesSize(h.right.slots) + f <= t
  <2>1. HalfSizes(h, page, n)  BY <1>1, <1>5, HalfSizesAre
  <2> QED  BY <2>1 DEF HalfSizes, Count
<1>9. /\ h.left \in Node /\ LaidOut(h.left) /\ h.right \in Node /\ LaidOut(h.right)
  BY <1>1, <1>5, HalvesLaidOut
<1>10. Halved(h, page, lo, new)  BY <1>1, <1>5, HalvesAre
<1>11. page.heap \in Nat /\ Count(page) \in Nat /\ t \in Nat  BY <1>1, PartsAre, PageParts
<1>12. m \in Nat  BY <1>11
<1> HIDE DEF e, h, n, m, f, t
<1>13. Brief(h.left, lo, max) /\ Brief(h.right, h.sep, max)  BY <1>10, HalvesBrief
<1>14. NodeOK(h.left, lo) /\ NodeOK(h.right, h.sep)  BY <1>10 DEF Halved
<1>15. EntriesSize(h.left.slots) \in Nat /\ EntriesSize(h.right.slots) \in Nat
  BY <1>8, EntriesAligned
<1>16. EntriesSize(h.left.slots) <= m + 2 * e /\ EntriesSize(h.right.slots) <= m + 2 * e
  <2> DEFINE tl == EntriesSize(h.left.slots)
             tr == EntriesSize(h.right.slots)
  <2>1. tl <= f /\ tr + f <= t /\ tl \in Nat /\ tr \in Nat  BY <1>8, <1>15
  <2>2. f \in Nat /\ m <= f /\ f <= m + e /\ t <= 2 * m + 2 * e  BY <1>6, <1>7
  <2> HIDE DEF tl, tr
  <2>3. tl <= m + 2 * e  BY ONLY <2>1, <2>2, <1>2, <1>12
  <2>4. tr <= m + 2 * e  BY ONLY <2>1, <2>2, <1>2, <1>11, <1>12
  <2> QED  BY <2>3, <2>4 DEF tl, tr
<1>17. Count(h.left) + 1 <= Count(page) /\ Count(h.right) + 1 <= Count(page)
  BY <1>6, <1>8, <1>11
<1>18. ASSUME NEW half, NEW low, half \in Node, LaidOut(half), NodeOK(half, low),
              Brief(half, low, max), EntriesSize(half.slots) <= m + 2 * e,
              Count(half) + 1 <= Count(page)
       PROVE  Roomy(half, low, page, max)
  <2>1. /\ half.heap <= m + 5 * e
        /\ \A x \in Str : Covers(half, low, x) /\ Len(x) <= max =>
              ReserveSlot(half.heap, RemoveKeyPrefix(half, x)) <= m + 7 * e
    BY <1>12, <1>18, HalfHeap DEF e
  <2>2. half.heap \in Nat  BY <1>18, PageParts
  <2>3. half.heap < page.heap  BY ONLY <2>1, <2>2, <1>2, <1>7, <1>11, <1>12
  <2>4. ASSUME NEW x \in Str, Covers(half, low, x), Len(x) <= max
        PROVE  ReserveSlot(half.heap, RemoveKeyPrefix(half, x)) < page.heap
    <3> DEFINE s == RemoveKeyPrefix(half, x)
               r == ReserveSlot(half.heap, s)
    <3>1. s \in Seq(Int)  BY <1>18, <2>4, EntryBytes
    <3> HIDE DEF s
    <3>2. r \in Nat  BY <2>2, <3>1, ReserveIs
    <3>3. r <= m + 7 * e  BY <2>1, <2>4 DEF s
    <3> HIDE DEF r
    <3>4. r < page.heap  BY ONLY <3>2, <3>3, <1>2, <1>7, <1>11, <1>12
    <3> QED  BY <3>4 DEF r, s
  <2> QED  BY <1>18, <2>3, <2>4 DEF Roomy
<1>19. Roomy(h.left, lo, page, max)  BY <1>9, <1>13, <1>14, <1>16, <1>17, <1>18
<1>20. Roomy(h.right, h.sep, page, max)  BY <1>9, <1>13, <1>14, <1>16, <1>17, <1>18
<1> QED  BY <1>5, <1>19, <1>20 DEF h

LEMMA RoomyClear ==
  ASSUME NEW page \in Node, Clear(page), NEW half, NEW low, NEW max, Roomy(half, low, page, max)
  PROVE  /\ Clear(half)
         /\ \A k \in Str, v \in Int : NewHere(half, low, k) /\ Len(k) <= max =>
              Clear(LeafInsert(half, k, v)) /\ Clear(InterInsert(half, k, v))
<1>1. /\ half \in Node /\ Count(half) + 1 <= Count(page) /\ half.heap < page.heap
      /\ \A k \in Str : Covers(half, low, k) /\ Len(k) <= max =>
           ReserveSlot(half.heap, RemoveKeyPrefix(half, k)) < page.heap
  BY DEF Roomy
<1>2. /\ Count(page) \in Nat /\ page.heap \in Nat /\ Count(half) \in Nat /\ half.heap \in Nat
  BY <1>1, PageParts
<1>3. Clear(half)
  <2>1. Count(half) <= Count(page) /\ half.heap <= page.heap  BY <1>1, <1>2
  <2> QED  BY <2>1, <1>2, ClearSmaller
<1>4. ASSUME NEW k \in Str, NEW v \in Int, NewHere(half, low, k), Len(k) <= max, NEW new,
             new \in {LeafInsert(half, k, v), InterInsert(half, k, v)}
      PROVE  Clear(new)
  <2>1. /\ new \in Node /\ Count(new) = Count(half) + 1
        /\ new.heap = ReserveSlot(half.heap, RemoveKeyPrefix(half, k))
    BY <1>4, InsertedIs
  <2>2. Covers(half, low, k)  BY <1>4 DEF NewHere
  <2>3. new.heap < page.heap  BY <2>1, <2>2, <1>1, <1>4
  <2>4. Count(new) \in Nat /\ new.heap \in Nat  BY <2>1, PageParts
  <2>5. Count(new) <= Count(page) /\ new.heap <= page.heap  BY <2>1, <2>3, <2>4, <1>1, <1>2
  <2> QED  BY <2>4, <2>5, <1>2, ClearSmaller
<1> QED  BY <1>3, <1>4

LEMMA SplitRoom ==
  ASSUME NEW max, KeysFit(max), NEW page, NEW lo, NEW k \in Str, NewHere(page, lo, k),
         Len(k) <= max, Brief(page, lo, max), Accounted(page), Clear(page),
         ~HasSpace(page, k), NEW pid \in Nat, NEW new \in Nat, NEW ref \in Int
  PROVE  LET g == LeafSplit(page, pid, new, k, ref)
             h == InterSplit(page, pid, new, k, ref)
             half == HalfFor(Halves(page, pid, new), k)
         IN /\ ~NoSplitPoint(page) /\ ~HeapOverflow(half, RemoveKeyPrefix(half, k))
            /\ Clear(g.left) /\ Clear(g.right) /\ Clear(h.left) /\ Clear(h.right)
<1> DEFINE c == Halves(page, pid, new)
           g == LeafSplit(page, pid, new, k, ref)
           h == InterSplit(page, pid, new, k, ref)
           half == HalfFor(c, k)
           low == LowFor(c, lo, k)
<1>1. /\ ~NoSplitPoint(page)
      /\ Roomy(c.left, lo, page, max) /\ Roomy(c.right, c.sep, page, max)
  BY HalvesRoomy
<1>2. page \in Node /\ NodeOK(page, lo)  BY DEF NewHere, NodeOK, Strings
<1>3. NewHere(half, low, k)
  <2>1. Halved(c, page, lo, new)  BY <1>1, <1>2, HalvesAre
  <2> HIDE DEF c
  <2> QED  BY <2>1, HalfTakes
<1>4. c = [sep |-> c.sep, left |-> c.left, right |-> c.right]  BY DEF Halves
<1>5. /\ g = IF Below(k, c.sep) THEN [c EXCEPT !.left = LeafInsert(@, k, ref)]
                                ELSE [c EXCEPT !.right = LeafInsert(@, k, ref)]
      /\ h = IF Below(k, c.sep) THEN [c EXCEPT !.left = InterInsert(@, k, ref)]
                                ELSE [c EXCEPT !.right = InterInsert(@, k, ref)]
  BY DEF LeafSplit, InterSplit
<1> HIDE DEF c, g, h
<1>6. Roomy(half, low, page, max)  BY <1>1 DEF HalfFor, LowFor
<1>7. Clear(c.left) /\ Clear(c.right)  BY <1>1, <1>2, RoomyClear
<1>8. Clear(LeafInsert(half, k, ref)) /\ Clear(InterInsert(half, k, ref))
  <2> HIDE DEF half, low
  <2> QED  BY <1>2, <1>3, <1>6, RoomyClear
<1>9. ~HeapOverflow(half, RemoveKeyPrefix(half, k))
  <2> HIDE DEF half, low
  <2> DEFINE r == ReserveSlot(half.heap, RemoveKeyPrefix(half, k))
             w == Count(page) * SlotSize
  <2>1. r < page.heap  BY <1>3, <1>6 DEF Roomy, NewHere
  <2>2. HeaderSize + w + page.heap <= PageSize  BY DEF Clear, SlotsEnd
  <2>3. /\ HeaderSize \in Nat /\ PageSize \in Nat /\ SlotSize \in Nat /\ Count(page) \in Nat
        /\ page.heap \in Nat
    BY <1>2, PageParts, LayoutAssumption
  <2>4. w \in Nat  BY <2>3
  <2>5. r \in Nat
    <3>1. half \in Node /\ NodeOK(half, low) /\ Covers(half, low, k)
      BY <1>3 DEF NewHere, NodeOK, Strings
    <3>2. RemoveKeyPrefix(half, k) \in Str  BY <3>1, RemoveKeyPrefixIs DEF Stripped
    <3>3. half.heap \in Nat /\ RemoveKeyPrefix(half, k) \in Seq(Int)
      BY <3>1, <3>2, PageParts DEF Str
    <3> QED  BY <3>3, ReserveIs
  <2> HIDE DEF r, w
  <2>6. ~(r >= PageSize)  BY <2>1, <2>2, <2>3, <2>4, <2>5
  <2> QED  BY <2>6 DEF HeapOverflow, r
<1>10. CASE Below(k, c.sep)
  <2>1. /\ g = [sep |-> c.sep, left |-> LeafInsert(c.left, k, ref), right |-> c.right]
        /\ h = [sep |-> c.sep, left |-> InterInsert(c.left, k, ref), right |-> c.right]
    BY <1>4, <1>5, <1>10
  <2>2. /\ g.left = LeafInsert(c.left, k, ref) /\ g.right = c.right
        /\ h.left = InterInsert(c.left, k, ref) /\ h.right = c.right
    BY ONLY <2>1
  <2>3. half = c.left  BY <1>10 DEF HalfFor
  <2>4. Clear(g.left) /\ Clear(g.right) /\ Clear(h.left) /\ Clear(h.right)
    BY <2>2, <2>3, <1>7, <1>8
  <2> QED  BY <2>4, <1>1, <1>9 DEF g, h, c
<1>11. CASE ~Below(k, c.sep)
  <2>1. /\ g = [sep |-> c.sep, left |-> c.left, right |-> LeafInsert(c.right, k, ref)]
        /\ h = [sep |-> c.sep, left |-> c.left, right |-> InterInsert(c.right, k, ref)]
    BY <1>4, <1>5, <1>11
  <2>2. /\ g.right = LeafInsert(c.right, k, ref) /\ g.left = c.left
        /\ h.right = InterInsert(c.right, k, ref) /\ h.left = c.left
    BY ONLY <2>1
  <2>3. half = c.right  BY <1>11 DEF HalfFor
  <2>4. Clear(g.left) /\ Clear(g.right) /\ Clear(h.left) /\ Clear(h.right)
    BY <2>2, <2>3, <1>7, <1>8
  <2> QED  BY <2>4, <1>1, <1>9 DEF g, h, c
<1> QED  BY <1>10, <1>11

(* A compaction gives back more than it can lose to alignment.             *)
LEMMA DeleteClear ==
  ASSUME NEW max, KeysFit(max), NEW page, NEW lo, NodeOK(page, lo), NEW k \in Str,
         Covers(page, lo, k), LeafFound(page, k), Accounted(page), Clear(page),
         LeafDelete(page, k) \in Node
  PROVE  Clear(LeafDelete(page, k))
<1> DEFINE new == LeafDelete(page, k)
<1>1. page \in Node /\ new \in Node  BY DEF NodeOK, Strings
<1>2. PICK s, t : DeletedFrom(new, page, s, t)  BY LeafDeleteSizes
<1> DEFINE dead == page.dead + EntrySize(s)
           q == PageSize \div 4
           h == PackedSize(t, page.high, page.prefix)
<1>3. /\ s \in Seq(Int) /\ t \in Seq(Slot) /\ Len(t) = Len(page.slots) - 1
      /\ EntriesSize(page.slots) = EntriesSize(t) + EntrySize(s)
      /\ new = IF dead > q
               THEN [page EXCEPT !.slots = t, !.dead = 0, !.heap = h]
               ELSE [page EXCEPT !.slots = t, !.dead = dead]
  BY <1>2 DEF DeletedFrom
<1>4. EntrySize(s) \in Nat  BY <1>3, EntrySizeIs
<1>5. /\ EntriesSize(page.slots) \in Nat /\ page.dead \in Nat /\ Len(page.prefix) \in Nat
      /\ HighBytes(page) \in Nat /\ Parts(page) \in Nat /\ page.heap \in Nat
      /\ Parts(new) \in Nat /\ new.heap \in Nat /\ EntriesSize(t) \in Nat
  BY <1>1, <1>3, PartsAre, EntriesAligned
<1>6. /\ Count(page) \in Nat /\ Count(new) \in Nat
      /\ Count(page) = Len(page.slots) /\ Count(new) = Len(new.slots)
  BY <1>1, PageParts
<1>7. /\ Align \in Nat /\ PageSize \in Nat /\ 40 * Align <= PageSize /\ 1 <= Align
  <2>1. /\ HeaderSize \in Nat /\ PageSize \in Nat /\ Align \in Nat \ {0}
        /\ Largest(max) \in Nat /\ Align <= Largest(max)
        /\ 3 * HeaderSize + 40 * Largest(max) <= PageSize
    BY LargestIs
  <2> QED  BY <2>1
<1>8. q \in Nat /\ PageSize < 4 * (q + 1)  BY <1>7
<1>9. dead \in Nat /\ dead = page.dead + EntrySize(s) /\ h = PackedSize(t, page.high, page.prefix)
  BY <1>4, <1>5
<1> HIDE DEF new, dead, q, h
<1>10. CASE dead > q
  <2>1. new = [page EXCEPT !.slots = t, !.dead = 0, !.heap = h]  BY <1>3, <1>10
  <2>2. /\ new.slots = t /\ new.dead = 0 /\ new.heap = h /\ new.high = page.high
        /\ new.prefix = page.prefix
    BY ONLY <2>1, <1>1 DEF Node
  <2>3. LaidOut(new)  BY <2>2, <1>9 DEF LaidOut
  <2>4. new.heap < Parts(new) + Align  BY <1>1, <2>3, LaidOutAccounted
  <2>5. HighBytes(new) = HighBytes(page)  BY <2>2 DEF HighBytes
  <2> DEFINE tp == EntriesSize(page.slots)
             tn == EntriesSize(t)
             x == EntrySize(s)
             l == Len(page.prefix)
             b == HighBytes(page)
             d == page.dead
             zp == Parts(page)
             zn == Parts(new)
             hp == page.heap
             hn == new.heap
  <2>6. zp = zn + dead
    <3>1. zp = tp + d + l + b /\ zn = tn + 0 + l + b  BY <2>2, <2>5 DEF Parts
    <3>2. tp = tn + x /\ dead = d + x  BY <1>3, <1>9
    <3>3. tn \in Nat /\ x \in Nat /\ l \in Nat /\ b \in Nat /\ d \in Nat  BY <1>4, <1>5
    <3> HIDE DEF tp, tn, x, l, b, d, zp, zn
    <3> QED  BY ONLY <3>1, <3>2, <3>3
  <2>7. Parts(page) - Align < page.heap  BY DEF Accounted
  <2>8. dead > 2 * Align  BY <1>7, <1>8, <1>9, <1>10
  <2>9. hn <= hp
    <3>1. hn < zn + Align /\ zp - Align < hp  BY <2>4, <2>7
    <3>2. zp \in Nat /\ zn \in Nat /\ hp \in Nat /\ hn \in Nat  BY <1>5
    <3>3. dead \in Nat /\ Align \in Nat  BY <1>7, <1>9
    <3> HIDE DEF zp, zn, hp, hn
    <3> QED  BY ONLY <2>6, <2>8, <3>1, <3>2, <3>3
  <2>10. Count(new) <= Count(page)  BY <2>2, <1>3, <1>6
  <2>11. Clear(new)  BY <2>9, <2>10, <1>5, <1>6, ClearSmaller
  <2> QED  BY <2>11 DEF new
<1>11. CASE ~(dead > q)
  <2>1. new = [page EXCEPT !.slots = t, !.dead = dead]  BY <1>3, <1>11
  <2>2. new.slots = t /\ new.heap = page.heap  BY ONLY <2>1, <1>1 DEF Node
  <2>3. Count(new) <= Count(page) /\ new.heap <= page.heap  BY <2>2, <1>3, <1>5, <1>6
  <2>4. Clear(new)  BY <2>3, <1>5, <1>6, ClearSmaller
  <2> QED  BY <2>4 DEF new
<1> QED  BY <1>10, <1>11

LEMMA RootClear ==
  ASSUME NEW max, KeysFit(max), NEW level, NEW sep \in Str, Len(sep) <= max, NEW left, NEW right
  PROVE  Clear(RootNode(level, sep, left, right))
<1> DEFINE a == [key |-> <<>>, ref |-> left]
           b == [key |-> sep, ref |-> right]
           s == <<a, b>>
           g == ReserveSlot(0, <<>>)
           h == ReserveSlot(g, sep)
           new == RootNode(level, sep, left, right)
<1>1. new.slots = s /\ new.heap = h  BY DEF RootNode, NewNode
<1>2. Count(new) = 2  BY <1>1 DEF Count
<1>3. /\ max \in Nat /\ Largest(max) \in Nat /\ EntryHeader + max <= Largest(max)
      /\ Align <= Largest(max) /\ EntryHeader \in Nat /\ Align \in Nat /\ SlotSize \in Nat
      /\ 4 * SlotSize <= EntryHeader /\ HeaderSize \in Nat /\ PageSize \in Nat
      /\ 3 * HeaderSize + 40 * Largest(max) <= PageSize
  BY LargestIs
<1>4. Len(sep) \in Nat /\ sep \in Seq(Int)  BY DEF Str
<1>5. <<>> \in Seq(Int) /\ Len(<<>>) = 0 /\ 0 \in Nat  OBVIOUS
<1>6. g \in Nat /\ g < 0 + EntryHeader + 0 + Align
  BY <1>5, ReserveIs
<1> HIDE DEF s, g, new
<1>7. h \in Nat /\ h < g + EntryHeader + Len(sep) + Align  BY <1>4, <1>6, ReserveIs
<1> HIDE DEF h
<1>8. HeaderSize + 2 * SlotSize + h <= PageSize  BY <1>3, <1>4, <1>6, <1>7
<1>9. Clear(new)  BY <1>1, <1>2, <1>8 DEF Clear, SlotsEnd
<1> QED  BY <1>9 DEF new

-----------------------------------------------------------------------------
(* Every key of a tree is a caller's or an encoded one. *)

LowsBrief(pg, low, max, m) == \A p \in DOMAIN pg : pg[p].level = m => Len(low[p]) <= max

LEMMA LeafLowsBrief ==
  ASSUME NEW max, KeysFit(max), NEW pg, NEW rt, NEW low, Tree(pg, rt, low)
  PROVE  LowsBrief(pg, low, max, 0)
<1> SUFFICES ASSUME NEW p \in DOMAIN pg, pg[p].level = 0  PROVE Len(low[p]) <= max
  BY DEF LowsBrief
<1>1. CASE low[p] = <<>>
  <2>1. max \in Nat  BY DEF KeysFit
  <2> QED  BY <1>1, <2>1
<1>2. CASE low[p] # <<>>
  <2>1. low[p] \in Key  BY <1>2, LeafLow
  <2> QED  BY <2>1 DEF KeysFit
<1> QED  BY <1>1, <1>2

LEMMA FenceBrief ==
  ASSUME NEW max, KeysFit(max), NEW pg, NEW rt, NEW low, Tree(pg, rt, low),
         NEW p \in DOMAIN pg, Len(low[p]) <= max
  PROVE  Len(Fence(pg, low, p)) <= max
<1>0. max \in Nat  BY DEF KeysFit
<1>1. CASE low[p] = <<>>  BY <1>0, <1>1 DEF Fence
<1>2. CASE low[p] # <<>> /\ pg[p].level = 0
  <2>1. low[p] \in Key /\ Fence(pg, low, p) = Encode(low[p])  BY <1>2, FenceIs
  <2> QED  BY <2>1 DEF KeysFit
<1>3. CASE low[p] # <<>> /\ pg[p].level # 0  BY <1>3 DEF Fence
<1> QED  BY <1>1, <1>2, <1>3

LEMMA AllLowsBrief ==
  ASSUME NEW max, KeysFit(max), NEW pg, NEW rt, NEW low, Tree(pg, rt, low)
  PROVE  \A p \in DOMAIN pg : Len(low[p]) <= max
<1> DEFINE N == {m \in Nat : LowsBrief(pg, low, max, m)}
<1>1. 0 \in N  BY LeafLowsBrief
<1>2. ASSUME NEW m \in Nat, m \in N  PROVE m + 1 \in N
  <2> SUFFICES ASSUME NEW p \in DOMAIN pg, pg[p].level = m + 1  PROVE Len(low[p]) <= max
    BY DEF LowsBrief
  <2>1. NodeOK(pg[p], low[p]) /\ pg[p] \in Node  BY TreePage
  <2>2. pg[p].level > 0 /\ m + 1 # 0 /\ (m + 1) - 1 = m  OBVIOUS
  <2>3. pg[p].slots # <<>> /\ KeyAt(pg[p], 1) = low[p]
    BY <2>1, <2>2 DEF NodeOK, StartsAt
  <2>4. 1 \in DOMAIN pg[p].slots
    <3>1. pg[p].slots \in Seq(Slot)  BY <2>1, PageParts
    <3> QED  BY <3>1, <2>3
  <2> DEFINE r == pg[p].slots[1].ref
  <2>5. Has(pg[p], low[p], r)  BY <2>3, <2>4 DEF Has
  <2> HIDE DEF r
  <2>6. EntryOK(pg, low, m + 1, low[p], r)  BY <2>5 DEF Tree, EntriesOK
  <2>7. r \in DOMAIN pg /\ pg[r].level = m /\ low[p] = Fence(pg, low, r)
    BY <2>2, <2>6 DEF EntryOK
  <2>8. Len(low[r]) <= max  BY <1>2, <2>7 DEF LowsBrief
  <2> QED  BY <2>7, <2>8, FenceBrief
<1>3. Nat \subseteq N
  <2> HIDE DEF N
  <2> QED  BY <1>1, <1>2, Induction
<1>4. ASSUME NEW p \in DOMAIN pg  PROVE Len(low[p]) <= max
  <2>1. pg[p].level \in Nat  BY TreePage
  <2>2. LowsBrief(pg, low, max, pg[p].level)  BY <1>3, <2>1
  <2> QED  BY <2>2 DEF LowsBrief
<1> QED  BY <1>4

LEMMA TreeBrief ==
  ASSUME NEW max, KeysFit(max), NEW pg, NEW rt, NEW low, Tree(pg, rt, low), NEW p \in DOMAIN pg
  PROVE  Brief(pg[p], low[p], max)
<1>1. \A q \in DOMAIN pg : Len(low[q]) <= max  BY AllLowsBrief
<1>2. NodeOK(pg[p], low[p]) /\ pg[p].level \in Nat  BY TreePage
<1>3. ASSUME pg[p].high # NoKey  PROVE Len(pg[p].high) <= max
  <2>1. pg[p].rlink # NoPage  BY <1>2, <1>3 DEF NodeOK, EndsOpen
  <2>2. pg[p].rlink \in DOMAIN pg /\ low[pg[p].rlink] = pg[p].high
    BY <2>1 DEF Tree, Linked, LowsFit
  <2> QED  BY <1>1, <2>2
<1>4. ASSUME NEW i \in DOMAIN pg[p].slots  PROVE Len(KeyAt(pg[p], i)) <= max
  <2> DEFINE x == KeyAt(pg[p], i)
             r == pg[p].slots[i].ref
  <2>1. Has(pg[p], x, r)  BY DEF Has
  <2> HIDE DEF x, r
  <2>2. EntryOK(pg, low, pg[p].level, x, r)  BY <2>1 DEF Tree, EntriesOK
  <2>3. CASE pg[p].level = 0
    <3>1. x \in Key  BY <2>2, <2>3 DEF EntryOK
    <3>2. Len(x) <= max  BY <3>1 DEF KeysFit
    <3> QED  BY <3>2 DEF x
  <2>4. CASE pg[p].level # 0
    <3>1. r \in DOMAIN pg /\ x = Fence(pg, low, r)  BY <2>2, <2>4 DEF EntryOK
    <3>2. Len(x) <= max  BY <3>1, <1>1, FenceBrief
    <3> QED  BY <3>2 DEF x
  <2> QED  BY <2>3, <2>4
<1> QED  BY <1>1, <1>3, <1>4 DEF Brief

AllClear == \A p \in DOMAIN pages : Clear(pages[p])

LEMMA WrittenClear ==
  ASSUME AllClear, NEW p, NEW page, Clear(page), pages' = [pages EXCEPT ![p] = page]
  PROVE  AllClear'
BY DEF AllClear

LEMMA SplitInTwoClear ==
  ASSUME AllClear, NEW p, NEW h, Clear(h.left), Clear(h.right), WriteSplit(p, h)
  PROVE  AllClear'
BY DEF AllClear, WriteSplit

LEMMA ClearStart == ASSUME Init  PROVE AllClear
<1> DEFINE page == NewNode(0, <<>>, 0)
<1>1. page.slots = <<>> /\ page.heap = 0  BY DEF NewNode
<1>2. Count(page) = 0  BY <1>1 DEF Count
<1>3. HeaderSize \in Nat /\ PageSize \in Nat /\ SlotSize \in Nat /\ HeaderSize <= PageSize
  BY LayoutAssumption
<1>4. HeaderSize + 0 * SlotSize + 0 <= PageSize  BY <1>3
<1>5. Clear(page)  BY <1>1, <1>2, <1>4 DEF Clear, SlotsEnd
<1>6. pages = [p \in {0} |-> page]  BY DEF Init
<1> HIDE DEF page
<1> QED  BY <1>5, <1>6 DEF AllClear

(* What every page of a tree has that a new key comes to.                  *)
LEMMA PageBrief ==
  ASSUME EncodeOrdered, NEW max, KeysFit(max), TreeInv, NEW p \in DOMAIN pages
  PROVE  Brief(pages[p], Lows[p], max)
<1>1. Tree(pages, root, Lows)  BY DEF TreeInv, Lows
<1> QED  BY <1>1, TreeBrief

LEMMA SepBrief ==
  ASSUME EncodeOrdered, NEW max, KeysFit(max), TreeInv, NEW t \in Thread,
         Carries(pages, Lows, post[t])
  PROVE  Len(post[t].sep) <= max /\ post[t].sep \in Str
<1>1. Tree(pages, root, Lows)  BY DEF TreeInv, Lows
<1>2. post[t].child \in DOMAIN pages /\ post[t].sep = Fence(pages, Lows, post[t].child)
  BY DEF Carries
<1>3. Len(Lows[post[t].child]) <= max  BY <1>1, <1>2, AllLowsBrief
<1> QED  BY <1>1, <1>2, <1>3, FenceBrief, FenceIs

LEMMA ClearStep ==
  ASSUME EncodeOrdered, NEW max, KeysFit(max), TreeInv, FencesStay, AllAccounted, AllClear,
         [Next]_vars
  PROVE  AllClear'
<1>1. CASE UNCHANGED pages  BY <1>1 DEF AllClear
<1>2. ASSUME NEW t \in Thread, Insert(t)  PROVE AllClear'
  <2> DEFINE p == Leaf(t)
             k == call[t].key
             v == call[t].val
             page == LeafInsert(pages[p], k, v)
  <2>1. pc[t] = "leaf" /\ ~Found(t) /\ Write(p, page) /\ HasSpace(pages[p], k)
    BY <1>2 DEF Insert, AtLeaf, At
  <2>2. p \in DOMAIN pages /\ k \in Str /\ v \in Int  BY <2>1, LeafIs
  <2>3. NewHere(pages[p], Lows[p], k)  BY <2>1, LeafNew
  <2> HIDE DEF p, k, v
  <2>4. Clear(page)  BY <2>1, <2>2, <2>3, InsertedIs
  <2> HIDE DEF page
  <2> QED  BY <2>1, <2>4, WrittenClear DEF Write
<1>3. ASSUME NEW t \in Thread, PostSeparator(t)  PROVE AllClear'
  <2> DEFINE p == Parent(t)
             k == post[t].sep
             c == post[t].child
             page == InterInsert(pages[p], k, c)
  <2>1. pc[t] = "post" /\ Write(p, page) /\ HasSpace(pages[p], k)
    BY <1>3 DEF PostSeparator, AtParent, At
  <2>2. p \in DOMAIN pages /\ k \in Str /\ c \in Int /\ NewHere(pages[p], Lows[p], k)
    BY <2>1, ParentIs
  <2> HIDE DEF p, k, c
  <2>4. Clear(page)  BY <2>1, <2>2, InsertedIs
  <2> HIDE DEF page
  <2> QED  BY <2>1, <2>4, WrittenClear DEF Write
<1>4. ASSUME NEW t \in Thread, SplitLeaf(t)  PROVE AllClear'
  <2> DEFINE p == Leaf(t)
             k == call[t].key
             v == call[t].val
             h == LeafSplit(pages[p], p, NewPage, k, v)
  <2>1. pc[t] = "leaf" /\ ~Found(t) /\ WriteSplit(p, h) /\ ~HasSpace(pages[p], k)
    BY <1>4 DEF SplitLeaf, AtLeaf, At
  <2>2. p \in DOMAIN pages /\ p \in Nat /\ k \in Str /\ v \in Int /\ k \in Key
    BY <2>1, LeafIs
  <2>3. NewHere(pages[p], Lows[p], k)  BY <2>1, LeafNew
  <2>4. NewPage \in Nat /\ Len(k) <= max  BY <2>2, NewPageIs DEF KeysFit
  <2> HIDE DEF p, k, v
  <2>5. Brief(pages[p], Lows[p], max) /\ Accounted(pages[p]) /\ Clear(pages[p])
    BY <2>2, PageBrief DEF AllAccounted, AllClear
  <2>6. Clear(h.left) /\ Clear(h.right)  BY <2>1, <2>2, <2>3, <2>4, <2>5, SplitRoom
  <2> HIDE DEF h
  <2> QED  BY <2>1, <2>6, SplitInTwoClear
<1>5. ASSUME NEW t \in Thread, SplitInter(t)  PROVE AllClear'
  <2> DEFINE p == Parent(t)
             k == post[t].sep
             c == post[t].child
             h == InterSplit(pages[p], p, NewPage, k, c)
  <2>1. pc[t] = "post" /\ WriteSplit(p, h) /\ ~HasSpace(pages[p], k)
    BY <1>5 DEF SplitInter, AtParent, At
  <2>2. /\ p \in DOMAIN pages /\ p \in Nat /\ k \in Str /\ c \in Int
        /\ NewHere(pages[p], Lows[p], k) /\ Carries(pages, Lows, post[t])
    BY <2>1, ParentIs
  <2>4. NewPage \in Nat /\ Len(k) <= max  BY <2>2, NewPageIs, SepBrief
  <2> HIDE DEF p, k, c
  <2>5. Brief(pages[p], Lows[p], max) /\ Accounted(pages[p]) /\ Clear(pages[p])
    BY <2>2, PageBrief DEF AllAccounted, AllClear
  <2>6. Clear(h.left) /\ Clear(h.right)  BY <2>1, <2>2, <2>4, <2>5, SplitRoom
  <2> HIDE DEF h
  <2> QED  BY <2>1, <2>6, SplitInTwoClear
<1>6. ASSUME NEW t \in Thread, Delete(t)  PROVE AllClear'
  <2> DEFINE p == Leaf(t)
             k == call[t].key
             page == LeafDelete(pages[p], k)
  <2>1. pc[t] = "leaf" /\ call[t].kind = "delete"  BY <1>6 DEF Delete, AtLeaf, At
  <2>2. /\ p \in DOMAIN pages /\ k \in Str /\ NodeOK(pages[p], Lows[p])
        /\ Covers(pages[p], Lows[p], k)
    BY <2>1, LeafIs
  <2>3. CASE ~Found(t)
    <3>1. UNCHANGED pages  BY <1>6, <2>3 DEF Delete
    <3> QED  BY <1>1, <3>1
  <2>4. CASE Found(t)
    <3>1. Write(p, page) /\ LeafFound(pages[p], k)  BY <1>6, <2>4 DEF Delete, Found
    <3>2. k # Lows[p]
      <4>1. k # Low(p)  BY <2>1 DEF FencesStay
      <4> QED  BY <2>2, <4>1, LowIs
    <3> HIDE DEF p, k
    <3>3. TakenOut(page, pages[p], Lows[p], k)  BY <2>2, <3>1, <3>2, LeafDeleteKeeps
    <3>4. page \in Node  BY <3>3 DEF TakenOut, NodeOK, Strings
    <3>5. Accounted(pages[p]) /\ Clear(pages[p])  BY <2>2 DEF AllAccounted, AllClear
    <3>6. Clear(page)  BY <2>2, <3>1, <3>4, <3>5, DeleteClear
    <3> HIDE DEF page
    <3> QED  BY <3>1, <3>6, WrittenClear DEF Write
  <2> QED  BY <2>3, <2>4
<1>7. ASSUME NEW t \in Thread, Raise(t)  PROVE AllClear'
  <2> DEFINE page == RootNode(pages[cur[t]].level, post[t].sep, cur[t], post[t].child)
  <2>1. /\ pc[t] = "root"
        /\ pages' = [p \in DOMAIN pages \cup {NewPage} |-> IF p = NewPage THEN page ELSE pages[p]]
    BY <1>7 DEF Raise, At
  <2>2. Carries(pages, Lows, post[t])  BY <2>1 DEF TreeInv, Where, Placed, Lows
  <2>3. Clear(page)  BY <2>2, SepBrief, RootClear
  <2> HIDE DEF page
  <2> QED  BY <2>1, <2>3 DEF AllClear
<1>8. ASSUME NEW t \in Thread, Step(t)  PROVE AllClear'
  <2>1. \/ UNCHANGED pages
        \/ Insert(t) \/ PostSeparator(t) \/ SplitLeaf(t) \/ SplitInter(t) \/ Delete(t) \/ Raise(t)
    BY <1>8 DEF Step, Start, Get, Refuse, Redescend, Return
  <2> QED  BY <2>1, <1>1, <1>2, <1>3, <1>4, <1>5, <1>6, <1>7
<1>9. CASE NextRound \/ Ended \/ UNCHANGED vars
  BY <1>9, <1>1 DEF NextRound, Ended, vars
<1> QED  BY <1>8, <1>9 DEF Next

(* While no key is so long that only a few fit on a page, the heap never   *)
(* grows into the slot array, although HasSpace forgets the slot and a     *)
(* split inserts into its half without asking it (HeapClearOfSlots), again *)
(* under FencesStay and RedescentHigh.                                     *)
THEOREM HeapAlwaysClear ==
  ASSUME EncodeOrdered, NEW max, KeysFit(max)
  PROVE  Spec /\ []FencesStay /\ [][RedescentHigh]_vars => []HeapClearOfSlots
<1>1. Init => TreeInv /\ AllAccounted /\ AllClear  BY TreeStart, AccountedStart, ClearStart
<1>2. TreeInv /\ AllAccounted /\ AllClear /\ FencesStay /\ [RedescentHigh]_vars /\ [Next]_vars
        => TreeInv' /\ AllAccounted' /\ AllClear'
  BY TreeStep, AccountedStep, ClearStep
<1>3. AllClear => HeapClearOfSlots  BY DEF AllClear, Clear, HeapClearOfSlots
<1> QED  BY <1>1, <1>2, <1>3, PTL DEF Spec

-----------------------------------------------------------------------------
(* Assertions. *)

(* What is left of them: an intermediate page that a split has marked as   *)
(* having a prefix although its prefix is empty stops at its next split.   *)
NoEmptyMarks ==
  \A p \in DOMAIN pages : pages[p].level > 0 /\ pages[p].marked => pages[p].prefix # <<>>

LEMMA SplitSucceeds ==
  ASSUME EncodeOrdered, NEW max, KeysFit(max), TreeInv, AllAccounted, AllClear,
         NEW p \in DOMAIN pages, p \in Nat, NEW k \in Str, Len(k) <= max,
         NewHere(pages[p], Lows[p], k), ~HasSpace(pages[p], k)
  PROVE  /\ ~LeafSplitFails(pages[p], p, NewPage, k)
         /\ InterSplitFails(pages[p], p, NewPage, k) => pages[p].marked /\ pages[p].prefix = <<>>
<1> DEFINE new == NewPage
           half == HalfFor(Halves(pages[p], p, new), k)
<1>1. new \in Nat /\ 0 \in Int  BY NewPageIs
<1>2. Brief(pages[p], Lows[p], max) /\ Accounted(pages[p]) /\ Clear(pages[p])
  BY PageBrief DEF AllAccounted, AllClear
<1> HIDE DEF new
<1>4. ~NoSplitPoint(pages[p]) /\ ~HeapOverflow(half, RemoveKeyPrefix(half, k))
  BY <1>1, <1>2, SplitRoom
<1>5. ~TooShort(half, k) /\ ~LeafFound(half, k)  BY <1>1, <1>4, HalfSuits
<1>6. ~SplitFails(pages[p], p, new, k)  BY <1>4, <1>5 DEF SplitFails
<1> QED  BY <1>5, <1>6 DEF LeafSplitFails, InterSplitFails, new

LEMMA NoneFaulty ==
  ASSUME EncodeOrdered, NEW max, KeysFit(max), TreeInv, AllAccounted, AllClear, NoEmptyMarks,
         NEW t \in Thread
  PROVE  ~Faulty(t)
<1>1. ASSUME pc[t] = "leaf"
      PROVE  /\ cur[t] # NoPage /\ ~TooShort(pages[Leaf(t)], call[t].key)
             /\ ~Found(t) /\ ~HasSpace(pages[Leaf(t)], call[t].key) =>
                  ~LeafSplitFails(pages[Leaf(t)], Leaf(t), NewPage, call[t].key)
  <2> DEFINE p == Leaf(t)
             k == call[t].key
  <2>1. /\ cur[t] # NoPage /\ ~TooShort(pages[p], k) /\ k \in Key /\ k \in Str
        /\ p \in DOMAIN pages /\ p \in Nat /\ pages[p].level = 0
    BY <1>1, LeafIs
  <2>2. ~Found(t) => NewHere(pages[p], Lows[p], k)  BY <1>1, LeafNew
  <2>3. Len(k) <= max  BY <2>1 DEF KeysFit
  <2> HIDE DEF p, k
  <2>4. ~Found(t) /\ ~HasSpace(pages[p], k) => ~LeafSplitFails(pages[p], p, NewPage, k)
    BY <2>1, <2>2, <2>3, SplitSucceeds
  <2> QED  BY <2>1, <2>4 DEF p, k
<1>2. ASSUME pc[t] = "post"
      PROVE  /\ cur[t] # NoPage /\ ~TooShort(pages[Parent(t)], post[t].sep)
             /\ ~HasSpace(pages[Parent(t)], post[t].sep) =>
                  ~InterSplitFails(pages[Parent(t)], Parent(t), NewPage, post[t].sep)
  <2> DEFINE p == Parent(t)
             k == post[t].sep
  <2>1. /\ cur[t] # NoPage /\ ~TooShort(pages[p], k) /\ k \in Str
        /\ p \in DOMAIN pages /\ p \in Nat
        /\ NewHere(pages[p], Lows[p], k) /\ Carries(pages, Lows, post[t])
    BY <1>2, ParentIs
  <2>2. Len(k) <= max  BY <2>1, SepBrief
  <2> HIDE DEF p, k
  <2>3. ~HasSpace(pages[p], k) => ~InterSplitFails(pages[p], p, NewPage, k)
    <3> SUFFICES ASSUME ~HasSpace(pages[p], k), InterSplitFails(pages[p], p, NewPage, k)
                 PROVE  FALSE
      OBVIOUS
    <3>1. pages[p].marked /\ pages[p].prefix = <<>>  BY <2>1, <2>2, SplitSucceeds
    <3>2. pages[p].level > 0
      <4>1. pages[p].level = pages[post[t].child].level + 1 /\ pages[post[t].child].level \in Nat
        BY <1>2, ParentIs DEF p
      <4> QED  BY <4>1
    <3> QED  BY <2>1, <3>1, <3>2 DEF NoEmptyMarks
  <2> QED  BY <2>1, <2>3 DEF p, k
<1> QED  BY <1>1, <1>2 DEF Faulty

(* No assertion of the layouts stops a split, and no search leaves the     *)
(* tree (AssertionsHold), as long as no intermediate page is marked with   *)
(* an empty prefix (finding 3), keys are short against the page (KeysFit), *)
(* no Delete takes a lower fence (finding 2) and no separator is posted    *)
(* into a root that is not above its page (finding 1).                     *)
THEOREM OnlyMarksFail ==
  ASSUME EncodeOrdered, NEW max, KeysFit(max)
  PROVE  Spec /\ []FencesStay /\ [][RedescentHigh]_vars => [](NoEmptyMarks => AssertionsHold)
<1>1. Init => TreeInv /\ AllAccounted /\ AllClear  BY TreeStart, AccountedStart, ClearStart
<1>2. TreeInv /\ AllAccounted /\ AllClear /\ FencesStay /\ [RedescentHigh]_vars /\ [Next]_vars
        => TreeInv' /\ AllAccounted' /\ AllClear'
  BY TreeStep, AccountedStep, ClearStep
<1>3. TreeInv /\ AllAccounted /\ AllClear => (NoEmptyMarks => AssertionsHold)
  BY NoneFaulty DEF AssertionsHold
<1> QED  BY <1>1, <1>2, <1>3, PTL DEF Spec

-----------------------------------------------------------------------------
(* The map that the leaves hold. *)

InLeaf(pg, k, v) == \E p \in DOMAIN pg : pg[p].level = 0 /\ Has(pg[p], k, v)

LeavesOf(pg) == {p \in DOMAIN pg : pg[p].level = 0}
SlotsOf(pg) == UNION {{<<p, i>> : i \in DOMAIN pg[p].slots} : p \in LeavesOf(pg)}
StoredOf(pg) == {<<KeyAt(pg[x[1]], x[2]), pg[x[1]].slots[x[2]].ref>> : x \in SlotsOf(pg)}
ContentsOf(pg) ==
  LET stored == StoredOf(pg) IN
  [k \in Key |-> IF \E v \in Val : <<k, v>> \in stored
                  THEN CHOOSE v \in Val : <<k, v>> \in stored ELSE NoPage]

LEMMA ContentsAre ==
  Contents = ContentsOf(pages) /\ Contents' = ContentsOf(pages')
<1>1. Contents = ContentsOf(pages)
  BY DEF Contents, Stored, Slots, Leaves, Whole, ContentsOf, StoredOf, SlotsOf, LeavesOf, KeyAt
<1>2. Contents' = ContentsOf(pages')
  BY DEF Contents, Stored, Slots, Leaves, Whole, ContentsOf, StoredOf, SlotsOf, LeavesOf, KeyAt
<1> QED  BY <1>1, <1>2

LEMMA StoredIs ==
  ASSUME NEW pg, NEW k, NEW v
  PROVE  <<k, v>> \in StoredOf(pg) <=> InLeaf(pg, k, v)
<1>1. ASSUME <<k, v>> \in StoredOf(pg)  PROVE InLeaf(pg, k, v)
  <2>1. PICK x \in SlotsOf(pg) : <<k, v>> = <<KeyAt(pg[x[1]], x[2]), pg[x[1]].slots[x[2]].ref>>
    BY <1>1 DEF StoredOf
  <2>2. PICK p \in LeavesOf(pg) : \E i \in DOMAIN pg[p].slots : x = <<p, i>>
    BY DEF SlotsOf
  <2>3. PICK i \in DOMAIN pg[p].slots : x = <<p, i>>  BY <2>2
  <2>4. k = KeyAt(pg[p], i) /\ v = pg[p].slots[i].ref  BY <2>1, <2>3
  <2> QED  BY <2>2, <2>4 DEF InLeaf, Has, LeavesOf
<1>2. ASSUME InLeaf(pg, k, v)  PROVE <<k, v>> \in StoredOf(pg)
  <2>1. PICK p \in DOMAIN pg : pg[p].level = 0 /\ Has(pg[p], k, v)  BY <1>2 DEF InLeaf
  <2>2. PICK i \in DOMAIN pg[p].slots : KeyAt(pg[p], i) = k /\ pg[p].slots[i].ref = v
    BY <2>1 DEF Has
  <2> DEFINE x == <<p, i>>
  <2>3. x \in SlotsOf(pg)  BY <2>1, <2>2 DEF SlotsOf, LeavesOf
  <2>4. x[1] = p /\ x[2] = i  OBVIOUS
  <2> HIDE DEF x
  <2>5. <<k, v>> = <<KeyAt(pg[x[1]], x[2]), pg[x[1]].slots[x[2]].ref>>  BY <2>2, <2>4
  <2> QED  BY <2>3, <2>5 DEF StoredOf
<1> QED  BY <1>1, <1>2

(* Pages of a level that both cover a key are the same. *)
LEMMA OneCovers ==
  ASSUME NEW pg, NEW rt, NEW low, Tree(pg, rt, low),
         NEW p \in DOMAIN pg, NEW q \in DOMAIN pg, pg[p].level = pg[q].level,
         NEW k \in Str, Covers(pg[p], low[p], k), Covers(pg[q], low[q], k)
  PROVE  p = q
<1> SUFFICES ASSUME p # q PROVE FALSE  OBVIOUS
<1>1. low[p] \in Str /\ pg[p].high \in Str \cup {NoKey}  BY TreePage
<1>2. low[q] \in Str /\ pg[q].high \in Str \cup {NoKey}  BY TreePage
<1>3. Before(pg, low, p, q) \/ Before(pg, low, q, p)  BY DEF Tree, Apart
<1>4. CASE Before(pg, low, p, q)
  <2>1. pg[p].high \in Str /\ ~Below(low[q], pg[p].high)  BY <1>1, <1>4 DEF Before
  <2>2. Below(k, pg[p].high) /\ ~Below(k, low[q])  BY <1>4 DEF Before, Covers
  <2> QED  BY <1>2, <2>1, <2>2, Order DEF Ordered
<1>5. CASE Before(pg, low, q, p)
  <2>1. pg[q].high \in Str /\ ~Below(low[p], pg[q].high)  BY <1>2, <1>5 DEF Before
  <2>2. Below(k, pg[q].high) /\ ~Below(k, low[p])  BY <1>5 DEF Before, Covers
  <2> QED  BY <1>1, <2>1, <2>2, Order DEF Ordered
<1> QED  BY <1>3, <1>4, <1>5

(* A key is in one leaf at most, and there once. *)
LEMMA HasCovered ==
  ASSUME NEW pg, NEW rt, NEW low, Tree(pg, rt, low), NEW p \in DOMAIN pg,
         NEW k, NEW v, Has(pg[p], k, v)
  PROVE  k \in Str /\ Covers(pg[p], low[p], k)
<1>1. PICK i \in DOMAIN pg[p].slots : KeyAt(pg[p], i) = k  BY DEF Has
<1>2. NodeOK(pg[p], low[p]) /\ Strings(pg[p])  BY TreePage
<1> QED  BY <1>1, <1>2, KeyAtIs DEF NodeOK

LEMMA OneHolds ==
  ASSUME NEW pg, NEW rt, NEW low, Tree(pg, rt, low),
         NEW p \in DOMAIN pg, NEW q \in DOMAIN pg, pg[p].level = pg[q].level,
         NEW k, NEW v, NEW w, Has(pg[p], k, v), Has(pg[q], k, w)
  PROVE  p = q /\ v = w
<1>1. k \in Str /\ Covers(pg[p], low[p], k) /\ Covers(pg[q], low[q], k)  BY HasCovered
<1>2. p = q  BY <1>1, OneCovers
<1>3. PICK i \in DOMAIN pg[p].slots : KeyAt(pg[p], i) = k /\ pg[p].slots[i].ref = v
  BY DEF Has
<1>4. PICK j \in DOMAIN pg[p].slots : KeyAt(pg[p], j) = k /\ pg[p].slots[j].ref = w
  BY <1>2 DEF Has
<1>5. NodeOK(pg[p], low[p]) /\ Strings(pg[p]) /\ pg[p] \in Node  BY TreePage
<1>6. DOMAIN pg[p].slots = 1 .. Count(pg[p]) /\ Count(pg[p]) \in Nat  BY <1>5, PageParts
<1>7. InOrder(pg[p].slots) /\ ~Below(k, k)  BY <1>1, <1>5, Irreflexive DEF NodeOK
<1>8. ~Below(pg[p].slots[i].key, pg[p].slots[j].key)
      /\ ~Below(pg[p].slots[j].key, pg[p].slots[i].key)
  BY <1>3, <1>4, <1>5, <1>7, EntriesInOrder
<1>9. ~(i < j) /\ ~(j < i)  BY <1>7, <1>8 DEF InOrder
<1>10. i = j  BY <1>6, <1>9
<1> QED  BY <1>2, <1>3, <1>4, <1>10

IsMap(pg, f) ==
  /\ f \in [Key -> Val \cup {NoPage}]
  /\ \A k \in Key : \A v : InLeaf(pg, k, v) <=> v # NoPage /\ f[k] = v

LEMMA ContentsMap ==
  ASSUME NEW pg, NEW rt, NEW low, Tree(pg, rt, low)
  PROVE  IsMap(pg, ContentsOf(pg))
<1> DEFINE stored == StoredOf(pg)
           f == ContentsOf(pg)
           some(k) == \E v \in Val : <<k, v>> \in stored
           one(k) == CHOOSE v \in Val : <<k, v>> \in stored
<1>1. f = [k \in Key |-> IF some(k) THEN one(k) ELSE NoPage]  BY DEF ContentsOf
<1>2. \A k, v : <<k, v>> \in stored <=> InLeaf(pg, k, v)  BY StoredIs
<1>3. \A k : some(k) => one(k) \in Val /\ <<k, one(k)>> \in stored  OBVIOUS
<1>4. \A k, v : InLeaf(pg, k, v) => v \in Val
  <2> SUFFICES ASSUME NEW k, NEW v, InLeaf(pg, k, v)  PROVE v \in Val  OBVIOUS
  <2>1. PICK p \in DOMAIN pg : pg[p].level = 0 /\ Has(pg[p], k, v)  BY DEF InLeaf
  <2> QED  BY <2>1 DEF Tree, EntriesOK, EntryOK
<1>5. \A k, v, w : InLeaf(pg, k, v) /\ InLeaf(pg, k, w) => v = w
  <2> SUFFICES ASSUME NEW k, NEW v, NEW w, InLeaf(pg, k, v), InLeaf(pg, k, w)  PROVE v = w
    OBVIOUS
  <2>1. PICK p \in DOMAIN pg : pg[p].level = 0 /\ Has(pg[p], k, v)  BY DEF InLeaf
  <2>2. PICK q \in DOMAIN pg : pg[q].level = 0 /\ Has(pg[q], k, w)  BY DEF InLeaf
  <2> QED  BY <2>1, <2>2, OneHolds
<1>6. \A v \in Val : v # NoPage  BY WorkloadAssumption DEF NoPage
<1> HIDE DEF stored, one
<1>7. ASSUME NEW k \in Key
      PROVE  /\ f[k] \in Val \cup {NoPage}
             /\ \A v : InLeaf(pg, k, v) <=> v # NoPage /\ f[k] = v
  <2>1. CASE some(k)
    <3>1. f[k] = one(k) /\ one(k) \in Val /\ InLeaf(pg, k, one(k))
      BY <1>1, <1>2, <1>3, <2>1
    <3> QED  BY <3>1, <1>5, <1>6
  <2>2. CASE ~some(k)
    <3>1. f[k] = NoPage  BY <1>1, <2>2
    <3>2. \A v : ~InLeaf(pg, k, v)  BY <1>2, <1>4, <2>2
    <3> QED  BY <3>1, <3>2
  <2> QED  BY <2>1, <2>2
<1>8. f \in [Key -> Val \cup {NoPage}]  BY <1>1, <1>7
<1> HIDE DEF f
<1> QED  BY <1>7, <1>8 DEF IsMap, f

(* How the map follows the leaves. *)
LEMMA MapStays ==
  ASSUME NEW pg, NEW pg2, NEW f, NEW g, IsMap(pg, f), IsMap(pg2, g),
         \A x, r : InLeaf(pg2, x, r) <=> InLeaf(pg, x, r)
  PROVE  g = f
<1>1. ASSUME NEW x \in Key  PROVE g[x] = f[x]  BY DEF IsMap
<1>2. f = [x \in Key |-> f[x]] /\ g = [x \in Key |-> g[x]]  BY DEF IsMap
<1> QED  BY <1>1, <1>2

LEMMA MapBecomes ==
  ASSUME NEW pg, NEW pg2, NEW f, NEW g, IsMap(pg, f), IsMap(pg2, g), NEW k \in Key,
         \A x, r : x # k => (InLeaf(pg2, x, r) <=> InLeaf(pg, x, r))
  PROVE  g = [f EXCEPT ![k] = g[k]]
<1>1. ASSUME NEW x \in Key, x # k  PROVE g[x] = f[x]  BY <1>1 DEF IsMap
<1>2. f = [x \in Key |-> f[x]] /\ g = [x \in Key |-> g[x]]  BY DEF IsMap
<1>3. [f EXCEPT ![k] = g[k]] = [x \in Key |-> IF x = k THEN g[k] ELSE f[x]]  BY <1>2
<1> QED  BY <1>1, <1>2, <1>3

(* The other leaves, and the page that is written. *)
Beside(pg, p, x, r) == \E q \in DOMAIN pg : q # p /\ pg[q].level = 0 /\ Has(pg[q], x, r)

LEMMA BesideIs ==
  ASSUME NEW pg, NEW p \in DOMAIN pg, NEW x, NEW r
  PROVE  InLeaf(pg, x, r) <=> Beside(pg, p, x, r) \/ (pg[p].level = 0 /\ Has(pg[p], x, r))
BY DEF InLeaf, Beside

LEMMA WrittenHas ==
  ASSUME NEW pg, NEW p \in DOMAIN pg, NEW page, page.level = pg[p].level, NEW x, NEW r
  PROVE  InLeaf([pg EXCEPT ![p] = page], x, r)
           <=> Beside(pg, p, x, r) \/ (pg[p].level = 0 /\ Has(page, x, r))
<1> DEFINE pg2 == [pg EXCEPT ![p] = page]
<1>1. /\ DOMAIN pg2 = DOMAIN pg /\ pg2[p] = page
      /\ \A q \in DOMAIN pg : q # p => pg2[q] = pg[q]
  OBVIOUS
<1> HIDE DEF pg2
<1>2. InLeaf(pg2, x, r) <=> Beside(pg, p, x, r) \/ (pg[p].level = 0 /\ Has(page, x, r))
  BY <1>1 DEF InLeaf, Beside
<1> QED  BY <1>2 DEF pg2

LEMMA SplitHas ==
  ASSUME NEW pg, NEW p \in DOMAIN pg, NEW new, new \notin DOMAIN pg, NEW h,
         h.left.level = pg[p].level, h.right.level = pg[p].level, NEW x, NEW r
  PROVE  InLeaf(AfterSplit(pg, p, new, h), x, r)
           <=> \/ Beside(pg, p, x, r)
               \/ pg[p].level = 0 /\ (Has(h.left, x, r) \/ Has(h.right, x, r))
<1> DEFINE pg2 == AfterSplit(pg, p, new, h)
<1>1. /\ DOMAIN pg2 = DOMAIN pg \cup {new} /\ pg2[p] = h.left /\ pg2[new] = h.right
      /\ \A q \in DOMAIN pg : q # p => pg2[q] = pg[q]
  BY DEF AfterSplit
<1> HIDE DEF pg2
<1>2. InLeaf(pg2, x, r)
        <=> \/ Beside(pg, p, x, r)
            \/ pg[p].level = 0 /\ (Has(h.left, x, r) \/ Has(h.right, x, r))
  BY <1>1 DEF InLeaf, Beside
<1> QED  BY <1>2 DEF pg2

LEMMA RaisedHas ==
  ASSUME NEW pg, NEW new, new \notin DOMAIN pg, NEW page, page.level # 0, NEW x, NEW r
  PROVE  InLeaf(AfterRaise(pg, new, page), x, r) <=> InLeaf(pg, x, r)
<1> DEFINE pg2 == AfterRaise(pg, new, page)
<1>1. /\ DOMAIN pg2 = DOMAIN pg \cup {new} /\ pg2[new] = page
      /\ \A q \in DOMAIN pg : pg2[q] = pg[q]
  BY DEF AfterRaise
<1> HIDE DEF pg2
<1>2. InLeaf(pg2, x, r) <=> InLeaf(pg, x, r)  BY <1>1 DEF InLeaf
<1> QED  BY <1>2 DEF pg2

(* What a leaf answers. *)
LEMMA LeafGetIs ==
  ASSUME NEW page, NEW lo, NodeOK(page, lo), NEW k \in Str, Covers(page, lo, k),
         LeafFound(page, k)
  PROVE  Has(page, k, LeafGet(page, k))
<1> DEFINE n == LowerIdx(page.slots, RemoveKeyPrefix(page, k))
           m == n + 1
<1>1. LowerPlace(page, k, n)  BY PlacesAre
<1>2. LeafGet(page, k) = page.slots[m].ref  BY DEF LeafGet
<1>3. Strings(page) /\ page \in Node /\ InOrder(page.slots)  BY DEF NodeOK, Strings
<1>4. DOMAIN page.slots = 1 .. Count(page) /\ Count(page) \in Nat  BY <1>3, PageParts
<1>5. PICK i \in DOMAIN page.slots : KeyAt(page, i) = k  BY LeafFoundIs
<1> HIDE DEF n
<1>6. n \in 0 .. Count(page) /\ \A j \in DOMAIN page.slots : j <= n <=> Below(KeyAt(page, j), k)
  BY <1>1 DEF LowerPlace
<1>7. ~(i <= n)  BY <1>5, <1>6, Irreflexive
<1>8. m \in DOMAIN page.slots /\ m <= i /\ ~(m <= n)  BY <1>4, <1>6, <1>7
<1>9. ~(m < i)
  <2> SUFFICES ASSUME m < i PROVE FALSE  OBVIOUS
  <2>1. Below(page.slots[m].key, page.slots[i].key)  BY <1>3, <1>8 DEF InOrder
  <2>2. Below(KeyAt(page, m), KeyAt(page, i))  BY <1>3, <1>8, <2>1, EntriesInOrder
  <2> QED  BY <1>5, <1>6, <1>8, <2>2
<1>10. m = i  BY <1>4, <1>6, <1>8, <1>9
<1> QED  BY <1>2, <1>5, <1>10 DEF Has

-----------------------------------------------------------------------------
(* Each step of the tree is a step of KeyMap or changes nothing there. *)

PhaseAt(l) == IF l = "idle" THEN "idle" ELSE IF l = "leaf" THEN "called" ELSE "answered"
Phases == [t \in Thread |-> PhaseOf(t)]
Made == [t \in Thread |-> IF pc[t] = "idle" THEN NoPage ELSE call[t]]

LEMMA MapsAre ==
  /\ TreeInv => IsMap(pages, Contents)
  /\ TreeInv' => IsMap(pages', Contents')
<1>1. TreeInv => Tree(pages, root, LowsOf(pages))  BY DEF TreeInv
<1>2. TreeInv' => Tree(pages', root', LowsOf(pages'))  BY DEF TreeInv
<1> QED  BY <1>1, <1>2, ContentsMap, ContentsAre

LEMMA PhasesAre ==
  /\ Phases = [t \in Thread |-> PhaseAt(pc[t])]
  /\ Phases' = [t \in Thread |-> PhaseAt(pc'[t])]
<1>1. \A t \in Thread : PhaseOf(t) = PhaseAt(pc[t])  BY DEF PhaseOf, PhaseAt
<1>2. \A t \in Thread : PhaseOf(t)' = PhaseAt(pc'[t])  BY DEF PhaseOf, PhaseAt
<1>3. Phases' = [t \in Thread |-> PhaseOf(t)']  BY DEF Phases
<1> QED  BY <1>1, <1>2, <1>3 DEF Phases

LEMMA PhaseMoves ==
  ASSUME Typed, NEW t \in Thread, NEW l, Goto(t, l)
  PROVE  /\ Phases[t] = PhaseAt(pc[t])
         /\ Phases' = [Phases EXCEPT ![t] = PhaseAt(l)]
<1>1. pc' = [u \in Thread |-> IF u = t THEN l ELSE pc[u]]  BY DEF Typed, Goto
<1> QED  BY <1>1, PhasesAre

LEMMA MadeMoves ==
  ASSUME Typed, NEW t \in Thread, NEW l, Goto(t, l), NEW c, call' = [call EXCEPT ![t] = c]
  PROVE  /\ Made[t] = IF pc[t] = "idle" THEN NoPage ELSE call[t]
         /\ Made' = [Made EXCEPT ![t] = IF l = "idle" THEN NoPage ELSE c]
<1>1. /\ pc' = [u \in Thread |-> IF u = t THEN l ELSE pc[u]]
      /\ call' = [u \in Thread |-> IF u = t THEN c ELSE call[u]]
  BY DEF Typed, Goto
<1>2. Made' = [u \in Thread |-> IF pc'[u] = "idle" THEN NoPage ELSE call'[u]]  BY DEF Made
<1> QED  BY <1>1, <1>2 DEF Made

LEMMA CallStays ==
  ASSUME Typed, NEW t \in Thread, UNCHANGED call
  PROVE  call' = [call EXCEPT ![t] = call[t]]
BY DEF Typed

LEMMA PagesStay == UNCHANGED pages => Contents' = Contents
BY ContentsAre

(* A step after the call has taken effect. *)
LEMMA StutterStep ==
  ASSUME Typed, NEW t \in Thread, NEW l, Goto(t, l), UNCHANGED <<call, answer>>,
         PhaseAt(l) = PhaseAt(pc[t]), Contents' = Contents
  PROVE  UNCHANGED Abstract!vars
<1>1. (l = "idle") = (pc[t] = "idle")  BY DEF PhaseAt
<1>2. Phases' = Phases
  <2>1. Phases' = [Phases EXCEPT ![t] = Phases[t]]  BY PhaseMoves
  <2> QED  BY <2>1 DEF Phases
<1>3. Made' = Made
  <2>1. Made' = [Made EXCEPT ![t] = Made[t]]  BY <1>1, CallStays, MadeMoves
  <2> QED  BY <2>1 DEF Made
<1> QED  BY <1>2, <1>3 DEF Abstract!vars, Phases, Made

(* The step at which a call takes effect. *)
Effected(kind, key, val, m, v, a) ==
  \/ /\ kind = "insert" /\ m[key] = NoPage
     /\ v = val /\ a = [ok |-> TRUE, val |-> NoPage]
  \/ /\ kind = "delete" /\ m[key] # NoPage
     /\ v = NoPage /\ a = [ok |-> TRUE, val |-> NoPage]
  \/ /\ kind = "get" /\ m[key] # NoPage
     /\ v = m[key] /\ a = [ok |-> TRUE, val |-> m[key]]
  \/ /\ (kind = "insert") = (m[key] # NoPage)
     /\ v = m[key] /\ a = [ok |-> FALSE, val |-> NoPage]

LEMMA EffectStep ==
  ASSUME Typed, NEW t \in Thread, pc[t] = "leaf", NEW l \in {"root", "post", "return"}, Goto(t, l),
         UNCHANGED call, NEW v, NEW a,
         Effected(call[t].kind, call[t].key, call[t].val, Contents, v, a),
         Contents' = [Contents EXCEPT ![call[t].key] = v],
         answer' = [answer EXCEPT ![t] = a]
  PROVE  Abstract!Effect(t)
<1>1. Phases[t] = "called" /\ Phases' = [Phases EXCEPT ![t] = "answered"]
  BY PhaseMoves DEF PhaseAt
<1>2. Made[t] = call[t] /\ Made' = Made
  <2>1. Made[t] = call[t] /\ Made' = [Made EXCEPT ![t] = call[t]]  BY CallStays, MadeMoves
  <2> QED  BY <2>1 DEF Made
<1>3. Abstract!Respond(t, v, a)
  <2>1. Contents' = [Contents EXCEPT ![Made[t].key] = v]  BY <1>2
  <2>2. UNCHANGED Made  BY <1>2
  <2> QED  BY <1>1, <2>1, <2>2 DEF Abstract!Respond, Phases, Made
<1>4. LET old == Contents[Made[t].key] IN
      \/ /\ Made[t].kind = "insert" /\ old = NoPage
         /\ v = Made[t].val /\ a = [ok |-> TRUE, val |-> NoPage]
      \/ /\ Made[t].kind = "delete" /\ old # NoPage
         /\ v = NoPage /\ a = [ok |-> TRUE, val |-> NoPage]
      \/ /\ Made[t].kind = "get" /\ old # NoPage
         /\ v = old /\ a = [ok |-> TRUE, val |-> old]
      \/ /\ (Made[t].kind = "insert") = (old # NoPage)
         /\ v = old /\ a = [ok |-> FALSE, val |-> NoPage]
  BY <1>2 DEF Effected
<1> QED
  BY <1>1, <1>3, <1>4 DEF Abstract!Effect, Abstract!Hit, Abstract!Miss, Phases, Made

LEMMA StartStep ==
  ASSUME TreeInv, NEW t \in Thread, Start(t)
  PROVE  Abstract!Invoke(t)
<1>0. Typed  BY DEF TreeInv
<1>1. /\ pc[t] = "idle" /\ Goto(t, "leaf") /\ UNCHANGED <<pages, answer>>
      /\ todo[t] # <<>> /\ \E c \in Head(todo[t]) : call' = [call EXCEPT ![t] = c]
  BY DEF Start, At
<1>2. PICK c \in Calls : call' = [call EXCEPT ![t] = c]
  <2> DEFINE q == todo[t]
  <2>1. q \in Seq(SUBSET Calls)  BY <1>0 DEF Typed
  <2> HIDE DEF q
  <2>2. q # <<>> => Head(q) \in SUBSET Calls  BY <2>1
  <2> QED  BY <1>1, <2>2 DEF q
<1>3. Phases[t] = "idle" /\ Phases' = [Phases EXCEPT ![t] = "called"]
  BY <1>0, <1>1, PhaseMoves DEF PhaseAt
<1>4. Made' = [Made EXCEPT ![t] = c]
  <2>1. Made' = [Made EXCEPT ![t] = IF "leaf" = "idle" THEN NoPage ELSE c]
    BY <1>0, <1>1, <1>2, MadeMoves
  <2> QED  BY <2>1
<1>5. c \in Abstract!Call  BY DEF Calls, Abstract!Call
<1>6. Contents' = Contents  BY <1>1, PagesStay
<1> QED  BY <1>1, <1>3, <1>4, <1>5, <1>6 DEF Abstract!Invoke, Phases, Made

LEMMA ReturnStep ==
  ASSUME TreeInv, NEW t \in Thread, Return(t)
  PROVE  Abstract!Return(t)
<1>0. Typed  BY DEF TreeInv
<1>1. /\ pc[t] = "return" /\ Goto(t, "idle") /\ call' = [call EXCEPT ![t] = NoCall]
      /\ answer' = [answer EXCEPT ![t] = NoAnswer] /\ UNCHANGED pages
  BY DEF Return, At
<1>2. Phases[t] = "answered" /\ Phases' = [Phases EXCEPT ![t] = "idle"]
  BY <1>0, <1>1, PhaseMoves DEF PhaseAt
<1>3. Made' = [Made EXCEPT ![t] = NoPage]  BY <1>0, <1>1, MadeMoves
<1>4. Contents' = Contents  BY <1>1, PagesStay
<1> QED
  BY <1>1, <1>2, <1>3, <1>4 DEF Abstract!Return, Abstract!Miss, NoAnswer, Phases, Made

(* Nowhere but in the leaf that a call has found can its key be. *)
LEMMA OnlyHere ==
  ASSUME EncodeOrdered, TreeInv, NEW t \in Thread, pc[t] = "leaf", NEW r
  PROVE  /\ ~Beside(pages, Leaf(t), call[t].key, r)
         /\ InLeaf(pages, call[t].key, r) <=> Has(pages[Leaf(t)], call[t].key, r)
<1> DEFINE p == Leaf(t)
           k == call[t].key
<1>1. Tree(pages, root, Lows)  BY DEF TreeInv, Lows
<1>2. p \in DOMAIN pages /\ pages[p].level = 0 /\ k \in Str /\ Covers(pages[p], Lows[p], k)
  BY LeafIs
<1> HIDE DEF p, k
<1>3. ~Beside(pages, p, k, r)
  <2> SUFFICES ASSUME Beside(pages, p, k, r)  PROVE FALSE  OBVIOUS
  <2>1. PICK q \in DOMAIN pages : q # p /\ pages[q].level = 0 /\ Has(pages[q], k, r)
    BY DEF Beside
  <2>2. Covers(pages[q], Lows[q], k)  BY <1>1, <2>1, HasCovered
  <2>3. p = q  BY <1>1, <1>2, <2>1, <2>2, OneCovers
  <2> QED  BY <2>1, <2>3
<1>4. InLeaf(pages, k, r) <=> Has(pages[p], k, r)  BY <1>2, <1>3, BesideIs
<1> QED  BY <1>3, <1>4 DEF p, k

LEMMA LeafKnows ==
  ASSUME EncodeOrdered, TreeInv, NEW t \in Thread, pc[t] = "leaf"
  PROVE  /\ Found(t) <=> Contents[call[t].key] # NoPage
         /\ Found(t) => LeafGet(pages[Leaf(t)], call[t].key) = Contents[call[t].key]
         /\ Found(t) \in BOOLEAN
<1> DEFINE p == Leaf(t)
           k == call[t].key
           page == pages[p]
           lo == Lows[p]
           v == LeafGet(page, k)
<1>1. k \in Str /\ k \in Key /\ NodeOK(page, lo) /\ Covers(page, lo, k)  BY LeafIs
<1>2. IsMap(pages, Contents)  BY MapsAre
<1>3. \A r : Has(page, k, r) <=> r # NoPage /\ Contents[k] = r
  BY <1>1, <1>2, OnlyHere DEF IsMap
<1>4. Found(t) = LeafFound(page, k)  BY DEF Found
<1>5. Contents[k] \in Val \cup {NoPage}  BY <1>1, <1>2 DEF IsMap
<1> HIDE DEF p, k, page, lo, v
<1>6. LeafFound(page, k) => Has(page, k, v)  BY <1>1, LeafGetIs DEF v
<1>7. LeafFound(page, k) <=> \E i \in DOMAIN page.slots : KeyAt(page, i) = k
  BY <1>1, LeafFoundIs
<1>8. (\E r : Has(page, k, r)) => LeafFound(page, k)  BY <1>7 DEF Has
<1>9. LeafFound(page, k) \in BOOLEAN  BY DEF LeafFound
<1>10. LeafFound(page, k) <=> Contents[k] # NoPage  BY <1>3, <1>6, <1>8
<1>11. LeafFound(page, k) => v = Contents[k]  BY <1>3, <1>6
<1> QED  BY <1>4, <1>9, <1>10, <1>11 DEF p, k, page, v

LEMMA GetStep ==
  ASSUME EncodeOrdered, TreeInv, NEW t \in Thread, Get(t)
  PROVE  Abstract!Effect(t)
<1> DEFINE k == call[t].key
           v == Contents[k]
           w == LeafGet(pages[Leaf(t)], k)
<1>1. /\ pc[t] = "leaf" /\ call[t].kind = "get" /\ Goto(t, "return")
      /\ UNCHANGED <<pages, call>>
      /\ IF Found(t) THEN Answer(t, TRUE, w) ELSE Answer(t, FALSE, NoPage)
  BY DEF Get, AtLeaf, At
<1>2. /\ Found(t) <=> v # NoPage
      /\ Found(t) => w = v
  BY <1>1, LeafKnows
<1>3. Typed /\ IsMap(pages, Contents) /\ k \in Key  BY <1>1, MapsAre, LeafIs DEF TreeInv
<1>4. Contents' = [Contents EXCEPT ![k] = v]
  BY <1>1, <1>3, PagesStay DEF IsMap
<1> HIDE DEF w
<1>5. CASE Found(t)
  <2>1. answer' = [answer EXCEPT ![t] = [ok |-> TRUE, val |-> v]]
    BY <1>1, <1>2, <1>5 DEF Answer
  <2>2. Effected(call[t].kind, k, call[t].val, Contents, v, [ok |-> TRUE, val |-> v])
    BY <1>1, <1>2, <1>5 DEF Effected
  <2> QED  BY <1>1, <1>3, <1>4, <2>1, <2>2, EffectStep
<1>6. CASE ~Found(t)
  <2>1. answer' = [answer EXCEPT ![t] = [ok |-> FALSE, val |-> NoPage]]
    BY <1>1, <1>6 DEF Answer
  <2>2. Effected(call[t].kind, k, call[t].val, Contents, v, [ok |-> FALSE, val |-> NoPage])
    BY <1>1, <1>2, <1>6 DEF Effected
  <2> QED  BY <1>1, <1>3, <1>4, <2>1, <2>2, EffectStep
<1> QED  BY <1>5, <1>6

LEMMA RefuseStep ==
  ASSUME EncodeOrdered, TreeInv, NEW t \in Thread, Refuse(t)
  PROVE  Abstract!Effect(t)
<1> DEFINE k == call[t].key
           v == Contents[k]
<1>1. /\ pc[t] = "leaf" /\ call[t].kind = "insert" /\ Goto(t, "return") /\ Found(t)
      /\ UNCHANGED <<pages, call>>
      /\ answer' = [answer EXCEPT ![t] = [ok |-> FALSE, val |-> NoPage]]
  BY DEF Refuse, AtLeaf, At, Answer
<1>2. v # NoPage  BY <1>1, LeafKnows
<1>3. Typed /\ IsMap(pages, Contents) /\ k \in Key  BY <1>1, MapsAre, LeafIs DEF TreeInv
<1>4. Contents' = [Contents EXCEPT ![k] = v]
  BY <1>1, <1>3, PagesStay DEF IsMap
<1>5. Effected(call[t].kind, k, call[t].val, Contents, v, [ok |-> FALSE, val |-> NoPage])
  BY <1>1, <1>2 DEF Effected
<1> QED  BY <1>1, <1>3, <1>4, <1>5, EffectStep

(* The map with the key put in, whichever leaf holds it now. *)
LEMMA MapGains ==
  ASSUME NEW pg, NEW pg2, NEW f, NEW g, IsMap(pg, f), IsMap(pg2, g),
         NEW k \in Key, NEW v \in Val,
         \A x, r : InLeaf(pg2, x, r) <=> InLeaf(pg, x, r) \/ (x = k /\ r = v)
  PROVE  g = [f EXCEPT ![k] = v]
<1>1. g = [f EXCEPT ![k] = g[k]]
  <2>1. \A x, r : x # k => (InLeaf(pg2, x, r) <=> InLeaf(pg, x, r))  OBVIOUS
  <2> QED  BY <2>1, MapBecomes
<1>2. InLeaf(pg2, k, v)  OBVIOUS
<1>3. g[k] = v  BY <1>2 DEF IsMap
<1> QED  BY <1>1, <1>3

LEMMA InsertStep ==
  ASSUME EncodeOrdered, TreeInv, TreeInv', NEW t \in Thread, Insert(t)
  PROVE  Abstract!Effect(t)
<1> DEFINE p == Leaf(t)
           k == call[t].key
           v == call[t].val
           page == LeafInsert(pages[p], k, v)
           a == [ok |-> TRUE, val |-> NoPage]
<1>1. /\ pc[t] = "leaf" /\ call[t].kind = "insert" /\ ~Found(t) /\ Write(p, page)
      /\ Goto(t, "return") /\ UNCHANGED call /\ answer' = [answer EXCEPT ![t] = a]
  BY DEF Insert, AtLeaf, At, Answer
<1>2. /\ p \in DOMAIN pages /\ pages[p].level = 0 /\ k \in Str /\ v \in Int
      /\ k \in Key /\ v \in Val
  BY <1>1, LeafIs
<1>3. NewHere(pages[p], Lows[p], k)  BY <1>1, LeafNew
<1>4. Contents[k] = NoPage  BY <1>1, LeafKnows
<1>5. IsMap(pages, Contents) /\ IsMap(pages', Contents') /\ Typed  BY MapsAre DEF TreeInv
<1> HIDE DEF p, k, v, a
<1>6. PutIn(page, pages[p], Lows[p], k, v)  BY <1>2, <1>3, LeafInsertIs
<1>7. pages' = [pages EXCEPT ![p] = page]  BY <1>1 DEF Write
<1> HIDE DEF page
<1>8. \A x, r : InLeaf(pages', x, r) <=> InLeaf(pages, x, r) \/ (x = k /\ r = v)
  <2> SUFFICES ASSUME NEW x, NEW r
               PROVE  InLeaf(pages', x, r) <=> InLeaf(pages, x, r) \/ (x = k /\ r = v)
    OBVIOUS
  <2>1. page.level = pages[p].level  BY <1>6 DEF PutIn, SameFences
  <2>2. InLeaf(pages', x, r) <=> Beside(pages, p, x, r) \/ Has(page, x, r)
    BY <1>2, <1>7, <2>1, WrittenHas
  <2>3. InLeaf(pages, x, r) <=> Beside(pages, p, x, r) \/ Has(pages[p], x, r)
    BY <1>2, BesideIs
  <2> QED  BY <1>6, <2>2, <2>3 DEF PutIn
<1>9. Contents' = [Contents EXCEPT ![k] = v]  BY ONLY <1>2, <1>5, <1>8, MapGains
<1>10. Effected(call[t].kind, k, v, Contents, v, a)  BY <1>1, <1>4 DEF Effected, a
<1> QED  BY <1>1, <1>5, <1>9, <1>10, EffectStep DEF k, v

LEMMA SplitLeafStep ==
  ASSUME EncodeOrdered, TreeInv, TreeInv', NEW t \in Thread, SplitLeaf(t)
  PROVE  Abstract!Effect(t)
<1> DEFINE p == Leaf(t)
           k == call[t].key
           v == call[t].val
           new == NewPage
           h == LeafSplit(pages[p], p, new, k, v)
           a == [ok |-> TRUE, val |-> NoPage]
<1>1. /\ pc[t] = "leaf" /\ call[t].kind = "insert" /\ ~Found(t)
      /\ UNCHANGED call /\ answer' = [answer EXCEPT ![t] = a]
  BY DEF SplitLeaf, AtLeaf, At, Answer
<1>2. ~LeafSplitFails(pages[p], p, new, k) /\ WriteSplit(p, h)
      /\ \E l \in {"root", "post", "return"} : Goto(t, l)
  <2>1. Propagate(t, p, Encode(h.sep)) => Goto(t, "root") \/ Goto(t, "post")
    BY DEF Propagate
  <2>2. ~LeafSplitFails(pages[p], p, new, k) /\ WriteSplit(p, h) /\ Propagate(t, p, Encode(h.sep))
    BY DEF SplitLeaf
  <2> QED  BY <2>1, <2>2
<1>3. /\ p \in DOMAIN pages /\ p \in Nat /\ pages[p].level = 0 /\ k \in Str /\ v \in Int
      /\ k \in Key /\ v \in Val
  BY <1>1, LeafIs
<1>4. NewHere(pages[p], Lows[p], k)  BY <1>1, LeafNew
<1>5. new \in Nat /\ new \notin DOMAIN pages  BY NewPageIs
<1>6. ~NoSplitPoint(pages[p])  BY <1>2 DEF LeafSplitFails, SplitFails
<1>7. Contents[k] = NoPage  BY <1>1, LeafKnows
<1>8. IsMap(pages, Contents) /\ IsMap(pages', Contents') /\ Typed  BY MapsAre DEF TreeInv
<1>9. pages' = AfterSplit(pages, p, new, h)  BY <1>2 DEF WriteSplit, AfterSplit
<1> HIDE DEF p, k, v, a, new
<1>10. SplitInto(h, pages[p], Lows[p], new, k, v)  BY <1>3, <1>4, <1>5, <1>6, LeafSplitIs
<1> HIDE DEF h
<1>11. \A x, r : InLeaf(pages', x, r) <=> InLeaf(pages, x, r) \/ (x = k /\ r = v)
  <2> SUFFICES ASSUME NEW x, NEW r
               PROVE  InLeaf(pages', x, r) <=> InLeaf(pages, x, r) \/ (x = k /\ r = v)
    OBVIOUS
  <2>1. h.left.level = pages[p].level /\ h.right.level = pages[p].level
    BY <1>10 DEF SplitInto
  <2>2. InLeaf(pages', x, r)
          <=> Beside(pages, p, x, r) \/ Has(h.left, x, r) \/ Has(h.right, x, r)
    BY <1>3, <1>5, <1>9, <2>1, SplitHas
  <2>3. InLeaf(pages, x, r) <=> Beside(pages, p, x, r) \/ Has(pages[p], x, r)
    BY <1>3, BesideIs
  <2>4. Has(h.left, x, r) \/ Has(h.right, x, r)
          <=> Has(pages[p], x, r) \/ (x = k /\ r = v)
    BY <1>10 DEF SplitInto
  <2> QED  BY <2>2, <2>3, <2>4
<1>12. Contents' = [Contents EXCEPT ![k] = v]  BY ONLY <1>3, <1>8, <1>11, MapGains
<1>13. Effected(call[t].kind, k, v, Contents, v, a)  BY <1>1, <1>7 DEF Effected, a
<1> QED  BY <1>1, <1>2, <1>8, <1>12, <1>13, EffectStep DEF k, v

(* The map without the key. *)
LEMMA MapLoses ==
  ASSUME NEW pg, NEW pg2, NEW f, NEW g, IsMap(pg, f), IsMap(pg2, g), NEW k \in Key,
         \A x, r : InLeaf(pg2, x, r) <=> InLeaf(pg, x, r) /\ x # k
  PROVE  g = [f EXCEPT ![k] = NoPage]
<1>1. g = [f EXCEPT ![k] = g[k]]
  <2>1. \A x, r : x # k => (InLeaf(pg2, x, r) <=> InLeaf(pg, x, r))  OBVIOUS
  <2> QED  BY <2>1, MapBecomes
<1>2. \A r : ~InLeaf(pg2, k, r)  OBVIOUS
<1>3. g[k] = NoPage  BY <1>2 DEF IsMap
<1> QED  BY <1>1, <1>3

LEMMA DeleteStep ==
  ASSUME EncodeOrdered, TreeInv, TreeInv', FencesStay, NEW t \in Thread, Delete(t)
  PROVE  Abstract!Effect(t)
<1> DEFINE p == Leaf(t)
           k == call[t].key
           page == LeafDelete(pages[p], k)
<1>1. /\ pc[t] = "leaf" /\ call[t].kind = "delete" /\ Goto(t, "return") /\ UNCHANGED call
      /\ answer' = [answer EXCEPT ![t] = [ok |-> Found(t), val |-> NoPage]]
      /\ IF Found(t) THEN Write(p, page) ELSE UNCHANGED pages
  BY DEF Delete, AtLeaf, At, Answer
<1>2. /\ p \in DOMAIN pages /\ pages[p].level = 0 /\ k \in Str /\ k \in Key
      /\ NodeOK(pages[p], Lows[p]) /\ Covers(pages[p], Lows[p], k)
  BY <1>1, LeafIs
<1>3. IsMap(pages, Contents) /\ IsMap(pages', Contents') /\ Typed  BY MapsAre DEF TreeInv
<1>4. (Found(t) <=> Contents[k] # NoPage) /\ Found(t) \in BOOLEAN  BY <1>1, LeafKnows
<1>5. CASE ~Found(t)
  <2>1. Contents[k] = NoPage  BY <1>4, <1>5
  <2>2. Contents' = [Contents EXCEPT ![k] = NoPage]
    BY <1>1, <1>2, <1>3, <1>5, <2>1, PagesStay DEF IsMap
  <2>3. answer' = [answer EXCEPT ![t] = [ok |-> FALSE, val |-> NoPage]]
    BY <1>1, <1>4, <1>5
  <2>4. Effected(call[t].kind, k, call[t].val, Contents, NoPage, [ok |-> FALSE, val |-> NoPage])
    BY <1>1, <2>1 DEF Effected
  <2> QED  BY <1>1, <1>3, <2>2, <2>3, <2>4, EffectStep
<1>6. CASE Found(t)
  <2>1. pages' = [pages EXCEPT ![p] = page] /\ LeafFound(pages[p], k)
    BY <1>1, <1>6 DEF Write, Found
  <2>2. k # Lows[p]
    <3>1. k # Low(p)  BY <1>1 DEF FencesStay
    <3> QED  BY <1>2, <3>1, LowIs
  <2>3. \A r : ~Beside(pages, p, k, r)  BY <1>1, OnlyHere
  <2>4. answer' = [answer EXCEPT ![t] = [ok |-> TRUE, val |-> NoPage]]
    BY <1>1, <1>4, <1>6
  <2> HIDE DEF p, k
  <2>5. TakenOut(page, pages[p], Lows[p], k)  BY <1>2, <2>1, <2>2, LeafDeleteKeeps
  <2> HIDE DEF page
  <2>6. \A x, r : InLeaf(pages', x, r) <=> InLeaf(pages, x, r) /\ x # k
    <3> SUFFICES ASSUME NEW x, NEW r
                 PROVE  InLeaf(pages', x, r) <=> InLeaf(pages, x, r) /\ x # k
      OBVIOUS
    <3>1. page.level = pages[p].level  BY <2>5 DEF TakenOut, SameFences
    <3>2. InLeaf(pages', x, r) <=> Beside(pages, p, x, r) \/ Has(page, x, r)
      BY <1>2, <2>1, <3>1, WrittenHas
    <3>3. InLeaf(pages, x, r) <=> Beside(pages, p, x, r) \/ Has(pages[p], x, r)
      BY <1>2, BesideIs
    <3>4. Has(page, x, r) <=> Has(pages[p], x, r) /\ x # k  BY <2>5 DEF TakenOut
    <3> QED  BY <2>3, <3>2, <3>3, <3>4
  <2>7. Contents' = [Contents EXCEPT ![k] = NoPage]  BY ONLY <1>2, <1>3, <2>6, MapLoses
  <2>8. Effected(call[t].kind, k, call[t].val, Contents, NoPage, [ok |-> TRUE, val |-> NoPage])
    BY <1>1, <1>4, <1>6 DEF Effected, k
  <2> QED  BY <1>1, <1>3, <2>4, <2>7, <2>8, EffectStep DEF k
<1> QED  BY <1>5, <1>6

(* Separators change nothing that a caller sees. *)
LEMMA InnerMap ==
  ASSUME EncodeOrdered, TreeInv, TreeInv', NEW t \in Thread,
         Raise(t) \/ PostSeparator(t) \/ SplitInter(t)
  PROVE  Contents' = Contents
<1> DEFINE p == Parent(t)
           k == post[t].sep
           c == post[t].child
           new == NewPage
<1>1. IsMap(pages, Contents) /\ IsMap(pages', Contents')  BY MapsAre
<1>2. SUFFICES \A x, r : InLeaf(pages', x, r) <=> InLeaf(pages, x, r)
  BY <1>1, MapStays
<1>3. new \in Nat /\ new \notin DOMAIN pages  BY NewPageIs
<1>4. ASSUME pc[t] = "post"
      PROVE  /\ p \in DOMAIN pages /\ p \in Nat /\ pages[p].level # 0 /\ k \in Str /\ c \in Int
             /\ NewHere(pages[p], Lows[p], k)
  <2>1. /\ p \in DOMAIN pages /\ p \in Nat /\ pages[p].level = pages[c].level + 1
        /\ pages[c].level \in Nat /\ k \in Str /\ c \in Int /\ NewHere(pages[p], Lows[p], k)
    BY <1>4, ParentIs
  <2> QED  BY <2>1
<1>5. CASE Raise(t)
  <2> DEFINE page == RootNode(pages[cur[t]].level, k, cur[t], c)
  <2>1. pages' = AfterRaise(pages, new, page)  BY <1>5 DEF Raise, AfterRaise
  <2>2. page.level = pages[cur[t]].level + 1  BY DEF RootNode, NewNode
  <2>3. pages[cur[t]].level \in Nat
    <3>1. root = cur[t] /\ Tree(pages, root, Lows)  BY <1>5 DEF Raise, TreeInv, Lows
    <3>2. root \in DOMAIN pages  BY <3>1 DEF Tree, Topped
    <3> QED  BY <3>1, <3>2, TreePage
  <2> HIDE DEF page
  <2>4. page.level # 0  BY <2>2, <2>3
  <2> QED  BY <1>3, <2>1, <2>4, RaisedHas
<1>6. CASE PostSeparator(t)
  <2> DEFINE page == InterInsert(pages[p], k, c)
  <2>1. pc[t] = "post" /\ pages' = [pages EXCEPT ![p] = page]
    BY <1>6 DEF PostSeparator, AtParent, At, Write
  <2>2. /\ p \in DOMAIN pages /\ pages[p].level # 0 /\ k \in Str /\ c \in Int
        /\ NewHere(pages[p], Lows[p], k)
    BY <1>4, <2>1
  <2> HIDE DEF p, k, c
  <2>3. PutIn(page, pages[p], Lows[p], k, c)  BY <2>2, InterInsertIs
  <2> HIDE DEF page
  <2>4. page.level = pages[p].level  BY <2>3 DEF PutIn, SameFences
  <2>5. ASSUME NEW x, NEW r  PROVE InLeaf(pages', x, r) <=> InLeaf(pages, x, r)
    <3>1. InLeaf(pages', x, r) <=> Beside(pages, p, x, r)
      BY <2>1, <2>2, <2>4, WrittenHas
    <3>2. InLeaf(pages, x, r) <=> Beside(pages, p, x, r)  BY <2>2, BesideIs
    <3> QED  BY <3>1, <3>2
  <2> QED  BY <2>5
<1>7. CASE SplitInter(t)
  <2> DEFINE h == InterSplit(pages[p], p, new, k, c)
  <2>1. pc[t] = "post" /\ ~InterSplitFails(pages[p], p, new, k) /\ WriteSplit(p, h)
    BY <1>7 DEF SplitInter, AtParent, At
  <2>2. /\ p \in DOMAIN pages /\ p \in Nat /\ pages[p].level # 0 /\ k \in Str /\ c \in Int
        /\ NewHere(pages[p], Lows[p], k)
    BY <1>4, <2>1
  <2>3. ~NoSplitPoint(pages[p])  BY <2>1 DEF InterSplitFails, SplitFails
  <2>4. pages' = AfterSplit(pages, p, new, h)  BY <2>1 DEF WriteSplit, AfterSplit
  <2> HIDE DEF p, k, c, new
  <2>5. SplitInto(h, pages[p], Lows[p], new, k, c)  BY <1>3, <2>2, <2>3, InterSplitIs
  <2> HIDE DEF h
  <2>6. h.left.level = pages[p].level /\ h.right.level = pages[p].level
    BY <2>5 DEF SplitInto
  <2>7. ASSUME NEW x, NEW r  PROVE InLeaf(pages', x, r) <=> InLeaf(pages, x, r)
    <3>1. InLeaf(pages', x, r) <=> Beside(pages, p, x, r)
      BY <1>3, <2>2, <2>4, <2>6, SplitHas
    <3>2. InLeaf(pages, x, r) <=> Beside(pages, p, x, r)  BY <2>2, BesideIs
    <3> QED  BY <3>1, <3>2
  <2> QED  BY <2>7
<1> QED  BY <1>5, <1>6, <1>7

LEMMA QuietStep ==
  ASSUME EncodeOrdered, TreeInv, TreeInv', NEW t \in Thread,
         Raise(t) \/ Redescend(t) \/ PostSeparator(t) \/ SplitInter(t)
  PROVE  UNCHANGED Abstract!vars
<1>1. /\ pc[t] \in {"root", "post"} /\ UNCHANGED <<call, answer>>
      /\ \E l \in {"root", "post", "return"} : Goto(t, l)
  <2>1. CASE Raise(t) \/ Redescend(t) \/ PostSeparator(t)
    BY <2>1 DEF Raise, Redescend, PostSeparator, AtParent, At
  <2>2. CASE SplitInter(t)  BY <2>2 DEF SplitInter, AtParent, At, Propagate
  <2> QED  BY <2>1, <2>2
<1>2. Contents' = Contents
  <2>1. CASE Redescend(t)  BY <2>1, PagesStay DEF Redescend
  <2> QED  BY <2>1, InnerMap
<1>3. PICK l \in {"root", "post", "return"} : Goto(t, l)  BY <1>1
<1>4. PhaseAt(l) = PhaseAt(pc[t])  BY <1>1 DEF PhaseAt
<1>5. Typed  BY DEF TreeInv
<1> QED  BY <1>1, <1>2, <1>3, <1>4, <1>5, StutterStep

LEMMA AbstractStep ==
  EncodeOrdered /\ TreeInv /\ TreeInv' /\ FencesStay /\ [Next]_vars
    => [Abstract!Next]_(Abstract!vars)
<1> SUFFICES ASSUME EncodeOrdered, TreeInv, TreeInv', FencesStay, [Next]_vars
             PROVE  Abstract!Next \/ UNCHANGED Abstract!vars
  OBVIOUS
<1>1. ASSUME NEW t \in Thread, Step(t)  PROVE Abstract!Next \/ UNCHANGED Abstract!vars
  <2>1. ASSUME Abstract!Invoke(t) \/ Abstract!Effect(t) \/ Abstract!Return(t)
        PROVE  Abstract!Next
    BY <2>1 DEF Abstract!Next
  <2>2. CASE Start(t)  BY <2>1, <2>2, StartStep
  <2>3. CASE Return(t)  BY <2>1, <2>3, ReturnStep
  <2>4. CASE Get(t)  BY <2>1, <2>4, GetStep
  <2>5. CASE Refuse(t)  BY <2>1, <2>5, RefuseStep
  <2>6. CASE Insert(t)  BY <2>1, <2>6, InsertStep
  <2>7. CASE SplitLeaf(t)  BY <2>1, <2>7, SplitLeafStep
  <2>8. CASE Delete(t)  BY <2>1, <2>8, DeleteStep
  <2>9. CASE Raise(t) \/ Redescend(t) \/ PostSeparator(t) \/ SplitInter(t)
    BY <2>9, QuietStep
  <2> QED  BY <1>1, <2>2, <2>3, <2>4, <2>5, <2>6, <2>7, <2>8, <2>9 DEF Step
<1>2. CASE UNCHANGED vars \/ NextRound
  <2>1. UNCHANGED <<pages, pc, call, answer>>  BY <1>2 DEF vars, NextRound
  <2>2. Contents' = Contents  BY <2>1, PagesStay
  <2>3. Phases' = Phases  BY <2>1, PhasesAre
  <2>4. Made' = Made  BY <2>1 DEF Made
  <2> QED  BY <2>1, <2>2, <2>3, <2>4 DEF Abstract!vars, Phases, Made
<1> QED  BY <1>1, <1>2 DEF Next, Ended

LEMMA AbstractInit == Init => Abstract!Init
<1> SUFFICES ASSUME Init PROVE Abstract!Init  OBVIOUS
<1>1. pc = [t \in Thread |-> "idle"] /\ answer = [t \in Thread |-> NoAnswer]  BY DEF Init
<1>2. Phases = [t \in Thread |-> "idle"]  BY <1>1, PhasesAre DEF PhaseAt
<1>3. Made = [t \in Thread |-> NoPage]  BY <1>1 DEF Made
<1>4. Contents = [k \in Key |-> NoPage]
  <2>1. pages = [p \in {0} |-> NewNode(0, <<>>, 0)]  BY DEF Init
  <2>2. \A k, v : ~InLeaf(pages, k, v)  BY <2>1 DEF InLeaf, Has, NewNode
  <2>3. \A k, v : <<k, v>> \notin StoredOf(pages)  BY <2>2, StoredIs
  <2> QED  BY <2>3, ContentsAre DEF ContentsOf
<1>5. answer = [t \in Thread |-> Abstract!Miss]  BY <1>1 DEF NoAnswer, Abstract!Miss
<1> QED  BY <1>2, <1>3, <1>4, <1>5 DEF Abstract!Init, Phases, Made

(* Insert, Delete and Get of whole keys are linearizable: the tree of      *)
(* variable-length pages implements KeyMap, for any number of threads,     *)
(* workload, layout and keys, as long as no Delete takes a leaf's lower    *)
(* fence out of it (FencesStay) and no descent is repeated from a root     *)
(* that is not above the page that split (RedescentHigh).  A call takes    *)
(* effect with what it does at the leaf it finds, split or not; posting    *)
(* separators changes nothing a caller sees.                               *)
THEOREM Linearizes ==
  ASSUME EncodeOrdered
  PROVE  Spec /\ []FencesStay /\ [][RedescentHigh]_vars => Linearizable
<1>1. Init => Abstract!Init  BY AbstractInit
<1>2. Spec /\ []FencesStay /\ [][RedescentHigh]_vars => []TreeInv  BY TreeAlways
<1>3. TreeInv /\ TreeInv' /\ FencesStay /\ [Next]_vars => [Abstract!Next]_(Abstract!vars)
  BY AbstractStep
<1> QED  BY <1>1, <1>2, <1>3, PTL DEF Spec, Linearizable, Abstract!Spec

-----------------------------------------------------------------------------
(* Keys that share their first encoded byte, as those of main.cpp and of   *)
(* the tests do, leave no page marked with an empty prefix.                *)

CodesShare == \A x, y \in Key : Encode(x)[1] = Encode(y)[1]

Coded(s) == s # <<>> => \E k \in Key : s = Encode(k)

LEMMA CodedShare ==
  ASSUME CodesShare, NEW a \in Str, NEW b \in Str, Coded(a), Coded(b), a # <<>>, b # <<>>
  PROVE  CommonPrefixLen(a, b) # 0
<1>0. Len(a) \in Nat /\ Len(b) \in Nat /\ 1 <= Len(a) /\ 1 <= Len(b)  BY DEF Str
<1>1. PICK n \in Nat : /\ SharesFirst(a, b, n)
                       /\ n = Len(a) \/ n = Len(b) \/ a[n + 1] # b[n + 1]
  BY Meet
<1>2. n \in 0 .. Len(a)  BY <1>0, <1>1 DEF SharesFirst
<1>3. ~SharesFirst(a, b, n + 1)  BY <1>0, <1>1 DEF SharesFirst
<1> DEFINE c == CommonPrefixLen(a, b)
<1>4. ~SharesFirst(a, b, c + 1)
  BY <1>1, <1>2, <1>3 DEF CommonPrefixLen
<1> HIDE DEF c
<1>5. a[1] = b[1]  BY DEF CodesShare, Coded
<1>6. SharesFirst(a, b, 1)  BY <1>0, <1>5 DEF SharesFirst
<1>7. c # 0  BY <1>4, <1>6
<1> QED  BY <1>7 DEF c

LowsCoded(pg, low, m) == \A p \in DOMAIN pg : pg[p].level = m => Coded(Fence(pg, low, p))

LEMMA FencesCoded ==
  ASSUME NEW pg, NEW rt, NEW low, Tree(pg, rt, low)
  PROVE  \A p \in DOMAIN pg : Coded(Fence(pg, low, p))
<1> DEFINE N == {m \in Nat : LowsCoded(pg, low, m)}
<1>1. 0 \in N
  <2> SUFFICES ASSUME NEW p \in DOMAIN pg, pg[p].level = 0  PROVE Coded(Fence(pg, low, p))
    BY DEF LowsCoded
  <2> QED  BY FenceIs DEF Coded
<1>2. ASSUME NEW m \in Nat, m \in N  PROVE m + 1 \in N
  <2> SUFFICES ASSUME NEW p \in DOMAIN pg, pg[p].level = m + 1  PROVE Coded(Fence(pg, low, p))
    BY DEF LowsCoded
  <2>1. NodeOK(pg[p], low[p]) /\ pg[p] \in Node  BY TreePage
  <2>2. pg[p].level > 0 /\ m + 1 # 0 /\ (m + 1) - 1 = m  OBVIOUS
  <2>3. pg[p].slots # <<>> /\ KeyAt(pg[p], 1) = low[p]
    BY <2>1, <2>2 DEF NodeOK, StartsAt
  <2>4. 1 \in DOMAIN pg[p].slots
    <3>1. pg[p].slots \in Seq(Slot)  BY <2>1, PageParts
    <3> QED  BY <3>1, <2>3
  <2> DEFINE r == pg[p].slots[1].ref
  <2>5. Has(pg[p], low[p], r)  BY <2>3, <2>4 DEF Has
  <2> HIDE DEF r
  <2>6. EntryOK(pg, low, m + 1, low[p], r)  BY <2>5 DEF Tree, EntriesOK
  <2>7. r \in DOMAIN pg /\ pg[r].level = m /\ low[p] = Fence(pg, low, r)
    BY <2>2, <2>6 DEF EntryOK
  <2>8. Coded(low[p])  BY <1>2, <2>7 DEF LowsCoded
  <2>9. Fence(pg, low, p) = low[p]  BY <2>2, FenceIs
  <2> QED  BY <2>8, <2>9
<1>3. Nat \subseteq N
  <2> HIDE DEF N
  <2> QED  BY <1>1, <1>2, Induction
<1>4. ASSUME NEW p \in DOMAIN pg  PROVE Coded(Fence(pg, low, p))
  <2>1. pg[p].level \in Nat  BY TreePage
  <2>2. LowsCoded(pg, low, pg[p].level)  BY <1>3, <2>1
  <2> QED  BY <2>2 DEF LowsCoded
<1> QED  BY <1>4

(* What an intermediate page compares is encoded. *)
InnerCoded(page) ==
  /\ \A i \in DOMAIN page.slots : Coded(KeyAt(page, i))
  /\ page.high # NoKey => Coded(page.high)

LEMMA InnerIsCoded ==
  ASSUME NEW pg, NEW rt, NEW low, Tree(pg, rt, low), NEW p \in DOMAIN pg, pg[p].level # 0
  PROVE  InnerCoded(pg[p])
<1>0. \A q \in DOMAIN pg : Coded(Fence(pg, low, q))  BY FencesCoded
<1>1. ASSUME NEW i \in DOMAIN pg[p].slots  PROVE Coded(KeyAt(pg[p], i))
  <2> DEFINE x == KeyAt(pg[p], i)
             r == pg[p].slots[i].ref
  <2>1. Has(pg[p], x, r)  BY DEF Has
  <2> HIDE DEF x, r
  <2>2. EntryOK(pg, low, pg[p].level, x, r)  BY <2>1 DEF Tree, EntriesOK
  <2>3. r \in DOMAIN pg /\ x = Fence(pg, low, r)  BY <2>2 DEF EntryOK
  <2> QED  BY <1>0, <2>3 DEF x
<1>2. ASSUME pg[p].high # NoKey  PROVE Coded(pg[p].high)
  <2>1. NodeOK(pg[p], low[p]) /\ pg[p].level \in Nat  BY TreePage
  <2>2. pg[p].rlink # NoPage  BY <2>1, <1>2 DEF NodeOK, EndsOpen
  <2>3. /\ pg[p].rlink \in DOMAIN pg /\ low[pg[p].rlink] = pg[p].high
        /\ pg[pg[p].rlink].level = pg[p].level
    BY <2>2 DEF Tree, Linked, LowsFit
  <2>4. pg[pg[p].rlink].level > 0  BY <2>1, <2>3
  <2>5. Fence(pg, low, pg[p].rlink) = pg[p].high  BY <2>3, <2>4, FenceIs
  <2> QED  BY <1>0, <2>3, <2>5
<1> QED  BY <1>1, <1>2 DEF InnerCoded

(* A page that is marked has a prefix. *)
MarkOK(page) == page.marked => page.prefix # <<>>
InnerMarked(page) == page.level > 0 => MarkOK(page)

LEMMA InsertMarks ==
  ASSUME NEW page \in Node, NEW k, NEW v
  PROVE  LET a == LeafInsert(page, k, v)
             b == InterInsert(page, k, v) IN
         /\ a.marked = page.marked /\ a.prefix = page.prefix /\ a.level = page.level
         /\ b.marked = page.marked /\ b.prefix = page.prefix /\ b.level = page.level
<1>1. ASSUME NEW i, NEW s
      PROVE  LET a == InsertSlot(page, i, s, v) IN
             a.marked = page.marked /\ a.prefix = page.prefix /\ a.level = page.level
  <2> DEFINE slots == InsertAt(page.slots, i + 1, [key |-> s, ref |-> v])
             heap == ReserveSlot(page.heap, s)
             a == [page EXCEPT !.slots = slots, !.heap = heap]
  <2>1. InsertSlot(page, i, s, v) = a  BY DEF InsertSlot
  <2> HIDE DEF slots, heap
  <2>2. a.marked = page.marked /\ a.prefix = page.prefix /\ a.level = page.level  BY DEF Node
  <2> QED  BY <2>1, <2>2
<1> QED  BY <1>1 DEF LeafInsert, InterInsert

(* The bytes that both halves of an intermediate page keep are some.       *)
LEMMA SharesSome ==
  ASSUME CodesShare, NEW page, NEW lo, NodeOK(page, lo), page.level > 0, InnerCoded(page),
         NEW n, NEW sep, SplitAt(page, lo, n, sep), page.prefix = <<>>
  PROVE  /\ page.llink # NoPage => SharedLeft(page, n) # 0
         /\ page.rlink # NoPage => SharedRight(page, n) # 0
<1> DEFINE a == page.slots[1].key
           b == page.slots[n + 1].key
           d == RemoveKeyPrefix(page, page.high)
<1>1. /\ Strings(page) /\ page \in Node /\ lo \in Str
      /\ StartsAt(page, lo) /\ EndsOpen(page, lo) /\ page.high \in Str \cup {NoKey}
      /\ (page.high # NoKey => Below(lo, page.high))
  BY DEF NodeOK, Strings
<1>2. n \in 1 .. Count(page) - 1 /\ sep = KeyAt(page, n + 1) /\ sep \in Str /\ sep # <<>>
  BY DEF SplitAt
<1>3. Count(page) \in Nat /\ DOMAIN page.slots = 1 .. Count(page)  BY <1>1, PageParts
<1>4. 1 \in DOMAIN page.slots /\ n + 1 \in DOMAIN page.slots  BY <1>2, <1>3
<1>5. \A i \in DOMAIN page.slots : KeyAt(page, i) = page.slots[i].key
  <2>1. \A i \in DOMAIN page.slots : page.slots[i].key \in Seq(Int)  BY <1>1, PageParts
  <2> QED  BY <2>1 DEF KeyAt
<1>6. a \in Str /\ b \in Str /\ b = sep /\ b # <<>> /\ Coded(a) /\ Coded(b)
  BY <1>1, <1>2, <1>4, <1>5 DEF Strings, InnerCoded
<1>7. page.llink # NoPage => a # <<>>
  <2>1. KeyAt(page, 1) = lo  BY <1>1 DEF StartsAt
  <2>2. a = lo  BY <2>1, <1>4, <1>5
  <2> QED  BY <2>2, <1>1 DEF EndsOpen
<1>8. page.rlink # NoPage => d \in Str /\ Coded(d) /\ d # <<>>
  <2> SUFFICES ASSUME page.rlink # NoPage  PROVE d \in Str /\ Coded(d) /\ d # <<>>
    OBVIOUS
  <2>1. page.high # NoKey /\ page.high \in Str /\ Below(lo, page.high)  BY <1>1 DEF EndsOpen
  <2>2. page.high # <<>>  BY <2>1, <1>1, EmptyFirst
  <2>3. d = page.high
    <3>1. Len(page.prefix) = 0 /\ page.high \in Seq(Nat)  BY <2>1 DEF Str
    <3> QED  BY <3>1 DEF RemoveKeyPrefix
  <2> QED  BY <2>1, <2>2, <2>3 DEF InnerCoded
<1>9. /\ page.llink # NoPage => SharedLeft(page, n) = CommonPrefixLen(a, b)
      /\ page.rlink # NoPage => SharedRight(page, n) = CommonPrefixLen(b, d)
  BY DEF SharedLeft, SharedRight
<1> HIDE DEF a, b, d
<1> QED  BY <1>6, <1>7, <1>8, <1>9, CodedShare

LEMMA SplitMarks ==
  ASSUME CodesShare, NEW page, NEW lo, NodeOK(page, lo), page.level > 0, InnerCoded(page),
         ~NoSplitPoint(page), NEW pid \in Nat, NEW new \in Nat
  PROVE  LET h == Halves(page, pid, new) IN MarkOK(h.left) /\ MarkOK(h.right)
<1> DEFINE n == FindSplitPoint(page)
           sep == Sentinel(page, n)
           cl == SharedLeft(page, n)
           cr == SharedRight(page, n)
           left == LeftHalf(page, n, new)
           right == RightHalf(page, n, pid)
           h == Halves(page, pid, new)
           p == Len(page.prefix)
           prefixL == SubSeq(sep, 1, p + cl)
           prefixR == SubSeq(sep, 1, p + cr)
           slotsL == Cut(SubSeq(page.slots, 1, n), cl)
           slotsR == Cut(SubSeq(page.slots, n + 1, Count(page)), cr)
           heapL == PackedSize(slotsL, sep, prefixL)
           heapR == PackedRight(slotsR, page.high, prefixR)
           markL == page.llink # NoPage
           markR == page.rlink # NoPage
<1>0. page \in Node /\ page.prefix \in Str  BY DEF NodeOK, Strings
<1>1. h.left = left /\ h.right = right  BY DEF Halves, LeftHalf, RightHalf
<1>2. SplitAt(page, lo, n, sep)  BY SplitAtIs
<1>3. /\ left = [page EXCEPT !.slots = slotsL, !.dead = 0, !.high = sep, !.heap = heapL,
                             !.prefix = prefixL, !.marked = markL, !.rlink = new]
      /\ right = [page EXCEPT !.slots = slotsR, !.dead = 0, !.heap = heapR,
                              !.prefix = prefixR, !.marked = markR, !.llink = pid]
  BY DEF LeftHalf, RightHalf
<1> HIDE DEF n, sep
<1>4. cl \in Nat /\ Len(prefixL) = p + cl  BY <1>2, SharedLeftIs
<1>5. cr \in Nat /\ Len(prefixR) = p + cr  BY <1>2, SharedRightIs
<1>6. page.prefix = <<>> => (markL => cl # 0) /\ (markR => cr # 0)  BY <1>2, SharesSome
<1>7. p \in Nat /\ (page.prefix # <<>> => p # 0)  BY <1>0 DEF Str
<1> HIDE DEF h, left, right, prefixL, slotsL, prefixR, slotsR, heapL, heapR, markL, markR,
             cl, cr, p
<1>8. /\ left.prefix = prefixL /\ left.marked = markL
      /\ right.prefix = prefixR /\ right.marked = markR
  BY ONLY <1>0, <1>3 DEF Node
<1>9. (markL => Len(prefixL) # 0) /\ (markR => Len(prefixR) # 0)
  BY <1>4, <1>5, <1>6, <1>7
<1>10. Len(<<>>) = 0  OBVIOUS
<1>11. (markL => prefixL # <<>>) /\ (markR => prefixR # <<>>)  BY <1>9, <1>10
<1>12. MarkOK(left) /\ MarkOK(right)  BY <1>8, <1>11 DEF MarkOK
<1> QED  BY <1>1, <1>12 DEF h

LEMMA InterSplitMarks ==
  ASSUME CodesShare, NEW page, NEW lo, NEW k \in Str, NewHere(page, lo, k), page.level > 0,
         InnerCoded(page), ~NoSplitPoint(page), NEW pid \in Nat, NEW new \in Nat, NEW c
  PROVE  LET h == InterSplit(page, pid, new, k, c) IN MarkOK(h.left) /\ MarkOK(h.right)
<1> DEFINE g == Halves(page, pid, new)
           a == InterInsert(g.left, k, c)
           b == InterInsert(g.right, k, c)
           h == InterSplit(page, pid, new, k, c)
<1>1. MarkOK(g.left) /\ MarkOK(g.right) /\ g.left \in Node /\ g.right \in Node
  <2>1. NodeOK(page, lo)  BY DEF NewHere
  <2>2. Halved(g, page, lo, new)  BY <2>1, HalvesAre
  <2>3. MarkOK(g.left) /\ MarkOK(g.right)  BY <2>1, SplitMarks
  <2> QED  BY <2>2, <2>3 DEF Halved, NodeOK, Strings
<1>2. g = [sep |-> g.sep, left |-> g.left, right |-> g.right]  BY DEF Halves
<1>3. h = IF Below(k, g.sep) THEN [g EXCEPT !.left = InterInsert(@, k, c)]
                             ELSE [g EXCEPT !.right = InterInsert(@, k, c)]
  BY DEF InterSplit
<1> HIDE DEF g, h
<1>4. /\ Below(k, g.sep) => h.left = a /\ h.right = g.right
      /\ ~Below(k, g.sep) => h.left = g.left /\ h.right = b
  BY <1>2, <1>3
<1>5. MarkOK(a) /\ MarkOK(b)  BY <1>1, InsertMarks DEF MarkOK
<1> HIDE DEF a, b
<1> QED  BY <1>1, <1>4, <1>5 DEF h

LEMMA MarksStart == ASSUME Init  PROVE NoEmptyMarks
<1> DEFINE page == NewNode(0, <<>>, 0)
<1>1. ~page.marked  BY DEF NewNode
<1>2. pages = [p \in {0} |-> page]  BY DEF Init
<1> HIDE DEF page
<1> QED  BY <1>1, <1>2 DEF NoEmptyMarks

LEMMA WrittenMarks ==
  ASSUME NoEmptyMarks, NEW p, NEW page, page.level > 0 => MarkOK(page),
         pages' = [pages EXCEPT ![p] = page]
  PROVE  NoEmptyMarks'
BY DEF NoEmptyMarks, MarkOK

LEMMA SplitInTwoMarks ==
  ASSUME NoEmptyMarks, NEW p, NEW h, h.left.level > 0 => MarkOK(h.left),
         h.right.level > 0 => MarkOK(h.right), WriteSplit(p, h)
  PROVE  NoEmptyMarks'
BY DEF NoEmptyMarks, WriteSplit, MarkOK

LEMMA MarksStep ==
  ASSUME EncodeOrdered, CodesShare, TreeInv, FencesStay, NoEmptyMarks, [Next]_vars
  PROVE  NoEmptyMarks'
<1>0. Tree(pages, root, Lows)  BY DEF TreeInv, Lows
<1>1. CASE UNCHANGED pages  BY <1>1 DEF NoEmptyMarks
<1>2. ASSUME NEW t \in Thread, Insert(t)  PROVE NoEmptyMarks'
  <2> DEFINE p == Leaf(t)
             k == call[t].key
             v == call[t].val
             page == LeafInsert(pages[p], k, v)
  <2>1. pc[t] = "leaf" /\ Write(p, page)  BY <1>2 DEF Insert, AtLeaf, At
  <2>2. p \in DOMAIN pages /\ pages[p] \in Node /\ pages[p].level = 0
    BY <2>1, LeafIs DEF NodeOK, Strings
  <2> HIDE DEF p, k, v
  <2>3. page.level = 0  BY <2>2, InsertMarks
  <2> HIDE DEF page
  <2>4. page.level > 0 => MarkOK(page)  BY <2>3
  <2> QED  BY <2>1, <2>4, WrittenMarks DEF Write
<1>3. ASSUME NEW t \in Thread, PostSeparator(t)  PROVE NoEmptyMarks'
  <2> DEFINE p == Parent(t)
             k == post[t].sep
             c == post[t].child
             page == InterInsert(pages[p], k, c)
  <2>1. pc[t] = "post" /\ Write(p, page)  BY <1>3 DEF PostSeparator, AtParent, At
  <2>2. p \in DOMAIN pages /\ pages[p] \in Node
    BY <2>1, ParentIs DEF NodeOK, Strings
  <2> HIDE DEF p, k, c
  <2>3. page.level > 0 => MarkOK(page)  BY <2>2, InsertMarks DEF NoEmptyMarks, MarkOK
  <2> HIDE DEF page
  <2> QED  BY <2>1, <2>3, WrittenMarks DEF Write
<1>4. ASSUME NEW t \in Thread, SplitLeaf(t)  PROVE NoEmptyMarks'
  <2> DEFINE p == Leaf(t)
             k == call[t].key
             v == call[t].val
             h == LeafSplit(pages[p], p, NewPage, k, v)
  <2>1. /\ pc[t] = "leaf" /\ ~Found(t) /\ WriteSplit(p, h)
        /\ ~LeafSplitFails(pages[p], p, NewPage, k)
    BY <1>4 DEF SplitLeaf, AtLeaf, At
  <2>2. p \in DOMAIN pages /\ p \in Nat /\ k \in Str /\ v \in Int /\ pages[p].level = 0
    BY <2>1, LeafIs
  <2>3. NewHere(pages[p], Lows[p], k)  BY <2>1, LeafNew
  <2>4. NewPage \in Nat  BY NewPageIs
  <2> HIDE DEF p, k, v
  <2>5. h.left.level = 0 /\ h.right.level = 0
    BY <2>1, <2>2, <2>3, <2>4, LeafSplitIs DEF LeafSplitFails, SplitFails, SplitInto
  <2> HIDE DEF h
  <2>6. ~(h.left.level > 0) /\ ~(h.right.level > 0)  BY <2>5
  <2> QED  BY <2>1, <2>6, SplitInTwoMarks
<1>5. ASSUME NEW t \in Thread, SplitInter(t)  PROVE NoEmptyMarks'
  <2> DEFINE p == Parent(t)
             k == post[t].sep
             c == post[t].child
             h == InterSplit(pages[p], p, NewPage, k, c)
  <2>1. pc[t] = "post" /\ WriteSplit(p, h) /\ ~NoSplitPoint(pages[p])
    BY <1>5 DEF SplitInter, AtParent, At, InterSplitFails, SplitFails
  <2>2. /\ p \in DOMAIN pages /\ p \in Nat /\ k \in Str
        /\ NewHere(pages[p], Lows[p], k)
        /\ pages[p].level = pages[c].level + 1 /\ pages[c].level \in Nat
    BY <2>1, ParentIs
  <2>3. pages[p].level > 0 /\ pages[p].level # 0  BY <2>2
  <2>4. NewPage \in Nat  BY NewPageIs
  <2> HIDE DEF p, k, c
  <2>5. InnerCoded(pages[p])  BY <1>0, <2>2, <2>3, InnerIsCoded
  <2>6. MarkOK(h.left) /\ MarkOK(h.right)
    BY <2>1, <2>2, <2>3, <2>4, <2>5, InterSplitMarks
  <2> HIDE DEF h
  <2> QED  BY <2>1, <2>6, SplitInTwoMarks
<1>6. ASSUME NEW t \in Thread, Delete(t)  PROVE NoEmptyMarks'
  <2> DEFINE p == Leaf(t)
             k == call[t].key
             page == LeafDelete(pages[p], k)
  <2>1. pc[t] = "leaf" /\ call[t].kind = "delete"  BY <1>6 DEF Delete, AtLeaf, At
  <2>2. /\ p \in DOMAIN pages /\ pages[p].level = 0 /\ k \in Str
        /\ NodeOK(pages[p], Lows[p]) /\ Covers(pages[p], Lows[p], k)
    BY <2>1, LeafIs
  <2>3. CASE ~Found(t)
    <3>1. UNCHANGED pages  BY <1>6, <2>3 DEF Delete
    <3> QED  BY <1>1, <3>1
  <2>4. CASE Found(t)
    <3>1. Write(p, page) /\ LeafFound(pages[p], k)  BY <1>6, <2>4 DEF Delete, Found
    <3>2. k # Lows[p]
      <4>1. k # Low(p)  BY <2>1 DEF FencesStay
      <4> QED  BY <2>2, <4>1, LowIs
    <3> HIDE DEF p, k
    <3>3. TakenOut(page, pages[p], Lows[p], k)  BY <2>2, <3>1, <3>2, LeafDeleteKeeps
    <3> HIDE DEF page
    <3>4. page.level = 0  BY <2>2, <3>3 DEF TakenOut, SameFences
    <3>5. ~(page.level > 0)  BY <3>4
    <3> QED  BY <3>1, <3>5, WrittenMarks DEF Write
  <2> QED  BY <2>3, <2>4
<1>7. ASSUME NEW t \in Thread, Raise(t)  PROVE NoEmptyMarks'
  <2> DEFINE page == RootNode(pages[cur[t]].level, post[t].sep, cur[t], post[t].child)
  <2>1. pages' = [p \in DOMAIN pages \cup {NewPage} |-> IF p = NewPage THEN page ELSE pages[p]]
    BY <1>7 DEF Raise
  <2>2. ~page.marked  BY DEF RootNode, NewNode
  <2> HIDE DEF page
  <2> QED  BY <2>1, <2>2 DEF NoEmptyMarks
<1>8. ASSUME NEW t \in Thread, Step(t)  PROVE NoEmptyMarks'
  <2>1. \/ UNCHANGED pages
        \/ Insert(t) \/ PostSeparator(t) \/ SplitLeaf(t) \/ SplitInter(t) \/ Delete(t) \/ Raise(t)
    BY <1>8 DEF Step, Start, Get, Refuse, Redescend, Return
  <2> QED  BY <2>1, <1>1, <1>2, <1>3, <1>4, <1>5, <1>6, <1>7
<1>9. CASE NextRound \/ Ended \/ UNCHANGED vars
  BY <1>9, <1>1 DEF NextRound, Ended, vars
<1> QED  BY <1>8, <1>9 DEF Next

(* Under the other three conditions, and with keys that share their first  *)
(* encoded byte, no page is so marked: no assertion of the layouts stops a *)
(* split and no search leaves the tree (AssertionsHold).                   *)
THEOREM AssertionsAlwaysHold ==
  ASSUME EncodeOrdered, CodesShare, NEW max, KeysFit(max)
  PROVE  Spec /\ []FencesStay /\ [][RedescentHigh]_vars => []AssertionsHold
<1>1. Init => TreeInv /\ AllAccounted /\ AllClear /\ NoEmptyMarks
  BY TreeStart, AccountedStart, ClearStart, MarksStart
<1>2. TreeInv /\ AllAccounted /\ AllClear /\ NoEmptyMarks /\ FencesStay /\ [RedescentHigh]_vars /\ [Next]_vars
        => TreeInv' /\ AllAccounted' /\ AllClear' /\ NoEmptyMarks'
  BY TreeStep, AccountedStep, ClearStep, MarksStep
<1>3. TreeInv /\ AllAccounted /\ AllClear /\ NoEmptyMarks => AssertionsHold
  BY NoneFaulty DEF AssertionsHold
<1> QED  BY <1>1, <1>2, <1>3, PTL DEF Spec

-----------------------------------------------------------------------------
(* Workloads that insert and look up keys only, as those of main.cpp do,   *)
(* take no lower fence out.                                                *)

Deletes(rounds) ==
  \E t \in Thread : \E i \in DOMAIN rounds[t] : \E c \in rounds[t][i] : c.kind = "delete"
NoDeletes == \A n \in DOMAIN Workload : ~Deletes(Workload[n])

Harmless == ~Deletes(todo) /\ \A t \in Thread : call[t].kind # "delete"

LEMMA HarmlessStart ==
  ASSUME NoDeletes, Init
  PROVE  Harmless
<1>1. 1 \in DOMAIN Workload  BY WorkloadAssumption
<1>2. todo = Workload[1] /\ \A t \in Thread : call[t] = NoCall  BY DEF Init
<1> QED  BY <1>1, <1>2 DEF NoDeletes, Harmless, NoCall

LEMMA HarmlessStep ==
  ASSUME NoDeletes, Harmless, Typed, [Next]_vars
  PROVE  Harmless'
<1>1. CASE UNCHANGED <<todo, call>>  BY <1>1 DEF Harmless, Deletes
<1>2. CASE NextRound
  <2>1. round + 1 \in DOMAIN Workload
    <3>1. Len(Workload) \in Nat /\ DOMAIN Workload = 1 .. Len(Workload)
      BY WorkloadAssumption
    <3>2. round \in 1 .. Len(Workload) /\ round < Len(Workload)  BY <1>2 DEF Typed, NextRound
    <3> QED  BY <3>1, <3>2
  <2>2. todo' = Workload[round + 1] /\ call' = call  BY <1>2 DEF NextRound
  <2> QED  BY <2>1, <2>2 DEF NoDeletes, Harmless
<1>3. ASSUME NEW t \in Thread, Start(t)  PROVE Harmless'
  <2> DEFINE q == todo[t]
  <2>1. /\ q # <<>> /\ todo' = [todo EXCEPT ![t] = Tail(q)]
        /\ \E c \in Head(q) : call' = [call EXCEPT ![t] = c]
    BY <1>3 DEF Start
  <2>2. q \in Seq(SUBSET Calls)  BY DEF Typed
  <2>3. \A i \in DOMAIN q : \A c \in q[i] : c.kind # "delete"  BY DEF Harmless, Deletes
  <2>4. \A u \in Thread \ {t} : todo'[u] = todo[u]  BY <2>1 DEF Typed
  <2>5. todo'[t] = Tail(q)  BY <2>1 DEF Typed
  <2> HIDE DEF q
  <2>6. 1 \in DOMAIN q /\ Head(q) = q[1]  BY <2>1, <2>2
  <2>7. \A i \in DOMAIN Tail(q) : i + 1 \in DOMAIN q /\ Tail(q)[i] = q[i + 1]
    BY <2>1, <2>2
  <2>8. \A i \in DOMAIN Tail(q) : \A c \in Tail(q)[i] : c.kind # "delete"  BY <2>3, <2>7
  <2>9. ~Deletes(todo')  BY <2>4, <2>5, <2>8 DEF Harmless, Deletes
  <2>10. PICK c : c.kind # "delete" /\ call' = [call EXCEPT ![t] = c]  BY <2>1, <2>3, <2>6
  <2>11. \A u \in Thread : call'[u].kind # "delete"  BY <2>10 DEF Harmless, Typed
  <2> QED  BY <2>9, <2>11 DEF Harmless
<1>4. ASSUME NEW t \in Thread, Return(t)  PROVE Harmless'
  <2>1. todo' = todo /\ call' = [call EXCEPT ![t] = NoCall]  BY <1>4 DEF Return
  <2>2. \A u \in Thread : call'[u].kind # "delete"  BY <2>1 DEF Harmless, Typed, NoCall
  <2> QED  BY <2>1, <2>2 DEF Harmless, Deletes
<1>5. ASSUME NEW t \in Thread, Step(t), ~Start(t), ~Return(t)  PROVE UNCHANGED <<todo, call>>
  BY <1>5 DEF Step, Get, Refuse, Insert, SplitLeaf, Delete, Raise, Redescend, PostSeparator,
     SplitInter
<1>6. CASE UNCHANGED vars \/ Ended  BY <1>1, <1>6 DEF vars, Ended
<1> QED  BY <1>1, <1>2, <1>3, <1>4, <1>5, <1>6 DEF Next

LEMMA HarmlessThen == Harmless => FencesStay  BY DEF Harmless, FencesStay

-----------------------------------------------------------------------------
(* With one thread that inserts in each round, RedescentHigh holds by      *)
(* itself: the root cannot change under that thread, and it never goes     *)
(* down twice.  The others may look up and delete as they like.            *)

Inserts(rounds, t) == \E i \in DOMAIN rounds[t] : \E c \in rounds[t][i] : c.kind = "insert"
OneInserter ==
  \A n \in DOMAIN Workload : \A t, u \in Thread :
    Inserts(Workload[n], t) /\ Inserts(Workload[n], u) => t = u

Asks(t) == Inserts(todo, t) \/ call[t].kind = "insert"

(* The first page a thread came down from, on the level of the root. *)
First(s, p) == IF s = <<>> THEN p ELSE s[1]
AtTop(p) == p \in DOMAIN pages /\ pages[p].level = pages[root].level
Rooted(t) ==
  /\ pc[t] \in {"leaf", "post"} => AtTop(First(stack[t], cur[t]))
  /\ pc[t] = "root" => cur[t] = root

Alone == \A t, u \in Thread : Asks(t) /\ Asks(u) => t = u
Owed(t) ==
  /\ Owing(t) => call[t].kind = "insert"
  /\ pc[t] = "idle" => call[t].kind # "insert"
OneTop == \A p : AtTop(p) => p = root \/ \E t \in Thread : pc[t] = "root" /\ p = post[t].child

Sole ==
  /\ Alone /\ OneTop
  /\ \A t \in Thread : Owed(t) /\ (call[t].kind = "insert" => Rooted(t))

LEMMA FrontFirst ==
  ASSUME NEW S, NEW s \in Seq(S), s # <<>>
  PROVE  First(Front(s), Last(s)) = s[1]
<1> DEFINE f == Front(s)
           e == Last(s)
           w == Append(f, e)
<1>1. f \in Seq(S) /\ e \in S /\ w = s  BY FrontLastIs
<1> HIDE DEF f, e
<1>2. Len(f) \in Nat /\ (f = <<>> <=> Len(f) = 0)  BY <1>1
<1>3. Len(w) = Len(f) + 1 /\ \A i \in 1 .. Len(f) + 1 : w[i] = IF i = Len(f) + 1 THEN e ELSE f[i]
  BY <1>1
<1> HIDE DEF w
<1>4. 1 \in 1 .. Len(f) + 1 /\ (f = <<>> <=> 1 = Len(f) + 1)  BY <1>2
<1>5. First(f, e) = w[1]  BY <1>3, <1>4 DEF First
<1> QED  BY <1>1, <1>5 DEF f, e

(* A step of a thread leaves the others where they are. *)
LEMMA StepFrame ==
  ASSUME Typed, NEW t \in Thread, Step(t)
  PROVE  \A u \in Thread : u # t => Same(u)
<1>1. CASE Start(t)  BY <1>1 DEF Typed, Start, Goto, Same
<1>2. CASE Get(t) \/ Refuse(t) \/ Insert(t) \/ Delete(t) \/ PostSeparator(t) \/ Raise(t)
  BY <1>2 DEF Typed, Get, Refuse, Insert, Delete, PostSeparator, Raise, Goto, Same
<1>3. CASE Redescend(t) \/ Return(t)
  BY <1>3 DEF Typed, Redescend, Return, Goto, Same
<1>4. CASE SplitLeaf(t) \/ SplitInter(t)
  <2>1. UNCHANGED call /\ \E p, sep : Propagate(t, p, sep)
    BY <1>4 DEF SplitLeaf, SplitInter
  <2>2. PICK p, sep : Propagate(t, p, sep)  BY <2>1
  <2> QED  BY <2>1, <2>2 DEF Typed, Propagate, Goto, Same
<1> QED  BY <1>1, <1>2, <1>3, <1>4 DEF Step

(* Nobody asks for an insert who did not before. *)
LEMMA AsksFalls ==
  ASSUME Typed, NEW t \in Thread, Step(t), NEW u \in Thread, Asks(u)'
  PROVE  Asks(u)
<1>1. CASE UNCHANGED <<todo, call>>  BY <1>1 DEF Asks, Inserts
<1>2. CASE Start(t)
  <2> DEFINE q == todo[t]
  <2>1. /\ q # <<>> /\ todo' = [todo EXCEPT ![t] = Tail(q)]
        /\ \E c \in Head(q) : call' = [call EXCEPT ![t] = c]
    BY <1>2 DEF Start
  <2>2. q \in Seq(SUBSET Calls)  BY DEF Typed
  <2>3. todo'[t] = Tail(q) /\ \A v \in Thread \ {t} : todo'[v] = todo[v]  BY <2>1 DEF Typed
  <2>4. PICK c \in Head(q) : call' = [call EXCEPT ![t] = c]  BY <2>1
  <2>5. call'[t] = c /\ \A v \in Thread \ {t} : call'[v] = call[v]  BY <2>4 DEF Typed
  <2>6. CASE u # t  BY <2>3, <2>5, <2>6 DEF Asks, Inserts
  <2>7. CASE u = t
    <3>1. (\E i \in DOMAIN todo'[t] : \E d \in todo'[t][i] : d.kind = "insert") \/ c.kind = "insert"
      BY <2>5, <2>7 DEF Asks, Inserts
    <3> HIDE DEF q
    <3>2. 1 \in DOMAIN q /\ Head(q) = q[1]  BY <2>1, <2>2
    <3>3. \A i \in DOMAIN Tail(q) : i + 1 \in DOMAIN q /\ Tail(q)[i] = q[i + 1]
      BY <2>1, <2>2
    <3>4. \E i \in DOMAIN q : \E d \in q[i] : d.kind = "insert"
      BY <2>3, <2>4, <3>1, <3>2, <3>3
    <3> QED  BY <2>7, <3>4 DEF Asks, Inserts, q
  <2> QED  BY <2>6, <2>7
<1>3. CASE Return(t)
  <2>1. todo' = todo /\ call' = [call EXCEPT ![t] = NoCall]  BY <1>3 DEF Return
  <2>2. call'[u] = call[u] \/ call'[u].kind # "insert"  BY <2>1 DEF Typed, NoCall
  <2> QED  BY <2>1, <2>2 DEF Asks, Inserts
<1>4. ASSUME ~Start(t), ~Return(t)  PROVE UNCHANGED <<todo, call>>
  BY <1>4 DEF Step, Get, Refuse, Insert, SplitLeaf, Delete, Raise, Redescend, PostSeparator,
     SplitInter
<1> QED  BY <1>1, <1>2, <1>3, <1>4

(* What a step does to the levels of the pages. *)
SameLevels == DOMAIN pages' = DOMAIN pages /\ \A q \in DOMAIN pages : pages'[q].level = pages[q].level

LEMMA WrittenLevels ==
  ASSUME NEW p \in DOMAIN pages, NEW page, page.level = pages[p].level, Write(p, page)
  PROVE  SameLevels
BY DEF SameLevels, Write

LEMMA QuietLevels ==
  ASSUME EncodeOrdered, TreeInv, NEW t \in Thread,
         Step(t), ~SplitLeaf(t), ~SplitInter(t), ~Raise(t)
  PROVE  SameLevels /\ root' = root
<1>1. CASE Start(t) \/ Get(t) \/ Refuse(t) \/ Redescend(t) \/ Return(t)
  BY <1>1 DEF Start, Get, Refuse, Redescend, Return, SameLevels
<1>2. CASE Insert(t)
  <2> DEFINE p == Leaf(t)
             k == call[t].key
             v == call[t].val
             page == LeafInsert(pages[p], k, v)
  <2>1. pc[t] = "leaf" /\ Write(p, page) /\ root' = root  BY <1>2 DEF Insert, AtLeaf, At
  <2>2. p \in DOMAIN pages /\ pages[p] \in Node  BY <2>1, LeafIs DEF NodeOK, Strings
  <2> HIDE DEF p, k, v
  <2>3. page.level = pages[p].level  BY <2>2, InsertMarks
  <2> HIDE DEF page
  <2> QED  BY <2>1, <2>2, <2>3, WrittenLevels
<1>3. CASE PostSeparator(t)
  <2> DEFINE p == Parent(t)
             k == post[t].sep
             c == post[t].child
             page == InterInsert(pages[p], k, c)
  <2>1. pc[t] = "post" /\ Write(p, page) /\ root' = root  BY <1>3 DEF PostSeparator, AtParent, At
  <2>2. p \in DOMAIN pages /\ pages[p] \in Node  BY <2>1, ParentIs DEF NodeOK, Strings
  <2> HIDE DEF p, k, c
  <2>3. page.level = pages[p].level  BY <2>2, InsertMarks
  <2> HIDE DEF page
  <2> QED  BY <2>1, <2>2, <2>3, WrittenLevels
<1>4. CASE Delete(t)
  <2> DEFINE p == Leaf(t)
             k == call[t].key
             page == LeafDelete(pages[p], k)
  <2>1. pc[t] = "leaf" /\ (Write(p, page) \/ UNCHANGED pages) /\ root' = root
    BY <1>4 DEF Delete, AtLeaf, At
  <2>2. p \in DOMAIN pages /\ pages[p] \in Node  BY <2>1, LeafIs DEF NodeOK, Strings
  <2> HIDE DEF p, k
  <2>3. page.level = pages[p].level
    <3> DEFINE old == pages[p]
    <3>1. old \in Node  BY <2>2
    <3> HIDE DEF old
    <3>2. LeafDelete(old, k).level = old.level  BY ONLY <3>1 DEF LeafDelete, Node
    <3> QED  BY <3>2 DEF old
  <2> HIDE DEF page
  <2>4. UNCHANGED pages => SameLevels  BY DEF SameLevels
  <2> QED  BY <2>1, <2>2, <2>3, <2>4, WrittenLevels
<1> QED  BY <1>1, <1>2, <1>3, <1>4 DEF Step

(* A split of page p by thread t. *)
Splits(t, p) ==
  /\ p \in DOMAIN pages /\ pages[p].level = pages[cur[t]].level
  /\ DOMAIN pages' = DOMAIN pages \cup {NewPage} /\ root' = root
  /\ \A q \in DOMAIN pages : pages'[q].level = pages[q].level
  /\ pages'[NewPage].level = pages[p].level
  /\ post'[t].child = NewPage
  /\ IF stack[t] = <<>> THEN pc'[t] = "root" /\ cur'[t] = p
     ELSE /\ pc'[t] = "post" /\ cur'[t] = Last(stack[t]) /\ stack'[t] = Front(stack[t])
          /\ stack[t] \in Seq(DOMAIN pages) /\ Last(stack[t]) \in DOMAIN pages
          /\ pages[Last(stack[t])].level = pages[p].level + 1

LEMMA SplitsIs ==
  ASSUME TreeInv, NEW t \in Thread, NEW p \in DOMAIN pages, NEW h,
         NEW j, NEW k, NEW level, pages[p].level = level,
         Arrives(pages, Lows, stack[t], cur[t], level, j),
         Reaches(pages, Lows, k, cur[t], p),
         h.left.level = level, h.right.level = level, WriteSplit(p, h),
         NEW sep, Propagate(t, p, sep), UNCHANGED root
  PROVE  Splits(t, p)
<1> DEFINE new == NewPage
           s == stack[t]
<1>0. new \notin DOMAIN pages  BY NewPageIs
<1> HIDE DEF new
<1>1. pages' = [q \in DOMAIN pages \cup {new} |->
                  IF q = new THEN h.right ELSE IF q = p THEN h.left ELSE pages[q]]
  BY DEF WriteSplit, new
<1>2. /\ DOMAIN pages' = DOMAIN pages \cup {new} /\ pages'[new].level = level
      /\ \A q \in DOMAIN pages : pages'[q].level = pages[q].level
  BY <1>0, <1>1
<1>3. pages[cur[t]].level = level /\ s \in Seq(DOMAIN pages) /\ cur[t] \in DOMAIN pages
  BY DEF Arrives
<1>4. post'[t].child = new  BY DEF Propagate, TreeInv, Typed, new
<1>5. IF s = <<>> THEN pc'[t] = "root" /\ cur'[t] = p
      ELSE pc'[t] = "post" /\ cur'[t] = Last(s) /\ stack'[t] = Front(s)
  BY DEF Propagate, Goto, TreeInv, Typed
<1>6. s # <<>> => Last(s) \in DOMAIN pages /\ pages[Last(s)].level = level + 1
  <2> SUFFICES ASSUME s # <<>>  PROVE Last(s) \in DOMAIN pages /\ pages[Last(s)].level = level + 1
    OBVIOUS
  <2> DEFINE e == cur[t]
             path == Append(s, e)
             n == Len(s)
  <2>1. Way(pages, Lows, path)  BY DEF Arrives
  <2> HIDE DEF s, e
  <2>2. Last(s) \in DOMAIN pages /\ Last(s) = s[n] /\ n \in Nat /\ n >= 1  BY <1>3, FrontLastIs
  <2>3. Len(path) = n + 1 /\ path[n + 1] = e /\ path[n] = s[n]
    <3>1. e \in DOMAIN pages  BY <1>3 DEF e
    <3> QED  BY <1>3, <2>2, <3>1
  <2> HIDE DEF path, n
  <2>4. n \in 1 .. Len(path) - 1  BY <2>2, <2>3
  <2>5. pages[path[n]].level = pages[path[n + 1]].level + 1  BY <2>1, <2>4 DEF Way
  <2> QED  BY <1>3, <2>2, <2>3, <2>5 DEF e
<1> QED  BY <1>2, <1>3, <1>4, <1>5, <1>6 DEF Splits, new

LEMMA SplitLevels ==
  ASSUME EncodeOrdered, TreeInv, NEW t \in Thread, SplitLeaf(t) \/ SplitInter(t)
  PROVE  \E p : Splits(t, p)
<1>1. CASE SplitLeaf(t)
  <2> DEFINE p == Leaf(t)
             k == call[t].key
             v == call[t].val
             h == LeafSplit(pages[p], p, NewPage, k, v)
             j == Encode(k)
             sep == Encode(h.sep)
  <2>1. /\ pc[t] = "leaf" /\ ~Found(t) /\ WriteSplit(p, h) /\ Propagate(t, p, sep)
        /\ ~LeafSplitFails(pages[p], p, NewPage, k) /\ UNCHANGED root
    BY <1>1 DEF SplitLeaf, AtLeaf, At
  <2>2. /\ p \in DOMAIN pages /\ p \in Nat /\ k \in Str /\ v \in Int /\ pages[p].level = 0
        /\ Arrives(pages, Lows, stack[t], cur[t], 0, j)
        /\ Reaches(pages, Lows, k, cur[t], p)
    BY <2>1, LeafIs
  <2>3. NewHere(pages[p], Lows[p], k)  BY <2>1, LeafNew
  <2>4. NewPage \in Nat  BY NewPageIs
  <2> HIDE DEF p, k, v
  <2>5. h.left.level = 0 /\ h.right.level = 0
    BY <2>1, <2>2, <2>3, <2>4, LeafSplitIs DEF LeafSplitFails, SplitFails, SplitInto
  <2> HIDE DEF h, j, sep
  <2>6. Splits(t, p)  BY <2>1, <2>2, <2>5, SplitsIs
  <2> QED  BY <2>6
<1>2. CASE SplitInter(t)
  <2> DEFINE p == Parent(t)
             k == post[t].sep
             c == post[t].child
             h == InterSplit(pages[p], p, NewPage, k, c)
             level == pages[p].level
             sep == h.sep
  <2>1. /\ pc[t] = "post" /\ WriteSplit(p, h) /\ Propagate(t, p, sep)
        /\ ~NoSplitPoint(pages[p]) /\ UNCHANGED root
    BY <1>2 DEF SplitInter, AtParent, At, InterSplitFails, SplitFails
  <2>2. /\ p \in DOMAIN pages /\ p \in Nat /\ k \in Str /\ c \in Int
        /\ NewHere(pages[p], Lows[p], k)
        /\ level = pages[c].level + 1 /\ pages[c].level \in Nat
        /\ Arrives(pages, Lows, stack[t], cur[t], level, k)
        /\ Reaches(pages, Lows, k, cur[t], p)
    BY <2>1, ParentIs
  <2>3. NewPage \in Nat /\ pages[p].level # 0  BY <2>2, NewPageIs
  <2> HIDE DEF p, k, c
  <2>4. h.left.level = level /\ h.right.level = level
    BY <2>1, <2>2, <2>3, InterSplitIs DEF SplitInto
  <2> HIDE DEF h, sep
  <2>5. pages[p].level = level  OBVIOUS
  <2> HIDE DEF level
  <2>6. Splits(t, p)  BY <2>1, <2>2, <2>4, <2>5, SplitsIs
  <2> QED  BY <2>6
<1> QED  BY <1>1, <1>2

(* A descent starts on the level of the root. *)
LEMMA StartRooted ==
  ASSUME TreeInv, NEW t \in Thread, Start(t)
  PROVE  pc'[t] = "leaf" /\ AtTop(First(stack'[t], cur'[t]))
<1>0. Tree(pages, root, Lows)  BY DEF TreeInv, Lows
<1>1. PICK c \in Head(todo[t]) :
        LET path == Descent(Encode(c.key), 0) IN
        cur' = [cur EXCEPT ![t] = Last(path)] /\ stack' = [stack EXCEPT ![t] = Front(path)]
  BY DEF Start
<1>2. /\ pc' = [pc EXCEPT ![t] = "leaf"] /\ todo[t] # <<>>  BY DEF Start, Goto
<1>3. todo[t] \in Seq(SUBSET Calls)  BY DEF TreeInv, Typed
<1>4. c \in Calls /\ c.key \in Key
  <2>1. Head(todo[t]) \in SUBSET Calls  BY <1>2, <1>3
  <2> QED  BY <2>1 DEF Calls
<1> DEFINE k == Encode(c.key)
           path == Descent(k, 0)
<1>5. k \in Str  BY <1>4, KeysAreStrings
<1>6. cur'[t] = Last(path) /\ stack'[t] = Front(path) /\ pc'[t] = "leaf"
  BY <1>1, <1>2 DEF TreeInv, Typed
<1>7. path = DescentsOf(pages, k, 0)[root]  BY SearchesAre DEF Descent
<1> HIDE DEF path, k
<1>8. root \in DOMAIN pages /\ ~Below(k, Fence(pages, Lows, root)) /\ pages[root].level >= 0
  <2>1. root \in DOMAIN pages /\ Fence(pages, Lows, root) = <<>>  BY <1>0, RootIsFirst
  <2>2. pages[root].level \in Nat  BY <1>0, <2>1, TreePage
  <2> QED  BY <1>5, <2>1, <2>2, EmptyFirst
<1>9. Goes(pages, Lows, k, 0, root, path)  BY <1>0, <1>5, <1>7, <1>8, DescentIs
<1>10. path \in Seq(DOMAIN pages) /\ path # <<>> /\ pages[path[1]].level = pages[root].level
  BY <1>9 DEF Goes, Way
<1>11. First(Front(path), Last(path)) = path[1]  BY <1>10, FrontFirst
<1>12. path[1] \in DOMAIN pages  BY <1>10
<1> QED  BY <1>6, <1>10, <1>11, <1>12 DEF AtTop

LEMMA SoleStart ==
  ASSUME OneInserter, Init
  PROVE  Sole
<1>1. 1 \in DOMAIN Workload  BY WorkloadAssumption
<1>2. /\ todo = Workload[1] /\ pages = [p \in {0} |-> NewNode(0, <<>>, 0)] /\ root = 0
      /\ \A t \in Thread : call[t] = NoCall /\ pc[t] = "idle"
  BY DEF Init
<1>3. \A t \in Thread : call[t].kind # "insert"  BY <1>2 DEF NoCall
<1>4. Alone  BY <1>1, <1>2, <1>3 DEF OneInserter, Alone, Asks
<1>5. OneTop  BY <1>2 DEF OneTop, AtTop
<1> QED  BY <1>2, <1>3, <1>4, <1>5 DEF Sole, Owed, Owing

(* The one inserter does not go down twice. *)
LEMMA SoleStays ==
  ASSUME Sole, NEW t \in Thread
  PROVE  ~Redescend(t)
BY DEF Sole, Owed, Owing, Rooted, Redescend, At

(* While it is at a leaf or at a parent, the root is alone on its level. *)
LEMMA RootAlone ==
  ASSUME Sole, NEW t \in Thread, call[t].kind = "insert", pc[t] # "root",
         NEW p, AtTop(p)
  PROVE  p = root
<1> SUFFICES ASSUME p # root  PROVE FALSE  OBVIOUS
<1>1. PICK u \in Thread : pc[u] = "root"  BY DEF Sole, OneTop
<1>2. Asks(u) /\ Asks(t)  BY <1>1 DEF Sole, Owed, Owing, Asks
<1> QED  BY <1>1, <1>2 DEF Sole, Alone

LEMMA SoleQuiet ==
  ASSUME EncodeOrdered, TreeInv, Sole, NEW t \in Thread,
         Step(t), ~SplitLeaf(t), ~SplitInter(t), ~Raise(t)
  PROVE  /\ OneTop' /\ Owed(t)' /\ (call'[t].kind = "insert" => Rooted(t)')
         /\ \A p : AtTop(p) => AtTop(p)'
<1>1. SameLevels /\ root' = root /\ root \in DOMAIN pages
  <2>1. Tree(pages, root, Lows)  BY DEF TreeInv, Lows
  <2> QED  BY <2>1, QuietLevels, RootIsFirst
<1>2. \A p : AtTop(p) <=> AtTop(p)'  BY <1>1 DEF AtTop, SameLevels
<1>3. pc[t] # "root"
  BY SoleStays DEF Step, Start, Get, Refuse, Insert, Delete, PostSeparator, Return,
     AtLeaf, AtParent, At
<1>4. OneTop'
  <2> SUFFICES ASSUME NEW p, AtTop(p)', p # root
               PROVE  \E u \in Thread : pc'[u] = "root" /\ p = post'[u].child
    BY <1>1 DEF OneTop
  <2>1. PICK u \in Thread : pc[u] = "root" /\ p = post[u].child  BY <1>2 DEF Sole, OneTop
  <2>2. Same(u)  BY <1>3, <2>1, StepFrame DEF TreeInv
  <2> QED  BY <2>1, <2>2 DEF Same
<1>5. CASE Start(t)
  <2>1. pc'[t] = "leaf" /\ AtTop(First(stack'[t], cur'[t]))  BY <1>5, StartRooted
  <2> QED  BY <1>2, <1>4, <2>1 DEF Owed, Owing, Rooted
<1>6. CASE ~Start(t)
  <2>1. Goto(t, "return") \/ (Goto(t, "idle") /\ call' = [call EXCEPT ![t] = NoCall])
    BY <1>6, SoleStays DEF Step, Get, Refuse, Insert, Delete, PostSeparator, Return
  <2>2. pc'[t] \in {"idle", "return"} /\ (pc'[t] = "idle" => call'[t].kind # "insert")
    BY <2>1 DEF Goto, TreeInv, Typed, NoCall
  <2> QED  BY <1>2, <1>4, <2>2 DEF Owed, Owing, Rooted
<1> QED  BY <1>5, <1>6

LEMMA SoleSplit ==
  ASSUME EncodeOrdered, TreeInv, Sole, NEW t \in Thread, SplitLeaf(t) \/ SplitInter(t)
  PROVE  /\ OneTop' /\ Owed(t)' /\ Rooted(t)'
         /\ \A p : AtTop(p) => AtTop(p)'
<1>0. Tree(pages, root, Lows)  BY DEF TreeInv, Lows
<1>1. root \in DOMAIN pages  BY <1>0, RootIsFirst
<1>2. PICK p : Splits(t, p)  BY SplitLevels
<1>3. pc[t] \in {"leaf", "post"} /\ call' = call
  BY DEF SplitLeaf, SplitInter, AtLeaf, AtParent, At
<1>4. call[t].kind = "insert" /\ call'[t].kind = "insert"
  <2>1. CASE SplitLeaf(t)  BY <1>3, <2>1 DEF SplitLeaf, AtLeaf
  <2>2. CASE SplitInter(t)
    <3>1. Owing(t)  BY <2>2 DEF SplitInter, AtParent, At, Owing
    <3> QED  BY <1>3, <3>1 DEF Sole, Owed
  <2> QED  BY <2>1, <2>2
<1>5. \A q : AtTop(q) => AtTop(q)'  BY <1>1, <1>2 DEF AtTop, Splits
<1>6. \A q : AtTop(q)' => q = root \/ (q = NewPage /\ pages[p].level = pages[root].level)
  <2> SUFFICES ASSUME NEW q, AtTop(q)', q # root
               PROVE  q = NewPage /\ pages[p].level = pages[root].level
    OBVIOUS
  <2>1. q \in DOMAIN pages \cup {NewPage} /\ pages'[q].level = pages[root].level
    BY <1>1, <1>2 DEF AtTop, Splits
  <2>2. q \notin DOMAIN pages
    <3> SUFFICES ASSUME q \in DOMAIN pages  PROVE FALSE  OBVIOUS
    <3>1. AtTop(q)  BY <1>2, <2>1 DEF AtTop, Splits
    <3> QED  BY <1>3, <1>4, <3>1, RootAlone
  <2> QED  BY <1>2, <2>1, <2>2 DEF Splits
<1>7. AtTop(First(stack[t], cur[t]))  BY <1>3, <1>4 DEF Sole, Rooted
<1>8. CASE stack[t] = <<>>
  <2>1. pc'[t] = "root" /\ cur'[t] = p /\ post'[t].child = NewPage /\ root' = root
    BY <1>2, <1>8 DEF Splits
  <2>2. AtTop(p)  BY <1>2, <1>7, <1>8 DEF Splits, AtTop, First
  <2>3. p = root  BY <1>3, <1>4, <2>2, RootAlone
  <2>4. OneTop'  BY <1>6, <2>1 DEF OneTop
  <2> QED  BY <1>4, <1>5, <2>1, <2>3, <2>4 DEF Owed, Rooted
<1>9. CASE stack[t] # <<>>
  <2> DEFINE s == stack[t]
  <2>1. /\ pc'[t] = "post" /\ cur'[t] = Last(s) /\ stack'[t] = Front(s) /\ root' = root
        /\ s \in Seq(DOMAIN pages) /\ Last(s) \in DOMAIN pages
        /\ pages[Last(s)].level = pages[p].level + 1 /\ p \in DOMAIN pages
    BY <1>2, <1>9 DEF Splits
  <2>2. First(Front(s), Last(s)) = First(s, cur[t])
    <3>1. s # <<>>  BY <1>9
    <3> HIDE DEF s
    <3>2. First(Front(s), Last(s)) = s[1]  BY <2>1, <3>1, FrontFirst
    <3> QED  BY <3>1, <3>2 DEF First
  <2>3. pages[p].level # pages[root].level
    <3>1. pages[Last(s)].level <= pages[root].level  BY <1>0, <2>1 DEF Tree, Topped
    <3>2. pages[p].level \in Nat /\ pages[root].level \in Nat  BY <1>0, <1>1, <2>1, TreePage
    <3> HIDE DEF s
    <3> QED  BY <2>1, <3>1, <3>2
  <2>4. OneTop'  BY <1>6, <2>1, <2>3 DEF OneTop
  <2>5. pages'[First(stack'[t], cur'[t])].level = pages'[root'].level
        /\ First(stack'[t], cur'[t]) \in DOMAIN pages'
    BY <1>5, <1>7, <2>1, <2>2 DEF AtTop
  <2> QED  BY <1>4, <1>5, <2>1, <2>4, <2>5 DEF Owed, Rooted, AtTop
<1> QED  BY <1>8, <1>9

LEMMA SoleRaise ==
  ASSUME EncodeOrdered, TreeInv, Sole, NEW t \in Thread, Raise(t)
  PROVE  OneTop' /\ Owed(t)' /\ Rooted(t)'
<1> DEFINE new == NewPage
           node == RootNode(pages[cur[t]].level, post[t].sep, cur[t], post[t].child)
<1>0. Tree(pages, root, Lows)  BY DEF TreeInv, Lows
<1>1. root \in DOMAIN pages  BY <1>0, RootIsFirst
<1>2. /\ pages' = [p \in DOMAIN pages \cup {new} |-> IF p = new THEN node ELSE pages[p]]
      /\ root' = new /\ root = cur[t] /\ pc' = [pc EXCEPT ![t] = "return"]
  BY DEF Raise, Goto
<1>3. node.level = pages[root].level + 1  BY <1>2 DEF RootNode, NewNode
<1>4. new \notin DOMAIN pages  BY NewPageIs
<1> HIDE DEF node, new
<1>5. OneTop'
  <2> SUFFICES ASSUME NEW p, AtTop(p)'  PROVE p = root'  BY DEF OneTop
  <2>1. p \in DOMAIN pages \cup {new} /\ pages'[p].level = pages[root].level + 1
    BY <1>2, <1>3 DEF AtTop
  <2>2. p \notin DOMAIN pages
    <3> SUFFICES ASSUME p \in DOMAIN pages  PROVE FALSE  OBVIOUS
    <3>1. pages[p].level = pages[root].level + 1  BY <1>2, <1>4, <2>1
    <3>2. pages[p].level <= pages[root].level  BY <1>0 DEF Tree, Topped
    <3>3. pages[p].level \in Nat /\ pages[root].level \in Nat  BY <1>0, <1>1, TreePage
    <3> QED  BY <3>1, <3>2, <3>3
  <2> QED  BY <1>2, <2>1, <2>2
<1>6. pc'[t] = "return"  BY <1>2 DEF TreeInv, Typed
<1> QED  BY <1>5, <1>6 DEF Owed, Owing, Rooted

LEMMA SoleStep ==
  ASSUME EncodeOrdered, OneInserter, TreeInv, Sole, [Next]_vars
  PROVE  Sole'
<1>0. Typed  BY DEF TreeInv
<1>1. CASE UNCHANGED vars \/ Ended
  BY <1>1 DEF vars, Ended, Sole, Alone, OneTop, AtTop, Asks, Inserts, Owed, Owing, Rooted
<1>2. CASE NextRound
  <2>1. round + 1 \in DOMAIN Workload
    <3>1. Len(Workload) \in Nat /\ DOMAIN Workload = 1 .. Len(Workload)
      BY WorkloadAssumption
    <3>2. round \in 1 .. Len(Workload) /\ round < Len(Workload)  BY <1>0, <1>2 DEF Typed, NextRound
    <3> QED  BY <3>1, <3>2
  <2>2. /\ todo' = Workload[round + 1] /\ \A t \in Thread : pc[t] = "idle"
        /\ UNCHANGED <<pages, root, pc, call, cur, stack, post>>
    BY <1>2 DEF NextRound, RoundDone
  <2>3. \A t \in Thread : call'[t].kind # "insert"  BY <2>2 DEF Sole, Owed
  <2>4. Alone'  BY <2>1, <2>2, <2>3 DEF OneInserter, Alone, Asks
  <2>5. OneTop'  BY <2>2 DEF Sole, OneTop, AtTop
  <2>6. \A t \in Thread : Owed(t)'  BY <2>2 DEF Sole, Owed, Owing
  <2> QED  BY <2>3, <2>4, <2>5, <2>6 DEF Sole
<1>3. ASSUME NEW t \in Thread, Step(t)  PROVE Sole'
  <2>1. Alone'  BY <1>0, <1>3, AsksFalls DEF Sole, Alone
  <2>2. \A u \in Thread : u # t => Same(u)  BY <1>0, <1>3, StepFrame
  <2>3. \A u \in Thread : u # t => Owed(u)'  BY <2>2 DEF Sole, Owed, Owing, Same
  <2>4. ASSUME \A p : AtTop(p) => AtTop(p)', root' = root,
               NEW u \in Thread, u # t, call'[u].kind = "insert"
        PROVE  Rooted(u)'
    <3>1. Same(u) /\ Rooted(u)  BY <2>2, <2>4 DEF Sole, Same
    <3> QED  BY <2>4, <3>1 DEF Rooted, Same
  <2>5. CASE ~SplitLeaf(t) /\ ~SplitInter(t) /\ ~Raise(t)
    <3>1. root' = root  BY <1>3, <2>5, QuietLevels
    <3> QED  BY <1>3, <2>1, <2>3, <2>4, <2>5, <3>1, SoleQuiet DEF Sole
  <2>6. CASE SplitLeaf(t) \/ SplitInter(t)
    <3>1. root' = root  BY <2>6 DEF SplitLeaf, SplitInter
    <3> QED  BY <2>1, <2>3, <2>4, <2>6, <3>1, SoleSplit DEF Sole
  <2>7. CASE Raise(t)
    <3>1. call'[t].kind = "insert" /\ UNCHANGED <<call, todo>>
      BY <2>7 DEF Raise, At, Sole, Owed, Owing
    <3>2. \A u \in Thread : u # t => call'[u].kind # "insert"
      BY <2>1, <3>1 DEF Alone, Asks
    <3> QED  BY <2>1, <2>3, <2>7, <3>2, SoleRaise DEF Sole
  <2> QED  BY <2>5, <2>6, <2>7
<1> QED  BY <1>1, <1>2, <1>3 DEF Next

LEMMA SoleHigh == Sole => RedescentHigh
BY SoleStays DEF RedescentHigh

(* With one inserter a round, no second descent ever happens. *)
THEOREM OneInserterHigh ==
  ASSUME EncodeOrdered, OneInserter
  PROVE  Spec /\ []FencesStay => [][RedescentHigh]_vars
<1>1. Init => TreeInv /\ Sole  BY TreeStart, SoleStart
<1>2. TreeInv /\ Sole /\ FencesStay /\ [Next]_vars => TreeInv' /\ Sole'
  BY TreeStep, SoleStep, SoleHigh
<1>3. Sole => RedescentHigh  BY SoleHigh
<1> QED  BY <1>1, <1>2, <1>3, PTL DEF Spec

(* One inserter and any number of threads that look up and delete: the     *)
(* tree is linearizable as long as no Delete takes a lower fence out.      *)
THEOREM OneInserterLinearizes ==
  ASSUME EncodeOrdered, OneInserter
  PROVE  Spec /\ []FencesStay => Linearizable
BY OneInserterHigh, Linearizes, PTL

LEMMA FencesStayThen ==
  ASSUME EncodeOrdered, NoDeletes, OneInserter
  PROVE  Spec => []FencesStay
<1>1. Init => TreeInv /\ Harmless /\ Sole  BY TreeStart, HarmlessStart, SoleStart
<1>2. TreeInv /\ Harmless /\ Sole /\ [Next]_vars => TreeInv' /\ Harmless' /\ Sole'
  BY HarmlessThen, TreeStep, HarmlessStep, SoleStep, SoleHigh DEF TreeInv
<1>3. Harmless => FencesStay  BY HarmlessThen
<1> QED  BY <1>1, <1>2, <1>3, PTL DEF Spec

(* With one inserter a round and no deletes nothing is asked of the        *)
(* behaviours: the tree is linearizable under every such workload.         *)
THEOREM InsertsLinearize ==
  ASSUME EncodeOrdered, NoDeletes, OneInserter
  PROVE  Spec => Linearizable
BY FencesStayThen, OneInserterLinearizes, PTL

(* Then prefixes, fences and separators agree and every heap is accounted  *)
(* for.                                                                    *)
THEOREM InsertsKeepShape ==
  ASSUME EncodeOrdered, NoDeletes, OneInserter
  PROVE  Spec => [](PrefixesShared /\ FencesPartition /\ SeparatorsMeetFences /\ HeapAccounted)
BY FencesStayThen, OneInserterHigh, PrefixesAlwaysShared, FencesAlwaysPartition,
   SeparatorsAlwaysMeet, HeapAlwaysAccounted, PTL

(* And with keys that are short against the page and share their first     *)
(* encoded byte, no assertion ever fails, whatever is inserted and in      *)
(* whatever order.                                                         *)
THEOREM InsertsSucceed ==
  ASSUME EncodeOrdered, CodesShare, NoDeletes, OneInserter, NEW max, KeysFit(max)
  PROVE  Spec => []AssertionsHold
BY FencesStayThen, OneInserterHigh, AssertionsAlwaysHold, PTL
=============================================================================
