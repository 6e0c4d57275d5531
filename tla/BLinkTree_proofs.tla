-------------------------- MODULE BLinkTree_proofs --------------------------
(***************************************************************************)
(* What holds of BLinkTree for any threads, workload, capacities and keys, *)
(* in three parts: the types, the order on each page and the separators on *)
(* their way up; the fences, which no thread is ever to the right of; and  *)
(* the shape of the tree with the map it refines.                          *)
(***************************************************************************)
EXTENDS BLinkTreeProps, FixedNode_proofs, FiniteSetTheorems

-----------------------------------------------------------------------------
(***************************************************************************)
(* The first inductive invariant is TypeOK with the shape of every page    *)
(* and with the level of the page a thread is at; it says nothing of where *)
(* keys are or separators go, and so holds whatever page a separator is    *)
(* posted to.                                                              *)
(***************************************************************************)

PagesOK ==
  \A p \in Reserved :
    /\ NodeOK(pages[p], nextFree)
    /\ pages[p].rlink # NoPage => pages[pages[p].rlink].level = pages[p].level

(* The leaf operations are done at leaves, and the second DropToLevel      *)
(* knows its level.                                                        *)
Standing ==
  \A t \in Thread :
    /\ pc[t] \in {"latchRead", "read", "latchWrite", "write"} =>
         pages[cur[t]].level = 0
    /\ pc[t] = "redescend" => level[t] = pages[cur[t]].level

IInv == TypeOK /\ PagesOK /\ Standing

-----------------------------------------------------------------------------
(* What steps do to the pages. *)

PagesType == nextFree \in Nat \ {0} /\ pages \in [Reserved -> Node]

PagesStep == PagesType' /\ PagesOK' /\ \A p \in Reserved : KeptOrSplit(p)

LEMMA PagesUnchanged ==
  ASSUME PagesType, PagesOK, UNCHANGED <<pages, nextFree>>
  PROVE  PagesStep
<1>1. PagesType' /\ PagesOK'
  BY DEF PagesType, PagesOK, Reserved, NodeOK
<1> QED  BY <1>1 DEF PagesStep, PagesType, KeptOrSplit, Reserved

LEMMA PagesWritten ==
  ASSUME PagesType, PagesOK,
         NEW t \in Thread, cur[t] \in Reserved, NEW node, Write(t, node),
         NodeOK(node, nextFree),
         node.level = pages[cur[t]].level,
         node.high = pages[cur[t]].high,
         node.rlink = pages[cur[t]].rlink
  PROVE  PagesStep
<1>1. nextFree' = nextFree /\ Reserved' = Reserved
  BY DEF Write, Reserved
<1>2. /\ pages' \in [Reserved -> Node]
      /\ \A p \in Reserved : pages'[p] = IF p = cur[t] THEN node ELSE pages[p]
  BY DEF Write, PagesType, NodeOK
<1>3. \A p \in Reserved : /\ NodeOK(pages'[p], nextFree)
                          /\ pages'[p].level = pages[p].level
                          /\ pages'[p].rlink = pages[p].rlink
                          /\ pages'[p].high = pages[p].high
  BY <1>2 DEF PagesOK
<1>4. \A p \in Reserved : pages[p].rlink # NoPage => pages[p].rlink \in Reserved
  BY DEF PagesOK, NodeOK, Reserved
<1>5. PagesOK'
  BY <1>1, <1>3, <1>4 DEF PagesOK
<1> QED  BY <1>1, <1>2, <1>3, <1>5 DEF PagesStep, PagesType, KeptOrSplit

LEMMA PagesReserved ==
  ASSUME PagesType, PagesOK,
         NEW node, Reserve(node),
         NodeOK(node, nextFree + 1), node.rlink = NoPage
  PROVE  PagesStep /\ nextFree \in Reserved'
<1>1. /\ nextFree \in Nat /\ nextFree' = nextFree + 1 /\ nextFree' \in Nat \ {0}
      /\ Reserved' = 0 .. nextFree
      /\ nextFree \notin Reserved /\ nextFree \in Reserved'
      /\ \A p \in Reserved : p \in Reserved' /\ p # nextFree
      /\ \A p \in Reserved' : p = nextFree \/ p \in Reserved
  BY DEF Reserve, Reserved, PagesType
<1>2. /\ pages' = [p \in Reserved' |-> IF p = nextFree THEN node ELSE pages[p]]
      /\ \A p \in Reserved' : pages'[p] = IF p = nextFree THEN node ELSE pages[p]
      /\ DOMAIN pages' = Reserved'
  BY <1>1 DEF Reserve
<1>3. \A p \in Reserved : pages[p].rlink # NoPage => pages[p].rlink \in Reserved
  BY DEF PagesOK, NodeOK, Reserved
<1>4. node \in Node /\ \A p \in Reserved : pages[p] \in Node
  BY DEF NodeOK, PagesType
<1>5. PagesType'
  BY <1>1, <1>2, <1>4 DEF PagesType
<1>6. ASSUME NEW p \in Reserved'
      PROVE  /\ NodeOK(pages'[p], nextFree')
             /\ pages'[p].rlink # NoPage => pages'[pages'[p].rlink].level = pages'[p].level
  <2>1. CASE p = nextFree
    BY <1>1, <1>2, <2>1
  <2>2. CASE p # nextFree
    <3>1. p \in Reserved /\ pages'[p] = pages[p]
      BY <1>1, <1>2, <2>2
    <3>2. NodeOK(pages[p], nextFree + 1)
      BY <1>1, <3>1, NodeOKGrows DEF PagesOK
    <3>3. pages[p].rlink # NoPage => pages'[pages[p].rlink] = pages[pages[p].rlink]
      BY <1>1, <1>2, <1>3, <3>1
    <3> QED  BY <1>1, <3>1, <3>2, <3>3 DEF PagesOK
  <2> QED  BY <2>1, <2>2
<1>7. \A p \in Reserved : pages'[p] = pages[p] /\ p \in DOMAIN pages'
  BY <1>1, <1>2
<1>8. PagesOK'
  BY <1>6 DEF PagesOK
<1> QED  BY <1>1, <1>5, <1>7, <1>8 DEF PagesStep, KeptOrSplit

LEMMA PagesSplit ==
  ASSUME PagesType, PagesOK,
         NEW t \in Thread, cur[t] \in Reserved, NEW halves, WriteSplit(t, halves),
         SplitOK(pages[cur[t]], halves, nextFree)
  PROVE  PagesStep /\ nextFree \in Reserved'
<1>1. /\ nextFree \in Nat /\ nextFree' = nextFree + 1 /\ nextFree' \in Nat \ {0}
      /\ Reserved' = 0 .. nextFree
      /\ nextFree \notin Reserved /\ nextFree \in Reserved'
      /\ \A p \in Reserved : p \in Reserved' /\ p # nextFree /\ p # NoPage
      /\ \A p \in Reserved' : p = nextFree \/ p \in Reserved
  BY DEF WriteSplit, Reserved, PagesType, NoPage
<1> DEFINE F(p) == IF p = nextFree THEN halves.right
                   ELSE IF p = cur[t] THEN halves.left ELSE pages[p]
           old == pages[cur[t]]
<1>2. /\ pages' = [p \in Reserved' |-> F(p)]
      /\ \A p \in Reserved' : pages'[p] = F(p)
      /\ DOMAIN pages' = Reserved'
  BY <1>1 DEF WriteSplit
<1>3. \A p \in Reserved : pages[p].rlink # NoPage => pages[p].rlink \in Reserved
  BY DEF PagesOK, NodeOK, Reserved
<1>4. /\ halves.left \in Node /\ halves.right \in Node
      /\ \A p \in Reserved : pages[p] \in Node
      /\ NodeOK(halves.left, nextFree') /\ NodeOK(halves.right, nextFree')
      /\ halves.left.level = old.level /\ halves.right.level = old.level
      /\ halves.left.high <= old.high /\ halves.right.high = old.high
      /\ halves.left.rlink = nextFree /\ halves.right.rlink = old.rlink
  BY <1>1 DEF NodeOK, PagesType, SplitOK
<1>5. /\ pages'[nextFree] = halves.right
      /\ pages'[cur[t]] = halves.left
      /\ \A p \in Reserved : p # cur[t] => pages'[p] = pages[p]
  BY <1>1, <1>2
<1>6. PagesType'
  BY <1>1, <1>2, <1>4 DEF PagesType
<1>7. \A p \in Reserved : pages'[p].level = pages[p].level
  BY <1>4, <1>5
<1>8. ASSUME NEW p \in Reserved'
      PROVE  /\ NodeOK(pages'[p], nextFree')
             /\ pages'[p].rlink # NoPage => pages'[pages'[p].rlink].level = pages'[p].level
  <2>1. CASE p = nextFree
    <3>1. old.rlink # NoPage =>
            old.rlink \in Reserved /\ pages[old.rlink].level = old.level
      BY <1>3 DEF PagesOK
    <3> QED  BY <1>4, <1>5, <1>7, <2>1, <3>1
  <2>2. CASE p = cur[t]
    BY <1>4, <1>5, <2>2
  <2>3. CASE p # nextFree /\ p # cur[t]
    <3>1. p \in Reserved /\ pages'[p] = pages[p]
      BY <1>1, <1>5, <2>3
    <3>2. NodeOK(pages[p], nextFree + 1)
      BY <1>1, <3>1, NodeOKGrows DEF PagesOK
    <3>3. pages[p].rlink # NoPage =>
            /\ pages[p].rlink \in Reserved
            /\ pages[pages[p].rlink].level = pages[p].level
      BY <1>3, <3>1 DEF PagesOK
    <3> QED  BY <1>1, <1>7, <3>1, <3>2, <3>3
  <2> QED  BY <2>1, <2>2, <2>3
<1>9. ASSUME NEW p \in Reserved PROVE KeptOrSplit(p)
  <2>1. CASE p = cur[t]
    <3>1. old.rlink # nextFree
      BY <1>1, <1>3, <2>1 DEF NoPage
    <3> QED  BY <1>1, <1>2, <1>4, <1>5, <2>1, <3>1 DEF KeptOrSplit
  <2>2. CASE p # cur[t]
    BY <1>1, <1>2, <1>5, <2>2 DEF KeptOrSplit
  <2> QED  BY <2>1, <2>2
<1>10. PagesOK'
  BY <1>8 DEF PagesOK
<1> QED  BY <1>1, <1>6, <1>9, <1>10 DEF PagesStep

-----------------------------------------------------------------------------
(* What steps do to the threads. *)

ThreadTypes ==
  /\ pc \in [Thread -> PC]
  /\ todo \in [Thread -> Seq(SUBSET Calls)]
  /\ call \in [Thread -> Calls \cup {NoCall}]
  /\ cur \in [Thread -> Reserved \cup {NoPage}]
  /\ stack \in [Thread -> Seq(Reserved)]
  /\ sep \in [Thread -> Key]
  /\ child \in [Thread -> Reserved \cup {NoPage}]
  /\ level \in [Thread -> Nat]
  /\ drop \in [Thread -> Nat]
  /\ answer \in [Thread -> [ok : BOOLEAN, val : Nat \cup {NoPage}]]

ThreadOK(t) ==
  /\ pc[t] # "idle" => call[t] \in Calls /\ cur[t] \in Reserved
  /\ Len(stack[t]) <= StackSize
  /\ t \in Owing => child[t] \in Reserved
  /\ pc[t] \in {"latchRead", "read", "latchWrite", "write"} =>
       pages[cur[t]].level = 0
  /\ pc[t] = "redescend" => level[t] = pages[cur[t]].level

SharedOK == PagesType /\ PagesOK /\ root \in Reserved /\ aborted \in BOOLEAN

LEMMA Parts == IInv <=> SharedOK /\ ThreadTypes /\ \A t \in Thread : ThreadOK(t)
BY DEF IInv, TypeOK, Standing, PagesType, SharedOK, ThreadTypes, ThreadOK

Alone(t) ==
  \A u \in Thread \ {t} :
    /\ pc'[u] = pc[u] /\ call'[u] = call[u] /\ cur'[u] = cur[u]
    /\ stack'[u] = stack[u] /\ child'[u] = child[u] /\ level'[u] = level[u]

LEMMA ReservedGrows ==
  ASSUME PagesStep
  PROVE  /\ Reserved \subseteq Reserved'
         /\ \A p \in Reserved : pages'[p].level = pages[p].level
<1>1. DOMAIN pages' = Reserved'
  BY DEF PagesStep, PagesType
<1> QED  BY <1>1 DEF PagesStep, KeptOrSplit

(* A step of one thread leaves the others as they were. *)
LEMMA OthersKept ==
  ASSUME \A u \in Thread : ThreadOK(u), PagesStep, NEW t \in Thread, Alone(t),
         NEW u \in Thread, u # t
  PROVE  ThreadOK(u)'
<1>1. /\ pc'[u] = pc[u] /\ call'[u] = call[u] /\ cur'[u] = cur[u]
      /\ stack'[u] = stack[u] /\ child'[u] = child[u] /\ level'[u] = level[u]
  BY DEF Alone
<1>2. (u \in Owing)' <=> u \in Owing
  BY <1>1 DEF Owing
<1>3. pc[u] # "idle" =>
        cur[u] \in Reserved /\ pages'[cur[u]].level = pages[cur[u]].level
  BY ReservedGrows DEF ThreadOK
<1> QED  BY <1>1, <1>2, <1>3, ReservedGrows DEF ThreadOK

LEMMA StepAssembled ==
  ASSUME IInv, NEW t \in Thread, PagesStep, root' \in Reserved', aborted' \in BOOLEAN,
         ThreadTypes', Alone(t), ThreadOK(t)'
  PROVE  IInv'
<1>1. \A u \in Thread : ThreadOK(u)
  BY Parts
<1>2. \A u \in Thread : ThreadOK(u)'
  BY <1>1, OthersKept
<1>3. SharedOK'
  BY DEF SharedOK, PagesStep
<1> QED
  BY <1>2, <1>3
  DEF IInv, TypeOK, Standing, PagesType, SharedOK, ThreadTypes, ThreadOK

LEMMA SharedKept ==
  ASSUME IInv, UNCHANGED <<pages, nextFree, root>>
  PROVE  /\ PagesStep /\ root' \in Reserved'
         /\ Reserved' = Reserved /\ pages' = pages
<1>1. SharedOK
  BY Parts
<1> QED  BY <1>1, PagesUnchanged DEF SharedOK, Reserved

-----------------------------------------------------------------------------
LEMMA Initially == Init => IInv
<1> SUFFICES ASSUME Init PROVE IInv
  OBVIOUS
<1>1. /\ nextFree = 1 /\ Reserved = {0} /\ root = 0 /\ aborted = FALSE
      /\ pages = [p \in {0} |-> NewNode(0, <<>>, <<>>)]
  BY DEF Init, Reserved
<1>2. SharedOK
  <2>1. /\ pages[0] = NewNode(0, <<>>, <<>>) /\ NodeOK(pages[0], nextFree)
        /\ pages[0].rlink = NoPage /\ pages[0] \in Node
    BY <1>1, EmptyLeafOK DEF NodeOK
  <2>2. PagesType
    BY <1>1, <2>1 DEF PagesType
  <2>3. PagesOK
    BY <1>1, <2>1 DEF PagesOK
  <2> QED  BY <1>1, <2>2, <2>3 DEF SharedOK
<1>3. ThreadTypes
  <2>1. 0 \in Key /\ NoAnswer \in [ok : BOOLEAN, val : Nat \cup {NoPage}]
    BY CapacityAssumption DEF Key, NoAnswer
  <2> QED  BY <2>1, WorkloadAssumption DEF Init, ThreadTypes, PC, LatchPC, SharedPC, ExclusivePC
<1>4. ASSUME NEW t \in Thread PROVE ThreadOK(t)
  <2>1. pc[t] = "idle" /\ stack[t] = <<>>
    BY DEF Init
  <2> QED  BY <2>1 DEF ThreadOK, Owing, StackSize
<1> QED  BY <1>2, <1>3, <1>4, Parts

(* Taking a latch. *)
LEMMA LatchOK ==
  ASSUME IInv, NEW t \in Thread, NEW from, NEW to \in PC,
         LatchShared(t, from, to) \/ LatchExclusive(t, from, to),
         <<from, to>> \in {<<"latchDescend", "descend">>, <<"latchRead", "read">>,
                           <<"latchWrite", "write">>, <<"latchPost", "post">>}
  PROVE  IInv' /\ PagesStep
<1>1. /\ pc[t] = from /\ pc' = [pc EXCEPT ![t] = to]
      /\ UNCHANGED <<pages, nextFree, root, aborted, todo, call, cur, stack,
                     sep, child, level, drop, answer>>
  BY DEF LatchShared, LatchExclusive, At, Goto, shared, carry
<1>2. /\ PagesStep /\ root' \in Reserved' /\ Reserved' = Reserved /\ pages' = pages
  BY <1>1, SharedKept
<1>3. ThreadTypes /\ ThreadOK(t) /\ aborted \in BOOLEAN
  BY Parts DEF SharedOK
<1>4. ThreadTypes' /\ Alone(t) /\ pc'[t] = to
  BY <1>1, <1>2, <1>3 DEF ThreadTypes, Alone
<1>5. ThreadOK(t)'
  BY <1>1, <1>2, <1>3, <1>4 DEF ThreadOK, Owing
<1> QED  BY <1>1, <1>2, <1>3, <1>4, <1>5, StepAssembled

(* Steps that leave the pages alone. *)
LEMMA ThreadStepOK ==
  ASSUME IInv, NEW t \in Thread,
         UNCHANGED <<pages, nextFree, root, aborted>>,
         ThreadTypes', Alone(t), ThreadOK(t)'
  PROVE  IInv' /\ PagesStep
<1>1. aborted \in BOOLEAN
  BY Parts DEF SharedOK
<1> QED  BY <1>1, SharedKept, StepAssembled

LEMMA StartOK ==
  ASSUME IInv, NEW t \in Thread, Start(t)
  PROVE  IInv' /\ PagesStep
<1>0. ThreadTypes /\ root \in Reserved /\ Reserved' = Reserved
  BY Parts DEF SharedOK, Start, shared, Reserved
<1>1. PICK c \in Head(todo[t]) : call' = [call EXCEPT ![t] = c]
  BY DEF Start
<1>2. /\ UNCHANGED <<pages, nextFree, root, aborted, sep, child, level, drop, answer>>
      /\ todo[t] # <<>> /\ todo' = [todo EXCEPT ![t] = Tail(todo[t])]
      /\ stack' = [stack EXCEPT ![t] = <<>>]
      /\ cur' = [cur EXCEPT ![t] = root]
      /\ pc' = [pc EXCEPT ![t] = "latchDescend"]
  BY DEF Start, At, Visit, Goto, shared, carry
<1>3. c \in Calls /\ Tail(todo[t]) \in Seq(SUBSET Calls)
  <2>1. todo[t] \in Seq(SUBSET Calls)
    BY <1>0 DEF ThreadTypes
  <2> QED  BY <1>1, <1>2, <2>1
<1>4. "latchDescend" \in PC
  BY DEF PC
<1>5. ThreadTypes'
  BY <1>0, <1>1, <1>2, <1>3, <1>4 DEF ThreadTypes
<1>6. Alone(t)
  BY <1>0, <1>1, <1>2 DEF ThreadTypes, Alone
<1>7. ThreadOK(t)'
  BY <1>0, <1>1, <1>2, <1>3 DEF ThreadTypes, ThreadOK, Owing, StackSize
<1> QED  BY <1>2, <1>5, <1>6, <1>7, ThreadStepOK

(* Going to another page at the same level, or to another place in the     *)
(* code at this one, with nothing but pc, cur and answer changed.          *)
LEMMA MoveOK ==
  ASSUME IInv, NEW t \in Thread,
         UNCHANGED <<pages, nextFree, root, aborted, todo, call, stack,
                     sep, child, level, drop>>,
         NEW to \in PC, pc' = [pc EXCEPT ![t] = to],
         NEW p \in Reserved, cur' = [cur EXCEPT ![t] = p],
         NEW a \in [ok : BOOLEAN, val : Nat \cup {NoPage}],
         answer' = [answer EXCEPT ![t] = a],
         pc[t] # "idle",
         to \in {"latchRead", "read", "latchWrite", "write"} => pages[p].level = 0,
         to = "redescend" => level[t] = pages[p].level,
         to \in {"rootLock", "rootCheck", "reload", "latchRedescend", "redescend",
                 "latchPost", "post"} => t \in Owing
  PROVE  IInv' /\ PagesStep
<1>1. ThreadTypes /\ ThreadOK(t) /\ Reserved' = Reserved
  BY Parts DEF Reserved
<1>2. ThreadTypes'
  BY <1>1 DEF ThreadTypes
<1>3. Alone(t)
  BY <1>1 DEF ThreadTypes, Alone
<1>4. pc'[t] = to /\ cur'[t] = p
  BY <1>1 DEF ThreadTypes
<1>5. (t \in Owing)' => t \in Owing
  BY <1>4 DEF Owing
<1>6. ThreadOK(t)'
  BY <1>1, <1>4, <1>5 DEF ThreadOK
<1> QED  BY <1>2, <1>3, <1>6, ThreadStepOK

-----------------------------------------------------------------------------
(* The steps, one lemma for those of each part of the code. *)

LEMMA HereFacts ==
  ASSUME IInv, NEW t \in Thread, pc[t] # "idle"
  PROVE  /\ nextFree \in Nat /\ cur[t] \in Reserved /\ cur[t] \in 0 .. nextFree - 1
         /\ NodeOK(Here(t), nextFree) /\ Here(t).level \in Nat
         /\ SearchKey(t) \in Key /\ call[t].val \in Nat /\ sep[t] \in Key
         /\ Here(t).rlink # NoPage =>
              /\ Here(t).rlink \in Reserved
              /\ pages[Here(t).rlink].level = Here(t).level
<1>1. SharedOK /\ ThreadTypes /\ ThreadOK(t)
  BY Parts
<1>2. /\ nextFree \in Nat /\ cur[t] \in Reserved /\ cur[t] \in 0 .. nextFree - 1
      /\ call[t] \in Calls /\ sep[t] \in Key
  BY <1>1 DEF SharedOK, PagesType, ThreadTypes, ThreadOK, Reserved
<1>3. SearchKey(t) \in Key /\ call[t].val \in Nat
  BY <1>2, WorkloadAssumption DEF Calls, SearchKey
<1>4. /\ NodeOK(pages[cur[t]], nextFree)
      /\ pages[cur[t]].rlink # NoPage =>
           pages[pages[cur[t]].rlink].level = pages[cur[t]].level
  BY <1>1, <1>2 DEF SharedOK, PagesOK
<1>5. pages[cur[t]].level \in Nat
  BY <1>4 DEF NodeOK, Node
<1>6. pages[cur[t]].rlink # NoPage => pages[cur[t]].rlink \in Reserved
  BY <1>4 DEF NodeOK, Reserved
<1> QED  BY <1>2, <1>3, <1>4, <1>5, <1>6 DEF Here

LEMMA AnswerType ==
  ASSUME IInv, NEW t \in Thread
  PROVE  /\ answer[t] \in [ok : BOOLEAN, val : Nat \cup {NoPage}]
         /\ answer = [answer EXCEPT ![t] = answer[t]]
         /\ cur = [cur EXCEPT ![t] = cur[t]]
BY Parts DEF ThreadTypes

LEMMA LatchStepsOK ==
  ASSUME IInv, NEW t \in Thread,
         LatchDescend(t) \/ LatchRead(t) \/ LatchWrite(t) \/ LatchPost(t)
  PROVE  IInv' /\ PagesStep
<1>1. {"descend", "read", "write", "post"} \subseteq PC
  BY DEF PC, LatchPC, SharedPC, ExclusivePC
<1> QED  BY <1>1, LatchOK DEF LatchDescend, LatchRead, LatchWrite, LatchPost

LEMMA RightStepsOK ==
  ASSUME IInv, NEW t \in Thread,
         \/ DescendRight(t) \/ ReadRight(t) \/ GoRightLeaf(t)
         \/ RedescendRight(t) \/ GoRightInter(t)
  PROVE  IInv' /\ PagesStep
<1> DEFINE p == Here(t).rlink
<1>0. pc[t] # "idle" /\ p # NoPage
  BY DEF DescendRight, ReadRight, GoRightLeaf, RedescendRight, GoRightInter, At
<1>1. p \in Reserved /\ pages[p].level = Here(t).level
  BY <1>0, HereFacts
<1>2. UNCHANGED <<pages, nextFree, root, aborted, todo, call, stack,
                  sep, child, level, drop>>
  BY DEF DescendRight, ReadRight, GoRightLeaf, RedescendRight, GoRightInter, shared, carry
<1>2a. answer' = answer
  BY DEF DescendRight, ReadRight, GoRightLeaf, RedescendRight, GoRightInter, carry
<1>3. cur' = [cur EXCEPT ![t] = p]
  BY DEF DescendRight, ReadRight, GoRightLeaf, RedescendRight, GoRightInter, Visit
<1>4. pc[t] \in {"read", "write"} => Here(t).level = 0
  BY Parts DEF ThreadOK, Here
<1>5. PICK to \in PC :
        /\ pc' = [pc EXCEPT ![t] = to]
        /\ to \in {"latchRead", "read", "latchWrite", "write"} => pc[t] \in {"read", "write"}
        /\ to # "redescend"
        /\ to \in {"rootLock", "rootCheck", "reload", "latchRedescend", "redescend",
                   "latchPost", "post"} => t \in Owing
  BY DEF DescendRight, ReadRight, GoRightLeaf, RedescendRight, GoRightInter,
         At, Goto, PC, Owing
<1>6. to \in {"latchRead", "read", "latchWrite", "write"} => pages[p].level = 0
  BY <1>1, <1>4, <1>5
<1> DEFINE a == answer[t]
<1>7. /\ a \in [ok : BOOLEAN, val : Nat \cup {NoPage}]
      /\ answer' = [answer EXCEPT ![t] = a]
  BY <1>2a, AnswerType
<1>8. to = "redescend" => level[t] = pages[p].level
  BY <1>5
<1>9. IInv /\ t \in Thread
  OBVIOUS
<1> HIDE DEF p, a
<1> QED  BY ONLY <1>0, <1>1, <1>2, <1>3, <1>5, <1>6, <1>7, <1>8, <1>9, MoveOK

LEMMA DescentOK ==
  ASSUME IInv, NEW t \in Thread, ReachLeaf(t) \/ DescendDown(t)
  PROVE  IInv' /\ PagesStep
<1>0. pc[t] # "idle"
  BY DEF ReachLeaf, DescendDown, At
<1>1. CASE ReachLeaf(t)
  <2>1. PICK to \in {"latchRead", "latchWrite"} : pc' = [pc EXCEPT ![t] = to]
    BY <1>1 DEF ReachLeaf, Goto
  <2>2. /\ UNCHANGED <<pages, nextFree, root, aborted, todo, call, cur, stack,
                       sep, child, level, drop, answer>>
        /\ pages[cur[t]].level = 0
    BY <1>1 DEF ReachLeaf, shared, carry, Here
  <2>3. to \in PC /\ cur[t] \in Reserved
    BY <1>0, HereFacts DEF PC
  <2> QED  BY <1>0, <2>1, <2>2, <2>3, AnswerType, MoveOK
<1>2. CASE DescendDown(t)
  <2>1. /\ UNCHANGED <<pages, nextFree, root, aborted, todo, call,
                       sep, child, level, drop, answer>>
        /\ Here(t).level > 0 /\ Len(stack[t]) < StackSize
        /\ stack' = [stack EXCEPT ![t] = Append(stack[t], cur[t])]
        /\ cur' = [cur EXCEPT ![t] = InterGet(Here(t), SearchKey(t))]
        /\ pc' = [pc EXCEPT ![t] = "latchDescend"]
    BY <1>2 DEF DescendDown, shared, carry, Visit, Goto
  <2>2. InterGet(Here(t), SearchKey(t)) \in Reserved
    BY <1>0, <2>1, HereFacts, InterGetOK DEF Reserved
  <2>3. ThreadTypes /\ ThreadOK(t) /\ Reserved' = Reserved /\ cur[t] \in Reserved
    BY <1>0, <2>1, Parts, HereFacts DEF Reserved
  <2>4. /\ Append(stack[t], cur[t]) \in Seq(Reserved)
        /\ Len(Append(stack[t], cur[t])) <= StackSize
    BY <2>1, <2>3 DEF ThreadTypes, StackSize
  <2>5. ThreadTypes'
    BY <2>1, <2>2, <2>3, <2>4 DEF ThreadTypes, PC
  <2>6. Alone(t)
    BY <2>1, <2>3 DEF ThreadTypes, Alone
  <2>7. ThreadOK(t)'
    BY <1>0, <2>1, <2>2, <2>3, <2>4 DEF ThreadTypes, ThreadOK, Owing
  <2> QED  BY <2>1, <2>5, <2>6, <2>7, ThreadStepOK
<1> QED  BY <1>1, <1>2

LEMMA ReadOK ==
  ASSUME IInv, NEW t \in Thread, Read(t) \/ InsertDuplicate(t)
  PROVE  IInv' /\ PagesStep
<1>0. pc[t] # "idle" /\ (pc[t] = "read" \/ pc[t] = "write")
  BY DEF Read, InsertDuplicate, AtLeafOf, At
<1>1. UNCHANGED <<pages, nextFree, root, aborted, todo, call, cur, stack,
                  sep, child, level, drop>> /\ pc' = [pc EXCEPT ![t] = "return"]
  BY DEF Read, InsertDuplicate, shared, carry, Goto
<1>2. HasKey(Here(t), SearchKey(t)) => LeafGet(Here(t), SearchKey(t)) \in Nat
  <2>1. Here(t).level = 0
    BY <1>0, Parts DEF ThreadOK, Here
  <2> QED  BY <1>0, <2>1, HereFacts, LeafGetOK
<1>3. PICK a \in [ok : BOOLEAN, val : Nat \cup {NoPage}] :
        answer' = [answer EXCEPT ![t] = a]
  BY <1>2 DEF Read, InsertDuplicate, Answer
<1>4. "return" \in PC /\ cur[t] \in Reserved
  BY <1>0, HereFacts DEF PC
<1> DEFINE to == "return"
           p == cur[t]
<1>5. /\ to \notin {"latchRead", "read", "latchWrite", "write"}
      /\ to \notin {"rootLock", "rootCheck", "reload", "latchRedescend", "redescend",
                    "latchPost", "post"}
  OBVIOUS
<1>6. /\ to \in PC /\ pc' = [pc EXCEPT ![t] = to]
      /\ p \in Reserved /\ cur' = [cur EXCEPT ![t] = p]
  BY <1>1, <1>4, AnswerType
<1>7. IInv /\ t \in Thread
  OBVIOUS
<1> HIDE DEF to, p
<1> QED  BY ONLY <1>0, <1>1, <1>3, <1>5, <1>6, <1>7, MoveOK

LEMMA RootStepsOK ==
  ASSUME IInv, NEW t \in Thread, LockRoot(t) \/ RedescendStop(t)
  PROVE  IInv' /\ PagesStep
<1>0. pc[t] # "idle" /\ t \in Owing
  BY DEF LockRoot, RedescendStop, At, Owing
<1>1. UNCHANGED <<pages, nextFree, root, aborted, todo, call, cur, stack,
                  sep, child, level, drop, answer>>
  BY DEF LockRoot, RedescendStop, shared, carry
<1>2. PICK to \in {"rootCheck", "latchPost"} : pc' = [pc EXCEPT ![t] = to]
  BY DEF LockRoot, RedescendStop, Goto
<1>3. to \in PC /\ cur[t] \in Reserved
  BY <1>0, HereFacts DEF PC
<1> QED  BY <1>0, <1>1, <1>2, <1>3, AnswerType, MoveOK

LEMMA LatchRedescendOK ==
  ASSUME IInv, NEW t \in Thread, LatchRedescend(t)
  PROVE  IInv' /\ PagesStep
<1>0. pc[t] = "latchRedescend" /\ level[t] = pages[cur[t]].level /\ t \in Owing
  BY DEF LatchRedescend, WrongLevel, LatchShared, At, Here, Owing
<1>1. UNCHANGED <<pages, nextFree, root, aborted, todo, call, cur, stack,
                  sep, child, level, drop, answer>>
      /\ pc' = [pc EXCEPT ![t] = "redescend"]
  BY DEF LatchRedescend, LatchShared, shared, carry, Goto
<1>2. "redescend" \in PC /\ cur[t] \in Reserved
  BY <1>0, HereFacts DEF PC, LatchPC, SharedPC
<1> DEFINE a == answer[t]
           p == cur[t]
<1>3. /\ a \in [ok : BOOLEAN, val : Nat \cup {NoPage}]
      /\ answer' = [answer EXCEPT ![t] = a]
      /\ cur' = [cur EXCEPT ![t] = p]
      /\ p \in Reserved /\ level[t] = pages[p].level
  BY <1>0, <1>1, <1>2, AnswerType
<1> DEFINE to == "redescend"
<1>4. /\ pc[t] # "idle" /\ to \in PC /\ pc' = [pc EXCEPT ![t] = to]
      /\ to \notin {"latchRead", "read", "latchWrite", "write"}
  BY <1>0, <1>1, <1>2
<1> HIDE DEF p, a, to
<1> QED  BY <1>0, <1>1, <1>3, <1>4, MoveOK

LEMMA RootMovedOK ==
  ASSUME IInv, NEW t \in Thread, RootMoved(t) \/ ReloadRoot(t) \/ RedescendDown(t)
  PROVE  IInv' /\ PagesStep
<1>0. pc[t] # "idle" /\ t \in Owing
  BY DEF RootMoved, ReloadRoot, RedescendDown, At, Owing
<1>1. UNCHANGED <<pages, nextFree, root, aborted, todo, call, sep, child, answer>>
  BY DEF RootMoved, ReloadRoot, RedescendDown, shared
<1>2. /\ SharedOK /\ ThreadTypes /\ ThreadOK(t) /\ Reserved' = Reserved
      /\ cur[t] \in Reserved /\ child[t] \in Reserved
  BY <1>0, <1>1, Parts, HereFacts DEF Reserved, ThreadOK
<1>3. CASE RootMoved(t)
  <2>1. /\ UNCHANGED <<cur, stack, level>>
        /\ drop' = [drop EXCEPT ![t] = level[t] + 1]
        /\ pc' = [pc EXCEPT ![t] = "reload"]
    BY <1>3 DEF RootMoved, Goto
  <2>2. ThreadTypes'
    BY <1>1, <1>2, <2>1 DEF ThreadTypes, PC
  <2>3. Alone(t) /\ ThreadOK(t)'
    BY <1>0, <1>1, <1>2, <2>1 DEF ThreadTypes, Alone, ThreadOK
  <2> QED  BY <1>1, <2>2, <2>3, ThreadStepOK
<1>4. CASE ReloadRoot(t)
  <2>1. /\ UNCHANGED <<stack, drop>>
        /\ cur' = [cur EXCEPT ![t] = root]
        /\ level' = [level EXCEPT ![t] = pages[root].level]
        /\ pc' = [pc EXCEPT ![t] = "latchRedescend"]
    BY <1>4 DEF ReloadRoot, Goto, Visit
  <2>2. root \in Reserved /\ pages[root].level \in Nat
    BY <1>2 DEF SharedOK, PagesType, Node
  <2>3. ThreadTypes'
    BY <1>1, <1>2, <2>1, <2>2 DEF ThreadTypes, PC
  <2>4. Alone(t) /\ ThreadOK(t)'
    BY <1>0, <1>1, <1>2, <2>1, <2>2 DEF ThreadTypes, Alone, ThreadOK
  <2> QED  BY <1>1, <2>3, <2>4, ThreadStepOK
<1>5. CASE RedescendDown(t)
  <2>1. /\ UNCHANGED drop
        /\ pc[t] = "redescend" /\ level[t] > drop[t] /\ Len(stack[t]) < StackSize
        /\ stack' = [stack EXCEPT ![t] = Append(stack[t], cur[t])]
        /\ cur' = [cur EXCEPT ![t] = InterGet(Here(t), sep[t])]
        /\ level' = [level EXCEPT ![t] = level[t] - 1]
        /\ pc' = [pc EXCEPT ![t] = "latchRedescend"]
    BY <1>5 DEF RedescendDown, At, Goto, Visit
  <2>2. level[t] \in Nat /\ level[t] - 1 \in Nat /\ Here(t).level > 0
    BY <1>2, <2>1 DEF ThreadTypes, ThreadOK, Here
  <2>3. InterGet(Here(t), sep[t]) \in Reserved
    BY <1>0, <2>2, HereFacts, InterGetOK DEF Reserved
  <2>4. /\ Append(stack[t], cur[t]) \in Seq(Reserved)
        /\ Len(Append(stack[t], cur[t])) <= StackSize
    BY <1>2, <2>1 DEF ThreadTypes, StackSize
  <2>5. ThreadTypes'
    BY <1>1, <1>2, <2>1, <2>2, <2>3, <2>4 DEF ThreadTypes, PC
  <2>6. Alone(t)
    BY <1>1, <1>2, <2>1 DEF ThreadTypes, Alone
  <2>7. ThreadOK(t)'
    BY <1>0, <1>1, <1>2, <2>1, <2>3, <2>4 DEF ThreadTypes, ThreadOK
  <2> QED  BY <1>1, <2>5, <2>6, <2>7, ThreadStepOK
<1> QED  BY <1>3, <1>4, <1>5

(* A page is written, and the thread is about to return. *)
LEMMA WriteStepOK ==
  ASSUME IInv, NEW t \in Thread, pc[t] # "idle",
         PagesStep, Reserved' = Reserved,
         UNCHANGED <<root, aborted, todo, call, cur, stack, sep, child, level, drop>>,
         pc' = [pc EXCEPT ![t] = "return"],
         NEW a \in [ok : BOOLEAN, val : Nat \cup {NoPage}],
         answer' = [answer EXCEPT ![t] = a]
  PROVE  IInv'
<1>1. SharedOK /\ ThreadTypes /\ ThreadOK(t)
  BY Parts
<1>2. ThreadTypes'
  BY <1>1 DEF ThreadTypes, PC
<1>3. Alone(t)
  BY <1>1 DEF ThreadTypes, Alone
<1>4. ThreadOK(t)'
  BY <1>1 DEF ThreadTypes, ThreadOK, Owing
<1> QED  BY <1>1, <1>2, <1>3, <1>4, StepAssembled DEF SharedOK

LEMMA LeafWritesOK ==
  ASSUME IInv, NEW t \in Thread, Insert(t) \/ Delete(t)
  PROVE  IInv' /\ PagesStep
<1> DEFINE node == Here(t)
           k == SearchKey(t)
           v == call[t].val
<1>0. /\ pc[t] # "idle" /\ pc[t] = "write" /\ ~(k >= node.high)
      /\ UNCHANGED <<root, aborted, todo, call, cur, stack, sep, child, level, drop>>
      /\ pc' = [pc EXCEPT ![t] = "return"]
  BY DEF Insert, Delete, AtLeafOf, At, HasSplit, carry, Goto
<1>1. /\ nextFree \in Nat /\ NodeOK(node, nextFree) /\ node.level = 0
      /\ k \in Key /\ v \in Nat /\ cur[t] \in Reserved /\ node \in Node
      /\ node = pages[cur[t]]
  BY <1>0, HereFacts, Parts DEF ThreadOK, Here, NodeOK
<1>2. k <= node.high
  <2>1. k \in Int /\ node.high \in Int
    BY <1>1, NodeFacts, KeyInt
  <2> HIDE DEF k, node
  <2> QED  BY <1>0, <2>1
<1>3. PagesType /\ PagesOK
  BY Parts DEF SharedOK
<1>4. \/ UNCHANGED <<pages, nextFree>>
      \/ Write(t, LeafInsert(node, k, v))
      \/ HasKey(node, k) /\ Write(t, LeafDelete(node, k))
  BY DEF Insert, Delete
<1>5. PICK a \in [ok : BOOLEAN, val : Nat \cup {NoPage}] :
        answer' = [answer EXCEPT ![t] = a]
  <2>1. HasKey(node, k) \in BOOLEAN
    BY DEF HasKey
  <2>2. \E b \in BOOLEAN : answer' = [answer EXCEPT ![t] = [ok |-> b, val |-> NoPage]]
    BY <2>1 DEF Insert, Delete, Answer
  <2>3. \A b \in BOOLEAN : [ok |-> b, val |-> NoPage] \in [ok : BOOLEAN, val : Nat \cup {NoPage}]
    OBVIOUS
  <2> QED  BY <2>2, <2>3
<1> HIDE DEF node, k, v
<1>6. PagesStep /\ Reserved' = Reserved
  <2>1. CASE UNCHANGED <<pages, nextFree>>
    BY <1>3, <2>1, PagesUnchanged DEF Reserved
  <2>2. CASE Write(t, LeafInsert(node, k, v))
    <3>1. NodeOK(LeafInsert(node, k, v), nextFree)
      BY <1>1, <1>2, LeafInsertOK
    <3> DEFINE new == LeafInsert(node, k, v)
    <3>2. /\ new.level = pages[cur[t]].level /\ new.high = pages[cur[t]].high
          /\ new.rlink = pages[cur[t]].rlink
      BY <1>1, InsertKeeps
    <3>3. Reserved' = Reserved
      BY <2>2 DEF Write, Reserved
    <3>4. Write(t, new) /\ NodeOK(new, nextFree)
      BY <2>2, <3>1
    <3> HIDE DEF new
    <3>5. PagesStep
      BY <1>1, <1>3, <3>2, <3>4, PagesWritten
    <3> QED  BY <3>3, <3>5
  <2>3. CASE HasKey(node, k) /\ Write(t, LeafDelete(node, k))
    <3>1. NodeOK(LeafDelete(node, k), nextFree)
      BY <1>1, <2>3, DeleteOK
    <3> DEFINE new == LeafDelete(node, k)
    <3>2. /\ new.level = pages[cur[t]].level /\ new.high = pages[cur[t]].high
          /\ new.rlink = pages[cur[t]].rlink
      BY <1>1, DeleteKeeps
    <3>3. Reserved' = Reserved
      BY <2>3 DEF Write, Reserved
    <3>4. Write(t, new) /\ NodeOK(new, nextFree)
      BY <2>3, <3>1
    <3> HIDE DEF new
    <3>5. PagesStep
      BY <1>1, <1>3, <3>2, <3>4, PagesWritten
    <3> QED  BY <3>3, <3>5
  <2> QED  BY <1>4, <2>1, <2>2, <2>3
<1> QED  BY <1>0, <1>5, <1>6, WriteStepOK

LEMMA PostSeparatorOK ==
  ASSUME IInv, NEW t \in Thread, PostSeparator(t)
  PROVE  IInv' /\ PagesStep
<1> DEFINE node == Here(t)
           k == sep[t]
           c == child[t]
<1>0. /\ pc[t] # "idle" /\ t \in Owing /\ ~(k >= node.high)
      /\ UNCHANGED <<root, aborted, todo, call, cur, stack, sep, child, level, drop, answer>>
      /\ pc' = [pc EXCEPT ![t] = "return"]
      /\ Write(t, InterInsert(node, k, c))
  BY DEF PostSeparator, AtParent, At, HasSplit, carry, Goto, Owing
<1>1. /\ nextFree \in Nat /\ NodeOK(node, nextFree)
      /\ k \in Key /\ cur[t] \in Reserved /\ node \in Node
      /\ node = pages[cur[t]] /\ c \in 0 .. nextFree - 1
  BY <1>0, HereFacts, Parts DEF ThreadOK, Here, NodeOK, Reserved
<1>2. k <= node.high
  <2>1. k \in Int /\ node.high \in Int
    BY <1>1, NodeFacts, KeyInt
  <2> HIDE DEF k, node
  <2> QED  BY <1>0, <2>1
<1>3. PagesType /\ PagesOK
  BY Parts DEF SharedOK
<1> DEFINE a == answer[t]
<1>4. /\ a \in [ok : BOOLEAN, val : Nat \cup {NoPage}]
      /\ answer' = [answer EXCEPT ![t] = a]
  BY <1>0, AnswerType
<1> HIDE DEF node, k, c, a
<1>5. NodeOK(InterInsert(node, k, c), nextFree)
  BY <1>1, <1>2, InterInsertOK
<1>6. PagesStep /\ Reserved' = Reserved
  <2> DEFINE new == InterInsert(node, k, c)
  <2>1. /\ new.level = pages[cur[t]].level /\ new.high = pages[cur[t]].high
        /\ new.rlink = pages[cur[t]].rlink
    BY <1>1, InsertKeeps
  <2>2. Reserved' = Reserved
    BY <1>0 DEF Write, Reserved
  <2>3. PagesStep
    <3>1. Write(t, new) /\ NodeOK(new, nextFree)
      BY <1>0, <1>5
    <3> HIDE DEF new
    <3> QED  BY <1>1, <1>3, <2>1, <3>1, PagesWritten
  <2> QED  BY <2>2, <2>3
<1> QED  BY <1>0, <1>4, <1>6, WriteStepOK

(* A page is split, and the separator is on its way up. *)
LEMMA SplitStepOK ==
  ASSUME IInv, NEW t \in Thread, pc[t] # "idle",
         PagesStep, nextFree \in Reserved',
         UNCHANGED <<root, aborted, todo, call, drop>>,
         NEW s \in Key, sep' = [sep EXCEPT ![t] = s],
         NEW p, p = nextFree, child' = [child EXCEPT ![t] = p],
         NEW l \in Nat, level' = [level EXCEPT ![t] = l],
         NEW a \in [ok : BOOLEAN, val : Nat \cup {NoPage}],
         answer' = [answer EXCEPT ![t] = a],
         Propagate(t)
  PROVE  IInv'
<1>1. SharedOK /\ ThreadTypes /\ ThreadOK(t)
  BY Parts
<1>2. Reserved \subseteq Reserved' /\ p \in Reserved' /\ root' \in Reserved'
  BY <1>1, ReservedGrows DEF SharedOK
<1>3. Len(stack[t]) <= StackSize /\ stack[t] \in Seq(Reserved) /\ cur[t] \in Reserved
  BY <1>1 DEF ThreadTypes, ThreadOK
<1>4. PICK q \in Reserved, r \in Seq(Reserved), to \in {"rootLock", "latchPost"} :
        /\ Len(r) <= StackSize
        /\ pc' = [pc EXCEPT ![t] = to]
        /\ cur' = [cur EXCEPT ![t] = q]
        /\ stack' = [stack EXCEPT ![t] = r]
  <2>1. CASE stack[t] = <<>>
    <3>1. pc' = [pc EXCEPT ![t] = "rootLock"] /\ cur' = cur /\ stack' = stack
      BY <2>1 DEF Propagate, Goto
    <3>2. cur = [cur EXCEPT ![t] = cur[t]] /\ stack = [stack EXCEPT ![t] = stack[t]]
      BY <1>1 DEF ThreadTypes
    <3> QED  BY <1>3, <3>1, <3>2
  <2>2. CASE stack[t] # <<>>
    <3>1. /\ pc' = [pc EXCEPT ![t] = "latchPost"]
          /\ cur' = [cur EXCEPT ![t] = Last(stack[t])]
          /\ stack' = [stack EXCEPT ![t] = Front(stack[t])]
      BY <2>2 DEF Propagate, Goto, Visit
    <3>2. /\ Last(stack[t]) \in Reserved
          /\ Front(stack[t]) \in Seq(Reserved)
          /\ Len(Front(stack[t])) <= StackSize
      BY <1>3, <2>2 DEF Last, Front, StackSize
    <3> QED  BY <3>1, <3>2
  <2> QED  BY <2>1, <2>2
<1>5. Seq(Reserved) \subseteq Seq(Reserved')
  BY <1>2
<1>6. ThreadTypes'
  <2>1. /\ pc' \in [Thread -> PC] /\ todo' \in [Thread -> Seq(SUBSET Calls)]
        /\ call' \in [Thread -> Calls \cup {NoCall}]
        /\ sep' \in [Thread -> Key] /\ level' \in [Thread -> Nat]
        /\ drop' \in [Thread -> Nat]
        /\ answer' \in [Thread -> [ok : BOOLEAN, val : Nat \cup {NoPage}]]
    BY <1>1, <1>4 DEF ThreadTypes, PC
  <2>2. /\ cur' \in [Thread -> Reserved' \cup {NoPage}]
        /\ child' \in [Thread -> Reserved' \cup {NoPage}]
    BY <1>1, <1>2, <1>4 DEF ThreadTypes
  <2>3. stack' \in [Thread -> Seq(Reserved')]
    BY <1>1, <1>4, <1>5 DEF ThreadTypes
  <2> QED  BY <2>1, <2>2, <2>3 DEF ThreadTypes
<1>7. Alone(t)
  BY <1>1, <1>4 DEF ThreadTypes, Alone
<1>8. ThreadOK(t)'
  BY <1>1, <1>2, <1>4 DEF ThreadTypes, ThreadOK
<1>9. aborted' \in BOOLEAN
  BY <1>1 DEF SharedOK
<1> QED  BY <1>2, <1>6, <1>7, <1>8, <1>9, StepAssembled

LEMMA SplitLeafOK ==
  ASSUME IInv, NEW t \in Thread, SplitLeaf(t)
  PROVE  IInv' /\ PagesStep
<1> DEFINE node == Here(t)
           k == SearchKey(t)
           v == call[t].val
           halves == LeafSplit(node, cur[t], nextFree, k, v)
<1>0. /\ pc[t] # "idle" /\ pc[t] = "write" /\ ~(k >= node.high)
      /\ ~(Count(node) < LeafMax)
      /\ UNCHANGED <<root, aborted, todo, call, drop>>
      /\ WriteSplit(t, halves)
      /\ sep' = [sep EXCEPT ![t] = halves.sep]
      /\ child' = [child EXCEPT ![t] = nextFree]
      /\ level' = [level EXCEPT ![t] = node.level]
      /\ answer' = [answer EXCEPT ![t] = [ok |-> TRUE, val |-> NoPage]]
      /\ Propagate(t)
  BY DEF SplitLeaf, AtLeafOf, At, HasSplit, LeafHasSpace, Carry, Answer
<1>1. /\ nextFree \in Nat /\ NodeOK(node, nextFree) /\ node.level = 0
      /\ k \in Key /\ v \in Nat /\ cur[t] \in Reserved /\ cur[t] \in 0 .. nextFree - 1
      /\ node = pages[cur[t]]
  BY <1>0, HereFacts, Parts DEF ThreadOK, Here
<1>2. k <= node.high
  <2>1. k \in Int /\ node.high \in Int
    BY <1>1, NodeFacts, KeyInt
  <2> HIDE DEF k, node
  <2> QED  BY <1>0, <2>1
<1>3. Count(node) >= 2
  <2>1. Count(node) \in Nat
    BY <1>1, NodeFacts DEF Count
  <2> HIDE DEF node
  <2> QED  BY <1>0, <2>1, CapacityAssumption
<1>4. PagesType /\ PagesOK
  BY Parts DEF SharedOK
<1> HIDE DEF node, k, v
<1>5. SplitOK(node, halves, nextFree)
  BY <1>1, <1>2, <1>3, LeafSplitOK
<1> HIDE DEF halves
<1>6. PagesStep /\ nextFree \in Reserved'
  BY <1>0, <1>1, <1>4, <1>5, PagesSplit
<1>7. halves.sep \in Key /\ node.level \in Nat
  BY <1>1, <1>5 DEF SplitOK
<1>8. [ok |-> TRUE, val |-> NoPage] \in [ok : BOOLEAN, val : Nat \cup {NoPage}]
  OBVIOUS
<1> QED  BY <1>0, <1>6, <1>7, <1>8, SplitStepOK

LEMMA SplitInterOK ==
  ASSUME IInv, NEW t \in Thread, SplitInter(t)
  PROVE  IInv' /\ PagesStep
<1> DEFINE node == Here(t)
           k == sep[t]
           c == child[t]
           halves == InterSplit(node, cur[t], nextFree, k, c)
           a == answer[t]
<1>0. /\ pc[t] # "idle" /\ t \in Owing /\ ~(k >= node.high)
      /\ ~(Count(node) < InterMax)
      /\ UNCHANGED <<root, aborted, todo, call, drop, answer>>
      /\ WriteSplit(t, halves)
      /\ sep' = [sep EXCEPT ![t] = halves.sep]
      /\ child' = [child EXCEPT ![t] = nextFree]
      /\ level' = [level EXCEPT ![t] = node.level]
      /\ Propagate(t)
  BY DEF SplitInter, AtParent, At, HasSplit, InterHasSpace, Carry, Owing
<1>1. /\ nextFree \in Nat /\ NodeOK(node, nextFree) /\ node.level \in Nat
      /\ k \in Key /\ cur[t] \in Reserved /\ cur[t] \in 0 .. nextFree - 1
      /\ node = pages[cur[t]] /\ c \in 0 .. nextFree - 1
  BY <1>0, HereFacts, Parts DEF ThreadOK, Here, Reserved
<1>2. k <= node.high
  <2>1. k \in Int /\ node.high \in Int
    BY <1>1, NodeFacts, KeyInt
  <2> HIDE DEF k, node
  <2> QED  BY <1>0, <2>1
<1>3. Count(node) >= 4
  <2>1. Count(node) \in Nat
    BY <1>1, NodeFacts DEF Count
  <2> HIDE DEF node
  <2> QED  BY <1>0, <2>1, CapacityAssumption
<1>4. /\ PagesType /\ PagesOK
      /\ a \in [ok : BOOLEAN, val : Nat \cup {NoPage}]
      /\ answer' = [answer EXCEPT ![t] = a]
  BY <1>0, Parts, AnswerType DEF SharedOK
<1> HIDE DEF node, k, c, a
<1>5. SplitOK(node, halves, nextFree)
  BY <1>1, <1>2, <1>3, InterSplitOK
<1> HIDE DEF halves
<1>6. PagesStep /\ nextFree \in Reserved'
  BY <1>0, <1>1, <1>4, <1>5, PagesSplit
<1>7. halves.sep \in Key
  BY <1>5 DEF SplitOK
<1> QED  BY <1>0, <1>1, <1>4, <1>6, <1>7, SplitStepOK

LEMMA CreateNewRootOK ==
  ASSUME IInv, NEW t \in Thread, CreateNewRoot(t)
  PROVE  IInv' /\ PagesStep
<1> DEFINE node == RootNode(level[t], sep[t], cur[t], child[t])
<1>0. /\ pc[t] # "idle" /\ t \in Owing
      /\ UNCHANGED <<aborted, todo, call, cur, stack, sep, child, level, drop, answer>>
      /\ root' = nextFree
      /\ pc' = [pc EXCEPT ![t] = "return"]
      /\ Reserve(node)
  BY DEF CreateNewRoot, At, Owing, carry, Goto
<1>1. SharedOK /\ ThreadTypes /\ ThreadOK(t) /\ sep[t] \in Key /\ level[t] \in Nat
  BY Parts DEF ThreadTypes
<1>2. /\ nextFree \in Nat
      /\ cur[t] \in 0 .. nextFree - 1 /\ child[t] \in 0 .. nextFree - 1
  BY <1>0, <1>1, HereFacts DEF ThreadOK, Reserved
<1>3. NodeOK(node, nextFree + 1) /\ node.rlink = NoPage
  BY <1>1, <1>2, RootNodeOK
<1> HIDE DEF node
<1>4. PagesStep /\ nextFree \in Reserved'
  BY <1>0, <1>1, <1>3, PagesReserved DEF SharedOK
<1>5. Reserved \subseteq Reserved' /\ Seq(Reserved) \subseteq Seq(Reserved')
  BY <1>4, ReservedGrows
<1>6. ThreadTypes'
  <2>1. /\ pc' \in [Thread -> PC] /\ todo' \in [Thread -> Seq(SUBSET Calls)]
        /\ call' \in [Thread -> Calls \cup {NoCall}]
        /\ sep' \in [Thread -> Key] /\ level' \in [Thread -> Nat]
        /\ drop' \in [Thread -> Nat]
        /\ answer' \in [Thread -> [ok : BOOLEAN, val : Nat \cup {NoPage}]]
    BY <1>0, <1>1 DEF ThreadTypes, PC
  <2>2. /\ cur' \in [Thread -> Reserved' \cup {NoPage}]
        /\ child' \in [Thread -> Reserved' \cup {NoPage}]
    BY <1>0, <1>1, <1>5 DEF ThreadTypes
  <2>3. stack' \in [Thread -> Seq(Reserved')]
    BY <1>0, <1>1, <1>5 DEF ThreadTypes
  <2> QED  BY <2>1, <2>2, <2>3 DEF ThreadTypes
<1>7. Alone(t) /\ ThreadOK(t)'
  BY <1>0, <1>1, <1>5 DEF ThreadTypes, Alone, ThreadOK, Owing
<1>8. aborted' \in BOOLEAN /\ root' \in Reserved'
  BY <1>0, <1>1, <1>4 DEF SharedOK
<1> QED  BY <1>4, <1>6, <1>7, <1>8, StepAssembled

LEMMA ReturnOK ==
  ASSUME IInv, NEW t \in Thread, Return(t)
  PROVE  IInv' /\ PagesStep
<1>0. /\ UNCHANGED <<pages, nextFree, root, aborted, todo>>
      /\ pc' = [pc EXCEPT ![t] = "idle"]
      /\ call' = [call EXCEPT ![t] = NoCall]
      /\ cur' = [cur EXCEPT ![t] = NoPage]
      /\ stack' = [stack EXCEPT ![t] = <<>>]
      /\ sep' = [sep EXCEPT ![t] = 0]
      /\ child' = [child EXCEPT ![t] = NoPage]
      /\ level' = [level EXCEPT ![t] = 0]
      /\ drop' = [drop EXCEPT ![t] = 0]
      /\ answer' = [answer EXCEPT ![t] = NoAnswer]
  BY DEF Return, Goto, Visit, Carry, shared
<1>1. ThreadTypes /\ Reserved' = Reserved
  BY <1>0, Parts DEF Reserved
<1>2. 0 \in Key /\ NoAnswer \in [ok : BOOLEAN, val : Nat \cup {NoPage}]
  BY CapacityAssumption DEF Key, NoAnswer
<1>3. ThreadTypes'
  BY <1>0, <1>1, <1>2 DEF ThreadTypes, PC
<1>4. Alone(t) /\ ThreadOK(t)'
  BY <1>0, <1>1 DEF ThreadTypes, Alone, ThreadOK, Owing, StackSize
<1> QED  BY <1>0, <1>3, <1>4, ThreadStepOK

LEMMA StutterOK ==
  ASSUME IInv, UNCHANGED <<pages, nextFree, root, pc, todo, call, cur, stack,
                           sep, child, level, drop, answer>>,
         aborted' \in BOOLEAN
  PROVE  IInv' /\ PagesStep
<1>1. PagesStep /\ root' \in Reserved' /\ Reserved' = Reserved /\ pages' = pages
  BY SharedKept
<1>2. ThreadTypes' /\ SharedOK'
  BY <1>1, Parts DEF ThreadTypes, SharedOK, PagesStep
<1>3. \A t \in Thread : ThreadOK(t)'
  BY <1>1, Parts DEF ThreadOK, Owing
<1> QED
  BY <1>1, <1>2, <1>3
  DEF IInv, TypeOK, Standing, PagesType, SharedOK, ThreadTypes, ThreadOK

-----------------------------------------------------------------------------
LEMMA NextOK == IInv /\ [Next]_vars => IInv' /\ PagesStep
<1> SUFFICES ASSUME IInv, [Next]_vars PROVE IInv' /\ PagesStep
  OBVIOUS
<1>0. aborted \in BOOLEAN
  BY Parts DEF SharedOK
<1>1. ASSUME NEW t \in Thread, Step(t) PROVE IInv' /\ PagesStep
  <2>1. CASE Start(t)
    BY <2>1, StartOK
  <2>2. CASE LatchDescend(t) \/ LatchRead(t) \/ LatchWrite(t) \/ LatchPost(t)
    BY <2>2, LatchStepsOK
  <2>3. CASE \/ DescendRight(t) \/ ReadRight(t) \/ GoRightLeaf(t)
             \/ RedescendRight(t) \/ GoRightInter(t)
    BY <2>3, RightStepsOK
  <2>4. CASE ReachLeaf(t) \/ DescendDown(t)
    BY <2>4, DescentOK
  <2>5. CASE Read(t) \/ InsertDuplicate(t)
    BY <2>5, ReadOK
  <2>6. CASE Insert(t) \/ Delete(t)
    BY <2>6, LeafWritesOK
  <2>7. CASE SplitLeaf(t)
    BY <2>7, SplitLeafOK
  <2>8. CASE LockRoot(t) \/ RedescendStop(t)
    BY <2>8, RootStepsOK
  <2>9. CASE CreateNewRoot(t)
    BY <2>9, CreateNewRootOK
  <2>10. CASE RootMoved(t) \/ ReloadRoot(t) \/ RedescendDown(t)
    BY <2>10, RootMovedOK
  <2>11. CASE LatchRedescend(t)
    BY <2>11, LatchRedescendOK
  <2>12. CASE PostSeparator(t)
    BY <2>12, PostSeparatorOK
  <2>13. CASE SplitInter(t)
    BY <2>13, SplitInterOK
  <2>14. CASE Return(t)
    BY <2>14, ReturnOK
  <2>15. CASE Abort(t)
    <3>1. UNCHANGED <<pages, nextFree, root, pc, todo, call, cur, stack,
                      sep, child, level, drop, answer>> /\ aborted' = TRUE
      BY <2>15 DEF Abort, carry
    <3> QED  BY <3>1, StutterOK
  <2> QED
    BY <1>1, <2>1, <2>2, <2>3, <2>4, <2>5, <2>6, <2>7, <2>8, <2>9, <2>10,
       <2>11, <2>12, <2>13, <2>14, <2>15 DEF Step
<1>2. CASE UNCHANGED vars
  <2>1. UNCHANGED <<pages, nextFree, root, aborted, pc, todo, call, cur, stack,
                    sep, child, level, drop, answer>>
    BY <1>2 DEF vars, shared, carry
  <2> QED  BY <1>0, <2>1, StutterOK
<1> QED  BY <1>1, <1>2 DEF Next, Ended

LEMMA Invariance == Spec => []IInv
<1>1. IInv /\ [Next]_vars => IInv'
  BY NextOK
<1> QED  BY Initially, <1>1, PTL DEF Spec

(* Every page id the code follows is that of a reserved page, every ref is *)
(* inside its array and the stack never overflows, for any workload and at *)
(* any point of any interleaving.                                          *)
THEOREM Typing == Spec => []TypeOK
<1>1. IInv => TypeOK
  BY DEF IInv
<1> QED  BY Invariance, <1>1, PTL

(* No step of any thread changes a page in use but by writing its entries  *)
(* or by a split, which moves the fence left and the old fence and link to *)
(* the new page.                                                           *)
THEOREM SplitsOnly == Spec => PagesOnlySplit
<1>1. IInv /\ [Next]_vars => [\A p \in Reserved : KeptOrSplit(p)]_vars
  BY NextOK DEF PagesStep
<1> QED  BY Invariance, <1>1, PTL DEF Spec, PagesOnlySplit

-----------------------------------------------------------------------------
(* Latches.  A step moves one thread, and to a place that excludes others  *)
(* only if its guard has found none of them there.                         *)
Moves(t, l) ==
  /\ pc' = [pc EXCEPT ![t] = l]
  /\ \A u \in Thread \ {t} : cur'[u] = cur[u]

LEMMA MovedOff ==
  ASSUME TypeOK, LatchesExclude, NEW t \in Thread,
         NEW l, l \notin LatchPC, l # "rootCheck", Moves(t, l)
  PROVE  LatchesExclude'
<1>1. /\ pc'[t] = l
      /\ \A u \in Thread \ {t} : pc'[u] = pc[u] /\ cur'[u] = cur[u]
  BY DEF TypeOK, Moves
<1> QED
  BY <1>1 DEF LatchesExclude, LatchPC

LEMMA MovedIn ==
  ASSUME TypeOK, LatchesExclude, NEW t \in Thread,
         NEW from, NEW to,
         \/ LatchShared(t, from, to) /\ to \in SharedPC
         \/ LatchExclusive(t, from, to) /\ to \in ExclusivePC
  PROVE  LatchesExclude'
<1>1. cur' = cur /\ pc' = [pc EXCEPT ![t] = to] /\ to # "rootCheck"
  BY DEF LatchShared, LatchExclusive, Goto, SharedPC, ExclusivePC
<1>2. /\ pc'[t] = to
      /\ \A u \in Thread \ {t} : pc'[u] = pc[u]
  BY <1>1 DEF TypeOK
<1>3. \A u \in Thread : pc[u] \in ExclusivePC => cur[u] # cur[t]
  BY DEF LatchShared, LatchExclusive, HoldsExclusive
<1>4. to \in ExclusivePC => \A u \in Thread : pc[u] \in LatchPC => cur[u] # cur[t]
  <2>1. SharedPC \cap ExclusivePC = {}
    BY DEF SharedPC, ExclusivePC
  <2> QED
    BY <1>3, <2>1 DEF LatchExclusive, HoldsShared, LatchPC
<1>5. ASSUME NEW u \in Thread, NEW v \in Thread, u # v
      PROVE  /\ pc'[u] \in ExclusivePC /\ pc'[v] \in LatchPC => cur'[u] # cur'[v]
             /\ ~(pc'[u] = "rootCheck" /\ pc'[v] = "rootCheck")
  <2>1. CASE u = t
    BY <1>1, <1>2, <1>4, <1>5, <2>1
  <2>2. CASE v = t
    BY <1>1, <1>2, <1>3, <1>5, <2>2
  <2>3. CASE u # t /\ v # t
    BY <1>1, <1>2, <1>5, <2>3 DEF LatchesExclude
  <2> QED  BY <2>1, <2>2, <2>3
<1> QED  BY <1>5 DEF LatchesExclude

LEMMA LockedRoot ==
  ASSUME TypeOK, LatchesExclude, NEW t \in Thread, LockRoot(t)
  PROVE  LatchesExclude'
<1>1. cur' = cur /\ pc' = [pc EXCEPT ![t] = "rootCheck"]
  BY DEF LockRoot, Goto
<1>2. /\ pc'[t] = "rootCheck"
      /\ \A u \in Thread \ {t} : pc'[u] = pc[u]
  BY <1>1 DEF TypeOK
<1>3. "rootCheck" \notin LatchPC /\ "rootCheck" \notin ExclusivePC
  BY DEF LatchPC, SharedPC, ExclusivePC
<1>4. \A u \in Thread : pc[u] # "rootCheck"
  BY DEF LockRoot
<1> QED  BY <1>1, <1>2, <1>3, <1>4 DEF LatchesExclude

LEMMA PropagateMoves ==
  ASSUME TypeOK, NEW t \in Thread, Propagate(t)
  PROVE  \E l \in {"rootLock", "latchPost"} : Moves(t, l)
<1>1. CASE stack[t] = <<>>
  BY <1>1 DEF Propagate, Goto, Moves
<1>2. CASE stack[t] # <<>>
  BY <1>2 DEF Propagate, Goto, Visit, Moves, TypeOK
<1> QED  BY <1>1, <1>2

LEMMA StepExcludes ==
  ASSUME TypeOK, LatchesExclude, NEW t \in Thread, Step(t)
  PROVE  LatchesExclude'
<1> DEFINE Off == {"idle", "latchDescend", "latchRead", "latchRedescend",
                   "latchWrite", "latchPost", "rootLock", "reload", "return"}
<1>1. ASSUME NEW l \in Off, Moves(t, l) PROVE LatchesExclude'
  <2>1. l \notin LatchPC /\ l # "rootCheck"
    BY DEF LatchPC, SharedPC, ExclusivePC
  <2> QED  BY <1>1, <2>1, MovedOff
<1>2. CASE LatchDescend(t) \/ LatchRead(t) \/ LatchRedescend(t)
  BY <1>2, MovedIn DEF LatchDescend, LatchRead, LatchRedescend, SharedPC
<1>3. CASE LatchWrite(t) \/ LatchPost(t)
  BY <1>3, MovedIn DEF LatchWrite, LatchPost, ExclusivePC
<1>4. CASE LockRoot(t)
  BY <1>4, LockedRoot
<1>5. CASE \/ Start(t) \/ DescendRight(t) \/ DescendDown(t) \/ ReadRight(t)
           \/ GoRightLeaf(t) \/ RedescendRight(t) \/ RedescendDown(t)
           \/ GoRightInter(t) \/ ReloadRoot(t) \/ Return(t)
  <2>1. \E l \in Off : pc' = [pc EXCEPT ![t] = l]
    BY <1>5 DEF Start, DescendRight, DescendDown, ReadRight, GoRightLeaf,
                RedescendRight, RedescendDown, GoRightInter, ReloadRoot,
                Return, Goto
  <2>2. \E p : cur' = [cur EXCEPT ![t] = p]
    BY <1>5 DEF Start, DescendRight, DescendDown, ReadRight, GoRightLeaf,
                RedescendRight, RedescendDown, GoRightInter, ReloadRoot,
                Return, Visit
  <2> QED  BY <1>1, <2>1, <2>2 DEF Moves, TypeOK
<1>6. CASE \/ ReachLeaf(t) \/ Read(t) \/ InsertDuplicate(t) \/ Insert(t)
           \/ Delete(t) \/ CreateNewRoot(t) \/ RootMoved(t)
           \/ RedescendStop(t) \/ PostSeparator(t)
  <2>1. \E l \in Off : pc' = [pc EXCEPT ![t] = l]
    BY <1>6 DEF ReachLeaf, Read, InsertDuplicate, Insert, Delete,
                CreateNewRoot, RootMoved, RedescendStop, PostSeparator, Goto
  <2>2. cur' = cur
    BY <1>6 DEF ReachLeaf, Read, InsertDuplicate, Insert, Delete,
                CreateNewRoot, RootMoved, RedescendStop, PostSeparator
  <2> QED  BY <1>1, <2>1, <2>2 DEF Moves
<1>7. CASE SplitLeaf(t) \/ SplitInter(t)
  <2>1. Propagate(t)
    BY <1>7 DEF SplitLeaf, SplitInter
  <2> QED  BY <1>1, <2>1, PropagateMoves
<1>8. CASE Abort(t)
  BY <1>8 DEF Abort, LatchesExclude
<1> QED
  BY <1>2, <1>3, <1>4, <1>5, <1>6, <1>7, <1>8 DEF Step

(* Under any workload, no thread works on a page that another writes, and  *)
(* one at most is between root_mtx_'s lock and unlock.                     *)
THEOREM Exclusion == Spec => []LatchesExclude
<1>1. Init => LatchesExclude
  BY DEF Init, LatchesExclude, LatchPC, SharedPC, ExclusivePC
<1>2. TypeOK /\ LatchesExclude /\ [Next]_vars => LatchesExclude'
  <2> SUFFICES ASSUME TypeOK, LatchesExclude, [Next]_vars PROVE LatchesExclude'
    OBVIOUS
  <2>1. CASE UNCHANGED vars
    BY <2>1 DEF vars, LatchesExclude
  <2> QED  BY <2>1, StepExcludes DEF Next, Ended
<1> QED  BY <1>1, <1>2, Typing, PTL DEF Spec

-----------------------------------------------------------------------------
(***************************************************************************)
(* No thread is ever to the right of its key, for any threads, workload,   *)
(* capacities and keys, and whatever page a separator is posted to.  The   *)
(* fence below a page never changes once the page is in use; what a page   *)
(* tells of fences (its high key, its link, its keys and their children)   *)
(* therefore stays true while threads between two latches act on it.       *)
(***************************************************************************)

-----------------------------------------------------------------------------
(* Fences, of any pool P of n pages (a function from page ids to nodes).   *)

Pool(P, n) ==
  /\ n \in Nat \ {0}
  /\ P \in [0 .. n - 1 -> Node]
  /\ \A p \in 0 .. n - 1 : NodeOK(P[p], n)

LeftIn(P, p) == {q \in DOMAIN P : P[q].rlink = p}
LowIn(P, p) == IF LeftIn(P, p) = {} THEN 0 ELSE P[CHOOSE q \in LeftIn(P, p) : TRUE].high

(* No two pages link to the same one. *)
Chain(P) ==
  \A p, q \in DOMAIN P : P[p].rlink # NoPage /\ P[p].rlink = P[q].rlink => p = q

(* What page p says of fences is so. *)
Fenced(P, p) ==
  /\ P[p].rlink = NoPage <=> P[p].high = MaxKey
  /\ LowIn(P, p) <= P[p].high
  /\ \A x, y : Holds(P[p], x, y) => LowIn(P, p) <= x /\ x < MaxKey
  /\ P[p].level > 0 =>
       /\ LowIn(P, P[p].refs[1]) = LowIn(P, p)
       /\ \A x, y : Holds(P[p], x, y) => LowIn(P, y) = x

Fences(P, r) ==
  /\ Chain(P)
  /\ LeftIn(P, r) = {}
  /\ \A p \in DOMAIN P : Fenced(P, p)

(* No fence of P is another in Q. *)
LowsKept(P, Q) ==
  /\ DOMAIN P \subseteq DOMAIN Q
  /\ \A p \in DOMAIN P : LowIn(Q, p) = LowIn(P, p)

-----------------------------------------------------------------------------
LEMMA PoolFacts ==
  ASSUME NEW n, NEW P, Pool(P, n)
  PROVE  /\ n \in Nat /\ DOMAIN P = 0 .. n - 1
         /\ \A p \in DOMAIN P :
              /\ p \in Nat /\ p # NoPage /\ p # n
              /\ NodeOK(P[p], n) /\ P[p].high \in Key /\ P[p].high \in Int
              /\ P[p].rlink \in DOMAIN P \cup {NoPage} /\ P[p].rlink # n
              /\ P[p].level \in Nat
              /\ P[p].level > 0 => P[p].refs[1] \in DOMAIN P
              /\ \A x, y : Holds(P[p], x, y) => x \in Key /\ x \in Int
              /\ \A x, y : Holds(P[p], x, y) /\ P[p].level > 0 => y \in DOMAIN P
<1>1. n \in Nat /\ DOMAIN P = 0 .. n - 1 /\ n # NoPage
  BY DEF Pool, NoPage
<1>2. ASSUME NEW p \in DOMAIN P
      PROVE  /\ p \in Nat /\ p # NoPage /\ p # n
             /\ NodeOK(P[p], n) /\ P[p].high \in Key /\ P[p].high \in Int
             /\ P[p].rlink \in DOMAIN P \cup {NoPage} /\ P[p].rlink # n
             /\ P[p].level \in Nat
             /\ P[p].level > 0 => P[p].refs[1] \in DOMAIN P
             /\ \A x, y : Holds(P[p], x, y) => x \in Key /\ x \in Int
             /\ \A x, y : Holds(P[p], x, y) /\ P[p].level > 0 => y \in DOMAIN P
  <2>1. p \in Nat /\ p # NoPage /\ p # n /\ NodeOK(P[p], n)
    BY <1>1 DEF Pool, NoPage
  <2> DEFINE node == P[p]
  <2>2. NodeOK(node, n)
    BY <2>1
  <2> HIDE DEF node
  <2>3. node.high \in Key /\ node.high \in Int /\ node.level \in Nat
    BY <1>1, <2>2, NodeFacts
  <2>4. node.rlink \in DOMAIN P \cup {NoPage} /\ node.rlink # n
    BY <1>1, <2>2 DEF NodeOK
  <2>5. node.level > 0 => node.refs[1] \in DOMAIN P
    <3>1. node.level > 0 => 1 \in 1 .. Len(node.refs)
      BY <1>1, <2>2, NodeFacts, ArrayFacts
    <3> QED  BY <1>1, <2>2, <3>1 DEF NodeOK
  <2>6. \A x, y : Holds(node, x, y) => x \in Key /\ x \in Int
    BY <1>1, <2>2, HoldsType, KeyInt
  <2>7. \A x, y : Holds(node, x, y) /\ node.level > 0 => y \in DOMAIN P
    BY <1>1, <2>2, HoldsType
  <2> QED  BY <2>1, <2>3, <2>4, <2>5, <2>6, <2>7 DEF node
<1> QED  BY <1>1, <1>2

LEMMA LowIs ==
  ASSUME NEW P, Chain(P), NEW p, p # NoPage, NEW q \in DOMAIN P, P[q].rlink = p
  PROVE  LowIn(P, p) = P[q].high
<1>1. q \in LeftIn(P, p) /\ \A x \in LeftIn(P, p) : x = q
  BY DEF LeftIn, Chain
<1>2. (CHOOSE x \in LeftIn(P, p) : TRUE) = q
  BY <1>1
<1> QED  BY <1>1, <1>2 DEF LowIn

LEMMA LowIsZero ==
  ASSUME NEW P, NEW p, \A q \in DOMAIN P : P[q].rlink # p
  PROVE  LeftIn(P, p) = {} /\ LowIn(P, p) = 0
BY DEF LeftIn, LowIn

LEMMA LowSame ==
  ASSUME NEW P, NEW Q, NEW p, LeftIn(Q, p) = LeftIn(P, p),
         \A q \in LeftIn(P, p) : Q[q].high = P[q].high
  PROVE  LowIn(Q, p) = LowIn(P, p)
<1> DEFINE L == LeftIn(P, p)
           q == CHOOSE x \in L : TRUE
<1>1. L # {} => q \in L
  OBVIOUS
<1>2. L # {} => Q[q].high = P[q].high
  BY <1>1
<1> QED  BY <1>2 DEF LowIn

LEMMA LowType ==
  ASSUME NEW n, NEW P, Pool(P, n), NEW p
  PROVE  LowIn(P, p) \in Key /\ LowIn(P, p) \in Int
<1>1. 0 \in Key
  BY CapacityAssumption DEF Key
<1>2. LeftIn(P, p) # {} => (CHOOSE q \in LeftIn(P, p) : TRUE) \in DOMAIN P
  BY DEF LeftIn
<1> QED  BY <1>1, <1>2, PoolFacts, KeyInt DEF LowIn

(* A page that stays as it is says what is so, if no fence has changed.    *)
LEMMA FencedKept ==
  ASSUME NEW n, NEW P, Pool(P, n), NEW Q, LowsKept(P, Q),
         NEW p \in DOMAIN P, Q[p] = P[p], Fenced(P, p)
  PROVE  Fenced(Q, p)
<1>1. LowIn(Q, p) = LowIn(P, p)
  BY DEF LowsKept
<1>2. P[p].level > 0 => LowIn(Q, P[p].refs[1]) = LowIn(P, P[p].refs[1])
  BY PoolFacts DEF LowsKept
<1>3. ASSUME P[p].level > 0, NEW x, NEW y, Holds(P[p], x, y)
      PROVE  LowIn(Q, y) = LowIn(P, y)
  BY <1>3, PoolFacts DEF LowsKept
<1> QED  BY <1>1, <1>2, <1>3 DEF Fenced

-----------------------------------------------------------------------------
(* Writing entries to page c. *)

Rewritten(P, Q, c, node) ==
  /\ Q = [P EXCEPT ![c] = node]
  /\ node.level = P[c].level /\ node.high = P[c].high /\ node.rlink = P[c].rlink

LEMMA RewrittenIs ==
  ASSUME NEW n, NEW P, Pool(P, n), NEW c \in DOMAIN P, NEW node, NEW Q,
         Rewritten(P, Q, c, node)
  PROVE  /\ DOMAIN Q = DOMAIN P /\ Q[c] = node
         /\ \A p \in DOMAIN P : p # c => Q[p] = P[p]
         /\ \A p \in DOMAIN P : /\ Q[p].level = P[p].level /\ Q[p].high = P[p].high
                                /\ Q[p].rlink = P[p].rlink
         /\ LowsKept(P, Q)
         /\ \A p : LeftIn(Q, p) = LeftIn(P, p)
<1>1. /\ DOMAIN Q = DOMAIN P /\ Q[c] = node
      /\ \A p \in DOMAIN P : p # c => Q[p] = P[p]
  BY DEF Rewritten
<1>2. \A p \in DOMAIN P : /\ Q[p].level = P[p].level /\ Q[p].high = P[p].high
                          /\ Q[p].rlink = P[p].rlink
  BY <1>1 DEF Rewritten
<1>3. \A p : LeftIn(Q, p) = LeftIn(P, p)
  BY <1>1, <1>2 DEF LeftIn
<1>4. \A p : LowIn(Q, p) = LowIn(P, p)
  <2> TAKE p
  <2>1. \A q \in LeftIn(P, p) : Q[q].high = P[q].high
    BY <1>2 DEF LeftIn
  <2> QED  BY <1>3, <2>1, LowSame
<1> QED  BY <1>1, <1>2, <1>3, <1>4 DEF LowsKept

LEMMA RewrittenFences ==
  ASSUME NEW n, NEW P, Pool(P, n), NEW r, Fences(P, r), NEW c \in DOMAIN P,
         NEW node, NEW Q, Rewritten(P, Q, c, node),
         NEW k, NEW v, LowIn(P, c) <= k, k < MaxKey,
         P[c].level > 0 => LowIn(P, v) = k /\ v \in DOMAIN P,
         P[c].level > 0 => node.refs[1] = P[c].refs[1],
         \A x, y : Holds(node, x, y) => Holds(P[c], x, y) \/ (x = k /\ y = v)
  PROVE  Fences(Q, r)
<1>1. /\ DOMAIN Q = DOMAIN P /\ Q[c] = node
      /\ \A p \in DOMAIN P : p # c => Q[p] = P[p]
      /\ \A p \in DOMAIN P : /\ Q[p].level = P[p].level /\ Q[p].high = P[p].high
                             /\ Q[p].rlink = P[p].rlink
      /\ LowsKept(P, Q)
      /\ \A p : LeftIn(Q, p) = LeftIn(P, p)
  BY RewrittenIs
<1>2. Chain(Q) /\ LeftIn(Q, r) = {}
  BY <1>1 DEF Chain, Fences
<1>3. Fenced(P, c)
  BY DEF Fences
<1>4. Fenced(Q, c)
  <2>1. LowIn(Q, c) = LowIn(P, c)
    BY <1>1 DEF LowsKept
  <2>2. P[c].level > 0 => LowIn(Q, P[c].refs[1]) = LowIn(P, P[c].refs[1])
    BY <1>1, PoolFacts DEF LowsKept
  <2>3. ASSUME P[c].level > 0, NEW x, NEW y, Holds(P[c], x, y) \/ (x = k /\ y = v)
        PROVE  LowIn(Q, y) = x
    <3>1. y \in DOMAIN P /\ LowIn(P, y) = x
      BY <1>3, <2>3, PoolFacts DEF Fenced
    <3> QED  BY <1>1, <3>1 DEF LowsKept
  <2> QED  BY <1>1, <1>3, <2>1, <2>2, <2>3 DEF Fenced
<1>5. \A p \in DOMAIN Q : Fenced(Q, p)
  BY <1>1, <1>4, FencedKept DEF Fences
<1> QED  BY <1>2, <1>5 DEF Fences

-----------------------------------------------------------------------------
(* Splitting page c; page n is the right half. *)

SplitAt(P, Q, n, c, halves) ==
  Q = [p \in 0 .. n |-> IF p = n THEN halves.right ELSE IF p = c THEN halves.left ELSE P[p]]

LEMMA SplitIs ==
  ASSUME NEW n, NEW P, Pool(P, n), Chain(P), NEW c \in DOMAIN P,
         NEW halves, SplitOK(P[c], halves, n), NEW Q, SplitAt(P, Q, n, c, halves)
  PROVE  /\ DOMAIN Q = DOMAIN P \cup {n}
         /\ Q[n] = halves.right /\ Q[c] = halves.left
         /\ \A p \in DOMAIN P : p # c => Q[p] = P[p]
         /\ Chain(Q) /\ LowsKept(P, Q) /\ LowIn(Q, n) = halves.sep
         /\ \A p \in DOMAIN P : LeftIn(P, p) = {} => LeftIn(Q, p) = {}
<1>1. /\ DOMAIN Q = DOMAIN P \cup {n} /\ n \notin DOMAIN P
      /\ Q[n] = halves.right /\ Q[c] = halves.left
      /\ \A p \in DOMAIN P : p # c => Q[p] = P[p]
  <2>1. n \in Nat /\ DOMAIN P = 0 .. n - 1
    BY PoolFacts
  <2>2. 0 .. n = DOMAIN P \cup {n} /\ n \notin DOMAIN P
    BY <2>1
  <2> QED  BY <2>2 DEF SplitAt
<1>2. /\ halves.left.rlink = n /\ halves.left.high = halves.sep
      /\ halves.right.rlink = P[c].rlink /\ halves.right.high = P[c].high
  BY DEF SplitOK
<1>3. \A p \in DOMAIN P : p # NoPage /\ p # n /\ P[p].rlink # n
  BY PoolFacts
<1>3a. n # NoPage
  BY PoolFacts DEF NoPage
<1>4. Chain(Q)
  BY <1>1, <1>2, <1>3 DEF Chain
<1>5. LowIn(Q, n) = halves.sep
  BY <1>1, <1>2, <1>3a, <1>4, LowIs
<1>6. ASSUME NEW p \in DOMAIN P
      PROVE  /\ LowIn(Q, p) = LowIn(P, p)
             /\ LeftIn(P, p) = {} => LeftIn(Q, p) = {}
  <2>1. CASE LeftIn(P, p) = {}
    <3>1. \A q \in DOMAIN P : P[q].rlink # p
      BY <2>1 DEF LeftIn
    <3>2. \A q \in DOMAIN Q : Q[q].rlink # p
      BY <1>1, <1>2, <1>3, <3>1
    <3> QED  BY <3>1, <3>2, LowIsZero
  <2>2. CASE LeftIn(P, p) # {}
    <3>1. PICK q \in DOMAIN P : P[q].rlink = p
      BY <2>2 DEF LeftIn
    <3>2. LowIn(P, p) = P[q].high
      BY <1>3, <3>1, LowIs
    <3>3. CASE q = c
      BY <1>1, <1>2, <1>3, <1>4, <2>2, <3>1, <3>2, <3>3, LowIs
    <3>4. CASE q # c
      BY <1>1, <1>3, <1>4, <2>2, <3>1, <3>2, <3>4, LowIs
    <3> QED  BY <3>3, <3>4
  <2> QED  BY <2>1, <2>2
<1> QED  BY <1>1, <1>4, <1>5, <1>6 DEF LowsKept

LEMMA SplitFences ==
  ASSUME NEW n, NEW P, Pool(P, n), NEW r \in DOMAIN P, Fences(P, r), NEW c \in DOMAIN P,
         NEW halves, SplitOK(P[c], halves, n), NEW Q, SplitAt(P, Q, n, c, halves),
         NEW k, NEW v, LowIn(P, c) <= k, k < MaxKey,
         P[c].level > 0 => LowIn(P, v) = k /\ v \in DOMAIN P,
         NEW up, Halved(P[c], halves, k, v, up), P[c].level > 0 => up
  PROVE  /\ Fences(Q, r) /\ LowsKept(P, Q) /\ n \in DOMAIN Q
         /\ LowIn(Q, n) = halves.sep /\ halves.sep < MaxKey
         /\ LowIn(P, c) <= halves.sep
<1>1. /\ DOMAIN Q = DOMAIN P \cup {n}
      /\ Q[n] = halves.right /\ Q[c] = halves.left
      /\ \A p \in DOMAIN P : p # c => Q[p] = P[p]
      /\ Chain(Q) /\ LowsKept(P, Q) /\ LowIn(Q, n) = halves.sep
      /\ \A p \in DOMAIN P : LeftIn(P, p) = {} => LeftIn(Q, p) = {}
  BY SplitIs DEF Fences
<1>2. Fenced(P, c)
  BY DEF Fences
<1> DEFINE s == halves.sep
           l == halves.left
           h == halves.right
           lev == P[c].level
<1>3. /\ l.level = lev /\ h.level = lev
      /\ l.rlink = n /\ l.high = s
      /\ h.rlink = P[c].rlink /\ h.high = P[c].high /\ s <= P[c].high
  BY DEF SplitOK
<1>4. /\ \E y : Holds(P[c], s, y)
      /\ lev > 0 => l.refs[1] = P[c].refs[1] /\ Holds(P[c], s, h.refs[1])
      /\ \A x, y : Holds(l, x, y) \/ Holds(h, x, y) => Holds(P[c], x, y) \/ (x = k /\ y = v)
      /\ \A x, y : Holds(h, x, y) => x >= s
  BY DEF Halved
<1> HIDE DEF s, l, h, lev
<1>5. LowIn(P, c) <= s /\ s < MaxKey
  BY <1>2, <1>4 DEF Fenced
<1>6. LowIn(Q, c) = LowIn(P, c)
  BY <1>1 DEF LowsKept
<1>7. ASSUME NEW x, NEW y, Holds(l, x, y) \/ Holds(h, x, y)
      PROVE  /\ LowIn(P, c) <= x /\ x < MaxKey
             /\ lev > 0 => LowIn(Q, y) = x
  <2>1. Holds(P[c], x, y) \/ (x = k /\ y = v)
    BY <1>4, <1>7
  <2>2. /\ LowIn(P, c) <= x /\ x < MaxKey
        /\ lev > 0 => LowIn(P, y) = x /\ y \in DOMAIN P
    BY <1>2, <2>1, PoolFacts DEF Fenced, lev
  <2> QED  BY <1>1, <2>2 DEF LowsKept
<1>8. lev > 0 => LowIn(Q, l.refs[1]) = LowIn(P, c) /\ LowIn(Q, h.refs[1]) = s
  <2>1. lev > 0 =>
          /\ LowIn(P, l.refs[1]) = LowIn(P, c) /\ LowIn(P, h.refs[1]) = s
          /\ l.refs[1] \in DOMAIN P /\ h.refs[1] \in DOMAIN P
    BY <1>2, <1>4, PoolFacts DEF Fenced, lev
  <2> QED  BY <1>1, <2>1 DEF LowsKept
<1>9. Fenced(Q, c)
  <2>1. n # NoPage /\ s # MaxKey
    <3>1. n # NoPage
      BY PoolFacts DEF NoPage
    <3>2. s \in Int
      BY KeyInt DEF SplitOK, s
    <3> QED  BY <1>5, <3>1, <3>2, CapacityAssumption
  <2>2. Q[c] = l
    BY <1>1 DEF l
  <2> QED  BY <1>3, <1>5, <1>6, <1>7, <1>8, <2>1, <2>2 DEF Fenced
<1>10. Fenced(Q, n)
  <2>1. Q[n] = h /\ LowIn(Q, n) = s
    BY <1>1 DEF h, s
  <2>2. P[c].rlink = NoPage <=> P[c].high = MaxKey
    BY <1>2 DEF Fenced
  <2>3. \A x, y : Holds(h, x, y) => s <= x
    <3>1. s \in Int
      BY KeyInt DEF SplitOK, s
    <3>2. \A x, y : Holds(h, x, y) => x \in Int
      <4>1. n \in Nat
        BY PoolFacts
      <4>2. n + 1 \in Nat /\ NodeOK(h, n + 1)
        BY <4>1 DEF SplitOK, h
      <4> QED  BY <4>2, HoldsType, KeyInt
    <3> QED  BY <1>4, <3>1, <3>2
  <2> QED  BY <1>3, <1>7, <1>8, <2>1, <2>2, <2>3 DEF Fenced
<1>11. \A p \in DOMAIN Q : Fenced(Q, p)
  BY <1>1, <1>9, <1>10, FencedKept DEF Fences
<1>12. LeftIn(Q, r) = {}
  BY <1>1 DEF Fences
<1> QED  BY <1>1, <1>5, <1>11, <1>12 DEF Fences, s

-----------------------------------------------------------------------------
(* A new root, page n, above the old one. *)

RootAbove(P, Q, n, node) ==
  Q = [p \in 0 .. n |-> IF p = n THEN node ELSE P[p]]

LEMMA RootIs ==
  ASSUME NEW n, NEW P, Pool(P, n), NEW node, node.rlink = NoPage,
         NEW Q, RootAbove(P, Q, n, node)
  PROVE  /\ DOMAIN Q = DOMAIN P \cup {n} /\ n \notin DOMAIN P
         /\ Q[n] = node /\ \A p \in DOMAIN P : Q[p] = P[p]
         /\ LowsKept(P, Q) /\ LeftIn(Q, n) = {} /\ LowIn(Q, n) = 0
         /\ \A p \in DOMAIN P : LeftIn(Q, p) = LeftIn(P, p)
<1>1. /\ DOMAIN Q = DOMAIN P \cup {n} /\ n \notin DOMAIN P
      /\ Q[n] = node /\ \A p \in DOMAIN P : Q[p] = P[p]
  <2>1. n \in Nat /\ DOMAIN P = 0 .. n - 1
    BY PoolFacts
  <2>2. 0 .. n = DOMAIN P \cup {n} /\ n \notin DOMAIN P
    BY <2>1
  <2> QED  BY <2>2 DEF RootAbove
<1>2. n # NoPage /\ \A p \in DOMAIN P : p # NoPage /\ P[p].rlink # n
  BY PoolFacts DEF NoPage
<1>3. LeftIn(Q, n) = {} /\ LowIn(Q, n) = 0
  BY <1>1, <1>2, LowIsZero
<1>4. \A p \in DOMAIN P : LeftIn(Q, p) = LeftIn(P, p)
  BY <1>1, <1>2 DEF LeftIn
<1>5. ASSUME NEW p \in DOMAIN P PROVE LowIn(Q, p) = LowIn(P, p)
  <2>1. \A q \in LeftIn(P, p) : Q[q].high = P[q].high
    BY <1>1 DEF LeftIn
  <2> QED  BY <1>4, <2>1, LowSame
<1> QED  BY <1>1, <1>3, <1>4, <1>5 DEF LowsKept

LEMMA RootFences ==
  ASSUME NEW n, NEW P, Pool(P, n), NEW r \in DOMAIN P, Fences(P, r),
         NEW node, NEW Q, RootAbove(P, Q, n, node),
         NEW s, NEW v \in DOMAIN P, LowIn(P, v) = s, s < MaxKey,
         node.rlink = NoPage, node.high = MaxKey, node.refs[1] = r,
         \A x, y : Holds(node, x, y) <=> x = s /\ y = v
  PROVE  Fences(Q, n) /\ LowsKept(P, Q) /\ n \in DOMAIN Q
<1>1. /\ DOMAIN Q = DOMAIN P \cup {n} /\ n \notin DOMAIN P
      /\ Q[n] = node /\ \A p \in DOMAIN P : Q[p] = P[p]
      /\ LowsKept(P, Q) /\ LeftIn(Q, n) = {} /\ LowIn(Q, n) = 0
      /\ \A p \in DOMAIN P : LeftIn(Q, p) = LeftIn(P, p)
  <2>1. Pool(P, n) /\ RootAbove(P, Q, n, node) /\ node.rlink = NoPage
    OBVIOUS
  <2> QED  BY ONLY <2>1, RootIs
<1>2. Chain(Q)
  BY <1>1 DEF Fences, Chain
<1>3. Fenced(Q, n)
  <2>1. 0 <= MaxKey /\ 0 <= s
    <3>1. s \in Key
      BY LowType
    <3> QED  BY <3>1, CapacityAssumption DEF Key
  <2>2. LowIn(Q, r) = 0 /\ LowIn(Q, v) = s
    BY <1>1 DEF Fences, LowsKept, LowIn
  <2> QED  BY <1>1, <2>1, <2>2 DEF Fenced
<1>4. \A p \in DOMAIN Q : Fenced(Q, p)
  BY <1>1, <1>3, FencedKept DEF Fences
<1> QED  BY <1>1, <1>2, <1>4 DEF Fences

-----------------------------------------------------------------------------
(* Where a thread stands: at page c, on its way to key k, having come down *)
(* through the pages of st.                                                *)

Seeking(P, c, st, k) ==
  /\ LowIn(P, c) <= k
  /\ \A i \in 1 .. Len(st) : LowIn(P, st[i]) <= LowIn(P, c)
  /\ \A i, j \in 1 .. Len(st) : i <= j => LowIn(P, st[i]) <= LowIn(P, st[j])

LEMMA SeekKept ==
  ASSUME NEW P, NEW Q, LowsKept(P, Q), NEW c \in DOMAIN P, NEW st \in Seq(DOMAIN P),
         NEW k, Seeking(P, c, st, k)
  PROVE  Seeking(Q, c, st, k)
<1>1. \A i \in 1 .. Len(st) : st[i] \in DOMAIN P
  OBVIOUS
<1> QED  BY <1>1 DEF Seeking, LowsKept

LEMMA SeekRoot ==
  ASSUME NEW P, NEW r, LeftIn(P, r) = {}, NEW k \in Key
  PROVE  Seeking(P, r, <<>>, k)
<1>1. LowIn(P, r) = 0 /\ 0 <= k
  BY CapacityAssumption DEF LowIn, Key
<1> QED  BY <1>1 DEF Seeking

LEMMA SeekRight ==
  ASSUME NEW n, NEW P, Pool(P, n), Chain(P), NEW c \in DOMAIN P, Fenced(P, c),
         P[c].rlink # NoPage, NEW st, NEW k, k >= P[c].high, k \in Key,
         Seeking(P, c, st, k)
  PROVE  Seeking(P, P[c].rlink, st, k)
<1> DEFINE d == P[c].rlink
           low(p) == LowIn(P, p)
<1>1. low(d) = P[c].high /\ low(c) <= low(d) /\ low(d) <= k
  <2>1. low(d) = P[c].high
    BY LowIs
  <2>2. k \in Int /\ P[c].high \in Int
    BY PoolFacts, KeyInt
  <2> QED  BY <2>1, <2>2 DEF Fenced
<1>2. \A p : low(p) \in Int
  BY LowType
<1>3. /\ \A i \in 1 .. Len(st) : low(st[i]) <= low(c)
      /\ \A i, j \in 1 .. Len(st) : i <= j => low(st[i]) <= low(st[j])
  BY DEF Seeking
<1> HIDE DEF low
<1>4. \A i \in 1 .. Len(st) : low(st[i]) <= low(d)
  BY <1>1, <1>2, <1>3
<1> QED  BY <1>1, <1>3, <1>4 DEF Seeking, low

LEMMA SeekDown ==
  ASSUME NEW n, NEW P, Pool(P, n), NEW c \in DOMAIN P, Fenced(P, c),
         P[c].level > 0, NEW D, NEW st \in Seq(D), c \in D, NEW k \in Key,
         Seeking(P, c, st, k)
  PROVE  Seeking(P, InterGet(P[c], k), Append(st, c), k)
<1> DEFINE d == InterGet(P[c], k)
           low(p) == LowIn(P, p)
           new == Append(st, c)
<1>0. /\ NodeOK(P[c], n) /\ n \in Nat /\ k \in Int
      /\ \A x, y : Holds(P[c], x, y) => x \in Int
  BY PoolFacts, KeyInt
<1>1. d = P[c].refs[1] \/ \E x : x <= k /\ Holds(P[c], x, d)
  BY <1>0, InterGetHolds
<1>2. low(c) \in Int /\ low(c) <= k /\ \A p : low(p) \in Int
  BY LowType DEF Seeking
<1> HIDE DEF d
<1>3. low(c) <= low(d) /\ low(d) <= k
  <2>1. CASE d = P[c].refs[1]
    BY <1>2, <2>1 DEF Fenced
  <2>2. CASE \E x : x <= k /\ Holds(P[c], x, d)
    BY <1>2, <2>2 DEF Fenced
  <2> QED  BY <1>1, <2>1, <2>2
<1>4. /\ \A i \in 1 .. Len(st) : low(st[i]) <= low(c)
      /\ \A i, j \in 1 .. Len(st) : i <= j => low(st[i]) <= low(st[j])
  BY DEF Seeking
<1> HIDE DEF low
<1>5. /\ Len(st) \in Nat /\ Len(new) = Len(st) + 1 /\ new[Len(st) + 1] = c
      /\ \A i \in 1 .. Len(st) : new[i] = st[i]
  OBVIOUS
<1> HIDE DEF new
<1>6. \A i \in 1 .. Len(new) : i \in 1 .. Len(st) \/ i = Len(st) + 1
  BY <1>5
<1>7. \A i \in 1 .. Len(new) : low(new[i]) <= low(c)
  BY <1>2, <1>4, <1>5, <1>6
<1>8. \A i \in 1 .. Len(new) : low(new[i]) <= low(d)
  BY <1>2, <1>3, <1>7
<1>9. ASSUME NEW i \in 1 .. Len(new), NEW j \in 1 .. Len(new), i <= j
      PROVE  low(new[i]) <= low(new[j])
  <2>1. CASE j = Len(st) + 1
    BY <1>5, <1>7, <2>1
  <2>2. CASE j \in 1 .. Len(st)
    <3>1. i \in 1 .. Len(st)
      BY <1>5, <1>9, <2>2
    <3> QED  BY <1>4, <1>5, <1>9, <2>2, <3>1
  <2> QED  BY <1>6, <2>1, <2>2
<1> QED  BY <1>3, <1>8, <1>9 DEF Seeking, low, d, new

(* After a split of the page it is at, a thread goes for the separator. *)
LEMMA SeekAgain ==
  ASSUME NEW P, NEW c, NEW st, NEW k, Seeking(P, c, st, k), NEW s, LowIn(P, c) <= s
  PROVE  Seeking(P, c, st, s)
BY DEF Seeking

LEMMA FrontIs ==
  ASSUME NEW D, NEW st \in Seq(D), st # <<>>
  PROVE  /\ Front(st) \in Seq(D) /\ Len(Front(st)) = Len(st) - 1
         /\ \A i \in 1 .. Len(st) - 1 : Front(st)[i] = st[i]
<1> DEFINE m == Len(st) - 1
<1>1. m \in Nat /\ 1 \in 1 .. Len(st) + 1 /\ m \in 1 - 1 .. Len(st) /\ m - 1 + 1 = m
  OBVIOUS
<1> HIDE DEF m
<1>2. /\ SubSeq(st, 1, m) \in Seq(D) /\ Len(SubSeq(st, 1, m)) = m - 1 + 1
      /\ \A j \in 1 .. m - 1 + 1 : SubSeq(st, 1, m)[j] = st[1 + j - 1]
  BY <1>1, SubSeqIs
<1>3. \A j \in 1 .. m : 1 + j - 1 = j
  BY <1>1
<1> QED  BY <1>1, <1>2, <1>3 DEF Front, m

LEMMA SeekUp ==
  ASSUME NEW n, NEW P, Pool(P, n), NEW c, NEW D, NEW st \in Seq(D), st # <<>>,
         NEW k \in Key, Seeking(P, c, st, k)
  PROVE  Seeking(P, Last(st), Front(st), k)
<1> DEFINE low(p) == LowIn(P, p)
           m == Len(st)
<1>1. /\ m \in Nat /\ m > 0 /\ m \in 1 .. m /\ Last(st) = st[m]
      /\ Len(Front(st)) = m - 1
      /\ \A i \in 1 .. m - 1 : i \in 1 .. m /\ i <= m /\ Front(st)[i] = st[i]
  <2>1. m \in Nat /\ m > 0 /\ m \in 1 .. m /\ Last(st) = st[m]
    BY DEF Last
  <2> HIDE DEF m
  <2>2. Len(Front(st)) = m - 1 /\ \A i \in 1 .. m - 1 : Front(st)[i] = st[i]
    BY FrontIs DEF m
  <2> QED  BY <2>1, <2>2
<1>2. k \in Int /\ \A p : low(p) \in Int
  BY LowType, KeyInt
<1>3. /\ low(c) <= k /\ \A i \in 1 .. m : low(st[i]) <= low(c)
      /\ \A i, j \in 1 .. m : i <= j => low(st[i]) <= low(st[j])
  BY DEF Seeking
<1> HIDE DEF low, m
<1>4. low(st[m]) <= k
  BY <1>1, <1>2, <1>3
<1> QED  BY <1>1, <1>3, <1>4 DEF Seeking, low

-----------------------------------------------------------------------------
(* The invariant. *)

Guided(t) ==
  /\ t \in Owing => sep[t] = LowIn(pages, child[t]) /\ sep[t] < MaxKey
  /\ pc[t] \in {"rootLock", "rootCheck", "reload"} => stack[t] = <<>>
  /\ pc[t] \notin {"idle", "return"} => Seeking(pages, cur[t], stack[t], SoughtKey(t))

FInv == Fences(pages, root) /\ \A t \in Thread : Guided(t)

(* What a step of t leaves alone. *)
Frame(t) ==
  \A u \in Thread \ {t} :
    /\ pc'[u] = pc[u] /\ call'[u] = call[u] /\ cur'[u] = cur[u]
    /\ stack'[u] = stack[u] /\ sep'[u] = sep[u] /\ child'[u] = child[u]

LEMMA PoolIs ==
  ASSUME IInv
  PROVE  /\ Pool(pages, nextFree) /\ DOMAIN pages = Reserved
         /\ root \in DOMAIN pages /\ Reserved = 0 .. nextFree - 1
BY Parts DEF SharedOK, PagesType, PagesOK, Pool, Reserved

LEMMA ThreadPlace ==
  ASSUME IInv, NEW t \in Thread
  PROVE  /\ pc[t] # "idle" => cur[t] \in DOMAIN pages /\ SearchKey(t) \in Key
         /\ stack[t] \in Seq(DOMAIN pages)
         /\ t \in Owing => child[t] \in DOMAIN pages
         /\ sep[t] \in Key
         /\ pc[t] # "idle" => SoughtKey(t) \in Key
<1>1. ThreadTypes /\ ThreadOK(t) /\ DOMAIN pages = Reserved
  BY Parts, PoolIs
<1>2. pc[t] # "idle" => SearchKey(t) \in Key
  BY HereFacts
<1> QED  BY <1>1, <1>2 DEF ThreadTypes, ThreadOK, SoughtKey

LEMMA GuidedKept ==
  ASSUME IInv, NEW u \in Thread, Guided(u), LowsKept(pages, pages'),
         pc'[u] = pc[u], call'[u] = call[u], cur'[u] = cur[u],
         stack'[u] = stack[u], sep'[u] = sep[u], child'[u] = child[u]
  PROVE  Guided(u)'
<1>1. (u \in Owing)' <=> u \in Owing
  BY DEF Owing
<1>2. SoughtKey(u)' = SoughtKey(u)
  BY <1>1 DEF SoughtKey, SearchKey
<1>3. u \in Owing => LowIn(pages', child[u]) = LowIn(pages, child[u])
  BY ThreadPlace DEF LowsKept
<1>4. pc[u] \notin {"idle", "return"} => Seeking(pages', cur[u], stack[u], SoughtKey(u))
  <2> SUFFICES ASSUME pc[u] \notin {"idle", "return"}
               PROVE  Seeking(pages', cur[u], stack[u], SoughtKey(u))
    OBVIOUS
  <2>1. cur[u] \in DOMAIN pages /\ stack[u] \in Seq(DOMAIN pages)
    BY ThreadPlace
  <2>2. Seeking(pages, cur[u], stack[u], SoughtKey(u))
    BY DEF Guided
  <2> QED  BY <2>1, <2>2, SeekKept
<1> QED  BY <1>1, <1>2, <1>3, <1>4 DEF Guided

LEMMA FencesStep ==
  ASSUME IInv, FInv, NEW t \in Thread, Frame(t), LowsKept(pages, pages'),
         Fences(pages', root'), Guided(t)'
  PROVE  FInv'
<1>1. ASSUME NEW u \in Thread, u # t PROVE Guided(u)'
  BY <1>1, GuidedKept DEF FInv, Frame
<1> QED  BY <1>1 DEF FInv

(* Steps that change no page. *)
LEMMA FencesStill ==
  ASSUME IInv, FInv, NEW t \in Thread, Frame(t), UNCHANGED <<pages, root>>, Guided(t)'
  PROVE  FInv'
<1>1. LowsKept(pages, pages') /\ Fences(pages', root')
  BY DEF LowsKept, FInv
<1> QED  BY <1>1, FencesStep

(* Steps to another place in the code, at the same page. *)
LEMMA StaysGuided ==
  ASSUME IInv, FInv, NEW t \in Thread, pc[t] \notin {"idle", "return"},
         NEW to, pc' = [pc EXCEPT ![t] = to],
         UNCHANGED <<pages, root, call, cur, stack, sep, child>>,
         (t \in Owing)' <=> t \in Owing,
         to \in {"rootLock", "rootCheck", "reload"} =>
           pc[t] \in {"rootLock", "rootCheck", "reload"}
  PROVE  FInv'
<1>1. ThreadTypes /\ Guided(t)
  BY Parts DEF FInv
<1>2. pc'[t] = to /\ Frame(t)
  BY <1>1 DEF ThreadTypes, Frame
<1>3. SoughtKey(t)' = SoughtKey(t)
  BY DEF SoughtKey, SearchKey
<1>4. Guided(t)'
  BY <1>1, <1>2, <1>3 DEF Guided
<1> QED  BY <1>2, <1>4, FencesStill

LEMMA StaysOK ==
  ASSUME IInv, FInv, NEW t \in Thread,
         \/ LatchDescend(t) \/ LatchRead(t) \/ LatchWrite(t) \/ LatchPost(t)
         \/ LatchRedescend(t) \/ ReachLeaf(t) \/ LockRoot(t) \/ RootMoved(t)
         \/ RedescendStop(t)
  PROVE  FInv'
<1> DEFINE places == {<<"latchDescend", "descend">>, <<"latchRead", "read">>,
                      <<"latchWrite", "write">>, <<"latchPost", "post">>,
                      <<"latchRedescend", "redescend">>, <<"descend", "latchRead">>,
                      <<"descend", "latchWrite">>, <<"rootLock", "rootCheck">>,
                      <<"rootCheck", "reload">>, <<"redescend", "latchPost">>}
<1>1. PICK to : <<pc[t], to>> \in places /\ pc' = [pc EXCEPT ![t] = to]
  <2>1. CASE LatchDescend(t) \/ LatchRead(t) \/ LatchRedescend(t)
    BY <2>1 DEF LatchDescend, LatchRead, LatchRedescend, LatchShared, At, Goto
  <2>2. CASE LatchWrite(t) \/ LatchPost(t)
    BY <2>2 DEF LatchWrite, LatchPost, LatchExclusive, At, Goto
  <2>3. CASE ReachLeaf(t)
    <3>1. PICK to \in {"latchRead", "latchWrite"} : pc' = [pc EXCEPT ![t] = to]
      BY <2>3 DEF ReachLeaf, Goto
    <3>2. pc[t] = "descend"
      BY <2>3 DEF ReachLeaf, At
    <3>3. <<pc[t], to>> \in places
      BY <3>2
    <3> HIDE DEF places
    <3> QED  BY <3>1, <3>3
  <2>4. CASE LockRoot(t) \/ RootMoved(t) \/ RedescendStop(t)
    BY <2>4 DEF LockRoot, RootMoved, RedescendStop, At, Goto
  <2> QED  BY <2>1, <2>2, <2>3, <2>4
<1>2. UNCHANGED <<pages, root, call, cur, stack, sep, child>>
  BY DEF LatchDescend, LatchRead, LatchWrite, LatchPost, LatchRedescend, ReachLeaf,
         LockRoot, RootMoved, RedescendStop, LatchShared, LatchExclusive, shared, carry
<1>3. pc'[t] = to
  BY <1>1, Parts DEF ThreadTypes
<1>4. (t \in Owing)' <=> t \in Owing
  BY <1>1, <1>3 DEF Owing
<1> QED  BY <1>1, <1>2, <1>4, StaysGuided

(* Steps that end a call, or are about to. *)
LEMMA Unguided ==
  ASSUME IInv, FInv, NEW t \in Thread, Frame(t), LowsKept(pages, pages'),
         Fences(pages', root'), pc'[t] \in {"return", "idle"}
  PROVE  FInv'
<1>1. Guided(t)'
  BY DEF Guided, Owing
<1> QED  BY <1>1, FencesStep

LEMMA RightGuided ==
  ASSUME IInv, FInv, NEW t \in Thread,
         \/ DescendRight(t) \/ ReadRight(t) \/ GoRightLeaf(t)
         \/ RedescendRight(t) \/ GoRightInter(t)
  PROVE  FInv'
<1> DEFINE k == SoughtKey(t)
           p == Here(t).rlink
<1>1. /\ pc[t] \in {"descend", "read", "write", "redescend", "post"}
      /\ pc' = [pc EXCEPT ![t] = CASE pc[t] = "descend" -> "latchDescend"
                                   [] pc[t] = "read" -> "latchRead"
                                   [] pc[t] = "write" -> "latchWrite"
                                   [] pc[t] = "redescend" -> "latchRedescend"
                                   [] pc[t] = "post" -> "latchPost"]
      /\ cur' = [cur EXCEPT ![t] = p] /\ p # NoPage
  BY DEF DescendRight, ReadRight, GoRightLeaf, RedescendRight, GoRightInter, At, Goto, Visit
<1>2. UNCHANGED <<pages, root, call, stack, sep, child>>
  BY DEF DescendRight, ReadRight, GoRightLeaf, RedescendRight, GoRightInter, shared, carry
<1>3. k >= Here(t).high
  BY <1>1 DEF DescendRight, ReadRight, GoRightLeaf, RedescendRight, GoRightInter, At,
              HasSplit, SoughtKey, Owing
<1>4. /\ ThreadTypes /\ Guided(t) /\ cur[t] \in DOMAIN pages /\ k \in Key
      /\ Pool(pages, nextFree) /\ Chain(pages) /\ Fenced(pages, cur[t])
  BY <1>1, Parts, ThreadPlace, PoolIs DEF FInv, Fences
<1>5. /\ pc'[t] \in {"latchDescend", "latchRead", "latchWrite", "latchRedescend", "latchPost"}
      /\ (t \in Owing)' <=> t \in Owing
      /\ cur'[t] = p /\ Frame(t)
  BY <1>1, <1>2, <1>4 DEF ThreadTypes, Owing, Frame
<1>6. SoughtKey(t)' = k
  BY <1>2, <1>5 DEF SoughtKey, SearchKey
<1>7. Seeking(pages, p, stack[t], k)
  <2>1. Seeking(pages, cur[t], stack[t], k)
    BY <1>1, <1>4 DEF Guided
  <2> HIDE DEF k
  <2> QED  BY <1>1, <1>3, <1>4, <2>1, SeekRight DEF Here
<1> HIDE DEF k, p
<1>8. Guided(t)'
  BY <1>2, <1>4, <1>5, <1>6, <1>7 DEF Guided
<1> QED  BY <1>2, <1>5, <1>8, FencesStill

LEMMA DownGuided ==
  ASSUME IInv, FInv, NEW t \in Thread, DescendDown(t) \/ RedescendDown(t)
  PROVE  FInv'
<1> DEFINE k == SoughtKey(t)
           p == InterGet(Here(t), k)
           st == Append(stack[t], cur[t])
<1>1. /\ pc[t] \in {"descend", "redescend"}
      /\ pc' = [pc EXCEPT ![t] = IF pc[t] = "descend" THEN "latchDescend" ELSE "latchRedescend"]
      /\ cur' = [cur EXCEPT ![t] = p] /\ stack' = [stack EXCEPT ![t] = st]
  BY DEF DescendDown, RedescendDown, At, Goto, Visit, SoughtKey, Owing
<1>2. UNCHANGED <<pages, root, call, sep, child>>
  BY DEF DescendDown, RedescendDown, shared, carry
<1>3. /\ ThreadTypes /\ Guided(t) /\ cur[t] \in DOMAIN pages /\ k \in Key
      /\ stack[t] \in Seq(DOMAIN pages)
      /\ Pool(pages, nextFree) /\ Fenced(pages, cur[t]) /\ ThreadOK(t)
  BY <1>1, Parts, ThreadPlace, PoolIs DEF FInv, Fences
<1>4. pages[cur[t]].level > 0
  <2>1. level[t] \in Nat /\ drop[t] \in Nat
    BY <1>3 DEF ThreadTypes
  <2> QED  BY <1>1, <1>3, <2>1 DEF DescendDown, RedescendDown, At, Here, ThreadOK
<1>5. /\ pc'[t] \in {"latchDescend", "latchRedescend"}
      /\ (t \in Owing)' <=> t \in Owing
      /\ cur'[t] = p /\ stack'[t] = st /\ Frame(t)
  BY <1>1, <1>2, <1>3 DEF ThreadTypes, Owing, Frame
<1>6. SoughtKey(t)' = k
  BY <1>2, <1>5 DEF SoughtKey, SearchKey
<1>7. Seeking(pages, p, st, k)
  <2>1. Seeking(pages, cur[t], stack[t], k)
    BY <1>1, <1>3 DEF Guided
  <2> HIDE DEF k
  <2> QED  BY <1>3, <1>4, <2>1, SeekDown DEF Here
<1> HIDE DEF k, p, st
<1>8. Guided(t)'
  BY <1>2, <1>3, <1>5, <1>6, <1>7 DEF Guided
<1> QED  BY <1>2, <1>5, <1>8, FencesStill

LEMMA TopGuided ==
  ASSUME IInv, FInv, NEW t \in Thread, Start(t) \/ ReloadRoot(t)
  PROVE  FInv'
<1>1. /\ ThreadTypes /\ Guided(t) /\ sep[t] \in Key
      /\ LeftIn(pages, root) = {}
  BY Parts, ThreadPlace DEF FInv, Fences
<1>2. CASE Start(t)
  <2>1. PICK c \in Head(todo[t]) : call' = [call EXCEPT ![t] = c]
    BY <1>2 DEF Start
  <2>2. /\ UNCHANGED <<pages, root, sep, child>>
        /\ stack' = [stack EXCEPT ![t] = <<>>]
        /\ cur' = [cur EXCEPT ![t] = root]
        /\ pc' = [pc EXCEPT ![t] = "latchDescend"] /\ todo[t] # <<>>
    BY <1>2 DEF Start, At, Visit, Goto, shared, carry
  <2>3. c.key \in Key
    <3>1. todo[t] \in Seq(SUBSET Calls)
      BY <1>1 DEF ThreadTypes
    <3> QED  BY <2>1, <2>2, <3>1 DEF Calls
  <2>4. /\ pc'[t] = "latchDescend" /\ cur'[t] = root /\ stack'[t] = <<>> /\ call'[t] = c
        /\ Frame(t)
    BY <1>1, <2>1, <2>2 DEF ThreadTypes, Frame
  <2>5. (t \notin Owing)' /\ SoughtKey(t)' = c.key
    BY <2>4 DEF Owing, SoughtKey, SearchKey
  <2>6. Seeking(pages, root, <<>>, c.key)
    BY <1>1, <2>3, SeekRoot
  <2>7. Guided(t)'
    BY <2>2, <2>4, <2>5, <2>6 DEF Guided
  <2> QED  BY <2>2, <2>4, <2>7, FencesStill
<1>3. CASE ReloadRoot(t)
  <2>1. /\ UNCHANGED <<pages, root, call, stack, sep, child>>
        /\ cur' = [cur EXCEPT ![t] = root] /\ pc[t] = "reload"
        /\ pc' = [pc EXCEPT ![t] = "latchRedescend"]
    BY <1>3 DEF ReloadRoot, At, Visit, Goto, shared
  <2>2. /\ pc'[t] = "latchRedescend" /\ cur'[t] = root /\ stack[t] = <<>>
        /\ Frame(t) /\ t \in Owing
    BY <1>1, <2>1 DEF ThreadTypes, Frame, Guided, Owing
  <2>3. (t \in Owing)' /\ SoughtKey(t)' = sep[t]
    BY <2>1, <2>2 DEF Owing, SoughtKey
  <2>4. Seeking(pages, root, <<>>, sep[t])
    BY <1>1, SeekRoot
  <2>5. Guided(t)'
    BY <1>1, <2>1, <2>2, <2>3, <2>4 DEF Guided
  <2> QED  BY <2>1, <2>2, <2>5, FencesStill
<1> QED  BY <1>2, <1>3

-----------------------------------------------------------------------------
(* Steps that write pages. *)

LEMMA WriteFences ==
  ASSUME IInv, FInv, NEW t \in Thread, pc[t] # "idle", Frame(t), UNCHANGED root,
         pc'[t] = "return",
         NEW node, Write(t, node),
         node.level = Here(t).level, node.high = Here(t).high, node.rlink = Here(t).rlink,
         NEW k, NEW v, LowIn(pages, cur[t]) <= k, k < MaxKey,
         Here(t).level > 0 => LowIn(pages, v) = k /\ v \in DOMAIN pages,
         Here(t).level > 0 => node.refs[1] = Here(t).refs[1],
         \A x, y : Holds(node, x, y) => Holds(Here(t), x, y) \/ (x = k /\ y = v)
  PROVE  FInv'
<1>1. /\ Pool(pages, nextFree) /\ Fences(pages, root) /\ cur[t] \in DOMAIN pages
  BY PoolIs, ThreadPlace DEF FInv
<1>2. Rewritten(pages, pages', cur[t], node)
  BY DEF Write, Rewritten, Here
<1>3. LowsKept(pages, pages')
  BY <1>1, <1>2, RewrittenIs
<1>4. Fences(pages', root)
  BY <1>1, <1>2, RewrittenFences DEF Here
<1> QED  BY <1>3, <1>4, Unguided

LEMMA AnsweredOK ==
  ASSUME IInv, FInv, NEW t \in Thread, Read(t) \/ InsertDuplicate(t) \/ Return(t)
  PROVE  FInv'
<1>1. ThreadTypes
  BY Parts
<1>2. UNCHANGED <<pages, root>>
  BY DEF Read, InsertDuplicate, Return, shared
<1>3. pc'[t] \in {"return", "idle"} /\ Frame(t)
  <2>1. CASE Read(t) \/ InsertDuplicate(t)
    BY <1>1, <2>1 DEF Read, InsertDuplicate, Goto, ThreadTypes, Frame, carry
  <2>2. CASE Return(t)
    BY <1>1, <2>2 DEF Return, Goto, Visit, Carry, ThreadTypes, Frame
  <2> QED  BY <2>1, <2>2
<1>4. LowsKept(pages, pages') /\ Fences(pages', root')
  BY <1>2 DEF LowsKept, FInv
<1> QED  BY <1>3, <1>4, Unguided

LEMMA LeafWriteGuided ==
  ASSUME IInv, FInv, NEW t \in Thread, Insert(t) \/ Delete(t)
  PROVE  FInv'
<1> DEFINE k == SearchKey(t)
           v == call[t].val
           node == Here(t)
<1>1. /\ pc[t] = "write" /\ ~(k >= node.high)
      /\ UNCHANGED <<root, call, cur, stack, sep, child>>
      /\ pc' = [pc EXCEPT ![t] = "return"]
  BY DEF Insert, Delete, AtLeafOf, At, HasSplit, carry, Goto
<1>2. /\ ThreadTypes /\ Guided(t)
      /\ nextFree \in Nat /\ NodeOK(node, nextFree) /\ node.level = 0
      /\ k \in Key /\ v \in Nat /\ node \in Node
  BY <1>1, HereFacts, Parts DEF ThreadOK, Here, NodeOK, FInv
<1>3. pc'[t] = "return" /\ Frame(t)
  BY <1>1, <1>2 DEF ThreadTypes, Frame
<1>4. LowIn(pages, cur[t]) <= k
  BY <1>1, <1>2 DEF Guided, Seeking, SoughtKey, Owing
<1>5. k < MaxKey
  <2>1. k \in Int /\ node.high \in Key
    BY <1>2, NodeFacts, KeyInt
  <2> HIDE DEF k, node
  <2> QED  BY <1>1, <2>1, CapacityAssumption DEF Key
<1>6. \/ UNCHANGED <<pages, nextFree>>
      \/ Write(t, LeafInsert(node, k, v))
      \/ HasKey(node, k) /\ Write(t, LeafDelete(node, k))
  BY DEF Insert, Delete
<1>7. pc[t] # "idle" /\ root' = root /\ Here(t) = node
  BY <1>1
<1> HIDE DEF k, v, node
<1>8. CASE UNCHANGED <<pages, nextFree>>
  <2>1. LowsKept(pages, pages') /\ Fences(pages', root')
    BY <1>7, <1>8 DEF LowsKept, FInv
  <2> QED  BY <1>3, <2>1, Unguided
<1>9. ASSUME NEW new, Write(t, new),
             new.level = node.level, new.high = node.high, new.rlink = node.rlink,
             \A x, y : Holds(new, x, y) => Holds(node, x, y) \/ (x = k /\ y = v)
      PROVE  FInv'
  <2>1. /\ new.level = Here(t).level /\ new.high = Here(t).high /\ new.rlink = Here(t).rlink
        /\ Here(t).level > 0 => LowIn(pages, v) = k /\ v \in DOMAIN pages
        /\ Here(t).level > 0 => new.refs[1] = Here(t).refs[1]
        /\ \A x, y : Holds(new, x, y) => Holds(Here(t), x, y) \/ (x = k /\ y = v)
    BY <1>2, <1>7, <1>9
  <2> QED  BY <1>3, <1>4, <1>5, <1>7, <1>9, <2>1, WriteFences
<1>10. CASE Write(t, LeafInsert(node, k, v))
  <2> DEFINE new == LeafInsert(node, k, v)
  <2>1. new.level = node.level /\ new.high = node.high /\ new.rlink = node.rlink
    BY <1>2, InsertKeeps
  <2>2. EntryAdded(node, new, k, v)
    BY <1>2, LeafInsertHolds
  <2>3. Write(t, new)
    BY <1>10
  <2> HIDE DEF new
  <2> QED  BY <1>9, <2>1, <2>2, <2>3 DEF EntryAdded
<1>11. CASE HasKey(node, k) /\ Write(t, LeafDelete(node, k))
  <2> DEFINE new == LeafDelete(node, k)
  <2>1. new.level = node.level /\ new.high = node.high /\ new.rlink = node.rlink
    BY <1>2, DeleteKeeps
  <2>2. EntryRemoved(node, new, k)
    BY <1>2, <1>11, DeleteHolds
  <2>3. Write(t, new)
    BY <1>11
  <2> HIDE DEF new
  <2> QED  BY <1>9, <2>1, <2>2, <2>3 DEF EntryRemoved
<1> QED  BY <1>6, <1>8, <1>10, <1>11

LEMMA PostGuided ==
  ASSUME IInv, FInv, NEW t \in Thread, PostSeparator(t)
  PROVE  FInv'
<1> DEFINE k == sep[t]
           v == child[t]
           node == Here(t)
           new == InterInsert(node, k, v)
<1>1. /\ pc[t] = "post" /\ t \in Owing /\ Write(t, new)
      /\ UNCHANGED <<root, call, cur, stack, sep, child>>
      /\ pc' = [pc EXCEPT ![t] = "return"]
  BY DEF PostSeparator, AtParent, At, carry, Goto, Owing
<1>2. /\ ThreadTypes /\ Guided(t)
      /\ nextFree \in Nat /\ NodeOK(node, nextFree) /\ k \in Key /\ node \in Node
      /\ v \in DOMAIN pages /\ v \in Nat
  BY <1>1, HereFacts, Parts, ThreadPlace, PoolIs, PoolFacts DEF NodeOK, FInv
<1>3. pc'[t] = "return" /\ Frame(t)
  BY <1>1, <1>2 DEF ThreadTypes, Frame
<1>4. /\ LowIn(pages, cur[t]) <= k /\ LowIn(pages, v) = k /\ k < MaxKey
      /\ pc[t] # "idle" /\ root' = root /\ Here(t) = node
  BY <1>1, <1>2 DEF Guided, Seeking, SoughtKey
<1> HIDE DEF k, v, node
<1>5. new.level = node.level /\ new.high = node.high /\ new.rlink = node.rlink
  BY <1>2, InsertKeeps
<1>6. EntryAdded(node, new, k, v)
  BY <1>2, InterInsertHolds
<1> HIDE DEF new
<1>7. /\ new.level = Here(t).level /\ new.high = Here(t).high /\ new.rlink = Here(t).rlink
      /\ Here(t).level > 0 => LowIn(pages, v) = k /\ v \in DOMAIN pages
      /\ Here(t).level > 0 => new.refs[1] = Here(t).refs[1]
      /\ \A x, y : Holds(new, x, y) => Holds(Here(t), x, y) \/ (x = k /\ y = v)
  BY <1>2, <1>4, <1>5, <1>6 DEF EntryAdded
<1> QED  BY <1>1, <1>3, <1>4, <1>7, WriteFences

LEMMA NewRootGuided ==
  ASSUME IInv, FInv, NEW t \in Thread, CreateNewRoot(t)
  PROVE  FInv'
<1> DEFINE s == sep[t]
           v == child[t]
           node == RootNode(level[t], s, cur[t], v)
<1>1. /\ pc[t] = "rootCheck" /\ t \in Owing /\ Reserve(node) /\ root = cur[t]
      /\ UNCHANGED <<call, cur, stack, sep, child>>
      /\ root' = nextFree
      /\ pc' = [pc EXCEPT ![t] = "return"]
  BY DEF CreateNewRoot, At, carry, Goto, Owing
<1>2. /\ ThreadTypes /\ Guided(t) /\ level[t] \in Nat
      /\ v \in DOMAIN pages /\ root \in DOMAIN pages
      /\ Pool(pages, nextFree) /\ Fences(pages, root)
  BY <1>1, Parts, ThreadPlace, PoolIs DEF FInv, ThreadTypes
<1>3. pc'[t] = "return" /\ Frame(t)
  BY <1>1, <1>2 DEF ThreadTypes, Frame
<1>4. LowIn(pages, v) = s /\ s < MaxKey
  BY <1>1, <1>2 DEF Guided
<1>5. /\ node.rlink = NoPage /\ node.high = MaxKey /\ node.refs[1] = root
      /\ \A x, y : Holds(node, x, y) <=> x = s /\ y = v
  BY <1>1, <1>2, RootNodeHolds
<1>6. RootAbove(pages, pages', nextFree, node)
  BY <1>1 DEF Reserve, RootAbove
<1> HIDE DEF s, v, node
<1>7. Fences(pages', nextFree) /\ LowsKept(pages, pages') /\ nextFree \in DOMAIN pages'
  BY ONLY <1>2, <1>4, <1>5, <1>6, RootFences
<1> QED  BY <1>1, <1>3, <1>7, Unguided

-----------------------------------------------------------------------------
(* Splits: the thread goes on with the separator of the new page, to the   *)
(* page it came from or, if this is the root for it, stays.                *)
LEMMA SplitGuided ==
  ASSUME IInv, FInv, NEW t \in Thread, pc[t] \in {"write", "post"},
         NEW halves, SplitOK(Here(t), halves, nextFree), WriteSplit(t, halves),
         Carry(t, halves.sep, nextFree, Here(t).level),
         Propagate(t), UNCHANGED <<root, call>>,
         NEW v, SoughtKey(t) < MaxKey,
         Here(t).level > 0 => LowIn(pages, v) = SoughtKey(t) /\ v \in DOMAIN pages,
         NEW up, Halved(Here(t), halves, SoughtKey(t), v, up), Here(t).level > 0 => up
  PROVE  FInv'
<1> DEFINE k == SoughtKey(t)
           s == halves.sep
           n == nextFree
           c == cur[t]
<1>1. /\ ThreadTypes /\ Guided(t) /\ Pool(pages, n) /\ Fences(pages, root)
      /\ root \in DOMAIN pages /\ c \in DOMAIN pages /\ stack[t] \in Seq(DOMAIN pages)
  BY Parts, PoolIs, ThreadPlace DEF FInv
<1>2. Seeking(pages, c, stack[t], k)
  BY <1>1 DEF Guided
<1>3. SplitAt(pages, pages', n, c, halves)
  BY DEF WriteSplit, SplitAt
<1>4. /\ SplitOK(pages[c], halves, n) /\ LowIn(pages, c) <= k /\ k < MaxKey
      /\ pages[c].level > 0 => LowIn(pages, v) = k /\ v \in DOMAIN pages
      /\ Halved(pages[c], halves, k, v, up) /\ (pages[c].level > 0 => up)
  BY <1>2 DEF Here, Seeking
<1>5. s \in Key
  BY DEF SplitOK
<1>6. sep'[t] = s /\ child'[t] = n
  BY <1>1 DEF Carry, ThreadTypes
<1>7. /\ Frame(t)
      /\ \/ /\ stack[t] = <<>> /\ pc'[t] = "rootLock" /\ UNCHANGED <<cur, stack>>
         \/ /\ stack[t] # <<>> /\ pc'[t] = "latchPost"
            /\ cur'[t] = Last(stack[t]) /\ stack'[t] = Front(stack[t])
  BY <1>1 DEF Propagate, Carry, Goto, Visit, ThreadTypes, Frame
<1> HIDE DEF k, s, n, c
<1>8. /\ Fences(pages', root) /\ LowsKept(pages, pages') /\ n \in DOMAIN pages'
      /\ LowIn(pages', n) = halves.sep /\ halves.sep < MaxKey
      /\ LowIn(pages, c) <= halves.sep
  <2> DEFINE P == pages
             Q == pages'
             r == root
  <2>1. /\ Pool(P, n) /\ r \in DOMAIN P /\ Fences(P, r) /\ c \in DOMAIN P
        /\ SplitOK(P[c], halves, n) /\ SplitAt(P, Q, n, c, halves)
        /\ LowIn(P, c) <= k /\ k < MaxKey
        /\ P[c].level > 0 => LowIn(P, v) = k /\ v \in DOMAIN P
        /\ Halved(P[c], halves, k, v, up) /\ (P[c].level > 0 => up)
    BY <1>1, <1>3, <1>4
  <2> HIDE DEF P, Q, r
  <2>2. /\ Fences(Q, r) /\ LowsKept(P, Q) /\ n \in DOMAIN Q
        /\ LowIn(Q, n) = halves.sep /\ halves.sep < MaxKey
        /\ LowIn(P, c) <= halves.sep
    BY ONLY <2>1, SplitFences
  <2> QED  BY <2>2 DEF P, Q, r
<1>9. (t \in Owing)' /\ SoughtKey(t)' = s
  BY <1>6, <1>7 DEF Owing, SoughtKey
<1>10. Seeking(pages, c, stack[t], s)
  BY <1>2, <1>8, SeekAgain DEF s
<1>11. Guided(t)'
  <2>1. CASE stack[t] = <<>>
    <3>1. /\ pc'[t] = "rootLock" /\ cur'[t] = c /\ stack'[t] = stack[t]
      BY <1>7, <2>1 DEF c
    <3>2. Seeking(pages', c, stack[t], s)
      BY <1>1, <1>8, <1>10, SeekKept
    <3> QED  BY <1>6, <1>8, <1>9, <2>1, <3>1, <3>2 DEF Guided, s
  <2>2. CASE stack[t] # <<>>
    <3> DEFINE d == Last(stack[t])
               st == Front(stack[t])
    <3>1. pc'[t] = "latchPost" /\ cur'[t] = d /\ stack'[t] = st
      BY <1>7, <2>2
    <3>2. d \in DOMAIN pages /\ st \in Seq(DOMAIN pages)
      <4>1. Len(stack[t]) \in 1 .. Len(stack[t])
        BY <1>1, <2>2
      <4> QED  BY <1>1, <2>2, <4>1, FrontIs DEF Last
    <3>3. Seeking(pages, d, st, s)
      <4> DEFINE D == DOMAIN pages
                 S == stack[t]
      <4>1. /\ Pool(pages, n) /\ S \in Seq(D) /\ S # <<>> /\ s \in Key
            /\ Seeking(pages, c, S, s)
        BY <1>1, <1>5, <1>10, <2>2 DEF s
      <4> HIDE DEF D, S
      <4>2. Seeking(pages, Last(S), Front(S), s)
        BY <4>1, SeekUp
      <4> QED  BY <4>2 DEF S
    <3> HIDE DEF d, st
    <3>4. Seeking(pages', d, st, s)
      BY <1>8, <3>2, <3>3, SeekKept
    <3> QED  BY <1>6, <1>8, <1>9, <3>1, <3>4 DEF Guided, s
  <2> QED  BY <2>1, <2>2
<1> QED  BY <1>7, <1>8, <1>11, FencesStep

LEMMA SplitLeafGuided ==
  ASSUME IInv, FInv, NEW t \in Thread, SplitLeaf(t)
  PROVE  FInv'
<1> DEFINE node == Here(t)
           k == SearchKey(t)
           v == call[t].val
           halves == LeafSplit(node, cur[t], nextFree, k, v)
<1>1. /\ pc[t] = "write" /\ ~(k >= node.high) /\ ~(Count(node) < LeafMax)
      /\ UNCHANGED <<root, call>> /\ Propagate(t) /\ WriteSplit(t, halves)
      /\ Carry(t, halves.sep, nextFree, Here(t).level)
  BY DEF SplitLeaf, AtLeafOf, At, HasSplit, LeafHasSpace
<1>2. /\ nextFree \in Nat /\ NodeOK(node, nextFree) /\ node.level = 0
      /\ k \in Key /\ v \in Nat /\ cur[t] \in 0 .. nextFree - 1
  BY <1>1, HereFacts, Parts DEF ThreadOK, Here
<1>3. k <= node.high /\ k < MaxKey
  <2>1. k \in Int /\ node.high \in Int /\ node.high \in Key
    BY <1>2, NodeFacts, KeyInt
  <2> HIDE DEF k, node
  <2> QED  BY <1>1, <2>1, CapacityAssumption DEF Key
<1>4. Count(node) >= 2
  <2>1. Count(node) \in Nat
    BY <1>2, NodeFacts DEF Count
  <2> HIDE DEF node
  <2> QED  BY <1>1, <2>1, CapacityAssumption
<1>5. k = SoughtKey(t) /\ node = Here(t)
  BY <1>1 DEF SoughtKey, Owing
<1> HIDE DEF node, k, v
<1>6. SplitOK(node, halves, nextFree)
  BY <1>2, <1>3, <1>4, LeafSplitOK
<1>7. Halved(node, halves, k, v, FALSE)
  BY <1>2, <1>4, LeafSplitHolds
<1> HIDE DEF halves
<1>8. /\ SplitOK(Here(t), halves, nextFree)
      /\ SoughtKey(t) < MaxKey /\ ~(Here(t).level > 0)
      /\ Halved(Here(t), halves, SoughtKey(t), v, FALSE)
  <2>1. ~(Here(t).level > 0)
    BY <1>2, <1>5
  <2>2. SoughtKey(t) < MaxKey
    BY <1>3, <1>5
  <2>3. SplitOK(Here(t), halves, nextFree) /\ Halved(Here(t), halves, SoughtKey(t), v, FALSE)
    BY <1>5, <1>6, <1>7
  <2> QED  BY <2>1, <2>2, <2>3
<1> QED  BY <1>1, <1>8, SplitGuided

LEMMA SplitInterGuided ==
  ASSUME IInv, FInv, NEW t \in Thread, SplitInter(t)
  PROVE  FInv'
<1> DEFINE node == Here(t)
           k == sep[t]
           v == child[t]
           halves == InterSplit(node, cur[t], nextFree, k, v)
<1>1. /\ pc[t] = "post" /\ t \in Owing /\ ~(k >= node.high) /\ ~(Count(node) < InterMax)
      /\ UNCHANGED <<root, call>> /\ Propagate(t) /\ WriteSplit(t, halves)
      /\ Carry(t, halves.sep, nextFree, Here(t).level)
  BY DEF SplitInter, AtParent, At, HasSplit, InterHasSpace, Owing
<1>2. /\ nextFree \in Nat /\ NodeOK(node, nextFree) /\ Guided(t)
      /\ k \in Key /\ v \in 0 .. nextFree - 1 /\ cur[t] \in 0 .. nextFree - 1
      /\ v \in DOMAIN pages
  BY <1>1, HereFacts, ThreadPlace, PoolIs DEF Here, FInv
<1>3. k <= node.high /\ k < MaxKey /\ LowIn(pages, v) = k
  <2>1. k \in Int /\ node.high \in Int
    BY <1>2, NodeFacts, KeyInt
  <2>2. k < MaxKey /\ LowIn(pages, v) = k
    BY <1>1, <1>2 DEF Guided
  <2> HIDE DEF k, node
  <2> QED  BY <1>1, <2>1, <2>2
<1>4. Count(node) >= 4
  <2>1. Count(node) \in Nat
    BY <1>2, NodeFacts DEF Count
  <2> HIDE DEF node
  <2> QED  BY <1>1, <2>1, CapacityAssumption
<1>5. k = SoughtKey(t) /\ node = Here(t)
  BY <1>1 DEF SoughtKey
<1> HIDE DEF node, k, v
<1>6. SplitOK(node, halves, nextFree)
  BY <1>2, <1>3, <1>4, InterSplitOK
<1>7. Halved(node, halves, k, v, TRUE)
  BY <1>2, <1>4, InterSplitHolds
<1> HIDE DEF halves
<1>8. /\ SplitOK(Here(t), halves, nextFree) /\ SoughtKey(t) < MaxKey
      /\ Here(t).level > 0 => LowIn(pages, v) = SoughtKey(t) /\ v \in DOMAIN pages
      /\ Halved(Here(t), halves, SoughtKey(t), v, TRUE)
  BY <1>2, <1>3, <1>5, <1>6, <1>7
<1> QED  BY <1>1, <1>8, SplitGuided

-----------------------------------------------------------------------------
LEMMA FencesInit == Init => FInv
<1> SUFFICES ASSUME Init PROVE FInv
  OBVIOUS
<1> DEFINE node == NewNode(0, <<>>, <<>>)
<1>1. pages = [p \in {0} |-> node] /\ root = 0
  BY DEF Init
<1>2. node.rlink = NoPage /\ node.high = MaxKey /\ node.level = 0 /\ node.keys = <<>>
  BY DEF NewNode
<1>3. \A x, y : ~Holds(node, x, y)
  BY <1>2 DEF Holds
<1> HIDE DEF node
<1>4. DOMAIN pages = {0} /\ pages[0] = node
  BY <1>1
<1>5. \A p \in {0} : LeftIn(pages, p) = {} /\ LowIn(pages, p) = 0
  BY <1>2, <1>4, LowIsZero DEF NoPage
<1>6. Fenced(pages, 0)
  BY <1>2, <1>3, <1>4, <1>5, CapacityAssumption DEF Fenced
<1>7. Fences(pages, root)
  BY <1>1, <1>4, <1>5, <1>6 DEF Fences, Chain
<1>8. \A t \in Thread : Guided(t)
  BY DEF Init, Guided, Owing
<1> QED  BY <1>7, <1>8 DEF FInv

LEMMA FencesNext == IInv /\ FInv /\ [Next]_vars => FInv'
<1> SUFFICES ASSUME IInv, FInv, [Next]_vars PROVE FInv'
  OBVIOUS
<1>1. ASSUME UNCHANGED <<pages, root, pc, call, cur, stack, sep, child>> PROVE FInv'
  <2>1. \A t \in Thread : Guided(t)'
    BY <1>1 DEF FInv, Guided, Owing, SoughtKey, SearchKey
  <2> QED  BY <1>1, <2>1 DEF FInv
<1>2. ASSUME NEW t \in Thread, Step(t) PROVE FInv'
  <2>1. CASE Start(t) \/ ReloadRoot(t)
    BY <2>1, TopGuided
  <2>2. CASE \/ LatchDescend(t) \/ LatchRead(t) \/ LatchWrite(t) \/ LatchPost(t)
             \/ LatchRedescend(t) \/ ReachLeaf(t) \/ LockRoot(t) \/ RootMoved(t)
             \/ RedescendStop(t)
    BY <2>2, StaysOK
  <2>3. CASE \/ DescendRight(t) \/ ReadRight(t) \/ GoRightLeaf(t)
             \/ RedescendRight(t) \/ GoRightInter(t)
    BY <2>3, RightGuided
  <2>4. CASE DescendDown(t) \/ RedescendDown(t)
    BY <2>4, DownGuided
  <2>5. CASE Read(t) \/ InsertDuplicate(t) \/ Return(t)
    BY <2>5, AnsweredOK
  <2>6. CASE Insert(t) \/ Delete(t)
    BY <2>6, LeafWriteGuided
  <2>7. CASE SplitLeaf(t)
    BY <2>7, SplitLeafGuided
  <2>8. CASE CreateNewRoot(t)
    BY <2>8, NewRootGuided
  <2>9. CASE PostSeparator(t)
    BY <2>9, PostGuided
  <2>10. CASE SplitInter(t)
    BY <2>10, SplitInterGuided
  <2>11. CASE Abort(t)
    BY <1>1, <2>11 DEF Abort, carry
  <2> QED
    BY <1>2, <2>1, <2>2, <2>3, <2>4, <2>5, <2>6, <2>7, <2>8, <2>9, <2>10, <2>11 DEF Step
<1>3. CASE UNCHANGED vars
  BY <1>1, <1>3 DEF vars, shared, carry
<1> QED  BY <1>2, <1>3 DEF Next, Ended

LEMMA FencesInvariance == Spec => [](IInv /\ FInv)
<1>1. IInv /\ FInv /\ [Next]_vars => FInv'
  BY FencesNext
<1> QED  BY Invariance, FencesInit, <1>1, PTL DEF Spec

LEMMA LowIsLow ==
  ASSUME IInv
  PROVE  /\ \A p : LeftOf(p) = LeftIn(pages, p)
         /\ \A p : Low(p) = LowIn(pages, p)
BY PoolIs DEF LeftOf, Low, LeftIn, LowIn

(* No thread is ever at a page right of the key it looks for, nor has one  *)
(* on its stack: whatever the threads do, however late separators are      *)
(* posted and wherever they go, GoRight and the second descent never start *)
(* too far right, where no link leads back.                                *)
THEOREM NeverPast == Spec => []NeverPastKey
<1>1. IInv /\ FInv => NeverPastKey
  <2> SUFFICES ASSUME IInv, FInv PROVE NeverPastKey
    OBVIOUS
  <2>1. ASSUME NEW t \in Thread, pc[t] \notin {"idle", "return"}
        PROVE  /\ LowIn(pages, cur[t]) <= SoughtKey(t)
               /\ \A i \in DOMAIN stack[t] : LowIn(pages, stack[t][i]) <= SoughtKey(t)
    <3> DEFINE low(p) == LowIn(pages, p)
               k == SoughtKey(t)
    <3>1. Seeking(pages, cur[t], stack[t], k) /\ Pool(pages, nextFree)
      BY <2>1, PoolIs DEF FInv, Guided
    <3>2. k \in Int /\ stack[t] \in Seq(DOMAIN pages)
      BY <2>1, ThreadPlace, KeyInt
    <3>3. \A p : low(p) \in Int
      BY <3>1, LowType
    <3>4. low(cur[t]) <= k /\ \A i \in 1 .. Len(stack[t]) : low(stack[t][i]) <= low(cur[t])
      BY <3>1 DEF Seeking
    <3> HIDE DEF low, k
    <3>5. \A i \in 1 .. Len(stack[t]) : low(stack[t][i]) <= k
      BY <3>2, <3>3, <3>4
    <3>6. DOMAIN stack[t] = 1 .. Len(stack[t])
      BY <3>2
    <3> QED  BY <3>4, <3>5, <3>6 DEF low, k
  <2> QED  BY <2>1, LowIsLow DEF NeverPastKey
<1> QED  BY FencesInvariance, <1>1, PTL

-----------------------------------------------------------------------------
(***************************************************************************)
(* The B-link tree keeps its shape and its map for any threads, workload,  *)
(* capacities and keys, as long as no second descent starts at a root      *)
(* below the level its separator is for (RedescentHigh).  Without that a   *)
(* separator goes into a leaf as if it were a key: sibling_race.cfg.       *)
(***************************************************************************)

-----------------------------------------------------------------------------
(* The shape of any pool P of pages. *)

(* Page p leads down to page d. *)
Leads(node, d) ==
  node.level > 0 /\ (node.refs[1] = d \/ \E x : Holds(node, x, d))
Reached(P, d) == \E p \in DOMAIN P : Leads(P[p], d)

Shaped(P, p) ==
  /\ Distinct(P[p].keys)
  /\ LowIn(P, p) < P[p].high
  /\ \A x, y : Holds(P[p], x, y) => x < P[p].high
  /\ P[p].level > 0 =>
       /\ \E x, y : Holds(P[p], x, y)
       /\ \A x, y : Holds(P[p], x, y) => LowIn(P, p) < x
       /\ \A d : Leads(P[p], d) => P[d].level = P[p].level - 1

(* The pages of a level are apart. *)
Disjoint(P) ==
  \A p, q \in DOMAIN P :
    p # q /\ P[p].level = P[q].level =>
      P[p].high <= LowIn(P, q) \/ P[q].high <= LowIn(P, p)

Shape(P) == Disjoint(P) /\ \A p \in DOMAIN P : Shaped(P, p)

LevelsKept(P, Q) == \A p \in DOMAIN P : p \in DOMAIN Q /\ Q[p].level = P[p].level

LEMMA LeadsType ==
  ASSUME NEW n, NEW P, Pool(P, n), NEW p \in DOMAIN P, NEW d, Leads(P[p], d)
  PROVE  d \in DOMAIN P /\ d # n
BY PoolFacts DEF Leads

(* A page that stays as it is keeps its shape, if no fence and no level    *)
(* has changed.                                                            *)
LEMMA ShapedKept ==
  ASSUME NEW n, NEW P, Pool(P, n), NEW Q, LowsKept(P, Q), LevelsKept(P, Q),
         NEW p \in DOMAIN P, Q[p] = P[p], Shaped(P, p)
  PROVE  Shaped(Q, p)
<1>1. LowIn(Q, p) = LowIn(P, p)
  BY DEF LowsKept
<1>2. ASSUME P[p].level > 0, NEW d, Leads(P[p], d)
      PROVE  Q[d].level = P[p].level - 1
  BY <1>2, LeadsType DEF LevelsKept, Shaped
<1> QED  BY <1>1, <1>2 DEF Shaped

(* Only one page leads to a page: where its fence lies.                    *)
LEMMA LedFence ==
  ASSUME NEW n, NEW P, Pool(P, n), NEW p \in DOMAIN P, Fenced(P, p), Shaped(P, p),
         NEW d, Leads(P[p], d)
  PROVE  /\ LowIn(P, p) <= LowIn(P, d) /\ LowIn(P, d) < P[p].high
         /\ P[p].level = P[d].level + 1
<1>1. LowIn(P, p) \in Int /\ P[p].level \in Nat
  BY PoolFacts, LowType
<1>2. P[p].level > 0 /\ P[d].level = P[p].level - 1
  BY DEF Leads, Shaped
<1>3. CASE P[p].refs[1] = d
  BY <1>1, <1>2, <1>3 DEF Fenced, Shaped
<1>4. CASE \E x : Holds(P[p], x, d)
  BY <1>1, <1>2, <1>4 DEF Fenced, Shaped
<1> QED  BY <1>3, <1>4 DEF Leads

LEMMA OneAt ==
  ASSUME NEW n, NEW P, Pool(P, n), Shape(P), NEW p \in DOMAIN P, NEW q \in DOMAIN P,
         P[p].level = P[q].level, NEW k \in Int,
         LowIn(P, p) <= k, k < P[p].high, LowIn(P, q) <= k, k < P[q].high
  PROVE  p = q
<1>1. /\ LowIn(P, p) \in Int /\ LowIn(P, q) \in Int
      /\ P[p].high \in Int /\ P[q].high \in Int
  BY PoolFacts, LowType
<1>2. p # q => P[p].high <= LowIn(P, q) \/ P[q].high <= LowIn(P, p)
  BY DEF Shape, Disjoint
<1> QED  BY <1>1, <1>2

LEMMA OneParent ==
  ASSUME NEW n, NEW P, Pool(P, n), NEW r, Fences(P, r), Shape(P), NEW d,
         NEW p \in DOMAIN P, Leads(P[p], d), NEW q \in DOMAIN P, Leads(P[q], d)
  PROVE  p = q
<1>1. /\ LowIn(P, p) <= LowIn(P, d) /\ LowIn(P, d) < P[p].high
      /\ LowIn(P, q) <= LowIn(P, d) /\ LowIn(P, d) < P[q].high
      /\ P[p].level = P[q].level
  BY LedFence DEF Shape, Fences
<1> QED  BY <1>1, LowType, OneAt

(* The page that a separator is posted to has neither it nor its page yet. *)
LEMMA Unposted ==
  ASSUME NEW n, NEW P, Pool(P, n), NEW r, Fences(P, r), Shape(P),
         NEW c \in DOMAIN P, NEW v \in DOMAIN P, P[c].level = P[v].level + 1,
         LowIn(P, c) <= LowIn(P, v), ~Reached(P, v)
  PROVE  LowIn(P, c) < LowIn(P, v) /\ ~HasKey(P[c], LowIn(P, v))
<1>0. /\ P[v].level \in Nat /\ P[c].level > 0 /\ LowIn(P, v) \in Int /\ LowIn(P, c) \in Int
      /\ n \in Nat /\ NodeOK(P[c], n)
  BY PoolFacts, LowType
<1>1. Fenced(P, c) /\ Shaped(P, c) /\ Shaped(P, v)
  BY DEF Shape, Fences
<1>2. ASSUME NEW d, Leads(P[c], d), LowIn(P, d) = LowIn(P, v) PROVE FALSE
  <2>1. d \in DOMAIN P /\ P[d].level = P[v].level /\ Shaped(P, d)
    BY <1>0, <1>1, <1>2, LeadsType DEF Shaped, Shape
  <2>2. d = v
    BY <1>0, <1>1, <1>2, <2>1, OneAt DEF Shaped
  <2> QED  BY <1>2, <2>2 DEF Reached
<1>3. LowIn(P, c) # LowIn(P, v)
  BY <1>0, <1>1, <1>2 DEF Fenced, Leads
<1>4. ~HasKey(P[c], LowIn(P, v))
  <2> SUFFICES ASSUME HasKey(P[c], LowIn(P, v)) PROVE FALSE
    OBVIOUS
  <2>1. PICK y : Holds(P[c], LowIn(P, v), y)
    BY <1>0, HasKeyHolds
  <2>2. Leads(P[c], y) /\ LowIn(P, y) = LowIn(P, v)
    BY <1>0, <1>1, <2>1 DEF Leads, Fenced
  <2> QED  BY <1>2, <2>2
<1> QED  BY <1>0, <1>3, <1>4

-----------------------------------------------------------------------------
(* Writing entries to page c. *)

LEMMA RewrittenShape ==
  ASSUME NEW n, NEW P, Pool(P, n), Shape(P), NEW c \in DOMAIN P,
         NEW node, NEW Q, Rewritten(P, Q, c, node), Distinct(node.keys),
         NEW k, NEW v, k < P[c].high,
         \A x, y : Holds(node, x, y) => Holds(P[c], x, y) \/ (x = k /\ y = v),
         P[c].level > 0 =>
           /\ LowIn(P, c) < k /\ P[v].level = P[c].level - 1 /\ v \in DOMAIN P
           /\ node.refs[1] = P[c].refs[1]
           /\ \E x, y : Holds(node, x, y)
  PROVE  Shape(Q) /\ LevelsKept(P, Q)
<1>1. /\ DOMAIN Q = DOMAIN P /\ Q[c] = node
      /\ \A p \in DOMAIN P : p # c => Q[p] = P[p]
      /\ \A p \in DOMAIN P : /\ Q[p].level = P[p].level /\ Q[p].high = P[p].high
                             /\ Q[p].rlink = P[p].rlink
      /\ LowsKept(P, Q)
      /\ \A p : LeftIn(Q, p) = LeftIn(P, p)
  BY RewrittenIs
<1>2. LevelsKept(P, Q)
  BY <1>1 DEF LevelsKept
<1>3. Disjoint(Q)
  BY <1>1 DEF LowsKept, Disjoint, Shape
<1>4. Shaped(P, c)
  BY DEF Shape
<1>5. Shaped(Q, c)
  <2>1. LowIn(Q, c) = LowIn(P, c) /\ node.level = P[c].level /\ node.high = P[c].high
    BY <1>1 DEF LowsKept
  <2>2. \A x, y : Holds(node, x, y) => x < P[c].high
    BY <1>4 DEF Shaped
  <2>3. ASSUME P[c].level > 0
        PROVE  /\ \A x, y : Holds(node, x, y) => LowIn(P, c) < x
               /\ \A d : Leads(node, d) => Q[d].level = P[c].level - 1
    <3>1. \A x, y : Holds(node, x, y) => LowIn(P, c) < x
      BY <1>4, <2>3 DEF Shaped
    <3>2. \A d : Leads(node, d) => Leads(P[c], d) \/ d = v
      BY <2>1, <2>3 DEF Leads
    <3>3. \A d : Leads(P[c], d) => d \in DOMAIN P /\ P[d].level = P[c].level - 1
      BY <1>4, <2>3, LeadsType DEF Shaped
    <3> QED  BY <1>1, <2>3, <3>1, <3>2, <3>3
  <2> QED  BY <1>1, <1>4, <2>1, <2>2, <2>3 DEF Shaped
<1>6. \A p \in DOMAIN Q : Shaped(Q, p)
  BY <1>1, <1>2, <1>5, ShapedKept DEF Shape
<1> QED  BY <1>2, <1>3, <1>6 DEF Shape

(* Which pages are reached afterwards. *)
LEMMA RewrittenReached ==
  ASSUME NEW n, NEW P, Pool(P, n), NEW c \in DOMAIN P,
         NEW node, NEW Q, Rewritten(P, Q, c, node), NEW v,
         P[c].level > 0 =>
           /\ node.refs[1] = P[c].refs[1]
           /\ \E k : \A x, y : Holds(node, x, y) <=> Holds(P[c], x, y) \/ (x = k /\ y = v)
  PROVE  /\ P[c].level > 0 => \A d : Reached(Q, d) <=> Reached(P, d) \/ d = v
         /\ ~(P[c].level > 0) => \A d : Reached(Q, d) <=> Reached(P, d)
<1>1. /\ DOMAIN Q = DOMAIN P /\ Q[c] = node
      /\ \A p \in DOMAIN P : p # c => Q[p] = P[p]
      /\ node.level = P[c].level
  BY RewrittenIs DEF Rewritten
<1>2. P[c].level > 0 => \A d : Leads(node, d) <=> Leads(P[c], d) \/ d = v
  BY <1>1 DEF Leads
<1>3. ~(P[c].level > 0) => \A d : ~Leads(node, d) /\ ~Leads(P[c], d)
  BY <1>1 DEF Leads
<1> QED  BY <1>1, <1>2, <1>3 DEF Reached

-----------------------------------------------------------------------------
(* Splitting page c. *)

LEMMA EntryIn ==
  ASSUME NEW n \in Nat, NEW node, NodeOK(node, n), Len(node.keys) > 0
  PROVE  \E x, y : Holds(node, x, y)
<1>1. 1 \in 1 .. Len(node.keys)
  BY NodeFacts
<1> QED  BY <1>1 DEF Holds

(* What page c and the new page say of themselves after a split. *)
HalvesFit(P, c, halves, v) ==
  LET s == halves.sep
      l == halves.left
      h == halves.right
      lev == P[c].level
  IN
  /\ LowIn(P, c) < s /\ s < P[c].high /\ s \in Int
  /\ Distinct(l.keys) /\ Distinct(h.keys)
  /\ \A x, y : Holds(l, x, y) => x < s
  /\ \A x, y : Holds(h, x, y) => x < P[c].high
  /\ lev > 0 =>
       /\ \E x, y : Holds(l, x, y)
       /\ \E x, y : Holds(h, x, y)
       /\ \A x, y : Holds(l, x, y) => LowIn(P, c) < x
       /\ \A x, y : Holds(h, x, y) => s < x
       /\ \A d : Leads(l, d) \/ Leads(h, d) <=> Leads(P[c], d) \/ d = v
       /\ \A d : Leads(l, d) \/ Leads(h, d) => d \in DOMAIN P /\ P[d].level = lev - 1

LEMMA HalvesShaped ==
  ASSUME NEW n, NEW P, Pool(P, n), NEW c \in DOMAIN P, Fenced(P, c), Shaped(P, c),
         NEW halves, SplitOK(P[c], halves, n),
         NEW k, NEW v, LowIn(P, c) <= k, k < P[c].high, ~HasKey(P[c], k),
         P[c].level > 0 =>
           LowIn(P, c) < k /\ P[v].level = P[c].level - 1 /\ v \in DOMAIN P,
         NEW up, Halved(P[c], halves, k, v, up), P[c].level > 0 => up
  PROVE  HalvesFit(P, c, halves, v)
<1> DEFINE s == halves.sep
           l == halves.left
           h == halves.right
           lev == P[c].level
<1>1. /\ n \in Nat /\ n + 1 \in Nat /\ LowIn(P, c) \in Int /\ s \in Int
      /\ NodeOK(l, n + 1) /\ NodeOK(h, n + 1)
      /\ l.level = lev /\ h.level = lev
  <2>1. n \in Nat /\ LowIn(P, c) \in Int
    BY PoolFacts, LowType
  <2> QED  BY <2>1, KeyInt DEF SplitOK
<1>2. /\ Distinct(P[c].keys)
      /\ \A x, y : Holds(P[c], x, y) => LowIn(P, c) <= x /\ x < P[c].high
      /\ lev > 0 => \A x, y : Holds(P[c], x, y) => LowIn(P, c) < x
      /\ lev > 0 => \A d : Leads(P[c], d) => P[d].level = lev - 1
  BY DEF Fenced, Shaped
<1>3. /\ \E y : Holds(P[c], s, y)
      /\ lev > 0 => l.refs[1] = P[c].refs[1] /\ up /\ Holds(P[c], s, h.refs[1])
      /\ \A x, y : Holds(l, x, y) \/ Holds(h, x, y) => Holds(P[c], x, y) \/ (x = k /\ y = v)
      /\ \A x, y : Holds(P[c], x, y) \/ (x = k /\ y = v) =>
           \/ Holds(l, x, y) \/ Holds(h, x, y)
           \/ up /\ x = s /\ (lev > 0 => y = h.refs[1])
      /\ Len(l.keys) > 0 /\ Len(h.keys) > 0
      /\ Distinct(l.keys) /\ Distinct(h.keys)
      /\ \A x, y : Holds(l, x, y) => x < s
      /\ up => \A x, y : Holds(h, x, y) => s < x
  BY <1>2 DEF Halved
<1> HIDE DEF s, l, h, lev
<1>4. (\E x, y : Holds(l, x, y)) /\ \E x, y : Holds(h, x, y)
  BY <1>1, <1>3, EntryIn
<1>5. \A x, y : Holds(l, x, y) => x \in Int
  BY <1>1, HoldsType, KeyInt
<1>6. LowIn(P, c) < s /\ s < P[c].high
  <2>1. s < P[c].high
    BY <1>2, <1>3
  <2>2. PICK x, y : Holds(l, x, y)
    BY <1>4
  <2>3. LowIn(P, c) <= x /\ x < s
    BY <1>2, <1>3, <2>2
  <2> QED  BY <1>1, <1>5, <2>1, <2>2, <2>3
<1>7. \A x, y : Holds(h, x, y) => x < P[c].high
  BY <1>2, <1>3
<1>8. ASSUME lev > 0
      PROVE  /\ \A x, y : Holds(l, x, y) => LowIn(P, c) < x
             /\ \A x, y : Holds(h, x, y) => s < x
             /\ \A d : Leads(l, d) \/ Leads(h, d) <=> Leads(P[c], d) \/ d = v
             /\ \A d : Leads(l, d) \/ Leads(h, d) => d \in DOMAIN P /\ P[d].level = lev - 1
  <2>0. LowIn(P, c) < k /\ P[v].level = lev - 1 /\ v \in DOMAIN P /\ P[c].level > 0
    BY <1>8 DEF lev
  <2>1. \A x, y : Holds(l, x, y) => LowIn(P, c) < x
    BY <1>2, <1>3, <1>8, <2>0
  <2>2. \A x, y : Holds(h, x, y) => s < x
    BY <1>3, <1>8
  <2>3. ASSUME NEW d
        PROVE  Leads(l, d) \/ Leads(h, d) <=> Leads(P[c], d) \/ d = v
    <3>1. /\ Leads(l, d) <=> l.refs[1] = d \/ \E x : Holds(l, x, d)
          /\ Leads(h, d) <=> h.refs[1] = d \/ \E x : Holds(h, x, d)
          /\ Leads(P[c], d) <=> P[c].refs[1] = d \/ \E x : Holds(P[c], x, d)
      BY <1>1, <1>8, <2>0 DEF Leads
    <3>2. Leads(l, d) \/ Leads(h, d) => Leads(P[c], d) \/ d = v
      BY <1>3, <1>8, <3>1
    <3>3. Leads(P[c], d) \/ d = v => Leads(l, d) \/ Leads(h, d)
      BY <1>3, <1>8, <3>1
    <3> QED  BY <3>2, <3>3
  <2>4. \A d : Leads(P[c], d) => d \in DOMAIN P /\ P[d].level = lev - 1
    BY <1>2, <1>8, LeadsType
  <2> QED  BY <2>0, <2>1, <2>2, <2>3, <2>4
<1>9. Distinct(l.keys) /\ Distinct(h.keys) /\ \A x, y : Holds(l, x, y) => x < s
  BY <1>3
<1> QED  BY <1>1, <1>4, <1>6, <1>7, <1>8, <1>9 DEF HalvesFit, s, l, h, lev

SplitEffect(P, Q, n, c, v) ==
  /\ Shape(Q) /\ LevelsKept(P, Q) /\ Q[n].level = P[c].level
  /\ \A d : Reached(Q, d) <=> Reached(P, d) \/ (P[c].level > 0 /\ d = v)
  /\ \A p \in DOMAIN P : LeftIn(P, p) # {} => LeftIn(Q, p) # {}
  /\ LeftIn(Q, n) # {}

LEMMA SplitShape ==
  ASSUME NEW n, NEW P, Pool(P, n), NEW r, Fences(P, r), Shape(P), NEW c \in DOMAIN P,
         NEW halves, SplitOK(P[c], halves, n), NEW Q, SplitAt(P, Q, n, c, halves),
         NEW k, NEW v, LowIn(P, c) <= k, k < P[c].high, ~HasKey(P[c], k),
         P[c].level > 0 =>
           LowIn(P, c) < k /\ P[v].level = P[c].level - 1 /\ v \in DOMAIN P,
         NEW up, Halved(P[c], halves, k, v, up), P[c].level > 0 => up
  PROVE  SplitEffect(P, Q, n, c, v)
<1> DEFINE s == halves.sep
           l == halves.left
           h == halves.right
           lev == P[c].level
<1>0. n \in Nat /\ n \notin DOMAIN P
  BY PoolFacts
<1>1. /\ DOMAIN Q = DOMAIN P \cup {n} /\ Q[n] = h /\ Q[c] = l
      /\ \A p \in DOMAIN P : p # c => Q[p] = P[p]
      /\ LowsKept(P, Q) /\ LowIn(Q, n) = s
  <2>1. /\ Pool(P, n) /\ Chain(P) /\ c \in DOMAIN P /\ SplitOK(P[c], halves, n)
        /\ SplitAt(P, Q, n, c, halves)
    BY DEF Fences
  <2>2. /\ DOMAIN Q = DOMAIN P \cup {n}
        /\ Q[n] = halves.right /\ Q[c] = halves.left
        /\ \A p \in DOMAIN P : p # c => Q[p] = P[p]
        /\ Chain(Q) /\ LowsKept(P, Q) /\ LowIn(Q, n) = halves.sep
        /\ \A p \in DOMAIN P : LeftIn(P, p) = {} => LeftIn(Q, p) = {}
    BY ONLY <2>1, SplitIs
  <2> QED  BY <2>2
<1>2. /\ l.level = lev /\ h.level = lev /\ l.high = s /\ h.high = P[c].high
      /\ l.rlink = n /\ h.rlink = P[c].rlink
  BY DEF SplitOK
<1>3. /\ LowIn(P, c) < s /\ s < P[c].high /\ s \in Int
      /\ Distinct(l.keys) /\ Distinct(h.keys)
      /\ \A x, y : Holds(l, x, y) => x < s
      /\ \A x, y : Holds(h, x, y) => x < P[c].high
      /\ lev > 0 =>
           /\ \E x, y : Holds(l, x, y)
           /\ \E x, y : Holds(h, x, y)
           /\ \A x, y : Holds(l, x, y) => LowIn(P, c) < x
           /\ \A x, y : Holds(h, x, y) => s < x
           /\ \A d : Leads(l, d) \/ Leads(h, d) <=> Leads(P[c], d) \/ d = v
           /\ \A d : Leads(l, d) \/ Leads(h, d) => d \in DOMAIN P /\ P[d].level = lev - 1
  <2>1. Fenced(P, c) /\ Shaped(P, c)
    BY DEF Fences, Shape
  <2>2. HalvesFit(P, c, halves, v)
    BY <2>1, HalvesShaped
  <2> QED  BY <2>2 DEF HalvesFit
<1>4. P[c].level = lev
  OBVIOUS
<1> HIDE DEF s, l, h, lev
<1>5. LevelsKept(P, Q) /\ Q[n].level = lev
  BY <1>1, <1>2, <1>4 DEF LevelsKept
<1>6. LowIn(Q, c) = LowIn(P, c)
  BY <1>1 DEF LowsKept
<1>7. lev > 0 => \A d : Leads(l, d) \/ Leads(h, d) => Q[d].level = lev - 1
  BY <1>3, <1>5 DEF LevelsKept
<1>8. Shaped(Q, c) /\ Shaped(Q, n)
  BY <1>1, <1>2, <1>3, <1>6, <1>7 DEF Shaped
<1>9. \A p \in DOMAIN Q : Shaped(Q, p)
  BY <1>1, <1>5, <1>8, ShapedKept DEF Shape
<1>10. Disjoint(Q)
  <2> SUFFICES ASSUME NEW p \in DOMAIN Q, NEW q \in DOMAIN Q, p # q, Q[p].level = Q[q].level
               PROVE  Q[p].high <= LowIn(Q, q) \/ Q[q].high <= LowIn(Q, p)
    BY DEF Disjoint
  <2> DEFINE low(x) == LowIn(P, x)
             top(x) == P[x].high
  <2>1. /\ \A x : low(x) \in Int
        /\ \A x \in DOMAIN P : top(x) \in Int
        /\ \A x \in DOMAIN P : LowIn(Q, x) = low(x)
        /\ \A x \in DOMAIN P : Q[x].level = P[x].level
    BY <1>1, <1>5, LowType, PoolFacts DEF LowsKept, LevelsKept
  <2>2. \A x \in DOMAIN P : x # c => Q[x].high = top(x)
    BY <1>1
  <2>3. Q[c].high = s /\ Q[n].high = top(c) /\ low(c) < s /\ s < top(c)
    BY <1>1, <1>2, <1>3
  <2>4. \A x \in DOMAIN P : x # c /\ P[x].level = lev => top(x) <= low(c) \/ top(c) <= low(x)
    BY <1>4 DEF Shape, Disjoint
  <2>5. p \in DOMAIN P /\ q \in DOMAIN P => top(p) <= low(q) \/ top(q) <= low(p)
    BY <2>1 DEF Shape, Disjoint
  <2> HIDE DEF low, top
  <2>6. CASE p # n /\ q # n
    <3>1. p \in DOMAIN P /\ q \in DOMAIN P
      BY <1>1, <2>6
    <3>2. CASE p # c /\ q # c
      BY <2>1, <2>2, <2>5, <3>1, <3>2
    <3>3. CASE p = c
      BY <1>3, <2>1, <2>2, <2>3, <2>5, <3>1, <3>3
    <3>4. CASE q = c
      BY <1>3, <2>1, <2>2, <2>3, <2>5, <3>1, <3>4
    <3> QED  BY <3>2, <3>3, <3>4
  <2>7. CASE p = n
    <3>1. q \in DOMAIN P /\ P[q].level = lev
      BY <1>1, <1>5, <2>1, <2>7
    <3>2. CASE q = c
      BY <1>1, <1>3, <2>3, <2>7, <3>2
    <3>3. CASE q # c
      BY <1>1, <1>3, <2>1, <2>2, <2>3, <2>4, <2>7, <3>1, <3>3
    <3> QED  BY <3>2, <3>3
  <2>8. CASE q = n
    <3>1. p \in DOMAIN P /\ P[p].level = lev
      BY <1>1, <1>5, <2>1, <2>8
    <3>2. CASE p = c
      BY <1>1, <1>3, <2>3, <2>8, <3>2
    <3>3. CASE p # c
      BY <1>1, <1>3, <2>1, <2>2, <2>3, <2>4, <2>8, <3>1, <3>3
    <3> QED  BY <3>2, <3>3
  <2> QED  BY <2>6, <2>7, <2>8
<1>11. ASSUME NEW d
       PROVE  Reached(Q, d) <=> Reached(P, d) \/ (lev > 0 /\ d = v)
  <2>1. Reached(Q, d) <=>
          \/ Leads(l, d) \/ Leads(h, d)
          \/ \E p \in DOMAIN P : p # c /\ Leads(P[p], d)
    BY <1>0, <1>1 DEF Reached
  <2>2. Reached(P, d) <=> Leads(P[c], d) \/ \E p \in DOMAIN P : p # c /\ Leads(P[p], d)
    BY DEF Reached
  <2>3. ~(lev > 0) => ~Leads(l, d) /\ ~Leads(h, d) /\ ~Leads(P[c], d)
    BY <1>2, <1>4 DEF Leads
  <2> QED  BY <1>3, <2>1, <2>2, <2>3
<1>12. LeftIn(Q, n) # {} /\ \A p \in DOMAIN P : LeftIn(P, p) # {} => LeftIn(Q, p) # {}
  <2>1. c \in LeftIn(Q, n)
    BY <1>1, <1>2 DEF LeftIn
  <2>2. ASSUME NEW p \in DOMAIN P, NEW q \in LeftIn(P, p) PROVE LeftIn(Q, p) # {}
    <3>1. q = c => n \in LeftIn(Q, p)
      BY <1>1, <1>2 DEF LeftIn
    <3>2. q # c => q \in LeftIn(Q, p)
      BY <1>1 DEF LeftIn
    <3> QED  BY <3>1, <3>2
  <2> QED  BY <2>1, <2>2
<1> QED  BY <1>4, <1>5, <1>9, <1>10, <1>11, <1>12 DEF Shape, SplitEffect

-----------------------------------------------------------------------------
(* A new root. *)

LEMMA RootShape ==
  ASSUME NEW n, NEW P, Pool(P, n), NEW r \in DOMAIN P, Fences(P, r), Shape(P),
         \A p \in DOMAIN P : P[p].level <= P[r].level,
         NEW node, NEW Q, RootAbove(P, Q, n, node),
         NEW s, NEW v \in DOMAIN P, LowIn(P, v) = s, s < MaxKey,
         LeftIn(P, v) # {}, P[v].level = P[r].level,
         node.level = P[r].level + 1, Distinct(node.keys),
         node.rlink = NoPage, node.high = MaxKey, node.refs[1] = r,
         \A x, y : Holds(node, x, y) <=> x = s /\ y = v
  PROVE  /\ Shape(Q) /\ LevelsKept(P, Q)
         /\ \A p \in DOMAIN Q : Q[p].level <= Q[n].level
         /\ \A d : Reached(Q, d) <=> Reached(P, d) \/ d = r \/ d = v
         /\ \A p \in DOMAIN P : LeftIn(Q, p) = LeftIn(P, p)
<1>1. /\ DOMAIN Q = DOMAIN P \cup {n} /\ n \notin DOMAIN P
      /\ Q[n] = node /\ \A p \in DOMAIN P : Q[p] = P[p]
      /\ LowsKept(P, Q) /\ LeftIn(Q, n) = {} /\ LowIn(Q, n) = 0
      /\ \A p \in DOMAIN P : LeftIn(Q, p) = LeftIn(P, p)
  <2>1. Pool(P, n) /\ RootAbove(P, Q, n, node) /\ node.rlink = NoPage
    OBVIOUS
  <2> QED  BY ONLY <2>1, RootIs
<1>2. LevelsKept(P, Q)
  BY <1>1 DEF LevelsKept
<1>3. \A p \in DOMAIN P : P[p].level \in Nat /\ p # NoPage
  BY PoolFacts
<1>4. 0 < s
  <2>1. PICK q \in DOMAIN P : P[q].rlink = v
    BY DEF LeftIn
  <2>2. LowIn(P, v) = P[q].high
    BY <1>3, <2>1, LowIs DEF Fences
  <2>3. LowIn(P, q) < P[q].high /\ LowIn(P, q) \in Key /\ P[q].high \in Int
    BY LowType, PoolFacts DEF Shape, Shaped
  <2>4. 0 <= LowIn(P, q) /\ LowIn(P, q) \in Int
    BY <2>3, CapacityAssumption DEF Key
  <2> QED  BY <2>2, <2>3, <2>4
<1>5. \A d : Leads(node, d) <=> d = r \/ d = v
  <2>1. node.level > 0
    BY <1>3
  <2> QED  BY <2>1 DEF Leads
<1>6. Shaped(Q, n)
  <2>1. \A d : Leads(node, d) => Q[d].level = node.level - 1
    BY <1>1, <1>3, <1>5
  <2>2. 0 < MaxKey
    <3>1. s \in Int
      BY LowType
    <3> QED  BY <1>4, <3>1, CapacityAssumption
  <2> QED  BY <1>1, <1>4, <2>1, <2>2 DEF Shaped
<1>7. \A p \in DOMAIN Q : Shaped(Q, p)
  BY <1>1, <1>2, <1>6, ShapedKept DEF Shape
<1>8. \A p \in DOMAIN P : P[p].level < node.level
  BY <1>3
<1>9. Disjoint(Q)
  <2> SUFFICES ASSUME NEW p \in DOMAIN Q, NEW q \in DOMAIN Q, p # q, Q[p].level = Q[q].level
               PROVE  Q[p].high <= LowIn(Q, q) \/ Q[q].high <= LowIn(Q, p)
    BY DEF Disjoint
  <2>1. p \in DOMAIN P /\ q \in DOMAIN P
    BY <1>1, <1>3, <1>8
  <2> QED  BY <1>1, <2>1 DEF LowsKept, Shape, Disjoint
<1>10. \A d : Reached(Q, d) <=> Reached(P, d) \/ d = r \/ d = v
  BY <1>1, <1>5 DEF Reached
<1>11. \A p \in DOMAIN Q : Q[p].level <= Q[n].level
  BY <1>1, <1>3
<1> QED  BY <1>1, <1>2, <1>7, <1>9, <1>10, <1>11 DEF Shape

-----------------------------------------------------------------------------
(* A thread at page c has come down through the pages of st, one from each *)
(* level.                                                                  *)
Climb(P, c, st) ==
  \A i \in 1 .. Len(st) : P[st[i]].level = P[c].level + Len(st) + 1 - i

LEMMA ClimbKept ==
  ASSUME NEW P, NEW Q, LevelsKept(P, Q), NEW c \in DOMAIN P, NEW st \in Seq(DOMAIN P),
         Climb(P, c, st)
  PROVE  Climb(Q, c, st)
<1>1. \A i \in 1 .. Len(st) : st[i] \in DOMAIN P
  OBVIOUS
<1> QED  BY <1>1 DEF Climb, LevelsKept

LEMMA ClimbDown ==
  ASSUME NEW n, NEW P, Pool(P, n), NEW c \in DOMAIN P, NEW d,
         P[d].level = P[c].level - 1, NEW st \in Seq(DOMAIN P), Climb(P, c, st)
  PROVE  Climb(P, d, Append(st, c))
<1> DEFINE new == Append(st, c)
           m == Len(st)
           top == P[c].level
<1>1. /\ m \in Nat /\ Len(new) = m + 1 /\ new[m + 1] = c
      /\ \A i \in 1 .. m : new[i] = st[i]
  OBVIOUS
<1>2. top \in Nat /\ P[d].level = top - 1
  BY PoolFacts
<1>3. \A i \in 1 .. m : P[st[i]].level = top + m + 1 - i
  BY DEF Climb
<1> HIDE DEF new, m
<1>4. ASSUME NEW i \in 1 .. m + 1
      PROVE  P[new[i]].level = (top - 1) + (m + 1) + 1 - i
  <2>1. CASE i = m + 1
    <3>1. P[new[i]].level = top
      BY <1>1, <2>1
    <3> HIDE DEF top
    <3> QED  BY <1>1, <1>2, <2>1, <3>1
  <2>2. CASE i \in 1 .. m
    <3>1. P[new[i]].level = top + m + 1 - i
      BY <1>1, <1>3, <2>2
    <3> HIDE DEF top
    <3> QED  BY <1>1, <1>2, <2>2, <3>1
  <2> QED  BY <1>1, <2>1, <2>2
<1> QED  BY <1>1, <1>2, <1>4 DEF Climb, new

LEMMA ClimbUp ==
  ASSUME NEW n, NEW P, Pool(P, n), NEW c \in DOMAIN P, NEW st \in Seq(DOMAIN P),
         st # <<>>, Climb(P, c, st)
  PROVE  P[Last(st)].level = P[c].level + 1 /\ Climb(P, Last(st), Front(st))
<1> DEFINE m == Len(st)
           top == P[c].level
           f == Front(st)
<1>1. m \in Nat /\ m > 0 /\ m \in 1 .. m /\ Last(st) = st[m]
  BY DEF Last
<1>2. Len(f) = m - 1 /\ \A i \in 1 .. m - 1 : f[i] = st[i]
  BY FrontIs
<1>3. top \in Nat
  BY PoolFacts
<1>4. \A i \in 1 .. m : P[st[i]].level = top + m + 1 - i
  BY DEF Climb
<1> HIDE DEF m, f, top
<1>5. P[st[m]].level = top + 1
  <2>1. P[st[m]].level = top + m + 1 - m
    BY <1>1, <1>4
  <2> QED  BY <1>1, <1>3, <2>1
<1>6. ASSUME NEW i \in 1 .. m - 1
      PROVE  P[f[i]].level = (top + 1) + (m - 1) + 1 - i
  <2>1. P[f[i]].level = top + m + 1 - i
    <3>1. i \in 1 .. m
      BY <1>1
    <3> QED  BY <1>2, <1>4, <3>1
  <2>2. top + m + 1 - i = (top + 1) + (m - 1) + 1 - i
    BY <1>1, <1>3
  <2> QED  BY <2>1, <2>2
<1>7. Climb(P, st[m], f)
  BY <1>2, <1>5, <1>6 DEF Climb
<1> QED  BY <1>1, <1>5, <1>7 DEF f, top

-----------------------------------------------------------------------------
(* The invariant. *)

(* No separator is for a level above the root that its thread found when   *)
(* it went down a second time.                                             *)
RedescentHigh == \A t \in Thread : pc[t] = "redescend" => drop[t] <= level[t]

(* Each page but the root has a parent, or is carried: by one thread, as   *)
(* long as it has no parent.                                               *)
Carried ==
  /\ \A t, u \in Owing : t # u => child[t] # child[u]
  /\ \A t \in Owing : ~Reached(pages, child[t]) /\ LeftIn(pages, child[t]) # {}
  /\ \A p \in DOMAIN pages :
       \/ p = root \/ Reached(pages, p)
       \/ LeftIn(pages, p) # {} /\ \E t \in Owing : child[t] = p

Raising(t) == pc[t] \in {"rootLock", "rootCheck"} /\ cur[t] = root

TopOK ==
  /\ \A p \in DOMAIN pages : pages[p].level <= pages[root].level
  /\ pages[root].rlink # NoPage => \E t \in Thread : Raising(t)

Placed(t) ==
  pc[t] \notin {"idle", "return"} =>
    /\ Climb(pages, cur[t], stack[t])
    /\ pc[t] \in {"rootLock", "rootCheck", "latchRedescend", "redescend"} =>
         level[t] = pages[cur[t]].level
    /\ pc[t] \in {"rootLock", "rootCheck", "reload"} => level[t] = pages[child[t]].level
    /\ pc[t] \in {"reload", "latchRedescend", "redescend"} =>
         drop[t] = pages[child[t]].level + 1
    /\ pc[t] \in {"latchPost", "post"} => pages[cur[t]].level = pages[child[t]].level + 1

SInv == Shape(pages) /\ Carried /\ TopOK /\ \A t \in Thread : Placed(t)

(* What a step of t leaves alone, besides Frame(t). *)
Apart(t) == \A u \in Thread \ {t} : level'[u] = level[u] /\ drop'[u] = drop[u]

LEMMA Framed ==
  ASSUME IInv, NEW t \in Thread, Step(t)
  PROVE  Frame(t) /\ Apart(t)
<1>1. ThreadTypes
  BY Parts
<1>2. CASE \/ LatchDescend(t) \/ LatchRead(t) \/ LatchWrite(t) \/ LatchPost(t)
           \/ LatchRedescend(t)
  BY <1>1, <1>2 DEF LatchDescend, LatchRead, LatchWrite, LatchPost, LatchRedescend,
     LatchShared, LatchExclusive, Goto, carry, ThreadTypes, Frame, Apart
<1>3. CASE \/ DescendRight(t) \/ ReadRight(t) \/ GoRightLeaf(t)
           \/ RedescendRight(t) \/ GoRightInter(t)
  BY <1>1, <1>3 DEF DescendRight, ReadRight, GoRightLeaf, RedescendRight, GoRightInter,
     Goto, Visit, carry, ThreadTypes, Frame, Apart
<1>4. CASE DescendDown(t) \/ RedescendDown(t) \/ ReloadRoot(t)
  BY <1>1, <1>4 DEF DescendDown, RedescendDown, ReloadRoot, Goto, Visit, carry,
     ThreadTypes, Frame, Apart
<1>5. CASE ReachLeaf(t) \/ LockRoot(t) \/ RootMoved(t) \/ RedescendStop(t)
  BY <1>1, <1>5 DEF ReachLeaf, LockRoot, RootMoved, RedescendStop, Goto, carry,
     ThreadTypes, Frame, Apart
<1>6. CASE Read(t) \/ InsertDuplicate(t) \/ Insert(t) \/ Delete(t)
  BY <1>1, <1>6 DEF Read, InsertDuplicate, Insert, Delete, Goto, carry,
     ThreadTypes, Frame, Apart
<1>7. CASE CreateNewRoot(t) \/ PostSeparator(t)
  BY <1>1, <1>7 DEF CreateNewRoot, PostSeparator, Goto, carry, ThreadTypes, Frame, Apart
<1>8. CASE SplitLeaf(t) \/ SplitInter(t)
  <2>1. PICK s, c, l : Carry(t, s, c, l)
    BY <1>8 DEF SplitLeaf, SplitInter
  <2>2. Propagate(t) /\ UNCHANGED <<call, drop>>
    BY <1>8 DEF SplitLeaf, SplitInter
  <2> QED  BY <1>1, <2>1, <2>2 DEF Propagate, Carry, Goto, Visit, ThreadTypes, Frame, Apart
<1>9. CASE Start(t)
  <2>1. PICK c : call' = [call EXCEPT ![t] = c]
    BY <1>9 DEF Start
  <2> QED  BY <1>1, <1>9, <2>1 DEF Start, Goto, Visit, carry, ThreadTypes, Frame, Apart
<1>10. CASE Return(t)
  BY <1>1, <1>10 DEF Return, Goto, Visit, Carry, ThreadTypes, Frame, Apart
<1>11. CASE Abort(t)
  BY <1>11 DEF Abort, carry, Frame, Apart
<1> QED
  BY <1>2, <1>3, <1>4, <1>5, <1>6, <1>7, <1>8, <1>9, <1>10, <1>11 DEF Step

LEMMA PlacedKept ==
  ASSUME IInv, NEW t \in Thread, Frame(t), Apart(t), LevelsKept(pages, pages'),
         NEW u \in Thread, u # t, Placed(u)
  PROVE  Placed(u)'
<1>1. /\ pc'[u] = pc[u] /\ cur'[u] = cur[u] /\ stack'[u] = stack[u]
      /\ child'[u] = child[u] /\ level'[u] = level[u] /\ drop'[u] = drop[u]
  BY DEF Frame, Apart
<1> SUFFICES ASSUME pc[u] \notin {"idle", "return"} PROVE Placed(u)'
  BY <1>1 DEF Placed
<1>2. cur[u] \in DOMAIN pages /\ stack[u] \in Seq(DOMAIN pages)
  BY ThreadPlace
<1>3. u \in Owing => child[u] \in DOMAIN pages
  BY ThreadPlace
<1>4. Climb(pages', cur[u], stack[u])
  BY <1>2, ClimbKept DEF Placed
<1>5. /\ pages'[cur[u]].level = pages[cur[u]].level
      /\ u \in Owing => pages'[child[u]].level = pages[child[u]].level
  BY <1>2, <1>3 DEF LevelsKept
<1> QED  BY <1>1, <1>4, <1>5 DEF Placed, Owing

LEMMA ShapeStep ==
  ASSUME IInv, SInv, NEW t \in Thread, Frame(t), Apart(t), LevelsKept(pages, pages'),
         Shape(pages'), Carried', TopOK', Placed(t)'
  PROVE  SInv'
<1>1. ASSUME NEW u \in Thread, u # t PROVE Placed(u)'
  BY <1>1, PlacedKept DEF SInv
<1> QED  BY <1>1 DEF SInv

(* Steps that change no page. *)
LEMMA ShapeStill ==
  ASSUME IInv, SInv, NEW t \in Thread, Step(t), UNCHANGED <<pages, root>>,
         (t \in Owing)' <=> t \in Owing, t \in Owing => child'[t] = child[t],
         Raising(t) => Raising(t)', Placed(t)'
  PROVE  SInv'
<1>1. Frame(t) /\ Apart(t) /\ LevelsKept(pages, pages') /\ Shape(pages')
  BY Framed DEF LevelsKept, SInv
<1>2. \A u \in Thread : ((u \in Owing)' <=> u \in Owing) /\ (u \in Owing => child'[u] = child[u])
  BY <1>1 DEF Frame, Owing
<1>3. Owing' = Owing
  BY <1>2 DEF Owing
<1>4. Carried'
  BY <1>2, <1>3 DEF SInv, Carried, Owing
<1>5. TopOK'
  <2>1. ASSUME NEW u \in Thread, Raising(u) PROVE Raising(u)'
    BY <1>1, <2>1 DEF Frame, Raising
  <2> QED  BY <2>1 DEF SInv, TopOK
<1> QED  BY <1>1, <1>4, <1>5, ShapeStep

(* Steps to another place in the code, at the same page. *)
LEMMA StaysShaped ==
  ASSUME IInv, SInv, RedescentHigh, NEW t \in Thread,
         \/ LatchDescend(t) \/ LatchRead(t) \/ LatchWrite(t) \/ LatchPost(t)
         \/ LatchRedescend(t) \/ ReachLeaf(t) \/ LockRoot(t) \/ RootMoved(t)
         \/ RedescendStop(t)
  PROVE  SInv'
<1>1. ThreadTypes /\ Placed(t)
  BY Parts DEF SInv
<1>2. UNCHANGED <<pages, root, call, cur, stack, sep, child, level>>
  BY DEF LatchDescend, LatchRead, LatchWrite, LatchPost, LatchRedescend, ReachLeaf,
         LockRoot, RootMoved, RedescendStop, LatchShared, LatchExclusive, shared, carry
<1>3. Step(t)
  BY DEF Step
<1>4. ASSUME NEW to,
             \/ pc[t] = "latchDescend" /\ to = "descend"
             \/ pc[t] = "latchRead" /\ to = "read"
             \/ pc[t] = "latchWrite" /\ to = "write"
             \/ pc[t] = "latchPost" /\ to = "post"
             \/ pc[t] = "latchRedescend" /\ to = "redescend"
             \/ pc[t] = "descend" /\ to \in {"latchRead", "latchWrite"}
             \/ pc[t] = "rootLock" /\ to = "rootCheck",
             pc' = [pc EXCEPT ![t] = to], UNCHANGED drop
      PROVE  SInv'
  <2>1. pc'[t] = to
    BY <1>1, <1>4 DEF ThreadTypes
  <2>2. /\ (t \in Owing)' <=> t \in Owing
        /\ Raising(t) => Raising(t)'
    BY <1>2, <1>4, <2>1 DEF Owing, Raising
  <2>3. Placed(t)'
    BY <1>1, <1>2, <1>4, <2>1 DEF Placed
  <2> QED  BY <1>2, <1>3, <2>2, <2>3, ShapeStill
<1>5. CASE LatchDescend(t) \/ LatchRead(t) \/ LatchRedescend(t)
  <2>1. UNCHANGED drop
    BY <1>5 DEF LatchDescend, LatchRead, LatchRedescend, LatchShared, carry
  <2> QED
    BY <1>4, <1>5, <2>1 DEF LatchDescend, LatchRead, LatchRedescend, LatchShared, At, Goto
<1>6. CASE LatchWrite(t) \/ LatchPost(t) \/ LockRoot(t)
  <2>1. UNCHANGED drop
    BY <1>6 DEF LatchWrite, LatchPost, LockRoot, LatchExclusive, carry
  <2> QED  BY <1>4, <1>6, <2>1 DEF LatchWrite, LatchPost, LockRoot, LatchExclusive, At, Goto
<1>7. CASE ReachLeaf(t)
  <2>1. UNCHANGED drop /\ pc[t] = "descend"
    BY <1>7 DEF ReachLeaf, At, carry
  <2>2. PICK to \in {"latchRead", "latchWrite"} : pc' = [pc EXCEPT ![t] = to]
    BY <1>7 DEF ReachLeaf, Goto
  <2> QED  BY <1>4, <2>1, <2>2
<1>8. CASE RootMoved(t)
  <2>1. /\ pc[t] = "rootCheck" /\ root # cur[t]
        /\ pc' = [pc EXCEPT ![t] = "reload"] /\ drop' = [drop EXCEPT ![t] = level[t] + 1]
    BY <1>8 DEF RootMoved, At, Goto
  <2>2. pc'[t] = "reload" /\ drop'[t] = level[t] + 1
    BY <1>1, <2>1 DEF ThreadTypes
  <2>3. /\ (t \in Owing)' <=> t \in Owing
        /\ ~Raising(t)
    BY <2>1, <2>2 DEF Owing, Raising
  <2>4. Placed(t)'
    BY <1>1, <1>2, <2>1, <2>2 DEF Placed
  <2> QED  BY <1>2, <1>3, <2>3, <2>4, ShapeStill
<1>9. CASE RedescendStop(t)
  <2>1. /\ pc[t] = "redescend" /\ level[t] <= drop[t] /\ UNCHANGED drop
        /\ pc' = [pc EXCEPT ![t] = "latchPost"]
    BY <1>9 DEF RedescendStop, At, Goto, carry
  <2>2. pc'[t] = "latchPost" /\ level[t] = drop[t]
    <3>1. drop[t] <= level[t]
      BY <2>1 DEF RedescentHigh
    <3>2. level[t] \in Nat /\ drop[t] \in Nat
      BY <1>1 DEF ThreadTypes
    <3>3. pc'[t] = "latchPost"
      BY <1>1, <2>1 DEF ThreadTypes
    <3> QED  BY <2>1, <3>1, <3>2, <3>3
  <2>3. /\ (t \in Owing)' <=> t \in Owing
        /\ ~Raising(t)
    BY <2>1, <2>2 DEF Owing, Raising
  <2>4. Placed(t)'
    BY <1>1, <1>2, <2>1, <2>2 DEF Placed
  <2> QED  BY <1>2, <1>3, <2>3, <2>4, ShapeStill
<1> QED  BY <1>5, <1>6, <1>7, <1>8, <1>9

LEMMA ClimbSame ==
  ASSUME NEW P, NEW c, NEW d, NEW st, Climb(P, c, st), P[d].level = P[c].level
  PROVE  Climb(P, d, st)
BY DEF Climb

LEMMA RightShaped ==
  ASSUME IInv, SInv, NEW t \in Thread,
         \/ DescendRight(t) \/ ReadRight(t) \/ GoRightLeaf(t)
         \/ RedescendRight(t) \/ GoRightInter(t)
  PROVE  SInv'
<1> DEFINE p == Here(t).rlink
<1>1. /\ pc[t] \in {"descend", "read", "write", "redescend", "post"}
      /\ pc' = [pc EXCEPT ![t] = CASE pc[t] = "descend" -> "latchDescend"
                                   [] pc[t] = "read" -> "latchRead"
                                   [] pc[t] = "write" -> "latchWrite"
                                   [] pc[t] = "redescend" -> "latchRedescend"
                                   [] pc[t] = "post" -> "latchPost"]
      /\ cur' = [cur EXCEPT ![t] = p] /\ p # NoPage
  BY DEF DescendRight, ReadRight, GoRightLeaf, RedescendRight, GoRightInter, At, Goto, Visit
<1>2. UNCHANGED <<pages, root, stack, child, level, drop>>
  BY DEF DescendRight, ReadRight, GoRightLeaf, RedescendRight, GoRightInter, shared, carry
<1>3. ThreadTypes /\ Placed(t) /\ Step(t)
  BY Parts DEF SInv, Step
<1>4. pages[p].level = pages[cur[t]].level
  BY <1>1, HereFacts DEF Here
<1>5. /\ cur'[t] = p
      /\ pc[t] = "redescend" => pc'[t] = "latchRedescend"
      /\ pc[t] = "post" => pc'[t] = "latchPost"
      /\ pc[t] \in {"descend", "read", "write"} =>
           pc'[t] \in {"latchDescend", "latchRead", "latchWrite"}
  BY <1>1, <1>3 DEF ThreadTypes
<1>6. /\ (t \in Owing)' <=> t \in Owing
      /\ ~Raising(t)
  BY <1>1, <1>5 DEF Owing, Raising
<1> HIDE DEF p
<1>7. Climb(pages, p, stack[t])
  BY <1>1, <1>3, <1>4, ClimbSame DEF Placed
<1>8. Placed(t)'
  BY <1>1, <1>2, <1>3, <1>4, <1>5, <1>7 DEF Placed
<1> QED  BY <1>2, <1>3, <1>6, <1>8, ShapeStill

LEMMA DownShaped ==
  ASSUME IInv, FInv, SInv, NEW t \in Thread, DescendDown(t) \/ RedescendDown(t)
  PROVE  SInv'
<1> DEFINE k == SoughtKey(t)
           p == InterGet(Here(t), k)
           st == Append(stack[t], cur[t])
<1>1. /\ pc[t] \in {"descend", "redescend"}
      /\ pc' = [pc EXCEPT ![t] = IF pc[t] = "descend" THEN "latchDescend" ELSE "latchRedescend"]
      /\ cur' = [cur EXCEPT ![t] = p] /\ stack' = [stack EXCEPT ![t] = st]
  BY DEF DescendDown, RedescendDown, At, Goto, Visit, SoughtKey, Owing
<1>2. UNCHANGED <<pages, root, child, drop>>
  BY DEF DescendDown, RedescendDown, shared, carry
<1>3. pc[t] = "redescend" => level' = [level EXCEPT ![t] = level[t] - 1]
  BY DEF DescendDown, RedescendDown, At
<1>4. /\ ThreadTypes /\ Placed(t) /\ cur[t] \in DOMAIN pages /\ k \in Key
      /\ stack[t] \in Seq(DOMAIN pages) /\ Step(t)
      /\ Pool(pages, nextFree) /\ Shaped(pages, cur[t]) /\ ThreadOK(t)
  BY <1>1, Parts, ThreadPlace, PoolIs DEF SInv, Shape, Step
<1>5. pages[cur[t]].level > 0
  <2>1. level[t] \in Nat /\ drop[t] \in Nat
    BY <1>4 DEF ThreadTypes
  <2> QED  BY <1>1, <1>4, <2>1 DEF DescendDown, RedescendDown, At, Here, ThreadOK
<1>6. /\ cur'[t] = p /\ stack'[t] = st
      /\ pc[t] = "descend" => pc'[t] = "latchDescend"
      /\ pc[t] = "redescend" => pc'[t] = "latchRedescend" /\ level'[t] = level[t] - 1
  BY <1>1, <1>3, <1>4 DEF ThreadTypes
<1>7. /\ (t \in Owing)' <=> t \in Owing
      /\ ~Raising(t)
  BY <1>1, <1>6 DEF Owing, Raising
<1>8. pages[p].level = pages[cur[t]].level - 1
  <2>1. NodeOK(Here(t), nextFree) /\ nextFree \in Nat
    BY <1>1, HereFacts
  <2> HIDE DEF k
  <2>2. p = Here(t).refs[1] \/ \E x : Holds(Here(t), x, p)
    BY <1>4, <1>5, <2>1, InterGetHolds DEF Here
  <2> HIDE DEF p
  <2>3. Leads(pages[cur[t]], p)
    BY <1>5, <2>2 DEF Leads, Here
  <2> QED  BY <1>4, <1>5, <2>3 DEF Shaped
<1> HIDE DEF k, p
<1>9. Climb(pages, p, st)
  BY <1>1, <1>4, <1>8, ClimbDown DEF Placed
<1> HIDE DEF st
<1>10. Placed(t)'
  BY <1>1, <1>2, <1>4, <1>6, <1>8, <1>9 DEF Placed
<1> QED  BY <1>2, <1>4, <1>7, <1>10, ShapeStill

LEMMA TopShaped ==
  ASSUME IInv, FInv, SInv, NEW t \in Thread, Start(t) \/ ReloadRoot(t)
  PROVE  SInv'
<1>1. ThreadTypes /\ Placed(t) /\ Guided(t) /\ Step(t)
  BY Parts DEF FInv, SInv, Step
<1>2. CASE Start(t)
  <2>1. /\ UNCHANGED <<pages, root>>
        /\ stack' = [stack EXCEPT ![t] = <<>>] /\ pc[t] = "idle"
        /\ pc' = [pc EXCEPT ![t] = "latchDescend"]
    BY <1>2 DEF Start, At, Visit, Goto, shared, carry
  <2>2. pc'[t] = "latchDescend" /\ stack'[t] = <<>>
    BY <1>1, <2>1 DEF ThreadTypes
  <2>3. t \notin Owing /\ (t \notin Owing)' /\ ~Raising(t)
    BY <2>1, <2>2 DEF Owing, Raising
  <2>4. Placed(t)'
    BY <2>2 DEF Placed, Climb
  <2> QED  BY <1>1, <2>1, <2>3, <2>4, ShapeStill
<1>3. CASE ReloadRoot(t)
  <2>1. /\ UNCHANGED <<pages, root, stack, child, drop>>
        /\ cur' = [cur EXCEPT ![t] = root] /\ pc[t] = "reload"
        /\ pc' = [pc EXCEPT ![t] = "latchRedescend"]
        /\ level' = [level EXCEPT ![t] = pages[root].level]
    BY <1>3 DEF ReloadRoot, At, Visit, Goto, shared
  <2>2. /\ pc'[t] = "latchRedescend" /\ cur'[t] = root /\ stack[t] = <<>>
        /\ level'[t] = pages[root].level
    BY <1>1, <2>1 DEF ThreadTypes, Guided
  <2>3. /\ (t \in Owing)' <=> t \in Owing
        /\ ~Raising(t)
    BY <2>1, <2>2 DEF Owing, Raising
  <2>4. Placed(t)'
    BY <1>1, <2>1, <2>2 DEF Placed, Climb
  <2> QED  BY <1>1, <2>1, <2>3, <2>4, ShapeStill
<1> QED  BY <1>2, <1>3

LEMMA AnsweredShaped ==
  ASSUME IInv, SInv, NEW t \in Thread, Read(t) \/ InsertDuplicate(t) \/ Return(t) \/ Abort(t)
  PROVE  SInv'
<1>1. ThreadTypes /\ Step(t) /\ UNCHANGED <<pages, root>>
  BY Parts DEF Step, Read, InsertDuplicate, Return, Abort, shared
<1>2. CASE Read(t) \/ InsertDuplicate(t) \/ Return(t)
  <2>1. pc[t] \in {"read", "write", "return"} /\ pc'[t] \in {"return", "idle"}
    BY <1>1, <1>2 DEF Read, InsertDuplicate, AtLeafOf, Return, At, Goto, ThreadTypes
  <2>2. t \notin Owing /\ (t \notin Owing)' /\ ~Raising(t) /\ Placed(t)'
    BY <2>1 DEF Owing, Raising, Placed
  <2> QED  BY <1>1, <2>2, ShapeStill
<1>3. CASE Abort(t)
  <2>1. UNCHANGED <<pc, cur, stack, child, level, drop>>
    BY <1>3 DEF Abort, carry
  <2>2. /\ (t \in Owing)' <=> t \in Owing
        /\ Raising(t) => Raising(t)'
        /\ Placed(t)'
    BY <1>1, <2>1 DEF Owing, Raising, Placed, SInv
  <2> QED  BY <1>1, <2>1, <2>2, ShapeStill
<1> QED  BY <1>2, <1>3

-----------------------------------------------------------------------------
(* Steps that write pages. *)

(* A step that leads to the pages of G as well, and may take page n.       *)
LEMMA CarriedStep ==
  ASSUME IInv, FInv, SInv, NEW t \in Thread, Frame(t), NEW n, n = nextFree,
         DOMAIN pages' \subseteq DOMAIN pages \cup {n},
         \A p \in DOMAIN pages : LeftIn(pages, p) # {} => LeftIn(pages', p) # {},
         NEW G, \A d : Reached(pages', d) <=> Reached(pages, d) \/ d \in G,
         n \notin G, \A u \in Owing : u # t => child[u] \notin G,
         t \in Owing => child[t] \in G,
         (t \in Owing)' => child'[t] = n /\ LeftIn(pages', n) # {},
         n \in DOMAIN pages' => root' = n \/ ((t \in Owing)' /\ child'[t] = n),
         root' = root \/ root \in G
  PROVE  Carried'
<1>1. Pool(pages, n) /\ \A u \in Owing : child[u] \in DOMAIN pages
  <2>1. \A u \in Owing : u \in Thread
    BY DEF Owing
  <2> QED  BY <2>1, PoolIs, ThreadPlace
<1>2. ~Reached(pages, n) /\ n \notin DOMAIN pages
  BY <1>1, PoolFacts, LeadsType DEF Reached
<1>3. /\ \A u, w \in Owing : u # w => child[u] # child[w]
      /\ \A u \in Owing : ~Reached(pages, child[u]) /\ LeftIn(pages, child[u]) # {}
      /\ \A p \in DOMAIN pages :
           \/ p = root \/ Reached(pages, p)
           \/ LeftIn(pages, p) # {} /\ \E u \in Owing : child[u] = p
  BY DEF SInv, Carried
<1>4. \A u \in Thread : u # t => ((u \in Owing)' <=> u \in Owing) /\ child'[u] = child[u]
  BY DEF Frame, Owing
<1>5. \A u : (u \in Owing => u \in Thread) /\ ((u \in Owing)' => u \in Thread)
  BY DEF Owing
<1>6. ASSUME NEW u, (u \in Owing)', u # t
      PROVE  /\ u \in Owing /\ child'[u] = child[u] /\ child[u] # n
             /\ ~Reached(pages', child[u]) /\ LeftIn(pages', child[u]) # {}
  <2>1. u \in Owing /\ child'[u] = child[u] /\ child[u] \in DOMAIN pages
    BY <1>1, <1>4, <1>5, <1>6
  <2> QED  BY <1>2, <1>3, <1>6, <2>1
<1>7. ASSUME NEW u, (u \in Owing)', NEW w, (w \in Owing)', u # w
      PROVE  child'[u] # child'[w]
  <2>1. CASE u # t /\ w # t
    BY <1>3, <1>6, <1>7, <2>1
  <2>2. CASE u = t
    BY <1>6, <1>7, <2>2
  <2>3. CASE w = t
    BY <1>6, <1>7, <2>3
  <2> QED  BY <2>1, <2>2, <2>3
<1>8. ASSUME NEW u, (u \in Owing)'
      PROVE  ~Reached(pages', child'[u]) /\ LeftIn(pages', child'[u]) # {}
  <2>1. CASE u = t
    BY <1>2, <1>8, <2>1
  <2>2. CASE u # t
    BY <1>6, <1>8, <2>2
  <2> QED  BY <2>1, <2>2
<1>9. ASSUME NEW p \in DOMAIN pages'
      PROVE  \/ p = root' \/ Reached(pages', p)
             \/ LeftIn(pages', p) # {} /\ \E u : (u \in Owing)' /\ child'[u] = p
  <2>1. CASE p = n
    BY <1>9, <2>1
  <2>2. CASE p \in DOMAIN pages
    <3>1. CASE p = root \/ Reached(pages, p)
      BY <3>1
    <3>2. CASE LeftIn(pages, p) # {} /\ \E u \in Owing : child[u] = p
      <4>1. PICK u \in Owing : child[u] = p
        BY <3>2
      <4>2. CASE u = t
        BY <4>1, <4>2
      <4>3. CASE u # t
        BY <1>4, <1>5, <2>2, <3>2, <4>1, <4>3
      <4> QED  BY <4>2, <4>3
    <3> QED  BY <1>3, <2>2, <3>1, <3>2
  <2> QED  BY <1>9, <2>1, <2>2
<1> QED  BY <1>7, <1>8, <1>9 DEF Carried

LEMMA TopStep ==
  ASSUME IInv, SInv, NEW t \in Thread, Frame(t), ~Raising(t), UNCHANGED root,
         LevelsKept(pages, pages'), NEW n, DOMAIN pages' \subseteq DOMAIN pages \cup {n},
         n \in DOMAIN pages' => pages'[n].level <= pages[root].level,
         \/ pages'[root].rlink = pages[root].rlink
         \/ Raising(t)'
  PROVE  TopOK'
<1>1. root \in DOMAIN pages /\ pages'[root].level = pages[root].level
  BY PoolIs DEF LevelsKept
<1>2. \A p \in DOMAIN pages' : pages'[p].level <= pages[root].level
  BY DEF SInv, TopOK, LevelsKept
<1>3. ASSUME pages[root].rlink # NoPage PROVE \E u \in Thread : Raising(u)'
  <2>1. PICK u \in Thread : Raising(u)
    BY <1>3 DEF SInv, TopOK
  <2>2. Raising(u)'
    BY <2>1 DEF Frame, Raising
  <2> QED  BY <2>2
<1> QED  BY <1>1, <1>2, <1>3 DEF TopOK

LEMMA WriteShape ==
  ASSUME IInv, FInv, SInv, NEW t \in Thread, pc[t] \in {"write", "post"},
         Frame(t), Apart(t), UNCHANGED root, pc'[t] = "return",
         NEW node, Write(t, node), Distinct(node.keys),
         node.level = Here(t).level, node.high = Here(t).high, node.rlink = Here(t).rlink,
         NEW k, NEW v, k < Here(t).high,
         \A x, y : Holds(node, x, y) => Holds(Here(t), x, y) \/ (x = k /\ y = v),
         Here(t).level > 0 <=> t \in Owing,
         t \in Owing =>
           /\ LowIn(pages, cur[t]) < k /\ v = child[t]
           /\ EntryAdded(Here(t), node, k, v)
  PROVE  SInv'
<1> DEFINE c == cur[t]
           G == IF t \in Owing THEN {v} ELSE {}
<1>1. /\ Pool(pages, nextFree) /\ Shape(pages) /\ c \in DOMAIN pages
      /\ root \in DOMAIN pages /\ pages[c] = Here(t)
      /\ t \in Owing => child[t] \in DOMAIN pages
      /\ nextFree \notin DOMAIN pages
  <2>1. Pool(pages, nextFree) /\ root \in DOMAIN pages
    BY PoolIs
  <2> QED  BY <2>1, ThreadPlace, PoolFacts DEF SInv, Here
<1>2. Rewritten(pages, pages', c, node)
  BY DEF Write, Rewritten, Here
<1>3. /\ DOMAIN pages' = DOMAIN pages
      /\ \A p \in DOMAIN pages : pages'[p].rlink = pages[p].rlink
      /\ \A p : LeftIn(pages', p) = LeftIn(pages, p)
  BY <1>1, <1>2, RewrittenIs
<1>4. t \in Owing =>
        /\ pages[v].level = pages[c].level - 1
        /\ node.refs[1] = pages[c].refs[1]
        /\ \E x, y : Holds(node, x, y)
        /\ \A x, y : Holds(node, x, y) <=> Holds(pages[c], x, y) \/ (x = k /\ y = v)
  <2> SUFFICES ASSUME t \in Owing
               PROVE  /\ pages[v].level = pages[c].level - 1
                      /\ node.refs[1] = pages[c].refs[1]
                      /\ \E x, y : Holds(node, x, y)
                      /\ \A x, y : Holds(node, x, y) <=> Holds(pages[c], x, y) \/ (x = k /\ y = v)
    OBVIOUS
  <2>1. /\ node.refs[1] = pages[c].refs[1]
        /\ \A x, y : Holds(node, x, y) <=> Holds(pages[c], x, y) \/ (x = k /\ y = v)
    BY <1>1 DEF EntryAdded
  <2>2. pages[c].level = pages[v].level + 1
    BY DEF SInv, Placed, Owing
  <2>3. pages[v].level \in Nat
    BY <1>1, PoolFacts
  <2>4. pages[v].level = pages[c].level - 1
    BY <2>2, <2>3
  <2> QED  BY <2>1, <2>4
<1>5. Shape(pages') /\ LevelsKept(pages, pages')
  <2> DEFINE P == pages
             Q == pages'
             o == t \in Owing
  <2>1. /\ Pool(P, nextFree) /\ Shape(P) /\ c \in DOMAIN P /\ Rewritten(P, Q, c, node)
        /\ Distinct(node.keys) /\ k < P[c].high
        /\ \A x, y : Holds(node, x, y) => Holds(P[c], x, y) \/ (x = k /\ y = v)
        /\ P[c].level > 0 =>
             /\ LowIn(P, c) < k /\ P[v].level = P[c].level - 1 /\ v \in DOMAIN P
             /\ node.refs[1] = P[c].refs[1]
             /\ \E x, y : Holds(node, x, y)
    BY <1>1, <1>2, <1>4
  <2> HIDE DEF P, Q, c
  <2>2. Shape(Q) /\ LevelsKept(P, Q)
    BY ONLY <2>1, RewrittenShape
  <2> QED  BY <2>2 DEF P, Q
<1>6. \A d : Reached(pages', d) <=> Reached(pages, d) \/ d \in G
  BY <1>1, <1>2, <1>4, RewrittenReached
<1>7. t \notin Owing' /\ ~Raising(t)
  BY DEF Owing, Raising
<1>8. Carried'
  <2>1. nextFree \notin G
    BY <1>1
  <2>2. \A u \in Owing : u # t => child[u] \notin G
    BY DEF SInv, Carried
  <2> HIDE DEF G
  <2>3. t \in Owing => child[t] \in G
    BY DEF G
  <2> QED  BY <1>1, <1>3, <1>6, <1>7, <2>1, <2>2, <2>3, CarriedStep
<1>9. TopOK'
  <2>1. nextFree \notin DOMAIN pages'
    BY <1>1, <1>3
  <2> QED  BY <1>1, <1>3, <1>5, <1>7, <2>1, TopStep
<1>10. Placed(t)'
  BY DEF Placed
<1> QED  BY <1>5, <1>8, <1>9, <1>10, ShapeStep

LEMMA LeafWriteShaped ==
  ASSUME IInv, FInv, SInv, NEW t \in Thread, Insert(t) \/ Delete(t)
  PROVE  SInv'
<1> DEFINE k == SearchKey(t)
           v == call[t].val
           node == Here(t)
<1>1. /\ pc[t] = "write" /\ ~(k >= node.high) /\ UNCHANGED root
      /\ pc' = [pc EXCEPT ![t] = "return"] /\ Step(t)
  BY DEF Insert, Delete, AtLeafOf, At, HasSplit, Goto, Step
<1>2. /\ ThreadTypes /\ Shaped(pages, cur[t])
      /\ nextFree \in Nat /\ NodeOK(node, nextFree) /\ node.level = 0
      /\ k \in Key /\ v \in Nat /\ node \in Node
  <2>1. cur[t] \in DOMAIN pages
    BY <1>1, ThreadPlace
  <2> QED  BY <1>1, <2>1, HereFacts, Parts DEF ThreadOK, Here, NodeOK, SInv, Shape
<1>3. pc'[t] = "return" /\ Frame(t) /\ Apart(t)
  BY <1>1, <1>2, Framed DEF ThreadTypes
<1>4. k < node.high
  <2>1. k \in Int /\ node.high \in Int
    BY <1>2, NodeFacts, KeyInt
  <2> HIDE DEF k, node
  <2> QED  BY <1>1, <2>1
<1>5. \/ UNCHANGED <<pages, nextFree>>
      \/ ~HasKey(node, k) /\ Write(t, LeafInsert(node, k, v))
      \/ HasKey(node, k) /\ Write(t, LeafDelete(node, k))
  BY DEF Insert, Delete
<1>6. root' = root /\ Here(t) = node /\ Distinct(node.keys) /\ t \notin Owing
  BY <1>1, <1>2 DEF Shaped, Here, Owing
<1> HIDE DEF k, v, node
<1>7. CASE UNCHANGED <<pages, nextFree>>
  <2>1. (t \notin Owing)' /\ ~Raising(t) /\ Placed(t)'
    BY <1>1, <1>3 DEF Owing, Raising, Placed
  <2> QED  BY <1>1, <1>6, <1>7, <2>1, ShapeStill
<1>8. ASSUME NEW new, Write(t, new), Distinct(new.keys),
             new.level = node.level, new.high = node.high, new.rlink = node.rlink,
             \A x, y : Holds(new, x, y) => Holds(node, x, y) \/ (x = k /\ y = v)
      PROVE  SInv'
  <2>1. /\ new.level = Here(t).level /\ new.high = Here(t).high /\ new.rlink = Here(t).rlink
        /\ k < Here(t).high
        /\ \A x, y : Holds(new, x, y) => Holds(Here(t), x, y) \/ (x = k /\ y = v)
        /\ Here(t).level > 0 <=> t \in Owing
    BY <1>2, <1>4, <1>6, <1>8
  <2> QED  BY <1>1, <1>3, <1>6, <1>8, <2>1, WriteShape
<1>9. CASE ~HasKey(node, k) /\ Write(t, LeafInsert(node, k, v))
  <2> DEFINE new == LeafInsert(node, k, v)
  <2>1. new.level = node.level /\ new.high = node.high /\ new.rlink = node.rlink
    BY <1>2, InsertKeeps
  <2>2. EntryAdded(node, new, k, v)
    BY <1>2, LeafInsertHolds
  <2>3. Write(t, new) /\ ~HasKey(node, k)
    BY <1>9
  <2> HIDE DEF new
  <2> QED  BY <1>6, <1>8, <2>1, <2>2, <2>3 DEF EntryAdded
<1>10. CASE HasKey(node, k) /\ Write(t, LeafDelete(node, k))
  <2> DEFINE new == LeafDelete(node, k)
  <2>1. new.level = node.level /\ new.high = node.high /\ new.rlink = node.rlink
    BY <1>2, DeleteKeeps
  <2>2. EntryRemoved(node, new, k)
    BY <1>2, <1>10, DeleteHolds
  <2>3. Write(t, new)
    BY <1>10
  <2> HIDE DEF new
  <2> QED  BY <1>6, <1>8, <2>1, <2>2, <2>3 DEF EntryRemoved
<1> QED  BY <1>5, <1>7, <1>9, <1>10

(* Where a separator is posted. *)
LEMMA PostPlace ==
  ASSUME IInv, FInv, SInv, NEW t \in Thread, pc[t] = "post"
  PROVE  /\ t \in Owing /\ Here(t).level > 0 /\ child[t] \in DOMAIN pages
         /\ LowIn(pages, cur[t]) < sep[t] /\ LowIn(pages, cur[t]) <= sep[t]
         /\ LowIn(pages, child[t]) = sep[t] /\ sep[t] < MaxKey
         /\ pages[child[t]].level = Here(t).level - 1
         /\ ~HasKey(Here(t), sep[t])
<1>1. t \in Owing
  BY DEF Owing
<1>2. /\ Pool(pages, nextFree) /\ Fences(pages, root) /\ Shape(pages)
      /\ cur[t] \in DOMAIN pages /\ child[t] \in DOMAIN pages
      /\ Guided(t) /\ Placed(t) /\ ~Reached(pages, child[t])
  BY <1>1, PoolIs, ThreadPlace DEF FInv, SInv, Carried
<1>3. /\ LowIn(pages, child[t]) = sep[t] /\ sep[t] < MaxKey
      /\ LowIn(pages, cur[t]) <= sep[t]
  BY <1>1, <1>2 DEF Guided, Seeking, SoughtKey
<1>4. pages[cur[t]].level = pages[child[t]].level + 1 /\ pages[child[t]].level \in Nat
  BY <1>2, PoolFacts DEF Placed
<1>5. LowIn(pages, cur[t]) < sep[t] /\ ~HasKey(pages[cur[t]], sep[t])
  BY <1>2, <1>3, <1>4, Unposted
<1> QED  BY <1>1, <1>2, <1>3, <1>4, <1>5 DEF Here

LEMMA PostShaped ==
  ASSUME IInv, FInv, SInv, NEW t \in Thread, PostSeparator(t)
  PROVE  SInv'
<1> DEFINE k == sep[t]
           v == child[t]
           node == Here(t)
           new == InterInsert(node, k, v)
<1>1. /\ pc[t] = "post" /\ Write(t, new) /\ ~(k >= node.high) /\ UNCHANGED root
      /\ pc' = [pc EXCEPT ![t] = "return"] /\ Step(t)
  BY DEF PostSeparator, AtParent, At, HasSplit, Goto, Step
<1>2. /\ ThreadTypes /\ Shaped(pages, cur[t])
      /\ nextFree \in Nat /\ NodeOK(node, nextFree) /\ k \in Key /\ node \in Node
      /\ v \in DOMAIN pages /\ v \in Nat
  <2>1. cur[t] \in DOMAIN pages /\ child[t] \in DOMAIN pages
    BY <1>1, ThreadPlace, PostPlace
  <2> QED  BY <1>1, <2>1, HereFacts, Parts, PoolIs, PoolFacts DEF NodeOK, SInv, Shape
<1>3. pc'[t] = "return" /\ Frame(t) /\ Apart(t)
  BY <1>1, <1>2, Framed DEF ThreadTypes
<1>4. /\ t \in Owing /\ node.level > 0 /\ LowIn(pages, cur[t]) < k
      /\ ~HasKey(node, k) /\ Distinct(node.keys)
  BY <1>1, <1>2, PostPlace DEF Shaped, Here
<1>5. k < node.high
  <2>1. k \in Int /\ node.high \in Int
    BY <1>2, NodeFacts, KeyInt
  <2> HIDE DEF k, node
  <2> QED  BY <1>1, <2>1
<1>6. v = child[t] /\ node = Here(t) /\ root' = root
  BY <1>1
<1> HIDE DEF k, v, node
<1>7. new.level = node.level /\ new.high = node.high /\ new.rlink = node.rlink
  BY <1>2, InsertKeeps
<1>8. EntryAdded(node, new, k, v)
  BY <1>2, InterInsertHolds
<1> HIDE DEF new
<1>9. Distinct(new.keys) /\ \A x, y : Holds(new, x, y) => Holds(node, x, y) \/ (x = k /\ y = v)
  BY <1>4, <1>8 DEF EntryAdded
<1> QED  BY <1>1, <1>3, <1>4, <1>5, <1>6, <1>7, <1>8, <1>9, WriteShape

LEMMA NewRootShaped ==
  ASSUME IInv, FInv, SInv, NEW t \in Thread, CreateNewRoot(t)
  PROVE  SInv'
<1> DEFINE s == sep[t]
           v == child[t]
           n == nextFree
           node == RootNode(level[t], s, cur[t], v)
<1>1. /\ pc[t] = "rootCheck" /\ t \in Owing /\ Reserve(node) /\ root = cur[t]
      /\ root' = n /\ pc' = [pc EXCEPT ![t] = "return"] /\ Step(t)
  BY DEF CreateNewRoot, At, Goto, Owing, Step
<1>2. /\ ThreadTypes /\ Guided(t) /\ Placed(t) /\ level[t] \in Nat
      /\ v \in DOMAIN pages /\ root \in DOMAIN pages
      /\ Pool(pages, n) /\ Fences(pages, root) /\ Shape(pages) /\ TopOK
      /\ LeftIn(pages, root) = {} /\ LeftIn(pages, v) # {}
  BY <1>1, Parts, ThreadPlace, PoolIs DEF FInv, SInv, Carried, ThreadTypes, Fences
<1>3. pc'[t] = "return" /\ Frame(t) /\ Apart(t)
  BY <1>1, <1>2, Framed DEF ThreadTypes
<1>4. /\ LowIn(pages, v) = s /\ s < MaxKey
      /\ level[t] = pages[root].level /\ level[t] = pages[v].level
  BY <1>1, <1>2 DEF Guided, Placed
<1>5. /\ node.level = level[t] + 1 /\ node.rlink = NoPage /\ node.high = MaxKey
      /\ node.refs[1] = root /\ Distinct(node.keys)
      /\ \A x, y : Holds(node, x, y) <=> x = s /\ y = v
  BY <1>1, <1>2, RootNodeHolds
<1>6. RootAbove(pages, pages', n, node)
  BY <1>1 DEF Reserve, RootAbove
<1>7. v = child[t]
  OBVIOUS
<1> HIDE DEF s, v, node
<1>8. /\ Shape(pages') /\ LevelsKept(pages, pages')
      /\ \A p \in DOMAIN pages' : pages'[p].level <= pages'[n].level
      /\ \A d : Reached(pages', d) <=> Reached(pages, d) \/ d = root \/ d = v
      /\ \A p \in DOMAIN pages : LeftIn(pages', p) = LeftIn(pages, p)
  <2> DEFINE P == pages
             Q == pages'
             r == root
  <2>1. /\ Pool(P, n) /\ r \in DOMAIN P /\ Fences(P, r) /\ Shape(P)
        /\ \A p \in DOMAIN P : P[p].level <= P[r].level
        /\ RootAbove(P, Q, n, node) /\ v \in DOMAIN P
        /\ LowIn(P, v) = s /\ s < MaxKey /\ LeftIn(P, v) # {}
        /\ P[v].level = P[r].level /\ node.level = P[r].level + 1
        /\ Distinct(node.keys) /\ node.rlink = NoPage /\ node.high = MaxKey
        /\ node.refs[1] = r
        /\ \A x, y : Holds(node, x, y) <=> x = s /\ y = v
    BY <1>2, <1>4, <1>5, <1>6 DEF TopOK
  <2> HIDE DEF P, Q, r
  <2>2. /\ Shape(Q) /\ LevelsKept(P, Q)
        /\ \A p \in DOMAIN Q : Q[p].level <= Q[n].level
        /\ \A d : Reached(Q, d) <=> Reached(P, d) \/ d = r \/ d = v
        /\ \A p \in DOMAIN P : LeftIn(Q, p) = LeftIn(P, p)
    BY ONLY <2>1, RootShape
  <2> QED  BY <2>2 DEF P, Q, r
<1>9. /\ DOMAIN pages' = DOMAIN pages \cup {n} /\ n \notin DOMAIN pages
      /\ pages'[n] = node
  <2>1. n \in Nat /\ DOMAIN pages = 0 .. n - 1
    BY <1>2, PoolFacts
  <2>2. 0 .. n = DOMAIN pages \cup {n} /\ n \notin DOMAIN pages
    BY <2>1
  <2> QED  BY <1>6, <2>2 DEF RootAbove
<1>10. Carried'
  <2> DEFINE G == {root, v}
  <2>1. n \notin G /\ child[t] \in G
    BY <1>2, <1>7, <1>9
  <2>2. \A u \in Owing : u # t => child[u] \notin G
    BY <1>1, <1>2, <1>7 DEF SInv, Carried
  <2>3. (t \notin Owing)'
    BY <1>3 DEF Owing
  <2>4. \A d : Reached(pages', d) <=> Reached(pages, d) \/ d \in G
    BY <1>8
  <2>5. \A p \in DOMAIN pages : LeftIn(pages, p) # {} => LeftIn(pages', p) # {}
    BY <1>8
  <2>6. root \in G
    OBVIOUS
  <2>7. n = nextFree
    OBVIOUS
  <2> HIDE DEF G, n
  <2> QED  BY <1>1, <1>3, <1>9, <2>1, <2>2, <2>3, <2>4, <2>5, <2>6, <2>7, CarriedStep
<1>11. TopOK'
  BY <1>1, <1>5, <1>8, <1>9 DEF TopOK
<1>12. Placed(t)'
  BY <1>3 DEF Placed
<1> QED  BY <1>3, <1>8, <1>10, <1>11, <1>12, ShapeStep

-----------------------------------------------------------------------------
(* Splits: the new page is carried. *)
LEMMA SplitShaped ==
  ASSUME IInv, FInv, SInv, NEW t \in Thread, pc[t] \in {"write", "post"},
         Frame(t), Apart(t),
         NEW halves, SplitOK(Here(t), halves, nextFree), WriteSplit(t, halves),
         Carry(t, halves.sep, nextFree, Here(t).level),
         Propagate(t), UNCHANGED root,
         NEW k, k = SoughtKey(t), k < Here(t).high, ~HasKey(Here(t), k),
         NEW v, t \in Owing => v = child[t], Here(t).level > 0 <=> t \in Owing,
         Here(t).level > 0 =>
           /\ LowIn(pages, cur[t]) < k
           /\ pages[v].level = Here(t).level - 1 /\ v \in DOMAIN pages,
         NEW up, Halved(Here(t), halves, k, v, up), Here(t).level > 0 => up
  PROVE  SInv'
<1> DEFINE n == nextFree
           c == cur[t]
<1>1. /\ ThreadTypes /\ Guided(t) /\ Placed(t) /\ Pool(pages, n) /\ Fences(pages, root)
      /\ Shape(pages) /\ TopOK /\ root \in DOMAIN pages
      /\ c \in DOMAIN pages /\ stack[t] \in Seq(DOMAIN pages) /\ Here(t) = pages[c]
      /\ n \notin DOMAIN pages
  <2>1. Pool(pages, n)
    BY PoolIs
  <2> QED  BY <2>1, Parts, PoolIs, ThreadPlace, PoolFacts DEF FInv, SInv, Here
<1>2. LowIn(pages, c) <= k
  BY <1>1 DEF Guided, Seeking
<1>3. SplitAt(pages, pages', n, c, halves)
  BY DEF WriteSplit, SplitAt
<1>4. child'[t] = n /\ level'[t] = pages[c].level
  BY <1>1 DEF Carry, ThreadTypes
<1>5. \/ /\ stack[t] = <<>> /\ pc'[t] = "rootLock" /\ UNCHANGED <<cur, stack>>
      \/ /\ stack[t] # <<>> /\ pc'[t] = "latchPost"
         /\ cur'[t] = Last(stack[t]) /\ stack'[t] = Front(stack[t])
  BY <1>1 DEF Propagate, Goto, Visit, ThreadTypes
<1> HIDE DEF n, c
<1>6. /\ Shape(pages') /\ LevelsKept(pages, pages') /\ pages'[n].level = pages[c].level
      /\ \A d : Reached(pages', d) <=> Reached(pages, d) \/ (pages[c].level > 0 /\ d = v)
      /\ \A p \in DOMAIN pages : LeftIn(pages, p) # {} => LeftIn(pages', p) # {}
      /\ LeftIn(pages', n) # {}
  <2> DEFINE P == pages
             Q == pages'
             r == root
  <2>1. /\ Pool(P, n) /\ Fences(P, r) /\ Shape(P) /\ c \in DOMAIN P
        /\ SplitOK(P[c], halves, n) /\ SplitAt(P, Q, n, c, halves)
        /\ LowIn(P, c) <= k /\ k < P[c].high /\ ~HasKey(P[c], k)
        /\ P[c].level > 0 =>
             LowIn(P, c) < k /\ P[v].level = P[c].level - 1 /\ v \in DOMAIN P
        /\ Halved(P[c], halves, k, v, up) /\ (P[c].level > 0 => up)
    BY <1>1, <1>2, <1>3 DEF c, n
  <2> HIDE DEF P, Q, r
  <2>2. SplitEffect(P, Q, n, c, v)
    BY ONLY <2>1, SplitShape
  <2> QED  BY <2>2 DEF P, Q, SplitEffect
<1>7. /\ DOMAIN pages' = DOMAIN pages \cup {n}
      /\ \A p \in DOMAIN pages : p # c => pages'[p] = pages[p]
  <2>1. n \in Nat /\ DOMAIN pages = 0 .. n - 1
    BY <1>1, PoolFacts
  <2>2. 0 .. n = DOMAIN pages \cup {n} /\ n \notin DOMAIN pages
    BY <2>1
  <2> QED  BY <1>3, <2>2 DEF SplitAt
<1>8. (t \in Owing)' /\ ~Raising(t)
  BY <1>5 DEF Owing, Raising
<1>9. Carried'
  <2> DEFINE G == IF t \in Owing THEN {v} ELSE {}
  <2>1. n \notin G
    BY <1>1
  <2>2. \A u \in Owing : u # t => child[u] \notin G
    BY DEF SInv, Carried
  <2>3. \A d : Reached(pages', d) <=> Reached(pages, d) \/ d \in G
    BY <1>1, <1>6
  <2> HIDE DEF G
  <2>4. t \in Owing => child[t] \in G
    BY DEF G
  <2> QED  BY <1>4, <1>6, <1>7, <1>8, <2>1, <2>2, <2>3, <2>4, CarriedStep DEF n
<1>10. stack[t] # <<>> => pages[Last(stack[t])].level = pages[c].level + 1
                         /\ Climb(pages, Last(stack[t]), Front(stack[t]))
  <2>1. Climb(pages, c, stack[t])
    BY <1>1 DEF Placed, c
  <2> QED  BY <1>1, <2>1, ClimbUp
<1>11. stack[t] # <<>> => Last(stack[t]) \in DOMAIN pages
                         /\ Front(stack[t]) \in Seq(DOMAIN pages)
  <2> SUFFICES ASSUME stack[t] # <<>>
               PROVE  Last(stack[t]) \in DOMAIN pages /\ Front(stack[t]) \in Seq(DOMAIN pages)
    OBVIOUS
  <2>1. Len(stack[t]) \in 1 .. Len(stack[t])
    BY <1>1
  <2> QED  BY <1>1, <2>1, FrontIs DEF Last
<1>12. TopOK'
  <2>1. CASE root # c
    <3>1. pages'[root].rlink = pages[root].rlink
      BY <1>1, <1>7, <2>1
    <3>2. pages'[n].level <= pages[root].level
      BY <1>1, <1>6 DEF TopOK
    <3> QED  BY <1>6, <1>7, <1>8, <3>1, <3>2, TopStep
  <2>2. CASE root = c
    <3>1. pages[c].level \in Nat
      BY <1>1, PoolFacts
    <3>2. stack[t] = <<>>
      <4> SUFFICES ASSUME stack[t] # <<>> PROVE FALSE
        OBVIOUS
      <4>1. pages[Last(stack[t])].level <= pages[c].level
        BY <1>1, <1>11, <2>2 DEF TopOK
      <4> QED  BY <1>10, <3>1, <4>1
    <3>3. Raising(t)'
      BY <1>5, <2>2, <3>2 DEF Raising, c
    <3>4. pages'[n].level <= pages[root].level
      BY <1>6, <2>2, <3>1
    <3> QED  BY <1>6, <1>7, <1>8, <3>3, <3>4, TopStep
  <2> QED  BY <2>1, <2>2
<1>13. Placed(t)'
  <2>1. CASE stack[t] = <<>>
    <3>1. pc'[t] = "rootLock" /\ cur'[t] = c /\ stack'[t] = <<>>
      BY <1>5, <2>1 DEF c
    <3>2. Climb(pages', c, <<>>)
      BY DEF Climb
    <3>3. pages'[c].level = pages[c].level
      BY <1>1, <1>6 DEF LevelsKept
    <3> QED  BY <1>4, <1>6, <3>1, <3>2, <3>3 DEF Placed
  <2>2. CASE stack[t] # <<>>
    <3> DEFINE d == Last(stack[t])
               st == Front(stack[t])
    <3>1. pc'[t] = "latchPost" /\ cur'[t] = d /\ stack'[t] = st
      BY <1>5, <2>2
    <3>2. /\ pages[d].level = pages[c].level + 1 /\ Climb(pages, d, st)
          /\ d \in DOMAIN pages /\ st \in Seq(DOMAIN pages)
      BY <1>10, <1>11, <2>2
    <3> HIDE DEF d, st
    <3>3. Climb(pages', d, st)
      BY <1>6, <3>2, ClimbKept
    <3>4. pages'[d].level = pages'[n].level + 1
      BY <1>6, <3>2 DEF LevelsKept
    <3> QED  BY <1>4, <3>1, <3>3, <3>4 DEF Placed
  <2> QED  BY <2>1, <2>2
<1> QED  BY <1>6, <1>9, <1>12, <1>13, ShapeStep

LEMMA SplitLeafShaped ==
  ASSUME IInv, FInv, SInv, NEW t \in Thread, SplitLeaf(t)
  PROVE  SInv'
<1> DEFINE node == Here(t)
           k == SearchKey(t)
           v == call[t].val
           halves == LeafSplit(node, cur[t], nextFree, k, v)
<1>1. /\ pc[t] = "write" /\ ~(k >= node.high) /\ ~(Count(node) < LeafMax)
      /\ ~HasKey(node, k) /\ UNCHANGED root /\ Propagate(t) /\ WriteSplit(t, halves)
      /\ Carry(t, halves.sep, nextFree, Here(t).level) /\ Step(t)
  BY DEF SplitLeaf, AtLeafOf, At, HasSplit, LeafHasSpace, Step
<1>2. /\ nextFree \in Nat /\ NodeOK(node, nextFree) /\ node.level = 0
      /\ k \in Key /\ v \in Nat /\ cur[t] \in 0 .. nextFree - 1
  BY <1>1, HereFacts, Parts DEF ThreadOK, Here
<1>3. k <= node.high /\ k < node.high
  <2>1. k \in Int /\ node.high \in Int
    BY <1>2, NodeFacts, KeyInt
  <2> HIDE DEF k, node
  <2> QED  BY <1>1, <2>1
<1>4. Count(node) >= 2
  <2>1. Count(node) \in Nat
    BY <1>2, NodeFacts DEF Count
  <2> HIDE DEF node
  <2> QED  BY <1>1, <2>1, CapacityAssumption
<1>5. k = SoughtKey(t) /\ node = Here(t) /\ t \notin Owing
  BY <1>1 DEF SoughtKey, Owing
<1>6. Frame(t) /\ Apart(t)
  BY <1>1, Framed
<1> HIDE DEF node, k, v
<1>7. SplitOK(node, halves, nextFree)
  BY <1>2, <1>3, <1>4, LeafSplitOK
<1>8. Halved(node, halves, k, v, FALSE)
  BY <1>2, <1>4, LeafSplitHolds
<1> HIDE DEF halves
<1>9. ~(Here(t).level > 0)
  BY <1>2, <1>5
<1>10. /\ SplitOK(Here(t), halves, nextFree) /\ Halved(Here(t), halves, k, v, FALSE)
       /\ k < Here(t).high /\ ~HasKey(Here(t), k)
  BY <1>1, <1>3, <1>5, <1>7, <1>8
<1> QED  BY <1>1, <1>5, <1>6, <1>9, <1>10, SplitShaped

LEMMA SplitInterShaped ==
  ASSUME IInv, FInv, SInv, NEW t \in Thread, SplitInter(t)
  PROVE  SInv'
<1> DEFINE node == Here(t)
           k == sep[t]
           v == child[t]
           halves == InterSplit(node, cur[t], nextFree, k, v)
<1>1. /\ pc[t] = "post" /\ t \in Owing /\ ~(k >= node.high) /\ ~(Count(node) < InterMax)
      /\ UNCHANGED root /\ Propagate(t) /\ WriteSplit(t, halves)
      /\ Carry(t, halves.sep, nextFree, Here(t).level) /\ Step(t)
  BY DEF SplitInter, AtParent, At, HasSplit, InterHasSpace, Owing, Step
<1>2. /\ nextFree \in Nat /\ NodeOK(node, nextFree)
      /\ k \in Key /\ v \in 0 .. nextFree - 1 /\ cur[t] \in 0 .. nextFree - 1
      /\ v \in DOMAIN pages
  BY <1>1, HereFacts, ThreadPlace, PoolIs DEF Here
<1>3. k <= node.high /\ k < node.high
  <2>1. k \in Int /\ node.high \in Int
    BY <1>2, NodeFacts, KeyInt
  <2> HIDE DEF k, node
  <2> QED  BY <1>1, <2>1
<1>4. Count(node) >= 4
  <2>1. Count(node) \in Nat
    BY <1>2, NodeFacts DEF Count
  <2> HIDE DEF node
  <2> QED  BY <1>1, <2>1, CapacityAssumption
<1>5. k = SoughtKey(t) /\ node = Here(t) /\ v = child[t]
  BY <1>1 DEF SoughtKey
<1>6. Frame(t) /\ Apart(t)
  BY <1>1, Framed
<1>7. /\ Here(t).level > 0 /\ LowIn(pages, cur[t]) < k
      /\ pages[v].level = Here(t).level - 1 /\ ~HasKey(Here(t), k)
  BY <1>1, PostPlace
<1> HIDE DEF node, k, v
<1>8. SplitOK(node, halves, nextFree)
  BY <1>2, <1>3, <1>4, InterSplitOK
<1>9. Halved(node, halves, k, v, TRUE)
  BY <1>2, <1>4, InterSplitHolds
<1> HIDE DEF halves
<1>10. /\ SplitOK(Here(t), halves, nextFree) /\ Halved(Here(t), halves, k, v, TRUE)
       /\ k < Here(t).high
  BY <1>3, <1>5, <1>8, <1>9
<1> QED  BY <1>1, <1>2, <1>5, <1>6, <1>7, <1>10, SplitShaped

-----------------------------------------------------------------------------
LEMMA ShapeInit == Init => SInv
<1> SUFFICES ASSUME Init PROVE SInv
  OBVIOUS
<1> DEFINE node == NewNode(0, <<>>, <<>>)
<1>1. pages = [p \in {0} |-> node] /\ root = 0
  BY DEF Init
<1>2. node.rlink = NoPage /\ node.high = MaxKey /\ node.level = 0 /\ node.keys = <<>>
  BY DEF NewNode
<1>3. (\A x, y : ~Holds(node, x, y)) /\ Distinct(node.keys)
  BY <1>2 DEF Holds, Distinct
<1> HIDE DEF node
<1>4. DOMAIN pages = {0} /\ pages[0] = node
  BY <1>1
<1>5. LowIn(pages, 0) = 0
  BY <1>2, <1>4, LowIsZero DEF NoPage, LeftIn
<1>6. Shaped(pages, 0)
  BY <1>2, <1>3, <1>4, <1>5, CapacityAssumption DEF Shaped
<1>7. Shape(pages)
  BY <1>4, <1>6 DEF Shape, Disjoint
<1>8. \A t \in Thread : pc[t] = "idle"
  BY DEF Init
<1>9. Carried /\ TopOK /\ \A t \in Thread : Placed(t)
  BY <1>1, <1>2, <1>4, <1>8 DEF Carried, TopOK, Placed, Owing
<1> QED  BY <1>7, <1>9 DEF SInv

LEMMA ShapeNext == IInv /\ FInv /\ SInv /\ RedescentHigh /\ [Next]_vars => SInv'
<1> SUFFICES ASSUME IInv, FInv, SInv, RedescentHigh, [Next]_vars PROVE SInv'
  OBVIOUS
<1>1. ASSUME NEW t \in Thread, Step(t) PROVE SInv'
  <2>1. CASE Start(t) \/ ReloadRoot(t)
    BY <2>1, TopShaped
  <2>2. CASE \/ LatchDescend(t) \/ LatchRead(t) \/ LatchWrite(t) \/ LatchPost(t)
             \/ LatchRedescend(t) \/ ReachLeaf(t) \/ LockRoot(t) \/ RootMoved(t)
             \/ RedescendStop(t)
    BY <2>2, StaysShaped
  <2>3. CASE \/ DescendRight(t) \/ ReadRight(t) \/ GoRightLeaf(t)
             \/ RedescendRight(t) \/ GoRightInter(t)
    BY <2>3, RightShaped
  <2>4. CASE DescendDown(t) \/ RedescendDown(t)
    BY <2>4, DownShaped
  <2>5. CASE Read(t) \/ InsertDuplicate(t) \/ Return(t) \/ Abort(t)
    BY <2>5, AnsweredShaped
  <2>6. CASE Insert(t) \/ Delete(t)
    BY <2>6, LeafWriteShaped
  <2>7. CASE SplitLeaf(t)
    BY <2>7, SplitLeafShaped
  <2>8. CASE CreateNewRoot(t)
    BY <2>8, NewRootShaped
  <2>9. CASE PostSeparator(t)
    BY <2>9, PostShaped
  <2>10. CASE SplitInter(t)
    BY <2>10, SplitInterShaped
  <2> QED
    BY <1>1, <2>1, <2>2, <2>3, <2>4, <2>5, <2>6, <2>7, <2>8, <2>9, <2>10 DEF Step
<1>2. CASE UNCHANGED vars
  <2>1. UNCHANGED <<pages, root, pc, cur, stack, child, level, drop>>
    BY <1>2 DEF vars, shared, carry
  <2>2. Carried' /\ TopOK'
    BY <2>1 DEF SInv, Carried, TopOK, Raising, Owing
  <2>3. \A t \in Thread : Placed(t)'
    BY <2>1 DEF SInv, Placed
  <2> QED  BY <2>1, <2>2, <2>3 DEF SInv
<1> QED  BY <1>1, <1>2 DEF Next, Ended

LEMMA ShapeInvariance == Spec /\ []RedescentHigh => [](IInv /\ FInv /\ SInv)
<1>1. IInv /\ FInv /\ SInv /\ RedescentHigh /\ [Next]_vars => SInv'
  BY ShapeNext
<1> QED  BY FencesInvariance, ShapeInit, <1>1, PTL DEF Spec

-----------------------------------------------------------------------------
(* What the properties say of a page, in terms of its entries. *)

LEMMA RefIs ==
  ASSUME NEW n \in Nat, NEW node, NodeOK(node, n), node.level > 0
  PROVE  /\ DOMAIN node.refs = 1 .. Len(node.keys) + 1
         /\ DOMAIN node.keys = 1 .. Len(node.keys) /\ Len(node.keys) \in Nat
         /\ Len(node.refs) = Len(node.keys) + 1
         /\ \A i \in 1 .. Len(node.keys) : Holds(node, node.keys[i], node.refs[i + 1])
<1>1. RefShift(node) = 1
  BY NodeFacts DEF RefShift
<1>2. node.keys \in Seq(Key) /\ node.refs \in Seq(Nat)
  BY NodeFacts
<1>3. Len(node.refs) = Len(node.keys) + 1
  BY <1>1 DEF NodeOK
<1> QED  BY <1>1, <1>2, <1>3 DEF Holds

LEMMA LeadsIs ==
  ASSUME NEW n \in Nat, NEW node, NodeOK(node, n), NEW d
  PROVE  Leads(node, d) <=> node.level > 0 /\ \E i \in DOMAIN node.refs : node.refs[i] = d
<1> SUFFICES ASSUME node.level > 0
             PROVE  (node.refs[1] = d \/ \E x : Holds(node, x, d)) <=>
                      \E i \in DOMAIN node.refs : node.refs[i] = d
  BY DEF Leads
<1>1. /\ DOMAIN node.refs = 1 .. Len(node.keys) + 1 /\ Len(node.keys) \in Nat
      /\ \A i \in 1 .. Len(node.keys) : Holds(node, node.keys[i], node.refs[i + 1])
  BY RefIs
<1>2. RefShift(node) = 1
  BY NodeFacts DEF RefShift
<1>3. ASSUME NEW x, Holds(node, x, d) PROVE \E i \in DOMAIN node.refs : node.refs[i] = d
  <2>1. PICK i \in 1 .. Len(node.keys) : node.refs[i + 1] = d
    BY <1>2, <1>3 DEF Holds
  <2>2. i + 1 \in 1 .. Len(node.keys) + 1
    BY <1>1
  <2> QED  BY <1>1, <2>1, <2>2
<1>4. ASSUME NEW i \in DOMAIN node.refs, node.refs[i] = d, i # 1
      PROVE  \E x : Holds(node, x, d)
  <2>1. i - 1 \in 1 .. Len(node.keys) /\ (i - 1) + 1 = i
    BY <1>1, <1>4
  <2>2. Holds(node, node.keys[i - 1], node.refs[(i - 1) + 1])
    BY <1>1, <2>1
  <2> QED  BY <1>4, <2>1, <2>2
<1>5. 1 \in DOMAIN node.refs
  BY <1>1
<1> QED  BY <1>3, <1>4, <1>5

(* A page is where the invariants say. *)
LEMMA PageIs ==
  ASSUME IInv, FInv, SInv, NEW p \in Reserved
  PROVE  /\ p \in DOMAIN pages /\ nextFree \in Nat /\ NodeOK(pages[p], nextFree)
         /\ Fenced(pages, p) /\ Shaped(pages, p)
         /\ Low(p) = LowIn(pages, p) /\ Low(p) \in Int /\ pages[p].high \in Int
         /\ LeftOf(p) = LeftIn(pages, p)
         /\ pages[p].rlink # NoPage =>
              pages[p].rlink \in Reserved /\ pages[pages[p].rlink].level = pages[p].level
<1>1. Pool(pages, nextFree) /\ p \in DOMAIN pages /\ DOMAIN pages = Reserved
  BY PoolIs
<1>2. Fenced(pages, p) /\ Shaped(pages, p)
  BY <1>1 DEF FInv, Fences, SInv, Shape
<1>3. /\ nextFree \in Nat /\ NodeOK(pages[p], nextFree) /\ pages[p].high \in Int
      /\ pages[p].rlink \in Reserved \cup {NoPage} /\ LowIn(pages, p) \in Int
  BY <1>1, PoolFacts, LowType
<1>4. pages[p].rlink # NoPage => pages[pages[p].rlink].level = pages[p].level
  BY <1>1, Parts DEF SharedOK, PagesOK
<1> QED  BY <1>1, <1>2, <1>3, <1>4, LowIsLow

(* At every level the pages form one chain of rlinks whose fences cut the  *)
(* key space into consecutive pieces: whatever splits are half done or     *)
(* follow each other, a reader that goes right finds the page that has     *)
(* taken over its key.                                                     *)
THEOREM Partition == Spec /\ []RedescentHigh => []FencesPartition
<1>1. IInv /\ FInv /\ SInv => FencesPartition
  <2> SUFFICES ASSUME IInv, FInv, SInv PROVE FencesPartition
    OBVIOUS
  <2>1. ASSUME NEW p \in Leftmost, NEW q \in Leftmost, p # q
        PROVE  pages[p].level # pages[q].level
    <3>1. p \in Reserved /\ q \in Reserved /\ LeftOf(p) = {} /\ LeftOf(q) = {}
      BY DEF Leftmost, LeftOf
    <3>2. /\ Low(p) = 0 /\ Low(q) = 0 /\ 0 < pages[p].high /\ 0 < pages[q].high
          /\ LowIn(pages, p) = 0 /\ LowIn(pages, q) = 0
          /\ pages[p].high \in Int /\ pages[q].high \in Int
          /\ p \in DOMAIN pages /\ q \in DOMAIN pages
      BY <3>1, PageIs DEF Low, Shaped
    <3>3. pages[p].level = pages[q].level => pages[p].high <= 0 \/ pages[q].high <= 0
      BY <2>1, <3>2 DEF SInv, Shape, Disjoint
    <3> QED  BY <3>2, <3>3
  <2>2. ASSUME NEW p \in Reserved
        PROVE  /\ Cardinality(LeftOf(p)) <= 1
               /\ Low(p) < pages[p].high
               /\ (pages[p].rlink = NoPage) = (pages[p].high = MaxKey)
               /\ pages[p].rlink # NoPage =>
                    pages[p].rlink \in Reserved
                    /\ pages[pages[p].rlink].level = pages[p].level
    <3>1. CASE LeftOf(p) = {}
      BY <3>1, PageIs, FS_EmptySet DEF Fenced, Shaped
    <3>2. CASE LeftOf(p) # {}
      <4>1. PICK q : q \in LeftOf(p)
        BY <3>2
      <4>2. p # NoPage
        BY PoolIs, PoolFacts
      <4>3. LeftOf(p) = {q}
        BY <4>1, <4>2, PoolIs DEF LeftOf, FInv, Fences, Chain
      <4>4. Cardinality(LeftOf(p)) = 1
        BY <4>3, FS_Singleton
      <4> QED  BY <4>4, PageIs DEF Fenced, Shaped
    <3> QED  BY <3>1, <3>2
  <2>3. ASSUME NEW p \in Reserved, NEW i \in DOMAIN pages[p].keys
        PROVE  /\ Low(p) <= pages[p].keys[i] /\ pages[p].keys[i] < pages[p].high
               /\ i > 1 => pages[p].keys[i - 1] < pages[p].keys[i]
    <3> DEFINE node == pages[p]
    <3>0. /\ nextFree \in Nat /\ NodeOK(node, nextFree) /\ Low(p) = LowIn(pages, p)
          /\ Fenced(pages, p) /\ Shaped(pages, p)
      BY PageIs
    <3>1. /\ nextFree \in Nat /\ NodeOK(node, nextFree) /\ Distinct(node.keys)
          /\ \A x, y : Holds(node, x, y) => Low(p) <= x
          /\ \A x, y : Holds(node, x, y) => x < node.high
      BY <3>0 DEF Fenced, Shaped
    <3> HIDE DEF node
    <3>2. /\ node.keys \in Seq(Key) /\ Len(node.keys) \in Nat /\ Sorted(node.keys)
          /\ \A j \in 1 .. Len(node.keys) : node.keys[j] \in Int
      BY <3>1, NodeFacts DEF NodeOK
    <3>3. i \in 1 .. Len(node.keys)
      BY <3>2 DEF node
    <3>4. Holds(node, node.keys[i], node.refs[i + RefShift(node)])
      BY <3>3 DEF Holds
    <3>5. ASSUME i > 1 PROVE node.keys[i - 1] < node.keys[i]
      <4>1. i - 1 \in 1 .. Len(node.keys) /\ i - 1 <= i /\ i - 1 # i
        BY <3>2, <3>3, <3>5
      <4>2. node.keys[i - 1] <= node.keys[i] /\ node.keys[i - 1] # node.keys[i]
        BY <3>1, <3>2, <3>3, <4>1 DEF Sorted, Distinct
      <4> QED  BY <3>2, <3>3, <4>1, <4>2
    <3> QED  BY <3>1, <3>4, <3>5 DEF node
  <2> QED  BY <2>1, <2>2, <2>3 DEF FencesPartition
<1> QED  BY ShapeInvariance, <1>1, PTL

(* Every child pointer leads one level down to the page whose low fence is *)
(* the separator before it, however late InterInsert posts the separator   *)
(* and however often the child has been split by then.                     *)
THEOREM Separators == Spec /\ []RedescentHigh => []SeparatorsMeetFences
<1>1. IInv /\ FInv /\ SInv => SeparatorsMeetFences
  <2> SUFFICES ASSUME IInv, FInv, SInv, NEW p \in Reserved, pages[p].level > 0
               PROVE  /\ Len(pages[p].refs) = Count(pages[p]) + 1 /\ Count(pages[p]) > 0
                      /\ \A i \in DOMAIN pages[p].refs :
                           /\ pages[p].refs[i] \in Reserved
                           /\ pages[pages[p].refs[i]].level = pages[p].level - 1
                           /\ Low(pages[p].refs[i]) = IF i = 1 THEN Low(p)
                                                      ELSE pages[p].keys[i - 1]
    BY DEF SeparatorsMeetFences
  <2> DEFINE node == pages[p]
  <2>1. /\ nextFree \in Nat /\ NodeOK(node, nextFree) /\ node.level > 0
        /\ Fenced(pages, p) /\ Shaped(pages, p) /\ p \in DOMAIN pages
    BY PageIs
  <2>2. /\ DOMAIN node.refs = 1 .. Len(node.keys) + 1
        /\ Len(node.refs) = Len(node.keys) + 1 /\ Len(node.keys) \in Nat
        /\ \A i \in 1 .. Len(node.keys) : Holds(node, node.keys[i], node.refs[i + 1])
    BY <2>1, RefIs
  <2>3. Len(node.keys) > 0
    <3>1. \E x, y : Holds(node, x, y)
      BY <2>1 DEF Shaped
    <3>2. PICK j \in 1 .. Len(node.keys) : TRUE
      BY <3>1 DEF Holds
    <3> QED  BY <2>2, <3>2
  <2>4. ASSUME NEW i \in DOMAIN node.refs
        PROVE  /\ node.refs[i] \in Reserved
               /\ pages[node.refs[i]].level = node.level - 1
    <3>1. Leads(node, node.refs[i])
      BY <2>1, LeadsIs
    <3>2. pages[node.refs[i]].level = node.level - 1
      BY <2>1, <3>1 DEF Shaped
    <3>3. node.refs[i] \in DOMAIN pages
      BY <2>1, <3>1, PoolIs, LeadsType
    <3> QED  BY <3>2, <3>3, PoolIs
  <2>5. ASSUME NEW i \in DOMAIN node.refs
        PROVE  Low(node.refs[i]) = IF i = 1 THEN Low(p) ELSE node.keys[i - 1]
    <3>1. i = 1 => Low(node.refs[i]) = Low(p)
      BY <2>1, LowIsLow DEF Fenced
    <3>2. ASSUME i # 1 PROVE Low(node.refs[i]) = node.keys[i - 1]
      <4>1. i - 1 \in 1 .. Len(node.keys) /\ (i - 1) + 1 = i
        BY <2>2, <3>2
      <4>2. Holds(node, node.keys[i - 1], node.refs[(i - 1) + 1])
        BY <2>2, <4>1
      <4>3. Holds(node, node.keys[i - 1], node.refs[i])
        BY <4>1, <4>2
      <4> QED  BY <2>1, <4>3, LowIsLow DEF Fenced
    <3> QED  BY <3>1, <3>2
  <2> QED  BY <2>2, <2>3, <2>4, <2>5 DEF Count
<1> QED  BY ShapeInvariance, <1>1, PTL

(* No split is forgotten or posted twice: every page but the leftmost of   *)
(* its level and the root has one parent, or one thread in PropagateInsert *)
(* still carries its separator, and never both.                            *)
THEOREM NoOrphans == Spec /\ []RedescentHigh => []NoOrphanPage
<1>1. IInv /\ FInv /\ SInv => NoOrphanPage
  <2> SUFFICES ASSUME IInv, FInv, SInv, NEW p \in Reserved
               PROVE  /\ LeftOf(p) # {} =>
                           Cardinality(Parents(p)) + Cardinality(Carriers(p)) = 1
                      /\ LeftOf(p) = {} /\ p # root => Cardinality(Parents(p)) = 1
    BY DEF NoOrphanPage
  <2>1. /\ Pool(pages, nextFree) /\ Fences(pages, root) /\ Shape(pages) /\ Carried
        /\ DOMAIN pages = Reserved /\ LeftOf(p) = LeftIn(pages, p)
        /\ LeftIn(pages, root) = {}
    BY PoolIs, PageIs DEF FInv, SInv, Fences
  <2>2. ASSUME NEW q \in Reserved
        PROVE  q \in Parents(p) <=> Leads(pages[q], p)
    <3>1. nextFree \in Nat /\ NodeOK(pages[q], nextFree)
      BY PageIs
    <3> QED  BY <3>1, LeadsIs DEF Parents
  <2>3. CASE Reached(pages, p)
    <3>1. PICK q \in Reserved : Leads(pages[q], p)
      BY <2>1, <2>3 DEF Reached
    <3>2. \A r \in Reserved : Leads(pages[r], p) => r = q
      BY <2>1, <3>1, OneParent
    <3>3. Parents(p) = {q}
      BY <2>2, <3>1, <3>2 DEF Parents
    <3>4. Carriers(p) = {}
      BY <2>1, <2>3 DEF Carried, Carriers
    <3>5. Cardinality(Parents(p)) = 1 /\ Cardinality(Carriers(p)) = 0
      BY <3>3, <3>4, FS_EmptySet, FS_Singleton
    <3> QED  BY <3>5
  <2>4. CASE ~Reached(pages, p)
    <3>1. p = root \/ (LeftIn(pages, p) # {} /\ \E t \in Owing : child[t] = p)
      BY <2>1, <2>4 DEF Carried
    <3> SUFFICES ASSUME p # root
                 PROVE  Cardinality(Parents(p)) + Cardinality(Carriers(p)) = 1
                        /\ LeftOf(p) # {}
      BY <2>1
    <3>2. PICK t \in Owing : child[t] = p
      BY <3>1
    <3>3. Parents(p) = {}
      BY <2>1, <2>2, <2>4 DEF Parents, Reached
    <3>4. Carriers(p) = {t}
      BY <2>1, <3>2 DEF Carried, Carriers
    <3>5. Cardinality(Parents(p)) = 0 /\ Cardinality(Carriers(p)) = 1
      BY <3>3, <3>4, FS_EmptySet, FS_Singleton
    <3> QED  BY <2>1, <3>1, <3>5
  <2> QED  BY <2>3, <2>4
<1> QED  BY ShapeInvariance, <1>1, PTL

(* The root is the leftmost page of the top level, and it has right        *)
(* siblings only while the thread that split it is on its way to           *)
(* CreateNewRoot.                                                          *)
THEOREM RootOnTop == Spec /\ []RedescentHigh => []RootCoversTop
<1>1. IInv /\ FInv /\ SInv => RootCoversTop
  <2> SUFFICES ASSUME IInv, FInv, SInv PROVE RootCoversTop
    OBVIOUS
  <2>1. /\ root \in Reserved /\ DOMAIN pages = Reserved /\ TopOK
        /\ LeftOf(root) = {}
    BY PoolIs, LowIsLow DEF FInv, Fences, SInv
  <2>2. ASSUME NEW t \in Thread, Raising(t)
        PROVE  t \in Owing /\ level[t] <= pages[root].level
    <3>1. t \in Owing /\ level[t] = pages[root].level
      BY <2>2 DEF Raising, Owing, SInv, Placed
    <3>2. pages[root].level \in Nat
      BY PoolIs, PoolFacts
    <3> QED  BY <3>1, <3>2
  <2> QED  BY <2>1, <2>2 DEF RootCoversTop, TopOK
<1> QED  BY ShapeInvariance, <1>1, PTL

(* A separator is posted one level above the page that split, and so is    *)
(* every one that follows on the way up the stack.                         *)
THEOREM RightLevel == Spec /\ []RedescentHigh => []SeparatorAtRightLevel
<1>1. IInv /\ FInv /\ SInv => SeparatorAtRightLevel
  <2> SUFFICES ASSUME IInv, FInv, SInv, NEW t \in Thread, pc[t] \in {"latchPost", "post"}
               PROVE  /\ pages[cur[t]].level = pages[child[t]].level + 1
                      /\ \A i \in DOMAIN stack[t] :
                           pages[stack[t][i]].level =
                             pages[child[t]].level + 2 + Len(stack[t]) - i
    BY DEF SeparatorAtRightLevel
  <2>1. /\ Climb(pages, cur[t], stack[t])
        /\ pages[cur[t]].level = pages[child[t]].level + 1
    BY DEF SInv, Placed
  <2>2. /\ stack[t] \in Seq(DOMAIN pages) /\ child[t] \in DOMAIN pages
        /\ Pool(pages, nextFree)
    BY ThreadPlace, PoolIs DEF Owing
  <2>3. DOMAIN stack[t] = 1 .. Len(stack[t]) /\ Len(stack[t]) \in Nat
    BY <2>2
  <2>4. pages[child[t]].level \in Nat
    BY <2>2, PoolFacts
  <2> DEFINE from == pages[child[t]].level
             m == Len(stack[t])
  <2>5. \A i \in 1 .. m : pages[stack[t][i]].level = from + 1 + m + 1 - i
    BY <2>1 DEF Climb
  <2>6. from \in Nat /\ m \in Nat
    BY <2>3, <2>4
  <2> HIDE DEF from, m
  <2>7. \A i \in 1 .. m : pages[stack[t][i]].level = from + 2 + m - i
    BY <2>5, <2>6
  <2> QED  BY <2>1, <2>3, <2>7 DEF from, m
<1> QED  BY ShapeInvariance, <1>1, PTL

-----------------------------------------------------------------------------
(* What stops the process. *)

(* No more levels than TlState has room for pages: with the layouts'       *)
(* capacities 64-bit page ids would run out long before.                   *)
LowTree == pages[root].level <= StackSize

(* A thread that fails an assertion was handed the reserved key. *)
LEMMA FaultyIs ==
  ASSUME IInv, FInv, SInv, RedescentHigh, LowTree, NEW t \in Thread, Faulty(t)
  PROVE  pc[t] # "idle" /\ SearchKey(t) = MaxKey
<1>1. /\ pc[t] \in {"read", "write", "descend", "post", "redescend", "latchRedescend"}
      /\ Placed(t) /\ Guided(t) /\ Pool(pages, nextFree) /\ ThreadTypes /\ TopOK
      /\ Fences(pages, root) /\ Shape(pages)
  BY Parts, PoolIs
     DEF Faulty, OffTheEnd, NoKeys, StackFull, WrongLevel, SInv, FInv
<1>2. /\ cur[t] \in DOMAIN pages /\ stack[t] \in Seq(DOMAIN pages)
      /\ SearchKey(t) \in Key /\ sep[t] \in Key
      /\ t \in Owing => child[t] \in DOMAIN pages
  BY <1>1, ThreadPlace
<1>3. /\ SearchKey(t) \in Int /\ sep[t] \in Int /\ SearchKey(t) <= MaxKey
      /\ level[t] \in Nat /\ drop[t] \in Nat /\ MaxKey \in Int
      /\ Here(t).level \in Nat /\ Here(t).high \in Int
      /\ Fenced(pages, cur[t]) /\ Shaped(pages, cur[t])
  <2>1. level[t] \in Nat /\ drop[t] \in Nat
    BY <1>1 DEF ThreadTypes
  <2>2. Here(t).level \in Nat /\ Here(t).high \in Int
    BY <1>1, <1>2, PoolFacts DEF Here
  <2> QED  BY <1>1, <1>2, <2>1, <2>2, CapacityAssumption DEF Key, Fences, Shape
<1>4. pc[t] \in {"redescend", "latchRedescend"} => level[t] = Here(t).level
  BY <1>1 DEF Placed, Here
<1>5. CASE OffTheEnd(t)
  <2>1. Here(t).high = MaxKey
    BY <1>3, <1>5 DEF OffTheEnd, Fenced, Here
  <2>2. pc[t] \in {"post", "redescend"} => sep[t] < MaxKey
    BY <1>1 DEF Guided, Owing
  <2>3. CASE SearchKey(t) >= MaxKey
    BY <1>1, <1>3, <2>3
  <2>4. CASE ~(SearchKey(t) >= MaxKey)
    <3>1. pc[t] \in {"post", "redescend"} /\ sep[t] >= MaxKey
      BY <1>5, <2>1, <2>4 DEF OffTheEnd, HasSplit
    <3> QED  BY <1>3, <2>2, <3>1
  <2> QED  BY <2>3, <2>4
<1>6. CASE NoKeys(t)
  <2>1. Here(t).level > 0
    <3>1. pc[t] = "post" => Here(t).level > 0
      BY PostPlace
    <3>2. pc[t] = "redescend" /\ level[t] > drop[t] => Here(t).level > 0
      BY <1>3, <1>4
    <3> QED  BY <1>6, <3>1, <3>2 DEF NoKeys
  <2>2. \E x, y : Holds(Here(t), x, y)
    BY <1>3, <2>1 DEF Shaped, Here
  <2>3. Len(Here(t).keys) = 0
    BY <1>6 DEF NoKeys, Count
  <2> QED  BY <2>2, <2>3 DEF Holds
<1>7. CASE StackFull(t)
  <2> DEFINE m == Len(stack[t])
             l == Here(t).level
  <2>1. m \in Nat /\ m >= 16
    BY <1>2, <1>7 DEF StackFull, StackSize
  <2>2. l >= 1
    <3>1. CASE pc[t] = "descend"
      BY <1>3, <1>7, <3>1 DEF StackFull
    <3>2. CASE pc[t] = "redescend"
      <4>1. drop[t] <= level[t] /\ drop[t] = pages[child[t]].level + 1
        BY <1>1, <3>2 DEF RedescentHigh, Placed
      <4>2. pages[child[t]].level \in Nat
        BY <1>1, <1>2, <3>2, PoolFacts DEF Owing
      <4> QED  BY <1>3, <1>4, <3>2, <4>1, <4>2
    <3> QED  BY <1>7, <3>1, <3>2 DEF StackFull
  <2>3. 1 \in 1 .. m
    BY <2>1
  <2>4. pages[stack[t][1]].level = l + m + 1 - 1 /\ stack[t][1] \in DOMAIN pages
    BY <1>1, <1>2, <2>3 DEF Placed, Climb, Here
  <2>5. pages[stack[t][1]].level <= pages[root].level /\ pages[root].level <= 16
    BY <1>1, <2>4 DEF TopOK, LowTree, StackSize
  <2>6. pages[root].level \in Nat
    BY <1>1, PoolIs, PoolFacts
  <2> HIDE DEF m
  <2>7. l \in Nat
    BY <1>3
  <2> HIDE DEF l
  <2> QED  BY <2>1, <2>2, <2>4, <2>5, <2>6, <2>7
<1>8. CASE WrongLevel(t)
  BY <1>4, <1>8 DEF WrongLevel
<1> QED  BY <1>5, <1>6, <1>7, <1>8 DEF Faulty

LEMMA AbortStep ==
  ASSUME NEW t \in Thread, Step(t)
  PROVE  ~aborted /\ (UNCHANGED aborted \/ Abort(t))
BY DEF Step, Start, LatchDescend, ReachLeaf, DescendRight, DescendDown, LatchRead, ReadRight,
   Read, LatchWrite, GoRightLeaf, InsertDuplicate, Insert, SplitLeaf, Delete, LockRoot,
   CreateNewRoot, RootMoved, ReloadRoot, LatchRedescend, RedescendRight, RedescendDown,
   RedescendStop, LatchPost, GoRightInter, PostSeparator, SplitInter, Return, Abort,
   AtLeafOf, AtParent, At, LatchShared, LatchExclusive, shared

(* The process stops only on the account of a thread that was handed the   *)
(* reserved key MaxKey: no search runs off the end of a level into         *)
(* UNDEFINED, none comes to an intermediate page without a key, and the    *)
(* level that DropToLevel counts down is that of the page.                 *)
THEOREM OnlyReserved ==
  Spec /\ []RedescentHigh /\ []LowTree => []OnlyReservedKeyAborts
<1>1. Init => OnlyReservedKeyAborts
  BY DEF Init, OnlyReservedKeyAborts
<1>2. IInv /\ FInv /\ SInv /\ RedescentHigh /\ LowTree /\ OnlyReservedKeyAborts /\ [Next]_vars
        => OnlyReservedKeyAborts'
  <2> SUFFICES ASSUME IInv, FInv, SInv, RedescentHigh, LowTree, OnlyReservedKeyAborts,
                      [Next]_vars
               PROVE  OnlyReservedKeyAborts'
    OBVIOUS
  <2>1. ASSUME NEW t \in Thread, Step(t) PROVE OnlyReservedKeyAborts'
    <3>1. ~aborted
      BY <2>1, AbortStep
    <3>2. CASE UNCHANGED aborted
      BY <3>1, <3>2 DEF OnlyReservedKeyAborts
    <3>3. CASE Abort(t)
      <4>1. Faulty(t) /\ UNCHANGED <<pc, call>>
        BY <3>3 DEF Abort
      <4>2. pc[t] # "idle" /\ SearchKey(t) = MaxKey
        BY <4>1, FaultyIs
      <4> QED  BY <4>1, <4>2 DEF OnlyReservedKeyAborts, SearchKey
    <3> QED  BY <2>1, <3>2, <3>3, AbortStep
  <2>2. CASE UNCHANGED vars
    BY <2>2 DEF vars, shared, OnlyReservedKeyAborts, SearchKey
  <2> QED  BY <2>1, <2>2 DEF Next, Ended
<1> QED  BY ShapeInvariance, <1>1, <1>2, PTL DEF Spec

(* The calls a thread has yet to make, and the one it is making, are some  *)
(* that its workload has.                                                  *)
Asked ==
  \A t \in Thread :
    /\ \A i \in 1 .. Len(todo[t]) : \E j \in DOMAIN Workload[t] : todo[t][i] = Workload[t][j]
    /\ pc[t] # "idle" => \E j \in DOMAIN Workload[t] : call[t] \in Workload[t][j]

LEMMA CallStep ==
  ASSUME NEW t \in Thread, Step(t), ~Start(t), ~Return(t)
  PROVE  UNCHANGED <<todo, call>> /\ (pc[t] # "idle" \/ UNCHANGED pc)
<1>1. CASE \/ LatchDescend(t) \/ LatchRead(t) \/ LatchWrite(t) \/ LatchPost(t)
           \/ LatchRedescend(t)
  BY <1>1 DEF LatchDescend, LatchRead, LatchWrite, LatchPost, LatchRedescend,
     LatchShared, LatchExclusive, At
<1>2. CASE ~(\/ LatchDescend(t) \/ LatchRead(t) \/ LatchWrite(t) \/ LatchPost(t)
             \/ LatchRedescend(t))
  BY <1>2 DEF Step, ReachLeaf, DescendRight, DescendDown, ReadRight,
     Read, GoRightLeaf, InsertDuplicate, Insert, SplitLeaf, Delete, LockRoot,
     CreateNewRoot, RootMoved, ReloadRoot, RedescendRight, RedescendDown,
     RedescendStop, GoRightInter, PostSeparator, SplitInter, Abort,
     AtLeafOf, AtParent, At
<1> QED  BY <1>1, <1>2

LEMMA AskedNext == IInv /\ Asked /\ [Next]_vars => Asked'
<1> SUFFICES ASSUME IInv, Asked, [Next]_vars PROVE Asked'
  OBVIOUS
<1>1. ASSUME NEW t \in Thread, Step(t) PROVE Asked'
  <2>1. ThreadTypes /\ Frame(t)
    BY <1>1, Parts, Framed
  <2>2. CASE Start(t)
    <3>1. /\ todo[t] # <<>> /\ todo' = [todo EXCEPT ![t] = Tail(todo[t])]
          /\ \E c \in Head(todo[t]) : call' = [call EXCEPT ![t] = c]
      BY <2>2 DEF Start
    <3>2. /\ todo'[t] = Tail(todo[t]) /\ call'[t] \in Head(todo[t])
          /\ \A u \in Thread \ {t} : todo'[u] = todo[u]
      BY <2>1, <3>1 DEF ThreadTypes
    <3>3. /\ Len(Tail(todo[t])) = Len(todo[t]) - 1 /\ Head(todo[t]) = todo[t][1]
          /\ Len(todo[t]) \in Nat /\ 1 \in 1 .. Len(todo[t])
          /\ \A i \in 1 .. Len(todo[t]) - 1 : /\ Tail(todo[t])[i] = todo[t][i + 1]
                                              /\ i + 1 \in 1 .. Len(todo[t])
      <4> DEFINE q == todo[t]
      <4>1. q \in Seq(SUBSET Calls) /\ q # <<>>
        BY <2>1, <3>1 DEF ThreadTypes
      <4> HIDE DEF q
      <4>2. /\ Len(Tail(q)) = Len(q) - 1 /\ Head(q) = q[1]
            /\ Len(q) \in Nat /\ 1 \in 1 .. Len(q)
            /\ \A i \in 1 .. Len(q) - 1 : Tail(q)[i] = q[i + 1] /\ i + 1 \in 1 .. Len(q)
        BY <4>1
      <4> QED  BY <4>2 DEF q
    <3>4. \A i \in 1 .. Len(todo'[t]) : \E j \in DOMAIN Workload[t] : todo'[t][i] = Workload[t][j]
      BY <3>2, <3>3 DEF Asked
    <3>5. \E j \in DOMAIN Workload[t] : call'[t] \in Workload[t][j]
      BY <3>2, <3>3 DEF Asked
    <3>6. ASSUME NEW u \in Thread, u # t
          PROVE  /\ \A i \in 1 .. Len(todo'[u]) :
                      \E j \in DOMAIN Workload[u] : todo'[u][i] = Workload[u][j]
                 /\ pc'[u] # "idle" => \E j \in DOMAIN Workload[u] : call'[u] \in Workload[u][j]
      <4>1. todo'[u] = todo[u] /\ pc'[u] = pc[u] /\ call'[u] = call[u]
        BY <2>1, <3>2, <3>6 DEF Frame
      <4> QED  BY <4>1 DEF Asked
    <3> QED  BY <3>4, <3>5, <3>6 DEF Asked
  <2>3. CASE Return(t)
    <3>1. UNCHANGED todo /\ pc' = [pc EXCEPT ![t] = "idle"]
      BY <2>3 DEF Return, Goto
    <3>2. pc'[t] = "idle"
      BY <2>1, <3>1 DEF ThreadTypes
    <3> QED  BY <2>1, <3>1, <3>2 DEF Asked, Frame
  <2>4. CASE ~Start(t) /\ ~Return(t)
    <3>1. UNCHANGED <<todo, call>> /\ (pc[t] # "idle" \/ UNCHANGED pc)
      BY <1>1, <2>4, CallStep
    <3> QED  BY <2>1, <3>1 DEF Asked, Frame
  <2> QED  BY <2>2, <2>3, <2>4
<1>2. CASE UNCHANGED vars
  BY <1>2 DEF vars, Asked
<1> QED  BY <1>1, <1>2 DEF Next, Ended

LEMMA AskedInvariance == Spec => []Asked
<1>1. Init => Asked
  BY WorkloadAssumption DEF Init, Asked
<1>2. IInv /\ Asked /\ [Next]_vars => Asked'
  BY AskedNext
<1> QED  BY Invariance, <1>1, <1>2, PTL DEF Spec

(* The reserved key is in nobody's workload. *)
NoReservedKey ==
  \A t \in Thread : \A j \in DOMAIN Workload[t] : \A c \in Workload[t][j] : c.key # MaxKey

(* With keys below MaxKey no assertion ever fails, and UNDEFINED is never  *)
(* followed as a page id.                                                  *)
THEOREM NoAborts ==
  ASSUME NoReservedKey
  PROVE  Spec /\ []RedescentHigh /\ []LowTree => []AssertionsHold
<1>1. Asked /\ OnlyReservedKeyAborts => AssertionsHold
  <2> SUFFICES ASSUME Asked, OnlyReservedKeyAborts, aborted PROVE FALSE
    BY DEF AssertionsHold
  <2>1. PICK t \in Thread : pc[t] # "idle" /\ call[t].key = MaxKey
    BY DEF OnlyReservedKeyAborts, SearchKey
  <2>2. \E j \in DOMAIN Workload[t] : call[t] \in Workload[t][j]
    BY <2>1 DEF Asked
  <2> QED  BY <2>1, <2>2 DEF NoReservedKey
<1> QED  BY AskedInvariance, OnlyReserved, <1>1, PTL

-----------------------------------------------------------------------------
(* The map that the leaves hold. *)

Stored(P, k, v) == \E p \in DOMAIN P : P[p].level = 0 /\ Holds(P[p], k, v)
Elsewhere(P, c, k, v) ==
  \E p \in DOMAIN P : p # c /\ P[p].level = 0 /\ Holds(P[p], k, v)

IsMap(P, f) ==
  /\ f \in [Key -> Nat \cup {NoPage}]
  /\ \A k \in Key : \A v : Stored(P, k, v) <=> v # NoPage /\ f[k] = v

(* A key is in one leaf at most, and there once. *)
LEMMA OneStored ==
  ASSUME NEW n, NEW P, Pool(P, n), NEW r, Fences(P, r), Shape(P),
         NEW p \in DOMAIN P, NEW q \in DOMAIN P, P[p].level = P[q].level,
         NEW k, NEW v, NEW w, Holds(P[p], k, v), Holds(P[q], k, w)
  PROVE  p = q /\ v = w
<1>1. /\ k \in Int /\ LowIn(P, p) <= k /\ k < P[p].high
      /\ LowIn(P, q) <= k /\ k < P[q].high
  BY PoolFacts DEF Fences, Fenced, Shape, Shaped
<1>2. p = q
  BY <1>1, OneAt
<1>3. v = w
  BY <1>2, OneRef DEF Shape, Shaped
<1> QED  BY <1>2, <1>3

Holding(P, f) ==
  /\ f = [k \in Key |-> f[k]]
  /\ \A k \in Key :
       \/ f[k] = NoPage /\ \A p \in DOMAIN P : ~(P[p].level = 0 /\ HasKey(P[p], k))
       \/ \E p \in DOMAIN P :
            P[p].level = 0 /\ HasKey(P[p], k) /\ f[k] = LeafGet(P[p], k)

LEMMA HeldMap ==
  ASSUME NEW n, NEW P, Pool(P, n), NEW r, Fences(P, r), Shape(P),
         NEW f, Holding(P, f)
  PROVE  IsMap(P, f)
<1>1. \A p \in DOMAIN P : NodeOK(P[p], n) /\ n \in Nat
  BY PoolFacts
<1>2. ASSUME NEW k \in Key
      PROVE  /\ f[k] \in Nat \cup {NoPage}
             /\ \A v : Stored(P, k, v) <=> v # NoPage /\ f[k] = v
  <2>1. CASE f[k] = NoPage /\ \A p \in DOMAIN P : ~(P[p].level = 0 /\ HasKey(P[p], k))
    <3>1. \A v : ~Stored(P, k, v)
      <4> SUFFICES ASSUME NEW v, Stored(P, k, v) PROVE FALSE
        OBVIOUS
      <4>1. PICK p \in DOMAIN P : P[p].level = 0 /\ Holds(P[p], k, v)
        BY DEF Stored
      <4>2. HasKey(P[p], k)
        BY <1>1, <4>1, NodeFacts, KeyHolds
      <4> QED  BY <2>1, <4>1, <4>2
    <3> QED  BY <2>1, <3>1
  <2>2. ASSUME NEW p \in DOMAIN P, P[p].level = 0, HasKey(P[p], k), f[k] = LeafGet(P[p], k)
        PROVE  /\ f[k] \in Nat \cup {NoPage}
               /\ \A v : Stored(P, k, v) <=> v # NoPage /\ f[k] = v
    <3> DEFINE g == f[k]
    <3>1. Holds(P[p], k, g)
      BY <1>1, <2>2, LeafGetHolds
    <3> HIDE DEF g
    <3>2. g \in Nat /\ g # NoPage
      BY <1>1, <2>2, <3>1, HoldsType DEF NoPage
    <3>3. \A v : Stored(P, k, v) => v = g
      BY <2>2, <3>1, OneStored DEF Stored
    <3>4. Stored(P, k, g)
      BY <2>2, <3>1 DEF Stored
    <3> QED  BY <3>2, <3>3, <3>4 DEF g
  <2> QED  BY <2>1, <2>2 DEF Holding
<1>3. f \in [Key -> Nat \cup {NoPage}]
  BY <1>2 DEF Holding
<1> QED  BY <1>2, <1>3 DEF IsMap

LEMMA ContentsIs ==
  ASSUME IInv, FInv, SInv
  PROVE  IsMap(pages, Contents)
<1>1. Pool(pages, nextFree) /\ Fences(pages, root) /\ Shape(pages) /\ DOMAIN pages = Reserved
  BY PoolIs DEF FInv, SInv
<1>2. Holding(pages, Contents)
  <2> DEFINE at(k) == {p \in Leaves : HasKey(pages[p], k)}
             pick(k) == CHOOSE p \in at(k) : TRUE
  <2>1. Contents = [k \in Key |->
          IF at(k) = {} THEN NoPage ELSE LeafGet(pages[pick(k)], k)]
    BY DEF Contents
  <2>2. \A k : at(k) # {} => pick(k) \in at(k)
    OBVIOUS
  <2>3. \A k, p : p \in at(k) <=> p \in DOMAIN pages /\ pages[p].level = 0 /\ HasKey(pages[p], k)
    BY <1>1 DEF Leaves
  <2> HIDE DEF at, pick
  <2>4. Contents = [k \in Key |-> Contents[k]]
    BY <2>1
  <2>5. ASSUME NEW k \in Key
        PROVE  \/ /\ Contents[k] = NoPage
                  /\ \A p \in DOMAIN pages : ~(pages[p].level = 0 /\ HasKey(pages[p], k))
               \/ \E p \in DOMAIN pages :
                    /\ pages[p].level = 0 /\ HasKey(pages[p], k)
                    /\ Contents[k] = LeafGet(pages[p], k)
    <3>1. CASE at(k) = {}
      BY <2>1, <2>3, <3>1
    <3>2. CASE at(k) # {}
      BY <2>1, <2>2, <2>3, <3>2
    <3> QED  BY <3>1, <3>2
  <2> QED  BY <2>4, <2>5 DEF Holding
<1> QED  BY <1>1, <1>2, HeldMap

LEMMA ContentsNext ==
  ASSUME IInv', FInv', SInv'
  PROVE  IsMap(pages', Contents')
<1>1. Pool(pages', nextFree') /\ DOMAIN pages' = Reserved'
  BY DEF IInv, TypeOK, PagesOK, Pool, Reserved
<1>2. Fences(pages', root') /\ Shape(pages')
  BY DEF FInv, SInv
<1>3. Holding(pages', Contents')
  <2> DEFINE at(k) == {p \in Leaves' : HasKey(pages'[p], k)}
             pick(k) == CHOOSE p \in at(k) : TRUE
  <2>1. Contents' = [k \in Key |->
          IF at(k) = {} THEN NoPage ELSE LeafGet(pages'[pick(k)], k)]
    BY DEF Contents
  <2>2. \A k : at(k) # {} => pick(k) \in at(k)
    OBVIOUS
  <2>3. \A k, p : p \in at(k) <=> p \in DOMAIN pages' /\ pages'[p].level = 0 /\ HasKey(pages'[p], k)
    BY <1>1 DEF Leaves
  <2> HIDE DEF at, pick
  <2>4. Contents' = [k \in Key |-> Contents'[k]]
    BY <2>1
  <2>5. ASSUME NEW k \in Key
        PROVE  \/ /\ Contents'[k] = NoPage
                  /\ \A p \in DOMAIN pages' : ~(pages'[p].level = 0 /\ HasKey(pages'[p], k))
               \/ \E p \in DOMAIN pages' :
                    /\ pages'[p].level = 0 /\ HasKey(pages'[p], k)
                    /\ Contents'[k] = LeafGet(pages'[p], k)
    <3>1. CASE at(k) = {}
      BY <2>1, <2>3, <3>1
    <3>2. CASE at(k) # {}
      BY <2>1, <2>2, <2>3, <3>2
    <3> QED  BY <3>1, <3>2
  <2> QED  BY <2>4, <2>5 DEF Holding
<1> QED  BY <1>1, <1>2, <1>3, HeldMap

LEMMA SameMap ==
  ASSUME NEW P, NEW Q, NEW f, NEW g, IsMap(P, f), IsMap(Q, g),
         \A k, v : Stored(Q, k, v) <=> Stored(P, k, v)
  PROVE  g = f
<1>1. \A k \in Key : g[k] = f[k]
  BY DEF IsMap
<1> QED  BY <1>1 DEF IsMap

LEMMA SetMap ==
  ASSUME NEW P, NEW Q, NEW f, NEW g, IsMap(P, f), IsMap(Q, g),
         NEW key \in Key, NEW w,
         \A v : Stored(Q, key, v) <=> v = w /\ v # NoPage,
         \A k, v : k # key => (Stored(Q, k, v) <=> Stored(P, k, v))
  PROVE  g = [f EXCEPT ![key] = w]
<1>1. \A k \in Key : k # key => g[k] = f[k]
  BY DEF IsMap
<1>2. g[key] = w
  BY DEF IsMap
<1> QED  BY <1>1, <1>2 DEF IsMap

(* Writing a page and splitting one, as the map sees it. *)
LEMMA RewrittenStored ==
  ASSUME NEW n, NEW P, Pool(P, n), NEW c \in DOMAIN P, NEW node, NEW Q,
         Rewritten(P, Q, c, node), NEW k, NEW v
  PROVE  Stored(Q, k, v) <=> Elsewhere(P, c, k, v) \/ (P[c].level = 0 /\ Holds(node, k, v))
<1>1. /\ DOMAIN Q = DOMAIN P /\ Q[c] = node /\ node.level = P[c].level
      /\ \A p \in DOMAIN P : p # c => Q[p] = P[p]
  BY RewrittenIs DEF Rewritten
<1> QED  BY <1>1 DEF Stored, Elsewhere

LEMMA SplitStored ==
  ASSUME NEW n, NEW P, Pool(P, n), Chain(P), NEW c \in DOMAIN P,
         NEW halves, SplitOK(P[c], halves, n), NEW Q, SplitAt(P, Q, n, c, halves),
         NEW k, NEW v
  PROVE  Stored(Q, k, v) <=>
           \/ Elsewhere(P, c, k, v)
           \/ P[c].level = 0 /\ (Holds(halves.left, k, v) \/ Holds(halves.right, k, v))
<1>1. /\ DOMAIN Q = DOMAIN P \cup {n} /\ Q[n] = halves.right /\ Q[c] = halves.left
      /\ \A p \in DOMAIN P : p # c => Q[p] = P[p]
  <2>1. /\ DOMAIN Q = DOMAIN P \cup {n}
        /\ Q[n] = halves.right /\ Q[c] = halves.left
        /\ \A p \in DOMAIN P : p # c => Q[p] = P[p]
        /\ Chain(Q) /\ LowsKept(P, Q) /\ LowIn(Q, n) = halves.sep
        /\ \A p \in DOMAIN P : LeftIn(P, p) = {} => LeftIn(Q, p) = {}
    BY SplitIs
  <2> QED  BY <2>1
<1>2. /\ halves.left.level = P[c].level /\ halves.right.level = P[c].level
      /\ n \notin DOMAIN P
  BY PoolFacts DEF SplitOK
<1> QED  BY <1>1, <1>2 DEF Stored, Elsewhere

LEMMA StoredIs ==
  ASSUME NEW P, NEW c \in DOMAIN P, NEW k, NEW v
  PROVE  Stored(P, k, v) <=> Elsewhere(P, c, k, v) \/ (P[c].level = 0 /\ Holds(P[c], k, v))
BY DEF Stored, Elsewhere

-----------------------------------------------------------------------------
(* Each call's effect on the map. *)

(* Under the leaf's latch, and not to be sent right, a thread is at the    *)
(* one leaf that can hold its key.                                         *)
LEMMA RightLeaf ==
  ASSUME IInv, FInv, SInv, NEW t \in Thread, pc[t] \in {"read", "write"},
         ~HasSplit(Here(t), SearchKey(t))
  PROVE  LET k == SearchKey(t) IN
         /\ k \in Key /\ Here(t).level = 0 /\ cur[t] \in DOMAIN pages
         /\ \A v : ~Elsewhere(pages, cur[t], k, v)
         /\ IsMap(pages, Contents)
         /\ HasKey(Here(t), k) <=> Contents[k] # NoPage
         /\ HasKey(Here(t), k) => LeafGet(Here(t), k) = Contents[k]
<1> DEFINE k == SearchKey(t)
           c == cur[t]
           node == Here(t)
<1>1. /\ Pool(pages, nextFree) /\ Fences(pages, root) /\ Shape(pages)
      /\ Guided(t) /\ SoughtKey(t) = k
  BY PoolIs DEF FInv, SInv, SoughtKey, Owing
<1>2. /\ k \in Key /\ c \in DOMAIN pages /\ node = pages[c] /\ node.level = 0
      /\ nextFree \in Nat /\ NodeOK(node, nextFree)
  BY ThreadPlace, HereFacts, Parts DEF ThreadOK, Here
<1>3. LowIn(pages, c) <= k /\ k < pages[c].high /\ k \in Int
  <2>1. k \in Int /\ pages[c].high \in Int
    BY <1>1, <1>2, PoolFacts, KeyInt
  <2>2. ~(k >= pages[c].high) /\ LowIn(pages, c) <= k
    BY <1>1, <1>2 DEF HasSplit, Guided, Seeking
  <2> HIDE DEF k, c
  <2> QED  BY <2>1, <2>2
<1>4. ASSUME NEW v PROVE ~Elsewhere(pages, c, k, v)
  <2> SUFFICES ASSUME NEW p \in DOMAIN pages, p # c, pages[p].level = 0, Holds(pages[p], k, v)
               PROVE  FALSE
    BY DEF Elsewhere
  <2>1. LowIn(pages, p) <= k /\ k < pages[p].high
    BY <1>1 DEF Fences, Fenced, Shape, Shaped
  <2>2. pages[p].level = pages[c].level
    BY <1>2
  <2> HIDE DEF k, c
  <2>3. p = c
    BY <1>1, <1>2, <1>3, <2>1, <2>2, OneAt
  <2> QED  BY <2>3
<1>5. IsMap(pages, Contents)
  BY ContentsIs
<1> HIDE DEF k, c, node
<1>6. \A v : Holds(node, k, v) <=> v # NoPage /\ Contents[k] = v
  BY <1>2, <1>4, <1>5, StoredIs DEF IsMap
<1>7. HasKey(node, k) <=> Contents[k] # NoPage
  BY <1>2, <1>6, NodeFacts, KeyHolds
<1>8. HasKey(node, k) => LeafGet(node, k) = Contents[k]
  BY <1>2, <1>6, LeafGetHolds
<1> QED  BY <1>2, <1>4, <1>5, <1>7, <1>8 DEF k, c, node

LEMMA InsertMap ==
  ASSUME IInv, FInv, SInv, IInv', FInv', SInv', NEW t \in Thread, Insert(t)
  PROVE  /\ Contents[SearchKey(t)] = NoPage
         /\ Contents' = [Contents EXCEPT ![SearchKey(t)] = call[t].val]
<1> DEFINE k == SearchKey(t)
           v == call[t].val
           c == cur[t]
           node == Here(t)
           new == LeafInsert(node, k, v)
<1>1. pc[t] = "write" /\ ~HasSplit(node, k) /\ ~HasKey(node, k) /\ Write(t, new)
  BY DEF Insert, AtLeafOf, At
<1>2. /\ k \in Key /\ node.level = 0 /\ c \in DOMAIN pages /\ node = pages[c]
      /\ \A y : ~Elsewhere(pages, c, k, y)
      /\ IsMap(pages, Contents) /\ (HasKey(node, k) <=> Contents[k] # NoPage)
  BY <1>1, RightLeaf DEF Here
<1>3. /\ nextFree \in Nat /\ NodeOK(node, nextFree) /\ v \in Nat
      /\ Pool(pages, nextFree) /\ IsMap(pages', Contents')
  BY <1>1, HereFacts, PoolIs, ContentsNext
<1> HIDE DEF k, v, node
<1>4. EntryAdded(node, new, k, v)
  BY <1>2, <1>3, LeafInsertHolds
<1>5. Rewritten(pages, pages', c, new)
  <2>1. node \in Node
    BY <1>3 DEF NodeOK
  <2>2. new.level = node.level /\ new.high = node.high /\ new.rlink = node.rlink
    BY <2>1, InsertKeeps
  <2>3. pages' = [pages EXCEPT ![c] = new]
    BY <1>1 DEF Write
  <2> HIDE DEF new, c
  <2> QED  BY <1>2, <2>2, <2>3 DEF Rewritten
<1> HIDE DEF new, c
<1>6. \A x, y : Stored(pages', x, y) <=> Elsewhere(pages, c, x, y) \/ Holds(new, x, y)
  BY <1>2, <1>3, <1>5, RewrittenStored
<1>7. \A x, y : Stored(pages, x, y) <=> Elsewhere(pages, c, x, y) \/ Holds(node, x, y)
  BY <1>2, StoredIs
<1>8. \A x, y : Holds(new, x, y) <=> Holds(node, x, y) \/ (x = k /\ y = v)
  BY <1>4 DEF EntryAdded
<1>9. \A y : ~Holds(node, k, y)
  BY <1>1, <1>2, <1>3, NodeFacts, KeyHolds
<1>10. \A y : Stored(pages', k, y) <=> y = v /\ y # NoPage
  BY <1>2, <1>3, <1>6, <1>8, <1>9 DEF NoPage
<1>11. \A x, y : x # k => (Stored(pages', x, y) <=> Stored(pages, x, y))
  BY <1>6, <1>7, <1>8
<1>12. Contents' = [Contents EXCEPT ![k] = v]
  BY <1>2, <1>3, <1>10, <1>11, SetMap
<1> QED  BY <1>1, <1>2, <1>12 DEF k, v

LEMMA DeleteMap ==
  ASSUME IInv, FInv, SInv, IInv', FInv', SInv', NEW t \in Thread, Delete(t)
  PROVE  /\ HasKey(Here(t), SearchKey(t)) <=> Contents[SearchKey(t)] # NoPage
         /\ Contents' = [Contents EXCEPT ![SearchKey(t)] = NoPage]
<1> DEFINE k == SearchKey(t)
           c == cur[t]
           node == Here(t)
           new == LeafDelete(node, k)
<1>1. /\ pc[t] = "write" /\ ~HasSplit(node, k)
      /\ IF HasKey(node, k) THEN Write(t, new) ELSE UNCHANGED <<pages, nextFree>>
  BY DEF Delete, AtLeafOf, At
<1>2. /\ k \in Key /\ node.level = 0 /\ c \in DOMAIN pages /\ node = pages[c]
      /\ \A y : ~Elsewhere(pages, c, k, y)
      /\ IsMap(pages, Contents) /\ (HasKey(node, k) <=> Contents[k] # NoPage)
  BY <1>1, RightLeaf DEF Here
<1>3. /\ nextFree \in Nat /\ NodeOK(node, nextFree)
      /\ Pool(pages, nextFree) /\ Shape(pages) /\ IsMap(pages', Contents')
  BY <1>1, HereFacts, PoolIs, ContentsNext DEF SInv
<1>4. Distinct(node.keys)
  BY <1>2, <1>3 DEF Shape, Shaped
<1> HIDE DEF k, node
<1>5. CASE HasKey(node, k)
  <2>1. EntryRemoved(node, new, k)
    BY <1>2, <1>3, <1>5, DeleteHolds
  <2>2. Rewritten(pages, pages', c, new)
    <3>1. node \in Node
      BY <1>3 DEF NodeOK
    <3>2. new.level = node.level /\ new.high = node.high /\ new.rlink = node.rlink
      BY <3>1, DeleteKeeps
    <3>3. pages' = [pages EXCEPT ![c] = new]
      BY <1>1, <1>5 DEF Write
    <3> HIDE DEF new, c
    <3> QED  BY <1>2, <3>2, <3>3 DEF Rewritten
  <2> HIDE DEF new, c
  <2>3. \A x, y : Stored(pages', x, y) <=> Elsewhere(pages, c, x, y) \/ Holds(new, x, y)
    BY <1>2, <1>3, <2>2, RewrittenStored
  <2>4. \A x, y : Stored(pages, x, y) <=> Elsewhere(pages, c, x, y) \/ Holds(node, x, y)
    BY <1>2, StoredIs
  <2>5. \A x, y : Holds(new, x, y) <=> Holds(node, x, y) /\ x # k
    BY <1>4, <2>1 DEF EntryRemoved
  <2>6. \A y : Stored(pages', k, y) <=> y = NoPage /\ y # NoPage
    BY <1>2, <2>3, <2>5
  <2>7. \A x, y : x # k => (Stored(pages', x, y) <=> Stored(pages, x, y))
    BY <2>3, <2>4, <2>5
  <2>8. Contents' = [Contents EXCEPT ![k] = NoPage]
    <3>1. IsMap(pages, Contents) /\ IsMap(pages', Contents') /\ k \in Key
      BY <1>2, <1>3
    <3> QED  BY ONLY <2>6, <2>7, <3>1, SetMap
  <2> QED  BY <1>2, <2>8 DEF k, node
<1>6. CASE ~HasKey(node, k)
  <2>1. pages' = pages
    BY <1>1, <1>6
  <2>2. Contents' = Contents
    BY <1>2, <1>3, <2>1, SameMap
  <2>3. Contents[k] = NoPage /\ Contents \in [Key -> Nat \cup {NoPage}]
    BY <1>2, <1>6 DEF IsMap
  <2>4. Contents = [Contents EXCEPT ![k] = NoPage]
    BY <1>2, <2>3
  <2> QED  BY <1>2, <2>2, <2>4 DEF k, node
<1> QED  BY <1>5, <1>6

LEMMA SplitLeafMap ==
  ASSUME IInv, FInv, SInv, IInv', FInv', SInv', NEW t \in Thread, SplitLeaf(t)
  PROVE  /\ Contents[SearchKey(t)] = NoPage
         /\ Contents' = [Contents EXCEPT ![SearchKey(t)] = call[t].val]
<1> DEFINE k == SearchKey(t)
           v == call[t].val
           c == cur[t]
           node == Here(t)
           halves == LeafSplit(node, c, nextFree, k, v)
<1>1. /\ pc[t] = "write" /\ ~HasSplit(node, k) /\ ~HasKey(node, k)
      /\ ~(Count(node) < LeafMax) /\ WriteSplit(t, halves)
  BY DEF SplitLeaf, AtLeafOf, At, LeafHasSpace
<1>2. /\ k \in Key /\ node.level = 0 /\ c \in DOMAIN pages /\ node = pages[c]
      /\ \A y : ~Elsewhere(pages, c, k, y)
      /\ IsMap(pages, Contents) /\ (HasKey(node, k) <=> Contents[k] # NoPage)
  BY <1>1, RightLeaf DEF Here
<1>3. /\ nextFree \in Nat /\ NodeOK(node, nextFree) /\ v \in Nat /\ c \in 0 .. nextFree - 1
      /\ Pool(pages, nextFree) /\ Chain(pages) /\ IsMap(pages', Contents')
  BY <1>1, HereFacts, PoolIs, ContentsNext DEF FInv, Fences
<1>4. k <= node.high
  <2>1. k \in Int /\ node.high \in Int /\ ~(k >= node.high)
    BY <1>1, <1>2, <1>3, NodeFacts, KeyInt DEF HasSplit
  <2> HIDE DEF k, node
  <2> QED  BY <2>1
<1>5. Count(node) >= 2
  <2>1. Count(node) \in Nat
    BY <1>3, NodeFacts DEF Count
  <2> HIDE DEF node
  <2> QED  BY <1>1, <2>1, CapacityAssumption
<1> HIDE DEF k, v, node
<1>6. SplitAt(pages, pages', nextFree, c, halves)
  BY <1>1 DEF WriteSplit, SplitAt
<1> HIDE DEF c
<1>7. SplitOK(node, halves, nextFree) /\ Halved(node, halves, k, v, FALSE)
  BY <1>2, <1>3, <1>4, <1>5, LeafSplitOK, LeafSplitHolds
<1> HIDE DEF halves
<1>8. SplitOK(pages[c], halves, nextFree) /\ pages[c].level = 0
  BY <1>2, <1>7
<1>9. \A x, y : Stored(pages', x, y) <=>
        \/ Elsewhere(pages, c, x, y)
        \/ Holds(halves.left, x, y) \/ Holds(halves.right, x, y)
  BY <1>2, <1>3, <1>6, <1>8, SplitStored
<1>10. \A x, y : Stored(pages, x, y) <=> Elsewhere(pages, c, x, y) \/ Holds(node, x, y)
  BY <1>2, StoredIs
<1>11. \A x, y : Holds(halves.left, x, y) \/ Holds(halves.right, x, y) <=>
                   Holds(node, x, y) \/ (x = k /\ y = v)
  BY <1>7 DEF Halved
<1>12. \A y : ~Holds(node, k, y)
  BY <1>1, <1>3, NodeFacts, KeyHolds
<1>13. \A y : Stored(pages', k, y) <=> y = v /\ y # NoPage
  BY <1>2, <1>3, <1>9, <1>11, <1>12 DEF NoPage
<1>14. \A x, y : x # k => (Stored(pages', x, y) <=> Stored(pages, x, y))
  BY <1>9, <1>10, <1>11
<1>15. Contents' = [Contents EXCEPT ![k] = v]
  BY <1>2, <1>3, <1>13, <1>14, SetMap
<1> QED  BY <1>1, <1>2, <1>15 DEF k, v

(* Above the leaves nothing touches the map. *)
LEMMA InnerMap ==
  ASSUME IInv, FInv, SInv, IInv', FInv', SInv', NEW t \in Thread,
         PostSeparator(t) \/ SplitInter(t) \/ CreateNewRoot(t)
  PROVE  Contents' = Contents
<1>1. IsMap(pages, Contents) /\ IsMap(pages', Contents')
  BY ContentsIs, ContentsNext
<1>2. /\ Pool(pages, nextFree) /\ Chain(pages) /\ cur[t] \in DOMAIN pages
      /\ nextFree \in Nat /\ NodeOK(Here(t), nextFree) /\ Here(t) = pages[cur[t]]
      /\ sep[t] \in Key /\ child[t] \in DOMAIN pages /\ child[t] \in 0 .. nextFree - 1
      /\ child[t] \in Nat /\ cur[t] \in 0 .. nextFree - 1
  <2>1. t \in Owing /\ pc[t] # "idle"
    BY DEF PostSeparator, SplitInter, CreateNewRoot, AtParent, At, Owing
  <2>2. cur[t] \in DOMAIN pages /\ sep[t] \in Key /\ child[t] \in DOMAIN pages
    BY <2>1, ThreadPlace
  <2>3. nextFree \in Nat /\ NodeOK(Here(t), nextFree) /\ Here(t) = pages[cur[t]]
    BY <2>1, HereFacts DEF Here
  <2>4. Pool(pages, nextFree) /\ Chain(pages)
    BY PoolIs DEF FInv, Fences
  <2>5. DOMAIN pages = 0 .. nextFree - 1 /\ \A p \in DOMAIN pages : p \in Nat
    BY <2>4, PoolFacts
  <2> QED  BY <2>2, <2>3, <2>4, <2>5
<1>3. ASSUME \A k, v : Stored(pages', k, v) <=> Stored(pages, k, v)
      PROVE  Contents' = Contents
  BY <1>1, <1>3, SameMap
<1>4. CASE PostSeparator(t)
  <2> DEFINE new == InterInsert(Here(t), sep[t], child[t])
  <2>1. pc[t] = "post" /\ Write(t, new)
    BY <1>4 DEF PostSeparator, AtParent, At
  <2>2. ~(pages[cur[t]].level = 0)
    BY <1>2, <2>1, PostPlace, NodeFacts
  <2>3. Rewritten(pages, pages', cur[t], new)
    <3> DEFINE node == Here(t)
    <3>1. node \in Node
      BY <1>2 DEF NodeOK
    <3>2. new.level = node.level /\ new.high = node.high /\ new.rlink = node.rlink
      BY <3>1, InsertKeeps
    <3>3. pages' = [pages EXCEPT ![cur[t]] = new] /\ node = pages[cur[t]]
      BY <1>2, <2>1 DEF Write
    <3> HIDE DEF new, node
    <3> QED  BY <3>2, <3>3 DEF Rewritten
  <2> HIDE DEF new
  <2>4. \A k, v : Stored(pages', k, v) <=> Elsewhere(pages, cur[t], k, v)
    BY <1>2, <2>2, <2>3, RewrittenStored
  <2>5. \A k, v : Stored(pages, k, v) <=> Elsewhere(pages, cur[t], k, v)
    BY <1>2, <2>2, StoredIs
  <2> QED  BY <1>3, <2>4, <2>5
<1>5. CASE SplitInter(t)
  <2> DEFINE node == Here(t)
             halves == InterSplit(node, cur[t], nextFree, sep[t], child[t])
  <2>1. /\ pc[t] = "post" /\ WriteSplit(t, halves) /\ ~(sep[t] >= node.high)
        /\ ~(Count(node) < InterMax)
    BY <1>5 DEF SplitInter, AtParent, At, HasSplit, InterHasSpace
  <2>2. ~(pages[cur[t]].level = 0)
    BY <1>2, <2>1, PostPlace, NodeFacts
  <2>3. Count(node) >= 4 /\ sep[t] <= node.high
    <3>1. Count(node) \in Nat /\ sep[t] \in Int /\ node.high \in Int
      BY <1>2, NodeFacts, KeyInt DEF Count
    <3> HIDE DEF node
    <3> QED  BY <2>1, <3>1, CapacityAssumption
  <2>4. SplitAt(pages, pages', nextFree, cur[t], halves)
    BY <2>1 DEF WriteSplit, SplitAt
  <2>5. node = pages[cur[t]] /\ NodeOK(node, nextFree)
    BY <1>2
  <2> HIDE DEF node
  <2>6. SplitOK(node, halves, nextFree)
    BY <1>2, <2>3, <2>5, InterSplitOK
  <2> HIDE DEF halves
  <2>7. SplitOK(pages[cur[t]], halves, nextFree)
    BY <2>5, <2>6
  <2>8. \A k, v : Stored(pages', k, v) <=> Elsewhere(pages, cur[t], k, v)
    BY <1>2, <2>2, <2>4, <2>7, SplitStored
  <2>9. \A k, v : Stored(pages, k, v) <=> Elsewhere(pages, cur[t], k, v)
    BY <1>2, <2>2, StoredIs
  <2> QED  BY <1>3, <2>8, <2>9
<1>6. CASE CreateNewRoot(t)
  <2> DEFINE n == nextFree
             node == RootNode(level[t], sep[t], cur[t], child[t])
  <2>1. Reserve(node) /\ level[t] \in Nat
    BY <1>6, Parts DEF CreateNewRoot, ThreadTypes
  <2>2. node.level = level[t] + 1
    BY <2>1, RootNodeHolds
  <2>3. ~(node.level = 0)
    BY <2>1, <2>2
  <2> HIDE DEF node
  <2>4. /\ DOMAIN pages' = DOMAIN pages \cup {n} /\ pages'[n] = node
        /\ \A p \in DOMAIN pages : pages'[p] = pages[p]
    <3>1. n \in Nat /\ DOMAIN pages = 0 .. n - 1
      BY <1>2, PoolFacts
    <3>2. 0 .. n = DOMAIN pages \cup {n} /\ n \notin DOMAIN pages
      BY <3>1
    <3> QED  BY <2>1, <3>2 DEF Reserve
  <2> QED  BY <1>3, <2>3, <2>4 DEF Stored
<1> QED  BY <1>4, <1>5, <1>6
-----------------------------------------------------------------------------
(* Each step of the tree is a step of KeyMap or changes nothing there. *)

CalledPC == {"latchDescend", "descend", "latchRead", "read", "latchWrite", "write"}
Phases == [t \in Thread |-> PhaseOf(t)]
Made == [t \in Thread |-> IF pc[t] = "idle" THEN NoPage ELSE call[t]]

LEMMA PhaseIs ==
  ASSUME NEW t
  PROVE  /\ PhaseOf(t) = IF pc[t] = "idle" THEN "idle"
                         ELSE IF pc[t] \in CalledPC THEN "called" ELSE "answered"
         /\ PhaseOf(t)' = IF pc'[t] = "idle" THEN "idle"
                          ELSE IF pc'[t] \in CalledPC THEN "called" ELSE "answered"
<1>1. PhaseOf(t) = IF pc[t] = "idle" THEN "idle"
                   ELSE IF pc[t] \in CalledPC THEN "called" ELSE "answered"
  BY DEF PhaseOf, CalledPC
<1>2. PhaseOf(t)' = IF pc'[t] = "idle" THEN "idle"
                    ELSE IF pc'[t] \in CalledPC THEN "called" ELSE "answered"
  BY DEF PhaseOf, CalledPC
<1> QED  BY <1>1, <1>2

LEMMA FramePhases ==
  ASSUME NEW t \in Thread, Frame(t), NEW f, f = PhaseOf(t)'
  PROVE  Phases' = [Phases EXCEPT ![t] = f]
<1>1. \A u \in Thread \ {t} : PhaseOf(u)' = PhaseOf(u)
  BY PhaseIs DEF Frame
<1>2. Phases' = [u \in Thread |-> PhaseOf(u)']
  BY DEF Phases
<1>3. Phases = [u \in Thread |-> PhaseOf(u)]
  BY DEF Phases
<1> QED  BY <1>1, <1>2, <1>3

LEMMA FrameMade ==
  ASSUME NEW t \in Thread, Frame(t), NEW c,
         c = IF pc'[t] = "idle" THEN NoPage ELSE call'[t]
  PROVE  Made' = [Made EXCEPT ![t] = c]
<1>1. Made' = [u \in Thread |-> IF pc'[u] = "idle" THEN NoPage ELSE call'[u]]
  BY DEF Made
<1>2. Made = [u \in Thread |-> IF pc[u] = "idle" THEN NoPage ELSE call[u]]
  BY DEF Made
<1> QED  BY <1>1, <1>2 DEF Frame

(* A step within a phase that leaves the map alone. *)
LEMMA StutterStep ==
  ASSUME NEW t \in Thread, Frame(t), UNCHANGED <<call, answer>>,
         pc[t] # "idle", pc'[t] # "idle", pc'[t] \in CalledPC <=> pc[t] \in CalledPC,
         Contents' = Contents
  PROVE  UNCHANGED Abstract!vars
<1>1. PhaseOf(t)' = PhaseOf(t)
  BY PhaseIs
<1>2. Phases' = Phases
  <2>1. Phases' = [Phases EXCEPT ![t] = PhaseOf(t)]
    BY <1>1, FramePhases
  <2> QED  BY <2>1 DEF Phases
<1>3. Made' = Made
  <2>1. Made' = [Made EXCEPT ![t] = call[t]]
    BY FrameMade
  <2> QED  BY <2>1 DEF Made
<1> QED  BY <1>2, <1>3 DEF Abstract!vars, Phases, Made

(* The step at which a call takes effect. *)
LEMMA EffectStep ==
  ASSUME NEW t \in Thread, Frame(t), call' = call,
         pc[t] \in CalledPC, pc'[t] # "idle", pc'[t] \notin CalledPC,
         NEW v, Contents' = [Contents EXCEPT ![SearchKey(t)] = v],
         NEW a, answer' = [answer EXCEPT ![t] = a],
         LET old == Contents[SearchKey(t)] IN
           \/ /\ call[t].kind = "insert" /\ old = NoPage
              /\ v = call[t].val /\ a = [ok |-> TRUE, val |-> NoPage]
           \/ /\ call[t].kind = "delete" /\ old # NoPage
              /\ v = NoPage /\ a = [ok |-> TRUE, val |-> NoPage]
           \/ /\ call[t].kind = "get" /\ old # NoPage
              /\ v = old /\ a = [ok |-> TRUE, val |-> old]
           \/ /\ (call[t].kind = "insert") = (old # NoPage)
              /\ v = old /\ a = [ok |-> FALSE, val |-> NoPage]
  PROVE  Abstract!Effect(t)
<1>1. Phases[t] = "called" /\ Phases' = [Phases EXCEPT ![t] = "answered"]
  <2>1. PhaseOf(t) = "called" /\ PhaseOf(t)' = "answered"
    BY PhaseIs DEF CalledPC
  <2> QED  BY <2>1, FramePhases DEF Phases
<1>2. Made' = Made /\ Made[t] = call[t]
  <2>1. Made' = [Made EXCEPT ![t] = call[t]] /\ pc[t] # "idle"
    BY FrameMade DEF CalledPC
  <2> QED  BY <2>1 DEF Made
<1>3. Abstract!Respond(t, v, a)
  BY <1>1, <1>2 DEF Abstract!Respond, Phases, Made, SearchKey
<1> QED
  BY <1>1, <1>2, <1>3 DEF Abstract!Effect, Abstract!Hit, Abstract!Miss, Phases, Made, SearchKey

(* Only a Get reads a leaf under a shared latch. *)
Reading == \A t \in Thread : pc[t] \in {"latchRead", "read"} => call[t].kind = "get"

LEMMA ReadingNext == IInv /\ Reading /\ [Next]_vars => Reading'
<1> SUFFICES ASSUME IInv, Reading, [Next]_vars PROVE Reading'
  OBVIOUS
<1>1. ASSUME NEW t \in Thread, Step(t) PROVE Reading'
  <2>1. ThreadTypes /\ Frame(t)
    BY <1>1, Parts, Framed
  <2>2. ASSUME pc'[t] \in {"latchRead", "read"} => call'[t].kind = "get"
        PROVE  Reading'
    BY <2>1, <2>2 DEF Reading, Frame
  <2>3. ASSUME NEW l \in PC \ {"latchRead", "read"}, pc' = [pc EXCEPT ![t] = l]
        PROVE  Reading'
    BY <2>1, <2>2, <2>3 DEF ThreadTypes
  <2>4. CASE LatchRead(t) \/ ReadRight(t)
    <3>1. pc[t] \in {"latchRead", "read"} /\ call' = call
      BY <2>4 DEF LatchRead, LatchShared, ReadRight, At
    <3> QED  BY <2>2, <3>1 DEF Reading
  <2>5. CASE ReachLeaf(t)
    <3>1. /\ pc'[t] = IF call[t].kind = "get" THEN "latchRead" ELSE "latchWrite"
          /\ call' = call
      BY <2>1, <2>5 DEF ReachLeaf, Goto, ThreadTypes
    <3> QED  BY <2>2, <3>1
  <2>6. CASE \/ LatchDescend(t) \/ LatchWrite(t) \/ LatchPost(t) \/ LatchRedescend(t)
             \/ LockRoot(t)
    <3>1. \E l \in PC \ {"latchRead", "read"} : pc' = [pc EXCEPT ![t] = l]
      BY <2>6 DEF LatchDescend, LatchWrite, LatchPost, LatchRedescend, LockRoot,
         LatchShared, LatchExclusive, Goto, PC, LatchPC, SharedPC, ExclusivePC
    <3> QED  BY <2>3, <3>1
  <2>7. CASE \/ Start(t) \/ DescendRight(t) \/ DescendDown(t)
             \/ GoRightLeaf(t) \/ RedescendRight(t) \/ RedescendDown(t)
             \/ GoRightInter(t) \/ ReloadRoot(t) \/ Return(t)
    <3>1. \E l \in PC \ {"latchRead", "read"} : pc' = [pc EXCEPT ![t] = l]
      BY <2>7 DEF Start, DescendRight, DescendDown, GoRightLeaf, RedescendRight,
         RedescendDown, GoRightInter, ReloadRoot, Return, Goto, PC
    <3> QED  BY <2>3, <3>1
  <2>8. CASE \/ Read(t) \/ InsertDuplicate(t) \/ Insert(t)
             \/ Delete(t) \/ CreateNewRoot(t) \/ RootMoved(t)
             \/ RedescendStop(t) \/ PostSeparator(t)
    <3>1. \E l \in PC \ {"latchRead", "read"} : pc' = [pc EXCEPT ![t] = l]
      BY <2>8 DEF Read, InsertDuplicate, Insert, Delete, CreateNewRoot, RootMoved,
         RedescendStop, PostSeparator, Goto, PC
    <3> QED  BY <2>3, <3>1
  <2>9. CASE SplitLeaf(t) \/ SplitInter(t)
    <3>1. Propagate(t)
      BY <2>9 DEF SplitLeaf, SplitInter
    <3>2. \E l \in PC \ {"latchRead", "read"} : pc' = [pc EXCEPT ![t] = l]
      BY <3>1 DEF Propagate, Goto, PC
    <3> QED  BY <2>3, <3>2
  <2>10. CASE Abort(t)
    BY <2>10 DEF Abort, Reading
  <2> QED  BY <1>1, <2>4, <2>5, <2>6, <2>7, <2>8, <2>9, <2>10 DEF Step
<1>2. CASE UNCHANGED vars
  BY <1>2 DEF vars, Reading
<1> QED  BY <1>1, <1>2 DEF Next, Ended

(* The pages as they were, the map is as it was. *)
LEMMA SamePages == UNCHANGED <<pages, nextFree>> => Contents' = Contents
BY DEF Contents, Leaves, Reserved

LEMMA StartStep ==
  ASSUME IInv, NEW t \in Thread, Start(t)
  PROVE  Abstract!Invoke(t)
<1>1. /\ pc[t] = "idle" /\ pc' = [pc EXCEPT ![t] = "latchDescend"]
      /\ UNCHANGED <<pages, nextFree, answer>>
      /\ todo[t] # <<>> /\ \E c \in Head(todo[t]) : call' = [call EXCEPT ![t] = c]
  BY DEF Start, At, Goto, shared
<1>2. ThreadTypes /\ Frame(t) /\ Contents' = Contents
  BY <1>1, Parts, Framed, SamePages DEF Step
<1>3. PICK c \in Calls : call' = [call EXCEPT ![t] = c]
  <2>1. todo[t] \in Seq(SUBSET Calls)
    BY <1>2 DEF ThreadTypes
  <2> DEFINE q == todo[t]
  <2> HIDE DEF q
  <2>2. q \in Seq(SUBSET Calls) /\ q # <<>> => Head(q) \in SUBSET Calls
    OBVIOUS
  <2> QED  BY <1>1, <2>1, <2>2 DEF q
<1>4. pc'[t] = "latchDescend" /\ call'[t] = c
  BY <1>1, <1>2, <1>3 DEF ThreadTypes
<1>5. Phases[t] = "idle" /\ Phases' = [Phases EXCEPT ![t] = "called"]
  <2>1. PhaseOf(t) = "idle" /\ PhaseOf(t)' = "called"
    BY <1>1, <1>4, PhaseIs DEF CalledPC
  <2> QED  BY <1>2, <2>1, FramePhases DEF Phases
<1>6. Made' = [Made EXCEPT ![t] = c]
  BY <1>2, <1>4, FrameMade
<1>7. c \in Abstract!Call
  BY DEF Calls, Abstract!Call
<1> QED  BY <1>1, <1>2, <1>5, <1>6, <1>7 DEF Abstract!Invoke, Phases, Made

LEMMA ReturnStep ==
  ASSUME IInv, NEW t \in Thread, Return(t)
  PROVE  Abstract!Return(t)
<1>1. /\ pc[t] = "return" /\ pc' = [pc EXCEPT ![t] = "idle"]
      /\ answer' = [answer EXCEPT ![t] = NoAnswer] /\ UNCHANGED <<pages, nextFree>>
  BY DEF Return, At, Goto, shared
<1>2. ThreadTypes /\ Frame(t) /\ Contents' = Contents
  BY <1>1, Parts, Framed, SamePages DEF Step
<1>3. pc'[t] = "idle"
  BY <1>1, <1>2 DEF ThreadTypes
<1>4. Phases[t] = "answered" /\ Phases' = [Phases EXCEPT ![t] = "idle"]
  <2>1. PhaseOf(t) = "answered" /\ PhaseOf(t)' = "idle"
    BY <1>1, <1>3, PhaseIs DEF CalledPC
  <2> QED  BY <1>2, <2>1, FramePhases DEF Phases
<1>5. Made' = [Made EXCEPT ![t] = NoPage]
  BY <1>2, <1>3, FrameMade
<1> QED
  BY <1>1, <1>2, <1>4, <1>5 DEF Abstract!Return, Abstract!Miss, NoAnswer, Phases, Made

LEMMA AnswerStep ==
  ASSUME IInv, NEW t \in Thread, Step(t), pc[t] \in {"read", "write"},
         UNCHANGED call, pc' = [pc EXCEPT ![t] = "return"]
  PROVE  /\ Frame(t) /\ pc[t] \in CalledPC /\ pc'[t] # "idle" /\ pc'[t] \notin CalledPC
         /\ SearchKey(t) \in Key
<1>1. ThreadTypes /\ Frame(t) /\ SearchKey(t) \in Key
  BY Parts, Framed, HereFacts
<1>2. pc'[t] = "return"
  BY <1>1 DEF ThreadTypes
<1> QED  BY <1>1, <1>2 DEF CalledPC

LEMMA ReadStep ==
  ASSUME IInv, FInv, SInv, Reading, NEW t \in Thread, Read(t)
  PROVE  Abstract!Effect(t)
<1> DEFINE k == SearchKey(t)
           node == Here(t)
           v == LeafGet(node, k)
<1>1. /\ pc[t] = "read" /\ call[t].kind = "get" /\ ~HasSplit(node, k)
      /\ pc' = [pc EXCEPT ![t] = "return"]
      /\ UNCHANGED <<pages, nextFree, call>>
  BY DEF Read, At, Goto, Reading, shared
<1>2. /\ Frame(t) /\ pc[t] \in CalledPC /\ pc'[t] # "idle" /\ pc'[t] \notin CalledPC
      /\ k \in Key
  BY <1>1, AnswerStep DEF Step
<1>3. /\ IsMap(pages, Contents) /\ (HasKey(node, k) <=> Contents[k] # NoPage)
      /\ HasKey(node, k) => v = Contents[k]
  BY <1>1, RightLeaf
<1>4. Contents' = [Contents EXCEPT ![k] = Contents[k]]
  BY <1>1, <1>3, SamePages DEF IsMap
<1>5. CASE HasKey(node, k)
  <2>1. answer' = [answer EXCEPT ![t] = [ok |-> TRUE, val |-> v]]
    BY <1>5 DEF Read, Answer
  <2> HIDE DEF v, node
  <2>2. answer' = [answer EXCEPT ![t] = [ok |-> TRUE, val |-> Contents[k]]]
    BY <1>3, <1>5, <2>1
  <2> QED  BY <1>1, <1>2, <1>3, <1>4, <1>5, <2>2, EffectStep
<1>6. CASE ~HasKey(node, k)
  <2>1. answer' = [answer EXCEPT ![t] = [ok |-> FALSE, val |-> NoPage]]
    BY <1>6 DEF Read, Answer
  <2> HIDE DEF v, node
  <2> QED  BY <1>1, <1>2, <1>3, <1>4, <1>6, <2>1, EffectStep
<1> QED  BY <1>5, <1>6

LEMMA DuplicateStep ==
  ASSUME IInv, FInv, SInv, NEW t \in Thread, InsertDuplicate(t)
  PROVE  Abstract!Effect(t)
<1> DEFINE k == SearchKey(t)
           node == Here(t)
<1>1. /\ pc[t] = "write" /\ call[t].kind = "insert" /\ ~HasSplit(node, k)
      /\ HasKey(node, k) /\ pc' = [pc EXCEPT ![t] = "return"]
      /\ UNCHANGED <<pages, nextFree, call>>
      /\ answer' = [answer EXCEPT ![t] = [ok |-> FALSE, val |-> NoPage]]
  BY DEF InsertDuplicate, AtLeafOf, At, Goto, Answer, shared
<1>2. /\ Frame(t) /\ pc[t] \in CalledPC /\ pc'[t] # "idle" /\ pc'[t] \notin CalledPC
      /\ k \in Key
  BY <1>1, AnswerStep DEF Step
<1>3. IsMap(pages, Contents) /\ (HasKey(node, k) <=> Contents[k] # NoPage)
  BY <1>1, RightLeaf
<1>4. Contents' = [Contents EXCEPT ![k] = Contents[k]]
  BY <1>1, <1>3, SamePages DEF IsMap
<1> HIDE DEF node
<1> QED  BY <1>1, <1>2, <1>3, <1>4, EffectStep

LEMMA InsertStep ==
  ASSUME IInv, FInv, SInv, IInv', FInv', SInv', NEW t \in Thread, Insert(t)
  PROVE  Abstract!Effect(t)
<1>1. /\ pc[t] = "write" /\ call[t].kind = "insert"
      /\ pc' = [pc EXCEPT ![t] = "return"] /\ UNCHANGED call
      /\ answer' = [answer EXCEPT ![t] = [ok |-> TRUE, val |-> NoPage]]
  BY DEF Insert, AtLeafOf, At, Goto, Answer
<1>2. Frame(t) /\ pc[t] \in CalledPC /\ pc'[t] # "idle" /\ pc'[t] \notin CalledPC
  BY <1>1, AnswerStep DEF Step
<1>3. /\ Contents[SearchKey(t)] = NoPage
      /\ Contents' = [Contents EXCEPT ![SearchKey(t)] = call[t].val]
  BY InsertMap
<1> QED  BY <1>1, <1>2, <1>3, EffectStep

LEMMA SplitLeafStep ==
  ASSUME IInv, FInv, SInv, IInv', FInv', SInv', NEW t \in Thread, SplitLeaf(t)
  PROVE  Abstract!Effect(t)
<1>1. /\ pc[t] = "write" /\ call[t].kind = "insert"
      /\ \E l \in {"rootLock", "latchPost"} : pc' = [pc EXCEPT ![t] = l]
      /\ UNCHANGED call
      /\ answer' = [answer EXCEPT ![t] = [ok |-> TRUE, val |-> NoPage]]
  BY DEF SplitLeaf, AtLeafOf, At, Propagate, Goto, Answer
<1>2. ThreadTypes /\ Frame(t)
  BY Parts, Framed DEF Step
<1>3. pc[t] \in CalledPC /\ pc'[t] # "idle" /\ pc'[t] \notin CalledPC
  BY <1>1, <1>2 DEF ThreadTypes, CalledPC
<1>4. /\ Contents[SearchKey(t)] = NoPage
      /\ Contents' = [Contents EXCEPT ![SearchKey(t)] = call[t].val]
  BY SplitLeafMap
<1> QED  BY <1>1, <1>2, <1>3, <1>4, EffectStep

LEMMA DeleteStep ==
  ASSUME IInv, FInv, SInv, IInv', FInv', SInv', NEW t \in Thread, Delete(t)
  PROVE  Abstract!Effect(t)
<1> DEFINE k == SearchKey(t)
           node == Here(t)
<1>1. /\ pc[t] = "write" /\ call[t].kind = "delete"
      /\ pc' = [pc EXCEPT ![t] = "return"] /\ UNCHANGED call
      /\ answer' = [answer EXCEPT ![t] = [ok |-> HasKey(node, k), val |-> NoPage]]
  BY DEF Delete, AtLeafOf, At, Goto, Answer
<1>2. Frame(t) /\ pc[t] \in CalledPC /\ pc'[t] # "idle" /\ pc'[t] \notin CalledPC
  BY <1>1, AnswerStep DEF Step
<1>3. /\ HasKey(node, k) <=> Contents[k] # NoPage
      /\ Contents' = [Contents EXCEPT ![k] = NoPage]
  BY DeleteMap
<1>4. HasKey(node, k) \in BOOLEAN
  BY DEF HasKey
<1> HIDE DEF node
<1>5. CASE HasKey(node, k)
  <2>1. answer' = [answer EXCEPT ![t] = [ok |-> TRUE, val |-> NoPage]]
    BY <1>1, <1>4, <1>5
  <2> QED  BY <1>1, <1>2, <1>3, <1>5, <2>1, EffectStep
<1>6. CASE ~HasKey(node, k)
  <2>1. answer' = [answer EXCEPT ![t] = [ok |-> FALSE, val |-> NoPage]]
    BY <1>1, <1>4, <1>6
  <2> QED  BY <1>1, <1>2, <1>3, <1>6, <2>1, EffectStep
<1> QED  BY <1>5, <1>6

(* The other steps change nothing that a caller sees. *)
LEMMA QuietStep ==
  ASSUME IInv, FInv, SInv, IInv', FInv', SInv', NEW t \in Thread, Step(t),
         ~(Start(t) \/ Return(t) \/ Read(t) \/ InsertDuplicate(t) \/ Insert(t)
           \/ SplitLeaf(t) \/ Delete(t))
  PROVE  UNCHANGED Abstract!vars
<1>1. ThreadTypes /\ Frame(t) /\ call' = call
  BY Parts, Framed, CallStep
<1>2. ASSUME answer' = answer, Contents' = Contents, NEW l \in PC,
             pc[t] \in CalledPC, l \in CalledPC, pc' = [pc EXCEPT ![t] = l]
      PROVE  UNCHANGED Abstract!vars
  <2>1. pc'[t] = l
    BY <1>1, <1>2 DEF ThreadTypes
  <2> QED  BY <1>1, <1>2, <2>1, StutterStep DEF CalledPC
<1>3. ASSUME answer' = answer, Contents' = Contents, NEW l \in PC,
             pc[t] \notin CalledPC \cup {"idle"}, l \notin CalledPC \cup {"idle"},
             pc' = [pc EXCEPT ![t] = l]
      PROVE  UNCHANGED Abstract!vars
  <2>1. pc'[t] = l
    BY <1>1, <1>3 DEF ThreadTypes
  <2> QED  BY <1>1, <1>3, <2>1, StutterStep
<1>4. CASE LatchDescend(t) \/ LatchRead(t) \/ LatchWrite(t)
  <2>1. /\ \E l \in CalledPC : pc' = [pc EXCEPT ![t] = l]
        /\ pc[t] \in CalledPC /\ UNCHANGED <<pages, nextFree, answer>>
    BY <1>4 DEF LatchDescend, LatchRead, LatchWrite, LatchShared, LatchExclusive,
       At, Goto, shared, CalledPC
  <2> QED  BY <1>2, <2>1, SamePages DEF CalledPC, PC, LatchPC, SharedPC, ExclusivePC
<1>5. CASE ReachLeaf(t) \/ DescendRight(t) \/ DescendDown(t) \/ ReadRight(t) \/ GoRightLeaf(t)
  <2>1. /\ \E l \in CalledPC : pc' = [pc EXCEPT ![t] = l]
        /\ pc[t] \in CalledPC /\ UNCHANGED <<pages, nextFree, answer>>
    BY <1>5 DEF ReachLeaf, DescendRight, DescendDown, ReadRight, GoRightLeaf,
       At, Goto, shared, CalledPC
  <2> QED  BY <1>2, <2>1, SamePages DEF CalledPC, PC, LatchPC, SharedPC, ExclusivePC
<1> DEFINE Answered == PC \ (CalledPC \cup {"idle"})
<1>6. CASE LatchPost(t) \/ LatchRedescend(t) \/ LockRoot(t)
  <2>1. /\ \E l \in Answered : pc' = [pc EXCEPT ![t] = l]
        /\ pc[t] \notin CalledPC \cup {"idle"} /\ UNCHANGED <<pages, nextFree, answer>>
    BY <1>6 DEF LatchPost, LatchRedescend, LockRoot, LatchShared, LatchExclusive,
       At, Goto, shared, CalledPC, PC, LatchPC, SharedPC, ExclusivePC
  <2> QED  BY <1>3, <2>1, SamePages
<1>7. CASE \/ RootMoved(t) \/ ReloadRoot(t) \/ RedescendRight(t) \/ RedescendDown(t)
           \/ RedescendStop(t) \/ GoRightInter(t)
  <2>1. /\ \E l \in Answered : pc' = [pc EXCEPT ![t] = l]
        /\ pc[t] \notin CalledPC \cup {"idle"} /\ UNCHANGED <<pages, nextFree, answer>>
    BY <1>7 DEF RootMoved, ReloadRoot, RedescendRight, RedescendDown, RedescendStop,
       GoRightInter, At, Goto, shared, CalledPC, PC, LatchPC
  <2> QED  BY <1>3, <2>1, SamePages
<1>8. CASE PostSeparator(t) \/ SplitInter(t) \/ CreateNewRoot(t)
  <2>1. /\ \E l \in Answered : pc' = [pc EXCEPT ![t] = l]
        /\ pc[t] \notin CalledPC \cup {"idle"} /\ UNCHANGED answer
    BY <1>8 DEF PostSeparator, SplitInter, CreateNewRoot, AtParent, Propagate,
       At, Goto, CalledPC, PC
  <2>2. Contents' = Contents
    BY <1>8, InnerMap
  <2> QED  BY <1>3, <2>1, <2>2
<1>9. CASE Abort(t)
  BY <1>1, <1>9, SamePages DEF Abort, Abstract!vars, PhaseOf
<1> QED  BY <1>4, <1>5, <1>6, <1>7, <1>8, <1>9 DEF Step

LEMMA AbstractStep ==
  IInv /\ FInv /\ SInv /\ Reading /\ IInv' /\ FInv' /\ SInv' /\ [Next]_vars
    => [Abstract!Next]_(Abstract!vars)
<1> SUFFICES ASSUME IInv, FInv, SInv, Reading, IInv', FInv', SInv', [Next]_vars
             PROVE  Abstract!Next \/ UNCHANGED Abstract!vars
  OBVIOUS
<1>1. ASSUME NEW t \in Thread, Step(t) PROVE Abstract!Next \/ UNCHANGED Abstract!vars
  <2>1. ASSUME Abstract!Invoke(t) \/ Abstract!Effect(t) \/ Abstract!Return(t)
        PROVE  Abstract!Next
    BY <2>1 DEF Abstract!Next
  <2>2. CASE Start(t)
    BY <2>1, <2>2, StartStep
  <2>3. CASE Return(t)
    BY <2>1, <2>3, ReturnStep
  <2>4. CASE Read(t)
    BY <2>1, <2>4, ReadStep
  <2>5. CASE InsertDuplicate(t)
    BY <2>1, <2>5, DuplicateStep
  <2>6. CASE Insert(t)
    BY <2>1, <2>6, InsertStep
  <2>7. CASE SplitLeaf(t)
    BY <2>1, <2>7, SplitLeafStep
  <2>8. CASE Delete(t)
    BY <2>1, <2>8, DeleteStep
  <2> QED  BY <1>1, <2>2, <2>3, <2>4, <2>5, <2>6, <2>7, <2>8, QuietStep
<1>2. CASE UNCHANGED vars
  <2>1. Contents' = Contents
    BY <1>2, SamePages DEF vars, shared
  <2> QED  BY <1>2, <2>1 DEF vars, Abstract!vars, PhaseOf
<1> QED  BY <1>1, <1>2 DEF Next, Ended

LEMMA AbstractInit == Init => Abstract!Init
<1> SUFFICES ASSUME Init PROVE Abstract!Init
  OBVIOUS
<1>1. \A t \in Thread : pc[t] = "idle"
  BY DEF Init
<1>2. Phases = [t \in Thread |-> "idle"]
  <2>1. \A t \in Thread : PhaseOf(t) = "idle"
    BY <1>1, PhaseIs
  <2> QED  BY <2>1 DEF Phases
<1>3. Made = [t \in Thread |-> NoPage]
  BY <1>1 DEF Made
<1>4. Contents = [k \in Key |-> NoPage]
  <2>1. \A p \in Reserved : \A k : ~HasKey(pages[p], k)
    BY DEF Init, Reserved, NewNode, HasKey
  <2> QED  BY <2>1 DEF Contents, Leaves
<1>5. answer = [t \in Thread |-> Abstract!Miss]
  BY DEF Init, NoAnswer, Abstract!Miss
<1> QED  BY <1>2, <1>3, <1>4, <1>5 DEF Abstract!Init, Phases, Made

(* Insert, Delete and Get are linearizable: the tree implements KeyMap.    *)
(* An insert takes effect with the write of the leaf, split or not, and    *)
(* the separators posted later change nothing that a caller can see.       *)
THEOREM Linearizes == Spec /\ []RedescentHigh => Linearizable
<1>1. Init => Abstract!Init
  BY AbstractInit
<1>2. Init => Reading
  BY DEF Init, Reading
<1>3. IInv /\ Reading /\ [Next]_vars => Reading'
  BY ReadingNext
<1>4. IInv /\ FInv /\ SInv /\ Reading /\ IInv' /\ FInv' /\ SInv' /\ [Next]_vars
        => [Abstract!Next]_(Abstract!vars)
  BY AbstractStep
<1> QED
  BY ShapeInvariance, <1>1, <1>2, <1>3, <1>4, PTL DEF Spec, Linearizable, Abstract!Spec
-----------------------------------------------------------------------------
(* What the repository's own specification asks of the finished tree. *)

LEMMA KeysCounted ==
  ASSUME NEW s \in Seq(Key), Distinct(s)
  PROVE  Cardinality(RangeOf(s)) = Len(s)
<1> DEFINE T == RangeOf(s)
<1>1. /\ Len(s) \in Nat /\ DOMAIN s = 1 .. Len(s) /\ s \in [1 .. Len(s) -> Key]
  OBVIOUS
<1>2. s \in [1 .. Len(s) -> T] /\ \A y \in T : \E i \in 1 .. Len(s) : s[i] = y
  BY <1>1 DEF RangeOf
<1> HIDE DEF T
<1>3. s \in Injection(1 .. Len(s), T)
  BY <1>1, <1>2 DEF Injection, IsInjective, Distinct
<1>4. s \in Surjection(1 .. Len(s), T)
  BY <1>2 DEF Surjection
<1>5. ExistsBijection(1 .. Len(s), T)
  BY <1>3, <1>4 DEF ExistsBijection, Bijection
<1>6. Cardinality(T) = Len(s)
  BY <1>1, <1>5, FS_CountingElements
<1> QED  BY <1>6 DEF T

(* No key is in two leaves, or twice in one, at any time: more than        *)
(* DistinctCheck, which looks when all threads are done.                   *)
THEOREM KeysDistinct == Spec /\ []RedescentHigh => [](DistinctLeafKeys /\ DistinctCheck)
<1>1. IInv /\ FInv /\ SInv => DistinctLeafKeys
  <2> SUFFICES ASSUME IInv, FInv, SInv PROVE DistinctLeafKeys
    OBVIOUS
  <2>1. /\ Pool(pages, nextFree) /\ Fences(pages, root) /\ Shape(pages)
        /\ DOMAIN pages = Reserved
    BY PoolIs DEF FInv, SInv
  <2>2. ASSUME NEW p \in Leaves
        PROVE  /\ p \in DOMAIN pages /\ pages[p].level = 0
               /\ pages[p].keys \in Seq(Key) /\ Distinct(pages[p].keys)
               /\ \A k \in RangeOf(pages[p].keys) : \E v : Holds(pages[p], k, v)
    <3>1. p \in DOMAIN pages /\ pages[p].level = 0
      BY <2>1, <2>2 DEF Leaves
    <3>2. nextFree \in Nat /\ NodeOK(pages[p], nextFree)
      BY <2>1, <3>1, PoolFacts
    <3>3. pages[p].keys \in Seq(Key) /\ Len(pages[p].keys) \in Nat
      BY <3>2, NodeFacts
    <3>4. \A k \in RangeOf(pages[p].keys) : HasKey(pages[p], k)
      BY DEF RangeOf, HasKey
    <3>5. \A k \in RangeOf(pages[p].keys) : \E v : Holds(pages[p], k, v)
      BY <3>3, <3>4, KeyHolds
    <3> QED  BY <2>1, <3>1, <3>3, <3>5 DEF Shape, Shaped
  <2>3. ASSUME NEW p \in Leaves, NEW q \in Leaves, p # q
        PROVE  RangeOf(pages[p].keys) \cap RangeOf(pages[q].keys) = {}
    <3> SUFFICES ASSUME NEW k, k \in RangeOf(pages[p].keys), k \in RangeOf(pages[q].keys)
                 PROVE  FALSE
      OBVIOUS
    <3>1. PICK v, w : Holds(pages[p], k, v) /\ Holds(pages[q], k, w)
      BY <2>2
    <3>2. /\ p \in DOMAIN pages /\ q \in DOMAIN pages /\ pages[p].level = pages[q].level
      BY <2>2
    <3>3. p = q
      BY <2>1, <3>1, <3>2, OneStored
    <3> QED  BY <2>3, <3>3
  <2>4. ASSUME NEW p \in Leaves
        PROVE  Cardinality(RangeOf(pages[p].keys)) = Count(pages[p])
    BY <2>2, KeysCounted DEF Count
  <2> QED  BY <2>3, <2>4 DEF DistinctLeafKeys
<1>2. DistinctLeafKeys => DistinctCheck
  BY DEF DistinctCheck
<1> QED  BY ShapeInvariance, <1>1, <1>2, PTL

-----------------------------------------------------------------------------
(* With one thread that inserts, RedescentHigh holds by itself: the root   *)
(* cannot change under that thread, and it never goes down twice.  The     *)
(* others may delete and look up as they like.                             *)

Inserts(t) == \E j \in DOMAIN Workload[t] : \E c \in Workload[t][j] : c.kind = "insert"
OneInserter == \A t, u \in Thread \ {Main} : Inserts(t) /\ Inserts(u) => t = u

Busy(t) == pc[t] # "idle" /\ call[t].kind = "insert"

Rooted(t) ==
  /\ pc[t] \notin {"reload", "latchRedescend", "redescend"}
  /\ IF stack[t] = <<>> THEN cur[t] = root ELSE stack[t][1] = root
  /\ pc[t] \in {"rootLock", "rootCheck"} => stack[t] = <<>>

Sole ==
  /\ \A t \in Owing : call[t].kind = "insert"
  /\ \A t \in Thread \ {Main} : pc[t] # "idle" => pc[Main] = "idle" /\ todo[Main] = <<>>
  /\ \A t \in Thread : Busy(t) /\ pc[t] # "return" => Rooted(t)

LEMMA OneBusy ==
  ASSUME OneInserter, Asked, Sole, NEW t \in Thread, Busy(t), NEW u \in Thread, Busy(u)
  PROVE  t = u
<1>1. Main \in Thread
  BY WorkloadAssumption
<1>2. Inserts(t) /\ Inserts(u)
  BY DEF Asked, Busy, Inserts
<1> QED  BY <1>1, <1>2 DEF OneInserter, Sole, Busy

(* No page is to the right of the root that the one inserter started at,   *)
(* unless it is the one it has just split off.                             *)
LEMMA NoRightOfRoot ==
  ASSUME OneInserter, SInv, Asked, Sole, NEW t \in Thread, Busy(t),
         pc[t] \notin {"rootLock", "rootCheck"}
  PROVE  pages[root].rlink = NoPage
<1> SUFFICES ASSUME pages[root].rlink # NoPage PROVE FALSE
  OBVIOUS
<1>1. PICK u \in Thread : Raising(u)
  BY DEF SInv, TopOK
<1>2. pc[u] \in {"rootLock", "rootCheck"} /\ u \in Owing
  BY <1>1 DEF Raising, Owing
<1>3. Busy(u)
  BY <1>2 DEF Sole, Busy
<1>4. u = t
  BY <1>3, OneBusy
<1> QED  BY <1>2, <1>4

LEMMA OwingNext ==
  ASSUME IInv, Sole, NEW t \in Thread, Step(t)
  PROVE  \A u \in Thread : u \in Owing' => call'[u].kind = "insert"
<1>1. ThreadTypes /\ Frame(t) /\ \A u \in Thread : u \in Owing => call[u].kind = "insert"
  BY Parts, Framed DEF Sole
<1>2. ASSUME pc'[t] \in {"rootLock", "rootCheck", "reload", "latchRedescend",
                         "redescend", "latchPost", "post"} => call'[t].kind = "insert"
      PROVE  \A u \in Thread : u \in Owing' => call'[u].kind = "insert"
  BY <1>1, <1>2 DEF Owing, Frame
<1>3. ASSUME t \in Owing, call' = call
      PROVE  \A u \in Thread : u \in Owing' => call'[u].kind = "insert"
  BY <1>1, <1>2, <1>3
<1> DEFINE Free == {"idle", "latchDescend", "descend", "latchRead", "read",
                    "latchWrite", "write", "return"}
<1>4. ASSUME NEW l \in Free, pc' = [pc EXCEPT ![t] = l]
      PROVE  \A u \in Thread : u \in Owing' => call'[u].kind = "insert"
  <2>1. pc'[t] = l
    BY <1>1, <1>4 DEF ThreadTypes
  <2> QED  BY <1>2, <2>1
<1>5. CASE \/ LatchPost(t) \/ LatchRedescend(t) \/ LockRoot(t)
  BY <1>3, <1>5 DEF LatchPost, LatchRedescend, LockRoot, LatchShared, LatchExclusive,
     At, Owing
<1>6. CASE \/ RootMoved(t) \/ ReloadRoot(t) \/ RedescendRight(t) \/ RedescendDown(t)
           \/ RedescendStop(t) \/ GoRightInter(t) \/ PostSeparator(t) \/ SplitInter(t)
           \/ CreateNewRoot(t)
  BY <1>3, <1>6 DEF RootMoved, ReloadRoot, RedescendRight, RedescendDown, RedescendStop,
     GoRightInter, PostSeparator, SplitInter, CreateNewRoot, AtParent, At, Owing
<1>7. CASE LatchDescend(t) \/ LatchRead(t) \/ LatchWrite(t)
  <2>1. \E l \in Free : pc' = [pc EXCEPT ![t] = l]
    BY <1>7 DEF LatchDescend, LatchRead, LatchWrite, LatchShared, LatchExclusive, Goto
  <2> QED  BY <1>4, <2>1
<1>8. CASE \/ Start(t) \/ ReachLeaf(t) \/ DescendRight(t) \/ DescendDown(t)
           \/ ReadRight(t) \/ GoRightLeaf(t) \/ Return(t)
  <2>1. \E l \in Free : pc' = [pc EXCEPT ![t] = l]
    BY <1>8 DEF Start, ReachLeaf, DescendRight, DescendDown, ReadRight, GoRightLeaf,
       Return, Goto
  <2> QED  BY <1>4, <2>1
<1>9. CASE Read(t) \/ InsertDuplicate(t) \/ Insert(t) \/ Delete(t)
  <2>1. \E l \in Free : pc' = [pc EXCEPT ![t] = l]
    BY <1>9 DEF Read, InsertDuplicate, Insert, Delete, Goto
  <2> QED  BY <1>4, <2>1
<1>10. CASE SplitLeaf(t)
  BY <1>2, <1>10 DEF SplitLeaf, AtLeafOf
<1>11. CASE Abort(t)
  BY <1>1, <1>11 DEF Abort, Owing
<1> QED
  BY <1>5, <1>6, <1>7, <1>8, <1>9, <1>10, <1>11 DEF Step

(* The prefill is over before anyone else starts. *)
LEMMA PrefillNext ==
  ASSUME IInv, Sole, NEW t \in Thread, Step(t)
  PROVE  \A u \in Thread \ {Main} : pc'[u] # "idle" => pc'[Main] = "idle" /\ todo'[Main] = <<>>
<1>1. ThreadTypes /\ Frame(t) /\ Main \in Thread
  BY Parts, Framed, WorkloadAssumption
<1>2. CASE Start(t)
  <2>1. /\ pc[t] = "idle" /\ todo[t] # <<>> /\ todo' = [todo EXCEPT ![t] = Tail(todo[t])]
        /\ t # Main => pc[Main] = "idle" /\ todo[Main] = <<>>
    BY <1>2 DEF Start, At
  <2>2. t # Main => todo'[Main] = todo[Main] /\ pc'[Main] = pc[Main]
    BY <1>1, <2>1 DEF ThreadTypes, Frame
  <2> QED  BY <1>1, <2>1, <2>2 DEF Sole, Frame
<1>3. CASE Return(t)
  <2>1. UNCHANGED todo /\ pc' = [pc EXCEPT ![t] = "idle"]
    BY <1>3 DEF Return, Goto
  <2>2. pc'[t] = "idle"
    BY <1>1, <2>1 DEF ThreadTypes
  <2> QED  BY <1>1, <2>1, <2>2 DEF Sole, Frame
<1>4. CASE ~Start(t) /\ ~Return(t)
  <2>1. UNCHANGED todo /\ (pc[t] # "idle" \/ UNCHANGED pc)
    BY <1>4, CallStep
  <2> QED  BY <1>1, <2>1 DEF Sole, Frame
<1> QED  BY <1>2, <1>3, <1>4

LEMMA RootKept ==
  ASSUME NEW t \in Thread, Step(t), ~CreateNewRoot(t)
  PROVE  root' = root
<1>1. CASE \/ LatchDescend(t) \/ LatchRead(t) \/ LatchWrite(t) \/ LatchPost(t)
           \/ LatchRedescend(t)
  BY <1>1 DEF LatchDescend, LatchRead, LatchWrite, LatchPost, LatchRedescend,
     LatchShared, LatchExclusive, shared
<1>2. CASE ~(\/ LatchDescend(t) \/ LatchRead(t) \/ LatchWrite(t) \/ LatchPost(t)
             \/ LatchRedescend(t))
  BY <1>2 DEF Step, Start, ReachLeaf, DescendRight, DescendDown, ReadRight, Return,
     Read, GoRightLeaf, InsertDuplicate, Insert, SplitLeaf, Delete, LockRoot,
     RootMoved, ReloadRoot, RedescendRight, RedescendDown,
     RedescendStop, GoRightInter, PostSeparator, SplitInter, Abort, shared
<1> QED  BY <1>1, <1>2

LEMMA AppendFirst ==
  ASSUME NEW D, NEW st \in Seq(D), NEW x \in D
  PROVE  /\ Append(st, x) # <<>>
         /\ Append(st, x)[1] = IF st = <<>> THEN x ELSE st[1]
<1>1. Len(st) \in Nat /\ (st = <<>> <=> Len(st) = 0)
  OBVIOUS
<1>2. /\ Len(Append(st, x)) = Len(st) + 1 /\ Append(st, x) \in Seq(D)
      /\ \A i \in 1 .. Len(st) : Append(st, x)[i] = st[i]
      /\ Append(st, x)[Len(st) + 1] = x
  OBVIOUS
<1> DEFINE q == Append(st, x)
<1> HIDE DEF q
<1>3. q \in Seq(D) /\ Len(q) = Len(st) + 1 => q # <<>>
  BY <1>1
<1>4. 0 + 1 = 1 /\ (Len(st) # 0 => 1 \in 1 .. Len(st))
  BY <1>1
<1>5. CASE st = <<>>
  BY <1>1, <1>2, <1>3, <1>4, <1>5 DEF q
<1>6. CASE st # <<>>
  BY <1>1, <1>2, <1>3, <1>4, <1>6 DEF q
<1> QED  BY <1>5, <1>6

(* On top of the stack is the root, or it is at the bottom of what is left. *)
LEMMA FrontFirst ==
  ASSUME NEW D, NEW st \in Seq(D), st # <<>>
  PROVE  IF Front(st) = <<>> THEN Last(st) = st[1] ELSE Front(st)[1] = st[1]
<1>1. Len(st) \in Nat /\ Len(st) # 0 /\ Last(st) = st[Len(st)]
  BY DEF Last
<1>2. /\ Front(st) \in Seq(D) /\ Len(Front(st)) = Len(st) - 1
      /\ \A i \in 1 .. Len(st) - 1 : Front(st)[i] = st[i]
  BY FrontIs
<1> DEFINE f == Front(st)
<1> HIDE DEF f
<1>3. f \in Seq(D) => (f = <<>> <=> Len(f) = 0)
  OBVIOUS
<1> QED  BY <1>1, <1>2, <1>3 DEF f

LEMMA RootedStep ==
  ASSUME OneInserter, IInv, SInv, Asked, Sole, NEW t \in Thread, Step(t),
         ~CreateNewRoot(t), Busy(t)', pc'[t] # "return"
  PROVE  Rooted(t)'
<1>1. /\ ThreadTypes /\ ThreadOK(t) /\ root' = root
      /\ stack[t] \in Seq(Reserved)
  BY Parts, RootKept DEF ThreadTypes
<1>2. CASE Start(t)
  <2>1. /\ stack' = [stack EXCEPT ![t] = <<>>] /\ cur' = [cur EXCEPT ![t] = root]
        /\ pc' = [pc EXCEPT ![t] = "latchDescend"]
    BY <1>2 DEF Start, Visit, Goto
  <2>2. stack'[t] = <<>> /\ cur'[t] = root /\ pc'[t] = "latchDescend"
    BY <1>1, <2>1 DEF ThreadTypes
  <2> QED  BY <1>1, <2>2 DEF Rooted
<1>3. CASE Return(t)
  <2>1. pc' = [pc EXCEPT ![t] = "idle"]
    BY <1>3 DEF Return, Goto
  <2>2. pc'[t] = "idle"
    BY <1>1, <2>1 DEF ThreadTypes
  <2> QED  BY <2>2 DEF Busy
<1> SUFFICES ASSUME ~Start(t), ~Return(t) PROVE Rooted(t)'
  BY <1>2, <1>3
<1>4. call' = call /\ (pc[t] # "idle" \/ UNCHANGED pc)
  BY CallStep
<1>5. Busy(t)
  BY <1>4 DEF Busy
<1>6. pc[t] # "return" \/ UNCHANGED pc
  <2>1. CASE \/ LatchDescend(t) \/ LatchRead(t) \/ LatchWrite(t) \/ LatchPost(t)
             \/ LatchRedescend(t)
    BY <2>1 DEF LatchDescend, LatchRead, LatchWrite, LatchPost, LatchRedescend,
       LatchShared, LatchExclusive, At
  <2>2. CASE ~(\/ LatchDescend(t) \/ LatchRead(t) \/ LatchWrite(t) \/ LatchPost(t)
               \/ LatchRedescend(t))
    BY <2>2 DEF Step, ReachLeaf, DescendRight, DescendDown, ReadRight,
       Read, GoRightLeaf, InsertDuplicate, Insert, SplitLeaf, Delete, LockRoot,
       CreateNewRoot, RootMoved, ReloadRoot, RedescendRight, RedescendDown,
       RedescendStop, GoRightInter, PostSeparator, SplitInter, Abort,
       AtLeafOf, AtParent, At
  <2> QED  BY <2>1, <2>2
<1>7. Rooted(t)
  BY <1>5, <1>6 DEF Sole
(* Where the thread stays at its page and its stack. *)
<1>8. ASSUME UNCHANGED <<cur, stack>>,
             NEW l \in {"latchDescend", "descend", "latchRead", "read", "latchWrite",
                        "write", "latchPost", "post", "return"},
             pc' = [pc EXCEPT ![t] = l]
      PROVE  Rooted(t)'
  <2>1. pc'[t] = l
    BY <1>1, <1>8 DEF ThreadTypes
  <2> QED  BY <1>1, <1>7, <1>8, <2>1 DEF Rooted
<1>9. CASE \/ LatchDescend(t) \/ LatchRead(t) \/ LatchWrite(t) \/ LatchPost(t)
  BY <1>8, <1>9 DEF LatchDescend, LatchRead, LatchWrite, LatchPost,
     LatchShared, LatchExclusive, Goto
<1>10. CASE \/ ReachLeaf(t) \/ Read(t) \/ InsertDuplicate(t) \/ Insert(t) \/ Delete(t)
            \/ PostSeparator(t)
  <2>1. /\ UNCHANGED <<cur, stack>>
        /\ \E l \in {"latchRead", "latchWrite", "return"} : pc' = [pc EXCEPT ![t] = l]
    BY <1>10 DEF ReachLeaf, Read, InsertDuplicate, Insert, Delete, PostSeparator, Goto
  <2> QED  BY <1>8, <2>1
<1>11. CASE LockRoot(t)
  <2>1. /\ UNCHANGED <<cur, stack>> /\ pc[t] = "rootLock"
        /\ pc' = [pc EXCEPT ![t] = "rootCheck"]
    BY <1>11 DEF LockRoot, Goto, At
  <2>2. pc'[t] = "rootCheck"
    BY <1>1, <2>1 DEF ThreadTypes
  <2> QED  BY <1>1, <1>7, <2>1, <2>2 DEF Rooted
<1>12. CASE RootMoved(t)
  BY <1>7, <1>12 DEF RootMoved, At, Rooted
<1>13. CASE \/ ReloadRoot(t) \/ LatchRedescend(t) \/ RedescendRight(t)
            \/ RedescendDown(t) \/ RedescendStop(t)
  BY <1>7, <1>13 DEF ReloadRoot, LatchRedescend, LatchShared, RedescendRight,
     RedescendDown, RedescendStop, At, Rooted
<1>14. CASE DescendRight(t) \/ ReadRight(t) \/ GoRightLeaf(t) \/ GoRightInter(t)
  <2>1. /\ UNCHANGED stack /\ pages[cur[t]].rlink # NoPage
        /\ pc[t] \notin {"rootLock", "rootCheck"}
        /\ \E l \in {"latchDescend", "latchRead", "latchWrite", "latchPost"} :
             pc' = [pc EXCEPT ![t] = l]
    BY <1>14 DEF DescendRight, ReadRight, GoRightLeaf, GoRightInter, At, Goto, Here
  <2>2. stack[t] # <<>> /\ stack[t][1] = root
    BY <1>5, <1>7, <2>1, NoRightOfRoot DEF Rooted
  <2>3. pc'[t] \in {"latchDescend", "latchRead", "latchWrite", "latchPost"}
    BY <1>1, <2>1 DEF ThreadTypes
  <2> QED  BY <1>1, <2>1, <2>2, <2>3 DEF Rooted
<1>15. CASE DescendDown(t)
  <2>1. /\ stack' = [stack EXCEPT ![t] = Append(stack[t], cur[t])]
        /\ pc' = [pc EXCEPT ![t] = "latchDescend"] /\ pc[t] = "descend"
    BY <1>15 DEF DescendDown, Goto, At
  <2>2. stack'[t] = Append(stack[t], cur[t]) /\ pc'[t] = "latchDescend"
        /\ cur[t] \in Reserved
    BY <1>1, <2>1 DEF ThreadTypes, ThreadOK
  <2>3. Append(stack[t], cur[t]) # <<>> /\ Append(stack[t], cur[t])[1] = root
    BY <1>1, <1>7, <2>2, AppendFirst DEF Rooted
  <2> QED  BY <1>1, <2>2, <2>3 DEF Rooted
<1>16. CASE SplitLeaf(t) \/ SplitInter(t)
  <2>1. Propagate(t)
    BY <1>16 DEF SplitLeaf, SplitInter
  <2>2. CASE stack[t] = <<>>
    <3>1. pc' = [pc EXCEPT ![t] = "rootLock"] /\ UNCHANGED <<cur, stack>>
      BY <2>1, <2>2 DEF Propagate, Goto
    <3>2. pc'[t] = "rootLock"
      BY <1>1, <3>1 DEF ThreadTypes
    <3> QED  BY <1>1, <1>7, <2>2, <3>1, <3>2 DEF Rooted
  <2>3. CASE stack[t] # <<>>
    <3>1. /\ pc' = [pc EXCEPT ![t] = "latchPost"] /\ cur' = [cur EXCEPT ![t] = Last(stack[t])]
          /\ stack' = [stack EXCEPT ![t] = Front(stack[t])]
      BY <2>1, <2>3 DEF Propagate, Goto, Visit
    <3>2. pc'[t] = "latchPost" /\ cur'[t] = Last(stack[t]) /\ stack'[t] = Front(stack[t])
      BY <1>1, <3>1 DEF ThreadTypes
    <3>3. IF Front(stack[t]) = <<>> THEN Last(stack[t]) = root ELSE Front(stack[t])[1] = root
      BY <1>1, <1>7, <2>3, FrontFirst DEF Rooted
    <3> QED  BY <1>1, <3>2, <3>3 DEF Rooted
  <2> QED  BY <2>2, <2>3
<1>17. CASE Abort(t)
  BY <1>1, <1>7, <1>17 DEF Abort, Rooted
<1> QED
  BY <1>9, <1>10, <1>11, <1>12, <1>13, <1>14, <1>15, <1>16, <1>17 DEF Step

LEMMA SoleNext ==
  ASSUME OneInserter
  PROVE  IInv /\ SInv /\ Asked /\ Sole /\ [Next]_vars => Sole'
<1> SUFFICES ASSUME IInv, SInv, Asked, Sole, [Next]_vars PROVE Sole'
  OBVIOUS
<1>1. ASSUME NEW t \in Thread, Step(t) PROVE Sole'
  <2>1. ThreadTypes /\ Frame(t)
    BY <1>1, Parts, Framed
  <2>2. \A u \in Owing' : call'[u].kind = "insert"
    BY <1>1, OwingNext DEF Owing
  <2>3. \A u \in Thread \ {Main} : pc'[u] # "idle" => pc'[Main] = "idle" /\ todo'[Main] = <<>>
    BY <1>1, PrefillNext
  <2>4. ASSUME NEW u \in Thread, Busy(u)', pc'[u] # "return" PROVE Rooted(u)'
    <3>1. CASE CreateNewRoot(t)
      <4>1. pc[t] = "rootCheck" /\ pc' = [pc EXCEPT ![t] = "return"]
        BY <3>1 DEF CreateNewRoot, At, Goto
      <4>2. Busy(t) /\ pc'[t] = "return"
        BY <2>1, <4>1 DEF Sole, Busy, Owing, ThreadTypes
      <4>3. u # t /\ Busy(u)
        BY <2>1, <2>4, <4>2 DEF Frame, Busy
      <4> QED  BY <4>2, <4>3, OneBusy
    <3>2. CASE ~CreateNewRoot(t)
      <4>1. CASE u = t
        BY <1>1, <2>4, <3>2, <4>1, RootedStep
      <4>2. CASE u # t
        <5>1. /\ pc'[u] = pc[u] /\ call'[u] = call[u] /\ cur'[u] = cur[u]
              /\ stack'[u] = stack[u] /\ root' = root
          BY <1>1, <2>1, <3>2, <4>2, RootKept DEF Frame
        <5>2. Rooted(u)
          BY <2>4, <5>1 DEF Sole, Busy
        <5> QED  BY <5>1, <5>2 DEF Rooted
      <4> QED  BY <4>1, <4>2
    <3> QED  BY <3>1, <3>2
  <2> QED  BY <2>2, <2>3, <2>4 DEF Sole
<1>2. CASE UNCHANGED vars
  BY <1>2 DEF vars, shared, Sole, Owing, Busy, Rooted
<1> QED  BY <1>1, <1>2 DEF Next, Ended

(* With one inserter besides the prefill, no second descent ever happens.  *)
THEOREM OneInserterHigh ==
  ASSUME OneInserter
  PROVE  Spec => []RedescentHigh
<1>1. Init => Sole
  BY DEF Init, Sole, Owing, Busy
<1>2. IInv /\ Sole => RedescentHigh
  BY DEF RedescentHigh, Sole, Rooted, Busy, Owing
<1>3. IInv /\ FInv /\ SInv /\ RedescentHigh /\ [Next]_vars => SInv'
  BY ShapeNext
<1>4. IInv /\ SInv /\ Asked /\ Sole /\ [Next]_vars => Sole'
  BY SoleNext
<1> QED
  BY FencesInvariance, AskedInvariance, ShapeInit, <1>1, <1>2, <1>3, <1>4, PTL DEF Spec

(* Any number of readers and deleters besides one inserter: the tree is    *)
(* linearizable under every workload of theirs.                            *)
THEOREM OneInserterLinearizes ==
  ASSUME OneInserter
  PROVE  Spec => Linearizable
BY OneInserterHigh, Linearizes, PTL

(* The shape that the searches rely on, then, whatever the others do. *)
THEOREM OneInserterKeepsShape ==
  ASSUME OneInserter
  PROVE  Spec => [](/\ FencesPartition /\ SeparatorsMeetFences /\ NoOrphanPage
                    /\ RootCoversTop /\ SeparatorAtRightLevel /\ DistinctLeafKeys)
BY OneInserterHigh, Partition, Separators, NoOrphans, RootOnTop, RightLevel,
   KeysDistinct, PTL
=============================================================================
