----------------------------- MODULE BLinkTree -----------------------------
(***************************************************************************)
(* BTreeIndex<KeyTyp, ValTyp> over the fixed layouts: the B-link tree of   *)
(* Lehman and Yao and the threads that insert, delete and look up keys.    *)
(*                                                                         *)
(* One action is one stretch of a thread's code between two operations on  *)
(* shared memory that other threads can tell apart: taking a page's latch, *)
(* the work under the latch together with its release (nobody else looks   *)
(* at the page until then), taking root_mtx_, the work under it.  Descents *)
(* use LockMode::Optimistic, which with MAX_OPTIMISTIC_TRIES = 0 always    *)
(* takes the latch shared and never retries; AdaptiveLock models the       *)
(* modes.                                                                  *)
(***************************************************************************)
EXTENDS FixedNode

CONSTANTS
  Thread,     \* the threads
  Main,       \* the one that fills the tree before the others start
  Val,        \* the values stored at the leaves
  Workload    \* what each thread does: a sequence of sets of calls, of each
              \* of which it makes one

Calls == [kind : {"insert", "delete", "get"}, key : Key, val : Val]

ASSUME WorkloadAssumption ==
  /\ Main \in Thread
  /\ Val \subseteq Nat
  /\ Workload \in [Thread -> Seq(SUBSET Calls)]
  /\ \A t \in Thread : \A i \in DOMAIN Workload[t] : Workload[t][i] # {}

StackSize == 16         \* state_buf_

VARIABLES
  pages,      \* the node in each reserved page
  nextFree,   \* PagePool's next_free_
  root,       \* root_id_
  aborted,    \* an assertion stopped the process, or it left the pool
  pc,         \* what each thread does next
  todo,       \* the calls it has yet to make
  call,       \* the call it is making
  cur,        \* the page it is at, or going to
  stack,      \* TlState: the pages it went down through
  sep,        \* the separator it has to post, and
  child,      \* the page this separator leads to
  level,      \* u8 level: of the page just split; on a new descent, of cur
  drop,       \* drop_level
  answer      \* what the call returns, once known

shared == <<pages, nextFree, root, aborted>>
carry == <<sep, child, level, drop>>
vars == <<shared, pc, todo, call, cur, stack, carry, answer>>

NoAnswer == [ok |-> FALSE, val |-> NoPage]
NoCall == [kind |-> "none", key |-> 0, val |-> 0]

Reserved == 0 .. nextFree - 1

(* Where a thread holds a page latch, and how. *)
SharedPC == {"descend", "read", "redescend"}
ExclusivePC == {"write", "post"}
LatchPC == SharedPC \cup ExclusivePC
PC == LatchPC \cup {"idle", "latchDescend", "latchRead", "latchRedescend",
                    "latchWrite", "latchPost", "rootLock", "rootCheck",
                    "reload", "return"}

Init ==
  /\ pages = [p \in {0} |-> NewNode(0, <<>>, <<>>)]
  /\ nextFree = 1
  /\ root = 0
  /\ aborted = FALSE
  /\ pc = [t \in Thread |-> "idle"]
  /\ todo = Workload
  /\ call = [t \in Thread |-> NoCall]
  /\ cur = [t \in Thread |-> NoPage]
  /\ stack = [t \in Thread |-> <<>>]
  /\ sep = [t \in Thread |-> 0]
  /\ child = [t \in Thread |-> NoPage]
  /\ level = [t \in Thread |-> 0]
  /\ drop = [t \in Thread |-> 0]
  /\ answer = [t \in Thread |-> NoAnswer]

-----------------------------------------------------------------------------
(* Steps of a thread, written with the values its variables take. *)

At(t, l) == ~aborted /\ pc[t] = l
Goto(t, l) == pc' = [pc EXCEPT ![t] = l]
Visit(t, p) == cur' = [cur EXCEPT ![t] = p]
Answer(t, ok, v) == answer' = [answer EXCEPT ![t] = [ok |-> ok, val |-> v]]
Carry(t, s, c, l) ==
  /\ sep' = [sep EXCEPT ![t] = s]
  /\ child' = [child EXCEPT ![t] = c]
  /\ level' = [level EXCEPT ![t] = l]

Here(t) == pages[cur[t]]        \* the page a thread is at

(* Page latches: AdaptiveVersionLock's shared_mutex. *)
HoldsShared(t, p) == pc[t] \in SharedPC /\ cur[t] = p
HoldsExclusive(t, p) == pc[t] \in ExclusivePC /\ cur[t] = p

LatchShared(t, from, to) ==
  /\ At(t, from)
  /\ \A u \in Thread : ~HoldsExclusive(u, cur[t])
  /\ Goto(t, to)
  /\ UNCHANGED <<shared, todo, call, cur, stack, carry, answer>>

LatchExclusiveMut(t, from, to) ==               \* mutant: readers are not waited for
  /\ At(t, from)
  /\ \A u \in Thread : ~HoldsExclusive(u, cur[t])
  /\ Goto(t, to)
  /\ UNCHANGED <<shared, todo, call, cur, stack, carry, answer>>

LatchExclusive(t, from, to) ==
  /\ At(t, from)
  /\ \A u \in Thread : ~HoldsExclusive(u, cur[t]) /\ ~HoldsShared(u, cur[t])
  /\ Goto(t, to)
  /\ UNCHANGED <<shared, todo, call, cur, stack, carry, answer>>

(* Writing the page a thread is at, without and with a Reserve. *)
Write(t, node) ==
  /\ pages' = [pages EXCEPT ![cur[t]] = node]
  /\ UNCHANGED nextFree
Reserve(node) ==
  /\ pages' = [p \in 0 .. nextFree |-> IF p = nextFree THEN node ELSE pages[p]]
  /\ nextFree' = nextFree + 1
WriteSplitMut(t, halves) ==                     \* mutant: next_free_ is not advanced
  /\ pages' = [p \in 0 .. nextFree |->
                 IF p = nextFree THEN halves.right
                 ELSE IF p = cur[t] THEN halves.left ELSE pages[p]]
  /\ UNCHANGED nextFree

WriteSplit(t, halves) ==
  /\ pages' = [p \in 0 .. nextFree |->
                 IF p = nextFree THEN halves.right
                 ELSE IF p = cur[t] THEN halves.left ELSE pages[p]]
  /\ nextFree' = nextFree + 1

(* The loop head of PropagateInsert: on to the page on top of the stack;   *)
(* with nothing there, to the root if it is still the page just split.     *)
Propagate(t) ==
  IF stack[t] = <<>>
  THEN Goto(t, "rootLock") /\ UNCHANGED <<cur, stack>>
  ELSE /\ Goto(t, "latchPost")
       /\ Visit(t, Last(stack[t]))
       /\ stack' = [stack EXCEPT ![t] = Front(@)]

-----------------------------------------------------------------------------
(* Insert, Delete, Get: TlState::Clear, then DropToLevel(key) from the     *)
(* root.  Main is the single-threaded prefill; the others wait for it.     *)
Start(t) ==
  /\ At(t, "idle") /\ todo[t] # <<>>
  /\ t # Main => pc[Main] = "idle" /\ todo[Main] = <<>>
  /\ \E c \in Head(todo[t]) : call' = [call EXCEPT ![t] = c]
  /\ todo' = [todo EXCEPT ![t] = Tail(@)]
  /\ stack' = [stack EXCEPT ![t] = <<>>]
  /\ Visit(t, root)
  /\ Goto(t, "latchDescend")
  /\ UNCHANGED <<shared, carry, answer>>

SearchKey(t) == call[t].key

LatchDescend(t) == LatchShared(t, "latchDescend", "descend")

(* At the leaf level: to InternalGet, or to the writers. *)
ReachLeaf(t) ==
  /\ At(t, "descend") /\ Here(t).level = 0
  /\ Goto(t, IF call[t].kind = "get" THEN "latchRead" ELSE "latchWrite")
  /\ UNCHANGED <<shared, todo, call, cur, stack, carry, answer>>

DescendRight(t) ==
  /\ At(t, "descend") /\ Here(t).level > 0
  /\ HasSplit(Here(t), SearchKey(t)) /\ Here(t).rlink # NoPage
  /\ Visit(t, Here(t).rlink)
  /\ Goto(t, "latchDescend")
  /\ UNCHANGED <<shared, todo, call, stack, carry, answer>>

DescendDown(t) ==
  /\ At(t, "descend") /\ Here(t).level > 0
  /\ ~HasSplit(Here(t), SearchKey(t))
  /\ Count(Here(t)) # 0 /\ Len(stack[t]) < StackSize
  /\ stack' = [stack EXCEPT ![t] = Append(@, cur[t])]
  /\ Visit(t, InterGet(Here(t), SearchKey(t)))
  /\ Goto(t, "latchDescend")
  /\ UNCHANGED <<shared, todo, call, carry, answer>>

-----------------------------------------------------------------------------
(* InternalGet. *)

LatchRead(t) == LatchShared(t, "latchRead", "read")

ReadRight(t) ==
  /\ At(t, "read")
  /\ HasSplit(Here(t), SearchKey(t)) /\ Here(t).rlink # NoPage
  /\ Visit(t, Here(t).rlink)
  /\ Goto(t, "latchRead")
  /\ UNCHANGED <<shared, todo, call, stack, carry, answer>>

ReadMut(t) ==                                   \* mutant: no look at the high key
  /\ At(t, "read")
  /\ IF HasKey(Here(t), SearchKey(t))
     THEN Answer(t, TRUE, LeafGet(Here(t), SearchKey(t)))
     ELSE Answer(t, FALSE, NoPage)
  /\ Goto(t, "return")
  /\ UNCHANGED <<shared, todo, call, cur, stack, carry>>

Read(t) ==
  /\ At(t, "read")
  /\ ~HasSplit(Here(t), SearchKey(t))
  /\ IF HasKey(Here(t), SearchKey(t))
     THEN Answer(t, TRUE, LeafGet(Here(t), SearchKey(t)))
     ELSE Answer(t, FALSE, NoPage)
  /\ Goto(t, "return")
  /\ UNCHANGED <<shared, todo, call, cur, stack, carry>>

-----------------------------------------------------------------------------
(* InsertInternal and DeleteInternal, up to the release of the leaf.       *)
(* GoRightLeaf releases a page before it takes the next one.               *)

LatchWrite(t) == LatchExclusive(t, "latchWrite", "write")

GoRightLeaf(t) ==
  /\ At(t, "write")
  /\ HasSplit(Here(t), SearchKey(t)) /\ Here(t).rlink # NoPage
  /\ Visit(t, Here(t).rlink)
  /\ Goto(t, "latchWrite")
  /\ UNCHANGED <<shared, todo, call, stack, carry, answer>>

AtLeafOf(t, kind) ==
  /\ At(t, "write") /\ call[t].kind = kind
  /\ ~HasSplit(Here(t), SearchKey(t))

(* "Key already exists": from Insert, or from SplitLeaf before it splits. *)
InsertDuplicate(t) ==
  /\ AtLeafOf(t, "insert") /\ HasKey(Here(t), SearchKey(t))
  /\ Answer(t, FALSE, NoPage)
  /\ Goto(t, "return")
  /\ UNCHANGED <<shared, todo, call, cur, stack, carry>>

Insert(t) ==
  /\ AtLeafOf(t, "insert") /\ ~HasKey(Here(t), SearchKey(t))
  /\ LeafHasSpace(Here(t))
  /\ Write(t, LeafInsert(Here(t), SearchKey(t), call[t].val))
  /\ Answer(t, TRUE, NoPage)
  /\ Goto(t, "return")
  /\ UNCHANGED <<root, aborted, todo, call, cur, stack, carry>>

SplitLeaf(t) ==
  /\ AtLeafOf(t, "insert") /\ ~HasKey(Here(t), SearchKey(t))
  /\ ~LeafHasSpace(Here(t))
  /\ LET halves == LeafSplit(Here(t), cur[t], nextFree,
                             SearchKey(t), call[t].val) IN
     /\ WriteSplit(t, halves)
     /\ Carry(t, halves.sep, nextFree, Here(t).level)
  /\ Answer(t, TRUE, NoPage)
  /\ Propagate(t)
  /\ UNCHANGED <<root, aborted, todo, call, drop>>

Delete(t) ==
  /\ AtLeafOf(t, "delete")
  /\ IF HasKey(Here(t), SearchKey(t))
     THEN Write(t, LeafDelete(Here(t), SearchKey(t)))
     ELSE UNCHANGED <<pages, nextFree>>
  /\ Answer(t, HasKey(Here(t), SearchKey(t)), NoPage)
  /\ Goto(t, "return")
  /\ UNCHANGED <<root, aborted, todo, call, cur, stack, carry>>

-----------------------------------------------------------------------------
(* The stack is empty: under root_mtx_, a new root above the page just     *)
(* split if that page is still the root, and otherwise a new descent.      *)

LockRoot(t) ==
  /\ At(t, "rootLock")
  /\ \A u \in Thread : pc[u] # "rootCheck"
  /\ Goto(t, "rootCheck")
  /\ UNCHANGED <<shared, todo, call, cur, stack, carry, answer>>

CreateNewRootUnchecked(t) ==                    \* mutant: whatever the root is by now
  /\ At(t, "rootCheck")
  /\ Reserve(RootNode(level[t], sep[t], cur[t], child[t]))
  /\ root' = nextFree
  /\ Goto(t, "return")
  /\ UNCHANGED <<aborted, todo, call, cur, stack, carry, answer>>

CreateNewRootUnset(t) ==                        \* mutant: root_id_ is not stored
  /\ At(t, "rootCheck") /\ root = cur[t]
  /\ Reserve(RootNode(level[t], sep[t], cur[t], child[t]))
  /\ Goto(t, "return")
  /\ UNCHANGED <<root, aborted, todo, call, cur, stack, carry, answer>>

CreateNewRoot(t) ==
  /\ At(t, "rootCheck") /\ root = cur[t]
  /\ Reserve(RootNode(level[t], sep[t], cur[t], child[t]))
  /\ root' = nextFree
  /\ Goto(t, "return")
  /\ UNCHANGED <<aborted, todo, call, cur, stack, carry, answer>>

RootMovedRetry(t) ==                            \* mutant: tries again for a new root
  /\ At(t, "rootCheck") /\ root # cur[t]
  /\ drop' = [drop EXCEPT ![t] = level[t] + 1]
  /\ Goto(t, "rootLock")
  /\ UNCHANGED <<shared, todo, call, cur, stack, sep, child, level, answer>>

RootMovedLow(t) ==                              \* mutant: to the level that split
  /\ At(t, "rootCheck") /\ root # cur[t]
  /\ drop' = [drop EXCEPT ![t] = level[t]]
  /\ Goto(t, "reload")
  /\ UNCHANGED <<shared, todo, call, cur, stack, sep, child, level, answer>>

RootMoved(t) ==
  /\ At(t, "rootCheck") /\ root # cur[t]
  /\ drop' = [drop EXCEPT ![t] = level[t] + 1]
  /\ Goto(t, "reload")
  /\ UNCHANGED <<shared, todo, call, cur, stack, sep, child, level, answer>>

(* DropToLevel(key, drop_level): its GetRoot comes after root_mtx_ has     *)
(* been released.                                                          *)
ReloadRoot(t) ==
  /\ At(t, "reload")
  /\ Visit(t, root)
  /\ level' = [level EXCEPT ![t] = pages[root].level]
  /\ Goto(t, "latchRedescend")
  /\ UNCHANGED <<shared, todo, call, stack, sep, child, drop, answer>>

WrongLevel(t) == pc[t] = "latchRedescend" /\ level[t] # Here(t).level
LatchRedescend(t) ==
  ~WrongLevel(t) /\ LatchShared(t, "latchRedescend", "redescend")

RedescendRight(t) ==
  /\ At(t, "redescend") /\ level[t] > drop[t]
  /\ HasSplit(Here(t), sep[t]) /\ Here(t).rlink # NoPage
  /\ Visit(t, Here(t).rlink)
  /\ Goto(t, "latchRedescend")
  /\ UNCHANGED <<shared, todo, call, stack, carry, answer>>

RedescendDownMut(t) ==                          \* mutant: level is not counted down
  /\ At(t, "redescend") /\ level[t] > drop[t]
  /\ ~HasSplit(Here(t), sep[t])
  /\ Count(Here(t)) # 0 /\ Len(stack[t]) < StackSize
  /\ stack' = [stack EXCEPT ![t] = Append(@, cur[t])]
  /\ Visit(t, InterGet(Here(t), sep[t]))
  /\ Goto(t, "latchRedescend")
  /\ UNCHANGED <<shared, todo, call, sep, child, level, drop, answer>>

RedescendDown(t) ==
  /\ At(t, "redescend") /\ level[t] > drop[t]
  /\ ~HasSplit(Here(t), sep[t])
  /\ Count(Here(t)) # 0 /\ Len(stack[t]) < StackSize
  /\ stack' = [stack EXCEPT ![t] = Append(@, cur[t])]
  /\ level' = [level EXCEPT ![t] = @ - 1]
  /\ Visit(t, InterGet(Here(t), sep[t]))
  /\ Goto(t, "latchRedescend")
  /\ UNCHANGED <<shared, todo, call, sep, child, drop, answer>>

RedescendStopMut(t) ==                          \* mutant: the page is not pushed, and
  /\ At(t, "redescend") /\ level[t] <= drop[t]  \* PropagateInsert has nothing to do
  /\ Goto(t, "return")
  /\ UNCHANGED <<shared, todo, call, cur, stack, carry, answer>>

(* The page goes on the stack and PropagateInsert pops it at once. *)
RedescendStop(t) ==
  /\ At(t, "redescend") /\ level[t] <= drop[t]
  /\ Len(stack[t]) < StackSize
  /\ Goto(t, "latchPost")
  /\ UNCHANGED <<shared, todo, call, cur, stack, carry, answer>>

-----------------------------------------------------------------------------
(* PropagateInsert: the separator goes into the page it popped, or into    *)
(* one to its right.                                                       *)

LatchPost(t) == LatchExclusive(t, "latchPost", "post")

GoRightInter(t) ==
  /\ At(t, "post")
  /\ HasSplit(Here(t), sep[t]) /\ Here(t).rlink # NoPage
  /\ Visit(t, Here(t).rlink)
  /\ Goto(t, "latchPost")
  /\ UNCHANGED <<shared, todo, call, stack, carry, answer>>

AtParentMut(t) == At(t, "post") /\ Count(Here(t)) # 0   \* mutant: no move right

AtParent(t) ==
  /\ At(t, "post") /\ ~HasSplit(Here(t), sep[t]) /\ Count(Here(t)) # 0

PostSeparator(t) ==
  /\ AtParent(t) /\ InterHasSpace(Here(t))
  /\ Write(t, InterInsert(Here(t), sep[t], child[t]))
  /\ Goto(t, "return")
  /\ UNCHANGED <<root, aborted, todo, call, cur, stack, carry, answer>>

SplitInter(t) ==
  /\ AtParent(t) /\ ~InterHasSpace(Here(t))
  /\ LET halves == InterSplit(Here(t), cur[t], nextFree, sep[t], child[t]) IN
     /\ WriteSplit(t, halves)
     /\ Carry(t, halves.sep, nextFree, Here(t).level)
  /\ Propagate(t)
  /\ UNCHANGED <<root, aborted, todo, call, drop, answer>>

Return(t) ==
  /\ At(t, "return")
  /\ Goto(t, "idle")
  /\ call' = [call EXCEPT ![t] = NoCall]
  /\ Visit(t, NoPage)
  /\ stack' = [stack EXCEPT ![t] = <<>>]
  /\ Carry(t, 0, NoPage, 0)
  /\ drop' = [drop EXCEPT ![t] = 0]
  /\ answer' = [answer EXCEPT ![t] = NoAnswer]
  /\ UNCHANGED <<shared, todo>>

-----------------------------------------------------------------------------
(* What stops the process: following UNDEFINED out of the pool or into the *)
(* "invalid pid" assertion, a search in an intermediate page without keys, *)
(* a full stack, and the level check of the second DropToLevel.            *)

OffTheEnd(t) ==
  /\ \/ pc[t] \in {"read", "write"} /\ HasSplit(Here(t), SearchKey(t))
     \/ pc[t] = "descend" /\ Here(t).level > 0 /\ HasSplit(Here(t), SearchKey(t))
     \/ pc[t] = "post" /\ HasSplit(Here(t), sep[t])
     \/ pc[t] = "redescend" /\ level[t] > drop[t] /\ HasSplit(Here(t), sep[t])
  /\ Here(t).rlink = NoPage

NoKeys(t) ==
  /\ \/ pc[t] = "descend" /\ Here(t).level > 0 /\ ~HasSplit(Here(t), SearchKey(t))
     \/ pc[t] = "post" /\ ~HasSplit(Here(t), sep[t])
     \/ pc[t] = "redescend" /\ level[t] > drop[t] /\ ~HasSplit(Here(t), sep[t])
  /\ Count(Here(t)) = 0

StackFull(t) ==
  /\ \/ pc[t] = "descend" /\ Here(t).level > 0 /\ ~HasSplit(Here(t), SearchKey(t))
     \/ pc[t] = "redescend" /\ (level[t] > drop[t] => ~HasSplit(Here(t), sep[t]))
  /\ Len(stack[t]) >= StackSize

Faulty(t) == OffTheEnd(t) \/ NoKeys(t) \/ StackFull(t) \/ WrongLevel(t)

Abort(t) ==
  /\ ~aborted /\ Faulty(t)
  /\ aborted' = TRUE
  /\ UNCHANGED <<pages, nextFree, root, pc, todo, call, cur, stack, carry, answer>>

-----------------------------------------------------------------------------
Step(t) ==
  \/ Start(t)
  \/ LatchDescend(t) \/ ReachLeaf(t) \/ DescendRight(t) \/ DescendDown(t)
  \/ LatchRead(t) \/ ReadRight(t) \/ Read(t)
  \/ LatchWrite(t) \/ GoRightLeaf(t)
  \/ InsertDuplicate(t) \/ Insert(t) \/ SplitLeaf(t) \/ Delete(t)
  \/ LockRoot(t) \/ CreateNewRoot(t) \/ RootMoved(t)
  \/ ReloadRoot(t) \/ LatchRedescend(t)
  \/ RedescendRight(t) \/ RedescendDown(t) \/ RedescendStop(t)
  \/ LatchPost(t) \/ GoRightInter(t) \/ PostSeparator(t) \/ SplitInter(t)
  \/ Return(t)
  \/ Abort(t)

(* Every thread has made its calls, or the process is gone. *)
Ended ==
  /\ aborted \/ \A t \in Thread : pc[t] = "idle" /\ todo[t] = <<>>
  /\ UNCHANGED vars

Next == (\E t \in Thread : Step(t)) \/ Ended

Spec == Init /\ [][Next]_vars

(* The operating system goes on scheduling every thread. *)
FairSpec == Spec /\ \A t \in Thread : WF_vars(Step(t))
=============================================================================
