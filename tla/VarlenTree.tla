----------------------------- MODULE VarlenTree -----------------------------
(***************************************************************************)
(* BTreeIndex<Key, u64> over the variable-length layouts, and the threads  *)
(* of main.cpp and the tests that use it.                                  *)
(*                                                                         *)
(* What happens between two latches is BLinkTree's subject.  Here a call   *)
(* is a descent, which leaves behind the leaf and the stack, the work at   *)
(* the leaf it finds by then, and one step for each page that the          *)
(* separator goes to: other threads' steps come between, so that leaf and  *)
(* stack may be out of date and separators arrive in any order.            *)
(***************************************************************************)
EXTENDS VarlenNode

CONSTANTS
  Thread,     \* the threads
  Key,        \* keys as the callers have them: strings of bytes
  Val,        \* the values
  Encode(_),  \* KeyNormEncoder::Encode of a key
  Workload    \* rounds of run_parallel: in each, a thread makes one call of
              \* each set of its sequence

Calls == [kind : {"insert", "delete", "get"}, key : Key, val : Val]

ASSUME WorkloadAssumption ==
  /\ Key \subseteq Seq(Nat) \ {<<>>} /\ Val \subseteq Nat
  /\ Workload \in Seq([Thread -> Seq(SUBSET Calls)])
  /\ Workload # <<>>

(* An encoded key ends with a zero. *)
ASSUME EncodeAssumption == \A k \in Key : Encode(k) \in Seq(Nat) \ {<<>>}

VARIABLES
  pages,      \* the node in each reserved page
  root,       \* root_id_
  round,      \* of Workload
  todo,       \* the calls of this round each thread has yet to make
  pc,         \* what each thread does next
  call,       \* the call it is making
  cur,        \* the page it is going to, or has split
  stack,      \* TlState: the pages it went down through
  post,       \* the separator it has to post, and the page it leads to
  answer      \* what the call returns, once known

vars == <<pages, root, round, todo, pc, call, cur, stack, post, answer>>

NoCall == [kind |-> "none", key |-> <<>>, val |-> 0]
NoPost == [sep |-> <<>>, child |-> NoPage]
NoAnswer == [ok |-> FALSE, val |-> NoPage]

Init ==
  /\ pages = [p \in {0} |-> NewNode(0, <<>>, 0)]
  /\ root = 0
  /\ round = 1
  /\ todo = Workload[1]
  /\ pc = [t \in Thread |-> "idle"]
  /\ call = [t \in Thread |-> NoCall]
  /\ cur = [t \in Thread |-> NoPage]
  /\ stack = [t \in Thread |-> <<>>]
  /\ post = [t \in Thread |-> NoPost]
  /\ answer = [t \in Thread |-> NoAnswer]

-----------------------------------------------------------------------------
(* Where a search gets to. *)

(* GoRightLeaf and GoRightInter, from each page. *)
Rights(k) ==
  LET from[q \in DOMAIN pages] ==
        IF HasSplit(pages[q], k) THEN from[pages[q].rlink] ELSE q
  IN from
GoRight(p, k) == Rights(k)[p]

(* DropToLevel, from each page: the pages it pushes and the page it ends   *)
(* at.  That is NoPage when a key shorter than a page's prefix fails an    *)
(* assertion, or when Get has answered UNDEFINED, which is followed out of *)
(* the pool.                                                               *)
Descents(k, drop) ==
  LET from[q \in DOMAIN pages \cup {NoPage}] ==
        IF q = NoPage \/ pages[q].level <= drop THEN <<q>>
        ELSE IF HasSplit(pages[q], k) THEN from[pages[q].rlink]
        ELSE <<q>> \o (IF TooShort(pages[q], k) THEN <<NoPage>>
                       ELSE from[InterGet(pages[q], k)])
  IN from
Descent(k, drop) == Descents(k, drop)[root]

At(t, l) == pc[t] = l
Goto(t, l) == pc' = [pc EXCEPT ![t] = l]
Answer(t, ok, v) == answer' = [answer EXCEPT ![t] = [ok |-> ok, val |-> v]]

NewPage == Cardinality(DOMAIN pages)        \* Reserve
Write(p, node) == pages' = [pages EXCEPT ![p] = node]
WriteSplit(p, halves) ==
  pages' = [q \in DOMAIN pages \cup {NewPage} |->
              IF q = NewPage THEN halves.right
              ELSE IF q = p THEN halves.left ELSE pages[q]]

(* A page has split: on to the page on top of the stack, or to root_mtx_.  *)
Propagate(t, p, sep) ==
  /\ post' = [post EXCEPT ![t] = [sep |-> sep, child |-> NewPage]]
  /\ IF stack[t] = <<>>
     THEN Goto(t, "root") /\ cur' = [cur EXCEPT ![t] = p] /\ UNCHANGED stack
     ELSE /\ Goto(t, "post")
          /\ cur' = [cur EXCEPT ![t] = Last(stack[t])]
          /\ stack' = [stack EXCEPT ![t] = Front(@)]

-----------------------------------------------------------------------------
(* Insert, Delete, Get, up to the leaf level: intermediate pages compare   *)
(* the encoded key.                                                        *)
Start(t) ==
  /\ At(t, "idle") /\ todo[t] # <<>>
  /\ \E c \in Head(todo[t]) :
       LET path == Descent(Encode(c.key), 0) IN
       /\ call' = [call EXCEPT ![t] = c]
       /\ cur' = [cur EXCEPT ![t] = Last(path)]
       /\ stack' = [stack EXCEPT ![t] = Front(path)]
  /\ todo' = [todo EXCEPT ![t] = Tail(@)]
  /\ Goto(t, "leaf")
  /\ UNCHANGED <<pages, root, round, post, answer>>

(* At the leaf, the key is compared as it is. *)
Leaf(t) == GoRight(cur[t], call[t].key)
Found(t) == LeafFound(pages[Leaf(t)], call[t].key)

AtLeaf(t, kind) ==
  /\ At(t, "leaf") /\ call[t].kind = kind /\ cur[t] # NoPage
  /\ ~TooShort(pages[Leaf(t)], call[t].key)

Get(t) ==
  /\ AtLeaf(t, "get")
  /\ IF Found(t) THEN Answer(t, TRUE, LeafGet(pages[Leaf(t)], call[t].key))
                 ELSE Answer(t, FALSE, NoPage)
  /\ Goto(t, "return")
  /\ UNCHANGED <<pages, root, round, todo, call, cur, stack, post>>

(* "Key already exists": from Insert, or from SplitLeaf before it splits. *)
Refuse(t) ==
  /\ AtLeaf(t, "insert") /\ Found(t)
  /\ Answer(t, FALSE, NoPage)
  /\ Goto(t, "return")
  /\ UNCHANGED <<pages, root, round, todo, call, cur, stack, post>>

Insert(t) ==
  /\ AtLeaf(t, "insert") /\ ~Found(t)
  /\ HasSpace(pages[Leaf(t)], call[t].key)
  /\ Write(Leaf(t), LeafInsert(pages[Leaf(t)], call[t].key, call[t].val))
  /\ Answer(t, TRUE, NoPage)
  /\ Goto(t, "return")
  /\ UNCHANGED <<root, round, todo, call, cur, stack, post>>

(* The separator that goes up is encoded, the high key that stays is not.  *)
SplitLeaf(t) ==
  /\ AtLeaf(t, "insert") /\ ~Found(t)
  /\ LET p == Leaf(t) IN
     /\ ~HasSpace(pages[p], call[t].key)
     /\ ~LeafSplitFails(pages[p], p, NewPage, call[t].key)
     /\ LET halves == LeafSplit(pages[p], p, NewPage, call[t].key, call[t].val) IN
        /\ WriteSplit(p, halves)
        /\ Propagate(t, p, Encode(halves.sep))
  /\ Answer(t, TRUE, NoPage)
  /\ UNCHANGED <<root, round, todo, call>>

Delete(t) ==
  /\ AtLeaf(t, "delete")
  /\ IF Found(t) THEN Write(Leaf(t), LeafDelete(pages[Leaf(t)], call[t].key))
                 ELSE UNCHANGED pages
  /\ Answer(t, Found(t), NoPage)
  /\ Goto(t, "return")
  /\ UNCHANGED <<root, round, todo, call, cur, stack, post>>

-----------------------------------------------------------------------------
(* The page that split is still the root: CreateNewRoot. *)
Raise(t) ==
  /\ At(t, "root") /\ root = cur[t]
  /\ LET node == RootNode(pages[cur[t]].level, post[t].sep, cur[t], post[t].child) IN
     pages' = [p \in DOMAIN pages \cup {NewPage} |-> IF p = NewPage THEN node ELSE pages[p]]
  /\ root' = NewPage
  /\ Goto(t, "return")
  /\ UNCHANGED <<round, todo, call, cur, stack, post, answer>>

(* It is not: DropToLevel(key, level + 1).  A root that is not above the   *)
(* page that split is where that descent ends, and the separator goes into *)
(* it, as into an intermediate page, whatever its level.                   *)
Redescend(t) ==
  /\ At(t, "root") /\ root # cur[t]
  /\ LET path == Descent(post[t].sep, pages[cur[t]].level + 1) IN
     /\ cur' = [cur EXCEPT ![t] = Last(path)]
     /\ stack' = [stack EXCEPT ![t] = Front(path)]
  /\ Goto(t, "post")
  /\ UNCHANGED <<pages, root, round, todo, call, post, answer>>

(* PropagateInsert, one page. *)
Parent(t) == GoRight(cur[t], post[t].sep)

AtParent(t) ==
  /\ At(t, "post") /\ cur[t] # NoPage
  /\ ~TooShort(pages[Parent(t)], post[t].sep)

PostSeparator(t) ==
  /\ AtParent(t) /\ HasSpace(pages[Parent(t)], post[t].sep)
  /\ Write(Parent(t), InterInsert(pages[Parent(t)], post[t].sep, post[t].child))
  /\ Goto(t, "return")
  /\ UNCHANGED <<root, round, todo, call, cur, stack, post, answer>>

SplitInter(t) ==
  /\ AtParent(t)
  /\ LET p == Parent(t) IN
     /\ ~HasSpace(pages[p], post[t].sep)
     /\ ~InterSplitFails(pages[p], p, NewPage, post[t].sep)
     /\ LET halves == InterSplit(pages[p], p, NewPage, post[t].sep, post[t].child) IN
        /\ WriteSplit(p, halves)
        /\ Propagate(t, p, halves.sep)
  /\ UNCHANGED <<root, round, todo, call, answer>>

Return(t) ==
  /\ At(t, "return")
  /\ Goto(t, "idle")
  /\ call' = [call EXCEPT ![t] = NoCall]
  /\ cur' = [cur EXCEPT ![t] = NoPage]
  /\ stack' = [stack EXCEPT ![t] = <<>>]
  /\ post' = [post EXCEPT ![t] = NoPost]
  /\ answer' = [answer EXCEPT ![t] = NoAnswer]
  /\ UNCHANGED <<pages, root, round, todo>>

(* Where an assertion stops the process: at a key shorter than the prefix  *)
(* of the page it leads to, a split that cannot be done, or a page id that *)
(* is none.                                                                *)
Faulty(t) ==
  \/ /\ pc[t] = "leaf"
     /\ \/ cur[t] = NoPage
        \/ TooShort(pages[Leaf(t)], call[t].key)
        \/ /\ call[t].kind = "insert" /\ ~Found(t)
           /\ ~HasSpace(pages[Leaf(t)], call[t].key)
           /\ LeafSplitFails(pages[Leaf(t)], Leaf(t), NewPage, call[t].key)
  \/ /\ pc[t] = "post"
     /\ \/ cur[t] = NoPage
        \/ TooShort(pages[Parent(t)], post[t].sep)
        \/ /\ ~HasSpace(pages[Parent(t)], post[t].sep)
           /\ InterSplitFails(pages[Parent(t)], Parent(t), NewPage, post[t].sep)

-----------------------------------------------------------------------------
(* run_parallel joins its threads before the next round starts. *)
RoundDone == \A t \in Thread : pc[t] = "idle" /\ todo[t] = <<>>

NextRound ==
  /\ RoundDone /\ round < Len(Workload)
  /\ round' = round + 1
  /\ todo' = Workload[round + 1]
  /\ UNCHANGED <<pages, root, pc, call, cur, stack, post, answer>>

Ended ==
  /\ RoundDone /\ round = Len(Workload)
  /\ UNCHANGED vars

Step(t) ==
  \/ Start(t)
  \/ Get(t) \/ Refuse(t) \/ Insert(t) \/ SplitLeaf(t) \/ Delete(t)
  \/ Raise(t) \/ Redescend(t) \/ PostSeparator(t) \/ SplitInter(t)
  \/ Return(t)

Next == (\E t \in Thread : Step(t)) \/ NextRound \/ Ended

Spec == Init /\ [][Next]_vars
=============================================================================
