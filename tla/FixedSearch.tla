---------------------------- MODULE FixedSearch ----------------------------
(***************************************************************************)
(* The binary searches of the fixed layouts, GetIdx of a leaf and GetIdx   *)
(* of an intermediate page, one round of the loop at a time, against what  *)
(* FixedNode says they find.                                               *)
(***************************************************************************)
EXTENDS FixedNode

CONSTANT Arrays     \* the key arrays to search

(* The keys of a page are in strictly ascending order. *)
Ascending(s) == \A i, j \in 1 .. Len(s) : i < j => s[i] < s[j]

ASSUME ArraysAssumption == \A s \in Arrays : s \in Seq(Key) /\ Ascending(s)

VARIABLES
  layout,   \* whose GetIdx: "leaf" or "inter"
  keys,     \* data
  key,      \* value
  lo, hi,
  pc,       \* "loop", or "done" with
  idx,      \* what GetIdx returns, and
  found     \* its output parameter

vars == <<layout, keys, key, lo, hi, pc, idx, found>>

(* The intermediate layout asserts that there is a key. *)
Init ==
  /\ layout \in {"leaf", "inter"}
  /\ keys \in Arrays
  /\ layout = "inter" => keys # <<>>
  /\ key \in Key
  /\ lo = 0 /\ hi = Len(keys)
  /\ pc = "loop"
  /\ idx = 0
  /\ found = FALSE

Middle == lo + (hi - lo) \div 2
Probe == keys[Middle + 1]

(* The key is in the leaf. *)
Hit ==
  /\ pc = "loop" /\ lo < hi
  /\ layout = "leaf" /\ Probe = key
  /\ idx' = Middle
  /\ found' = TRUE
  /\ pc' = "done"
  /\ UNCHANGED <<layout, keys, key, lo, hi>>

UpperHalfPast ==                                \* mutant: a leaf's search passes its key
  /\ pc = "loop" /\ lo < hi
  /\ Probe <= key
  /\ lo' = Middle + 1
  /\ UNCHANGED <<layout, keys, key, hi, pc, idx, found>>

UpperHalfStuck ==                               \* mutant: the middle stays in
  /\ pc = "loop" /\ lo < hi
  /\ IF layout = "leaf" THEN Probe < key ELSE Probe <= key
  /\ lo' = Middle
  /\ UNCHANGED <<layout, keys, key, hi, pc, idx, found>>

UpperHalf ==
  /\ pc = "loop" /\ lo < hi
  /\ IF layout = "leaf" THEN Probe < key ELSE Probe <= key
  /\ lo' = Middle + 1
  /\ UNCHANGED <<layout, keys, key, hi, pc, idx, found>>

LowerHalf ==
  /\ pc = "loop" /\ lo < hi
  /\ Probe > key
  /\ hi' = Middle
  /\ UNCHANGED <<layout, keys, key, lo, pc, idx, found>>

Exhausted ==
  /\ pc = "loop" /\ lo >= hi
  /\ idx' = lo
  /\ pc' = "done"
  /\ UNCHANGED <<layout, keys, key, lo, hi, found>>

Ended == pc = "done" /\ UNCHANGED vars

Next == Hit \/ UpperHalf \/ LowerHalf \/ Exhausted \/ Ended

Spec == Init /\ [][Next]_vars
FairSpec == Spec /\ WF_vars(Next)

-----------------------------------------------------------------------------
TypeOK ==
  /\ layout \in {"leaf", "inter"}
  /\ keys \in Seq(Key) /\ Ascending(keys)
  /\ key \in Key
  /\ lo \in Nat /\ hi \in Nat /\ lo <= hi /\ hi <= Len(keys)
  /\ pc \in {"loop", "done"}
  /\ idx \in Nat /\ found \in BOOLEAN

(* Both searches return the position that FixedNode's operators, and so    *)
(* the tree, take them to return; the leaf's also tells whether the key is *)
(* there, and never at a position past the array.                          *)
SearchCorrect ==
  pc = "done" =>
    IF layout = "inter" THEN idx = UpperIdx(keys, key)
    ELSE /\ idx = LowerIdx(keys, key)
         /\ found <=> \E i \in 1 .. Len(keys) : keys[i] = key
         /\ found => idx < Len(keys) /\ keys[idx + 1] = key

(* The search returns: every round narrows the interval that is left. *)
Returns == <>(pc = "done")
=============================================================================
