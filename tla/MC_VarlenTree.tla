--------------------------- MODULE MC_VarlenTree ---------------------------
(***************************************************************************)
(* Workloads for TLC, in rounds as main.cpp has them: one thread fills the *)
(* tree, then the threads run against each other.  A byte of these keys    *)
(* stands for four of the code's, and so does a unit of the sizes.         *)
(***************************************************************************)
EXTENDS VarlenTreeProps

CONSTANTS a, b, c

(* EncodeStringNormalized: every byte (code point) case folded, and a zero *)
(* at the end.  41 .. 80 are the upper case of 1 .. 40.                    *)
CaseFold(x) == IF x > 40 THEN x - 40 ELSE x
EncodeFolded(k) == Append([i \in DOMAIN k |-> CaseFold(k[i])], 0)

Put(k, v) == {[kind |-> "insert", key |-> k, val |-> v]}
Drop(k) == {[kind |-> "delete", key |-> k, val |-> 0]}
Look(k) == {[kind |-> "get", key |-> k, val |-> 0]}
Fill(keys) == [i \in DOMAIN keys |-> Put(keys[i], 0)]
Idle == [t \in {a, b, c} |-> <<>>]
KeysOf(rounds) ==
  UNION {UNION {{x.key : x \in rounds[r][t][i]} : i \in DOMAIN rounds[r][t]} :
           r \in DOMAIN rounds, t \in {a, b, c}}

-----------------------------------------------------------------------------
(* The keys share their first byte, an upper case one, as those of main.cpp *)
(* share their start.                                                      *)
K(n) == <<41, (n \div 16) + 1, (n % 16) + 1>>
Ks(first, step, n) == Fill([i \in 1 .. n |-> K(first + step * (i - 1))])

(* b looks for the root when it is a leaf and may split a leaf when it is  *)
(* not; a goes on to three levels, where page 11 is a middle intermediate  *)
(* page that the next two separators split; then a and b split leaves      *)
(* below it while c deletes from one until it is compacted.                *)
Rounds ==
  << [Idle EXCEPT ![a] = Ks(6, 6, 8)],
     [Idle EXCEPT ![a] = Ks(54, 6, 8), ![b] = Ks(100, 1, 1)],
     [Idle EXCEPT ![a] = Ks(108, 6, 55) \o Ks(157, 6, 20) \o Ks(155, 3, 8)
                         \o Ks(154, 6, 2) \o Ks(184, 6, 2) \o Ks(215, 1, 1)
                         \o <<Drop(K(199)), Drop(K(204)), Drop(K(210)),
                              Put(K(201), 0)>>],
     [Idle EXCEPT ![a] = <<Put(K(152), 1)>>,
                  ![b] = <<Put(K(200), 1)>>,
                  ![c] = <<Drop(K(205)) \cup Look(K(217))>>],
     [Idle EXCEPT ![b] = <<Look(K(222)) \cup Put(K(216), 1)>>,
                  ![c] = <<Put(K(210), 1)>>] >>
Keys == KeysOf(Rounds)

(* a deletes K(30), the low fence of its leaf, and fills the leaf with keys *)
(* that share one byte more; it splits, and a looks for K(30) again.       *)
PrefixRounds ==
  << [Idle EXCEPT ![a] = Ks(6, 6, 16) \o <<Drop(K(30))>>
                         \o Ks(43, 1, 5) \o Ks(49, 1, 2) \o <<Look(K(30))>>] >>
PrefixKeys == KeysOf(PrefixRounds)

(* Keys that share no byte: a inserts them until there is an intermediate  *)
(* page with neighbours on both sides, and then keys that split it.        *)
J(n) == Tail(K(n))
Js(first, step, n) == Fill([i \in 1 .. n |-> J(first + step * (i - 1))])
InterRounds == << [Idle EXCEPT ![a] = Js(6, 6, 100) \o Js(158, 6, 60)] >>
InterKeys == KeysOf(InterRounds)
=============================================================================
