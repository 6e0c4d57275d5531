------------------------------- MODULE KeyMap -------------------------------
(***************************************************************************)
(* What BTreeIndex promises its callers: a map from keys to values shared  *)
(* by the threads, on which each call takes effect atomically at one       *)
(* moment between its invocation and its return.  A call that finds        *)
(* nothing to do reports so: Insert of a present key, Delete and Get of an *)
(* absent one.                                                             *)
(***************************************************************************)
EXTENDS Integers

CONSTANTS
  Thread,   \* the threads that call the index
  Key,      \* the keys
  Val,      \* the values
  Absent    \* stands for "no value"; not a value

VARIABLES
  map,      \* the value of each key, or Absent
  phase,    \* where each thread is: "idle", "called" or "answered"
  call,     \* the call in progress of each thread that is not idle
  answer    \* what the call of an answered thread returned

vars == <<map, phase, call, answer>>

Call == [kind : {"insert", "delete", "get"}, key : Key, val : Val \cup {Absent}]

Hit(v) == [ok |-> TRUE, val |-> v]
Miss == [ok |-> FALSE, val |-> Absent]

Init ==
  /\ map = [k \in Key |-> Absent]
  /\ phase = [t \in Thread |-> "idle"]
  /\ call = [t \in Thread |-> Absent]
  /\ answer = [t \in Thread |-> Miss]

-----------------------------------------------------------------------------
Invoke(t) ==
  /\ phase[t] = "idle"
  /\ phase' = [phase EXCEPT ![t] = "called"]
  /\ \E c \in Call : call' = [call EXCEPT ![t] = c]
  /\ UNCHANGED <<map, answer>>

(* The call takes effect with answer a and leaves value v at its key. *)
Respond(t, v, a) ==
  /\ phase' = [phase EXCEPT ![t] = "answered"]
  /\ map' = [map EXCEPT ![call[t].key] = v]
  /\ answer' = [answer EXCEPT ![t] = a]
  /\ UNCHANGED call

Effect(t) ==
  /\ phase[t] = "called"
  /\ LET old == map[call[t].key] IN
     \/ /\ call[t].kind = "insert" /\ old = Absent
        /\ Respond(t, call[t].val, Hit(Absent))
     \/ /\ call[t].kind = "delete" /\ old # Absent
        /\ Respond(t, Absent, Hit(Absent))
     \/ /\ call[t].kind = "get" /\ old # Absent
        /\ Respond(t, old, Hit(old))
     \/ /\ (call[t].kind = "insert") = (old # Absent)
        /\ Respond(t, old, Miss)

Return(t) ==
  /\ phase[t] = "answered"
  /\ phase' = [phase EXCEPT ![t] = "idle"]
  /\ call' = [call EXCEPT ![t] = Absent]
  /\ answer' = [answer EXCEPT ![t] = Miss]
  /\ UNCHANGED map

Next == \E t \in Thread : Invoke(t) \/ Effect(t) \/ Return(t)

Spec == Init /\ [][Next]_vars
=============================================================================
