---------------------------- MODULE AdaptiveLock ----------------------------
(***************************************************************************)
(* AdaptiveVersionLock (a sequence counter and a shared_mutex) as          *)
(* Lock<Mode> and Unlock<Mode> use it on one page: writers take it         *)
(* exclusively; readers in LockMode::Optimistic take nothing, and after    *)
(* MAX_OPTIMISTIC_TRIES failures in one call on the tree take it shared.   *)
(* The page is a few words of memory, read and written one at a time.      *)
(* MaxTries is 0 in the code; the algorithm is meant for any value.        *)
(* Memory is sequentially consistent here.                                 *)
(***************************************************************************)
EXTENDS Integers, FiniteSets

CONSTANTS
  Writer, Reader,   \* the threads
  Words,            \* how many words a page has
  MaxTries,         \* MAX_OPTIMISTIC_TRIES
  Rounds            \* how often a writer writes the page, and how many pages
                    \* a reader's call visits

ASSUME LockAssumption ==
  /\ Writer \cap Reader = {}
  /\ Words \in Nat \ {0}
  /\ MaxTries \in Nat
  /\ Rounds \in Nat

Thread == Writer \cup Reader
Word == 1 .. Words

VARIABLES
  seq,        \* the sequence counter, odd while a writer is at work
  owner,      \* who holds rw_mtx exclusively (a set of one thread at most)
  sharers,    \* who holds it shared
  word,       \* the page; a writer stamps each word with its value of seq
  pc,
  at,         \* the next word to write or read
  seen,       \* what a reader has read of the page
  version,    \* TlState's version_
  tries,      \* TlState's tries_
  rounds      \* rounds left

vars == <<seq, owner, sharers, word, pc, at, seen, version, tries, rounds>>

Init ==
  /\ seq = 0
  /\ owner = {}
  /\ sharers = {}
  /\ word = [w \in Word |-> -1]
  /\ pc = [t \in Thread |-> "lock"]
  /\ at = [t \in Thread |-> 1]
  /\ seen = [t \in Reader |-> [w \in Word |-> -1]]
  /\ version = [t \in Reader |-> 0]
  /\ tries = [t \in Reader |-> 0]
  /\ rounds = [t \in Thread |-> Rounds]

Goto(t, l) == pc' = [pc EXCEPT ![t] = l]

-----------------------------------------------------------------------------
(* Writers: WDataLock, the page, WDataUnlock. *)

LockExclusiveMut(t) ==                          \* mutant: readers are not waited for
  /\ pc[t] = "lock" /\ rounds[t] > 0
  /\ owner = {}
  /\ owner' = {t}
  /\ Goto(t, "begin")
  /\ UNCHANGED <<seq, sharers, word, at, seen, version, tries, rounds>>

LockExclusive(t) ==
  /\ pc[t] = "lock" /\ rounds[t] > 0
  /\ owner = {} /\ sharers = {}
  /\ owner' = {t}
  /\ Goto(t, "begin")
  /\ UNCHANGED <<seq, sharers, word, at, seen, version, tries, rounds>>

BeginWrite(t) ==
  /\ pc[t] = "begin"
  /\ seq' = seq + 1
  /\ Goto(t, "write")
  /\ UNCHANGED <<owner, sharers, word, at, seen, version, tries, rounds>>

WriteWord(t) ==
  /\ pc[t] = "write" /\ at[t] <= Words
  /\ word' = [word EXCEPT ![at[t]] = seq]
  /\ at' = [at EXCEPT ![t] = @ + 1]
  /\ UNCHANGED <<seq, owner, sharers, pc, seen, version, tries, rounds>>

EndWrite(t) ==
  /\ pc[t] = "write" /\ at[t] > Words
  /\ seq' = seq + 1
  /\ at' = [at EXCEPT ![t] = 1]
  /\ Goto(t, "unlock")
  /\ UNCHANGED <<owner, sharers, word, seen, version, tries, rounds>>

UnlockExclusive(t) ==
  /\ pc[t] = "unlock"
  /\ owner' = owner \ {t}
  /\ rounds' = [rounds EXCEPT ![t] = @ - 1]
  /\ Goto(t, "lock")
  /\ UNCHANGED <<seq, sharers, word, at, seen, version, tries>>

-----------------------------------------------------------------------------
(* Readers: Lock<Optimistic>.  The loop on ReadVersion stops at an even    *)
(* version, or when the tries are used up; then the lock is taken shared   *)
(* and version_, set to an odd value or to 0, is not looked at again.      *)

ReadVersionAny(t) ==                            \* mutant: an odd version will do
  /\ pc[t] = "lock" /\ rounds[t] > 0
  /\ tries[t] < MaxTries
  /\ version' = [version EXCEPT ![t] = seq]
  /\ Goto(t, "read")
  /\ UNCHANGED <<seq, owner, sharers, word, at, seen, tries, rounds>>

ReadVersionThrough(t) ==                        \* mutant: the tries used up, it goes
  /\ pc[t] = "lock" /\ rounds[t] > 0            \* on without the shared lock
  /\ tries[t] < MaxTries
  /\ IF seq % 2 = 0
     THEN /\ version' = [version EXCEPT ![t] = seq]
          /\ UNCHANGED tries
     ELSE /\ tries' = [tries EXCEPT ![t] = @ + 1]
          /\ UNCHANGED version
  /\ Goto(t, "read")
  /\ UNCHANGED <<seq, owner, sharers, word, at, seen, rounds>>

ReadVersion(t) ==
  /\ pc[t] = "lock" /\ rounds[t] > 0
  /\ tries[t] < MaxTries
  /\ IF seq % 2 = 0
     THEN /\ version' = [version EXCEPT ![t] = seq]
          /\ Goto(t, "read")
          /\ UNCHANGED tries
     ELSE /\ tries' = [tries EXCEPT ![t] = @ + 1]
          /\ UNCHANGED <<version, pc>>
  /\ UNCHANGED <<seq, owner, sharers, word, at, seen, rounds>>

LockShared(t) ==
  /\ pc[t] = "lock" /\ rounds[t] > 0
  /\ tries[t] >= MaxTries
  /\ owner = {}
  /\ sharers' = sharers \cup {t}
  /\ Goto(t, "read")
  /\ UNCHANGED <<seq, owner, word, at, seen, version, tries, rounds>>

ReadWord(t) ==
  /\ pc[t] = "read" /\ at[t] <= Words
  /\ seen' = [seen EXCEPT ![t][at[t]] = word[at[t]]]
  /\ at' = [at EXCEPT ![t] = @ + 1]
  /\ UNCHANGED <<seq, owner, sharers, word, pc, version, tries, rounds>>

UnlockSharedKept(t) ==                          \* mutant: the shared lock is kept
  /\ pc[t] = "read" /\ at[t] > Words
  /\ tries[t] >= MaxTries
  /\ at' = [at EXCEPT ![t] = 1]
  /\ Goto(t, "accept")
  /\ UNCHANGED <<seq, owner, sharers, word, seen, version, tries, rounds>>

UnlockSharedCounted(t) ==                       \* mutant: counted as a try
  /\ pc[t] = "read" /\ at[t] > Words
  /\ tries[t] >= MaxTries
  /\ sharers' = sharers \ {t}
  /\ at' = [at EXCEPT ![t] = 1]
  /\ tries' = [tries EXCEPT ![t] = @ + 1]
  /\ Goto(t, "accept")
  /\ UNCHANGED <<seq, owner, word, seen, version, rounds>>

(* Unlock<Optimistic>, which decides by the same test what to undo. *)
UnlockShared(t) ==
  /\ pc[t] = "read" /\ at[t] > Words
  /\ tries[t] >= MaxTries
  /\ sharers' = sharers \ {t}
  /\ at' = [at EXCEPT ![t] = 1]
  /\ Goto(t, "accept")
  /\ UNCHANGED <<seq, owner, word, seen, version, tries, rounds>>

ValidateMut(t) ==                               \* mutant: always passes
  /\ pc[t] = "read" /\ at[t] > Words
  /\ tries[t] < MaxTries
  /\ at' = [at EXCEPT ![t] = 1]
  /\ Goto(t, "accept")
  /\ UNCHANGED <<seq, owner, sharers, word, seen, version, tries, rounds>>

Validate(t) ==
  /\ pc[t] = "read" /\ at[t] > Words
  /\ tries[t] < MaxTries
  /\ at' = [at EXCEPT ![t] = 1]
  /\ IF seq = version[t]
     THEN Goto(t, "accept") /\ UNCHANGED tries
     ELSE Goto(t, "lock") /\ tries' = [tries EXCEPT ![t] = @ + 1]
  /\ UNCHANGED <<seq, owner, sharers, word, seen, version, rounds>>

(* What was read is used, and the call goes on to the next page with the   *)
(* tries it has left: only TlState::Clear resets them.                     *)
Accept(t) ==
  /\ pc[t] = "accept"
  /\ rounds' = [rounds EXCEPT ![t] = @ - 1]
  /\ seen' = [seen EXCEPT ![t] = [w \in Word |-> -1]]
  /\ Goto(t, "lock")
  /\ UNCHANGED <<seq, owner, sharers, word, at, version, tries>>

-----------------------------------------------------------------------------
Write(t) ==
  \/ LockExclusive(t) \/ BeginWrite(t) \/ WriteWord(t) \/ EndWrite(t)
  \/ UnlockExclusive(t)

Read(t) ==
  \/ ReadVersion(t) \/ LockShared(t) \/ ReadWord(t) \/ UnlockShared(t)
  \/ Validate(t) \/ Accept(t)

Ended == /\ \A t \in Thread : rounds[t] = 0
         /\ UNCHANGED vars

Next == \/ \E t \in Writer : Write(t)
        \/ \E t \in Reader : Read(t)
        \/ Ended

Spec == Init /\ [][Next]_vars

(* The operating system goes on scheduling every thread.  Nothing is       *)
(* assumed of the mutex's order: the others have finitely many rounds.     *)
FairSpec ==
  /\ Spec
  /\ \A t \in Writer : WF_vars(Write(t))
  /\ \A t \in Reader : WF_vars(Read(t))

-----------------------------------------------------------------------------
TypeOK ==
  /\ seq \in Nat
  /\ owner \subseteq Writer
  /\ sharers \subseteq Reader
  /\ word \in [Word -> Int]
  /\ pc \in [Thread -> {"lock", "begin", "write", "unlock", "read", "accept"}]
  /\ \A t \in Writer : pc[t] \notin {"read", "accept"}
  /\ \A t \in Reader : pc[t] \notin {"begin", "write", "unlock"}
  /\ at \in [Thread -> 1 .. Words + 1]
  /\ seen \in [Reader -> [Word -> Int]]
  /\ version \in [Reader -> Nat]
  /\ tries \in [Reader -> 0 .. MaxTries]
  /\ rounds \in [Thread -> Nat]

(* Whoever is writing the page is alone with it: no second writer, and no  *)
(* reader that has fallen back to the shared lock.                         *)
WriterAlone ==
  \A t \in Writer : pc[t] = "write" =>
    /\ \A u \in Writer \ {t} : pc[u] # "write"
    /\ \A r \in Reader : pc[r] = "read" => tries[r] < MaxTries

(* A reader holds the lock shared exactly when its next Unlock<Optimistic> *)
(* will release it: tries_, by which that call decides, has not changed    *)
(* since Lock<Optimistic>.                                                 *)
UnlockMatchesLock ==
  \A r \in Reader : r \in sharers <=> pc[r] = "read" /\ tries[r] >= MaxTries

(* What a reader goes on to use was one state of the page, whole, and not  *)
(* words of two writes: Unlock<Optimistic> let it through under the shared *)
(* lock or after Validate.                                                 *)
NoTornRead ==
  \A r \in Reader : pc[r] = "accept" =>
    \A v, w \in Word : seen[r][v] = seen[r][w]

(* What a validated read saw is no older than its Lock<Optimistic>.        *)
FreshRead ==
  \A r \in Reader : pc[r] = "accept" /\ tries[r] < MaxTries =>
    \A w \in Word : seen[r][w] = version[r] - 1

(* Every reader gets through its pages and every writer through its        *)
(* writes.                                                                 *)
Termination == <>(\A t \in Thread : rounds[t] = 0)
=============================================================================
