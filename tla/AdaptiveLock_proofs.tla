------------------------ MODULE AdaptiveLock_proofs ------------------------
(***************************************************************************)
(* For any number of writers and readers, any page size and any value of   *)
(* MAX_OPTIMISTIC_TRIES: writers are alone, Unlock<Optimistic> undoes what *)
(* Lock<Optimistic> did, and no torn or stale page is ever accepted.       *)
(***************************************************************************)
EXTENDS AdaptiveLock, TLAPS

(* The mutex: one owner or some sharers, and who they are by pc.           *)
MutexInv ==
  /\ \A t \in Writer : t \in owner <=> pc[t] \in {"begin", "write", "unlock"}
  /\ \A t, u \in owner : t = u
  /\ owner = {} \/ sharers = {}
  /\ UnlockMatchesLock

(* The page: the even seq tells the one stamp of all words; at the odd seq *)
(* the writer's progress tells the old words from the new.                 *)
PageInv ==
  /\ (\A t \in Writer : pc[t] # "write") =>
       seq % 2 = 0 /\ \A w \in Word : word[w] = seq - 1
  /\ \A t \in Writer : pc[t] = "write" =>
       /\ seq % 2 = 1
       /\ \A w \in Word : word[w] = IF w < at[t] THEN seq ELSE seq - 2

(* Readers: as long as seq is what it was, or with the shared lock, what   *)
(* has been read is the page as it is.                                     *)
Scanned(r) == {w \in Word : w < at[r]}
ReadInvOf(r) ==
  /\ pc[r] = "read" /\ tries[r] < MaxTries =>
       /\ version[r] % 2 = 0 /\ version[r] <= seq
       /\ seq = version[r] => \A w \in Scanned(r) : seen[r][w] = version[r] - 1
  /\ pc[r] = "read" /\ tries[r] >= MaxTries =>
       \A w \in Scanned(r) : seen[r][w] = seq - 1
  /\ pc[r] = "accept" =>
       /\ \A v, w \in Word : seen[r][v] = seen[r][w]
       /\ tries[r] < MaxTries => \A w \in Word : seen[r][w] = version[r] - 1
ReadInv == \A r \in Reader : ReadInvOf(r)

AtInv ==
  \A t \in Thread :
    /\ pc[t] \notin {"write", "read"} => at[t] = 1
    /\ pc[t] # "lock" => rounds[t] > 0

IInv == TypeOK /\ MutexInv /\ PageInv /\ ReadInv /\ AtInv

-----------------------------------------------------------------------------
LEMMA Parity == \A n \in Int : (n % 2 = 0 <=> (n + 1) % 2 = 1) /\ (n % 2 = 1 <=> (n + 1) % 2 = 0)
  BY SMT

LEMMA InitIInv == Init => IInv
<1> SUFFICES ASSUME Init PROVE IInv
  OBVIOUS
<1> USE LockAssumption DEF Init, Thread, Word
<1>1. TypeOK  BY DEF TypeOK
<1>2. MutexInv  BY DEF MutexInv, UnlockMatchesLock
<1>3. PageInv  BY DEF PageInv
<1>4. ReadInv  BY DEF ReadInv, ReadInvOf, Scanned
<1>5. AtInv  BY DEF AtInv
<1> QED  BY <1>1, <1>2, <1>3, <1>4, <1>5 DEF IInv

(* A reader who has not moved, the page being what it was.                 *)
LEMMA ReadKept ==
  ASSUME NEW r \in Reader, ReadInvOf(r), seq' = seq,
         pc'[r] = pc[r], tries'[r] = tries[r], version'[r] = version[r],
         seen'[r] = seen[r], at'[r] = at[r]
  PROVE  ReadInvOf(r)'
<1>1. Scanned(r)' = Scanned(r)
  BY DEF Scanned
<1> HIDE DEF Word
<1> QED  BY <1>1 DEF ReadInvOf

(* A reader who is not scanning with the shared lock when seq goes up.     *)
LEMMA ReadOvertaken ==
  ASSUME NEW r \in Reader, ReadInvOf(r), seq \in Nat, seq' = seq + 1,
         version[r] \in Nat, tries[r] \in Nat,
         pc[r] = "read" => tries[r] < MaxTries,
         pc'[r] = pc[r], tries'[r] = tries[r], version'[r] = version[r],
         seen'[r] = seen[r]
  PROVE  ReadInvOf(r)'
<1>1. CASE pc[r] = "read"
  <2>1. version[r] % 2 = 0 /\ version[r] <= seq
    BY <1>1 DEF ReadInvOf
  <2>2. version[r] <= seq' /\ seq' # version[r]
    BY <2>1
  <2>3. pc'[r] # "accept" /\ ~(tries'[r] >= MaxTries)
    BY <1>1, LockAssumption
  <2> QED  BY <2>1, <2>2, <2>3 DEF ReadInvOf
<1>2. CASE pc[r] = "accept"
  BY <1>2 DEF ReadInvOf
<1>3. CASE pc[r] \notin {"read", "accept"}
  BY <1>3 DEF ReadInvOf
<1> QED  BY <1>1, <1>2, <1>3

(* A step of a reader that leaves the mutex alone.                         *)
LEMMA MutexKept ==
  ASSUME MutexInv, NEW t \in Reader, Writer \cap Reader = {},
         UNCHANGED <<owner, sharers>>, t \notin sharers,
         \A u \in (Writer \cup Reader) \ {t} : pc'[u] = pc[u],
         \A u \in Reader \ {t} : tries'[u] = tries[u],
         ~(pc'[t] = "read" /\ tries'[t] >= MaxTries)
  PROVE  MutexInv'
<1>1. UnlockMatchesLock'
  BY DEF MutexInv, UnlockMatchesLock
<1>2. (\A w \in Writer : w \in owner <=> pc[w] \in {"begin", "write", "unlock"})'
  BY DEF MutexInv
<1> QED  BY <1>1, <1>2 DEF MutexInv

LEMMA WriterStep ==
  ASSUME IInv, NEW t \in Writer, Write(t)
  PROVE  IInv'
<1> USE LockAssumption DEF Thread, Word, Goto
<1> USE DEF IInv
<1>1. CASE LockExclusive(t)
  <2> USE <1>1 DEF LockExclusive
  <2>1. TypeOK'  BY DEF TypeOK
  <2>2. MutexInv'  BY DEF MutexInv, UnlockMatchesLock, TypeOK
  <2>3. PageInv'  BY DEF PageInv, TypeOK
  <2>4. ASSUME NEW r \in Reader PROVE ReadInvOf(r)'
    <3>1. /\ seq' = seq /\ pc'[r] = pc[r] /\ tries'[r] = tries[r]
          /\ version'[r] = version[r] /\ seen'[r] = seen[r] /\ at'[r] = at[r]
      BY DEF TypeOK
    <3>2. ReadInvOf(r)
      BY DEF ReadInv
    <3> QED  BY ONLY <3>1, <3>2, ReadKept
  <2>5. AtInv'  BY DEF AtInv, TypeOK
  <2> QED  BY <2>1, <2>2, <2>3, <2>4, <2>5 DEF ReadInv
<1>2. CASE BeginWrite(t)
  <2> USE <1>2 DEF BeginWrite
  <2>0. \A u \in Writer : pc[u] # "write"
    BY DEF MutexInv
  <2>1. TypeOK'  BY DEF TypeOK
  <2>2. MutexInv'  BY DEF MutexInv, UnlockMatchesLock, TypeOK
  <2>3. PageInv'
    <3>1. seq % 2 = 0 /\ (\A w \in Word : word[w] = seq - 1) /\ at[t] = 1
      BY <2>0 DEF PageInv, AtInv
    <3>2. seq' % 2 = 1  BY <3>1, Parity DEF TypeOK
    <3> QED  BY <2>0, <3>1, <3>2 DEF PageInv, TypeOK
  <2>4. ASSUME NEW r \in Reader PROVE ReadInvOf(r)'
    <3>1. sharers = {}  BY DEF MutexInv
    <3>2. pc[r] = "read" => tries[r] < MaxTries
      <4>1. ~(pc[r] = "read" /\ tries[r] >= MaxTries)
        BY <3>1 DEF MutexInv, UnlockMatchesLock
      <4>2. tries[r] \in 0 .. MaxTries
        BY DEF TypeOK
      <4> QED  BY <4>1, <4>2
    <3>3. /\ seq \in Nat /\ version[r] \in Nat /\ tries[r] \in Nat
          /\ seq' = seq + 1 /\ pc'[r] = pc[r] /\ tries'[r] = tries[r]
          /\ version'[r] = version[r] /\ seen'[r] = seen[r]
      BY DEF TypeOK
    <3>4. ReadInvOf(r)
      BY DEF ReadInv
    <3> QED  BY ONLY <3>2, <3>3, <3>4, ReadOvertaken
  <2>5. AtInv'  BY DEF AtInv, TypeOK
  <2> QED  BY <2>1, <2>2, <2>3, <2>4, <2>5 DEF ReadInv
<1>3. CASE WriteWord(t)
  <2> USE <1>3 DEF WriteWord
  <2>1. TypeOK'  BY DEF TypeOK
  <2>2. MutexInv'  BY DEF MutexInv, UnlockMatchesLock, TypeOK
  <2>3. PageInv'
    <3>1. \A u \in Writer : pc[u] = "write" => u = t
      BY DEF MutexInv, TypeOK
    <3> QED  BY <3>1 DEF PageInv, TypeOK
  <2>4. ASSUME NEW r \in Reader PROVE ReadInvOf(r)'
    <3>1. /\ seq' = seq /\ pc'[r] = pc[r] /\ tries'[r] = tries[r]
          /\ version'[r] = version[r] /\ seen'[r] = seen[r] /\ at'[r] = at[r]
      BY DEF TypeOK
    <3>2. ReadInvOf(r)
      BY DEF ReadInv
    <3> QED  BY ONLY <3>1, <3>2, ReadKept
  <2>5. AtInv'  BY DEF AtInv, TypeOK
  <2> QED  BY <2>1, <2>2, <2>3, <2>4, <2>5 DEF ReadInv
<1>4. CASE EndWrite(t)
  <2> USE <1>4 DEF EndWrite
  <2>1. TypeOK'  BY DEF TypeOK
  <2>2. MutexInv'  BY DEF MutexInv, UnlockMatchesLock, TypeOK
  <2>3. PageInv'
    <3>1. \A u \in Writer : pc[u] = "write" => u = t
      BY DEF MutexInv, TypeOK
    <3>2. seq % 2 = 1 /\ \A w \in Word : word[w] = seq
      BY DEF PageInv, TypeOK
    <3>3. seq' % 2 = 0  BY <3>2, Parity DEF TypeOK
    <3> QED  BY <3>1, <3>2, <3>3 DEF PageInv, TypeOK
  <2>4. ASSUME NEW r \in Reader PROVE ReadInvOf(r)'
    <3>1. sharers = {}  BY DEF MutexInv
    <3>2. pc[r] = "read" => tries[r] < MaxTries
      <4>1. ~(pc[r] = "read" /\ tries[r] >= MaxTries)
        BY <3>1 DEF MutexInv, UnlockMatchesLock
      <4>2. tries[r] \in 0 .. MaxTries
        BY DEF TypeOK
      <4> QED  BY <4>1, <4>2
    <3>3. /\ seq \in Nat /\ version[r] \in Nat /\ tries[r] \in Nat
          /\ seq' = seq + 1 /\ pc'[r] = pc[r] /\ tries'[r] = tries[r]
          /\ version'[r] = version[r] /\ seen'[r] = seen[r]
      BY DEF TypeOK
    <3>4. ReadInvOf(r)
      BY DEF ReadInv
    <3> QED  BY ONLY <3>2, <3>3, <3>4, ReadOvertaken
  <2>5. AtInv'  BY DEF AtInv, TypeOK
  <2> QED  BY <2>1, <2>2, <2>3, <2>4, <2>5 DEF ReadInv
<1>5. CASE UnlockExclusive(t)
  <2> USE <1>5 DEF UnlockExclusive
  <2>1. TypeOK'  BY DEF TypeOK, AtInv
  <2>2. MutexInv'  BY DEF MutexInv, UnlockMatchesLock, TypeOK
  <2>3. PageInv'  BY DEF PageInv, TypeOK
  <2>4. ASSUME NEW r \in Reader PROVE ReadInvOf(r)'
    <3>1. /\ seq' = seq /\ pc'[r] = pc[r] /\ tries'[r] = tries[r]
          /\ version'[r] = version[r] /\ seen'[r] = seen[r] /\ at'[r] = at[r]
      BY DEF TypeOK
    <3>2. ReadInvOf(r)
      BY DEF ReadInv
    <3> QED  BY ONLY <3>1, <3>2, ReadKept
  <2>5. AtInv'  BY DEF AtInv, TypeOK
  <2> QED  BY <2>1, <2>2, <2>3, <2>4, <2>5 DEF ReadInv
<1> QED  BY <1>1, <1>2, <1>3, <1>4, <1>5 DEF Write

LEMMA ReaderStep ==
  ASSUME IInv, NEW t \in Reader, Read(t)
  PROVE  IInv'
<1> USE LockAssumption DEF Thread, Word, Goto
<1> USE DEF IInv
<1>0. t \in Thread /\ t \notin Writer /\ tries[t] \in 0 .. MaxTries
  BY DEF TypeOK
<1> USE <1>0
<1>1. CASE ReadVersion(t) /\ seq % 2 = 0
  <2>0. /\ pc[t] = "lock" /\ rounds[t] > 0 /\ tries[t] < MaxTries
        /\ version' = [version EXCEPT ![t] = seq]
        /\ pc' = [pc EXCEPT ![t] = "read"]
        /\ UNCHANGED <<seq, owner, sharers, word, at, seen, tries, rounds>>
    BY <1>1 DEF ReadVersion
  <2> USE <2>0
  <2>1. TypeOK'  BY DEF TypeOK
  <2>2. MutexInv'
    <3>1. t \notin sharers
      BY DEF MutexInv, UnlockMatchesLock, TypeOK
    <3>2. /\ \A u \in (Writer \cup Reader) \ {t} : pc'[u] = pc[u]
          /\ \A u \in Reader \ {t} : tries'[u] = tries[u]
          /\ ~(pc'[t] = "read" /\ tries'[t] >= MaxTries)
      BY DEF TypeOK
    <3> QED  BY <3>1, <3>2, MutexKept
  <2>3. PageInv'  BY DEF PageInv, TypeOK
  <2>4. ASSUME NEW r \in Reader PROVE ReadInvOf(r)'
    <3>1. CASE r = t
      <4>1. /\ pc'[t] = "read" /\ tries'[t] < MaxTries
            /\ version'[t] = seq /\ seq' = seq /\ seq \in Nat /\ seq % 2 = 0
            /\ tries'[t] \in Nat
        BY <1>1 DEF TypeOK
      <4>2. at[t] = 1 /\ at' = at
        BY DEF AtInv
      <4>3. Scanned(t)' = {}
        BY <4>2 DEF Scanned
      <4> QED  BY <3>1, <4>1, <4>3, LockAssumption DEF ReadInvOf
    <3>2. CASE r # t
      <4>1. /\ seq' = seq /\ pc'[r] = pc[r] /\ tries'[r] = tries[r]
            /\ version'[r] = version[r] /\ seen'[r] = seen[r] /\ at'[r] = at[r]
        BY <3>2 DEF TypeOK
      <4>2. ReadInvOf(r)
        BY DEF ReadInv
      <4> QED  BY ONLY <4>1, <4>2, ReadKept
    <3> QED  BY <3>1, <3>2
  <2>5. AtInv'  BY DEF AtInv, TypeOK
  <2> QED  BY <2>1, <2>2, <2>3, <2>4, <2>5 DEF ReadInv
<1>1a. CASE ReadVersion(t) /\ seq % 2 # 0
  <2>0. /\ pc[t] = "lock" /\ rounds[t] > 0 /\ tries[t] < MaxTries
        /\ tries' = [tries EXCEPT ![t] = @ + 1]
        /\ UNCHANGED <<seq, owner, sharers, word, at, seen, version, pc, rounds>>
    BY <1>1a DEF ReadVersion
  <2> USE <2>0
  <2>1. TypeOK'  BY DEF TypeOK
  <2>2. MutexInv'
    <3>1. t \notin sharers
      BY DEF MutexInv, UnlockMatchesLock, TypeOK
    <3>2. /\ \A u \in (Writer \cup Reader) \ {t} : pc'[u] = pc[u]
          /\ \A u \in Reader \ {t} : tries'[u] = tries[u]
          /\ ~(pc'[t] = "read" /\ tries'[t] >= MaxTries)
      BY DEF TypeOK
    <3> QED  BY <3>1, <3>2, MutexKept
  <2>3. PageInv'  BY DEF PageInv, TypeOK
  <2>4. ASSUME NEW r \in Reader PROVE ReadInvOf(r)'
    <3>1. CASE r = t
      BY <3>1 DEF ReadInv, ReadInvOf, Scanned, TypeOK, AtInv
    <3>2. CASE r # t
      <4>1. /\ seq' = seq /\ pc'[r] = pc[r] /\ tries'[r] = tries[r]
            /\ version'[r] = version[r] /\ seen'[r] = seen[r] /\ at'[r] = at[r]
        BY <3>2 DEF TypeOK
      <4>2. ReadInvOf(r)
        BY DEF ReadInv
      <4> QED  BY ONLY <4>1, <4>2, ReadKept
    <3> QED  BY <3>1, <3>2
  <2>5. AtInv'  BY DEF AtInv, TypeOK
  <2> QED  BY <2>1, <2>2, <2>3, <2>4, <2>5 DEF ReadInv
<1>2. CASE LockShared(t)
  <2> USE <1>2 DEF LockShared
  <2>1. TypeOK'  BY DEF TypeOK
  <2>2. MutexInv'  BY DEF MutexInv, UnlockMatchesLock, TypeOK
  <2>3. PageInv'  BY DEF PageInv, TypeOK
  <2>4. ASSUME NEW r \in Reader PROVE ReadInvOf(r)'
    <3>1. CASE r = t
      <4>1. pc'[t] = "read" /\ ~(tries'[t] < MaxTries)
        BY DEF TypeOK
      <4>2. at[t] = 1 /\ at' = at
        BY DEF AtInv
      <4>3. Scanned(t)' = {}
        BY <4>2 DEF Scanned
      <4> QED  BY <3>1, <4>1, <4>3 DEF ReadInvOf
    <3>2. CASE r # t
      <4>1. /\ seq' = seq /\ pc'[r] = pc[r] /\ tries'[r] = tries[r]
            /\ version'[r] = version[r] /\ seen'[r] = seen[r] /\ at'[r] = at[r]
        BY <3>2 DEF TypeOK
      <4>2. ReadInvOf(r)
        BY DEF ReadInv
      <4> QED  BY ONLY <4>1, <4>2, ReadKept
    <3> QED  BY <3>1, <3>2
  <2>5. AtInv'  BY DEF AtInv, TypeOK
  <2> QED  BY <2>1, <2>2, <2>3, <2>4, <2>5 DEF ReadInv
<1>3. CASE ReadWord(t)
  <2> USE <1>3 DEF ReadWord
  <2>1. TypeOK'  BY DEF TypeOK
  <2>2. MutexInv'  BY DEF MutexInv, UnlockMatchesLock, TypeOK
  <2>3. PageInv'  BY DEF PageInv, TypeOK
  <2>4. ASSUME NEW r \in Reader PROVE ReadInvOf(r)'
    <3>1. \A u \in Writer : pc[u] = "write" => seq % 2 = 1 /\ owner # {}
      BY DEF PageInv, MutexInv
    <3>0. (\A u \in Writer : pc[u] # "write") => word[at[t]] = seq - 1
      <4>1. at[t] \in Word
        BY <1>3 DEF TypeOK, ReadWord
      <4> QED  BY <4>1 DEF PageInv
    <3>2. seq = version[t] /\ tries[t] < MaxTries => word[at[t]] = version[t] - 1
      <4>1. tries[t] < MaxTries => version[t] % 2 = 0
        BY <1>3 DEF ReadInv, ReadInvOf, ReadWord
      <4> QED  BY <3>0, <3>1, <4>1
    <3>3. tries[t] >= MaxTries => word[at[t]] = seq - 1
      <4>1. tries[t] >= MaxTries => t \in sharers
        BY <1>3 DEF MutexInv, UnlockMatchesLock, ReadWord
      <4>2. tries[t] >= MaxTries => owner = {}
        BY <4>1 DEF MutexInv
      <4> QED  BY <3>0, <3>1, <4>2
    <3>4. /\ seen'[t][at[t]] = word[at[t]]
          /\ \A w \in Word \ {at[t]} : seen'[t][w] = seen[t][w]
      BY DEF TypeOK
    <3>5. \A w \in Scanned(t)' : w = at[t] \/ w \in Scanned(t) \ {at[t]}
      <4>1. at'[t] = at[t] + 1 /\ at[t] \in Nat /\ Words \in Nat
        BY DEF TypeOK
      <4> QED  BY ONLY <4>1 DEF Scanned, Word
    <3>6. CASE r = t
      <4>1. /\ pc' = pc /\ tries' = tries /\ version' = version /\ seq' = seq
            /\ pc[t] = "read" /\ ReadInvOf(t) /\ Scanned(t) \subseteq Word
        BY DEF ReadInv, Scanned
      <4> HIDE DEF ReadWord, IInv, Word
      <4>2. seq = version[t] /\ tries[t] < MaxTries =>
              \A w \in Scanned(t)' : seen'[t][w] = version[t] - 1
        BY <3>2, <3>4, <3>5, <4>1 DEF ReadInvOf
      <4>3. tries[t] >= MaxTries =>
              \A w \in Scanned(t)' : seen'[t][w] = seq - 1
        BY <3>3, <3>4, <3>5, <4>1 DEF ReadInvOf
      <4> QED  BY <3>6, <4>1, <4>2, <4>3 DEF ReadInvOf
    <3>7. CASE r # t
      <4>1. /\ seq' = seq /\ pc'[r] = pc[r] /\ tries'[r] = tries[r]
            /\ version'[r] = version[r] /\ seen'[r] = seen[r] /\ at'[r] = at[r]
        BY <3>7 DEF TypeOK
      <4>2. ReadInvOf(r)
        BY DEF ReadInv
      <4> QED  BY ONLY <4>1, <4>2, ReadKept
    <3> QED  BY <3>6, <3>7
  <2>5. AtInv'  BY DEF AtInv, TypeOK
  <2> QED  BY <2>1, <2>2, <2>3, <2>4, <2>5 DEF ReadInv
<1>4. CASE UnlockShared(t)
  <2> USE <1>4 DEF UnlockShared
  <2>1. TypeOK'  BY DEF TypeOK
  <2>2. MutexInv'  BY DEF MutexInv, UnlockMatchesLock, TypeOK
  <2>3. PageInv'  BY DEF PageInv, TypeOK
  <2>4. ASSUME NEW r \in Reader PROVE ReadInvOf(r)'
    <3>1. CASE r = t
      <4>1. pc'[t] = "accept" /\ ~(tries'[t] < MaxTries) /\ seen' = seen
        BY DEF TypeOK
      <4>2. Scanned(t) = Word
        BY DEF Scanned, TypeOK
      <4>3. \A w \in Word : seen[t][w] = seq - 1
        BY <4>2 DEF ReadInv, ReadInvOf
      <4> HIDE DEF Word
      <4> QED  BY <3>1, <4>1, <4>3 DEF ReadInvOf
    <3>2. CASE r # t
      <4>1. /\ seq' = seq /\ pc'[r] = pc[r] /\ tries'[r] = tries[r]
            /\ version'[r] = version[r] /\ seen'[r] = seen[r] /\ at'[r] = at[r]
        BY <3>2 DEF TypeOK
      <4>2. ReadInvOf(r)
        BY DEF ReadInv
      <4> QED  BY ONLY <4>1, <4>2, ReadKept
    <3> QED  BY <3>1, <3>2
  <2>5. AtInv'  BY DEF AtInv, TypeOK
  <2> QED  BY <2>1, <2>2, <2>3, <2>4, <2>5 DEF ReadInv
<1>5. CASE Validate(t) /\ seq = version[t]
  <2>0. /\ pc[t] = "read" /\ at[t] > Words /\ tries[t] < MaxTries
        /\ at' = [at EXCEPT ![t] = 1]
        /\ pc' = [pc EXCEPT ![t] = "accept"]
        /\ UNCHANGED <<seq, owner, sharers, word, seen, version, tries, rounds>>
    BY <1>5 DEF Validate
  <2> USE <2>0
  <2>1. TypeOK'  BY DEF TypeOK
  <2>2. MutexInv'
    <3>1. t \notin sharers
      BY DEF MutexInv, UnlockMatchesLock, TypeOK
    <3>2. /\ \A u \in (Writer \cup Reader) \ {t} : pc'[u] = pc[u]
          /\ \A u \in Reader \ {t} : tries'[u] = tries[u]
          /\ ~(pc'[t] = "read" /\ tries'[t] >= MaxTries)
      BY DEF TypeOK
    <3> QED  BY <3>1, <3>2, MutexKept
  <2>3. PageInv'  BY DEF PageInv, TypeOK
  <2>4. ASSUME NEW r \in Reader PROVE ReadInvOf(r)'
    <3>1. CASE r = t
      <4>1. pc'[t] = "accept" /\ seen' = seen /\ version' = version
        BY DEF TypeOK
      <4>2. Scanned(t) = Word
        BY DEF Scanned, TypeOK
      <4>3. \A w \in Word : seen[t][w] = version[t] - 1
        BY <1>5, <4>2 DEF ReadInv, ReadInvOf
      <4> HIDE DEF Word
      <4> QED  BY <3>1, <4>1, <4>3 DEF ReadInvOf
    <3>2. CASE r # t
      <4>1. /\ seq' = seq /\ pc'[r] = pc[r] /\ tries'[r] = tries[r]
            /\ version'[r] = version[r] /\ seen'[r] = seen[r] /\ at'[r] = at[r]
        BY <3>2 DEF TypeOK
      <4>2. ReadInvOf(r)
        BY DEF ReadInv
      <4> QED  BY ONLY <4>1, <4>2, ReadKept
    <3> QED  BY <3>1, <3>2
  <2>5. AtInv'  BY DEF AtInv, TypeOK
  <2> QED  BY <2>1, <2>2, <2>3, <2>4, <2>5 DEF ReadInv
<1>5a. CASE Validate(t) /\ seq # version[t]
  <2>0. /\ pc[t] = "read" /\ at[t] > Words /\ tries[t] < MaxTries
        /\ at' = [at EXCEPT ![t] = 1]
        /\ pc' = [pc EXCEPT ![t] = "lock"]
        /\ tries' = [tries EXCEPT ![t] = @ + 1]
        /\ UNCHANGED <<seq, owner, sharers, word, seen, version, rounds>>
    BY <1>5a DEF Validate
  <2> USE <2>0
  <2>1. TypeOK'  BY DEF TypeOK
  <2>2. MutexInv'
    <3>1. t \notin sharers
      BY DEF MutexInv, UnlockMatchesLock, TypeOK
    <3>2. /\ \A u \in (Writer \cup Reader) \ {t} : pc'[u] = pc[u]
          /\ \A u \in Reader \ {t} : tries'[u] = tries[u]
          /\ ~(pc'[t] = "read" /\ tries'[t] >= MaxTries)
      BY DEF TypeOK
    <3> QED  BY <3>1, <3>2, MutexKept
  <2>3. PageInv'  BY DEF PageInv, TypeOK
  <2>4. ASSUME NEW r \in Reader PROVE ReadInvOf(r)'
    <3>1. CASE r = t
      BY <3>1 DEF ReadInv, ReadInvOf, Scanned, TypeOK, AtInv
    <3>2. CASE r # t
      <4>1. /\ seq' = seq /\ pc'[r] = pc[r] /\ tries'[r] = tries[r]
            /\ version'[r] = version[r] /\ seen'[r] = seen[r] /\ at'[r] = at[r]
        BY <3>2 DEF TypeOK
      <4>2. ReadInvOf(r)
        BY DEF ReadInv
      <4> QED  BY ONLY <4>1, <4>2, ReadKept
    <3> QED  BY <3>1, <3>2
  <2>5. AtInv'  BY DEF AtInv, TypeOK
  <2> QED  BY <2>1, <2>2, <2>3, <2>4, <2>5 DEF ReadInv
<1>6. CASE Accept(t)
  <2> USE <1>6 DEF Accept
  <2>1. TypeOK'
    <3>1. rounds'[t] \in Nat
      <4>1. rounds[t] \in Nat /\ rounds[t] > 0 /\ rounds'[t] = rounds[t] - 1
        BY DEF TypeOK, AtInv
      <4> QED  BY <4>1
    <3>2. seen' \in [Reader -> [Word -> Int]]
      BY DEF TypeOK
    <3>3. rounds' \in [Thread -> Nat]
      BY <3>1 DEF TypeOK
    <3> QED  BY <3>2, <3>3 DEF TypeOK
  <2>2. MutexInv'
    <3>1. t \notin sharers
      BY DEF MutexInv, UnlockMatchesLock, TypeOK
    <3>2. /\ \A u \in (Writer \cup Reader) \ {t} : pc'[u] = pc[u]
          /\ \A u \in Reader \ {t} : tries'[u] = tries[u]
          /\ ~(pc'[t] = "read" /\ tries'[t] >= MaxTries)
      BY DEF TypeOK
    <3> QED  BY <3>1, <3>2, MutexKept
  <2>3. PageInv'  BY DEF PageInv, TypeOK
  <2>4. ASSUME NEW r \in Reader PROVE ReadInvOf(r)'
    <3>1. CASE r = t
      BY <3>1 DEF ReadInv, ReadInvOf, Scanned, TypeOK, AtInv
    <3>2. CASE r # t
      <4>1. /\ seq' = seq /\ pc'[r] = pc[r] /\ tries'[r] = tries[r]
            /\ version'[r] = version[r] /\ seen'[r] = seen[r] /\ at'[r] = at[r]
        BY <3>2 DEF TypeOK
      <4>2. ReadInvOf(r)
        BY DEF ReadInv
      <4> QED  BY ONLY <4>1, <4>2, ReadKept
    <3> QED  BY <3>1, <3>2
  <2>5. AtInv'  BY DEF AtInv, TypeOK
  <2> QED  BY <2>1, <2>2, <2>3, <2>4, <2>5 DEF ReadInv
<1> QED  BY <1>1, <1>1a, <1>2, <1>3, <1>4, <1>5, <1>5a, <1>6 DEF Read

-----------------------------------------------------------------------------
LEMMA NextIInv == IInv /\ [Next]_vars => IInv'
<1> SUFFICES ASSUME IInv, [Next]_vars PROVE IInv'
  OBVIOUS
<1>1. ASSUME NEW t \in Writer, Write(t) PROVE IInv'  BY <1>1, WriterStep
<1>2. ASSUME NEW t \in Reader, Read(t) PROVE IInv'  BY <1>2, ReaderStep
<1>3. CASE UNCHANGED vars
  BY <1>3 DEF vars, IInv, TypeOK, MutexInv, UnlockMatchesLock, PageInv, ReadInv, ReadInvOf, Scanned, AtInv
<1> QED  BY <1>1, <1>2, <1>3 DEF Next, Ended

THEOREM Invariance == Spec => []IInv
<1> QED  BY InitIInv, NextIInv, PTL DEF Spec

(* Every field keeps its type; tries_ never passes MAX_OPTIMISTIC_TRIES.   *)
THEOREM Typing == Spec => []TypeOK
<1>1. IInv => TypeOK  BY DEF IInv
<1> QED  BY <1>1, Invariance, PTL

(* A writer of the page is alone with it, whatever the number of threads   *)
(* (AdaptiveVersionLock::WriteLock against ReadLock).                      *)
THEOREM MutualExclusion == Spec => []WriterAlone
<1>1. IInv => WriterAlone
  BY LockAssumption DEF IInv, MutexInv, UnlockMatchesLock, WriterAlone, TypeOK
<1> QED  BY <1>1, Invariance, PTL

(* Unlock<Optimistic> releases the shared lock if and only if its thread   *)
(* holds it, for every MAX_OPTIMISTIC_TRIES.                               *)
THEOREM BalancedUnlock == Spec => []UnlockMatchesLock
<1>1. IInv => UnlockMatchesLock  BY DEF IInv, MutexInv
<1> QED  BY <1>1, Invariance, PTL

(* No reader accepts a page with words of two writes, in either way of     *)
(* reading (Lock<Optimistic> ... Unlock<Optimistic>).                      *)
THEOREM WholeReads == Spec => []NoTornRead
<1>1. IInv => NoTornRead  BY DEF IInv, ReadInv, ReadInvOf, NoTornRead
<1> QED  BY <1>1, Invariance, PTL

(* What Validate lets through is the page as of its version.               *)
THEOREM FreshReads == Spec => []FreshRead
<1>1. IInv => FreshRead  BY DEF IInv, ReadInv, ReadInvOf, FreshRead
<1> QED  BY <1>1, Invariance, PTL
=============================================================================
