---------------------------- MODULE HashDbProofs ----------------------------
(***************************************************************************)
(* For every number of threads, hashes and stores: the hash database is    *)
(* well formed, and calls a hash new at most once per MaxStoreCount        *)
(* stores.                                                                 *)
(*                                                                         *)
(* The difficulty is a call that is past the newest store.  It has already *)
(* inserted its hash there and reads older stores, one atomic step each,   *)
(* while other threads insert.  The inductive invariant says that no other *)
(* call is in that situation with the same hash (Exclusive), and that what *)
(* would make the answer "repeated" lies in a store still to be read       *)
(* (Undecided).                                                            *)
(***************************************************************************)
EXTENDS HashDb, WellFoundedInduction, TLAPS

\* The call of t has inserted its hash and is reading the older stores.
Searching(t) == pc[t] = "checking" /\ position[t] > 0

\* Stores are discarded only when all MaxStoreCount are in use.
WindowFull == oldest = 0 \/ oldest + MaxStoreCount <= newest + 1

\* A hash called new in a store that is still kept has not been forgotten since.
Remembered ==
    \A h \in Hashes :
        /\ novelAt[h] \in Nat \union {Never}
        /\ novelAt[h] <= newest
        /\ novelAt[h] >= oldest => \E i \in novelAt[h] .. newest : h \in hashSet[i]

Exclusive ==
    \A t, u \in Threads : t # u /\ Searching(t) /\ Searching(u) => hash[t] # hash[u]

Undecided ==
    \A t \in Threads : Searching(t) =>
        /\ position[t] <= newest - oldest
        /\ hash[t] \in hashSet[newest]
        /\ novelAt[hash[t]] >= oldest =>
              \E i \in oldest .. newest - position[t] : hash[t] \in hashSet[i]

IInv == TypeOK /\ WindowFull /\ Remembered /\ Exclusive /\ Undecided
-----------------------------------------------------------------------------
\* The invariant holds initially ...
LEMMA InitInv == Init => IInv
  <1> SUFFICES ASSUME Init PROVE IInv
    OBVIOUS
  <1> USE HashDbAssumption
  <1>1. PICK first \in Hashes : /\ hash = [t \in Threads |-> first]
                                /\ hashSet = [i \in {0} |-> {first}]
                                /\ novelAt = [h \in Hashes |-> IF h = first THEN 0 ELSE Never]
    BY DEF Init
  <1>2. StoreIds = {0}
    BY DEF Init, StoreIds
  <1>3. TypeOK
    BY <1>1, <1>2 DEF Init, TypeOK, Never
  <1>4. Remembered
    BY <1>1 DEF Init, Remembered, Never
  <1>5. \A t \in Threads : ~Searching(t)
    BY DEF Init, Searching
  <1> QED
    BY <1>3, <1>4, <1>5 DEF IInv, WindowFull, Exclusive, Undecided, Init

\* ... and is preserved by every step: by one that changes nothing,
LEMMA StutterInv == IInv /\ UNCHANGED vars => IInv'
  BY DEF IInv, vars, TypeOK, StoreIds, WindowFull, Remembered, Exclusive, Undecided, Searching

\* by a call,
LEMMA CallInv ==
  ASSUME IInv, NEW t \in Threads, NEW h \in Hashes, Call(t, h)
  PROVE  IInv'
  <1> USE HashDbAssumption DEF IInv, Call, deque
  <1>1. TypeOK'
    BY DEF TypeOK, StoreIds
  <1>2. WindowFull' /\ Remembered'
    BY DEF WindowFull, Remembered
  <1>3. \A u \in Threads : Searching(u)' => u # t /\ Searching(u) /\ hash'[u] = hash[u]
                                              /\ position'[u] = position[u]
    BY DEF Searching, TypeOK
  <1>4. Exclusive'
    BY <1>3 DEF Exclusive
  <1>5. Undecided'
    BY <1>3 DEF Undecided
  <1> QED
    BY <1>1, <1>2, <1>4, <1>5

\* by a probe of an older store, which ends the call or moves it on,
LEMMA ProbeOlderInv ==
  ASSUME IInv, NEW t \in Threads, ProbeOlder(t)
  PROVE  IInv'
  <1> USE HashDbAssumption DEF IInv, ProbeOlder, deque
  <1>0. /\ position[t] \in 1 .. newest - oldest
        /\ hash[t] \in Hashes /\ newest \in Nat /\ oldest \in Nat
        /\ StoreAt(position[t]) \in oldest .. newest
        /\ Searching(t)
    BY DEF TypeOK, Undecided, Searching, StoreAt
  <1>1. CASE hash[t] \in hashSet[StoreAt(position[t])]
    <2>1. ReturnRepeated(t)
      BY <1>1
    <2>2. TypeOK'
      BY <2>1 DEF TypeOK, StoreIds, ReturnRepeated
    <2>3. WindowFull' /\ Remembered'
      BY <2>1 DEF WindowFull, Remembered, ReturnRepeated
    <2>4. \A u \in Threads : Searching(u)' => u # t /\ Searching(u)
      BY <2>1 DEF Searching, TypeOK, ReturnRepeated
    <2>5. Exclusive'
      BY <2>4 DEF Exclusive
    <2>6. Undecided'
      BY <2>1, <2>4 DEF Undecided, ReturnRepeated
    <2> QED
      BY <2>2, <2>3, <2>5, <2>6
  <1>2. CASE hash[t] \notin hashSet[StoreAt(position[t])] /\ StoreAt(position[t]) > oldest
    <2>1. position' = [position EXCEPT ![t] = @ + 1] /\ UNCHANGED <<pc, novelAt>>
      BY <1>2 DEF MoveOn
    <2>2. position[t] + 1 <= newest - oldest
      BY <1>0, <1>2 DEF StoreAt
    <2>3. TypeOK'
      BY <2>1, <2>2 DEF TypeOK, StoreIds
    <2>4. WindowFull' /\ Remembered'
      BY <2>1 DEF WindowFull, Remembered
    <2>5. \A u \in Threads : Searching(u)' => Searching(u)
      BY <1>0, <2>1 DEF Searching, TypeOK
    <2>6. Exclusive'
      BY <2>5 DEF Exclusive
    <2>7. Undecided'
      <3> SUFFICES ASSUME NEW u \in Threads, Searching(u)'
                   PROVE  /\ position'[u] <= newest - oldest
                          /\ hash[u] \in hashSet[newest]
                          /\ novelAt[hash[u]] >= oldest =>
                               \E i \in oldest .. newest - position'[u] : hash[u] \in hashSet[i]
        BY <2>1 DEF Undecided
      <3>1. CASE u # t
        BY <3>1, <2>1, <2>5 DEF Undecided, TypeOK
      <3>2. CASE u = t
        <4>1. position'[t] = position[t] + 1
          BY <2>1 DEF TypeOK
        <4>2. hash[t] \in hashSet[newest]
          BY <1>0 DEF Undecided
        <4>3. ASSUME novelAt[hash[t]] >= oldest
              PROVE  \E i \in oldest .. newest - (position[t] + 1) : hash[t] \in hashSet[i]
          <5>1. PICK i \in oldest .. newest - position[t] : hash[t] \in hashSet[i]
            BY <1>0, <4>3 DEF Undecided
          <5>2. i # newest - position[t]
            BY <5>1, <1>2 DEF StoreAt
          <5>3. i \in oldest .. newest - (position[t] + 1)
            BY <5>1, <5>2, <1>0
          <5> QED
            BY <5>1, <5>3
        <4> QED
          BY <3>2, <4>1, <4>2, <4>3, <2>2
      <3> QED
        BY <3>1, <3>2
    <2> QED
      BY <2>3, <2>4, <2>6, <2>7
  <1>3. CASE hash[t] \notin hashSet[StoreAt(position[t])] /\ ~(StoreAt(position[t]) > oldest)
    <2>1. /\ pc' = [pc EXCEPT ![t] = "novel"]
          /\ novelAt' = [novelAt EXCEPT ![hash[t]] = newest]
          /\ UNCHANGED position
      BY <1>3 DEF MoveOn
    <2>2. TypeOK'
      BY <2>1, <1>0 DEF TypeOK, StoreIds
    <2>3. WindowFull'
      BY <2>1 DEF WindowFull
    <2>4. Remembered'
      <3>1. hash[t] \in hashSet[newest]
        BY <1>0 DEF Undecided
      <3>2. newest \in newest .. newest
        BY <1>0
      <3> QED
        BY <2>1, <3>1, <3>2, <1>0 DEF Remembered, TypeOK
    <2>5. \A u \in Threads : Searching(u)' => u # t /\ Searching(u)
      BY <2>1 DEF Searching, TypeOK
    <2>6. Exclusive'
      BY <2>5 DEF Exclusive
    <2>7. \A u \in Threads : Searching(u)' => novelAt'[hash[u]] = novelAt[hash[u]]
      BY <2>1, <2>5, <1>0 DEF Exclusive, TypeOK
    <2>8. Undecided'
      BY <2>1, <2>5, <2>7 DEF Undecided
    <2> QED
      BY <2>2, <2>3, <2>4, <2>6, <2>8
  <1> QED
    BY <1>1, <1>2, <1>3

\* by a probe of the newest store, which inserts the hash,
LEMMA ProbeNewestInv ==
  ASSUME IInv, NEW t \in Threads, ProbeNewest(t)
  PROVE  IInv'
  <1> USE HashDbAssumption DEF IInv, ProbeNewest
  <1>0. /\ hash[t] \in Hashes /\ newest \in Nat /\ oldest \in Nat
        /\ oldest <= newest /\ newest - oldest < MaxStoreCount
        /\ newest \in StoreIds /\ StoreAt(position[t]) = newest
        /\ UNCHANGED <<oldest, newest, age, hash>>
        /\ hashSet' \in [StoreIds -> SUBSET Hashes]
        /\ \A i \in StoreIds : hashSet[i] \subseteq hashSet'[i]
        /\ hash[t] \in hashSet'[newest]
        /\ \A i \in StoreIds, h \in Hashes :
              h \in hashSet'[i] => h \in hashSet[i] \/ (h = hash[t] /\ i = newest)
    BY DEF TypeOK, StoreIds, StoreAt
  <1>1. ASSUME NEW h \in Hashes, novelAt[h] >= oldest
        PROVE  \E i \in novelAt[h] .. newest : h \in hashSet[i] /\ h \in hashSet'[i]
    <2>1. PICK i \in novelAt[h] .. newest : h \in hashSet[i]
      BY <1>1 DEF Remembered
    <2>2. i \in StoreIds
      BY <1>0, <1>1, <2>1 DEF StoreIds, TypeOK
    <2> QED
      BY <1>0, <2>1, <2>2
  <1>2. ASSUME NEW u \in Threads, u # t, Searching(u),
               position'[u] = position[u], novelAt'[hash[u]] = novelAt[hash[u]]
        PROVE  /\ position'[u] <= newest' - oldest'
               /\ hash'[u] \in hashSet'[newest']
               /\ novelAt'[hash'[u]] >= oldest' =>
                     \E i \in oldest' .. newest' - position'[u] : hash'[u] \in hashSet'[i]
    <2>1. \A i \in oldest .. newest - position[u] : i \in StoreIds
      BY <1>0, <1>2 DEF Searching, StoreIds, TypeOK
    <2> QED
      BY <1>0, <1>2, <2>1 DEF Undecided
  <1>3. CASE hash[t] \in hashSet[newest]
    <2>1. ReturnRepeated(t)
      BY <1>3
    <2>2. TypeOK'
      BY <1>0, <2>1 DEF TypeOK, StoreIds, ReturnRepeated
    <2>3. WindowFull' /\ Remembered'
      BY <1>0, <1>1, <2>1 DEF WindowFull, Remembered, ReturnRepeated
    <2>4. \A u \in Threads : Searching(u)' => u # t /\ Searching(u)
      BY <2>1 DEF Searching, TypeOK, ReturnRepeated
    <2>5. Exclusive'
      BY <1>0, <2>4 DEF Exclusive
    <2>6. Undecided'
      BY <1>2, <2>1, <2>4 DEF Undecided, ReturnRepeated
    <2> QED
      BY <2>2, <2>3, <2>5, <2>6
  <1>4. CASE hash[t] \notin hashSet[newest]
    <2>1. MoveOn(t)
      BY <1>4
    <2>2. \A u \in Threads : Searching(u) => u # t /\ hash[u] # hash[t]
      BY <1>4 DEF Undecided, Searching
    <2>3. CASE StoreAt(position[t]) > oldest
      <3>1. position' = [position EXCEPT ![t] = 1] /\ UNCHANGED <<pc, novelAt>>
        BY <2>1, <2>3 DEF MoveOn
      <3>2. newest - oldest >= 1
        BY <1>0, <2>3
      <3>3. TypeOK'
        BY <1>0, <3>1, <3>2 DEF TypeOK, StoreIds
      <3>4. WindowFull' /\ Remembered'
        BY <1>0, <1>1, <3>1 DEF WindowFull, Remembered
      <3>5. \A u \in Threads : Searching(u)' /\ u # t => Searching(u) /\ position'[u] = position[u]
        BY <3>1 DEF Searching, TypeOK
      <3>6. Exclusive'
        BY <1>0, <2>2, <3>5 DEF Exclusive
      <3>7. novelAt[hash[t]] >= oldest =>
               \E i \in oldest .. newest - 1 : hash[t] \in hashSet'[i]
        <4> SUFFICES ASSUME novelAt[hash[t]] >= oldest
                     PROVE  \E i \in oldest .. newest - 1 : hash[t] \in hashSet'[i]
          OBVIOUS
        <4>1. PICK i \in novelAt[hash[t]] .. newest :
                 hash[t] \in hashSet[i] /\ hash[t] \in hashSet'[i]
          BY <1>0, <1>1
        <4>2. i # newest
          BY <1>4, <4>1
        <4>3. i \in oldest .. newest - 1
          BY <1>0, <4>1, <4>2 DEF TypeOK
        <4> QED
          BY <4>1, <4>3
      <3>8. Undecided'
        <4> SUFFICES ASSUME NEW u \in Threads, Searching(u)'
                     PROVE  /\ position'[u] <= newest' - oldest'
                            /\ hash'[u] \in hashSet'[newest']
                            /\ novelAt'[hash'[u]] >= oldest' =>
                                 \E i \in oldest' .. newest' - position'[u] : hash'[u] \in hashSet'[i]
          BY DEF Undecided
        <4>1. CASE u # t
          BY <1>2, <3>1, <3>5, <4>1
        <4>2. CASE u = t
          BY <1>0, <3>1, <3>2, <3>7, <4>2 DEF TypeOK
        <4> QED
          BY <4>1, <4>2
      <3> QED
        BY <3>3, <3>4, <3>6, <3>8
    <2>4. CASE ~(StoreAt(position[t]) > oldest)
      <3>1. /\ pc' = [pc EXCEPT ![t] = "novel"]
            /\ novelAt' = [novelAt EXCEPT ![hash[t]] = newest]
            /\ UNCHANGED position
        BY <2>1, <2>4 DEF MoveOn
      <3>2. TypeOK'
        BY <1>0, <3>1 DEF TypeOK, StoreIds
      <3>3. WindowFull'
        BY <1>0 DEF WindowFull
      <3>4. Remembered'
        <4>1. newest \in newest .. newest
          BY <1>0
        <4> QED
          BY <1>0, <1>1, <3>1, <4>1 DEF Remembered, TypeOK
      <3>5. \A u \in Threads : Searching(u)' =>
               u # t /\ Searching(u) /\ novelAt'[hash[u]] = novelAt[hash[u]]
        BY <1>0, <2>2, <3>1 DEF Searching, TypeOK
      <3>6. Exclusive'
        BY <1>0, <3>5 DEF Exclusive
      <3>7. Undecided'
        BY <1>2, <3>1, <3>5 DEF Undecided
      <3> QED
        BY <3>2, <3>3, <3>4, <3>6, <3>7
    <2> QED
      BY <2>3, <2>4
  <1> QED
    BY <1>3, <1>4

\* and at the barrier, where no call is searching and a store may be discarded.
LEMMA AdvanceStepInv ==
  ASSUME IInv, AdvanceStep
  PROVE  IInv'
  <1> USE HashDbAssumption DEF IInv, AdvanceStep
  <1>1. \A t \in Threads : ~Searching(t)'
    BY DEF Searching
  <1>2. Exclusive' /\ Undecided'
    BY <1>1 DEF Exclusive, Undecided
  <1>3. CASE Cardinality(hashSet[newest]) > MaxStoreEntries
    <2>1. /\ oldest' \in {oldest, oldest + 1}
          /\ newest' = newest + 1
          /\ oldest' = oldest => newest - oldest + 1 # MaxStoreCount
          /\ oldest' # oldest => newest - oldest + 1 = MaxStoreCount
      BY <1>3 DEF OldestKept, TypeOK
    <2>2. hashSet' = [i \in oldest' .. newest' |-> IF i = newest' THEN {} ELSE hashSet[i]]
      BY <1>3
    <2>3. oldest' .. newest' \subseteq StoreIds \union {newest'}
      BY <2>1 DEF TypeOK, StoreIds
    <2>4. /\ oldest' \in Nat /\ newest' \in Nat /\ oldest' <= newest'
          /\ newest' - oldest' < MaxStoreCount
          /\ oldest' = 0 \/ oldest' + MaxStoreCount <= newest' + 1
      <3> HIDE DEF IInv, AdvanceStep
      <3>1. /\ oldest \in Nat /\ newest \in Nat /\ oldest <= newest
            /\ newest - oldest < MaxStoreCount
            /\ oldest = 0 \/ oldest + MaxStoreCount <= newest + 1
        BY DEF IInv, TypeOK, WindowFull
      <3>2. CASE oldest' = oldest
        BY <2>1, <3>1, <3>2
      <3>3. CASE oldest' # oldest
        <4>1. oldest' = oldest + 1 /\ newest' = newest + 1
          BY <2>1, <3>3
        <4>2. newest - oldest + 1 = MaxStoreCount
          BY <2>1, <3>3
        <4> QED
          BY <3>1, <4>1, <4>2
      <3> QED
        BY <3>2, <3>3
    <2>5. TypeOK'
      <3>1. hashSet' \in [StoreIds' -> SUBSET Hashes]
        BY <2>2, <2>3 DEF TypeOK, StoreIds
      <3>2. /\ age' \in 0 .. MaxAge
            /\ pc' \in [Threads -> {"idle", "checking", "repeated", "novel"}]
            /\ hash' \in [Threads -> Hashes]
            /\ position' \in [Threads -> 0 .. MaxStoreCount - 1]
            /\ novelAt' \in [Hashes -> Int]
        BY DEF TypeOK
      <3> QED
        BY <2>4, <3>1, <3>2 DEF TypeOK
    <2>6. Remembered'
      <3> SUFFICES ASSUME NEW h \in Hashes
                   PROVE  /\ novelAt[h] <= newest'
                          /\ novelAt[h] >= oldest' =>
                               \E i \in novelAt[h] .. newest' : h \in hashSet'[i]
        BY DEF Remembered
      <3>1. novelAt[h] \in Int /\ novelAt[h] <= newest /\ newest \in Nat /\ oldest \in Nat
        BY DEF Remembered, TypeOK
      <3>2. ASSUME novelAt[h] >= oldest'
            PROVE  \E i \in novelAt[h] .. newest' : h \in hashSet'[i]
        <4>1. PICK i \in novelAt[h] .. newest : h \in hashSet[i]
          BY <2>1, <3>1, <3>2 DEF Remembered
        <4>2. i \in oldest' .. newest' /\ i # newest' /\ i \in novelAt[h] .. newest'
          BY <2>1, <3>1, <3>2, <4>1
        <4> QED
          BY <2>2, <4>1, <4>2
      <3> QED
        BY <2>1, <3>1, <3>2
    <2> QED
      BY <1>2, <2>4, <2>5, <2>6 DEF WindowFull
  <1>4. CASE ~(Cardinality(hashSet[newest]) > MaxStoreEntries)
    <2>1. UNCHANGED <<oldest, newest, hashSet, hash, novelAt>>
      BY <1>4
    <2>2. TypeOK'
      BY <2>1 DEF TypeOK, StoreIds
    <2>3. WindowFull' /\ Remembered'
      BY <2>1 DEF WindowFull, Remembered
    <2> QED
      BY <1>2, <2>2, <2>3
  <1> QED
    BY <1>3, <1>4

LEMMA NextInv == IInv /\ [Next]_vars => IInv'
  BY StutterInv, CallInv, ProbeNewestInv, ProbeOlderInv, AdvanceStepInv DEF Next
-----------------------------------------------------------------------------
\* The inductive invariant, and with it the type invariant, for every value of the
\* constants.
THEOREM Invariance == Spec => []IInv
  BY InitInv, NextInv, PTL DEF Spec

\* The deque never holds more than MaxStoreCount stores, so every position a lookup
\* reaches has its counters (hashDb.hpp:47-51, 98), and only stores exist that the
\* ids of the deque name.
THEOREM TypeCorrect == Spec => []TypeOK
  BY Invariance, PTL DEF IInv

\* A call that returns "new" has just read the oldest store and not found its hash.
LEMMA NovelEnds ==
  ASSUME IInv, Next, NEW t \in Threads, pc[t] = "checking", pc'[t] = "novel"
  PROVE  /\ StoreAt(position[t]) = oldest
         /\ hash[t] \notin hashSet[oldest]
         /\ position[t] = 0 \/ Searching(t)
  <1> USE HashDbAssumption DEF IInv
  <1>0. /\ oldest \in Nat /\ newest \in Nat /\ oldest <= newest
        /\ position[t] \in Nat /\ pc \in [Threads -> {"idle", "checking", "repeated", "novel"}]
        /\ Searching(t) => StoreAt(position[t]) >= oldest
    BY DEF TypeOK, Undecided, StoreAt
  <1>1. ASSUME NEW u \in Threads, NEW h \in Hashes, Call(u, h)
        PROVE  FALSE
    BY <1>0, <1>1 DEF Call
  <1>2. ASSUME NEW u \in Threads, u # t, ProbeNewest(u) \/ ProbeOlder(u)
        PROVE  FALSE
    BY <1>0, <1>2 DEF ProbeNewest, ProbeOlder, ReturnRepeated, MoveOn
  <1>3. CASE AdvanceStep
    BY <1>3 DEF AdvanceStep
  <1>4. CASE ProbeNewest(t)
    BY <1>0, <1>4 DEF ProbeNewest, ReturnRepeated, MoveOn, StoreAt
  <1>5. CASE ProbeOlder(t)
    <2>1. MoveOn(t) /\ hash[t] \notin hashSet[StoreAt(position[t])] /\ Searching(t)
      BY <1>0, <1>5 DEF ProbeOlder, ReturnRepeated, Searching
    <2>2. ~(StoreAt(position[t]) > oldest)
      BY <1>0, <2>1 DEF MoveOn
    <2>3. StoreAt(position[t]) = oldest
      BY <1>0, <2>1, <2>2 DEF StoreAt
    <2> QED
      BY <2>1, <2>3
  <1> QED
    BY <1>1, <1>2, <1>3, <1>4, <1>5 DEF Next

\* However the calls interleave, of those that check one hash at most one is told
\* that it is new until MaxStoreCount stores later (hashDb.hpp:88-126): if the hash
\* had been called new in a store still kept, the invariant would have left it in a
\* store that the second call reads.
THEOREM NovelAtMostOnce == Spec => NovelOnce
  <1>1. ASSUME IInv, Next, NEW t \in Threads, pc[t] = "checking", pc'[t] = "novel"
        PROVE  newest - novelAt[hash[t]] >= MaxStoreCount
    <2> USE HashDbAssumption
    <2>1. /\ StoreAt(position[t]) = oldest
          /\ hash[t] \notin hashSet[oldest]
          /\ position[t] = 0 \/ Searching(t)
      BY <1>1, NovelEnds
    <2>2. /\ oldest \in Nat /\ newest \in Nat /\ hash[t] \in Hashes
          /\ position[t] \in Nat /\ novelAt[hash[t]] \in Int
          /\ oldest = 0 \/ oldest + MaxStoreCount <= newest + 1
          /\ newest - oldest < MaxStoreCount
          /\ novelAt[hash[t]] \in Nat \union {Never}
      BY <1>1 DEF IInv, TypeOK, WindowFull, Remembered
    <2>3. newest - position[t] = oldest
      BY <2>1, <2>2 DEF StoreAt
    <2>4. ~(novelAt[hash[t]] >= oldest)
      <3> SUFFICES ASSUME novelAt[hash[t]] >= oldest
                   PROVE  \E i \in oldest .. oldest : hash[t] \in hashSet[i]
        BY <2>1, <2>2
      <3>1. CASE position[t] = 0
        <4>1. PICK i \in novelAt[hash[t]] .. newest : hash[t] \in hashSet[i]
          BY <1>1, <2>2 DEF IInv, Remembered
        <4> QED
          BY <2>2, <2>3, <3>1, <4>1
      <3>2. CASE Searching(t)
        BY <1>1, <2>2, <2>3, <3>2 DEF IInv, Undecided
      <3> QED
        BY <2>1, <3>1, <3>2
    <2>5. CASE novelAt[hash[t]] = Never
      BY <2>2, <2>5 DEF Never
    <2>6. CASE novelAt[hash[t]] \in Nat
      BY <2>2, <2>4, <2>6
    <2> QED
      BY <2>2, <2>5, <2>6
  <1>2. IInv /\ [Next]_vars =>
          [\A t \in Threads : pc[t] = "checking" /\ pc'[t] = "novel"
                                 => newest - novelAt[hash[t]] >= MaxStoreCount]_vars
    BY <1>1
  <1> QED
    BY <1>2, Invariance, PTL DEF Spec, NovelOnce
-----------------------------------------------------------------------------
(* The refinement of SeenWindow.                                           *)

\* A set of natural numbers has a least element.
LEMMA LeastElement ==
  ASSUME NEW T, T \subseteq Nat, T # {}
  PROVE  \E x \in T : \A y \in T : x <= y
  <1> DEFINE Less == {ss \in Nat \X Nat : ss[1] < ss[2]}
  <1>1. IsWellFoundedOn(Less, Nat)
    BY NatLessThanWellFounded DEF OpToRel
  <1>2. PICK x \in T : \A y \in T : ~(<<y, x>> \in Less)
    <2> HIDE DEF Less
    <2> QED
      BY <1>1, WFMin
  <1>3. ASSUME NEW y \in T, y < x
        PROVE  FALSE
    <2>1. <<y, x>> \in Nat \X Nat /\ <<y, x>>[1] < <<y, x>>[2]
      BY <1>3
    <2>2. <<y, x>> \in Less
      BY <2>1
    <2> QED
      BY <2>2, <1>2
  <1> QED
    BY <1>3

\* Max, for the integers of an interval.
LEMMA MaxOfInterval ==
  ASSUME NEW lo \in Int, NEW hi \in Int, NEW S, S \subseteq lo .. hi, S # {}
  PROVE  Max(S) \in S /\ \A y \in S : Max(S) >= y
  <1> DEFINE T == {hi - i : i \in S}
  <1>1. T \subseteq Nat /\ T # {}
    OBVIOUS
  <1>2. PICK d \in T : \A e \in T : d <= e
    <2> HIDE DEF T
    <2> QED
      BY <1>1, LeastElement
  <1>3. PICK i \in S : d = hi - i
    BY <1>2
  <1>4. ASSUME NEW j \in S
        PROVE  i >= j
    <2>1. hi - i <= hi - j
      BY <1>2, <1>3
    <2> QED
      BY <2>1
  <1> QED
    BY <1>3, <1>4 DEF Max

\* LastSeen as a function of the deque.
LastId(lo, hi, sets, h) ==
    LET ids == {i \in lo .. hi : h \in sets[i]}
    IN  IF ids = {} THEN -1 ELSE Max(ids)

LEMMA LastIdIs ==
  ASSUME NEW lo \in Nat, NEW hi \in Nat, NEW sets, NEW h
  PROVE  /\ LastId(lo, hi, sets, h) \in Int
         /\ (\A i \in lo .. hi : h \notin sets[i]) => LastId(lo, hi, sets, h) = -1
         /\ LastId(lo, hi, sets, h) = -1 => \A i \in lo .. hi : h \notin sets[i]
         /\ LastId(lo, hi, sets, h) # -1 => /\ LastId(lo, hi, sets, h) \in lo .. hi
                                            /\ h \in sets[LastId(lo, hi, sets, h)]
         /\ \A i \in lo .. hi :
               h \in sets[i] /\ (\A j \in lo .. hi : h \in sets[j] => j <= i)
                  => LastId(lo, hi, sets, h) = i
         /\ \A i \in lo .. hi : h \in sets[i] => i <= LastId(lo, hi, sets, h)
  <1> DEFINE ids == {i \in lo .. hi : h \in sets[i]}
             last == LastId(lo, hi, sets, h)
  <1>1. ids = {} => last = -1
    BY DEF LastId
  <1>2. ids # {} => last = Max(ids)
    BY DEF LastId
  <1>3. ids # {} => Max(ids) \in ids /\ \A j \in ids : Max(ids) >= j
    BY MaxOfInterval
  <1>4. last \in Int
    BY <1>1, <1>2, <1>3
  <1>5. last = -1 <=> ids = {}
    BY <1>1, <1>2, <1>3
  <1>6. ASSUME NEW i \in lo .. hi, h \in sets[i], \A j \in lo .. hi : h \in sets[j] => j <= i
        PROVE  last = i
    <2>1. i \in ids
      BY <1>6
    <2>2. last \in ids /\ last >= i
      BY <2>1, <1>2, <1>3
    <2>3. last <= i
      BY <2>2, <1>6
    <2> QED
      BY <2>2, <2>3
  <1>7. \A i \in lo .. hi : h \in sets[i] => i <= last
    BY <1>2, <1>3
  <1>8. last # -1 => last \in lo .. hi /\ h \in sets[last]
    BY <1>1, <1>2, <1>3
  <1> QED
    BY <1>4, <1>5, <1>6, <1>7, <1>8

LEMMA LastSeenIsLastId ==
  /\ \A h \in Hashes : LastSeen(h) = LastId(oldest, newest, hashSet, h)
  /\ \A h \in Hashes : LastSeen(h)' = LastId(oldest', newest', hashSet', h)
  BY DEF LastSeen, LastId, IdsHolding, StoreIds

\* The refinement mapping, as functions.
lastSeenBar == [h \in Hashes |-> LastSeen(h)]
answerBar == [t \in Threads |-> Answer(t)]

LEMMA InitRefines == Init => Window!Init
  <1> SUFFICES ASSUME Init PROVE Window!Init
    OBVIOUS
  <1>1. PICK first \in Hashes : /\ hash = [t \in Threads |-> first]
                                /\ hashSet = [i \in {0} |-> {first}]
    BY DEF Init
  <1>2. oldest = 0 /\ newest = 0 /\ \A t \in Threads : pc[t] = "idle"
    BY DEF Init
  <1>3. \A h \in Hashes : LastSeen(h) = IF h = first THEN 0 ELSE -1
    <2> TAKE h \in Hashes
    <2>1. LastSeen(h) = LastId(0, 0, hashSet, h)
      BY <1>2, LastSeenIsLastId
    <2>2. \A i \in 0 .. 0 : h \in hashSet[i] <=> h = first
      BY <1>1
    <2> QED
      BY <2>1, <2>2, LastIdIs
  <1>4. lastSeenBar = [h \in Hashes |-> IF h = first THEN 0 ELSE -1]
    BY <1>3 DEF lastSeenBar
  <1>5. answerBar = [t \in Threads |-> "idle"]
    BY <1>2 DEF answerBar, Answer
  <1> QED
    BY <1>1, <1>2, <1>4, <1>5 DEF Window!Init, Window!Forgotten, lastSeenBar, answerBar

\* A step that changes no store and none of the other calls leaves their answers.
LEMMA AnswersKept ==
  ASSUME IInv, NEW t \in Threads,
         UNCHANGED <<oldest, newest>>,
         \A i \in oldest .. newest - 1 : hashSet'[i] = hashSet[i],
         \A u \in Threads : u # t => /\ pc'[u] = pc[u] /\ hash'[u] = hash[u]
                                     /\ position'[u] = position[u]
  PROVE  \A u \in Threads : u # t => Answer(u)' = Answer(u)
  <1> SUFFICES ASSUME NEW u \in Threads, u # t
               PROVE  Answer(u)' = Answer(u)
    OBVIOUS
  <1>1. CASE ~Searching(u)
    BY <1>1 DEF Answer, Searching, IInv, TypeOK
  <1>2. CASE Searching(u)
    <2>1. /\ oldest \in Nat /\ newest \in Nat /\ position[u] \in 1 .. newest
      BY <1>2 DEF IInv, TypeOK, Undecided, Searching
    <2>2. oldest .. StoreAt(position[u]) \subseteq oldest .. newest - 1
      BY <2>1 DEF StoreAt
    <2>3. StoreAt(position[u])' = StoreAt(position[u])
      BY DEF StoreAt
    <2>4. WillCollide(u)' = WillCollide(u)
      BY <2>2, <2>3 DEF WillCollide
    <2> QED
      BY <1>2, <2>4 DEF Answer, Searching
  <1> QED
    BY <1>1, <1>2

LEMMA CallRefines ==
  ASSUME IInv, NEW t \in Threads, NEW h \in Hashes, Call(t, h)
  PROVE  Window!Ask(t, h)
  <1>1. UNCHANGED <<oldest, newest, hashSet>>
    BY DEF Call, deque
  <1>2. \A u \in Threads : u # t => /\ pc'[u] = pc[u] /\ hash'[u] = hash[u]
                                    /\ position'[u] = position[u]
    BY DEF Call, IInv, TypeOK
  <1>3. \A u \in Threads : u # t => Answer(u)' = Answer(u)
    BY <1>1, <1>2, AnswersKept
  <1>4. Answer(t)' = "pending"
    BY DEF Call, Answer, IInv, TypeOK
  <1>5. Answer(t) # "pending"
    BY DEF Call, Answer, IInv, TypeOK
  <1>6. answerBar' = [answerBar EXCEPT ![t] = "pending"]
    BY <1>3, <1>4 DEF answerBar
  <1>7. lastSeenBar' = lastSeenBar
    BY <1>1 DEF lastSeenBar, LastSeen, IdsHolding, StoreIds
  <1>8. hash' = [hash EXCEPT ![t] = h]
    BY DEF Call
  <1> QED
    BY <1>1, <1>5, <1>6, <1>7, <1>8 DEF Window!Ask, lastSeenBar, answerBar

LEMMA ProbeOlderRefines ==
  ASSUME IInv, NEW t \in Threads, ProbeOlder(t)
  PROVE  UNCHANGED Window!vars
  <1>0. /\ UNCHANGED <<oldest, newest, hashSet, hash>>
        /\ pc[t] = "checking" /\ Searching(t)
        /\ oldest \in Nat /\ newest \in Nat
        /\ position[t] \in 1 .. newest - oldest
    BY DEF ProbeOlder, deque, Searching, IInv, TypeOK, Undecided
  <1>1. \A u \in Threads : u # t => pc'[u] = pc[u] /\ hash'[u] = hash[u] /\ position'[u] = position[u]
    BY DEF ProbeOlder, ReturnRepeated, MoveOn, IInv, TypeOK
  <1>2. \A u \in Threads : u # t => Answer(u)' = Answer(u)
    BY <1>0, <1>1, AnswersKept
  <1>3. Answer(t)' = Answer(t)
    <2>1. CASE hash[t] \in hashSet[StoreAt(position[t])]
      <3>1. WillCollide(t)
        BY <1>0, <2>1 DEF WillCollide, StoreAt
      <3>2. pc'[t] = "repeated"
        BY <2>1 DEF ProbeOlder, ReturnRepeated, IInv, TypeOK
      <3> QED
        BY <1>0, <3>1, <3>2 DEF Answer, Searching
    <2>2. CASE hash[t] \notin hashSet[StoreAt(position[t])] /\ StoreAt(position[t]) > oldest
      <3>1. position'[t] = position[t] + 1 /\ pc'[t] = "checking"
        BY <1>0, <2>2 DEF ProbeOlder, MoveOn, IInv, TypeOK
      <3>2. WillCollide(t)' <=> \E i \in oldest .. newest - (position[t] + 1) : hash[t] \in hashSet[i]
        BY <1>0, <3>1 DEF WillCollide, StoreAt
      <3>3. \A i \in oldest .. newest - position[t] :
               i = newest - position[t] \/ i \in oldest .. newest - (position[t] + 1)
        BY <1>0
      <3>4. \A i \in oldest .. newest - (position[t] + 1) : i \in oldest .. newest - position[t]
        BY <1>0
      <3>5. WillCollide(t)' <=> WillCollide(t)
        BY <2>2, <3>2, <3>3, <3>4 DEF WillCollide, StoreAt
      <3> QED
        BY <1>0, <3>1, <3>5 DEF Answer, Searching
    <2>3. CASE hash[t] \notin hashSet[StoreAt(position[t])] /\ ~(StoreAt(position[t]) > oldest)
      <3>1. pc'[t] = "novel"
        BY <2>3 DEF ProbeOlder, MoveOn, IInv, TypeOK
      <3>2. StoreAt(position[t]) = oldest
        BY <1>0, <2>3 DEF StoreAt
      <3>3. ~WillCollide(t)
        BY <1>0, <2>3, <3>2 DEF WillCollide
      <3> QED
        BY <1>0, <3>1, <3>3 DEF Answer, Searching
    <2> QED
      BY <2>1, <2>2, <2>3
  <1>4. answerBar' = answerBar
    BY <1>2, <1>3 DEF answerBar
  <1>5. lastSeenBar' = lastSeenBar
    BY <1>0 DEF lastSeenBar, LastSeen, IdsHolding, StoreIds
  <1> QED
    BY <1>0, <1>4, <1>5 DEF Window!vars, lastSeenBar, answerBar

LEMMA ProbeNewestRefines ==
  ASSUME IInv, NEW t \in Threads, ProbeNewest(t)
  PROVE  Window!Reply(t)
  <1>0. /\ UNCHANGED <<oldest, newest, hash>>
        /\ pc[t] = "checking" /\ position[t] = 0 /\ ~Searching(t)
        /\ oldest \in Nat /\ newest \in Nat /\ oldest <= newest
        /\ hash[t] \in Hashes
        /\ newest \in oldest .. newest
        /\ StoreAt(position[t]) = newest
    BY DEF ProbeNewest, Searching, IInv, TypeOK, StoreAt
  <1>1. /\ \A i \in oldest .. newest - 1 : hashSet'[i] = hashSet[i]
        /\ hashSet'[newest] = hashSet[newest] \union {hash[t]}
    BY <1>0 DEF ProbeNewest, IInv, TypeOK, StoreIds
  <1>2. \A u \in Threads : u # t => pc'[u] = pc[u] /\ hash'[u] = hash[u] /\ position'[u] = position[u]
    BY DEF ProbeNewest, ReturnRepeated, MoveOn, IInv, TypeOK
  <1>3. \A u \in Threads : u # t => Answer(u)' = Answer(u)
    BY <1>0, <1>1, <1>2, AnswersKept
  <1>4. \A i \in oldest .. newest : i = newest \/ i \in oldest .. newest - 1
    BY <1>0
  <1>5. lastSeenBar' = [lastSeenBar EXCEPT ![hash[t]] = newest]
    <2>1. ASSUME NEW h \in Hashes, h = hash[t]
          PROVE  LastSeen(h)' = newest
      <3>1. LastSeen(h)' = LastId(oldest, newest, hashSet', h)
        BY <1>0, LastSeenIsLastId
      <3>2. h \in hashSet'[newest] /\ \A i \in oldest .. newest : i <= newest
        BY <1>0, <1>1, <2>1
      <3>3. LastId(oldest, newest, hashSet', h) = newest
        BY <1>0, <3>2, LastIdIs
      <3> QED
        BY <3>1, <3>3
    <2>2. ASSUME NEW h \in Hashes, h # hash[t]
          PROVE  LastSeen(h)' = LastSeen(h)
      <3>1. IdsHolding(h)' = IdsHolding(h)
        BY <1>0, <1>1, <1>4, <2>2 DEF IdsHolding, StoreIds
      <3> QED
        BY <3>1 DEF LastSeen
    <2>3. \A h \in Hashes : LastSeen(h)' = IF h = hash[t] THEN newest ELSE LastSeen(h)
      BY <2>1, <2>2
    <2> QED
      BY <2>3 DEF lastSeenBar
  <1>6. Answer(t) = "pending"
    BY <1>0 DEF Answer
  <1>7. lastSeenBar[hash[t]] = -1 <=> \A i \in oldest .. newest : hash[t] \notin hashSet[i]
    BY <1>0, LastSeenIsLastId, LastIdIs DEF lastSeenBar
  <1>8. Answer(t)' = IF lastSeenBar[hash[t]] = -1 THEN "novel" ELSE "repeated"
    <2>1. CASE hash[t] \in hashSet[newest]
      <3>1. pc'[t] = "repeated"
        BY <2>1 DEF ProbeNewest, ReturnRepeated, IInv, TypeOK
      <3>2. Answer(t)' = "repeated"
        BY <3>1 DEF Answer
      <3> QED
        BY <1>0, <1>7, <2>1, <3>2
    <2>2. CASE hash[t] \notin hashSet[newest] /\ newest > oldest
      <3>1. position'[t] = 1 /\ pc'[t] = "checking"
        BY <1>0, <2>2 DEF ProbeNewest, MoveOn, IInv, TypeOK
      <3>2. WillCollide(t)' <=> \E i \in oldest .. newest - 1 : hash[t] \in hashSet'[i]
        BY <1>0, <3>1 DEF WillCollide, StoreAt
      <3>3. \A i \in oldest .. newest - 1 : i \in oldest .. newest
        BY <1>0
      <3>4. WillCollide(t)' <=> lastSeenBar[hash[t]] # -1
        BY <1>1, <1>4, <1>7, <2>2, <3>2, <3>3
      <3>5. Answer(t)' = IF WillCollide(t)' THEN "repeated" ELSE "novel"
        BY <3>1 DEF Answer
      <3> QED
        BY <3>4, <3>5
    <2>3. CASE hash[t] \notin hashSet[newest] /\ ~(newest > oldest)
      <3>1. pc'[t] = "novel"
        BY <1>0, <2>3 DEF ProbeNewest, MoveOn, IInv, TypeOK
      <3>2. Answer(t)' = "novel"
        BY <3>1 DEF Answer
      <3>3. \A i \in oldest .. newest : i = newest
        BY <1>0, <2>3
      <3> QED
        BY <1>7, <2>3, <3>2, <3>3
    <2> QED
      BY <2>1, <2>2, <2>3
  <1>9. answerBar' = [answerBar EXCEPT ![t] =
            IF lastSeenBar[hash[t]] = -1 THEN "novel" ELSE "repeated"]
    BY <1>3, <1>8 DEF answerBar
  <1>10. answerBar[t] = "pending"
    BY <1>6 DEF answerBar
  <1> QED
    BY <1>0, <1>5, <1>9, <1>10 DEF Window!Reply, Window!Forgotten, lastSeenBar, answerBar

\* SeenWindow counts with the same operator.
LEMMA SameCardinality == \A S : Window!Cardinality(S) = Cardinality(S)
  BY DEF Cardinality, Window!Cardinality, IsFiniteSet, Window!IsFiniteSet

LEMMA AdvanceStepRefines ==
  ASSUME IInv, AdvanceStep
  PROVE  Window!EndStep
  <1> USE HashDbAssumption
  <1>0. /\ oldest \in Nat /\ newest \in Nat /\ oldest <= newest
        /\ newest - oldest < MaxStoreCount
        /\ oldest = 0 \/ oldest + MaxStoreCount <= newest + 1
        /\ newest \in oldest .. newest
        /\ hashSet[newest] \subseteq Hashes
    BY DEF IInv, TypeOK, WindowFull, StoreIds
  <1>1. \A t \in Threads : Answer(t) # "pending"
    BY DEF AdvanceStep, Answer, IInv, TypeOK
  <1>2. answerBar' = [t \in Threads |-> "idle"]
    <2>1. \A t \in Threads : pc'[t] = "idle"
      BY DEF AdvanceStep
    <2>2. \A t \in Threads : Answer(t)' = "idle"
      BY <2>1 DEF Answer
    <2> QED
      BY <2>2 DEF answerBar
  <1>3. {h \in Hashes : lastSeenBar[h] = newest} = hashSet[newest]
    <2>1. ASSUME NEW h \in Hashes
          PROVE  lastSeenBar[h] = newest <=> h \in hashSet[newest]
      <3>1. lastSeenBar[h] = LastId(oldest, newest, hashSet, h)
        BY LastSeenIsLastId DEF lastSeenBar
      <3>2. ASSUME h \in hashSet[newest]
            PROVE  LastId(oldest, newest, hashSet, h) = newest
        <4>1. \A i \in oldest .. newest : i <= newest
          BY <1>0
        <4> QED
          BY <1>0, <3>2, <4>1, LastIdIs
      <3>3. ASSUME LastId(oldest, newest, hashSet, h) = newest
            PROVE  h \in hashSet[newest]
        <4>1. newest # -1
          BY <1>0
        <4> QED
          BY <1>0, <3>3, <4>1, LastIdIs
      <3> QED
        BY <3>1, <3>2, <3>3
    <2> QED
      BY <1>0, <2>1
  <1>6. Window!Cardinality({h \in Hashes : lastSeenBar[h] = newest}) = Cardinality(hashSet[newest])
    BY <1>3, SameCardinality
  <1>4. CASE Cardinality(hashSet[newest]) > MaxStoreEntries
    <2>1. /\ newest' = newest + 1
          /\ oldest' = OldestKept
          /\ hashSet' = [i \in oldest' .. newest' |-> IF i = newest' THEN {} ELSE hashSet[i]]
      BY <1>4 DEF AdvanceStep
    <2>2. /\ oldest' \in Nat /\ newest' \in Nat
          /\ oldest <= oldest' /\ oldest' <= newest'
      BY <1>0, <2>1 DEF OldestKept
    <2>3. \A i \in oldest .. newest : i < oldest' <=> i + MaxStoreCount < newest + 2
      <3>1. CASE newest - oldest + 1 = MaxStoreCount
        <4>1. oldest' = oldest + 1
          BY <2>1, <3>1 DEF OldestKept
        <4> QED
          BY <1>0, <3>1, <4>1
      <3>2. CASE newest - oldest + 1 # MaxStoreCount
        <4>1. oldest' = oldest
          BY <2>1, <3>2 DEF OldestKept
        <4>2. oldest = 0 /\ newest + 1 < MaxStoreCount
          BY <1>0, <3>2
        <4> QED
          BY <1>0, <4>1, <4>2
      <3> QED
        BY <3>1, <3>2
    <2>4. ASSUME NEW h \in Hashes
          PROVE  LastSeen(h)' = IF lastSeenBar[h] + MaxStoreCount < newest + 2
                                THEN -1 ELSE lastSeenBar[h]
      <3> DEFINE last == LastId(oldest, newest, hashSet, h)
                 lastNext == LastId(oldest', newest', hashSet', h)
      <3>1. lastSeenBar[h] = last /\ LastSeen(h)' = lastNext
        BY LastSeenIsLastId DEF lastSeenBar
      <3>2. \A i \in oldest' .. newest' : h \in hashSet'[i] =>
               i \in oldest .. newest /\ h \in hashSet[i]
        BY <1>0, <2>1, <2>2
      <3>3. \A i \in oldest .. newest : i >= oldest' =>
               i \in oldest' .. newest' /\ hashSet'[i] = hashSet[i]
        BY <1>0, <2>1, <2>2
      <3>4. CASE last = -1
        <4>1. \A i \in oldest .. newest : h \notin hashSet[i]
          BY <1>0, <3>4, LastIdIs
        <4>2. \A i \in oldest' .. newest' : h \notin hashSet'[i]
          BY <3>2, <4>1
        <4>3. lastNext = -1
          BY <2>2, <4>2, LastIdIs
        <4> QED
          BY <3>1, <3>4, <4>3
      <3>5. CASE last # -1 /\ last >= oldest'
        <4>1. last \in oldest .. newest /\ h \in hashSet[last]
          BY <1>0, <3>5, LastIdIs
        <4>2. last \in oldest' .. newest' /\ h \in hashSet'[last]
          BY <3>3, <3>5, <4>1
        <4>3. \A j \in oldest' .. newest' : h \in hashSet'[j] => j <= last
          BY <1>0, <3>2, LastIdIs
        <4>4. lastNext = last
          BY <2>2, <4>2, <4>3, LastIdIs
        <4>5. ~(last + MaxStoreCount < newest + 2)
          BY <2>2, <2>3, <3>5, <4>1
        <4> QED
          BY <3>1, <4>4, <4>5
      <3>6. CASE last # -1 /\ ~(last >= oldest')
        <4>1. last \in oldest .. newest
          BY <1>0, <3>6, LastIdIs
        <4>2. last + MaxStoreCount < newest + 2
          BY <2>2, <2>3, <3>6, <4>1
        <4>3. ASSUME NEW i \in oldest' .. newest', h \in hashSet'[i]
              PROVE  FALSE
          <5>1. i \in oldest .. newest /\ h \in hashSet[i]
            BY <3>2, <4>3
          <5>2. i <= last
            BY <1>0, <5>1, LastIdIs
          <5> QED
            BY <2>2, <3>6, <4>1, <4>3, <5>2
        <4>4. lastNext = -1
          BY <2>2, <4>3, LastIdIs
        <4> QED
          BY <3>1, <4>2, <4>4
      <3> QED
        BY <3>4, <3>5, <3>6
    <2>5. lastSeenBar' = [h \in Hashes |-> IF lastSeenBar[h] + MaxStoreCount < newest + 2
                                           THEN -1 ELSE lastSeenBar[h]]
      BY <2>4 DEF lastSeenBar
    <2>6. UNCHANGED hash
      BY DEF AdvanceStep
    <2> QED
      BY <1>1, <1>2, <1>6, <1>4, <2>1, <2>5, <2>6
      DEF Window!EndStep, Window!Forgotten, lastSeenBar, answerBar
  <1>5. CASE ~(Cardinality(hashSet[newest]) > MaxStoreEntries)
    <2>1. UNCHANGED <<oldest, newest, hashSet, hash>>
      BY <1>5 DEF AdvanceStep
    <2>2. lastSeenBar' = lastSeenBar
      BY <2>1 DEF lastSeenBar, LastSeen, IdsHolding, StoreIds
    <2> QED
      BY <1>1, <1>2, <1>6, <1>5, <2>1, <2>2
      DEF Window!EndStep, Window!Forgotten, lastSeenBar, answerBar
  <1> QED
    BY <1>4, <1>5

LEMMA StutterRefines == UNCHANGED vars => UNCHANGED Window!vars
  BY DEF vars, Window!vars, Answer, WillCollide, StoreAt, LastSeen, IdsHolding, StoreIds

LEMMA NextRefines == IInv /\ [Next]_vars => [Window!Next]_(Window!vars)
  <1> SUFFICES ASSUME IInv, [Next]_vars
               PROVE  Window!Next \/ UNCHANGED Window!vars
    OBVIOUS
  <1>1. CASE UNCHANGED vars
    BY <1>1, StutterRefines
  <1>2. ASSUME NEW t \in Threads, NEW h \in Hashes, Call(t, h)
        PROVE  Window!Next
    BY <1>2, CallRefines DEF Window!Next
  <1>3. ASSUME NEW t \in Threads, ProbeNewest(t)
        PROVE  Window!Next
    BY <1>3, ProbeNewestRefines DEF Window!Next
  <1>4. ASSUME NEW t \in Threads, ProbeOlder(t)
        PROVE  UNCHANGED Window!vars
    BY <1>4, ProbeOlderRefines
  <1>5. CASE AdvanceStep
    BY <1>5, AdvanceStepRefines DEF Window!Next
  <1> QED
    BY <1>1, <1>2, <1>3, <1>4, <1>5 DEF Next

\* The deque of stores, probed one atomic operation at a time by any number of
\* threads, implements the one-step check of a window of MaxStoreCount generations
\* (hashDb.hpp:88-126, 146-164): every step is a step of SeenWindow or a stutter.
THEOREM Refinement == Spec => RefinesSeenWindow
  BY InitRefines, NextRefines, Invariance, PTL DEF Spec, RefinesSeenWindow, Window!Spec
=============================================================================
