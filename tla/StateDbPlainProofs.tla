------------------------- MODULE StateDbPlainProofs -------------------------
(***************************************************************************)
(* The plain state database, for every number of workers and slots: it     *)
(* implements StatePool, so that no slot is lost or handed out twice; its  *)
(* base states stay sorted and can be decoded; and only the worst base     *)
(* state is given up for a new one.                                        *)
(*                                                                         *)
(* Where the slots are is proved once, of StatePool: each step of the      *)
(* database is a step of it, because its deque and its map hold each slot  *)
(* once (Ordered) and because of what a worker holds at each point of its  *)
(* loop (Phases).  What the slots contain (Encoded), and that the          *)
(* databases are in descending order, follows, as only slots are written   *)
(* that are in nobody else's hands.                                        *)
(***************************************************************************)
EXTENDS StateDbPlain, FiniteFacts

Proved == INSTANCE StatePoolProofs WITH
          current <- ToSet(currentStateDb),
          next    <- ToSet(nextStateDb),
          active  <- {t \in Threads : pc[t] # "done"}

Ordered == Distinct(currentStateDb) /\ Distinct(nextStateDb)

Phases ==
    \A t \in Threads : /\ base[t] = Null <=> pc[t] \in {"pop", "done"}
                       /\ fresh[t] = Null <=> pc[t] # "store"
                       /\ pc[t] \in {"steal", "store"} => inputs[t] > 0

Encoded ==
    /\ \A s \in ToSet(currentStateDb) : data[s] \in States /\ data[s].against = "previous"
    /\ \A t \in Threads : base[t] # Null => data[base[t]] \in States /\ data[base[t]].against = "previous"
    /\ \A s \in ToSet(nextStateDb) : data[s] \in States /\ data[s].against = "current"

Shape == TypeOK /\ ~thrown /\ Ordered /\ Phases
Content == Encoded /\ Descending(data, currentStateDb) /\ Descending(data, nextStateDb)
IInv == Shape /\ Content /\ Proved!IInv

poolVars == <<free, ToSet(currentStateDb), ToSet(nextStateDb), base, fresh,
              {t \in Threads : pc[t] # "done"}>>
-----------------------------------------------------------------------------
(* Each step of the database is a step of the pool.                        *)

\* A worker takes the best base state left, or finds none and stops.
LEMMA PopStateShape ==
  ASSUME IInv, NEW t \in Threads, PopState(t)
  PROVE  Proved!TakeBase(t) /\ Shape'
  <1> USE StateDbAssumption DEF IInv, Shape, PopState, StartBase
  <1>1. /\ currentStateDb \in Seq(Slots) /\ Distinct(currentStateDb) /\ currentStateDb # <<>>
        /\ base[t] = Null
    BY DEF TypeOK, BaseTypeOK, Ordered, Phases
  <1> DEFINE s == Head(currentStateDb)
  <1>2. /\ Tail(currentStateDb) \in Seq(Slots) /\ Distinct(Tail(currentStateDb))
        /\ s \in ToSet(currentStateDb) /\ s \in Slots
        /\ ToSet(Tail(currentStateDb)) = ToSet(currentStateDb) \ {s}
    BY <1>1, TailFacts, Members
  <1> HIDE DEF s
  <1>3. base' = [base EXCEPT ![t] = s]
    BY DEF s
  <1>4. Proved!TakeBase(t)
    BY <1>1, <1>2, <1>3 DEF Proved!TakeBase, TypeOK, BaseTypeOK
  <1>5. TypeOK'
    BY <1>2, <1>3 DEF TypeOK, BaseTypeOK
  <1>6. Ordered'
    BY <1>2 DEF Ordered
  <1>7. Phases'
    BY <1>2, <1>3 DEF Phases, TypeOK, BaseTypeOK
  <1> QED
    BY <1>4, <1>5, <1>6, <1>7

LEMMA PopNothingShape ==
  ASSUME IInv, NEW t \in Threads, PopNothing(t)
  PROVE  Proved!Stop(t) /\ Shape'
  <1> USE StateDbAssumption DEF IInv, Shape, PopNothing, StopWorker
  <1>1. ToSet(currentStateDb) = {} /\ base[t] = Null
    BY Members DEF Phases, TypeOK, BaseTypeOK
  <1>2. Proved!Stop(t)
    BY <1>1 DEF Proved!Stop, TypeOK
  <1>3. TypeOK' /\ Ordered'
    BY DEF TypeOK, BaseTypeOK, Ordered
  <1>4. Phases'
    BY DEF Phases, TypeOK
  <1> QED
    BY <1>2, <1>3, <1>4

\* Storage for a new state: a free slot, or that of the last base state.
LEMMA PopFreeShape ==
  ASSUME IInv, NEW t \in Threads, PopFree(t)
  PROVE  Proved!TakeFree(t) /\ Shape'
  <1> USE StateDbAssumption DEF IInv, Shape, PopFree, StartFresh
  <1>1. PICK s \in free : /\ free' = free \ {s}
                          /\ fresh' = [fresh EXCEPT ![t] = s]
                          /\ data' = [data EXCEPT ![s] = Garbage]
    OBVIOUS
  <1>2. base[t] # Null /\ fresh[t] = Null /\ s \in Slots
    BY <1>1 DEF Phases, TypeOK
  <1>3. Proved!TakeFree(t)
    BY <1>1, <1>2 DEF Proved!TakeFree, TypeOK
  <1>4. TypeOK' /\ Ordered'
    BY <1>1, <1>2 DEF TypeOK, BaseTypeOK, Ordered, Contents
  <1>5. Phases'
    BY <1>1, <1>2 DEF Phases, TypeOK, BaseTypeOK
  <1> QED
    BY <1>3, <1>4, <1>5

LEMMA StealStateShape ==
  ASSUME IInv, NEW t \in Threads, StealState(t)
  PROVE  /\ Proved!Evict(t) /\ Shape'
         /\ Victim \in ToSet(currentStateDb) /\ fresh' = [fresh EXCEPT ![t] = Victim]
  <1> USE StateDbAssumption DEF IInv, Shape, StealState, StartFresh, WithoutVictim
  <1>1. /\ currentStateDb \in Seq(Slots) /\ Distinct(currentStateDb) /\ currentStateDb # <<>>
        /\ base[t] # Null /\ fresh[t] = Null /\ inputs[t] > 0
    BY DEF TypeOK, BaseTypeOK, Ordered, Phases
  <1>2. /\ WithoutVictim \in Seq(Slots) /\ Distinct(WithoutVictim)
        /\ Victim \in ToSet(currentStateDb) /\ Victim \in Slots
        /\ ToSet(WithoutVictim) = ToSet(currentStateDb) \ {Victim}
    BY <1>1, FrontFacts, Members DEF Victim
  <1>3. Proved!Evict(t)
    BY <1>1, <1>2 DEF Proved!Evict, TypeOK, BaseTypeOK
  <1>4. TypeOK' /\ Ordered'
    BY <1>2 DEF TypeOK, BaseTypeOK, Ordered, Contents
  <1>5. Phases'
    BY <1>1, <1>2 DEF Phases, TypeOK, BaseTypeOK
  <1> QED
    BY <1>2, <1>3, <1>4, <1>5

\* A worker that goes on without storage touches no slot.
LEMMA NoStorageShape ==
  ASSUME IInv, NEW t \in Threads, FreeEmpty(t) \/ StealNothing(t)
  PROVE  UNCHANGED poolVars /\ Shape'
  <1> USE StateDbAssumption DEF IInv, Shape
  <1>1. CASE FreeEmpty(t)
    <2> USE <1>1 DEF FreeEmpty
    <2>1. TypeOK' /\ Ordered' /\ Phases'
      BY DEF TypeOK, BaseTypeOK, Ordered, Phases
    <2>2. {u \in Threads : pc[u] # "done"}' = {u \in Threads : pc[u] # "done"}
      BY DEF TypeOK
    <2> QED
      BY <2>1, <2>2 DEF poolVars
  <1>2. CASE StealNothing(t)
    <2> USE <1>2 DEF StealNothing, DropState
    <2>1. inputs[t] \in 1 .. MaxInputs
      BY DEF TypeOK, BaseTypeOK, Phases
    <2>2. TypeOK' /\ Ordered' /\ Phases'
      BY <2>1 DEF TypeOK, BaseTypeOK, Ordered, Phases
    <2>3. {u \in Threads : pc[u] # "done"}' = {u \in Threads : pc[u] # "done"}
      BY DEF TypeOK
    <2> QED
      BY <2>2, <2>3 DEF poolVars
  <1> QED
    BY <1>1, <1>2

\* The new state joins the next database.
LEMMA PushShape ==
  ASSUME IInv, NEW t \in Threads, Push(t)
  PROVE  Proved!Store(t) /\ Shape'
  <1> USE StateDbAssumption DEF IInv, Shape, Push, PushState
  <1>0. PICK r \in Rewards :
           /\ data' = [data EXCEPT ![fresh[t]] = [reward |-> r, against |-> "current"]]
           /\ \E i \in InsertionPoints(r) : nextStateDb' = InsertAt(nextStateDb, i, fresh[t])
    OBVIOUS
  <1>1. PICK i \in InsertionPoints(r) : nextStateDb' = InsertAt(nextStateDb, i, fresh[t])
    BY <1>0
  <1>2. /\ nextStateDb \in Seq(Slots) /\ Distinct(nextStateDb) /\ i \in 1 .. Len(nextStateDb) + 1
        /\ fresh[t] \in Slots /\ fresh[t] # Null /\ inputs[t] \in 1 .. MaxInputs
    BY <1>1 DEF TypeOK, BaseTypeOK, Ordered, Phases, InsertionPoints
  <1>3. fresh[t] \notin ToSet(nextStateDb)
    BY <1>2 DEF Proved!IInv, Proved!SlotsConserved, Proved!Held
  <1>4. /\ nextStateDb' \in Seq(Slots) /\ Distinct(nextStateDb')
        /\ ToSet(nextStateDb') = ToSet(nextStateDb) \union {fresh[t]}
    BY <1>1, <1>2, <1>3, InsertFacts
  <1>5. [reward |-> r, against |-> "current"] \in States
    BY DEF States, References
  <1>6. Proved!Store(t)
    BY <1>2, <1>4 DEF Proved!Store, TypeOK
  <1>7. TypeOK' /\ Ordered'
    BY <1>0, <1>2, <1>4, <1>5 DEF TypeOK, BaseTypeOK, Ordered, Contents
  <1>8. Phases'
    BY <1>2 DEF Phases, TypeOK, BaseTypeOK
  <1> QED
    BY <1>6, <1>7, <1>8

\* The free queue has room for each slot that is returned.
LEMMA RoomToReturn ==
  ASSUME TypeOK, NEW s \in Slots, s \notin free, ReturnFreeState(s)
  PROVE  free' = free \union {s} /\ thrown' = thrown
  <1>1. free \subseteq Slots \ {s}
    BY DEF TypeOK
  <1>2. IsFiniteSet(Slots) /\ Cardinality(Slots) \in Nat
    BY StateDbAssumption, FS_CardinalityType
  <1>3. /\ IsFiniteSet(Slots \ {s}) /\ Cardinality(Slots \ {s}) = Cardinality(Slots) - 1
    BY <1>2, FS_RemoveElement
  <1>4. Cardinality(free) \in Nat /\ Cardinality(free) <= Cardinality(Slots \ {s})
    BY <1>1, <1>3, FS_Subset, FS_CardinalityType
  <1>5. Cardinality(free) < Cardinality(Slots)
    BY <1>2, <1>3, <1>4
  <1> QED
    BY <1>5 DEF ReturnFreeState

\* A worker is done with the slot it has filled, or with its base state.
LEMMA ReturnFreshShape ==
  ASSUME IInv, NEW t \in Threads, ReturnFresh(t)
  PROVE  Proved!GiveBack(t) /\ Shape'
  <1> USE StateDbAssumption DEF IInv, Shape, ReturnFresh, ReleaseFresh
  <1>1. fresh[t] \in Slots /\ fresh[t] # Null /\ inputs[t] \in 1 .. MaxInputs
    BY DEF TypeOK, BaseTypeOK, Phases
  <1>2. fresh[t] \notin free
    BY <1>1 DEF Proved!IInv, Proved!SlotsConserved, Proved!Held
  <1>3. free' = free \union {fresh[t]} /\ thrown' = thrown
    BY <1>1, <1>2, RoomToReturn
  <1>4. Proved!GiveBack(t)
    BY <1>1, <1>3 DEF Proved!GiveBack, TypeOK
  <1>5. TypeOK' /\ Ordered'
    BY <1>1, <1>3 DEF TypeOK, BaseTypeOK, Ordered, Contents
  <1>6. Phases'
    BY <1>1 DEF Phases, TypeOK, BaseTypeOK
  <1> QED
    BY <1>3, <1>4, <1>5, <1>6

LEMMA ReturnBaseShape ==
  ASSUME IInv, NEW t \in Threads, ReturnBase(t)
  PROVE  Proved!FinishBase(t) /\ Shape'
  <1> USE StateDbAssumption DEF IInv, Shape, ReturnBase, ReleaseBase
  <1>1. base[t] \in Slots /\ base[t] # Null /\ fresh[t] = Null
    BY DEF TypeOK, BaseTypeOK, Phases
  <1>2. base[t] \notin free
    BY <1>1 DEF Proved!IInv, Proved!SlotsConserved, Proved!Held
  <1>3. free' = free \union {base[t]} /\ thrown' = thrown
    BY <1>1, <1>2, RoomToReturn
  <1>4. Proved!FinishBase(t)
    BY <1>1, <1>3 DEF Proved!FinishBase, TypeOK
  <1>5. TypeOK' /\ Ordered'
    BY <1>1, <1>3 DEF TypeOK, BaseTypeOK, Ordered, Contents
  <1>6. Phases'
    BY <1>1 DEF Phases, TypeOK, BaseTypeOK
  <1> QED
    BY <1>3, <1>4, <1>5, <1>6

\* When the step ends, all base states have been processed.
LEMMA AdvanceShape ==
  ASSUME IInv, Advance
  PROVE  /\ Proved!EndStep /\ Shape'
         /\ currentStateDb = <<>> /\ currentStateDb' = nextStateDb
  <1> USE StateDbAssumption DEF IInv, Shape, Advance, AdvanceStep
  <1>1. {t \in Threads : pc[t] # "done"} = {}
    OBVIOUS
  <1>2. ToSet(currentStateDb) = {}
    BY <1>1 DEF Proved!IInv, Proved!WorkersOrderly
  <1>3. currentStateDb = <<>> /\ nextStateDb \in Seq(Slots)
    BY <1>2, Members DEF TypeOK, BaseTypeOK
  <1>4. currentStateDb' = nextStateDb
    BY <1>3, ConcatEmptySeq
  <1>5. ToSet(<<>>) = {}
    BY <1>2, <1>3
  <1>6. Proved!EndStep
    BY <1>1, <1>2, <1>4, <1>5 DEF Proved!EndStep
  <1>7. ASSUME NEW s \in Slots PROVE data'[s] \in Contents
    BY DEF TypeOK, BaseTypeOK, Contents, States, References, AfterSwap
  <1>8. TypeOK'
    BY <1>3, <1>4, <1>7 DEF TypeOK, BaseTypeOK
  <1>9. Ordered' /\ Phases'
    BY <1>4 DEF Ordered, Phases, Distinct
  <1> QED
    BY <1>3, <1>4, <1>6, <1>8, <1>9
-----------------------------------------------------------------------------
(* What the slots contain.                                                 *)

\* Writing to a slot that is in neither database and is no base state.
LEMMA OthersKept ==
  ASSUME TypeOK, Content, NEW s \in Slots, NEW c,
         data' = [data EXCEPT ![s] = c],
         s \notin ToSet(currentStateDb), s \notin ToSet(nextStateDb), \A t \in Threads : base[t] # s
  PROVE  /\ \A x \in ToSet(currentStateDb) \union ToSet(nextStateDb) : data'[x] = data[x]
         /\ \A t \in Threads : base[t] # Null => data'[base[t]] = data[base[t]]
         /\ \A i \in 1 .. Len(currentStateDb) : data'[currentStateDb[i]] = data[currentStateDb[i]]
         /\ \A i \in 1 .. Len(nextStateDb) : data'[nextStateDb[i]] = data[nextStateDb[i]]
  <1>1. \A x \in Slots : x # s => data'[x] = data[x]
    BY DEF TypeOK, BaseTypeOK
  <1>2. ToSet(currentStateDb) \subseteq Slots /\ ToSet(nextStateDb) \subseteq Slots
    BY Members DEF TypeOK, BaseTypeOK
  <1>3. /\ \A i \in 1 .. Len(currentStateDb) : currentStateDb[i] \in ToSet(currentStateDb)
        /\ \A i \in 1 .. Len(nextStateDb) : nextStateDb[i] \in ToSet(nextStateDb)
    BY Members DEF TypeOK, BaseTypeOK
  <1>4. \A t \in Threads : base[t] # Null => base[t] \in Slots
    BY DEF TypeOK, BaseTypeOK
  <1> QED
    BY <1>1, <1>2, <1>3, <1>4

\* A base state is taken from the front; one is given up at the back.
LEMMA PopStateContent ==
  ASSUME IInv, NEW t \in Threads, PopState(t)
  PROVE  Content'
  <1> USE DEF IInv, Content, Shape, PopState, StartBase
  <1>1. /\ currentStateDb \in Seq(Slots) /\ Distinct(currentStateDb) /\ currentStateDb # <<>>
        /\ currentStateDb' = Tail(currentStateDb) /\ data' = data
    BY DEF TypeOK, BaseTypeOK, Ordered
  <1>2. /\ Head(currentStateDb) \in ToSet(currentStateDb)
        /\ ToSet(currentStateDb') = ToSet(currentStateDb) \ {Head(currentStateDb)}
        /\ Len(currentStateDb') = Len(currentStateDb) - 1
        /\ \A i \in 1 .. Len(currentStateDb) - 1 : currentStateDb'[i] = currentStateDb[i + 1]
        /\ Len(currentStateDb) \in Nat
    BY <1>1, TailFacts, Members
  <1>3. Encoded'
    BY <1>1, <1>2 DEF Encoded, TypeOK, BaseTypeOK
  <1>4. Descending(data, currentStateDb)'
    BY <1>1, <1>2 DEF Descending
  <1>5. Descending(data, nextStateDb)'
    BY DEF Descending
  <1> QED
    BY <1>3, <1>4, <1>5

LEMMA StealStateContent ==
  ASSUME IInv, NEW t \in Threads, StealState(t)
  PROVE  Content'
  <1> USE DEF IInv, Content, Shape, StealState, StartFresh, WithoutVictim
  <1>1. /\ currentStateDb \in Seq(Slots) /\ Distinct(currentStateDb) /\ currentStateDb # <<>>
        /\ currentStateDb' = Front(currentStateDb) /\ data' = [data EXCEPT ![Victim] = Garbage]
    BY DEF TypeOK, BaseTypeOK, Ordered
  <1>2. /\ Victim \in ToSet(currentStateDb) /\ Victim \in Slots
        /\ ToSet(currentStateDb') = ToSet(currentStateDb) \ {Victim}
        /\ Len(currentStateDb') = Len(currentStateDb) - 1
        /\ \A i \in 1 .. Len(currentStateDb) - 1 : currentStateDb'[i] = currentStateDb[i]
        /\ Len(currentStateDb) \in Nat /\ currentStateDb' \in Seq(Slots)
    BY <1>1, FrontFacts, Members DEF Victim
  <1>3. \A x \in Slots : x # Victim => data'[x] = data[x]
    BY <1>1 DEF TypeOK, BaseTypeOK
  <1>4. /\ Victim \notin ToSet(nextStateDb) /\ \A u \in Threads : base[u] # Victim
        /\ ToSet(currentStateDb) \subseteq Slots /\ ToSet(nextStateDb) \subseteq Slots
        /\ \A i \in 1 .. Len(nextStateDb) : nextStateDb[i] \in ToSet(nextStateDb)
        /\ \A i \in 1 .. Len(currentStateDb') : currentStateDb'[i] \in ToSet(currentStateDb')
    <2>1. Victim \notin ToSet(nextStateDb)
      BY <1>2 DEF Proved!IInv, Proved!SlotsConserved
    <2>2. \A u \in Threads : base[u] # Victim
      BY <1>2, StateDbAssumption DEF Proved!IInv, Proved!SlotsConserved, Proved!Held
    <2>3. /\ ToSet(currentStateDb) \subseteq Slots /\ ToSet(nextStateDb) \subseteq Slots
          /\ \A i \in 1 .. Len(nextStateDb) : nextStateDb[i] \in ToSet(nextStateDb)
      BY Members DEF TypeOK, BaseTypeOK
    <2>4. \A i \in 1 .. Len(currentStateDb') : currentStateDb'[i] \in ToSet(currentStateDb')
      BY <1>2, Members
    <2> QED
      BY <2>1, <2>2, <2>3, <2>4
  <1>5. Encoded'
    BY <1>2, <1>3, <1>4 DEF Encoded, TypeOK, BaseTypeOK
  <1>6. \A i \in 1 .. Len(currentStateDb') : data'[currentStateDb'[i]] = data[currentStateDb[i]]
    BY <1>2, <1>3, <1>4
  <1>7. Descending(data, currentStateDb)'
    BY <1>2, <1>6 DEF Descending
  <1>8. \A i \in 1 .. Len(nextStateDb) : data'[nextStateDb[i]] = data[nextStateDb[i]]
    BY <1>3, <1>4
  <1>9. Descending(data, nextStateDb)'
    BY <1>8 DEF Descending
  <1> QED
    BY <1>5, <1>7, <1>9

\* The new state's slot goes into the next database, behind those that are better.
LEMMA PushContent ==
  ASSUME IInv, NEW t \in Threads, Push(t)
  PROVE  Content'
  <1> USE DEF IInv, Content, Shape, Push, PushState
  <1>0. PICK r \in Rewards :
           /\ data' = [data EXCEPT ![fresh[t]] = [reward |-> r, against |-> "current"]]
           /\ \E i \in InsertionPoints(r) : nextStateDb' = InsertAt(nextStateDb, i, fresh[t])
    OBVIOUS
  <1>1. PICK i \in InsertionPoints(r) : nextStateDb' = InsertAt(nextStateDb, i, fresh[t])
    BY <1>0
  <1> DEFINE s == fresh[t]
             n == Len(nextStateDb)
  <1>2. /\ nextStateDb \in Seq(Slots) /\ i \in 1 .. n + 1 /\ n \in Nat
        /\ s \in Slots /\ s # Null
    BY <1>1, Members DEF TypeOK, BaseTypeOK, Phases, InsertionPoints
  <1>3. /\ s \notin ToSet(nextStateDb) /\ s \notin ToSet(currentStateDb)
        /\ \A u \in Threads : base[u] # s
    BY <1>2 DEF Proved!IInv, Proved!SlotsConserved, Proved!Held
  <1>4. /\ Len(nextStateDb') = n + 1
        /\ \A k \in 1 .. n + 1 : nextStateDb'[k] =
              IF k < i THEN nextStateDb[k] ELSE IF k = i THEN s ELSE nextStateDb[k - 1]
        /\ ToSet(nextStateDb') = ToSet(nextStateDb) \union {s}
    <2> DEFINE new == InsertAt(nextStateDb, i, s)
    <2>1. nextStateDb' = new
      BY <1>1
    <2>2. /\ Len(new) = n + 1
          /\ \A k \in 1 .. n + 1 :
                new[k] = IF k < i THEN nextStateDb[k] ELSE IF k = i THEN s ELSE nextStateDb[k - 1]
          /\ ToSet(new) = ToSet(nextStateDb) \union {s}
      <3> HIDE DEF s
      <3> QED
        BY ONLY <1>2, InsertFacts
    <2> HIDE DEF new, s, n
    <2> QED
      BY ONLY <2>1, <2>2
  <1>5. /\ \A x \in ToSet(currentStateDb) \union ToSet(nextStateDb) : data'[x] = data[x]
        /\ \A u \in Threads : base[u] # Null => data'[base[u]] = data[base[u]]
        /\ \A k \in 1 .. Len(currentStateDb) : data'[currentStateDb[k]] = data[currentStateDb[k]]
        /\ \A k \in 1 .. n : data'[nextStateDb[k]] = data[nextStateDb[k]]
    BY <1>0, <1>2, <1>3, OthersKept
  <1>6. data'[s] = [reward |-> r, against |-> "current"] /\ data'[s] \in States
    BY <1>0, <1>2 DEF TypeOK, BaseTypeOK, States, References
  <1>7. Encoded'
    BY <1>4, <1>5, <1>6 DEF Encoded
  <1>8. Descending(data, currentStateDb)'
    BY <1>5 DEF Descending
  <1>9. \A k \in 1 .. n : /\ k < i => data[nextStateDb[k]].reward >= r
                          /\ k >= i => data[nextStateDb[k]].reward <= r
    BY <1>1, <1>2 DEF InsertionPoints, Reward
  <1>10. \A k \in 1 .. n : data[nextStateDb[k]].reward \in Int
    <2>1. \A k \in 1 .. n : data[nextStateDb[k]] \in States
      BY <1>2, Members DEF Encoded
    <2> QED
      BY ONLY <2>1, StateDbAssumption DEF States
  <1>11. r \in Int /\ data'[s].reward = r
    BY <1>6, StateDbAssumption
  <1>12. Descending(data', InsertAt(nextStateDb, i, s))
    <2> HIDE DEF s
    <2> QED
      BY <1>2, <1>5, <1>9, <1>10, <1>11, InsertDescending
  <1>13. Descending(data, nextStateDb)'
    BY <1>1, <1>12
  <1> QED
    BY <1>7, <1>8, <1>13

\* The other steps write to slots that nobody reads, or to none.
LEMMA OtherContent ==
  ASSUME IInv, NEW t \in Threads,
         PopNothing(t) \/ PopFree(t) \/ FreeEmpty(t) \/ StealNothing(t) \/ ReturnFresh(t) \/ ReturnBase(t)
  PROVE  Content'
  <1> USE DEF IInv, Content, Shape
  <1>1. CASE PopNothing(t) \/ FreeEmpty(t) \/ StealNothing(t)
    <2>1. UNCHANGED <<currentStateDb, nextStateDb, data, base>>
      BY <1>1 DEF PopNothing, StopWorker, FreeEmpty, StealNothing, DropState
    <2> QED
      BY <2>1 DEF Encoded, Descending
  <1>2. CASE PopFree(t) \/ ReturnFresh(t)
    <2>1. UNCHANGED <<currentStateDb, nextStateDb, base>>
      BY <1>2 DEF PopFree, StartFresh, ReturnFresh, ReleaseFresh
    <2>2. PICK s \in Slots : /\ data' = [data EXCEPT ![s] = Garbage]
                             /\ s \in free \/ s = fresh[t]
      BY <1>2 DEF PopFree, StartFresh, ReturnFresh, ReleaseFresh, TypeOK, BaseTypeOK, Phases
    <2>3. /\ s \notin ToSet(nextStateDb) /\ s \notin ToSet(currentStateDb)
          /\ \A u \in Threads : base[u] # s
      BY <2>2, StateDbAssumption DEF Proved!IInv, Proved!SlotsConserved, Proved!Held
    <2>4. /\ \A x \in ToSet(currentStateDb) \union ToSet(nextStateDb) : data'[x] = data[x]
          /\ \A u \in Threads : base[u] # Null => data'[base[u]] = data[base[u]]
          /\ \A k \in 1 .. Len(currentStateDb) : data'[currentStateDb[k]] = data[currentStateDb[k]]
          /\ \A k \in 1 .. Len(nextStateDb) : data'[nextStateDb[k]] = data[nextStateDb[k]]
      BY <2>2, <2>3, OthersKept
    <2> QED
      BY <2>1, <2>4 DEF Encoded, Descending
  <1>3. CASE ReturnBase(t)
    <2> USE <1>3 DEF ReturnBase, ReleaseBase
    <2>1. base[t] \in Slots /\ base[t] # Null
      BY DEF TypeOK, BaseTypeOK, Phases
    <2>2. /\ base[t] \notin ToSet(nextStateDb) /\ base[t] \notin ToSet(currentStateDb)
          /\ \A u \in Threads \ {t} : base[u] # base[t]
      BY <2>1 DEF Proved!IInv, Proved!SlotsConserved, Proved!Held
    <2>3. \A x \in Slots : x # base[t] => data'[x] = data[x]
      BY DEF TypeOK, BaseTypeOK
    <2>4. /\ ToSet(currentStateDb) \subseteq Slots /\ ToSet(nextStateDb) \subseteq Slots
          /\ \A i \in 1 .. Len(nextStateDb) : nextStateDb[i] \in ToSet(nextStateDb)
          /\ \A i \in 1 .. Len(currentStateDb) : currentStateDb[i] \in ToSet(currentStateDb)
      BY Members DEF TypeOK, BaseTypeOK
    <2>5. /\ base' = [base EXCEPT ![t] = Null] /\ UNCHANGED <<currentStateDb, nextStateDb>>
          /\ \A u \in Threads : base'[u] # Null => u # t /\ base'[u] = base[u] /\ base[u] \in Slots
      BY DEF TypeOK, BaseTypeOK
    <2>6. Encoded'
      BY <2>2, <2>3, <2>4, <2>5 DEF Encoded
    <2>7. /\ \A k \in 1 .. Len(currentStateDb) : data'[currentStateDb[k]] = data[currentStateDb[k]]
          /\ \A k \in 1 .. Len(nextStateDb) : data'[nextStateDb[k]] = data[nextStateDb[k]]
      BY <2>2, <2>3, <2>4
    <2>8. Descending(data, currentStateDb)' /\ Descending(data, nextStateDb)'
      BY <2>5, <2>7 DEF Descending
    <2> QED
      BY <2>6, <2>8
  <1> QED
    BY <1>1, <1>2, <1>3

\* The states stored become base states, and the reference they were encoded against
\* the previous one.
LEMMA AdvanceContent ==
  ASSUME IInv, Advance
  PROVE  Content'
  <1> USE DEF IInv, Content, Shape, Advance, AdvanceStep
  <1>1. currentStateDb' = nextStateDb /\ nextStateDb' = <<>>
    BY AdvanceShape
  <1>2. \A t \in Threads : base'[t] = Null
    BY DEF Phases
  <1>3. ToSet(<<>>) = {} /\ Len(<<>>) = 0
    BY DEF ToSet
  <1>4. ASSUME NEW s \in ToSet(nextStateDb)
        PROVE  /\ data'[s] \in States /\ data'[s].against = "previous"
               /\ data'[s].reward = data[s].reward
    <2>1. s \in Slots /\ data[s] \in States /\ data[s].against = "current"
      BY Members DEF Encoded, TypeOK, BaseTypeOK
    <2>2. data'[s] = [data[s] EXCEPT !.against = "previous"]
      BY <2>1, StateDbAssumption DEF AfterSwap
    <2> QED
      BY <2>1, <2>2 DEF States, References
  <1>5. Encoded'
    BY <1>1, <1>2, <1>3, <1>4 DEF Encoded
  <1>6. \A i \in 1 .. Len(nextStateDb) : nextStateDb[i] \in ToSet(nextStateDb)
    BY Members DEF TypeOK, BaseTypeOK
  <1>7. \A i \in 1 .. Len(nextStateDb) : data'[nextStateDb[i]].reward = data[nextStateDb[i]].reward
    BY <1>4, <1>6
  <1>8. Descending(data, currentStateDb)'
    BY ONLY <1>1, <1>7, Descending(data, nextStateDb) DEF Descending
  <1>9. Descending(data, nextStateDb)'
    BY <1>1, <1>3 DEF Descending
  <1> QED
    BY <1>5, <1>8, <1>9
-----------------------------------------------------------------------------
(* The invariant.                                                          *)

\* It holds initially, and the initial states are states of the pool.
LEMMA InitShape == ASSUME Init PROVE IInv /\ Proved!Init
  <1>1. PICK first \in Slots : BaseInit(first) /\ free = Slots \ {first} /\ thrown = FALSE
    BY DEF Init
  <1>2. PICK r \in Rewards :
           data = [s \in Slots |-> IF s = first THEN [reward |-> r, against |-> "previous"]
                                                ELSE Garbage]
    BY <1>1 DEF BaseInit
  <1> USE StateDbAssumption DEF BaseInit
  <1>3. /\ currentStateDb = <<first>> /\ currentStateDb \in Seq(Slots) /\ Len(currentStateDb) = 1
        /\ nextStateDb = <<>> /\ nextStateDb \in Seq(Slots) /\ Len(nextStateDb) = 0
        /\ currentStateDb[1] = first
    BY <1>1
  <1>4. ToSet(currentStateDb) = {first} /\ ToSet(nextStateDb) = {}
    BY <1>3 DEF ToSet
  <1>5. [reward |-> r, against |-> "previous"] \in States
    BY DEF States, References
  <1>6. /\ \A t \in Threads : base[t] = Null /\ fresh[t] = Null /\ pc[t] = "pop"
        /\ 0 \in 0 .. MaxInputs
        /\ {t \in Threads : pc[t] # "done"} = Threads
    BY <1>1
  <1>7. TypeOK
    BY <1>1, <1>2, <1>3, <1>5, <1>6 DEF TypeOK, BaseTypeOK, Contents
  <1>8. Ordered /\ Descending(data, currentStateDb) /\ Descending(data, nextStateDb)
    BY <1>3 DEF Ordered, Distinct, Descending
  <1>9. Phases
    BY <1>6 DEF Phases
  <1>10. Encoded
    BY <1>2, <1>4, <1>5, <1>6 DEF Encoded
  <1>11. Proved!Init
    BY <1>1, <1>4, <1>6 DEF Proved!Init
  <1>12. Proved!IInv
    BY <1>11, Proved!InitInv
  <1> QED
    BY <1>1, <1>7, <1>8, <1>9, <1>10, <1>11, <1>12 DEF IInv, Shape, Content

\* Every step of the database is one of the pool's or leaves the pool as it is.
LEMMA NextInv ==
  ASSUME IInv, [Next]_vars
  PROVE  IInv' /\ [Proved!Next]_(Proved!vars)
  <1>1. CASE UNCHANGED vars
    <2>1. UNCHANGED poolVars /\ Shape' /\ Content'
      BY <1>1 DEF vars, baseVars, poolVars, IInv, Shape, Content, TypeOK, BaseTypeOK, Ordered,
                  Phases, Encoded, Descending, Distinct
    <2>2. UNCHANGED Proved!vars
      BY <2>1 DEF poolVars, Proved!vars
    <2> QED
      BY <2>1, <2>2, Proved!StutterInv DEF IInv
  <1>2. ASSUME NEW t \in Threads, Worker(t)
        PROVE  Shape' /\ Content' /\ (Proved!Next \/ UNCHANGED Proved!vars)
    <2>1. Content'
      BY <1>2, PopStateContent, StealStateContent, PushContent, OtherContent DEF Worker
    <2>2. CASE FreeEmpty(t) \/ StealNothing(t)
      <3>1. UNCHANGED Proved!vars
        BY <2>2, NoStorageShape DEF poolVars, Proved!vars
      <3> QED
        BY <2>1, <2>2, <3>1, NoStorageShape
    <2>3. CASE ~(FreeEmpty(t) \/ StealNothing(t))
      <3>1. /\ Shape'
            /\ \/ Proved!TakeBase(t) \/ Proved!Stop(t) \/ Proved!TakeFree(t) \/ Proved!Evict(t)
               \/ Proved!Store(t) \/ Proved!GiveBack(t) \/ Proved!FinishBase(t)
        BY <1>2, <2>3, PopStateShape, PopNothingShape, PopFreeShape, StealStateShape, PushShape,
           ReturnFreshShape, ReturnBaseShape DEF Worker
      <3> QED
        BY <2>1, <3>1 DEF Proved!Next
    <2> QED
      BY <2>2, <2>3
  <1>3. CASE Next
    <2>1. Shape' /\ Content' /\ (Proved!Next \/ UNCHANGED Proved!vars)
      BY <1>2, <1>3, AdvanceShape, AdvanceContent DEF Next, Proved!Next
    <2>2. Proved!IInv'
      BY <2>1, StateDbAssumption, Proved!NextInv DEF IInv
    <2> QED
      BY <2>1, <2>2 DEF IInv
  <1> QED
    BY <1>1, <1>3

\* The invariant holds of every state of the database: its slots are those of a
\* StatePool, each in one place of the deque or the map; base states are sorted and
\* encoded against the previous reference data, stored states against the current one.
THEOREM Invariance == Spec => []IInv
  BY InitShape, NextInv, PTL DEF Spec

\* The database's variables keep their types.
THEOREM TypeCorrect == Spec => []TypeOK
  <1>1. IInv => TypeOK
    BY DEF IInv, Shape
  <1> QED
    BY <1>1, Invariance, PTL

\* Base states are ordered by reward whatever the order in which the workers store
\* them: the first is the best and the last the worst (base.hpp:132-172 and 221-226).
THEOREM BaseStatesSorted == Spec => []CurrentSorted
  <1>1. IInv => CurrentSorted
    BY DEF IInv, Content, Descending, CurrentSorted, Reward
  <1> QED
    BY <1>1, Invariance, PTL

\* A state is read back against the reference data it was encoded with, although the
\* buffers are swapped and overwritten between the two (base.hpp:132-142 against 174-216).
THEOREM AlwaysDecodable == Spec => []BaseDecodable
  <1>1. IInv => BaseDecodable
    BY StateDbAssumption DEF IInv, Content, Encoded, BaseDecodable, Shape
  <1> QED
    BY <1>1, Invariance, PTL

\* No slot is lost or handed out twice, and the free queue never overflows: the
\* exception "This must be a bug in Jaffar" (plain.hpp:95) is never thrown.
THEOREM NoSlotIsLost == Spec => []SlotsConserved
  <1>1. ASSUME IInv PROVE SlotsConserved
    <2> USE <1>1
    <2>1. /\ ~thrown /\ TypeOK /\ Ordered
          /\ currentStateDb \in Seq(Slots) /\ nextStateDb \in Seq(Slots)
          /\ base \in [Threads -> Slots \union {Null}] /\ fresh \in [Threads -> Slots \union {Null}]
      BY DEF IInv, Shape, TypeOK, BaseTypeOK
    <2>2. \A t \in Threads : Held(t) = Proved!Held(t)
      BY DEF Held, Proved!Held
    <2>3. free \union ToSet(currentStateDb) \union ToSet(nextStateDb)
             \union UNION {Held(t) : t \in Threads} = Slots
      BY <2>2 DEF IInv, Proved!IInv, Proved!SlotsConserved
    <2> SUFFICES ASSUME NEW s \in Slots
                 PROVE  Cardinality({i \in DOMAIN currentStateDb : currentStateDb[i] = s})
                         + Cardinality({i \in DOMAIN nextStateDb : nextStateDb[i] = s})
                         + Cardinality({t \in Threads : base[t] = s})
                         + Cardinality({t \in Threads : fresh[t] = s})
                         + (IF s \in free THEN 1 ELSE 0) = 1
      BY <2>1, <2>3 DEF SlotsConserved
    <2> DEFINE isBase  == \E t \in Threads : base[t] = s
               isFresh == \E t \in Threads : fresh[t] = s
    <2>4. s # Null
      BY StateDbAssumption
    <2>5. /\ \A t, u \in Threads : base[t] = s /\ base[u] = s => t = u
          /\ \A t, u \in Threads : fresh[t] = s /\ fresh[u] = s => t = u
          /\ ~(isBase /\ isFresh)
          /\ isBase \/ isFresh => s \notin free \union ToSet(currentStateDb) \union ToSet(nextStateDb)
      BY <2>4 DEF IInv, Proved!IInv, Proved!SlotsConserved, Proved!Held
    <2>6. /\ ~(s \in free /\ s \in ToSet(currentStateDb))
          /\ ~(s \in free /\ s \in ToSet(nextStateDb))
          /\ ~(s \in ToSet(currentStateDb) /\ s \in ToSet(nextStateDb))
      BY DEF IInv, Proved!IInv, Proved!SlotsConserved
    <2>7. s \in free \/ s \in ToSet(currentStateDb) \/ s \in ToSet(nextStateDb) \/ isBase \/ isFresh
      BY <2>3, <2>4 DEF Held
    <2>8. /\ Cardinality({i \in DOMAIN currentStateDb : currentStateDb[i] = s})
                = IF s \in ToSet(currentStateDb) THEN 1 ELSE 0
          /\ Cardinality({i \in DOMAIN nextStateDb : nextStateDb[i] = s})
                = IF s \in ToSet(nextStateDb) THEN 1 ELSE 0
      BY <2>1, OccurrenceFacts DEF Ordered
    <2>9. /\ Cardinality({t \in Threads : base[t] = s}) = IF isBase THEN 1 ELSE 0
          /\ Cardinality({t \in Threads : fresh[t] = s}) = IF isFresh THEN 1 ELSE 0
      <3>1. /\ \A t, u \in {v \in Threads : base[v] = s} : t = u
            /\ \A t, u \in {v \in Threads : fresh[v] = s} : t = u
        BY <2>5
      <3> QED
        BY <3>1, AtMostOne
    <2> HIDE DEF isBase, isFresh
    <2> QED
      BY <2>5, <2>6, <2>7, <2>8, <2>9
  <1> QED
    BY <1>1, Invariance, PTL

\* Storage is taken from a base state only when the free queue was found empty, and
\* then from the worst base state (plain.hpp:68-87): workers pop the best ones.
THEOREM TheWorstIsEvicted == Spec => EvictsWorst
  <1>1. ASSUME IInv, Next, NEW t \in Threads, pc[t] = "steal", pc'[t] = "store",
               NEW s \in ToSet(currentStateDb)
        PROVE  Reward(fresh'[t]) <= Reward(s)
    <2>1. pc \in [Threads -> {"pop", "run", "steal", "store", "done"}]
      BY <1>1 DEF IInv, Shape, TypeOK
    <2>2. StealState(t)
      BY <1>1, <2>1 DEF Next, Worker, PopState, StartBase, PopNothing, StopWorker, PopFree, StartFresh,
         FreeEmpty, StealState, StealNothing, DropState, Push, PushState, ReturnFresh, ReleaseFresh,
         ReturnBase, ReleaseBase, Advance, AdvanceStep
    <2>3. fresh'[t] = Victim
      BY <1>1, <2>2, StealStateShape DEF IInv, Shape, TypeOK, BaseTypeOK
    <2>4. /\ currentStateDb \in Seq(Slots) /\ Len(currentStateDb) \in Nat
          /\ Victim = currentStateDb[Len(currentStateDb)]
          /\ \A i, j \in 1 .. Len(currentStateDb) :
                i < j => Reward(currentStateDb[i]) >= Reward(currentStateDb[j])
      BY <1>1, Members DEF IInv, Shape, Content, Descending, Reward, TypeOK, BaseTypeOK, Victim, Last
    <2>5. PICK i \in 1 .. Len(currentStateDb) : currentStateDb[i] = s
      BY <1>1, <2>4, Members
    <2>6. Reward(s) \in Int
      BY <1>1, StateDbAssumption DEF IInv, Content, Encoded, States, Reward
    <2>7. CASE i = Len(currentStateDb)
      BY <2>3, <2>4, <2>5, <2>6, <2>7
    <2>8. CASE i < Len(currentStateDb)
      BY <2>3, <2>4, <2>5, <2>8
    <2> QED
      BY <2>4, <2>7, <2>8
  <1>2. IInv /\ [Next]_vars =>
           [\A t \in Threads : pc[t] = "steal" /\ pc'[t] = "store" =>
               \A s \in ToSet(currentStateDb) : Reward(fresh'[t]) <= Reward(s)]_vars
    BY <1>1
  <1> QED
    BY <1>2, Invariance, PTL DEF Spec, EvictsWorst

\* The database implements the pool of slots that the engine relies on (base.hpp:113-115,
\* plain.hpp:68-110): every step is a step of StatePool or a stutter.
THEOREM Refinement == Spec => ImplementsStatePool
  <1>1. Init => Pool!Init
    BY InitShape DEF Proved!Init, Pool!Init
  <1>2. IInv /\ [Next]_vars => [Pool!Next]_(Pool!vars)
    <2>1. /\ Proved!Next <=> Pool!Next
          /\ UNCHANGED Proved!vars <=> UNCHANGED Pool!vars
      BY DEF Proved!Next, Pool!Next, Proved!vars, Pool!vars, Proved!TakeBase, Pool!TakeBase,
         Proved!Stop, Pool!Stop, Proved!TakeFree, Pool!TakeFree, Proved!Evict, Pool!Evict,
         Proved!Store, Pool!Store, Proved!GiveBack, Pool!GiveBack,
         Proved!FinishBase, Pool!FinishBase, Proved!EndStep, Pool!EndStep
    <2> QED
      BY <2>1, NextInv
  <1> QED
    BY <1>1, <1>2, Invariance, PTL DEF Spec, ImplementsStatePool, Pool!Spec

=============================================================================
