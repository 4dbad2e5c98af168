-------------------------- MODULE StatePoolProofs ---------------------------
(***************************************************************************)
(* For every number of workers and slots: a pool of state slots loses      *)
(* none, hands none out twice, and leaves no base state behind when the    *)
(* workers have stopped.  The state databases implement StatePool, so      *)
(* these are facts about them.                                             *)
(***************************************************************************)
EXTENDS StatePool, TLAPS

\* A worker that holds no base state holds nothing, and one that has stopped holds no
\* base state.  Base states are left only while a worker is active.
WorkersOrderly ==
    /\ \A t \in Threads : t \notin active => base[t] = Null
    /\ current # {} => active # {}

IInv == TypeOK /\ SlotsConserved /\ WorkersOrderly
-----------------------------------------------------------------------------
\* The invariant holds initially ...
LEMMA InitInv == ASSUME Null \notin Slots, Threads # {}, Init PROVE IInv
  <1> USE DEF IInv, Init
  <1>1. TypeOK /\ WorkersOrderly
    BY DEF TypeOK, WorkersOrderly
  <1>2. \A t \in Threads : Held(t) = {}
    BY DEF Held
  <1>3. SlotsConserved
    BY <1>2 DEF SlotsConserved
  <1> QED
    BY <1>1, <1>3

LEMMA StutterInv == ASSUME IInv, UNCHANGED vars PROVE IInv'
  BY DEF IInv, vars, TypeOK, SlotsConserved, WorkersOrderly, Held

\* ... and is preserved by each operation of a worker
LEMMA TakeBaseInv ==
  ASSUME Null \notin Slots, IInv, NEW t \in Threads, TakeBase(t) PROVE IInv'
  <1> USE DEF IInv, TakeBase
  <1>1. PICK s \in current : base' = [base EXCEPT ![t] = s] /\ current' = current \ {s}
    OBVIOUS
  <1>2. TypeOK' /\ WorkersOrderly'
    BY <1>1 DEF TypeOK, WorkersOrderly
  <1>3. fresh[t] = Null /\ s \in Slots
    BY <1>1 DEF TypeOK, SlotsConserved
  <1>4. Held(t)' = {s} /\ \A u \in Threads \ {t} : Held(u)' = Held(u)
    BY <1>1, <1>3 DEF TypeOK, Held
  <1>5. Held(t) = {}
    BY <1>3 DEF TypeOK, Held
  <1>6. SlotsConserved'
    BY <1>1, <1>3, <1>4, <1>5 DEF TypeOK, SlotsConserved
  <1> QED
    BY <1>2, <1>6

LEMMA StopInv ==
  ASSUME IInv, NEW t \in Threads, Stop(t) PROVE IInv'
  <1> USE DEF IInv, Stop
  <1>1. TypeOK' /\ WorkersOrderly'
    BY DEF TypeOK, WorkersOrderly
  <1>2. SlotsConserved'
    BY DEF SlotsConserved, Held
  <1> QED
    BY <1>1, <1>2

LEMMA TakeFreeInv ==
  ASSUME Null \notin Slots, IInv, NEW t \in Threads, TakeFree(t) PROVE IInv'
  <1> USE DEF IInv, TakeFree
  <1>1. PICK s \in free : fresh' = [fresh EXCEPT ![t] = s] /\ free' = free \ {s}
    OBVIOUS
  <1>2. TypeOK' /\ WorkersOrderly'
    BY <1>1 DEF TypeOK, WorkersOrderly
  <1>3. Held(t) = {base[t]} /\ s \in Slots /\ base[t] # s
    BY <1>1 DEF TypeOK, SlotsConserved, Held
  <1>4. Held(t)' = {base[t], s} /\ \A u \in Threads \ {t} : Held(u)' = Held(u)
    BY <1>1, <1>3 DEF TypeOK, Held
  <1>5. SlotsConserved'
    BY <1>1, <1>3, <1>4 DEF TypeOK, SlotsConserved
  <1> QED
    BY <1>2, <1>5

LEMMA EvictInv ==
  ASSUME Null \notin Slots, IInv, NEW t \in Threads, Evict(t) PROVE IInv'
  <1> USE DEF IInv, Evict
  <1>1. PICK s \in current : fresh' = [fresh EXCEPT ![t] = s] /\ current' = current \ {s}
    OBVIOUS
  <1>2. TypeOK' /\ WorkersOrderly'
    BY <1>1 DEF TypeOK, WorkersOrderly
  <1>3. Held(t) = {base[t]} /\ s \in Slots /\ base[t] # s
    BY <1>1 DEF TypeOK, SlotsConserved, Held
  <1>4. Held(t)' = {base[t], s} /\ \A u \in Threads \ {t} : Held(u)' = Held(u)
    BY <1>1, <1>3 DEF TypeOK, Held
  <1>5. SlotsConserved'
    BY <1>1, <1>3, <1>4 DEF TypeOK, SlotsConserved
  <1> QED
    BY <1>2, <1>5

LEMMA StoreInv ==
  ASSUME Null \notin Slots, IInv, NEW t \in Threads, Store(t) PROVE IInv'
  <1> USE DEF IInv, Store
  <1>1. base[t] # Null /\ base[t] # fresh[t] /\ fresh[t] \in Slots /\ t \in active
    BY DEF TypeOK, SlotsConserved, WorkersOrderly
  <1>2. TypeOK' /\ WorkersOrderly'
    BY <1>1 DEF TypeOK, WorkersOrderly
  <1>3. Held(t) = {base[t], fresh[t]} /\ Held(t)' = {base[t]}
    BY <1>1 DEF TypeOK, Held
  <1>4. \A u \in Threads \ {t} : Held(u)' = Held(u) /\ fresh[t] \notin Held(u)
    BY <1>3 DEF TypeOK, Held, SlotsConserved
  <1>5. SlotsConserved'
    BY <1>1, <1>3, <1>4 DEF TypeOK, SlotsConserved
  <1> QED
    BY <1>2, <1>5

LEMMA GiveBackInv ==
  ASSUME Null \notin Slots, IInv, NEW t \in Threads, GiveBack(t) PROVE IInv'
  <1> USE DEF IInv, GiveBack
  <1>1. base[t] # Null /\ base[t] # fresh[t] /\ fresh[t] \in Slots
    BY DEF TypeOK, SlotsConserved
  <1>2. TypeOK' /\ WorkersOrderly'
    BY <1>1 DEF TypeOK, WorkersOrderly
  <1>3. Held(t) = {base[t], fresh[t]} /\ Held(t)' = {base[t]}
    BY <1>1 DEF TypeOK, Held
  <1>4. \A u \in Threads \ {t} : Held(u)' = Held(u) /\ fresh[t] \notin Held(u)
    BY <1>3 DEF TypeOK, Held, SlotsConserved
  <1>5. SlotsConserved'
    BY <1>1, <1>3, <1>4 DEF TypeOK, SlotsConserved
  <1> QED
    BY <1>2, <1>5

LEMMA FinishBaseInv ==
  ASSUME Null \notin Slots, IInv, NEW t \in Threads, FinishBase(t) PROVE IInv'
  <1> USE DEF IInv, FinishBase
  <1>1. base[t] \in Slots
    BY DEF TypeOK
  <1>2. TypeOK' /\ WorkersOrderly'
    BY <1>1 DEF TypeOK, WorkersOrderly
  <1>3. Held(t) = {base[t]} /\ Held(t)' = {}
    BY <1>1 DEF TypeOK, Held
  <1>4. \A u \in Threads \ {t} : Held(u)' = Held(u) /\ base[t] \notin Held(u)
    BY <1>3 DEF TypeOK, Held, SlotsConserved
  <1>5. SlotsConserved'
    BY <1>1, <1>3, <1>4 DEF TypeOK, SlotsConserved
  <1> QED
    BY <1>2, <1>5

\* and by the end of the step.
LEMMA EndStepInv == ASSUME Threads # {}, IInv, EndStep PROVE IInv'
  <1> USE DEF IInv, EndStep
  <1>1. TypeOK' /\ WorkersOrderly'
    BY DEF TypeOK, WorkersOrderly
  <1>2. \A t \in Threads : Held(t)' = Held(t)
    BY DEF Held
  <1>3. SlotsConserved'
    BY <1>2 DEF SlotsConserved
  <1> QED
    BY <1>1, <1>3

LEMMA NextInv == ASSUME Null \notin Slots, Threads # {}, IInv, [Next]_vars PROVE IInv'
  BY StutterInv, TakeBaseInv, StopInv, TakeFreeInv, EvictInv, StoreInv, GiveBackInv,
     FinishBaseInv, EndStepInv DEF Next
-----------------------------------------------------------------------------
\* Whatever the workers do, each slot is free, in one of the two databases or in the
\* hands of one worker, and base states are left only while a worker is active.
THEOREM Invariance ==
  ASSUME Null \notin Slots, Threads # {} PROVE Spec => []IInv
  BY InitInv, NextInv, PTL DEF Spec

\* When the workers have stopped, no base state is left and nobody holds a slot: the
\* step has been processed completely (engine.hpp:444-502).
THEOREM NothingIsLeftBehind ==
  ASSUME Null \notin Slots, Threads # {} PROVE Spec => []NothingLeftBehind
  <1>1. IInv => NothingLeftBehind
    BY DEF IInv, WorkersOrderly, NothingLeftBehind, SlotsConserved, Held
  <1> QED
    BY <1>1, Invariance, PTL
=============================================================================
