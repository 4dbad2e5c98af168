------------------------------ MODULE StateDb -------------------------------
(***************************************************************************)
(* The part of the state database that both kinds share (source/stateDb/   *)
(* base.hpp) and the way the engine's workers use it (workerFunction and   *)
(* runInput, source/engine.hpp:444-654).  A slot is the memory of one      *)
(* state.  _currentStateDb is a deque of slots, _nextStateDb a multimap    *)
(* from rewards to slots with the largest reward first, modelled by the    *)
(* sequence of its slots.                                                  *)
(*                                                                         *)
(* What a slot's memory holds is abstracted to the reward of its state and *)
(* the reference buffer against which the state was encoded: with          *)
(* differential compression a state can be read back only against the same *)
(* reference data.  Free slots hold Garbage, as nobody reads them.         *)
(***************************************************************************)
EXTENDS Integers, SequencesExt

CONSTANTS Threads,      \* the worker threads
          Slots,        \* the state slots
          Null,         \* nullptr
          Rewards,      \* the rewards of states
          Garbage,      \* the contents of memory that holds no state
          MaxInputs     \* bound: states that one base state may yield

\* The buffer a state was encoded against: _currentReferenceData,
\* _previousReferenceData, or data that has been overwritten since.
References == {"current", "previous", "overwritten"}
States == [reward : Rewards, against : References]
Contents == States \union {Garbage}

ASSUME StateDbAssumption == /\ Threads # {}
                            /\ IsFiniteSet(Slots) /\ Null \notin Slots
                            /\ Rewards \subseteq Int
                            /\ Garbage \notin States
                            /\ MaxInputs \in Nat

VARIABLES currentStateDb,  \* base states of this step, the best first
          nextStateDb,     \* states stored for the next step, the best first
          data,            \* contents of each slot
          base,            \* baseStateData of each worker
          fresh,           \* newStateData of each worker
          inputs,          \* new states the worker's base state will still yield
          pc               \* what each worker does next

baseVars == <<currentStateDb, nextStateDb, data, base, fresh, inputs, pc>>

Reward(s) == data[s].reward

BaseTypeOK == /\ currentStateDb \in Seq(Slots)
              /\ nextStateDb \in Seq(Slots)
              /\ data \in [Slots -> Contents]
              /\ base \in [Threads -> Slots \union {Null}]
              /\ fresh \in [Threads -> Slots \union {Null}]
              /\ inputs \in [Threads -> 0 .. MaxInputs]
-----------------------------------------------------------------------------
\* Engine::initialize has pushed the initial state and advanced the database; the
\* workers of the first step are about to call popState.
BaseInit(first) ==
    /\ currentStateDb = <<first>>
    /\ nextStateDb = <<>>
    /\ \E r \in Rewards :
          data = [s \in Slots |-> IF s = first THEN [reward |-> r, against |-> "previous"]
                                               ELSE Garbage]
    /\ base = [t \in Threads |-> Null]
    /\ fresh = [t \in Threads |-> Null]
    /\ inputs = [t \in Threads |-> 0]
    /\ pc = [t \in Threads |-> "pop"]

\* popState returned s: the worker will run some inputs on it.  Inputs that lead to
\* repeated, failed or late states do not reach the database and are not counted.
StartBase(t, s) ==
    /\ base' = [base EXCEPT ![t] = s]
    /\ \E n \in 0 .. MaxInputs : inputs' = [inputs EXCEPT ![t] = n]
    /\ pc' = [pc EXCEPT ![t] = "run"]
    /\ UNCHANGED <<nextStateDb, data, fresh>>

\* popState returned nullptr: the worker leaves its loop.
StopWorker(t) ==
    /\ pc' = [pc EXCEPT ![t] = "done"]
    /\ UNCHANGED <<currentStateDb, nextStateDb, data, base, fresh, inputs>>

\* getFreeState returned s, whose contents are dead.
StartFresh(t, s) ==
    /\ fresh' = [fresh EXCEPT ![t] = s]
    /\ data' = [data EXCEPT ![s] = Garbage]
    /\ pc' = [pc EXCEPT ![t] = "store"]
    /\ UNCHANGED <<nextStateDb, base, inputs>>

\* getFreeState returned nullptr: the new state is dropped (droppedNoStorage).
DropState(t) ==
    /\ inputs' = [inputs EXCEPT ![t] = @ - 1]
    /\ pc' = [pc EXCEPT ![t] = "run"]
    /\ UNCHANGED <<currentStateDb, nextStateDb, data, base, fresh>>

\* Where the multimap may insert a state of reward r: behind the larger rewards and
\* before the smaller ones.
InsertionPoints_Unordered(r) == 1 .. Len(nextStateDb) + 1
InsertionPoints(r) ==
    {i \in 1 .. Len(nextStateDb) + 1 :
        \A j \in 1 .. Len(nextStateDb) : IF j < i THEN Reward(nextStateDb[j]) >= r
                                                  ELSE Reward(nextStateDb[j]) <= r}

\* pushState: the state is encoded against _currentReferenceData into the slot, and
\* the slot joins the next database.
PushState(t) ==
    /\ pc[t] = "store"
    /\ \E r \in Rewards :
          /\ data' = [data EXCEPT ![fresh[t]] = [reward |-> r, against |-> "current"]]
          /\ \E i \in InsertionPoints(r) : nextStateDb' = InsertAt(nextStateDb, i, fresh[t])
    /\ fresh' = [fresh EXCEPT ![t] = Null]
    /\ inputs' = [inputs EXCEPT ![t] = @ - 1]
    /\ pc' = [pc EXCEPT ![t] = "run"]
    /\ UNCHANGED <<currentStateDb, base>>

\* The new state is a win, kept elsewhere, or did not fit in the slot (pushState
\* returned false): the worker is done with the slot.
ReleaseFresh(t) ==
    /\ fresh' = [fresh EXCEPT ![t] = Null]
    /\ data' = [data EXCEPT ![fresh[t]] = Garbage]
    /\ inputs' = [inputs EXCEPT ![t] = @ - 1]
    /\ pc' = [pc EXCEPT ![t] = "run"]
    /\ UNCHANGED <<currentStateDb, nextStateDb, base>>

\* All inputs have been run: the worker is done with the base state.
ReleaseBase(t) ==
    /\ base' = [base EXCEPT ![t] = Null]
    /\ data' = [data EXCEPT ![base[t]] = Garbage]
    /\ pc' = [pc EXCEPT ![t] = "pop"]
    /\ UNCHANGED <<currentStateDb, nextStateDb, fresh, inputs>>

\* The reference buffers are swapped and, if there is a best state, what was the
\* previous reference is overwritten with it.
AfterSwap_CopyFirst(ref) ==
    CASE ref = "current"  -> IF currentStateDb \o nextStateDb # <<>> THEN "overwritten"
                                                                    ELSE "previous"
      [] ref = "previous" -> "current"
      [] OTHER            -> "overwritten"
AfterSwap(ref) ==
    CASE ref = "current"  -> "previous"
      [] ref = "previous" -> IF currentStateDb \o nextStateDb # <<>> THEN "overwritten"
                                                                    ELSE "current"
      [] OTHER            -> "overwritten"

\* advanceStep, called by the main thread after the barrier; then the next parallel
\* region starts.
AdvanceStep ==
    /\ \A t \in Threads : pc[t] = "done"
    /\ currentStateDb' = currentStateDb \o nextStateDb
    /\ nextStateDb' = <<>>
    /\ data' = [s \in Slots |-> IF data[s] = Garbage
                                THEN Garbage
                                ELSE [data[s] EXCEPT !.against = AfterSwap(@)]]
    /\ pc' = [t \in Threads |-> "pop"]
    /\ UNCHANGED <<base, fresh, inputs>>
-----------------------------------------------------------------------------
(* Properties stated for both kinds of database.                           *)

Held(t) == {base[t], fresh[t]} \ {Null}

\* The base states are ordered by reward: the first one is what Driver saves as the
\* best state and the last one as the worst (getBestState, getWorstState), and the
\* one that is given up for a new state is the worst one left.
CurrentSorted ==
    \A i, j \in 1 .. Len(currentStateDb) :
        i < j => Reward(currentStateDb[i]) >= Reward(currentStateDb[j])
=============================================================================
