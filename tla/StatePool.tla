----------------------------- MODULE StatePool ------------------------------
(***************************************************************************)
(* What a state database promises to the engine: a fixed pool of slots,    *)
(* each of which is free, holds a base state of the current step, holds a  *)
(* state of the next step, or is in the hands of one worker thread.        *)
(* Workers take base states until none is left; a worker that finds none   *)
(* may stop while others are still working, but the last one to stop       *)
(* leaves no base state unprocessed.  StateDbPlain and StateDbNuma         *)
(* implement this specification.                                           *)
(***************************************************************************)
EXTENDS Integers, FiniteSets

CONSTANTS Threads,   \* the worker threads
          Slots,     \* the state slots
          Null       \* no slot: not one of Slots

VARIABLES free,      \* the free slots
          current,   \* slots with base states that no worker has taken
          next,      \* slots with states stored for the next step
          base,      \* the base state each worker is processing, or Null
          fresh,     \* the slot each worker is about to fill, or Null
          active     \* the workers that have not stopped in this step

vars == <<free, current, next, base, fresh, active>>

TypeOK == /\ free \subseteq Slots /\ current \subseteq Slots /\ next \subseteq Slots
          /\ base \in [Threads -> Slots \union {Null}]
          /\ fresh \in [Threads -> Slots \union {Null}]
          /\ active \subseteq Threads

Init == \E first \in Slots :
           /\ free = Slots \ {first}
           /\ current = {first}
           /\ next = {}
           /\ base = [t \in Threads |-> Null]
           /\ fresh = [t \in Threads |-> Null]
           /\ active = Threads

TakeBase(t) == /\ t \in active /\ base[t] = Null
               /\ \E s \in current : /\ base' = [base EXCEPT ![t] = s]
                                     /\ current' = current \ {s}
               /\ UNCHANGED <<free, next, fresh, active>>

\* A worker stops.  If base states are left, another worker goes on.
Stop(t) == /\ t \in active /\ base[t] = Null
           /\ current # {} => active # {t}
           /\ active' = active \ {t}
           /\ UNCHANGED <<free, current, next, base, fresh>>

TakeFree(t) == /\ base[t] # Null /\ fresh[t] = Null
               /\ \E s \in free : /\ fresh' = [fresh EXCEPT ![t] = s]
                                  /\ free' = free \ {s}
               /\ UNCHANGED <<current, next, base, active>>

\* Short of storage, a base state is given up for a new state.
Evict(t) == /\ base[t] # Null /\ fresh[t] = Null
            /\ \E s \in current : /\ fresh' = [fresh EXCEPT ![t] = s]
                                  /\ current' = current \ {s}
            /\ UNCHANGED <<free, next, base, active>>

Store(t) == /\ fresh[t] # Null
            /\ next' = next \union {fresh[t]}
            /\ fresh' = [fresh EXCEPT ![t] = Null]
            /\ UNCHANGED <<free, current, base, active>>

GiveBack(t) == /\ fresh[t] # Null
               /\ free' = free \union {fresh[t]}
               /\ fresh' = [fresh EXCEPT ![t] = Null]
               /\ UNCHANGED <<current, next, base, active>>

FinishBase(t) == /\ base[t] # Null /\ fresh[t] = Null
                 /\ free' = free \union {base[t]}
                 /\ base' = [base EXCEPT ![t] = Null]
                 /\ UNCHANGED <<current, next, fresh, active>>

EndStep == /\ active = {}
           /\ current' = current \union next
           /\ next' = {}
           /\ active' = Threads
           /\ UNCHANGED <<free, base, fresh>>

Next == \/ \E t \in Threads : \/ TakeBase(t) \/ Stop(t) \/ TakeFree(t) \/ Evict(t)
                              \/ Store(t) \/ GiveBack(t) \/ FinishBase(t)
        \/ EndStep

Spec == Init /\ [][Next]_vars
-----------------------------------------------------------------------------
\* The slots outside the two databases and the free list that workers hold.
Held(t) == {base[t], fresh[t]} \ {Null}

\* Every slot is in exactly one place: none leaks, none is handed out twice, so
\* that no worker writes into a state another one reads.
SlotsConserved ==
    /\ free \union current \union next \union UNION {Held(t) : t \in Threads} = Slots
    /\ free \intersect current = {} /\ free \intersect next = {} /\ current \intersect next = {}
    /\ \A t \in Threads : /\ Held(t) \intersect (free \union current \union next) = {}
                          /\ base[t] # Null => base[t] # fresh[t]
                          /\ fresh[t] # Null => base[t] # Null
    /\ \A t, u \in Threads : t # u => Held(t) \intersect Held(u) = {}

\* When the workers have stopped, no base state is left and nobody holds a slot.
NothingLeftBehind ==
    active = {} => /\ current = {}
                   /\ \A t \in Threads : Held(t) = {}
=============================================================================
