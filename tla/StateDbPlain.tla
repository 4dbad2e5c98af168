---------------------------- MODULE StateDbPlain ----------------------------
(***************************************************************************)
(* The "Plain" state database (source/stateDb/plain.hpp): one queue of     *)
(* free slots shared by all workers.  getFreeState falls back on the back  *)
(* of the deque of base states, from whose front the workers pop, so the   *)
(* two ends compete for the last base states of a step.                    *)
(*                                                                         *)
(* The order in which the free queue returns slots means nothing: it is a  *)
(* set.  It can hold as many slots as there are.                           *)
(***************************************************************************)
EXTENDS StateDb

VARIABLES free,    \* _freeStateQueue
          thrown   \* a worker found the free queue full and threw

vars == <<baseVars, free, thrown>>

TypeOK == /\ BaseTypeOK
          /\ pc \in [Threads -> {"pop", "run", "steal", "store", "done"}]
          /\ free \subseteq Slots
          /\ thrown \in BOOLEAN

Init == \E first \in Slots : /\ BaseInit(first)
                             /\ free = Slots \ {first}
                             /\ thrown = FALSE

\* popState: the best base state left ...
PopState(t) == /\ pc[t] = "pop"
               /\ currentStateDb # <<>>
               /\ currentStateDb' = Tail(currentStateDb)
               /\ StartBase(t, Head(currentStateDb))
               /\ UNCHANGED <<free, thrown>>

\* ... or nullptr.
PopNothing_OneLeft(t) == /\ pc[t] = "pop"
                         /\ Len(currentStateDb) <= 1
                         /\ StopWorker(t)
                         /\ UNCHANGED <<free, thrown>>
PopNothing(t) == /\ pc[t] = "pop"
                 /\ currentStateDb = <<>>
                 /\ StopWorker(t)
                 /\ UNCHANGED <<free, thrown>>

\* getFreeState, from the free queue.
PopFree(t) == /\ pc[t] = "run" /\ inputs[t] > 0
              /\ \E s \in free : /\ free' = free \ {s}
                                 /\ StartFresh(t, s)
              /\ UNCHANGED <<currentStateDb, thrown>>

\* The free queue is empty: another call, to the deque, follows.
FreeEmpty(t) == /\ pc[t] = "run" /\ inputs[t] > 0
                /\ free = {}
                /\ pc' = [pc EXCEPT ![t] = "steal"]
                /\ UNCHANGED <<currentStateDb, nextStateDb, data, base, fresh, inputs, free, thrown>>

\* The base state given up for the new one.
Victim == Last(currentStateDb)
WithoutVictim_Stale == currentStateDb
WithoutVictim == Front(currentStateDb)

StealState_FromFront(t) == /\ pc[t] = "steal"
                           /\ currentStateDb # <<>>
                           /\ currentStateDb' = Tail(currentStateDb)
                           /\ StartFresh(t, Head(currentStateDb))
                           /\ UNCHANGED <<free, thrown>>
StealState(t) == /\ pc[t] = "steal"
                 /\ currentStateDb # <<>>
                 /\ currentStateDb' = WithoutVictim
                 /\ StartFresh(t, Victim)
                 /\ UNCHANGED <<free, thrown>>

StealNothing_Unchecked(t) == /\ pc[t] = "steal"
                             /\ currentStateDb = <<>>
                             /\ StartFresh(t, Null)
                             /\ UNCHANGED <<currentStateDb, free, thrown>>
StealNothing_Retries(t) == /\ pc[t] = "steal"
                           /\ currentStateDb = <<>>
                           /\ pc' = [pc EXCEPT ![t] = "run"]
                           /\ UNCHANGED <<currentStateDb, nextStateDb, data, base, fresh, inputs, free, thrown>>
StealNothing(t) == /\ pc[t] = "steal"
                   /\ currentStateDb = <<>>
                   /\ DropState(t)
                   /\ UNCHANGED <<free, thrown>>

\* returnFreeState(s): the queue has room for as many slots as there are.
ReturnFreeState(s) == IF Cardinality(free) < Cardinality(Slots)
                      THEN free' = free \union {s} /\ UNCHANGED thrown
                      ELSE thrown' = TRUE /\ UNCHANGED free

Push(t) == PushState(t) /\ UNCHANGED <<free, thrown>>

\* A win has been recorded, or serialization has failed.
ReturnFresh(t) == /\ pc[t] = "store"
                  /\ ReturnFreeState(fresh[t])
                  /\ ReleaseFresh(t)

ReturnBase(t) == /\ pc[t] = "run" /\ inputs[t] = 0
                 /\ ReturnFreeState(base[t])
                 /\ ReleaseBase(t)

Advance == AdvanceStep /\ UNCHANGED <<free, thrown>>

Worker(t) == \/ PopState(t) \/ PopNothing(t) \/ PopFree(t) \/ FreeEmpty(t)
             \/ StealState(t) \/ StealNothing(t)
             \/ Push(t) \/ ReturnFresh(t) \/ ReturnBase(t)

Next == (\E t \in Threads : Worker(t)) \/ Advance

Spec == Init /\ [][Next]_vars

\* The operating system runs every worker thread, and no call blocks for ever.
FairSpec == Spec /\ \A t \in Threads : WF_vars(Worker(t))
-----------------------------------------------------------------------------
(* Properties.                                                             *)

\* Each slot is in one place only: in the free queue, in one of the databases or in
\* the hands of one worker.  So nobody overwrites a state that another thread reads,
\* the pool does not shrink, and a returned slot always fits ("This must be a bug in
\* Jaffar", plain.hpp:95, is never thrown).
SlotsConserved ==
    /\ ~thrown
    /\ free \union ToSet(currentStateDb) \union ToSet(nextStateDb)
            \union UNION {Held(t) : t \in Threads} = Slots
    /\ \A s \in Slots :
          Cardinality({i \in DOMAIN currentStateDb : currentStateDb[i] = s})
           + Cardinality({i \in DOMAIN nextStateDb : nextStateDb[i] = s})
           + Cardinality({t \in Threads : base[t] = s})
           + Cardinality({t \in Threads : fresh[t] = s})
           + (IF s \in free THEN 1 ELSE 0) = 1

\* A base state is read back against the reference buffer it was encoded with
\* (loadStateIntoRunner decodes against the previous reference data), although the
\* buffers are swapped and overwritten between storing and loading.
BaseDecodable ==
    /\ \A t \in Threads : base[t] # Null => /\ data[base[t]] # Garbage
                                            /\ data[base[t]].against = "previous"
    /\ \A s \in ToSet(nextStateDb) : data[s].against = "current"

\* Storage is taken from a base state only when no free slot was found, and then from
\* one whose reward no base state left unprocessed undercuts.
EvictsWorst ==
    [][\A t \in Threads : pc[t] = "steal" /\ pc'[t] = "store" =>
          \A s \in ToSet(currentStateDb) : Reward(fresh'[t]) <= Reward(s)]_vars

\* Every parallel step ends: the workers neither spin nor wait for each other.
StepEnds == []<>(\A t \in Threads : pc[t] = "done")

Pool == INSTANCE StatePool WITH
          current <- ToSet(currentStateDb),
          next    <- ToSet(nextStateDb),
          active  <- {t \in Threads : pc[t] # "done"}

\* The database is a StatePool: in particular the last worker to stop leaves no
\* base state unprocessed.
ImplementsStatePool == Pool!Spec
=============================================================================
