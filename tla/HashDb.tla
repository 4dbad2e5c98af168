------------------------------- MODULE HashDb -------------------------------
(***************************************************************************)
(* The hash database of source/hashDb.hpp, with which the engine's worker  *)
(* threads recognise states they have already reached.  It keeps a deque   *)
(* of hash stores.  Only the newest one is written; the older ones are     *)
(* read.  Worker threads call checkHashExists concurrently, one atomic     *)
(* set operation per store; between two steps of the search the main       *)
(* thread alone calls advanceStep (the barrier that ends runStep's         *)
(* parallel region, source/engine.hpp:223).                                *)
(*                                                                         *)
(* Stores are named by their ids, which are handed out consecutively, so   *)
(* the deque is the interval oldest .. newest and the store at position p  *)
(* from the newest has the id newest - p.  The query and collision         *)
(* counters and the stores' ages are only printed and are left out; a      *)
(* position is what indexes those counters.                                *)
(***************************************************************************)
EXTENDS Integers, FiniteSets, FiniteSetsExt

CONSTANTS Threads,          \* the worker threads
          Hashes,           \* the state hashes
          MaxStoreCount,    \* "Max Store Count" of the configuration
          MaxStoreEntries,  \* entries above which the newest store is retired
          MaxAge            \* bound: steps of the search explored

\* A count of zero stores leaves the first query with no counter to increase.
ASSUME HashDbAssumption == /\ MaxStoreCount \in Nat \ {0}
                           /\ MaxStoreEntries \in Nat
                           /\ MaxAge \in Nat

VARIABLES oldest, newest,   \* ids of the front and back of _hashStores
          hashSet,          \* contents of each store
          age,              \* _currentAge
          pc,               \* what each thread's last call is doing or returned
          hash,             \* argument of that call
          position,         \* curHashStoreIdx of that call
          novelAt           \* history: newest id when a hash was last called new

vars == <<oldest, newest, hashSet, age, pc, hash, position, novelAt>>
deque == <<oldest, newest, hashSet, age>>

StoreIds == oldest .. newest
StoreAt(p) == newest - p
Never == -MaxStoreCount

TypeOK == /\ oldest \in Nat /\ newest \in Nat /\ oldest <= newest
          /\ newest - oldest < MaxStoreCount
          /\ hashSet \in [StoreIds -> SUBSET Hashes]
          /\ age \in 0 .. MaxAge
          /\ pc \in [Threads -> {"idle", "checking", "repeated", "novel"}]
          /\ hash \in [Threads -> Hashes]
          /\ position \in [Threads -> 0 .. MaxStoreCount - 1]
          /\ novelAt \in [Hashes -> Int]
-----------------------------------------------------------------------------
\* initialize creates the first store; Engine::initialize then inserts the hash
\* of the initial state into it (insertHash).
Init == /\ oldest = 0 /\ newest = 0
        /\ age = 0
        /\ pc = [t \in Threads |-> "idle"]
        /\ position = [t \in Threads |-> 0]
        /\ \E first \in Hashes :
              /\ hash = [t \in Threads |-> first]
              /\ hashSet = [i \in {0} |-> {first}]
              /\ novelAt = [h \in Hashes |-> IF h = first THEN 0 ELSE Never]

\* A worker calls checkHashExists(h).
Call(t, h) == /\ pc[t] # "checking"
              /\ pc' = [pc EXCEPT ![t] = "checking"]
              /\ hash' = [hash EXCEPT ![t] = h]
              /\ position' = [position EXCEPT ![t] = 0]
              /\ UNCHANGED <<deque, novelAt>>

\* The call returns true: a collision.
ReturnRepeated(t) == /\ pc' = [pc EXCEPT ![t] = "repeated"]
                     /\ UNCHANGED <<position, novelAt>>

\* The loop moves to the next older store, or returns false past the oldest.
MoveOn(t) == IF StoreAt(position[t]) > oldest
             THEN /\ position' = [position EXCEPT ![t] = @ + 1]
                  /\ UNCHANGED <<pc, novelAt>>
             ELSE /\ pc' = [pc EXCEPT ![t] = "novel"]
                  /\ novelAt' = [novelAt EXCEPT ![hash[t]] = newest]
                  /\ UNCHANGED position

\* Position 0: an atomic insertion, which says whether the hash was there.
ProbeNewest_NoInsert(t) ==
    /\ pc[t] = "checking" /\ position[t] = 0
    /\ UNCHANGED hashSet
    /\ IF hash[t] \in hashSet[newest] THEN ReturnRepeated(t) ELSE MoveOn(t)
    /\ UNCHANGED <<oldest, newest, age, hash>>

ProbeNewest(t) ==
    /\ pc[t] = "checking" /\ position[t] = 0
    /\ hashSet' = [hashSet EXCEPT ![newest] = @ \union {hash[t]}]
    /\ IF hash[t] \in hashSet[newest] THEN ReturnRepeated(t) ELSE MoveOn(t)
    /\ UNCHANGED <<oldest, newest, age, hash>>

\* Further positions: a lookup only.
ProbeOlder(t) ==
    /\ pc[t] = "checking" /\ position[t] > 0
    /\ IF hash[t] \in hashSet[StoreAt(position[t])] THEN ReturnRepeated(t) ELSE MoveOn(t)
    /\ UNCHANGED <<deque, hash>>

\* The oldest store is discarded only when all the stores are in use.
OldestKept_Always == oldest
OldestKept_OneTooFew == IF newest - oldest + 2 = MaxStoreCount THEN oldest + 1 ELSE oldest
OldestKept == IF newest - oldest + 1 = MaxStoreCount THEN oldest + 1 ELSE oldest

\* The barrier: no call is running.  Workers have used the answers they got.
AdvanceStep ==
    /\ \A t \in Threads : pc[t] # "checking"
    /\ age < MaxAge
    /\ IF Cardinality(hashSet[newest]) > MaxStoreEntries
       THEN /\ oldest' = OldestKept
            /\ newest' = newest + 1
            /\ hashSet' = [i \in oldest' .. newest' |->
                             IF i = newest' THEN {} ELSE hashSet[i]]
       ELSE UNCHANGED <<oldest, newest, hashSet>>
    /\ age' = age + 1
    /\ pc' = [t \in Threads |-> "idle"]
    /\ position' = [t \in Threads |-> 0]
    /\ UNCHANGED <<hash, novelAt>>

Next == \/ \E t \in Threads, h \in Hashes : Call(t, h)
        \/ \E t \in Threads : ProbeNewest(t) \/ ProbeOlder(t)
        \/ AdvanceStep

Spec == Init /\ [][Next]_vars
-----------------------------------------------------------------------------
(* Properties.                                                             *)

\* Of all the threads that check a hash, at most one is told that it is new,
\* until MaxStoreCount stores later: each state enters the next database once
\* (source/engine.hpp:561-565), however the calls interleave.
NovelOnce ==
    [][\A t \in Threads : pc[t] = "checking" /\ pc'[t] = "novel"
                             => newest - novelAt[hash[t]] >= MaxStoreCount]_vars

\* The refinement mapping.  A call takes effect at its insertion into the newest
\* store: what the older ones will answer is settled, as nobody writes to them.
IdsHolding(h) == {i \in StoreIds : h \in hashSet[i]}
LastSeen(h) == IF IdsHolding(h) = {} THEN -1 ELSE Max(IdsHolding(h))
WillCollide(t) == \E i \in oldest .. StoreAt(position[t]) : hash[t] \in hashSet[i]
Answer(t) == CASE pc[t] # "checking" -> pc[t]
               [] pc[t] = "checking" /\ position[t] = 0 -> "pending"
               [] pc[t] = "checking" /\ position[t] > 0 ->
                    IF WillCollide(t) THEN "repeated" ELSE "novel"

Window == INSTANCE SeenWindow WITH
            generation <- newest,
            lastSeen   <- [h \in Hashes |-> LastSeen(h)],
            asked      <- hash,
            answer     <- [t \in Threads |-> Answer(t)]

\* The loop over the stores, interleaved with other threads' insertions, answers
\* as if each check were one atomic step over a window of MaxStoreCount stores:
\* no repeated state is missed, no new state is taken for a repeated one.
RefinesSeenWindow == Window!Spec
=============================================================================
