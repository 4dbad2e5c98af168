---------------------------- MODULE StateDbNuma -----------------------------
(***************************************************************************)
(* The "Numa Aware" state database (source/stateDb/numa.hpp).  The slots   *)
(* are split over one buffer, and one queue of free slots, per NUMA        *)
(* domain.  A worker prefers base states of its own domain: it looks in    *)
(* its domain's scavenger queue, then pops up to ScavengingDepth states    *)
(* off the deque, putting those of other domains into their scavenger      *)
(* queues, and at last takes what it finds in the other scavenger queues.  *)
(* Each of these accesses is one atomic operation on one queue; between    *)
(* two of them a state may be in a worker's hands only.                    *)
(*                                                                         *)
(* Addresses count slots: domain d's buffer is Start[d] .. End(d) - 1.     *)
(***************************************************************************)
EXTENDS StateDb

CONSTANTS NumaCount,        \* _numaCount
          Start,            \* _internalBuffersStart
          MaxStates,        \* _maxStatesPerNuma
          Preferred,        \* preferredNumaDomain of each thread
          ScavengingDepth   \* "Scavenging Depth" of the configuration

Domains == 0 .. NumaCount - 1
End(d) == Start[d] + MaxStates[d]       \* _internalBuffersEnd
Buffer(d) == Start[d] .. End(d) - 1

\* With a depth of zero nothing is ever popped off the deque.
ASSUME NumaAssumption ==
    /\ NumaCount \in Nat \ {0}
    /\ Start \in [Domains -> Nat]
    /\ MaxStates \in [Domains -> Nat \ {0}]
    /\ Slots = UNION {Buffer(d) : d \in Domains}
    /\ \A c, d \in Domains : c # d => Buffer(c) \intersect Buffer(d) = {}
    /\ Preferred \in [Threads -> Domains]
    /\ ScavengingDepth \in Nat \ {0}

VARIABLES free,        \* _freeStateQueues
          scavenger,   \* _scavengerQueues
          carried,     \* the state a worker has popped and not yet queued, or Null
          depth,       \* states the worker has popped in this call of popState
          untried,     \* domains the worker's loop has still to look into
          thrown       \* a worker found a free queue full and threw

numaVars == <<free, scavenger, carried, depth, untried, thrown>>
vars == <<baseVars, numaVars>>

TypeOK == /\ BaseTypeOK
          /\ pc \in [Threads -> {"pop", "scavenge", "place", "others",
                                 "run", "otherFree", "steal", "store", "done"}]
          /\ free \in [Domains -> SUBSET Slots]
          /\ scavenger \in [Domains -> Seq(Slots)]
          /\ carried \in [Threads -> Slots \union {Null}]
          /\ depth \in [Threads -> 0 .. ScavengingDepth]
          /\ untried \in [Threads -> SUBSET Domains]
          /\ thrown \in BOOLEAN

\* getStateNumaDomain: the first domain whose buffer bounds enclose the slot.  The
\* end of a buffer, one past its last slot, counts as enclosed.
GetStateNumaDomain_First(s) == 0
GetStateNumaDomain(s) == Min({d \in Domains : Start[d] <= s /\ s <= End(d)})

Init == \E first \in Slots :
           /\ BaseInit(first)
           /\ free = [d \in Domains |-> Buffer(d) \ {first}]
           /\ scavenger = [d \in Domains |-> <<>>]
           /\ carried = [t \in Threads |-> Null]
           /\ depth = [t \in Threads |-> 0]
           /\ untried = [t \in Threads |-> {}]
           /\ thrown = FALSE

Others(t) == Domains \ {Preferred[t]}
-----------------------------------------------------------------------------
(* popState                                                                *)

PopOwnScavenger(t) ==
    /\ pc[t] = "pop"
    /\ scavenger[Preferred[t]] # <<>>
    /\ StartBase(t, Head(scavenger[Preferred[t]]))
    /\ scavenger' = [scavenger EXCEPT ![Preferred[t]] = Tail(@)]
    /\ UNCHANGED <<currentStateDb, free, carried, depth, untried, thrown>>

OwnScavengerEmpty(t) ==
    /\ pc[t] = "pop"
    /\ scavenger[Preferred[t]] = <<>>
    /\ pc' = [pc EXCEPT ![t] = "scavenge"]
    /\ UNCHANGED <<currentStateDb, nextStateDb, data, base, fresh, inputs, numaVars>>

\* The best state left is of the worker's own domain ...
PopCurrent(t) ==
    /\ pc[t] = "scavenge" /\ depth[t] < ScavengingDepth
    /\ currentStateDb # <<>>
    /\ GetStateNumaDomain(Head(currentStateDb)) = Preferred[t]
    /\ currentStateDb' = Tail(currentStateDb)
    /\ StartBase(t, Head(currentStateDb))
    /\ depth' = [depth EXCEPT ![t] = 0]
    /\ UNCHANGED <<free, scavenger, carried, untried, thrown>>

\* ... or of another one: it is popped first and queued by a second operation.
PopForeign(t) ==
    /\ pc[t] = "scavenge" /\ depth[t] < ScavengingDepth
    /\ currentStateDb # <<>>
    /\ GetStateNumaDomain(Head(currentStateDb)) # Preferred[t]
    /\ currentStateDb' = Tail(currentStateDb)
    /\ carried' = [carried EXCEPT ![t] = Head(currentStateDb)]
    /\ pc' = [pc EXCEPT ![t] = "place"]
    /\ UNCHANGED <<nextStateDb, data, base, fresh, inputs,
                   free, scavenger, depth, untried, thrown>>

PlaceForeign_Back(t) ==
    /\ pc[t] = "place"
    /\ currentStateDb' = Append(currentStateDb, carried[t])
    /\ carried' = [carried EXCEPT ![t] = Null]
    /\ depth' = [depth EXCEPT ![t] = @ + 1]
    /\ pc' = [pc EXCEPT ![t] = "scavenge"]
    /\ UNCHANGED <<nextStateDb, data, base, fresh, inputs, free, scavenger, untried, thrown>>
PlaceForeign(t) ==
    /\ pc[t] = "place"
    /\ scavenger' = [scavenger EXCEPT ![GetStateNumaDomain(carried[t])] = <<carried[t]>> \o @]
    /\ carried' = [carried EXCEPT ![t] = Null]
    /\ depth' = [depth EXCEPT ![t] = @ + 1]
    /\ pc' = [pc EXCEPT ![t] = "scavenge"]
    /\ UNCHANGED <<currentStateDb, nextStateDb, data, base, fresh, inputs, free, untried, thrown>>

StopScavenging_OwnOnly(t) ==
    /\ pc[t] = "scavenge"
    /\ depth[t] = ScavengingDepth \/ currentStateDb = <<>>
    /\ pc' = [pc EXCEPT ![t] = "others"]
    /\ depth' = [depth EXCEPT ![t] = 0]
    /\ UNCHANGED <<currentStateDb, nextStateDb, data, base, fresh, inputs,
                   free, scavenger, carried, untried, thrown>>
StopScavenging(t) ==
    /\ pc[t] = "scavenge"
    /\ depth[t] = ScavengingDepth \/ currentStateDb = <<>>
    /\ pc' = [pc EXCEPT ![t] = "others"]
    /\ untried' = [untried EXCEPT ![t] = Others(t)]
    /\ depth' = [depth EXCEPT ![t] = 0]
    /\ UNCHANGED <<currentStateDb, nextStateDb, data, base, fresh, inputs,
                   free, scavenger, carried, thrown>>

PopOtherScavenger_Copies(t) ==
    /\ pc[t] = "others" /\ untried[t] # {}
    /\ LET d == Min(untried[t]) IN
          /\ scavenger[d] # <<>>
          /\ StartBase(t, Head(scavenger[d]))
    /\ untried' = [untried EXCEPT ![t] = {}]
    /\ UNCHANGED <<currentStateDb, free, scavenger, carried, depth, thrown>>
PopOtherScavenger(t) ==
    /\ pc[t] = "others" /\ untried[t] # {}
    /\ LET d == Min(untried[t]) IN
          /\ scavenger[d] # <<>>
          /\ StartBase(t, Head(scavenger[d]))
          /\ scavenger' = [scavenger EXCEPT ![d] = Tail(@)]
    /\ untried' = [untried EXCEPT ![t] = {}]
    /\ UNCHANGED <<currentStateDb, free, carried, depth, thrown>>

OtherScavengerEmpty(t) ==
    /\ pc[t] = "others" /\ untried[t] # {}
    /\ scavenger[Min(untried[t])] = <<>>
    /\ untried' = [untried EXCEPT ![t] = @ \ {Min(@)}]
    /\ UNCHANGED <<baseVars, free, scavenger, carried, depth, thrown>>

PopNothing(t) ==
    /\ pc[t] = "others" /\ untried[t] = {}
    /\ StopWorker(t)
    /\ UNCHANGED numaVars
-----------------------------------------------------------------------------
(* getFreeState                                                            *)

PopOwnFree(t) ==
    /\ pc[t] = "run" /\ inputs[t] > 0
    /\ \E s \in free[Preferred[t]] :
          /\ free' = [free EXCEPT ![Preferred[t]] = @ \ {s}]
          /\ StartFresh(t, s)
    /\ UNCHANGED <<currentStateDb, scavenger, carried, depth, untried, thrown>>

OwnFreeEmpty(t) ==
    /\ pc[t] = "run" /\ inputs[t] > 0
    /\ free[Preferred[t]] = {}
    /\ pc' = [pc EXCEPT ![t] = "otherFree"]
    /\ untried' = [untried EXCEPT ![t] = Others(t)]
    /\ UNCHANGED <<currentStateDb, nextStateDb, data, base, fresh, inputs,
                   free, scavenger, carried, depth, thrown>>

PopOtherFree(t) ==
    /\ pc[t] = "otherFree" /\ untried[t] # {}
    /\ LET d == Min(untried[t]) IN
          \E s \in free[d] : /\ free' = [free EXCEPT ![d] = @ \ {s}]
                             /\ StartFresh(t, s)
    /\ untried' = [untried EXCEPT ![t] = {}]
    /\ UNCHANGED <<currentStateDb, scavenger, carried, depth, thrown>>

OtherFreeEmpty(t) ==
    /\ pc[t] = "otherFree" /\ untried[t] # {}
    /\ free[Min(untried[t])] = {}
    /\ untried' = [untried EXCEPT ![t] = @ \ {Min(@)}]
    /\ UNCHANGED <<baseVars, free, scavenger, carried, depth, thrown>>

AllFreeEmpty(t) ==
    /\ pc[t] = "otherFree" /\ untried[t] = {}
    /\ pc' = [pc EXCEPT ![t] = "steal"]
    /\ UNCHANGED <<currentStateDb, nextStateDb, data, base, fresh, inputs, numaVars>>

StealState_FromFront(t) ==
    /\ pc[t] = "steal"
    /\ currentStateDb # <<>>
    /\ currentStateDb' = Tail(currentStateDb)
    /\ StartFresh(t, Head(currentStateDb))
    /\ UNCHANGED numaVars
StealState(t) ==
    /\ pc[t] = "steal"
    /\ currentStateDb # <<>>
    /\ currentStateDb' = Front(currentStateDb)
    /\ StartFresh(t, Last(currentStateDb))
    /\ UNCHANGED numaVars

StealNothing_Unchecked(t) ==
    /\ pc[t] = "steal"
    /\ currentStateDb = <<>>
    /\ StartFresh(t, Null)
    /\ UNCHANGED <<currentStateDb, numaVars>>
StealNothing_Retries(t) ==
    /\ pc[t] = "steal"
    /\ currentStateDb = <<>>
    /\ pc' = [pc EXCEPT ![t] = "run"]
    /\ UNCHANGED <<currentStateDb, nextStateDb, data, base, fresh, inputs, numaVars>>
StealNothing(t) ==
    /\ pc[t] = "steal"
    /\ currentStateDb = <<>>
    /\ DropState(t)
    /\ UNCHANGED numaVars
-----------------------------------------------------------------------------
(* returnFreeState, the rest of the worker's loop, and the barrier         *)

\* Each queue has room for as many slots as its domain's buffer.
ReturnFreeState(s) ==
    LET d == GetStateNumaDomain(s) IN
    /\ IF Cardinality(free[d]) < MaxStates[d]
       THEN free' = [free EXCEPT ![d] = @ \union {s}] /\ UNCHANGED thrown
       ELSE thrown' = TRUE /\ UNCHANGED free
    /\ UNCHANGED <<scavenger, carried, depth, untried>>

Push(t) == PushState(t) /\ UNCHANGED numaVars

ReturnFresh(t) == /\ pc[t] = "store"
                  /\ ReturnFreeState(fresh[t])
                  /\ ReleaseFresh(t)

ReturnBase(t) == /\ pc[t] = "run" /\ inputs[t] = 0
                 /\ ReturnFreeState(base[t])
                 /\ ReleaseBase(t)

Advance == AdvanceStep /\ UNCHANGED numaVars

Worker(t) == \/ PopOwnScavenger(t) \/ OwnScavengerEmpty(t)
             \/ PopCurrent(t) \/ PopForeign(t) \/ PlaceForeign(t) \/ StopScavenging(t)
             \/ PopOtherScavenger(t) \/ OtherScavengerEmpty(t) \/ PopNothing(t)
             \/ PopOwnFree(t) \/ OwnFreeEmpty(t)
             \/ PopOtherFree(t) \/ OtherFreeEmpty(t) \/ AllFreeEmpty(t)
             \/ StealState(t) \/ StealNothing(t)
             \/ Push(t) \/ ReturnFresh(t) \/ ReturnBase(t)

Next == (\E t \in Threads : Worker(t)) \/ Advance

Spec == Init /\ [][Next]_vars

\* The operating system runs every worker thread, and no call blocks for ever.
FairSpec == Spec /\ \A t \in Threads : WF_vars(Worker(t))
-----------------------------------------------------------------------------
(* Properties.                                                             *)

\* Base states that no worker has started: in the deque, in a scavenger queue, or on
\* the way from the one to the other.
Scavenged == UNION {ToSet(scavenger[d]) : d \in Domains}
Carried == {carried[t] : t \in Threads} \ {Null}
Unprocessed == ToSet(currentStateDb) \union Scavenged \union Carried

Count(q, s) == Cardinality({i \in DOMAIN q : q[i] = s})

\* Each slot is in one place only: in one free queue, in one database or scavenger
\* queue, or in the hands of one worker; and no free queue ever overflows.
SlotsConserved ==
    /\ ~thrown
    /\ \A s \in Slots :
          Count(currentStateDb, s) + Count(nextStateDb, s)
           + Count(base, s) + Count(fresh, s) + Count(carried, s)
           + Cardinality({p \in UNION {{d} \X DOMAIN scavenger[d] : d \in Domains} :
                            scavenger[p[1]][p[2]] = s})
           + Cardinality({d \in Domains : s \in free[d]}) = 1

\* A slot goes back to the free queue of the domain whose buffer it lies in, and a
\* base state is set aside for that domain's workers ("Finding out to which database
\* this state pointer belongs to", numa.hpp:197).
SlotsAtHome == \A d \in Domains : /\ free[d] \subseteq Buffer(d)
                                  /\ ToSet(scavenger[d]) \subseteq Buffer(d)

\* As StateDbPlain!BaseDecodable: scavenging does not carry a state over into a step
\* whose reference buffers no longer match it.
BaseDecodable ==
    /\ \A t \in Threads : base[t] # Null => /\ data[base[t]] # Garbage
                                            /\ data[base[t]].against = "previous"
    /\ \A s \in ToSet(nextStateDb) : data[s].against = "current"

\* Storage is taken from a base state whose reward is least among all those left
\* unprocessed, those that were set aside for other domains included.
EvictsWorst ==
    [][\A t \in Threads : pc[t] = "steal" /\ pc'[t] = "store" =>
          \A s \in Unprocessed : Reward(fresh'[t]) <= Reward(s)]_vars

\* Every parallel step ends: scavenging does not pass states around for ever.
StepEnds == []<>(\A t \in Threads : pc[t] = "done")

Pool == INSTANCE StatePool WITH
          free    <- UNION {free[d] : d \in Domains},
          current <- Unprocessed,
          next    <- ToSet(nextStateDb),
          active  <- {t \in Threads : pc[t] # "done"}

\* The database is a StatePool: although a worker may find every queue empty while a
\* state is on its way to a scavenger queue, the last worker to stop leaves none.
ImplementsStatePool == Pool!Spec
=============================================================================
