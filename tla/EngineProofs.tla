---------------------------- MODULE EngineProofs -----------------------------
(***************************************************************************)
(* For every game, any number of threads and any sizes of the databases:   *)
(* the engine's variables have their types and no slot is lost, no two     *)
(* states of a step have the same hash, the best win of a step is its      *)
(* best, and a step past the cutoff of a checkpoint that did not move      *)
(* keeps only states that meet it.                                         *)
(*                                                                         *)
(* What has to be added is what a worker knows about the state in its      *)
(* runner between two of its steps: that nobody else has a state with its  *)
(* hash (Sole), and that its level is no less than that of its base state  *)
(* (Loaded), which is all that is compared with the checkpoint.            *)
(*                                                                         *)
(* Where the search is complete, the engine implements the breadth-first   *)
(* search, and so finds the first wins.                                    *)
(***************************************************************************)
EXTENDS EngineSearch, FiniteFacts, WellFoundedInduction

\* Where a worker has no state loaded; where it holds a slot for the new one; where the
\* new one's hash has been found new; and where it has met the checkpoint.
Idle    == {"pop", "done"}
Filling == {"store", "release"}
Fresh   == {"cutoff", "level", "type", "free", "steal", "store"}
Met     == {"type", "free", "steal", "store"}
Moving  == {"setTolerance", "setCutoff"}

\* The program is terminated as a whole.
AllOrNone == \A t, u \in Threads : pc[t] = "terminated" => pc[u] = "terminated"

Phase == /\ running => step < MaxSteps
         /\ ~running => nextDb = <<>> /\ \A t \in Threads : pc[t] = "done"
         /\ running => \A t \in Threads : pc[t] = "done" => currentDb = <<>>
         /\ \A t \in Threads : pc[t] \in Moving => moved

Loaded ==
    /\ trying \in [Threads -> {<<>>} \union (Keys \X Inputs)]
    /\ \A t \in Threads :
          /\ pc[t] \in Idle => base[t] = NoState
          /\ pc[t] \notin Idle \union {"terminated"} =>
                /\ base[t] \in States /\ state[t] \in States
                /\ Game[state[t]].level >= Game[base[t]].level

Window ==
    /\ generation \in Nat
    /\ lastSeen \in [Hashes -> Nat \union {Seen!Forgotten}]
    /\ asked \in [Threads -> Hashes]
    /\ answer \in [Threads -> Seen!Answers]
    /\ \A t \in Threads : pc[t] = "hash" => asked[t] = StateHash(state[t], step + 1)

\* A slot is free, holds a base or a new state in a database, or is in a worker's hands.
Bases   == {t \in Threads : base[t] # NoState}
Fillers == {t \in Threads : pc[t] \in Filling}
SlotsCounted ==
    \/ \E t \in Threads : pc[t] = "terminated"
    \/ freeSlots + Len(currentDb) + Len(nextDb)
         + Cardinality(Bases) + Cardinality(Fillers) = MaxStates

SeenNow(s) == lastSeen[StateHash(s, step + 1)] # Seen!Forgotten
Sole ==
    /\ Distinct(nextDb)
    /\ \A r, s \in ToSet(nextDb) : Game[r].hash = Game[s].hash => r = s
    /\ \A s \in ToSet(nextDb) : SeenNow(s)
    /\ \A t \in Threads : pc[t] \in Fresh =>
          /\ SeenNow(state[t])
          /\ \A s \in ToSet(nextDb) : Game[s].hash # Game[state[t]].hash
          /\ \A u \in Threads : pc[u] \in Fresh /\ u # t => Game[state[u]].hash # Game[state[t]].hash

Best == IF wins = {} THEN bestWin = NoState
        ELSE /\ bestWin \in wins
             /\ \A w \in wins : Reward(w) <= Reward(bestWin)

Meets(s) == Game[s].level >= level
Pruned ==
    /\ running /\ ~moved /\ step > cutoff =>
          /\ \A s \in ToSet(nextDb) : Meets(s)
          /\ \A t \in Threads : pc[t] \in Met => Meets(state[t])
    /\ CheckpointPrunes

IInv == TypeOK /\ AllOrNone /\ Phase /\ Loaded /\ Window /\ SlotsCounted /\ Sole /\ Best /\ Pruned
-----------------------------------------------------------------------------
(* What the steps rest on.                                                 *)

\* A set of input indices has a least one, however many there are.
LEMMA LeastInput ==
  ASSUME NEW S, S \subseteq Nat, S # {}
  PROVE  Min(S) \in S
  <1> DEFINE Less == OpToRel(<, Nat)
  <1>1. \E n \in S : \A m \in S : <<m, n>> \notin Less
    <2> HIDE DEF Less
    <2>1. IsWellFoundedOn(Less, Nat)
      BY NatLessThanWellFounded DEF Less
    <2> QED
      BY <2>1, WFMin
  <1>2. PICK n \in S : \A m \in S : ~(m < n)
    BY <1>1 DEF OpToRel
  <1>3. \A m \in S : n <= m
    BY <1>2
  <1> QED
    BY <1>3 DEF Min

LEMMA Holders ==
  ASSUME NEW A, A \subseteq Threads, NEW t \in Threads
  PROVE  /\ Cardinality(A) \in Nat
         /\ t \notin A => Cardinality(A \union {t}) = Cardinality(A) + 1
         /\ t \in A => Cardinality(A \ {t}) = Cardinality(A) - 1
  <1>1. IsFiniteSet(A)
    BY EngineAssumption, FS_Subset
  <1> QED
    BY <1>1, FS_CardinalityType, FS_AddElement, FS_RemoveElement

LEMMA HashesOfSteps ==
  ASSUME NEW s \in States, NEW n \in Nat
  PROVE  StateHash(s, n) \in Hashes
  <1>1. n % (HashStepTolerance + 1) \in 0 .. HashStepTolerance
    BY EngineAssumption
  <1> QED
    BY <1>1 DEF StateHash, Hashes, GameHashes

\* The last of the base states is taken.
LEMMA Shortened ==
  ASSUME NEW seq \in Seq(States), seq # <<>>
  PROVE  Front(seq) \in Seq(States) /\ Len(Front(seq)) = Len(seq) - 1
  <1>1. Len(seq) \in Nat \ {0}
    BY EmptySeq, LenProperties
  <1>2. \A i \in 1 .. Len(seq) - 1 : seq[i] \in States
    BY <1>1, ElementOfSeq
  <1> DEFINE n == Len(seq) - 1
  <1>3. n \in Nat /\ n = Len(seq) - 1
    BY <1>1
  <1> HIDE DEF n
  <1>4. /\ SubSeq(seq, 1, n) \in Seq(States)
        /\ Len(SubSeq(seq, 1, n)) = IF 1 <= n THEN n - 1 + 1 ELSE 0
    BY <1>2, <1>3, SubSeqProperties
  <1>5. (IF 1 <= n THEN n - 1 + 1 ELSE 0) = n
    BY <1>3
  <1> QED
    BY <1>3, <1>4, <1>5 DEF Front

\* The part of the invariant about the places of the workers, the hashes and the
\* checkpoint is kept by a step of t that leaves the hash database and the next database
\* alone, whatever else it does.
LEMMA Keeps ==
  ASSUME IInv, NEW t \in Threads, NEW place,
         pc[t] \notin {"done", "terminated"},
         pc' = [pc EXCEPT ![t] = place], place \notin {"hash", "terminated"},
         UNCHANGED <<mainVars, nextDb, hashVars>>,
         (currentDb = <<>> \/ place = "done") => currentDb' = <<>>,
         moved' \/ UNCHANGED <<level, cutoff, moved>>, moved => moved',
         place \in Moving => moved',
         \A u \in Threads : u # t => state'[u] = state[u],
         place \in Fresh => pc[t] \in Fresh /\ state'[t] = state[t],
         place \in Met => pc[t] \in Met \/ (step > cutoff => Meets(state[t]))
  PROVE  AllOrNone' /\ Phase' /\ Window' /\ Sole' /\ Pruned'
  <1> USE DEF IInv, mainVars, hashVars
  <1>1. running /\ \A u \in Threads : pc'[u] = IF u = t THEN place ELSE pc[u]
    BY DEF Phase, TypeOK
  <1>2. AllOrNone'
    BY <1>1 DEF AllOrNone
  <1>3. Phase'
    BY <1>1 DEF Phase
  <1>4. Window'
    BY <1>1 DEF Window, StateHash
  <1>5. \A u \in Threads : pc'[u] \in Fresh => pc[u] \in Fresh /\ state'[u] = state[u]
    BY <1>1
  <1>6. Sole'
    BY <1>5 DEF Sole, SeenNow, StateHash
  <1>7. Pruned'
    BY <1>1, <1>5 DEF Pruned, CheckpointPrunes, Meets, Fresh, Met
  <1> QED
    BY <1>2, <1>3, <1>4, <1>6, <1>7

\* What is known of a worker that is about to take a step.
LEMMA Working ==
  ASSUME IInv, NEW t \in Threads, pc[t] \notin {"done", "terminated"}
  PROVE  /\ running /\ step \in Nat /\ step + 1 <= MaxSteps
         /\ \A u \in Threads : pc[u] # "terminated"
         /\ Len(currentDb) \in Nat /\ Len(nextDb) \in Nat
         /\ Cardinality(Bases) \in Nat /\ Cardinality(Fillers) \in Nat
         /\ freeSlots + Len(currentDb) + Len(nextDb)
              + Cardinality(Bases) + Cardinality(Fillers) = MaxStates
         /\ pc[t] # "pop" => /\ base[t] \in States /\ state[t] \in States
                             /\ base[t] # NoState
                             /\ RunnerLevel(t) \in Nat
                             /\ Game[state[t]].level >= RunnerLevel(t)
  <1>1. Len(currentDb) \in Nat /\ Len(nextDb) \in Nat
    BY LenProperties DEF IInv, TypeOK
  <1>2. Cardinality(Bases) \in Nat /\ Cardinality(Fillers) \in Nat
    <2>1. Bases \subseteq Threads /\ Fillers \subseteq Threads
      BY DEF Bases, Fillers
    <2> QED
      BY <2>1, Holders
  <1>3. \A u \in Threads : pc[u] # "terminated"
    BY DEF IInv, AllOrNone
  <1>4. running /\ step \in Nat /\ step + 1 <= MaxSteps
    BY EngineAssumption DEF IInv, Phase, TypeOK
  <1>5. pc[t] # "pop" => /\ base[t] \in States /\ state[t] \in States /\ base[t] # NoState
                         /\ Game[state[t]].level >= Game[base[t]].level
    BY EngineAssumption DEF IInv, Loaded, Idle
  <1>6. \A s \in States : Game[s].level \in Nat
    BY EngineAssumption
  <1>7. pc[t] # "pop" => RunnerLevel(t) \in Nat /\ Game[state[t]].level >= RunnerLevel(t)
    BY <1>5, <1>6 DEF RunnerLevel
  <1> QED
    BY <1>1, <1>2, <1>3, <1>4, <1>5, <1>7 DEF IInv, SlotsCounted

\* A step that gives or takes no slot.
LEMMA SameSlots ==
  ASSUME IInv, NEW t \in Threads, pc[t] \notin {"done", "terminated"}, NEW place,
         pc' = [pc EXCEPT ![t] = place], place \in Filling <=> pc[t] \in Filling,
         UNCHANGED <<dbVars, base>>
  PROVE  SlotsCounted'
  <1>1. \A u \in Threads : pc'[u] = IF u = t THEN place ELSE pc[u]
    BY DEF IInv, TypeOK
  <1>2. Fillers' = Fillers
    BY <1>1 DEF Fillers
  <1>3. Bases' = Bases
    BY DEF Bases
  <1> QED
    BY <1>2, <1>3, Working DEF SlotsCounted, dbVars

LEMMA SameBest == ASSUME Best, UNCHANGED winVars PROVE Best'
  BY DEF Best, Reward, winVars
-----------------------------------------------------------------------------
LEMMA InitInv == Init => IInv
  <1> SUFFICES ASSUME Init PROVE IInv
    OBVIOUS
  <1> USE EngineAssumption DEF Init
  <1>1. TypeOK
    <2>1. currentDb \in Seq(States) /\ nextDb \in Seq(States)
      OBVIOUS
    <2>2. step \in 0 .. MaxSteps /\ freeSlots \in 0 .. MaxStates
      OBVIOUS
    <2>3. pc \in [Threads -> {"pop"}] /\ base \in [Threads -> {NoState}]
      OBVIOUS
    <2>4. detected \in [Keys -> SUBSET Inputs] /\ todo \in [Threads -> SUBSET Inputs]
      OBVIOUS
    <2>5. runnerTol \in [Threads -> Nat]
      <3>1. PICK first \in Threads : runnerTol = [t \in Threads |->
               IF t = first /\ Game[Initial].level > 0 THEN Game[Initial].tolerance ELSE 0]
        OBVIOUS
      <3>2. Game[Initial].tolerance \in Nat
        OBVIOUS
      <3> QED
        BY <3>1, <3>2
    <2> QED
      BY <2>1, <2>2, <2>3, <2>4, <2>5 DEF TypeOK, Outcomes
  <1>2. AllOrNone /\ Phase /\ Best
    BY DEF AllOrNone, Phase, Best, Moving
  <1>3. Loaded
    BY DEF Loaded, Idle
  <1>4. Window
    <2>1. StateHash(Initial, 0) \in Hashes
      BY HashesOfSteps
    <2> QED
      BY <2>1 DEF Window, Seen!Init, Seen!Answers, Seen!Forgotten
  <1>5. SlotsCounted
    <2>1. Bases = {} /\ Fillers = {}
      BY DEF Bases, Fillers, Filling
    <2>2. Cardinality({}) = 0
      BY FS_EmptySet
    <2>3. Len(currentDb) = 1 /\ Len(nextDb) = 0
      OBVIOUS
    <2> QED
      BY <2>1, <2>2, <2>3 DEF SlotsCounted
  <1>6. Sole
    <2>1. nextDb \in Seq(States) /\ Len(nextDb) = 0 /\ ToSet(nextDb) = {}
      BY DEF ToSet
    <2> QED
      BY <2>1 DEF Sole, Distinct, Fresh
  <1>7. Pruned
    BY DEF Pruned, CheckpointPrunes
  <1> QED
    BY <1>1, <1>2, <1>3, <1>4, <1>5, <1>6, <1>7 DEF IInv

LEMMA PopInv == ASSUME IInv, NEW t \in Threads, PopBase(t) \/ PopNothing(t) PROVE IInv'
  <1> USE EngineAssumption
  <1>1. CASE PopNothing(t)
    <2> USE <1>1 DEF PopNothing, Goto, mainVars, dbVars, hashVars, checkpointVars, winVars,
                     loopVars, runnerVars
    <2>1. TypeOK'
      BY DEF IInv, TypeOK
    <2>2. Loaded'
      BY DEF IInv, TypeOK, Loaded, Idle
    <2>3. SlotsCounted'
      BY SameSlots DEF Filling
    <2>4. AllOrNone' /\ Phase' /\ Window' /\ Sole' /\ Pruned'
      BY Keeps DEF Fresh, Met, Moving
    <2>5. Best'
      BY SameBest DEF IInv
    <2> QED
      BY <2>1, <2>2, <2>3, <2>4, <2>5 DEF IInv
  <1>2. CASE PopBase(t)
    <2> USE <1>2 DEF PopBase, Goto, mainVars, dbVars, hashVars, checkpointVars, winVars,
                     runnerVars
    <2>1. /\ Head(currentDb) \in States /\ Tail(currentDb) \in Seq(States)
          /\ Len(Tail(currentDb)) = Len(currentDb) - 1
      BY HeadTailProperties DEF IInv, TypeOK
    <2>2. TypeOK'
      BY <2>1 DEF IInv, TypeOK
    <2>3. Loaded'
      BY <2>1 DEF IInv, TypeOK, Loaded, Idle
    <2>4. SlotsCounted'
      <3>1. Bases' = Bases \union {t} /\ t \notin Bases /\ Bases \subseteq Threads
        BY <2>1 DEF Bases, IInv, TypeOK, Loaded, Idle
      <3>2. Fillers' = Fillers
        BY DEF Fillers, Filling, IInv, TypeOK
      <3>3. Cardinality(Bases') = Cardinality(Bases) + 1
        BY <3>1, Holders
      <3>4. freeSlots \in Nat /\ MaxStates \in Nat
        BY DEF IInv, TypeOK
      <3>5. /\ freeSlots + Len(currentDb) + Len(nextDb)
                 + Cardinality(Bases) + Cardinality(Fillers) = MaxStates
            /\ Len(currentDb) \in Nat /\ Len(nextDb) \in Nat /\ Cardinality(Bases) \in Nat
            /\ Cardinality(Fillers) \in Nat
        BY Working
      <3>6. /\ Len(currentDb') = Len(currentDb) - 1
            /\ UNCHANGED <<freeSlots, Len(nextDb), Cardinality(Fillers)>>
        BY <2>1, <3>2
      <3>7. freeSlots' + Len(currentDb') + Len(nextDb')
              + Cardinality(Bases') + Cardinality(Fillers') = MaxStates
        BY ONLY <3>3, <3>4, <3>5, <3>6
      <3> QED
        BY <3>7 DEF SlotsCounted
    <2>5. AllOrNone' /\ Phase' /\ Window' /\ Sole' /\ Pruned'
      <3>1. \A u \in Threads : u # t => state'[u] = state[u]
        BY DEF IInv, TypeOK
      <3> QED
        BY <3>1, Keeps DEF Fresh, Met, Moving
    <2>6. Best'
      BY SameBest DEF IInv
    <2> QED
      BY <2>2, <2>3, <2>4, <2>5, <2>6 DEF IInv
  <1> QED
    BY <1>1, <1>2

\* The loops over the inputs: what does not run one.
LEMMA LoopInv ==
  ASSUME IInv, NEW t \in Threads,
         GetCandidateInputs(t) \/ SkipCandidateInput(t) \/ FinishBase(t)
  PROVE  IInv'
  <1> USE EngineAssumption
  <1>1. CASE GetCandidateInputs(t)
    <2> USE <1>1 DEF GetCandidateInputs, mainVars, dbVars, hashVars, checkpointVars, winVars,
                     runnerVars
    <2>0. pc[t] = "loop" /\ pc' = [pc EXCEPT ![t] = "loop"] /\ state[t] \in States
      BY Working DEF IInv, TypeOK
    <2>1. TypeOK'
      BY <2>0 DEF IInv, TypeOK
    <2>2. Loaded'
      BY DEF IInv, Loaded, Idle
    <2>3. SlotsCounted'
      BY <2>0, SameSlots DEF Filling
    <2>4. AllOrNone' /\ Phase' /\ Window' /\ Sole' /\ Pruned'
      BY <2>0, Keeps DEF Fresh, Met, Moving
    <2>5. Best'
      BY SameBest DEF IInv
    <2> QED
      BY <2>1, <2>2, <2>3, <2>4, <2>5 DEF IInv
  <1>2. CASE SkipCandidateInput(t)
    <2> USE <1>2 DEF SkipCandidateInput, mainVars, dbVars, hashVars, checkpointVars, winVars,
                     runnerVars
    <2>0. pc[t] = "loop" /\ pc' = [pc EXCEPT ![t] = "loop"]
      BY DEF IInv, TypeOK
    <2>1. TypeOK'
      BY DEF IInv, TypeOK
    <2>2. Loaded'
      BY DEF IInv, Loaded, Idle
    <2>3. SlotsCounted'
      BY <2>0, SameSlots DEF Filling
    <2>4. AllOrNone' /\ Phase' /\ Window' /\ Sole' /\ Pruned'
      BY <2>0, Keeps DEF Fresh, Met, Moving
    <2>5. Best'
      BY SameBest DEF IInv
    <2> QED
      BY <2>1, <2>2, <2>3, <2>4, <2>5 DEF IInv
  <1>3. CASE FinishBase(t)
    <2> USE <1>3 DEF FinishBase, Goto, mainVars, dbVars, hashVars, checkpointVars, winVars
    <2>1. SlotsCounted' /\ freeSlots' \in 0 .. MaxStates
      <3>1. Bases' = Bases \ {t} /\ t \in Bases /\ Bases \subseteq Threads
        BY Working DEF Bases, IInv, TypeOK
      <3>2. Fillers' = Fillers
        BY DEF Fillers, Filling, IInv, TypeOK
      <3>3. Cardinality(Bases') = Cardinality(Bases) - 1 /\ Cardinality(Bases') \in Nat
        BY <3>1, Holders
      <3>4. freeSlots \in Nat /\ MaxStates \in Nat
        BY DEF IInv, TypeOK
      <3>5. /\ freeSlots + Len(currentDb) + Len(nextDb)
                 + Cardinality(Bases) + Cardinality(Fillers) = MaxStates
            /\ Len(currentDb) \in Nat /\ Len(nextDb) \in Nat /\ Cardinality(Bases) \in Nat
            /\ Cardinality(Fillers) \in Nat
        BY Working
      <3>6. /\ freeSlots' = freeSlots + 1
            /\ UNCHANGED <<Len(currentDb), Len(nextDb), Cardinality(Fillers)>>
        BY <3>2
      <3>7. /\ freeSlots' + Len(currentDb') + Len(nextDb')
                 + Cardinality(Bases') + Cardinality(Fillers') = MaxStates
            /\ freeSlots' \in 0 .. MaxStates
        BY ONLY <3>3, <3>4, <3>5, <3>6
      <3> QED
        BY <3>7 DEF SlotsCounted
    <2>2. TypeOK'
      BY <2>1 DEF IInv, TypeOK
    <2>3. Loaded'
      BY DEF IInv, TypeOK, Loaded, Idle
    <2>4. AllOrNone' /\ Phase' /\ Window' /\ Sole' /\ Pruned'
      <3>1. \A u \in Threads : u # t => state'[u] = state[u]
        BY DEF IInv, TypeOK
      <3> QED
        BY <3>1, Keeps DEF Fresh, Met, Moving
    <2>5. Best'
      BY SameBest DEF IInv
    <2> QED
      BY <2>1, <2>2, <2>3, <2>4, <2>5 DEF IInv
  <1> QED
    BY <1>1, <1>2, <1>3

\* An input is run.  The new state is past the base state in level, and asked about.
LEMMA RunInv ==
  ASSUME IInv, NEW t \in Threads, RunAllowedInput(t) \/ RunCandidateInput(t)
  PROVE  IInv'
  <1> USE EngineAssumption
  <1> DEFINE i   == Min(todo[t])
             new == Game[base[t]].next[i]
             h   == StateHash(new, step + 1)
  <1>1. pc[t] = "loop" /\ todo[t] \subseteq Inputs /\ i \in Inputs
    <2>1. pc[t] = "loop" /\ todo[t] \subseteq Nat /\ todo[t] # {} /\ todo[t] \subseteq Inputs
      BY DEF RunAllowedInput, RunCandidateInput, IInv, TypeOK
    <2> QED
      BY <2>1, LeastInput
  <1>2. /\ RunNewInput(t, i)
        /\ trying' = trying \/ trying' = [trying EXCEPT ![t] = <<Game[state[t]].key, i>>]
    BY DEF RunAllowedInput, RunCandidateInput
  <1>3. base[t] \in States /\ state[t] \in States /\ step \in Nat
    BY <1>1, Working
  <1>4. new \in States /\ Game[new].level >= Game[base[t]].level /\ h \in Hashes
    <2>1. new \in States /\ Game[new].level >= Game[base[t]].level
      BY <1>1, <1>3
    <2>2. step + 1 \in Nat
      BY <1>3
    <2> QED
      BY <2>1, <2>2, HashesOfSteps
  <1> HIDE DEF i, new, h
  <1>5. /\ state' = [state EXCEPT ![t] = new]
        /\ typed' = [typed EXCEPT ![t] = FALSE]
        /\ todo' = [todo EXCEPT ![t] = @ \ {i}]
        /\ asked' = [asked EXCEPT ![t] = h]
        /\ answer' = [answer EXCEPT ![t] = "pending"]
        /\ pc' = [pc EXCEPT ![t] = "hash"]
        /\ UNCHANGED <<generation, lastSeen, mainVars, dbVars, checkpointVars, winVars, base,
                       stage, detected, runnerTol, outcome>>
    BY <1>2 DEF RunNewInput, Seen!Ask, Goto, i, new, h
  <1> USE DEF mainVars, dbVars, checkpointVars, winVars
  <1>6. running /\ \A u \in Threads : pc'[u] = IF u = t THEN "hash" ELSE pc[u]
    BY <1>1, <1>5, Working DEF IInv, TypeOK
  <1>7. TypeOK'
    BY <1>4, <1>5 DEF IInv, TypeOK
  <1>8. AllOrNone' /\ Phase'
    BY <1>1, <1>5, <1>6 DEF IInv, AllOrNone, Phase, Moving
  <1>9. Loaded'
    <2>1. \A u \in Threads : /\ base'[u] = base[u] /\ state'[u] = IF u = t THEN new ELSE state[u]
      BY <1>5 DEF IInv, TypeOK
    <2>2. trying' \in [Threads -> {<<>>} \union (Keys \X Inputs)]
      <3>1. <<Game[state[t]].key, i>> \in Keys \X Inputs
        BY <1>1, <1>3
      <3> HIDE DEF IInv
      <3>2. trying \in [Threads -> {<<>>} \union (Keys \X Inputs)]
        BY DEF IInv, Loaded
      <3> QED
        BY <1>2, <3>1, <3>2
    <2> QED
      BY <1>1, <1>3, <1>4, <1>6, <2>1, <2>2 DEF IInv, Loaded, Idle
  <1>10. Window'
    <2>1. /\ asked' \in [Threads -> Hashes] /\ answer' \in [Threads -> Seen!Answers]
      BY <1>4, <1>5 DEF IInv, Window, Seen!Answers
    <2>2. ASSUME NEW u \in Threads, pc'[u] = "hash"
          PROVE  asked'[u] = StateHash(state'[u], step' + 1)
      BY <1>5, <1>6, <2>2 DEF IInv, Window, TypeOK, h, StateHash
    <2>3. \A s, n : StateHash(s, n)' = StateHash(s', n')
      BY DEF StateHash
    <2>4. \A u \in Threads : StateHash(state[u], step + 1)' = StateHash(state'[u], step' + 1)
      BY DEF StateHash
    <2> QED
      BY <1>5, <2>1, <2>2, <2>4 DEF IInv, Window
  <1>11. SlotsCounted'
    BY <1>1, <1>5, SameSlots DEF Filling
  <1>12. Sole'
    <2>1. \A u \in Threads : pc'[u] \in Fresh => pc[u] \in Fresh /\ state'[u] = state[u]
      BY <1>5, <1>6 DEF IInv, TypeOK, Fresh
    <2> QED
      BY <1>5, <2>1 DEF IInv, Sole, SeenNow, StateHash
  <1>13. Best'
    BY <1>5, SameBest DEF IInv
  <1>14. Pruned'
    <2>1. \A u \in Threads : pc'[u] \in Met => pc[u] \in Met /\ state'[u] = state[u]
      BY <1>5, <1>6 DEF IInv, TypeOK, Met
    <2> QED
      BY <1>5, <1>6, <2>1 DEF IInv, Pruned, CheckpointPrunes, Meets
  <1> QED
    BY <1>7, <1>8, <1>9, <1>10, <1>11, <1>12, <1>13, <1>14 DEF IInv
-----------------------------------------------------------------------------
(* runInput.                                                               *)

\* The answer "new" is given to one caller only, whose hash is seen from then on.
LEMMA HashInv == ASSUME IInv, NEW t \in Threads, CheckHash(t) PROVE IInv'
  <1> USE EngineAssumption
  <1> DEFINE h == StateHash(state[t], step + 1)
             isNew == lastSeen[h] = Seen!Forgotten
  <1>1. pc[t] = "hash" /\ asked[t] = h /\ h \in Hashes
    <2>1. state[t] \in States /\ step + 1 \in Nat
      BY Working DEF CheckHash
    <2> QED
      BY <2>1, HashesOfSteps DEF CheckHash, IInv, Window
  <1>2. /\ answer' = [answer EXCEPT ![t] = IF isNew THEN "novel" ELSE "repeated"]
        /\ lastSeen' = [lastSeen EXCEPT ![h] = generation]
        /\ UNCHANGED <<generation, asked>>
    BY <1>1 DEF CheckHash, Seen!Reply
  <1>3. UNCHANGED <<mainVars, dbVars, checkpointVars, winVars, loopVars, runnerVars>>
    BY DEF CheckHash
  <1>4. outcome' = outcome \/ outcome' = [outcome EXCEPT ![t] = "repeated"]
    BY DEF CheckHash, Return, Proceed
  <1>5. pc' = [pc EXCEPT ![t] = IF isNew THEN "cutoff" ELSE "count"]
    BY <1>2 DEF CheckHash, Return, Proceed, Goto, IInv, Window
  <1> HIDE DEF h, isNew
  <1> USE <1>3 DEF mainVars, dbVars, checkpointVars, winVars, loopVars, runnerVars
  <1>6. running /\ \A u \in Threads : pc'[u] = IF u = t THEN IF isNew THEN "cutoff" ELSE "count"
                                                ELSE pc[u]
    BY <1>1, <1>5, Working DEF IInv, TypeOK
  <1>7. TypeOK'
    BY <1>4, <1>5 DEF IInv, TypeOK, Outcomes
  <1>8. AllOrNone' /\ Phase'
    BY <1>1, <1>6 DEF IInv, AllOrNone, Phase, Moving
  <1>9. Loaded'
    BY <1>1, <1>6 DEF IInv, Loaded, Idle
  <1>10. Window'
    <2>1. \A u \in Threads : pc'[u] = "hash" => pc[u] = "hash"
      BY <1>6
    <2>2. answer' \in [Threads -> Seen!Answers]
      BY <1>2 DEF IInv, Window, Seen!Answers
    <2>3. lastSeen' \in [Hashes -> Nat \union {Seen!Forgotten}]
      BY <1>1, <1>2 DEF IInv, Window
    <2> QED
      BY <1>2, <2>1, <2>2, <2>3 DEF IInv, Window, StateHash
  <1>11. SlotsCounted'
    BY <1>1, <1>5, SameSlots DEF Filling
  <1>12. Sole'
    <2>1. \A g \in Hashes : lastSeen'[g] # Seen!Forgotten <=> lastSeen[g] # Seen!Forgotten \/ g = h
      BY <1>1, <1>2 DEF IInv, Window, Seen!Forgotten
    <2>2. \A s \in States : StateHash(s, step + 1) \in Hashes
      BY Working, HashesOfSteps, <1>1
    <2>3. \A s \in States : SeenNow(s)' <=> SeenNow(s) \/ StateHash(s, step + 1) = h
      BY <2>1, <2>2 DEF SeenNow, StateHash
    <2>4. \A s \in States : StateHash(s, step + 1) = h <=> Game[s].hash = Game[state[t]].hash
      BY DEF h, StateHash
    <2>5. /\ ToSet(nextDb) \subseteq States
          /\ \A u \in Threads : pc'[u] \in Fresh => state[u] \in States
      <3>1. ToSet(nextDb) \subseteq States
        BY Members DEF IInv, TypeOK
      <3> QED
        BY <1>1, <1>6, <3>1 DEF IInv, Loaded, Fresh, Idle
    <2>6. \A u \in Threads : pc'[u] \in Fresh => pc[u] \in Fresh \/ (u = t /\ isNew)
      BY <1>6 DEF Fresh
    <2>7. ASSUME isNew PROVE \A s \in States : SeenNow(s) => Game[s].hash # Game[state[t]].hash
      BY <2>4, <2>7 DEF isNew, SeenNow
    <2>8. pc[t] \notin Fresh
      BY <1>1 DEF Fresh
    <2>9. \A s \in ToSet(nextDb) : SeenNow(s)
      BY DEF IInv, Sole
    <2>10. \A u \in Threads : pc[u] \in Fresh => SeenNow(state[u])
      BY DEF IInv, Sole
    <2>11. ASSUME NEW u \in Threads, pc'[u] \in Fresh
           PROVE  /\ SeenNow(state[u])'
                  /\ \A s \in ToSet(nextDb) : Game[s].hash # Game[state[u]].hash
                  /\ \A v \in Threads : pc'[v] \in Fresh /\ v # u
                                          => Game[state[v]].hash # Game[state[u]].hash
      <3>1. SeenNow(state[u])'
        BY <2>3, <2>4, <2>5, <2>6, <2>10, <2>11 DEF SeenNow, StateHash
      <3>2. \A s \in ToSet(nextDb) : Game[s].hash # Game[state[u]].hash
        BY <2>5, <2>6, <2>7, <2>9, <2>11 DEF IInv, Sole
      <3>3. \A v \in Threads : pc'[v] \in Fresh /\ v # u
                                 => Game[state[v]].hash # Game[state[u]].hash
        BY <2>5, <2>6, <2>7, <2>8, <2>10, <2>11 DEF IInv, Sole
      <3> QED
        BY <3>1, <3>2, <3>3
    <2>12. \A s \in ToSet(nextDb) : SeenNow(s)'
      BY <2>3, <2>5, <2>9
    <2> QED
      BY <2>11, <2>12 DEF IInv, Sole
  <1>13. Best'
    BY SameBest DEF IInv
  <1>14. Pruned'
    <2>1. \A u \in Threads : pc'[u] \in Met => pc[u] \in Met
      BY <1>6 DEF Met
    <2> QED
      BY <1>6, <2>1 DEF IInv, Pruned, CheckpointPrunes, Meets
  <1> QED
    BY <1>7, <1>8, <1>9, <1>10, <1>11, <1>12, <1>13, <1>14 DEF IInv

\* A step that only decides where a worker goes on, and that may write the checkpoint.
LEMMA Goes ==
  ASSUME IInv, NEW t \in Threads, NEW place,
         pc[t] \notin Idle \union {"terminated"},
         pc' = [pc EXCEPT ![t] = place], place \notin Idle \union {"hash", "terminated"},
         place \in Filling <=> pc[t] \in Filling,
         UNCHANGED <<mainVars, dbVars, hashVars, base, state>>,
         trying' = trying \/ trying' = [trying EXCEPT ![t] = <<>>],
         moved' \/ UNCHANGED <<level, cutoff, moved>>, moved => moved',
         place \in Moving => moved',
         place \in Fresh => pc[t] \in Fresh,
         place \in Met => pc[t] \in Met \/ (step > cutoff => Meets(state[t])),
         TypeOK', Best'
  PROVE  IInv'
  <1>1. pc[t] \notin {"done", "terminated"}
    BY DEF Idle
  <1>2. AllOrNone' /\ Phase' /\ Window' /\ Sole' /\ Pruned'
    BY <1>1, Keeps DEF Idle, dbVars
  <1>3. SlotsCounted'
    BY <1>1, SameSlots
  <1>4. Loaded'
    <2>1. \A u \in Threads : pc'[u] = IF u = t THEN place ELSE pc[u]
      BY DEF IInv, TypeOK
    <2>2. trying \in [Threads -> {<<>>} \union (Keys \X Inputs)]
      BY DEF IInv, Loaded
    <2>3. trying' \in [Threads -> {<<>>} \union (Keys \X Inputs)]
      BY ONLY t \in Threads, <2>2, trying' = trying \/ trying' = [trying EXCEPT ![t] = <<>>]
    <2> QED
      BY <2>1, <2>3 DEF IInv, Loaded
  <1> QED
    BY <1>2, <1>3, <1>4 DEF IInv

\* The checkpoint's cutoff and level are looked at.  A state that is past the first
\* meets the second, as its base state does.
LEMMA CheckInv ==
  ASSUME IInv, NEW t \in Threads, CheckCutoff(t) \/ CheckLevel(t)
  PROVE  IInv'
  <1>1. /\ UNCHANGED <<mainVars, dbVars, hashVars, base, state>>
        /\ trying' = trying /\ UNCHANGED <<level, cutoff, moved>>
        /\ UNCHANGED <<winVars, checkpointVars, loopVars, runnerVars>>
    BY DEF CheckCutoff, CheckLevel, checkpointVars, loopVars, runnerVars
  <1>2. outcome' = outcome \/ outcome' = [outcome EXCEPT ![t] = "droppedCheckpoint"]
    BY DEF CheckCutoff, CheckLevel, Return, Proceed
  <1>3. \/ /\ pc[t] = "cutoff"
           /\ \/ pc' = [pc EXCEPT ![t] = "level"]
              \/ pc' = [pc EXCEPT ![t] = "type"] /\ ~(step > cutoff)
        \/ /\ pc[t] = "level"
           /\ \/ pc' = [pc EXCEPT ![t] = "count"]
              \/ pc' = [pc EXCEPT ![t] = "type"] /\ ~(RunnerLevel(t) < level)
    BY DEF CheckCutoff, CheckLevel, Return, Proceed, Goto
  <1>4. TypeOK'
    BY <1>1, <1>2, <1>3 DEF IInv, TypeOK, Outcomes, mainVars, dbVars, checkpointVars, winVars,
                            loopVars, runnerVars
  <1>5. Best'
    BY <1>1, SameBest DEF IInv
  <1>6. pc[t] = "level" /\ ~(RunnerLevel(t) < level) => Meets(state[t])
    <2> SUFFICES ASSUME pc[t] = "level", ~(RunnerLevel(t) < level) PROVE Meets(state[t])
      OBVIOUS
    <2>1. /\ RunnerLevel(t) \in Nat /\ level \in Nat /\ Game[state[t]].level \in Nat
          /\ Game[state[t]].level >= RunnerLevel(t)
      BY EngineAssumption, Working DEF IInv, TypeOK
    <2> QED
      BY <2>1 DEF Meets
  <1> QED
    BY <1>1, <1>3, <1>4, <1>5, <1>6, Goes DEF Idle, Filling, Moving, Fresh, Met

LEMMA TypeInv == ASSUME IInv, NEW t \in Threads, UpdateGameStateType(t) PROVE IInv'
  <1>1. /\ UNCHANGED <<mainVars, dbVars, hashVars, base, state>>
        /\ trying' = trying /\ UNCHANGED <<level, cutoff, moved>>
        /\ UNCHANGED <<winVars, checkpointVars, loopVars>>
    BY DEF UpdateGameStateType, checkpointVars, loopVars
  <1>2. /\ pc[t] = "type"
        /\ pc' = [pc EXCEPT ![t] = "count"] \/ pc' = [pc EXCEPT ![t] = "free"]
    BY DEF UpdateGameStateType, Return, Proceed, Goto
  <1>3. TypeOK'
    <2>1. state[t] \in States /\ runnerTol \in [Threads -> Nat]
      BY <1>2, Working DEF IInv, TypeOK
    <2>2. runnerTol' \in [Threads -> Nat]
      BY <2>1, EngineAssumption DEF UpdateGameStateType
    <2>3. typed' \in [Threads -> BOOLEAN] /\ outcome' \in [Threads -> Outcomes]
      BY DEF UpdateGameStateType, Return, Proceed, IInv, TypeOK, Outcomes
    <2> QED
      BY <1>1, <1>2, <2>2, <2>3 DEF IInv, TypeOK, mainVars, dbVars, checkpointVars, winVars, loopVars
  <1>4. Best'
    BY <1>1, SameBest DEF IInv
  <1> QED
    BY <1>1, <1>2, <1>3, <1>4, Goes DEF Idle, Filling, Moving, Fresh, Met

\* The slot a new state is written to, which comes from the free ones or from the
\* current database.
LEMMA SlotInv ==
  ASSUME IInv, NEW t \in Threads, GetFree(t) \/ Steal(t) \/ ReleaseSlot(t)
  PROVE  IInv'
  <1> USE EngineAssumption
  <1>0. /\ pc[t] \in {"free", "steal", "release"}
        /\ UNCHANGED <<mainVars, nextDb, hashVars, checkpointVars, winVars, loopVars, runnerVars>>
    BY DEF GetFree, Steal, ReleaseSlot
  <1>1. PICK place \in {"store", "steal", "count"} : pc' = [pc EXCEPT ![t] = place]
    BY DEF GetFree, Steal, ReleaseSlot, Proceed, Return, Goto
  <1>2. /\ outcome' \in [Threads -> Outcomes]
        /\ place = "steal" => pc[t] = "free"
        /\ place = "store" => pc[t] \in {"free", "steal"}
        /\ place = "count" => pc[t] \in {"steal", "release"}
    BY <1>1 DEF GetFree, Steal, ReleaseSlot, Proceed, Return, Goto, IInv, TypeOK, Outcomes
  <1>3. /\ currentDb' \in Seq(States) /\ (currentDb = <<>> => currentDb' = <<>>)
        /\ freeSlots' \in 0 .. MaxStates
        /\ SlotsCounted'
    <2>0. /\ Bases' = Bases /\ Bases \subseteq Threads /\ Fillers \subseteq Threads
          /\ \A u \in Threads : pc'[u] = IF u = t THEN place ELSE pc[u]
      BY <1>0, <1>1 DEF Bases, Fillers, loopVars, IInv, TypeOK
    <2>1. freeSlots \in 0 .. MaxStates /\ currentDb \in Seq(States) /\ MaxStates \in Nat
      BY DEF IInv, TypeOK
    <2>2. CASE place = "store"
      <3>1. Fillers' = Fillers \union {t} /\ t \notin Fillers
        BY <1>0, <1>2, <2>0, <2>2 DEF Fillers, Filling
      <3>2. Cardinality(Fillers') = Cardinality(Fillers) + 1
        BY <2>0, <3>1, Holders
      <3>3. \/ freeSlots > 0 /\ freeSlots' = freeSlots - 1 /\ UNCHANGED currentDb
            \/ currentDb # <<>> /\ currentDb' = Front(currentDb) /\ UNCHANGED freeSlots
        BY <1>0, <1>1, <2>2 DEF GetFree, Steal, ReleaseSlot, Proceed, Return, Goto, IInv, TypeOK
      <3>4. currentDb # <<>> => /\ Front(currentDb) \in Seq(States)
                                /\ Len(Front(currentDb)) = Len(currentDb) - 1
        BY <2>1, Shortened
      <3>5. /\ freeSlots' \in 0 .. MaxStates /\ currentDb' \in Seq(States)
            /\ Len(currentDb) \in Nat /\ Len(currentDb') \in Nat
            /\ freeSlots' + Len(currentDb') = freeSlots + Len(currentDb) - 1
        <4>1. Len(currentDb) \in Nat /\ (currentDb # <<>> => Len(currentDb) # 0)
          BY <2>1, EmptySeq, LenProperties
        <4>2. CASE freeSlots > 0 /\ freeSlots' = freeSlots - 1 /\ currentDb' = currentDb
          BY ONLY <2>1, <4>1, <4>2
        <4>3. CASE currentDb # <<>> /\ currentDb' = Front(currentDb) /\ freeSlots' = freeSlots
          BY ONLY <2>1, <3>4, <4>1, <4>3
        <4> QED
          BY <3>3, <4>2, <4>3
      <3>6. SlotsCounted'
        <4>1. Len(nextDb') = Len(nextDb) /\ Cardinality(Bases') = Cardinality(Bases)
          BY <1>0, <2>0
        <4>2. /\ freeSlots + Len(currentDb) + Len(nextDb)
                   + Cardinality(Bases) + Cardinality(Fillers) = MaxStates
              /\ Len(nextDb) \in Nat /\ Cardinality(Bases) \in Nat /\ Cardinality(Fillers) \in Nat
              /\ freeSlots \in Nat /\ freeSlots' \in Nat
          BY <1>0, <2>1, <3>5, Working
        <4>3. freeSlots' + Len(currentDb') + Len(nextDb')
                + Cardinality(Bases') + Cardinality(Fillers') = MaxStates
          BY ONLY <3>2, <3>5, <4>1, <4>2
        <4> QED
          BY <4>3 DEF SlotsCounted
      <3> QED
        BY <3>3, <3>5, <3>6
    <2>3. CASE place = "steal" \/ (place = "count" /\ pc[t] = "steal")
      <3>1. Fillers' = Fillers
        BY <1>0, <1>2, <2>0, <2>3 DEF Fillers, Filling
      <3>2. UNCHANGED <<freeSlots, currentDb>>
        BY <1>0, <1>1, <1>2, <2>3 DEF GetFree, Steal, ReleaseSlot, Proceed, Return, Goto, IInv, TypeOK
      <3> QED
        BY <1>0, <2>0, <2>1, <3>1, <3>2, Working DEF SlotsCounted
    <2>4. CASE place = "count" /\ pc[t] = "release"
      <3>1. Fillers' = Fillers \ {t} /\ t \in Fillers
        BY <2>0, <2>4 DEF Fillers, Filling
      <3>2. Cardinality(Fillers') = Cardinality(Fillers) - 1 /\ Cardinality(Fillers') \in Nat
        BY <2>0, <3>1, Holders
      <3>3. freeSlots' = freeSlots + 1 /\ UNCHANGED currentDb
        BY <2>4 DEF GetFree, Steal, ReleaseSlot, dbVars
      <3>4. /\ freeSlots + Len(currentDb) + Len(nextDb)
                 + Cardinality(Bases) + Cardinality(Fillers) = MaxStates
            /\ Len(currentDb) \in Nat /\ Len(nextDb) \in Nat /\ Cardinality(Bases) \in Nat
            /\ Cardinality(Fillers) \in Nat /\ freeSlots \in Nat /\ MaxStates \in Nat
        BY <1>0, <2>1, Working
      <3>5. UNCHANGED <<Len(currentDb), Len(nextDb), Cardinality(Bases)>>
        BY <1>0, <2>0, <3>3
      <3>6. /\ freeSlots' + Len(currentDb') + Len(nextDb')
                 + Cardinality(Bases') + Cardinality(Fillers') = MaxStates
            /\ freeSlots' \in 0 .. MaxStates
        BY ONLY <3>2, <3>3, <3>4, <3>5
      <3> QED
        BY <2>1, <3>3, <3>6 DEF SlotsCounted
    <2> QED
      BY <1>0, <1>2, <2>2, <2>3, <2>4
  <1> USE DEF mainVars, hashVars, checkpointVars, winVars, loopVars, runnerVars
  <1>4. TypeOK'
    BY <1>0, <1>1, <1>2, <1>3 DEF IInv, TypeOK
  <1>5. Best'
    BY <1>0, SameBest DEF IInv
  <1>6. Loaded'
    BY <1>0, <1>1 DEF IInv, TypeOK, Loaded, Idle
  <1>7. AllOrNone' /\ Phase' /\ Window' /\ Sole' /\ Pruned'
    BY <1>0, <1>1, <1>2, <1>3, Keeps DEF Idle, Moving, Fresh, Met
  <1> QED
    BY <1>3, <1>4, <1>5, <1>6, <1>7 DEF IInv

\* A win is counted and copied in one step, so that the copy stays the best.  One that
\* does not fit terminates all threads.
LEMMA WinInv == ASSUME IInv, NEW t \in Threads, StoreWin(t) PROVE IInv'
  <1>1. /\ UNCHANGED <<mainVars, dbVars, hashVars, base, state>>
        /\ trying' = trying /\ UNCHANGED <<level, cutoff, moved>>
        /\ UNCHANGED <<checkpointVars, loopVars, runnerVars>>
    BY DEF StoreWin, checkpointVars, loopVars, runnerVars
  <1>2. /\ pc[t] = "store"
        /\ \/ pc' = [u \in Threads |-> "terminated"]
           \/ pc' = [pc EXCEPT ![t] = "release"]
    BY DEF StoreWin, Goto
  <1>3. state[t] \in States
    BY <1>2, Working
  <1>4. TypeOK'
    <2>1. bestWin' \in States \union {NoState} /\ wins' \subseteq States
      BY <1>3 DEF StoreWin, IInv, TypeOK, winVars
    <2>2. outcome' \in [Threads -> Outcomes]
      BY DEF StoreWin, IInv, TypeOK, Outcomes
    <2> QED
      BY <1>1, <1>2, <2>1, <2>2 DEF IInv, TypeOK, mainVars, dbVars, checkpointVars, loopVars,
                                    runnerVars
  <1>5. Best'
    <2>1. \/ UNCHANGED winVars
          \/ /\ bestWin' = IF Better(state[t]) THEN state[t] ELSE bestWin
             /\ wins' = wins \union {state[t]}
      BY DEF StoreWin
    <2>2. \A s \in States : Reward(s) \in Int /\ s # NoState
      BY EngineAssumption DEF Reward
    <2>3. wins \subseteq States
      BY DEF IInv, TypeOK
    <2>4. CASE UNCHANGED winVars
      BY <2>4 DEF IInv, Best, Reward, winVars
    <2>5. CASE wins = {} /\ ~UNCHANGED winVars
      <3>1. bestWin' = state[t] /\ wins' = {state[t]}
        BY <2>1, <2>5 DEF IInv, Best, Better
      <3> QED
        BY <1>3, <2>2, <3>1 DEF Best, Reward
    <2>6. CASE wins # {} /\ ~UNCHANGED winVars
      <3>1. bestWin \in wins /\ bestWin # NoState /\ \A w \in wins : Reward(w) <= Reward(bestWin)
        BY <2>2, <2>3, <2>6 DEF IInv, Best
      <3>2. bestWin' \in wins' /\ \A w \in wins' : Reward(w) <= Reward(bestWin')
        BY <1>3, <2>1, <2>2, <2>3, <2>6, <3>1 DEF Better
      <3> QED
        BY <3>2 DEF Best, Reward
    <2> QED
      BY <2>4, <2>5, <2>6
  <1>6. CASE pc' = [pc EXCEPT ![t] = "release"]
    BY <1>1, <1>2, <1>4, <1>5, <1>6, Goes DEF Idle, Filling, Moving, Fresh, Met
  <1>7. CASE pc' = [u \in Threads |-> "terminated"]
    <2>1. \A u \in Threads : pc'[u] = "terminated"
      BY <1>7
    <2>2. running /\ t \in Threads
      BY <1>2, Working
    <2>3. AllOrNone' /\ SlotsCounted'
      BY <2>1, <2>2 DEF AllOrNone, SlotsCounted
    <2>4. Phase'
      BY <1>1, <2>1, <2>2 DEF IInv, Phase, Moving, mainVars, dbVars
    <2>5. Loaded'
      BY <1>1, <2>1 DEF IInv, Loaded, Idle
    <2>6. Window'
      BY <1>1, <2>1 DEF IInv, Window, hashVars
    <2>7. Sole'
      BY <1>1, <2>1 DEF IInv, Sole, Fresh, SeenNow, StateHash, mainVars, dbVars, hashVars
    <2>8. Pruned'
      BY <1>1, <2>1, <2>2 DEF IInv, Pruned, CheckpointPrunes, Met, Meets, mainVars, dbVars
    <2> QED
      BY <1>4, <1>5, <2>3, <2>4, <2>5, <2>6, <2>7, <2>8 DEF IInv
  <1> QED
    BY <1>2, <1>6, <1>7

\* A normal state is stored: in the next database it is the only one with its hash, as
\* it was among those that the workers held.
LEMMA NormalInv == ASSUME IInv, NEW t \in Threads, StoreNormal(t) PROVE IInv'
  <1>1. /\ UNCHANGED <<mainVars, hashVars, checkpointVars, winVars, loopVars, runnerVars>>
        /\ UNCHANGED <<currentDb, freeSlots>>
    BY DEF StoreNormal
  <1>2. /\ pc[t] = "store" /\ pc' = [pc EXCEPT ![t] = "count"]
        /\ outcome' = [outcome EXCEPT ![t] = "normal"]
    BY DEF StoreNormal, Return, Goto
  <1>3. running /\ state[t] \in States /\ nextDb \in Seq(States)
    BY <1>2, Working DEF IInv, TypeOK
  <1>4. /\ nextDb' \in Seq(States) /\ Len(nextDb') = Len(nextDb) + 1
        /\ ToSet(nextDb') = ToSet(nextDb) \union {state[t]}
        /\ Distinct(nextDb) /\ state[t] \notin ToSet(nextDb) => Distinct(nextDb')
    <2>1. PICK i \in 1 .. Len(nextDb) + 1 : nextDb' = InsertAt(nextDb, i, state[t])
      BY DEF StoreNormal, InsertionPoints
    <2> QED
      BY <1>3, <2>1, InsertFacts
  <1>5. \A u \in Threads : pc'[u] = IF u = t THEN "count" ELSE pc[u]
    BY <1>2 DEF IInv, TypeOK
  <1> USE <1>1 DEF mainVars, hashVars, checkpointVars, winVars, loopVars, runnerVars
  <1>6. TypeOK'
    BY <1>2, <1>4 DEF IInv, TypeOK, Outcomes
  <1>7. AllOrNone' /\ Phase' /\ Loaded' /\ Window'
    BY <1>2, <1>3, <1>5 DEF IInv, AllOrNone, Phase, Loaded, Window, Idle, Moving, StateHash
  <1>8. SlotsCounted'
    <2>1. Bases' = Bases
      BY DEF Bases
    <2>2. Fillers' = Fillers \ {t} /\ t \in Fillers /\ Fillers \subseteq Threads
      BY <1>2, <1>5 DEF Fillers, Filling
    <2>3. Cardinality(Fillers') = Cardinality(Fillers) - 1
      BY <2>2, Holders
    <2>4. freeSlots \in Nat /\ MaxStates \in Nat
      BY EngineAssumption DEF IInv, TypeOK
    <2> QED
      BY <1>2, <1>4, <2>1, <2>3, <2>4, Working DEF SlotsCounted
  <1>9. Sole'
    <2>1. /\ SeenNow(state[t])
          /\ \A s \in ToSet(nextDb) : Game[s].hash # Game[state[t]].hash
          /\ \A u \in Threads : pc[u] \in Fresh /\ u # t => Game[state[u]].hash # Game[state[t]].hash
      BY <1>2 DEF IInv, Sole, Fresh
    <2>2. \A u \in Threads : pc'[u] \in Fresh => pc[u] \in Fresh /\ u # t
      BY <1>5 DEF Fresh
    <2>3. \A s : SeenNow(s)' <=> SeenNow(s)
      BY DEF SeenNow, StateHash
    <2> HIDE <1>1
    <2>4. state' = state
      BY <1>1
    <2>5. Distinct(nextDb') /\ \A r, s \in ToSet(nextDb') : Game[r].hash = Game[s].hash => r = s
      BY <1>4, <2>1 DEF IInv, Sole
    <2>6. \A s \in ToSet(nextDb') : SeenNow(s)
      BY <1>4, <2>1 DEF IInv, Sole
    <2>7. ASSUME NEW u \in Threads, pc'[u] \in Fresh
          PROVE  /\ SeenNow(state[u])
                 /\ \A s \in ToSet(nextDb') : Game[s].hash # Game[state[u]].hash
                 /\ \A v \in Threads : pc'[v] \in Fresh /\ v # u
                                         => Game[state[v]].hash # Game[state[u]].hash
      BY <1>4, <2>1, <2>2, <2>7 DEF IInv, Sole
    <2>8. \A s \in ToSet(nextDb') : SeenNow(s)'
      BY <2>3, <2>6
    <2>9. \A u \in Threads : pc'[u] \in Fresh => SeenNow(state[u])'
      BY <1>1, <2>7 DEF SeenNow, StateHash
    <2> QED
      BY <2>4, <2>5, <2>7, <2>8, <2>9 DEF Sole
  <1>10. Best'
    BY SameBest DEF IInv
  <1>11. Pruned'
    <2>1. \A u \in Threads : pc'[u] \in Met => pc[u] \in Met
      BY <1>5 DEF Met
    <2>2. \A s \in ToSet(nextDb') : s \in ToSet(nextDb) \/ (s = state[t] /\ pc[t] \in Met)
      BY <1>2, <1>4 DEF Met
    <2> QED
      BY <1>3, <2>1, <2>2 DEF IInv, Pruned, CheckpointPrunes, Meets
  <1> QED
    BY <1>6, <1>7, <1>8, <1>9, <1>10, <1>11 DEF IInv

LEMMA FailedInv == ASSUME IInv, NEW t \in Threads, StoreFailed(t) PROVE IInv'
  <1>1. /\ UNCHANGED <<mainVars, dbVars, hashVars, base, state>>
        /\ trying' = trying /\ UNCHANGED <<level, cutoff, moved>>
        /\ UNCHANGED <<winVars, checkpointVars, loopVars, runnerVars>>
    BY DEF StoreFailed, checkpointVars, loopVars, runnerVars
  <1>2. pc[t] = "store" /\ pc' = [pc EXCEPT ![t] = "release"]
    BY DEF StoreFailed, Goto
  <1>3. TypeOK'
    BY <1>1, <1>2 DEF StoreFailed, IInv, TypeOK, Outcomes, mainVars, dbVars, checkpointVars,
                      winVars, loopVars, runnerVars
  <1>4. Best'
    BY <1>1, SameBest DEF IInv
  <1> QED
    BY <1>1, <1>2, <1>3, <1>4, Goes DEF Idle, Filling, Moving, Fresh, Met
-----------------------------------------------------------------------------
(* The checkpoint, and the ends of a step.                                 *)

LEMMA MoveInv ==
  ASSUME IInv, NEW t \in Threads, CompareLevel(t) \/ SetLevel(t) \/ SetTolerance(t) \/ SetCutoff(t)
  PROVE  IInv'
  <1>1. /\ UNCHANGED <<mainVars, dbVars, hashVars, base, state>>
        /\ UNCHANGED <<winVars, runnerVars, outcome, todo, stage>>
    BY DEF CompareLevel, SetLevel, SetTolerance, SetCutoff, BackToLoop, loopVars, runnerVars
  <1>2. PICK place \in {"loop", "setLevel", "setTolerance", "setCutoff"} :
           /\ pc' = [pc EXCEPT ![t] = place]
           /\ place \in Moving => moved'
    BY DEF CompareLevel, SetLevel, SetTolerance, SetCutoff, BackToLoop, Goto, Moving, IInv, Phase
  <1>3. pc[t] \in {"count", "setLevel", "setTolerance", "setCutoff"}
    BY DEF CompareLevel, SetLevel, SetTolerance, SetCutoff
  <1>4. /\ moved' \/ UNCHANGED <<level, cutoff, moved>>
        /\ moved => moved'
    BY DEF CompareLevel, SetLevel, SetTolerance, SetCutoff, checkpointVars, IInv, Phase, Moving
  <1>5. /\ trying' = trying \/ trying' = [trying EXCEPT ![t] = <<>>]
        /\ detected' \in [Keys -> SUBSET Inputs]
    <2>1. CASE BackToLoop(t)
      <3>1. ASSUME trying[t] # <<>> PROVE trying[t][1] \in Keys /\ trying[t][2] \in Inputs
        <4>1. trying[t] \in Keys \X Inputs
          BY <3>1 DEF IInv, Loaded
        <4> QED
          BY <4>1
      <3>2. detected \in [Keys -> SUBSET Inputs]
        BY DEF IInv, TypeOK
      <3>3. detected' \in [Keys -> SUBSET Inputs]
        BY <2>1, <3>1, <3>2 DEF BackToLoop
      <3> QED
        BY <2>1, <3>3 DEF BackToLoop
    <2>2. CASE UNCHANGED loopVars
      BY <2>2 DEF loopVars, IInv, TypeOK
    <2> QED
      BY <2>1, <2>2 DEF CompareLevel, SetLevel, SetTolerance, SetCutoff
  <1>6. level' \in Nat /\ tolerance' \in Nat /\ cutoff' \in Nat /\ moved' \in BOOLEAN
    <2>1. /\ level \in Nat /\ tolerance \in Nat /\ cutoff \in Nat /\ moved \in BOOLEAN
          /\ step \in Nat /\ runnerTol[t] \in Nat
      BY EngineAssumption DEF IInv, TypeOK
    <2>2. RunnerLevel(t) \in Nat
      BY <1>3, Working
    <2>3. \/ UNCHANGED checkpointVars
          \/ level' = RunnerLevel(t) /\ moved' = TRUE /\ UNCHANGED <<tolerance, cutoff>>
          \/ tolerance' = runnerTol[t] /\ UNCHANGED <<level, cutoff, moved>>
          \/ cutoff' = step + runnerTol[t] /\ UNCHANGED <<level, tolerance, moved>>
      BY DEF CompareLevel, SetLevel, SetTolerance, SetCutoff
    <2>4. moved' \in BOOLEAN
      BY ONLY <2>1, <2>3 DEF checkpointVars
    <2>5. step + runnerTol[t] \in Nat
      BY ONLY <2>1
    <2>6. level' \in Nat /\ tolerance' \in Nat /\ cutoff' \in Nat
      BY ONLY <2>1, <2>2, <2>3, <2>5 DEF checkpointVars
    <2> QED
      BY <2>4, <2>6
  <1>7. TypeOK'
    BY <1>1, <1>2, <1>5, <1>6 DEF IInv, TypeOK, mainVars, dbVars, winVars, runnerVars
  <1>8. Best'
    BY <1>1, SameBest DEF IInv
  <1> QED
    BY <1>1, <1>2, <1>3, <1>4, <1>5, <1>7, <1>8, Goes DEF Idle, Filling, Moving, Fresh, Met

\* At the end of a step nothing is left in the current database, so that its states are
\* those that the step stored.
LEMMA EndInv == ASSUME IInv, EndStep PROVE IInv'
  <1> USE EngineAssumption
  <1>1. /\ running /\ running' = FALSE /\ nextDb' = <<>> /\ step' = step + 1
        /\ currentDb' = currentDb \o nextDb
        /\ \A t \in Threads : pc[t] = "done"
        /\ UNCHANGED <<freeSlots, checkpointVars, winVars, loopVars, runnerVars, pc, outcome>>
    BY DEF EndStep
  <1> USE <1>1 DEF checkpointVars, winVars, loopVars, runnerVars
  <1>2. currentDb = <<>> /\ nextDb \in Seq(States) /\ currentDb' = nextDb
    <2>1. currentDb = <<>> /\ nextDb \in Seq(States)
      BY DEF IInv, Phase, TypeOK
    <2> QED
      BY <2>1, ConcatEmptySeq
  <1>3. step \in Nat /\ step' \in 0 .. MaxSteps
    BY DEF IInv, Phase, TypeOK
  <1>4. TypeOK'
    BY <1>2, <1>3 DEF IInv, TypeOK
  <1>5. AllOrNone' /\ Phase' /\ Loaded' /\ Best'
    BY DEF IInv, AllOrNone, Phase, Loaded, Best, Reward, Idle, Moving
  <1>6. Window'
    BY DEF EndStep, Seen!EndStep, Seen!Answers, Seen!Forgotten, IInv, Window
  <1>7. SlotsCounted'
    <2>1. Bases' = Bases /\ Fillers' = Fillers
      BY DEF Bases, Fillers
    <2>2. Len(currentDb) = 0 /\ Len(nextDb') = 0 /\ Len(nextDb) \in Nat
      BY <1>2, LenProperties
    <2>3. \A t \in Threads : pc[t] # "terminated"
      BY <1>1
    <2>4. freeSlots \in Nat /\ Cardinality(Bases) \in Nat /\ Cardinality(Fillers) \in Nat
      <3>1. PICK t \in Threads : TRUE
        OBVIOUS
      <3>2. Bases \subseteq Threads /\ Fillers \subseteq Threads
        BY DEF Bases, Fillers
      <3>3. Cardinality(Bases) \in Nat /\ Cardinality(Fillers) \in Nat
        BY <3>1, <3>2, Holders
      <3> QED
        BY <3>3 DEF IInv, TypeOK
    <2>5. freeSlots + 0 + Len(nextDb) + Cardinality(Bases) + Cardinality(Fillers) = MaxStates
      BY <2>2, <2>3 DEF IInv, SlotsCounted
    <2>6. freeSlots + Len(nextDb) + 0 + Cardinality(Bases) + Cardinality(Fillers) = MaxStates
      BY ONLY <2>2, <2>4, <2>5
    <2>7. UNCHANGED freeSlots /\ Len(currentDb') = Len(nextDb)
      BY <1>2
    <2> QED
      BY <2>1, <2>2, <2>6, <2>7 DEF SlotsCounted
  <1>8. Sole'
    <2>1. nextDb' = <<>> /\ ToSet(<<>>) = {} /\ Len(<<>>) = 0
      BY DEF ToSet
    <2> QED
      BY <2>1 DEF Sole, Distinct, Fresh
  <1>9. Pruned'
    <2>1. ~moved /\ step' > cutoff + 1 => \A s \in ToSet(nextDb) : Game[s].level >= level
      BY <1>3 DEF IInv, Pruned, Meets, TypeOK
    <2> QED
      BY <1>2, <2>1 DEF Pruned, CheckpointPrunes
  <1> QED
    BY <1>4, <1>5, <1>6, <1>7, <1>8, <1>9 DEF IInv

LEMMA StartInv == ASSUME IInv, StartStep PROVE IInv'
  <1> USE EngineAssumption
  <1>1. /\ ~running /\ currentDb # <<>> /\ step < MaxSteps /\ running' = TRUE
        /\ bestWin' = NoState /\ wins' = {} /\ moved' = FALSE
        /\ pc' = [t \in Threads |-> "pop"]
        /\ UNCHANGED <<step, dbVars, hashVars, level, tolerance, cutoff, loopVars, runnerVars, outcome>>
        /\ \A t \in Threads : pc[t] = "done"
        /\ nextDb = <<>>
    BY DEF StartStep, IInv, Phase
  <1> USE <1>1 DEF dbVars, hashVars, loopVars, runnerVars
  <1>2. TypeOK'
    BY DEF IInv, TypeOK
  <1>3. AllOrNone' /\ Phase' /\ Best'
    BY DEF AllOrNone, Phase, Best, Moving
  <1>4. Loaded' /\ Window'
    BY DEF IInv, Loaded, Window, Idle, StateHash
  <1>5. SlotsCounted'
    <2>1. Bases' = Bases /\ Fillers' = Fillers
      BY DEF Bases, Fillers, Filling
    <2> QED
      BY <2>1 DEF IInv, SlotsCounted
  <1>6. ToSet(nextDb') = {}
    BY DEF ToSet
  <1>7. Sole'
    BY <1>6 DEF IInv, Sole, Fresh
  <1>8. Pruned'
    BY <1>6 DEF Pruned, CheckpointPrunes, Met
  <1> QED
    BY <1>2, <1>3, <1>4, <1>5, <1>7, <1>8 DEF IInv

LEMMA StutterInv == IInv /\ UNCHANGED vars => IInv'
  <1> SUFFICES ASSUME IInv, UNCHANGED vars PROVE IInv'
    OBVIOUS
  <1> USE DEF vars, mainVars, dbVars, hashVars, checkpointVars, winVars, loopVars, runnerVars
  <1>1. TypeOK' /\ AllOrNone' /\ Phase' /\ Loaded'
    BY DEF IInv, TypeOK, AllOrNone, Phase, Loaded
  <1>2. Window' /\ Sole'
    BY DEF IInv, Window, Sole, SeenNow, StateHash
  <1>3. SlotsCounted'
    BY DEF IInv, SlotsCounted, Bases, Fillers
  <1>4. Best' /\ Pruned'
    BY DEF IInv, Best, Reward, Pruned, CheckpointPrunes, Meets
  <1> QED
    BY <1>1, <1>2, <1>3, <1>4 DEF IInv

LEMMA NextInv == IInv /\ [Next]_vars => IInv'
  <1> SUFFICES ASSUME IInv, [Next]_vars PROVE IInv'
    OBVIOUS
  <1>1. ASSUME NEW t \in Threads, Worker(t) PROVE IInv'
    BY <1>1, PopInv, LoopInv, RunInv, HashInv, CheckInv, TypeInv, SlotInv, WinInv, NormalInv,
       FailedInv, MoveInv DEF Worker
  <1> QED
    BY <1>1, EndInv, StartInv, StutterInv DEF Next

\* The invariant holds in every reachable state.
THEOREM Invariance == Spec => []IInv
  BY InitInv, NextInv, PTL DEF Spec

\* The engine's variables keep their types; in particular the free slots are never more
\* than there are (engine.hpp and the state database it calls).
THEOREM TypeCorrect == Spec => []TypeOK
  <1>1. IInv => TypeOK
    BY DEF IInv
  <1> QED
    BY <1>1, Invariance, PTL

\* No slot of the state database is lost or given twice, on whatever path runInput
\* leaves: each is free, holds a state of a database, or is in the hands of a worker.
THEOREM NoSlotLost == Spec => []SlotsCounted
  <1>1. IInv => SlotsCounted
    BY DEF IInv
  <1> QED
    BY <1>1, Invariance, PTL

\* Two states that wait to be expanded differ in their hash: the check of the hash
\* answers "new" to one thread only (engine.hpp:561-565).
THEOREM NoHashTwice == Spec => []NoDuplicates
  <1>1. IInv => NoDuplicates
    <2>1. ASSUME IInv, NEW i \in 1 .. Len(nextDb), NEW j \in 1 .. Len(nextDb), i # j
          PROVE  Game[nextDb[i]].hash # Game[nextDb[j]].hash
      <3>1. nextDb \in Seq(States)
        BY <2>1 DEF IInv, TypeOK
      <3>2. nextDb[i] \in ToSet(nextDb) /\ nextDb[j] \in ToSet(nextDb)
        BY <3>1, Members
      <3> QED
        BY <2>1, <3>2 DEF IInv, Sole, Distinct
    <2> QED
      BY <2>1 DEF NoDuplicates
  <1> QED
    BY <1>1, Invariance, PTL

\* The step's best win is one of its wins and none has a larger reward, in whatever
\* order the threads find them (engine.hpp:611-618).
THEOREM WinIsBest == Spec => []BestWinIsBest
  <1>1. IInv => BestWinIsBest
    BY DEF IInv, Best, BestWinIsBest
  <1> QED
    BY <1>1, Invariance, PTL

\* A step past the cutoff keeps no state below the checkpoint, if it did not move
\* (engine.hpp:572-578).
THEOREM CheckpointCuts == Spec => []CheckpointPrunes
  <1>1. IInv => CheckpointPrunes
    BY DEF IInv, Pruned
  <1> QED
    BY <1>1, Invariance, PTL

\* The engine asks the hash database only as it may: each call about a hash of a state,
\* no thread has two calls open, and a step ends when all are answered (engine.hpp:561
\* and 228).  So what HashDb is proved to promise is all that the engine relies on.
THEOREM UsesWindow == Spec => Seen!Spec
  <1>1. Init => Seen!Init
    BY DEF Init
  <1>2. ASSUME IInv, [Next]_vars PROVE [Seen!Next]_(Seen!vars)
    <2>1. CASE UNCHANGED hashVars
      BY <2>1 DEF hashVars, Seen!vars
    <2>2. ASSUME NEW t \in Threads, RunAllowedInput(t) \/ RunCandidateInput(t)
          PROVE  Seen!Next
      <3>1. pc[t] = "loop" /\ Min(todo[t]) \in Inputs
        <4>1. pc[t] = "loop" /\ todo[t] \subseteq Inputs /\ todo[t] \subseteq Nat /\ todo[t] # {}
          BY <1>2, <2>2, EngineAssumption DEF RunAllowedInput, RunCandidateInput, IInv, TypeOK
        <4> QED
          BY <4>1, LeastInput
      <3>2. base[t] \in States /\ step + 1 \in Nat
        BY <1>2, <3>1, Working
      <3> DEFINE h == StateHash(Game[base[t]].next[Min(todo[t])], step + 1)
      <3>3. h \in Hashes
        <4>1. Game[base[t]].next[Min(todo[t])] \in States
          BY <3>1, <3>2, EngineAssumption
        <4> QED
          BY <3>2, <4>1, HashesOfSteps
      <3>4. Seen!Ask(t, h)
        BY <2>2 DEF RunAllowedInput, RunCandidateInput, RunNewInput
      <3> QED
        BY <3>3, <3>4 DEF Seen!Next
    <2>3. ASSUME NEW t \in Threads, CheckHash(t) PROVE Seen!Next
      BY <2>3 DEF CheckHash, Seen!Next
    <2>4. CASE EndStep
      BY <2>4 DEF EndStep, Seen!Next
    <2>5. ASSUME NEW t \in Threads, Worker(t)
          PROVE  \/ RunAllowedInput(t) \/ RunCandidateInput(t) \/ CheckHash(t)
                 \/ UNCHANGED hashVars
      BY <2>5 DEF Worker, PopBase, PopNothing, FinishBase, GetCandidateInputs, SkipCandidateInput,
                  CheckCutoff, CheckLevel, UpdateGameStateType, GetFree, Steal, StoreWin,
                  StoreNormal, StoreFailed, ReleaseSlot, CompareLevel, SetLevel, SetTolerance,
                  SetCutoff
    <2>6. StartStep \/ UNCHANGED vars => UNCHANGED hashVars
      BY DEF StartStep, vars
    <2> QED
      BY <1>2, <2>1, <2>2, <2>3, <2>4, <2>5, <2>6 DEF Next
  <1> QED
    BY <1>1, <1>2, Invariance, PTL DEF Spec, Seen!Spec
-----------------------------------------------------------------------------
(* The breadth-first search.                                               *)

Remembered == {h \in Hashes : lastSeen[h] # Seen!Forgotten}

\* What a complete search never meets: a checkpoint, a full state database, a state that
\* does not fit, and candidate inputs.
Unhindered == /\ level = 0
              /\ \A t \in Threads : /\ pc[t] \notin {"steal", "terminated"}
                                    /\ stage[t] = "candidates" => todo[t] = {}
              /\ Distinct(currentDb)

\* The base states are those of the frontier, and the new ones are their children.
Expanding ==
    /\ frontier \subseteq States /\ known \subseteq Remembered
    /\ running =>
          /\ frontier # {} /\ ToSet(currentDb) \subseteq frontier
          /\ \A t \in Threads :
                /\ pc[t] \notin Idle => /\ base[t] \in frontier
                                        /\ todo[t] \subseteq Game[base[t]].allowed
                /\ pc[t] \in Fresh \union {"hash"} => state[t] \in Search!Children
    /\ ~running => frontier = ToSet(currentDb) /\ known = Remembered /\ won = wins

\* Every input of every state of the frontier is still to be run, or the hash of the
\* state that it leads to is being checked or has been.
Waiting(s, i) == \/ s \in ToSet(currentDb)
                 \/ \E t \in Threads : /\ pc[t] \notin Idle /\ base[t] = s
                                       /\ stage[t] = "allowed" /\ i \in todo[t]
Asked(c) == \E t \in Threads : pc[t] = "hash" /\ Game[state[t]].hash = Game[c].hash
Covered ==
    running => \A s \in frontier : \A i \in Game[s].allowed :
                  LET c == Game[s].next[i] IN Waiting(s, i) \/ Asked(c) \/ SeenNow(c)

\* One child has been reached for each new hash.  Those that do not fail are stored, or
\* a worker is about to store them.
Held(c) == \E t \in Threads : pc[t] \in Fresh /\ state[t] = c
Accounts(reached) ==
    /\ reached \subseteq Search!Children
    /\ {StateHash(c, step + 1) : c \in reached} = Remembered \ known
    /\ \A b, c \in reached : Game[b].hash = Game[c].hash => b = c
    /\ \A c \in States :
          /\ Game[c].type = "normal" => (c \in reached <=> c \in ToSet(nextDb) \/ Held(c))
          /\ Game[c].type = "win" => (c \in reached <=> c \in wins \/ Held(c))
    /\ \A c \in ToSet(nextDb) : Game[c].type = "normal"
    /\ \A c \in wins : Game[c].type = "win"
Accounted == running => \E reached \in SUBSET Search!Children : Accounts(reached)

SInv == Unhindered /\ Expanding /\ Covered /\ Accounted
-----------------------------------------------------------------------------
(* What the steps rest on.                                                 *)

\* The successors of the frontier are children, and there are no others.
LEMMA ChildrenFacts ==
  /\ \A s \in frontier : \A i \in Game[s].allowed : Game[s].next[i] \in Search!Children
  /\ \A c \in Search!Children : \E s \in frontier : \E i \in Game[s].allowed : c = Game[s].next[i]
  /\ frontier \subseteq States => Search!Children \subseteq States
  <1>1. \A s \in States : Game[s].allowed \subseteq Inputs /\ Game[s].next \in [Inputs -> States]
    BY EngineAssumption
  <1>2. \A s \in States : \A i \in Game[s].allowed : Game[s].next[i] \in States
    BY <1>1
  <1>3. \A c : c \in Search!Children <=> \E s \in frontier : \E i \in Game[s].allowed : c = Game[s].next[i]
    BY DEF Search!Children
  <1> QED
    BY <1>2, <1>3

\* A step of t that leaves the other workers' places alone holds the same states that do
\* not fail.
LEMMA SameHeld ==
  ASSUME IInv, NEW t \in Threads, NEW place, pc' = [pc EXCEPT ![t] = place],
         \A u \in Threads : u # t => state'[u] = state[u],
         place \in Fresh => pc[t] \in Fresh /\ state'[t] = state[t],
         pc[t] \in Fresh => place \in Fresh \/ Game[state[t]].type = "fail"
  PROVE  \A c \in States : Game[c].type # "fail" => (Held(c)' <=> Held(c))
  <1>1. \A u \in Threads : pc'[u] = IF u = t THEN place ELSE pc[u]
    BY DEF IInv, TypeOK
  <1>2. ASSUME NEW c \in States, Game[c].type # "fail", NEW u \in Threads,
               pc[u] \in Fresh, state[u] = c
        PROVE  pc'[u] \in Fresh /\ state'[u] = c
    BY <1>1, <1>2
  <1>3. ASSUME NEW c \in States, NEW u \in Threads, pc'[u] \in Fresh, state'[u] = c
        PROVE  pc[u] \in Fresh /\ state[u] = c
    BY <1>1, <1>3
  <1> QED
    BY <1>2, <1>3 DEF Held

\* A step that checks no hash and stores what it no longer holds.
LEMMA SameAccounts ==
  ASSUME Accounted, running, UNCHANGED <<mainVars, Remembered, frontier, known>>,
         \A c \in States : Game[c].type = "normal" =>
            (c \in ToSet(nextDb') \/ Held(c)' <=> c \in ToSet(nextDb) \/ Held(c)),
         \A c \in States : Game[c].type = "win" =>
            (c \in wins' \/ Held(c)' <=> c \in wins \/ Held(c)),
         \A c \in ToSet(nextDb') : c \in ToSet(nextDb) \/ Game[c].type = "normal",
         \A c \in wins' : c \in wins \/ Game[c].type = "win"
  PROVE  Accounted'
  <1>1. PICK reached \in SUBSET Search!Children : Accounts(reached)
    BY DEF Accounted
  <1>2. Search!Children' = Search!Children /\ Remembered' = Remembered /\ step' = step
    BY DEF Search!Children, mainVars
  <1>3. {StateHash(c, step + 1) : c \in reached}' = {StateHash(c, step + 1) : c \in reached}
    BY <1>2 DEF StateHash
  <1>4. Accounts(reached)'
    <2>1. \A c \in States :
             /\ Game[c].type = "normal" => (c \in reached <=> c \in ToSet(nextDb') \/ Held(c)')
             /\ Game[c].type = "win" => (c \in reached <=> c \in wins' \/ Held(c)')
      BY <1>1 DEF Accounts
    <2>2. /\ \A c \in ToSet(nextDb') : Game[c].type = "normal"
          /\ \A c \in wins' : Game[c].type = "win"
      BY <1>1 DEF Accounts
    <2> QED
      BY <1>1, <1>2, <1>3, <2>1, <2>2 DEF Accounts
  <1> QED
    BY <1>2, <1>4 DEF Accounted

\* A step of t that goes on to another place without touching a loop or a database.
LEMMA Onward ==
  ASSUME IInv, SInv, running, NEW t \in Threads, NEW place, pc' = [pc EXCEPT ![t] = place],
         place \in Idle <=> pc[t] \in Idle, pc[t] # "hash",
         place \notin {"hash", "steal", "terminated"}, place \in Fresh => pc[t] \in Fresh,
         UNCHANGED <<mainVars, currentDb, lastSeen, base, todo, stage, state, level>>,
         UNCHANGED <<frontier, known, won>>
  PROVE  Unhindered' /\ Expanding' /\ Covered'
  <1>0. running' /\ step' = step
    BY DEF mainVars
  <1>1. \A u \in Threads : pc'[u] = IF u = t THEN place ELSE pc[u]
    BY DEF IInv, TypeOK
  <1>2. Unhindered'
    BY <1>1 DEF SInv, Unhindered
  <1>3. Expanding'
    <2>1. Search!Children' = Search!Children /\ Remembered' = Remembered
      BY DEF Search!Children, Remembered
    <2>2. \A u \in Threads : /\ pc'[u] \notin Idle => pc[u] \notin Idle
                             /\ pc'[u] \in Fresh \union {"hash"} => pc[u] \in Fresh \union {"hash"}
      BY <1>1
    <2> QED
      BY <1>0, <2>1, <2>2 DEF SInv, Expanding
  <1>4. Covered'
    <2>1. \A s \in frontier : \A i \in Game[s].allowed : Waiting(s, i) => Waiting(s, i)'
      BY <1>1 DEF Waiting
    <2>2. \A c : Asked(c) => Asked(c)'
      BY <1>1 DEF Asked
    <2>3. \A c : SeenNow(c)' <=> SeenNow(c)
      BY <1>0 DEF SeenNow, StateHash
    <2> QED
      BY <1>0, <2>1, <2>2, <2>3 DEF SInv, Covered
  <1> QED
    BY <1>2, <1>3, <1>4

\* A worker that has found a new state finds a free slot for it.
LEMMA Room ==
  ASSUME Complete, IInv, SInv, NEW t \in Threads, pc[t] = "free"
  PROVE  freeSlots > 0
  <1>1. IsFiniteSet(States) /\ IsFiniteSet(Threads)
    BY EngineAssumption DEF Complete
  <1>2. Cardinality(States) \in Nat /\ Cardinality(Threads) \in Nat
    BY <1>1, FS_CardinalityType
  <1>3. Len(currentDb) <= Cardinality(States) /\ Len(nextDb) <= Cardinality(States)
    BY <1>1, DistinctLength DEF SInv, Unhindered, IInv, TypeOK, Sole
  <1>4. Cardinality(Bases) <= Cardinality(Threads)
    BY <1>1, FS_Subset DEF Bases
  <1>5. Cardinality(Fillers) <= Cardinality(Threads) - 1
    <2>1. Fillers \subseteq Threads \ {t}
      BY DEF Fillers, Filling
    <2>2. IsFiniteSet(Threads \ {t}) /\ Cardinality(Threads \ {t}) = Cardinality(Threads) - 1
      BY <1>1, FS_RemoveElement
    <2> QED
      BY <2>1, <2>2, FS_Subset
  <1>6. /\ freeSlots + Len(currentDb) + Len(nextDb)
             + Cardinality(Bases) + Cardinality(Fillers) = MaxStates
        /\ Len(currentDb) \in Nat /\ Len(nextDb) \in Nat
        /\ Cardinality(Bases) \in Nat /\ Cardinality(Fillers) \in Nat
    BY Working
  <1>7. freeSlots \in Nat /\ MaxStates \in Nat
    BY EngineAssumption DEF IInv, TypeOK
  <1>8. MaxStates >= 2 * (Cardinality(States) + Cardinality(Threads))
    BY DEF Complete
  <1> QED
    BY ONLY <1>2, <1>3, <1>4, <1>5, <1>6, <1>7, <1>8
-----------------------------------------------------------------------------
(* The steps of a worker.                                                  *)

\* Those that go on to another place.  The new state meets the checkpoint, which never
\* moves, and only a state that fails is dropped.
LEMMA PassSearch ==
  ASSUME Complete, IInv, SInv, NEW t \in Threads, UNCHANGED <<frontier, known, won>>,
         \/ PopNothing(t) \/ CheckCutoff(t) \/ CheckLevel(t) \/ UpdateGameStateType(t)
         \/ GetFree(t) \/ ReleaseSlot(t)
         \/ CompareLevel(t) \/ SetLevel(t) \/ SetTolerance(t) \/ SetCutoff(t)
  PROVE  SInv'
  <1>1. /\ UNCHANGED <<mainVars, currentDb, nextDb, lastSeen, base, todo, stage, state, wins>>
        /\ pc[t] \in {"pop", "cutoff", "level", "type", "free", "release", "count", "setLevel",
                      "setTolerance", "setCutoff"}
    BY DEF PopNothing, CheckCutoff, CheckLevel, UpdateGameStateType, GetFree, ReleaseSlot,
           CompareLevel, SetLevel, SetTolerance, SetCutoff, BackToLoop, dbVars, hashVars,
           winVars, loopVars, runnerVars
  <1>2. running /\ (pc[t] # "pop" => RunnerLevel(t) = 0) /\ level = 0
    <2>1. pc[t] # "pop" => base[t] \in States /\ state[t] \in States
      BY <1>1, Working
    <2>2. \A s \in States : Game[s].level = 0
      BY DEF Complete
    <2> QED
      BY <1>1, <2>1, <2>2, Working DEF RunnerLevel, SInv, Unhindered
  <1>3. level' = level
    BY <1>2 DEF PopNothing, CheckCutoff, CheckLevel, UpdateGameStateType, GetFree, ReleaseSlot,
                CompareLevel, SetLevel, SetTolerance, SetCutoff, checkpointVars
  <1>4. PICK place \in {"done", "level", "type", "count", "free", "store", "loop", "setLevel",
                        "setTolerance", "setCutoff"} :
             /\ pc' = [pc EXCEPT ![t] = place]
             /\ place = "done" <=> pc[t] = "pop"
             /\ place \in Fresh => pc[t] \in Fresh
             /\ pc[t] \in Fresh => place \in Fresh \/ Game[state[t]].type = "fail"
    <2>1. CASE PopNothing(t)
      BY <2>1 DEF PopNothing, Goto, Fresh
    <2>2. CASE CheckCutoff(t)
      BY <2>2 DEF CheckCutoff, Proceed, Goto, Fresh
    <2>3. CASE CheckLevel(t)
      BY <1>2, <2>3 DEF CheckLevel, Proceed, Goto, Fresh
    <2>4. CASE UpdateGameStateType(t)
      BY <2>4 DEF UpdateGameStateType, Return, Proceed, Goto, Fresh
    <2>5. CASE GetFree(t)
      <3>1. freeSlots > 0
        BY <2>5, Room DEF GetFree
      <3> QED
        BY <2>5, <3>1 DEF GetFree, Proceed, Goto, Fresh
    <2>6. CASE ReleaseSlot(t)
      BY <2>6 DEF ReleaseSlot, Goto, Fresh
    <2>7. CASE CompareLevel(t)
      BY <2>7 DEF CompareLevel, BackToLoop, Goto, Fresh
    <2>8. CASE SetLevel(t) \/ SetTolerance(t) \/ SetCutoff(t)
      BY <2>8 DEF SetLevel, SetTolerance, SetCutoff, BackToLoop, Goto, Fresh
    <2> QED
      BY <2>1, <2>2, <2>3, <2>4, <2>5, <2>6, <2>7, <2>8
  <1>5. Unhindered' /\ Expanding' /\ Covered'
    BY <1>1, <1>2, <1>3, <1>4, Onward DEF Idle
  <1>6. Accounted'
    <2>1. \A c \in States : Game[c].type # "fail" => (Held(c)' <=> Held(c))
      BY <1>1, <1>4, SameHeld
    <2>2. UNCHANGED <<mainVars, Remembered, nextDb, wins>>
      BY <1>1 DEF Remembered
    <2>3. Accounted /\ running
      BY <1>2 DEF SInv
    <2> QED
      BY <2>1, <2>2, <2>3, SameAccounts
  <1> QED
    BY <1>5, <1>6 DEF SInv

\* A state is stored, and is held no longer.
LEMMA StoreSearch ==
  ASSUME Complete, IInv, SInv, NEW t \in Threads, UNCHANGED <<frontier, known, won>>,
         StoreWin(t) \/ StoreNormal(t)
  PROVE  SInv'
  <1> DEFINE s == state[t]
  <1>1. /\ UNCHANGED <<mainVars, currentDb, lastSeen, base, todo, stage, state, level>>
        /\ pc[t] = "store"
    BY DEF StoreWin, StoreNormal, dbVars, hashVars, checkpointVars, loopVars, runnerVars
  <1>2. running /\ s \in States
    BY <1>1, Working
  <1>3. Game[s].fits
    BY <1>2 DEF Complete
  <1>4. PICK place \in {"release", "count"} : pc' = [pc EXCEPT ![t] = place]
    BY <1>3 DEF StoreWin, StoreNormal, Return, Goto
  <1>5. Unhindered' /\ Expanding' /\ Covered'
    BY <1>1, <1>2, <1>4, Onward DEF Idle, Fresh
  <1>6. \/ Game[s].type = "win" /\ wins' = wins \union {s} /\ UNCHANGED nextDb
        \/ Game[s].type = "normal" /\ ToSet(nextDb') = ToSet(nextDb) \union {s} /\ UNCHANGED wins
    <2>1. CASE StoreWin(t)
      BY <1>3, <2>1 DEF StoreWin, dbVars
    <2>2. CASE StoreNormal(t)
      <3>1. PICK i \in InsertionPoints(s) : nextDb' = InsertAt(nextDb, i, s)
        BY <2>2 DEF StoreNormal
      <3>2. ToSet(InsertAt(nextDb, i, s)) = ToSet(nextDb) \union {s}
        BY <1>2, InsertFacts DEF InsertionPoints, IInv, TypeOK
      <3> QED
        BY <2>2, <3>1, <3>2 DEF StoreNormal, winVars
    <2> QED
      BY <2>1, <2>2
  <1>7. ASSUME NEW c \in States
        PROVE  /\ Held(c)' => Held(c)
               /\ Held(c) => Held(c)' \/ c = s
               /\ Held(s)
    <2>1. \A u \in Threads : pc'[u] = IF u = t THEN place ELSE pc[u]
      BY <1>4 DEF IInv, TypeOK
    <2> QED
      BY <1>1, <2>1 DEF Held, Fresh
  <1>8. Accounted'
    <2> HIDE DEF s
    <2>1. \A c \in States : Game[c].type = "normal" =>
             (c \in ToSet(nextDb') \/ Held(c)' <=> c \in ToSet(nextDb) \/ Held(c))
      BY <1>6, <1>7
    <2>2. \A c \in States : Game[c].type = "win" =>
             (c \in wins' \/ Held(c)' <=> c \in wins \/ Held(c))
      BY <1>6, <1>7
    <2>3. /\ \A c \in ToSet(nextDb') : c \in ToSet(nextDb) \/ Game[c].type = "normal"
          /\ \A c \in wins' : c \in wins \/ Game[c].type = "win"
      BY <1>6
    <2>4. UNCHANGED <<mainVars, Remembered>> /\ Accounted
      BY <1>1 DEF SInv, Remembered
    <2> QED
      BY <1>2, <2>1, <2>2, <2>3, <2>4, SameAccounts
  <1> QED
    BY <1>5, <1>8 DEF SInv

\* A base state is taken: its inputs are to be run by the worker.
LEMMA PopSearch ==
  ASSUME IInv, SInv, NEW t \in Threads, UNCHANGED <<frontier, known, won>>, PopBase(t)
  PROVE  SInv'
  <1> DEFINE s == Head(currentDb)
  <1>1. /\ pc[t] = "pop" /\ currentDb # <<>> /\ currentDb' = Tail(currentDb)
        /\ base' = [base EXCEPT ![t] = s] /\ state' = [state EXCEPT ![t] = s]
        /\ todo' = [todo EXCEPT ![t] = Game[s].allowed]
        /\ stage' = [stage EXCEPT ![t] = "allowed"]
        /\ pc' = [pc EXCEPT ![t] = "loop"]
        /\ UNCHANGED <<mainVars, nextDb, lastSeen, level, wins>>
    BY DEF PopBase, Goto, hashVars, checkpointVars, winVars
  <1>2. /\ Distinct(Tail(currentDb)) /\ s \in ToSet(currentDb)
        /\ ToSet(currentDb') = ToSet(currentDb) \ {s}
    BY <1>1, TailFacts DEF IInv, TypeOK, SInv, Unhindered
  <1> HIDE DEF s
  <1>3. running /\ running' /\ step' = step
    BY <1>1, Working DEF mainVars
  <1>4. \A u \in Threads : /\ pc'[u] = IF u = t THEN "loop" ELSE pc[u]
                           /\ base'[u] = IF u = t THEN s ELSE base[u]
                           /\ todo'[u] = IF u = t THEN Game[s].allowed ELSE todo[u]
                           /\ stage'[u] = IF u = t THEN "allowed" ELSE stage[u]
                           /\ u # t => state'[u] = state[u]
    BY <1>1 DEF IInv, TypeOK
  <1>5. Unhindered'
    BY <1>1, <1>2, <1>4 DEF SInv, Unhindered
  <1>6. Expanding'
    <2>1. Search!Children' = Search!Children /\ Remembered' = Remembered
      BY <1>1 DEF Search!Children, Remembered
    <2>2. \A u \in Threads : pc'[u] \in Fresh \union {"hash"} => u # t
      BY <1>4 DEF Fresh
    <2> QED
      BY <1>2, <1>3, <1>4, <2>1, <2>2 DEF SInv, Expanding
  <1>7. Covered'
    <2>1. \A r \in frontier : \A i \in Game[r].allowed : Waiting(r, i) => Waiting(r, i)'
      BY <1>1, <1>2, <1>4 DEF Waiting, Idle
    <2>2. \A c : Asked(c) => Asked(c)'
      BY <1>1, <1>4 DEF Asked
    <2>3. \A c : SeenNow(c)' <=> SeenNow(c)
      BY <1>1, <1>3 DEF SeenNow, StateHash
    <2> QED
      BY <1>3, <2>1, <2>2, <2>3 DEF SInv, Covered
  <1>8. Accounted'
    <2>1. \A c \in States : Game[c].type # "fail" => (Held(c)' <=> Held(c))
      BY <1>1, <1>4, SameHeld DEF Fresh
    <2>2. UNCHANGED <<mainVars, Remembered, nextDb, wins>> /\ Accounted
      BY <1>1 DEF SInv, Remembered
    <2> QED
      BY <1>3, <2>1, <2>2, SameAccounts
  <1> QED
    BY <1>5, <1>6, <1>7, <1>8 DEF SInv

\* The loop over the allowed inputs ends, and the other one has nothing to do.
LEMMA LoopSearch ==
  ASSUME Complete, IInv, SInv, NEW t \in Threads, UNCHANGED <<frontier, known, won>>,
         GetCandidateInputs(t) \/ FinishBase(t)
  PROVE  SInv'
  <1>1. /\ pc[t] = "loop" /\ todo[t] = {}
        /\ UNCHANGED <<mainVars, currentDb, nextDb, lastSeen, level, wins>>
    BY DEF GetCandidateInputs, FinishBase, dbVars, hashVars, checkpointVars, winVars
  <1>2. /\ todo' = [todo EXCEPT ![t] = {}]
        /\ \E place \in {"loop", "pop"} :
              /\ pc' = [pc EXCEPT ![t] = place]
              /\ place = "loop" => base' = base
        /\ \A u \in Threads : u # t => /\ base'[u] = base[u] /\ stage'[u] = stage[u]
                                       /\ state'[u] = state[u]
    <2>1. CASE GetCandidateInputs(t)
      <3>1. state[t] \in States
        BY <1>1, Working
      <3>2. Game[state[t]].candidates = {}
        BY <3>1 DEF Complete
      <3>3. pc' = [pc EXCEPT ![t] = "loop"] /\ UNCHANGED <<base, state>>
        BY <1>1, <2>1 DEF GetCandidateInputs, IInv, TypeOK, runnerVars
      <3> QED
        BY <2>1, <3>2, <3>3 DEF GetCandidateInputs, IInv, TypeOK
    <2>2. CASE FinishBase(t)
      <3>1. todo' = [todo EXCEPT ![t] = {}]
        BY <1>1, <2>2 DEF FinishBase, IInv, TypeOK
      <3> QED
        BY <2>2, <3>1 DEF FinishBase, Goto, IInv, TypeOK
    <2> QED
      BY <2>1, <2>2
  <1>3. PICK place \in {"loop", "pop"} : /\ pc' = [pc EXCEPT ![t] = place]
                                         /\ place = "loop" => base' = base
    BY <1>2
  <1>4. running /\ running' /\ step' = step
    BY <1>1, Working DEF mainVars
  <1>5. \A u \in Threads : /\ pc'[u] = IF u = t THEN place ELSE pc[u]
                           /\ todo'[u] = todo[u]
                           /\ u # t => /\ base'[u] = base[u] /\ stage'[u] = stage[u]
                                       /\ state'[u] = state[u]
    BY <1>1, <1>2, <1>3 DEF IInv, TypeOK
  <1>6. Unhindered'
    <2>1. stage'[t] = "candidates" => todo'[t] = {}
      BY <1>1, <1>5
    <2> QED
      BY <1>1, <1>5, <2>1 DEF SInv, Unhindered
  <1>7. Expanding'
    <2>1. Search!Children' = Search!Children /\ Remembered' = Remembered
      BY <1>1 DEF Search!Children, Remembered
    <2>2. /\ \A u \in Threads : pc'[u] \in Fresh \union {"hash"} => u # t
          /\ \A u \in Threads : pc'[u] \notin Idle => pc[u] \notin Idle /\ base'[u] = base[u]
      BY <1>1, <1>3, <1>5 DEF Fresh, Idle
    <2>3. ToSet(currentDb') = ToSet(currentDb)
      BY <1>1
    <2> QED
      BY <1>4, <1>5, <2>1, <2>2, <2>3 DEF SInv, Expanding
  <1>8. Covered'
    <2>1. \A r \in frontier : \A i \in Game[r].allowed : Waiting(r, i) => Waiting(r, i)'
      BY <1>1, <1>5 DEF Waiting, Idle
    <2>2. \A c : Asked(c) => Asked(c)'
      BY <1>1, <1>5 DEF Asked
    <2>3. \A c : SeenNow(c)' <=> SeenNow(c)
      BY <1>1, <1>4 DEF SeenNow, StateHash
    <2> QED
      BY <1>4, <2>1, <2>2, <2>3 DEF SInv, Covered
  <1>9. Accounted'
    <2>1. \A c \in States : Game[c].type # "fail" => (Held(c)' <=> Held(c))
      BY <1>1, <1>3, <1>5, SameHeld DEF Fresh
    <2>2. UNCHANGED <<mainVars, Remembered, nextDb, wins>> /\ Accounted
      BY <1>1 DEF SInv, Remembered
    <2> QED
      BY <1>4, <2>1, <2>2, SameAccounts
  <1> QED
    BY <1>6, <1>7, <1>8, <1>9 DEF SInv

\* An input of a base state is run: its hash is asked about.
LEMMA RunSearch ==
  ASSUME IInv, SInv, NEW t \in Threads, UNCHANGED <<frontier, known, won>>,
         RunAllowedInput(t)
  PROVE  SInv'
  <1> DEFINE i   == Min(todo[t])
             new == Game[base[t]].next[i]
  <1>1. /\ pc[t] = "loop" /\ stage[t] = "allowed" /\ i \in todo[t]
        /\ base[t] \in frontier /\ i \in Game[base[t]].allowed
    <2>1. pc[t] = "loop" /\ stage[t] = "allowed" /\ todo[t] # {} /\ running
      BY Working DEF RunAllowedInput
    <2>2. base[t] \in frontier /\ todo[t] \subseteq Game[base[t]].allowed /\ base[t] \in States
      BY <2>1 DEF SInv, Expanding, Idle
    <2>3. todo[t] \subseteq Nat
      BY <2>2, EngineAssumption
    <2> QED
      BY <2>1, <2>2, <2>3, LeastInput
  <1>2. new \in Search!Children
    BY <1>1, ChildrenFacts
  <1> HIDE DEF i
  <1>3. /\ state' = [state EXCEPT ![t] = new]
        /\ todo' = [todo EXCEPT ![t] = @ \ {i}]
        /\ pc' = [pc EXCEPT ![t] = "hash"]
        /\ UNCHANGED <<mainVars, currentDb, nextDb, lastSeen, base, stage, level, wins>>
    BY DEF RunAllowedInput, RunNewInput, Seen!Ask, Goto, dbVars, checkpointVars, winVars, i
  <1>4. running /\ running' /\ step' = step
    BY <1>1, <1>3, Working DEF mainVars
  <1>5. \A u \in Threads : /\ pc'[u] = IF u = t THEN "hash" ELSE pc[u]
                           /\ todo'[u] = IF u = t THEN todo[t] \ {i} ELSE todo[u]
                           /\ state'[u] = IF u = t THEN new ELSE state[u]
    BY <1>3 DEF IInv, TypeOK
  <1>6. Unhindered'
    BY <1>1, <1>3, <1>5 DEF SInv, Unhindered
  <1>7. Expanding'
    <2>1. Search!Children' = Search!Children /\ Remembered' = Remembered
      BY <1>3 DEF Search!Children, Remembered
    <2>2. \A u \in Threads : /\ pc'[u] \notin Idle => pc[u] \notin Idle
                             /\ todo'[u] \subseteq todo[u]
                             /\ u # t => pc'[u] = pc[u] /\ state'[u] = state[u]
      BY <1>1, <1>5 DEF Idle
    <2>3. state'[t] \in Search!Children
      BY <1>2, <1>5
    <2>4. ToSet(currentDb') = ToSet(currentDb)
      BY <1>3
    <2> HIDE DEF new
    <2> QED
      BY <1>3, <1>4, <2>1, <2>2, <2>3, <2>4 DEF SInv, Expanding
  <1>8. Covered'
    <2>1. ASSUME NEW s \in frontier, NEW j \in Game[s].allowed, Waiting(s, j)
          PROVE  Waiting(s, j)' \/ Asked(Game[s].next[j])'
      <3>1. CASE s \in ToSet(currentDb)
        BY <1>3, <3>1 DEF Waiting
      <3>2. CASE s = base[t] /\ j = i
        BY <1>5, <3>2 DEF Asked
      <3>3. CASE \E u \in Threads : /\ pc[u] \notin Idle /\ base[u] = s /\ stage[u] = "allowed"
                                    /\ j \in todo[u] /\ ~(u = t /\ j = i)
        BY <1>1, <1>3, <1>5, <3>3 DEF Waiting, Idle
      <3> QED
        BY <2>1, <3>1, <3>2, <3>3 DEF Waiting
    <2>2. \A c : Asked(c) => Asked(c)'
      BY <1>1, <1>5 DEF Asked
    <2>3. \A c : SeenNow(c)' <=> SeenNow(c)
      BY <1>3, <1>4 DEF SeenNow, StateHash
    <2> QED
      BY <1>4, <2>1, <2>2, <2>3 DEF SInv, Covered
  <1>9. Accounted'
    <2>1. \A c \in States : Game[c].type # "fail" => (Held(c)' <=> Held(c))
      <3>1. pc[t] \notin Fresh /\ "hash" \notin Fresh
        BY <1>1 DEF Fresh
      <3>2. \A u \in Threads : u # t => state'[u] = state[u]
        BY <1>5
      <3>3. pc' = [pc EXCEPT ![t] = "hash"]
        BY <1>3
      <3> QED
        BY <3>1, <3>2, <3>3, SameHeld
    <2>2. UNCHANGED <<mainVars, Remembered, nextDb, wins>> /\ Accounted
      BY <1>3 DEF SInv, Remembered
    <2> QED
      BY <1>4, <2>1, <2>2, SameAccounts
  <1> QED
    BY <1>6, <1>7, <1>8, <1>9 DEF SInv

\* The hash of a new state is checked: it is remembered from then on, and if it was not
\* before, the worker is the one that goes on with a state of that hash.
LEMMA HashSearch ==
  ASSUME IInv, SInv, NEW t \in Threads, UNCHANGED <<frontier, known, won>>, CheckHash(t)
  PROVE  SInv'
  <1> DEFINE s == state[t]
             h == StateHash(s, step + 1)
             isNew == h \notin Remembered
             place == IF isNew THEN "cutoff" ELSE "count"
  <1>1. pc[t] = "hash" /\ running /\ s \in States /\ asked[t] = h
    BY Working DEF CheckHash, IInv, Window
  <1>2. \A c \in States : StateHash(c, step + 1) \in Hashes
    <2>1. step + 1 \in Nat
      BY <1>1, Working
    <2> QED
      BY <2>1, HashesOfSteps
  <1>3. h \in Hashes
    BY <1>1, <1>2
  <1>4. /\ lastSeen' = [lastSeen EXCEPT ![h] = generation] /\ generation \in Nat
        /\ answer' = [answer EXCEPT ![t] = IF isNew THEN "novel" ELSE "repeated"]
    BY <1>1, <1>3 DEF CheckHash, Seen!Reply, Remembered, IInv, Window
  <1>5. pc' = [pc EXCEPT ![t] = place]
    BY <1>4 DEF CheckHash, Return, Proceed, Goto, IInv, Window
  <1>6. UNCHANGED <<mainVars, currentDb, nextDb, base, todo, stage, state, level, wins>>
    BY DEF CheckHash, dbVars, checkpointVars, winVars, loopVars, runnerVars
  <1>7. Remembered' = Remembered \union {h}
    <2>1. \A g \in Hashes : lastSeen'[g] # Seen!Forgotten <=> lastSeen[g] # Seen!Forgotten \/ g = h
      BY <1>3, <1>4 DEF IInv, Window, Seen!Forgotten
    <2> QED
      BY <1>3, <2>1 DEF Remembered
  <1>8. running' /\ step' = step
    BY <1>1, <1>6 DEF mainVars
  <1>9. \A c \in States : /\ SeenNow(c) <=> StateHash(c, step + 1) \in Remembered
                          /\ SeenNow(c)' <=> StateHash(c, step + 1) \in Remembered'
    BY <1>2, <1>8 DEF SeenNow, Remembered, StateHash
  <1>10. \A c \in States : Game[c].hash = Game[s].hash <=> StateHash(c, step + 1) = h
    BY DEF StateHash
  <1> HIDE DEF h, s, isNew
  <1>11. \A u \in Threads : pc'[u] = IF u = t THEN place ELSE pc[u]
    BY <1>5 DEF IInv, TypeOK
  <1>12. Unhindered'
    BY <1>6, <1>11 DEF SInv, Unhindered
  <1>13. Expanding'
    <2>1. Search!Children' = Search!Children
      BY DEF Search!Children
    <2>2. \A u \in Threads : /\ pc'[u] \notin Idle => pc[u] \notin Idle
                             /\ pc'[u] \in Fresh \union {"hash"} => pc[u] \in Fresh \union {"hash"}
      BY <1>1, <1>11 DEF Idle, Fresh
    <2>3. ToSet(currentDb') = ToSet(currentDb)
      BY <1>6
    <2> QED
      BY <1>1, <1>6, <1>7, <1>8, <2>1, <2>2, <2>3 DEF SInv, Expanding
  <1>14. Covered'
    <2>1. \A r \in frontier : \A i \in Game[r].allowed : Waiting(r, i) => Waiting(r, i)'
      BY <1>1, <1>6, <1>11 DEF Waiting, Idle
    <2>2. \A c \in States : Asked(c) => Asked(c)' \/ Game[c].hash = Game[s].hash
      BY <1>6, <1>11 DEF Asked, s
    <2>3. \A c \in States : SeenNow(c) \/ Game[c].hash = Game[s].hash => SeenNow(c)'
      BY <1>7, <1>9, <1>10
    <2>4. \A r \in frontier : \A i \in Game[r].allowed : Game[r].next[i] \in States
      BY ChildrenFacts DEF SInv, Expanding
    <2> QED
      BY <1>1, <1>8, <2>1, <2>2, <2>3, <2>4 DEF SInv, Covered
  <1>15. CASE ~isNew
    <2>1. Remembered' = Remembered
      BY <1>7, <1>15 DEF isNew
    <2>2. place = "count"
      BY <1>15
    <2>3. \A c \in States : Game[c].type # "fail" => (Held(c)' <=> Held(c))
      BY <1>1, <1>5, <1>6, <2>2, SameHeld DEF Fresh
    <2>4. UNCHANGED <<mainVars, nextDb, wins>> /\ Accounted
      BY <1>6 DEF SInv
    <2>5. Accounted'
      BY <1>1, <2>1, <2>3, <2>4, SameAccounts
    <2> QED
      BY <1>12, <1>13, <1>14, <2>5 DEF SInv
  <1>16. CASE isNew
    <2>1. PICK reached \in SUBSET Search!Children : Accounts(reached)
      BY <1>1 DEF SInv, Accounted
    <2> DEFINE reached2 == reached \union {s}
    <2>2. s \in Search!Children /\ Search!Children \subseteq States
      BY <1>1, ChildrenFacts DEF SInv, Expanding, s
    <2>3. \A c \in States : Held(c)' <=> Held(c) \/ c = s
      BY <1>1, <1>6, <1>11, <1>16 DEF Held, Fresh, s
    <2>4. {StateHash(c, step + 1) : c \in reached} = Remembered \ known /\ known \subseteq Remembered
      BY <2>1 DEF Accounts, SInv, Expanding
    <2>5. \A c \in reached : Game[c].hash # Game[s].hash
      BY <1>10, <1>16, <2>1, <2>2, <2>4 DEF isNew
    <2>6. {StateHash(c, step + 1) : c \in reached2} = Remembered' \ known
      <3>1. {StateHash(c, step + 1) : c \in reached2}
              = {StateHash(c, step + 1) : c \in reached} \union {StateHash(s, step + 1)}
        OBVIOUS
      <3>2. StateHash(s, step + 1) = h /\ h \notin known
        BY <1>16, <2>4 DEF h, isNew
      <3> QED
        BY <1>7, <2>4, <3>1, <3>2
    <2>7. reached2' = reached2
      BY <1>6 DEF s
    <2>8. Search!Children' = Search!Children
      BY DEF Search!Children
    <2>9. \A b, c \in reached2 : Game[b].hash = Game[c].hash => b = c
      BY <2>1, <2>5 DEF Accounts
    <2>10. \A c \in States :
              /\ Game[c].type = "normal" => (c \in reached2 <=> c \in ToSet(nextDb) \/ Held(c)')
              /\ Game[c].type = "win" => (c \in reached2 <=> c \in wins \/ Held(c)')
      BY <2>1, <2>3 DEF Accounts
    <2>11. /\ \A c \in ToSet(nextDb) : Game[c].type = "normal"
           /\ \A c \in wins : Game[c].type = "win"
      BY <2>1 DEF Accounts
    <2>12. {StateHash(c, step + 1) : c \in reached2}' = {StateHash(c, step + 1) : c \in reached2}
      <3> HIDE DEF reached2
      <3> QED
        BY <1>8, <2>7 DEF StateHash
    <2>13. Accounts(reached2)'
      <3>1. ToSet(nextDb)' = ToSet(nextDb) /\ wins' = wins
        BY <1>6
      <3> QED
        BY <1>6, <2>1, <2>2, <2>6, <2>7, <2>8, <2>9, <2>10, <2>11, <2>12, <3>1 DEF Accounts
    <2>14. Accounted'
      BY <2>1, <2>2, <2>7, <2>8, <2>13 DEF Accounted
    <2> QED
      BY <1>12, <1>13, <1>14, <2>14 DEF SInv
  <1> QED
    BY <1>15, <1>16
-----------------------------------------------------------------------------
(* The steps of the main thread.                                           *)

LEMMA SameCardinalities ==
  \A S : Seen!Cardinality(S) = Cardinality(S) /\ Search!Cardinality(S) = Cardinality(S)
  BY DEF Cardinality, Seen!Cardinality, Search!Cardinality,
         IsFiniteSet, Seen!IsFiniteSet, Search!IsFiniteSet

\* No hash is forgotten at the end of a step.
LEMMA Remembers ==
  ASSUME Complete, IInv, EndStep
  PROVE  lastSeen' = lastSeen
  <1> DEFINE now == {h \in Hashes : lastSeen[h] = generation}
             f == [s \in States |-> Game[s].hash]
  <1>1. f \in Surjection(States, GameHashes)
    BY DEF Surjection, GameHashes
  <1>2. IsFiniteSet(GameHashes)
    <2> HIDE DEF f
    <2> QED
      BY <1>1, FS_Surjection DEF Complete
  <1>3. IsFiniteSet(Hashes)
    <2>1. IsFiniteSet(0 .. HashStepTolerance)
      BY EngineAssumption, FS_Interval
    <2> QED
      BY <1>2, <2>1, FS_Product DEF Hashes
  <1>4. Cardinality(now) <= Cardinality(Hashes) /\ Cardinality(now) \in Nat /\ Cardinality(Hashes) \in Nat
    BY <1>3, FS_Subset, FS_CardinalityType
  <1>5. ~(Cardinality(now) > MaxStoreEntries)
    <2>1. MaxStoreEntries \in Nat /\ MaxStoreEntries >= Cardinality(Hashes)
      BY EngineAssumption DEF Complete
    <2> QED
      BY ONLY <1>4, <2>1
  <1>6. IF Seen!Cardinality(now) > MaxStoreEntries THEN TRUE ELSE UNCHANGED <<generation, lastSeen>>
    BY DEF EndStep, Seen!EndStep
  <1> QED
    BY <1>5, <1>6, SameCardinalities

\* At the barrier every child's hash is remembered and each state of the next database
\* has its place in the next frontier.
LEMMA EndSearch ==
  ASSUME Complete, IInv, SInv, EndStep,
         frontier' = ToSet(currentDb'), won' = wins, known' = RememberedHashes
  PROVE  SInv' /\ Search!Step
  <1>1. /\ running /\ ~running' /\ \A t \in Threads : pc[t] = "done"
        /\ currentDb' = currentDb \o nextDb /\ step' = step + 1
        /\ UNCHANGED <<level, pc, stage, todo, wins>>
    BY DEF EndStep, checkpointVars, winVars, loopVars
  <1>2. currentDb = <<>> /\ nextDb \in Seq(States) /\ currentDb' = nextDb
    <2>1. currentDb = <<>> /\ nextDb \in Seq(States)
      BY <1>1, EngineAssumption DEF IInv, Phase, TypeOK
    <2> QED
      BY <1>1, <2>1, ConcatEmptySeq
  <1>3. ToSet(currentDb) = {} /\ ToSet(nextDb) \subseteq States /\ wins \subseteq States
    BY <1>2, Members DEF IInv, TypeOK
  <1>4. step \in Nat /\ step + 1 \in Nat /\ step < MaxSteps /\ frontier # {} /\ frontier \subseteq States
    BY <1>1 DEF IInv, TypeOK, Phase, SInv, Expanding
  <1>5. Remembered' = Remembered /\ known' = Remembered
    BY Remembers DEF Remembered, RememberedHashes
  <1>6. SInv'
    <2>1. Unhindered'
      BY <1>1, <1>2 DEF SInv, Unhindered, IInv, Sole
    <2>2. Expanding'
      BY <1>1, <1>2, <1>3, <1>5 DEF Expanding
    <2>3. Covered' /\ Accounted'
      BY <1>1 DEF Covered, Accounted
    <2> QED
      BY <2>1, <2>2, <2>3 DEF SInv
  <1>7. PICK reached \in SUBSET Search!Children : Accounts(reached)
    BY <1>1 DEF SInv, Accounted
  <1>8. \A c : ~Held(c) /\ ~Asked(c)
    BY <1>1 DEF Held, Asked, Fresh
  <1>9. Search!Children \subseteq States
    BY <1>4, ChildrenFacts
  <1>10. \A c : Search!StateHash(c, step + 1) = StateHash(c, step + 1)
    BY DEF Search!StateHash, StateHash
  <1>11. {StateHash(c, step + 1) : c \in reached} = Remembered \ known
    BY <1>7 DEF Accounts
  <1>12. \A c \in Search!Children : StateHash(c, step + 1) \in Remembered
    <2>1. ASSUME NEW c \in Search!Children PROVE SeenNow(c)
      <3>1. PICK s \in frontier : \E i \in Game[s].allowed : c = Game[s].next[i]
        BY ChildrenFacts
      <3>2. PICK i \in Game[s].allowed : c = Game[s].next[i]
        BY <3>1
      <3>3. ~Waiting(s, i)
        BY <1>1, <1>3 DEF Waiting, Idle
      <3> QED
        BY <1>1, <1>8, <3>2, <3>3 DEF SInv, Covered
    <2> QED
      BY <1>4, <1>9, <2>1, HashesOfSteps DEF SeenNow, Remembered
  <1>13. Search!NewHashes = Remembered \ known
    <2>1. Search!NewHashes = {StateHash(c, step + 1) : c \in Search!Children} \ known
      BY <1>10 DEF Search!NewHashes
    <2>2. {StateHash(c, step + 1) : c \in Search!Children} \subseteq Remembered
      BY <1>12
    <2>3. {StateHash(c, step + 1) : c \in reached} \subseteq {StateHash(c, step + 1) : c \in Search!Children}
      BY <1>7
    <2> QED
      BY <1>11, <2>1, <2>2, <2>3
  <1>14. {Search!StateHash(c, step + 1) : c \in reached} = Search!NewHashes
    BY <1>10, <1>11, <1>13
  <1>15. \A h \in Search!NewHashes : Cardinality(reached \intersect Search!New(h)) = 1
    <2>1. ASSUME NEW h \in Search!NewHashes
          PROVE  Cardinality(reached \intersect Search!New(h)) = 1
      <3>1. PICK c \in reached : StateHash(c, step + 1) = h
        BY <1>11, <1>13
      <3>2. \A b \in reached : StateHash(b, step + 1) = h => b = c
        BY <1>7, <3>1 DEF Accounts, StateHash
      <3>3. \A b : b \in Search!New(h) <=> b \in Search!Children /\ StateHash(b, step + 1) = h
        BY <1>10 DEF Search!New
      <3>4. reached \intersect Search!New(h) = {c}
        BY <1>7, <3>1, <3>2, <3>3
      <3> QED
        BY <3>4, FS_Singleton
    <2> QED
      BY <2>1
  <1>16. frontier' = {c \in reached : Game[c].type = "normal"}
    <2>1. frontier' = ToSet(nextDb)
      BY <1>2
    <2>2. \A c \in States : c \in ToSet(nextDb) <=> c \in reached /\ Game[c].type = "normal"
      BY <1>7, <1>8 DEF Accounts
    <2> QED
      BY <1>3, <1>7, <1>9, <2>1, <2>2
  <1>17. won' = {c \in reached : Game[c].type = "win"}
    <2>1. \A c \in States : c \in wins <=> c \in reached /\ Game[c].type = "win"
      BY <1>7, <1>8 DEF Accounts
    <2> QED
      BY <1>3, <1>7, <1>9, <2>1
  <1>18. known' = known \union Search!NewHashes
    BY <1>5, <1>13 DEF SInv, Expanding
  <1>19. Search!Step
    <2>1. \E found \in SUBSET Search!Children :
             /\ {Search!StateHash(c, step + 1) : c \in found} = Search!NewHashes
             /\ \A h \in Search!NewHashes : Search!Cardinality(found \intersect Search!New(h)) = 1
             /\ frontier' = {c \in found : Game[c].type = "normal"}
             /\ won' = {c \in found : Game[c].type = "win"}
      BY <1>14, <1>15, <1>16, <1>17, SameCardinalities
    <2> QED
      BY <1>1, <1>4, <1>18, <2>1 DEF Search!Step
  <1> QED
    BY <1>6, <1>19

\* The next step starts from the frontier, with nothing found yet.
LEMMA StartSearch ==
  ASSUME IInv, SInv, StartStep, UNCHANGED <<frontier, known, won>>
  PROVE  SInv'
  <1>1. /\ ~running /\ running' /\ currentDb # <<>> /\ currentDb \in Seq(States)
        /\ pc' = [t \in Threads |-> "pop"] /\ wins' = {} /\ nextDb' = <<>>
        /\ UNCHANGED <<step, currentDb, lastSeen, level, todo, stage>>
    BY DEF StartStep, IInv, Phase, TypeOK, dbVars, hashVars, loopVars
  <1>2. frontier = ToSet(currentDb) /\ known = Remembered
    BY <1>1 DEF SInv, Expanding
  <1>3. Remembered' = Remembered
    BY <1>1 DEF Remembered
  <1>4. Unhindered'
    BY <1>1 DEF SInv, Unhindered
  <1>5. Expanding'
    <2>1. frontier # {}
      BY <1>1, <1>2, Members
    <2>2. frontier \subseteq States
      BY DEF SInv, Expanding
    <2>3. \A t \in Threads : pc'[t] \in Idle /\ pc'[t] \notin Fresh \union {"hash"}
      BY <1>1 DEF Idle, Fresh
    <2>4. frontier' = frontier /\ known' = known /\ ToSet(currentDb') = ToSet(currentDb)
      BY <1>1
    <2> QED
      BY <1>1, <1>2, <1>3, <2>1, <2>2, <2>3, <2>4 DEF Expanding
  <1>6. Covered'
    BY <1>1, <1>2 DEF Covered, Waiting
  <1>7. Accounted'
    <2>1. \A c : ~Held(c)'
      BY <1>1 DEF Held, Fresh
    <2>2. ToSet(nextDb') = {}
      BY <1>1 DEF ToSet
    <2>3. {StateHash(c, step + 1) : c \in {}}' = {}
      OBVIOUS
    <2>4. Remembered' \ known' = {}
      BY <1>2, <1>3
    <2>5. Accounts({})'
      BY <1>1, <2>1, <2>2, <2>3, <2>4 DEF Accounts
    <2> QED
      BY <2>5 DEF Accounted
  <1> QED
    BY <1>4, <1>5, <1>6, <1>7 DEF SInv
-----------------------------------------------------------------------------
LEMMA InitSearch == SearchInit => SInv /\ Search!Init
  <1> SUFFICES ASSUME SearchInit PROVE SInv /\ Search!Init
    OBVIOUS
  <1>1. /\ running /\ step = 0 /\ currentDb = <<Initial>> /\ nextDb = <<>> /\ level = 0 /\ wins = {}
        /\ pc = [t \in Threads |-> "pop"] /\ stage = [t \in Threads |-> "allowed"]
        /\ lastSeen[StateHash(Initial, 0)] = 0 /\ Seen!Init
        /\ frontier = {Initial} /\ known = {StateHash(Initial, 0)} /\ won = {}
    BY DEF SearchInit, Init
  <1>2. Initial \in States /\ StateHash(Initial, 0) \in Hashes
    BY EngineAssumption, HashesOfSteps
  <1>3. PICK first \in Hashes : lastSeen = [h \in Hashes |-> IF h = first THEN 0 ELSE Seen!Forgotten]
    BY <1>1 DEF Seen!Init
  <1>4. Remembered = known
    BY <1>1, <1>2, <1>3 DEF Remembered, Seen!Forgotten
  <1>5. Len(currentDb) = 1 /\ currentDb[1] = Initial /\ currentDb \in Seq(States)
    BY <1>1, <1>2
  <1>6. ToSet(currentDb) = {Initial}
    BY <1>5, Members
  <1>7. Unhindered
    BY <1>1, <1>5 DEF Unhindered, Distinct
  <1>8. Expanding
    BY <1>1, <1>2, <1>4, <1>6 DEF Expanding, Idle, Fresh
  <1>9. Covered
    BY <1>1, <1>6 DEF Covered, Waiting
  <1>10. Accounted
    <2>1. \A c : ~Held(c)
      BY <1>1 DEF Held, Fresh
    <2>2. ToSet(nextDb) = {}
      BY <1>1 DEF ToSet
    <2>3. Accounts({})
      BY <1>1, <1>4, <2>1, <2>2 DEF Accounts
    <2> QED
      BY <2>3 DEF Accounted
  <1>11. Search!Init
    BY <1>1 DEF Search!Init, Search!StateHash, StateHash
  <1> QED
    BY <1>7, <1>8, <1>9, <1>10, <1>11 DEF SInv

LEMMA NextSearch ==
  ASSUME Complete, IInv, SInv, [SearchNext]_searchVars
  PROVE  SInv' /\ [Search!Step]_(Search!vars)
  <1>1. ASSUME NEW t \in Threads, Worker(t), SearchNext
        PROVE  SInv' /\ UNCHANGED Search!vars
    <2>1. UNCHANGED mainVars
      BY <1>1 DEF Worker, PopBase, PopNothing, FinishBase, RunAllowedInput, GetCandidateInputs,
                  RunCandidateInput, RunNewInput, SkipCandidateInput, CheckHash, CheckCutoff,
                  CheckLevel, UpdateGameStateType, GetFree, Steal, StoreWin, StoreNormal,
                  StoreFailed, ReleaseSlot, CompareLevel, SetLevel, SetTolerance, SetCutoff
    <2>2. UNCHANGED <<frontier, known, won>> /\ step' = step
      BY <1>1, <2>1 DEF SearchNext, mainVars
    <2>3. ~RunCandidateInput(t) /\ ~SkipCandidateInput(t) /\ ~Steal(t)
      BY DEF RunCandidateInput, SkipCandidateInput, Steal, SInv, Unhindered
    <2>4. ~StoreFailed(t)
      <3>1. pc[t] = "store" => state[t] \in States
        BY Working
      <3> QED
        BY <3>1 DEF StoreFailed, Complete
    <2>5. SInv'
      BY <1>1, <2>2, <2>3, <2>4, PassSearch, StoreSearch, PopSearch, LoopSearch, RunSearch,
         HashSearch DEF Worker
    <2> QED
      BY <2>2, <2>5 DEF Search!vars
  <1>2. CASE SearchNext /\ EndStep
    <2>1. running /\ ~running'
      BY <1>2 DEF EndStep
    <2> QED
      BY <1>2, <2>1, EndSearch DEF SearchNext
  <1>3. CASE SearchNext /\ StartStep
    <2>1. UNCHANGED <<frontier, known, won>> /\ step' = step
      BY <1>3 DEF SearchNext, StartStep
    <2> QED
      BY <1>3, <2>1, StartSearch DEF Search!vars
  <1>4. CASE UNCHANGED searchVars
    <2>1. UNCHANGED <<frontier, known, won, vars>>
      BY <1>4 DEF searchVars
    <2>2. UNCHANGED <<step, running, currentDb, nextDb, lastSeen, level, wins, pc, base, todo, stage, state>>
      BY <2>1 DEF vars, mainVars, dbVars, hashVars, checkpointVars, winVars, loopVars, runnerVars
    <2>3. Search!Children' = Search!Children /\ Remembered' = Remembered
      BY <2>1, <2>2 DEF Search!Children, Remembered
    <2>4. Unhindered' /\ Expanding'
      BY <2>1, <2>2, <2>3 DEF SInv, Unhindered, Expanding
    <2>5. Covered'
      BY <2>1, <2>2 DEF SInv, Covered, Waiting, Asked, SeenNow, StateHash
    <2>6. Accounted'
      <3>1. \A c : Held(c)' <=> Held(c)
        BY <2>2 DEF Held
      <3>2. running => Accounted'
        BY <2>1, <2>2, <2>3, <3>1, SameAccounts DEF SInv, mainVars
      <3> QED
        BY <2>2, <3>2 DEF Accounted
    <2> QED
      BY <2>1, <2>2, <2>4, <2>5, <2>6 DEF SInv, Search!vars
  <1> QED
    BY <1>1, <1>2, <1>3, <1>4 DEF SearchNext, Next

\* What the search adds to the engine only watches it.
LEMMA SearchWatches ==
  /\ SearchInit => Init
  /\ [SearchNext]_searchVars => [Next]_vars
  BY DEF SearchInit, SearchNext, searchVars

LEMMA SearchInvariance == ASSUME Complete PROVE SearchSpec => [](IInv /\ SInv)
  <1>1. SearchInit => IInv /\ SInv
    BY InitInv, InitSearch, SearchWatches
  <1>2. IInv /\ SInv /\ [SearchNext]_searchVars => IInv' /\ SInv'
    BY NextInv, NextSearch, SearchWatches
  <1> QED
    BY <1>1, <1>2, PTL DEF SearchSpec

\* The engine implements the breadth-first search: for every game, with any number of
\* threads in whatever order they work, a step expands the whole frontier, keeps one
\* state of each new hash and leaves out those that fail (engine.hpp:187-290, 443-654).
THEOREM Refinement == ASSUME Complete PROVE SearchSpec => ImplementsLevelSearch
  <1>1. SearchInit => Search!Init
    BY InitSearch
  <1>2. IInv /\ SInv /\ [SearchNext]_searchVars => [Search!Step]_(Search!vars)
    BY NextSearch
  <1> QED
    BY <1>1, <1>2, SearchInvariance, PTL DEF SearchSpec, ImplementsLevelSearch, Search!Spec
-----------------------------------------------------------------------------
(* What the breadth-first search finds.                                    *)

\* No input leads to the initial state, one more to each successor.
LEMMA Origin == Search!Reached(0) = {Initial}
  <1>1. \A p : Search!IsPath(p, 0) <=> p[0] = Initial
    BY DEF Search!IsPath
  <1>2. [i \in 0 .. 0 |-> Initial] \in [0 .. 0 -> States] /\ [i \in 0 .. 0 |-> Initial][0] = Initial
    BY EngineAssumption
  <1> QED
    BY <1>1, <1>2, EngineAssumption DEF Search!Reached

LEMMA Extended ==
  ASSUME NEW n \in Nat, NEW s \in Search!Reached(n), Game[s].type = "normal",
         NEW a \in Game[s].allowed
  PROVE  Game[s].next[a] \in Search!Reached(n + 1)
  <1> DEFINE c == Game[s].next[a]
  <1>1. s \in States /\ c \in States
    BY EngineAssumption DEF Search!Reached
  <1>2. PICK p \in [0 .. n -> States] : Search!IsPath(p, n) /\ p[n] = s
    BY DEF Search!Reached
  <1> DEFINE q == [i \in 0 .. n + 1 |-> IF i <= n THEN p[i] ELSE c]
  <1>3. q \in [0 .. n + 1 -> States] /\ q[n + 1] = c
    BY <1>1, <1>2
  <1>4. \A i \in 0 .. n : q[i] = p[i]
    BY <1>2
  <1>5. ASSUME NEW i \in 0 .. (n + 1) - 1
        PROVE  /\ Game[q[i]].type = "normal"
               /\ \E b \in Game[q[i]].allowed : q[i + 1] = Game[q[i]].next[b]
    <2> HIDE DEF q, c
    <2>1. CASE i = n
      <3>1. q[i] = s /\ q[i + 1] = c
        BY <1>2, <1>3, <1>4, <2>1
      <3> QED
        BY <3>1 DEF c
    <2>2. CASE i < n
      <3>1. i \in 0 .. n - 1 /\ i \in 0 .. n /\ i + 1 \in 0 .. n
        BY <2>2
      <3>2. q[i] = p[i] /\ q[i + 1] = p[i + 1]
        BY <1>4, <3>1
      <3>3. /\ Game[p[i]].type = "normal"
            /\ \E b \in Game[p[i]].allowed : p[i + 1] = Game[p[i]].next[b]
        BY <1>2, <3>1 DEF Search!IsPath
      <3> QED
        BY <3>2, <3>3
    <2> QED
      BY <2>1, <2>2
  <1>6. q[0] = Initial
    BY <1>2, <1>4 DEF Search!IsPath
  <1>7. Search!IsPath(q, n + 1)
    <2> HIDE DEF q
    <2> QED
      BY <1>5, <1>6 DEF Search!IsPath
  <1> QED
    BY <1>1, <1>3, <1>7 DEF Search!Reached

\* A state on a way that fewer inputs lead to makes the way shorter.
LEMMA Shortcut ==
  ASSUME NEW n \in Nat, NEW p \in [0 .. n -> States], Search!IsPath(p, n),
         NEW k \in 0 .. n, NEW m \in 0 .. n, m <= k, p[k] \in Search!Reached(m)
  PROVE  p[n] \in Search!Reached(n - (k - m))
  <1>1. PICK q \in [0 .. m -> States] : Search!IsPath(q, m) /\ q[m] = p[k]
    BY DEF Search!Reached
  <1> DEFINE d == k - m
             e == n - d
             r == [i \in 0 .. e |-> IF i <= m THEN q[i] ELSE p[i + d]]
  <1>2. d \in Nat /\ e \in Nat /\ m <= e /\ e + d = n /\ m + d = k
    OBVIOUS
  <1> HIDE DEF d, e
  <1>3. \A i \in 0 .. e : i + d \in 0 .. n
    BY <1>2
  <1>4. r \in [0 .. e -> States]
    BY <1>1, <1>2, <1>3
  <1>5. /\ \A i \in 0 .. m : r[i] = q[i]
        /\ \A i \in m .. e : r[i] = p[i + d]
    <2>1. \A i \in 0 .. m : i \in 0 .. e /\ r[i] = q[i]
      BY <1>2
    <2>2. ASSUME NEW i \in m .. e PROVE r[i] = p[i + d]
      <3>1. i \in 0 .. e
        BY <1>2
      <3>2. CASE i = m
        BY <1>1, <1>2, <2>1, <3>2
      <3>3. CASE i # m
        <4>1. ~(i <= m)
          BY <3>3
        <4> QED
          BY <3>1, <4>1
      <3> QED
        BY <3>2, <3>3
    <2> QED
      BY <2>1, <2>2
  <1> HIDE DEF r
  <1>6. ASSUME NEW i \in 0 .. e - 1
        PROVE  /\ Game[r[i]].type = "normal"
               /\ \E a \in Game[r[i]].allowed : r[i + 1] = Game[r[i]].next[a]
    <2>1. CASE i < m
      <3>1. i \in 0 .. m - 1 /\ i + 1 \in 0 .. m
        BY <2>1
      <3>2. /\ Game[q[i]].type = "normal"
            /\ \E a \in Game[q[i]].allowed : q[i + 1] = Game[q[i]].next[a]
        BY <1>1, <3>1 DEF Search!IsPath
      <3>3. r[i] = q[i] /\ r[i + 1] = q[i + 1]
        BY <1>5, <3>1
      <3> QED
        BY <3>2, <3>3
    <2>2. CASE i >= m
      <3>1. /\ i \in m .. e /\ i + 1 \in m .. e
            /\ i + d \in 0 .. n - 1 /\ (i + 1) + d = (i + d) + 1
        BY <1>2, <2>2
      <3>2. /\ Game[p[i + d]].type = "normal"
            /\ \E a \in Game[p[i + d]].allowed : p[(i + d) + 1] = Game[p[i + d]].next[a]
        BY <3>1 DEF Search!IsPath
      <3>3. r[i] = p[i + d] /\ r[i + 1] = p[(i + d) + 1]
        BY <1>5, <3>1
      <3> QED
        BY <3>2, <3>3
    <2> QED
      BY <2>1, <2>2
  <1>7. r[0] = Initial
    BY <1>1, <1>5 DEF Search!IsPath
  <1>8. r[e] = p[n]
    BY <1>2, <1>5
  <1>9. p[n] \in States
    OBVIOUS
  <1> QED
    BY <1>4, <1>6, <1>7, <1>8, <1>9 DEF Search!IsPath, Search!Reached, e, d

\* What is known comes from the states reached so far.  A way to a first win is in the
\* frontier at each of its steps.
Sound == /\ frontier \subseteq {s \in Search!Reached(step) : Game[s].type = "normal"}
         /\ won \subseteq Search!WinsAt(step)
         /\ \A h \in known : \E m \in 0 .. step : \E s \in Search!Reached(m) :
               h = Search!StateHash(s, m)
FirstWinWay(p, n) == Search!NoWinBefore(n) /\ Search!IsPath(p, n) /\ Game[p[n]].type = "win"
OnTheWay ==
    \A n \in 1 .. MaxSteps : \A p \in [0 .. n -> States] : FirstWinWay(p, n) =>
        /\ step < n => p[step] \in frontier
        /\ step = n => p[n] \in won
WInv == step \in 0 .. MaxSteps /\ Sound /\ OnTheWay

\* A state on the way that is next to be reached has a hash that is not known.
LEMMA NotKnown ==
  ASSUME WInv, Search!HashesTellApart, NEW n \in 1 .. MaxSteps, NEW p \in [0 .. n -> States],
         FirstWinWay(p, n), step < n
  PROVE  Search!StateHash(p[step + 1], step + 1) \notin known
  <1> DEFINE k == step + 1
  <1>1. SUFFICES ASSUME Search!StateHash(p[k], k) \in known PROVE FALSE
    OBVIOUS
  <1>2. n \in Nat /\ k \in 1 .. n /\ k \in 0 .. n /\ step = k - 1 /\ step \in Nat
    BY EngineAssumption DEF WInv
  <1>3. PICK m \in 0 .. step : \E s \in Search!Reached(m) : Search!StateHash(p[k], k) = Search!StateHash(s, m)
    BY <1>1 DEF WInv, Sound
  <1>4. PICK s \in Search!Reached(m) : Search!StateHash(p[k], k) = Search!StateHash(s, m)
    BY <1>3
  <1> HIDE DEF k
  <1>5. Game[s].hash = Game[p[k]].hash
    BY <1>4 DEF Search!StateHash
  <1>6. m \in 0 .. n /\ m <= k /\ m < k
    BY <1>2
  <1>7. s = p[k]
    BY <1>2, <1>5, <1>6 DEF Search!HashesTellApart, FirstWinWay
  <1>8. p[n] \in Search!Reached(n - (k - m))
    BY <1>2, <1>4, <1>6, <1>7, Shortcut DEF FirstWinWay
  <1>9. n - (k - m) \in 0 .. n - 1
    BY <1>2, <1>6
  <1>10. p[n] \in Search!WinsAt(n - (k - m))
    BY <1>8 DEF Search!WinsAt, FirstWinWay
  <1> QED
    BY <1>9, <1>10 DEF FirstWinWay, Search!NoWinBefore

LEMMA StepWay ==
  ASSUME WInv, Search!HashesTellApart, Search!Step
  PROVE  WInv'
  <1>1. /\ step \in Nat /\ step' = step + 1 /\ step' \in 0 .. MaxSteps
        /\ known' = known \union Search!NewHashes
    BY EngineAssumption DEF WInv, Search!Step
  <1>2. PICK reached \in SUBSET Search!Children :
           /\ {Search!StateHash(c, step + 1) : c \in reached} = Search!NewHashes
           /\ frontier' = {c \in reached : Game[c].type = "normal"}
           /\ won' = {c \in reached : Game[c].type = "win"}
    BY DEF Search!Step
  <1>3. Search!Children \subseteq Search!Reached(step + 1)
    <2>1. ASSUME NEW c \in Search!Children PROVE c \in Search!Reached(step + 1)
      <3>1. PICK s \in frontier : \E i \in Game[s].allowed : c = Game[s].next[i]
        BY ChildrenFacts
      <3>2. s \in Search!Reached(step) /\ Game[s].type = "normal"
        BY DEF WInv, Sound
      <3> QED
        BY <1>1, <3>1, <3>2, Extended
    <2> QED
      BY <2>1
  <1>4. Sound'
    <2>1. /\ frontier' \subseteq {s \in Search!Reached(step') : Game[s].type = "normal"}
          /\ won' \subseteq Search!WinsAt(step')
      BY <1>1, <1>2, <1>3 DEF Search!WinsAt
    <2>2. ASSUME NEW h \in known'
          PROVE  \E m \in 0 .. step' : \E s \in Search!Reached(m) : h = Search!StateHash(s, m)
      <3>1. CASE h \in known
        <4>1. PICK m \in 0 .. step : \E s \in Search!Reached(m) : h = Search!StateHash(s, m)
          BY <3>1 DEF WInv, Sound
        <4>2. m \in 0 .. step'
          BY <1>1
        <4> QED
          BY <4>1, <4>2
      <3>2. CASE h \in Search!NewHashes
        <4>1. PICK c \in reached : h = Search!StateHash(c, step + 1)
          BY <1>2, <3>2
        <4>2. c \in Search!Reached(step') /\ h = Search!StateHash(c, step') /\ step' \in 0 .. step'
          BY <1>1, <1>3, <4>1
        <4> QED
          BY <4>2
      <3> QED
        BY <1>1, <2>2, <3>1, <3>2
    <2> QED
      BY <2>1, <2>2 DEF Sound, Search!Reached, Search!WinsAt, Search!StateHash
  <1>5. ASSUME NEW n \in 1 .. MaxSteps, NEW p \in [0 .. n -> States], FirstWinWay(p, n), step' <= n
        PROVE  /\ step' < n => p[step'] \in frontier'
               /\ step' = n => p[n] \in won'
    <2> DEFINE k == step + 1
               c == p[k]
               h == Search!StateHash(c, k)
    <2>1. step < n /\ k \in 1 .. n /\ k \in 0 .. n /\ step \in 0 .. n - 1 /\ n \in Nat /\ k <= k
      BY <1>1, <1>5, EngineAssumption
    <2>2. p[step] \in frontier
      BY <1>5, <2>1 DEF WInv, OnTheWay
    <2>3. c \in Search!Children
      <3>1. \E a \in Game[p[step]].allowed : p[step + 1] = Game[p[step]].next[a]
        BY <1>5, <2>1 DEF FirstWinWay, Search!IsPath
      <3> QED
        BY <2>2, <3>1, ChildrenFacts
    <2>4. h \notin known
      BY <1>5, <2>1, NotKnown
    <2>5. h \in Search!NewHashes
      BY <2>3, <2>4 DEF Search!NewHashes
    <2>6. PICK b \in reached : Search!StateHash(b, k) = h
      BY <1>2, <2>5
    <2>7. Game[b].hash = Game[c].hash /\ b \in Search!Reached(k)
      BY <1>2, <1>3, <2>6 DEF Search!StateHash
    <2>8. b = c
      <3> HIDE DEF k
      <3> QED
        BY <1>5, <2>1, <2>7 DEF Search!HashesTellApart, FirstWinWay
    <2>9. c \in reached
      BY <2>6, <2>8
    <2>10. CASE k < n
      <3>1. k \in 0 .. n - 1
        BY <2>1, <2>10
      <3>2. Game[c].type = "normal"
        BY <1>5, <3>1 DEF FirstWinWay, Search!IsPath
      <3> QED
        BY <1>1, <1>2, <2>9, <2>10, <3>2
    <2>11. CASE k = n
      BY <1>1, <1>2, <1>5, <2>9, <2>11 DEF FirstWinWay
    <2> QED
      BY <1>1, <1>5, <2>1, <2>10, <2>11
  <1>6. OnTheWay'
    <2>1. ASSUME NEW n \in 1 .. MaxSteps, NEW p \in [0 .. n -> States], FirstWinWay(p, n)
          PROVE  /\ step' < n => p[step'] \in frontier'
                 /\ step' = n => p[n] \in won'
      <3>1. n \in Nat /\ step' \in Nat
        BY <1>1, EngineAssumption
      <3>2. step' < n \/ step' = n => step' <= n
        BY <3>1
      <3> QED
        BY <1>5, <2>1, <3>2
    <2> QED
      BY <2>1 DEF OnTheWay, FirstWinWay, Search!NoWinBefore, Search!WinsAt, Search!Reached, Search!IsPath
  <1> QED
    BY <1>1, <1>4, <1>6 DEF WInv

LEMMA InitWay == ASSUME Search!Init, Game[Initial].type = "normal" PROVE WInv
  <1>1. step \in 0 .. MaxSteps /\ step = 0
    BY EngineAssumption DEF Search!Init
  <1>2. Sound
    <2>1. frontier \subseteq {s \in Search!Reached(step) : Game[s].type = "normal"}
      BY <1>1, Origin DEF Search!Init
    <2>2. won \subseteq Search!WinsAt(step)
      BY DEF Search!Init
    <2>3. \A h \in known : h = Search!StateHash(Initial, 0)
      BY DEF Search!Init
    <2>4. 0 \in 0 .. step /\ Initial \in Search!Reached(0)
      BY <1>1, Origin
    <2> QED
      BY <2>1, <2>2, <2>3, <2>4 DEF Sound
  <1>3. ASSUME NEW n \in 1 .. MaxSteps, NEW p \in [0 .. n -> States], FirstWinWay(p, n)
        PROVE  /\ step < n => p[step] \in frontier
               /\ step = n => p[n] \in won
    BY <1>1, <1>3 DEF FirstWinWay, Search!IsPath, Search!Init
  <1> QED
    BY <1>1, <1>2, <1>3 DEF WInv, OnTheWay

LEMMA NextWay ==
  ASSUME WInv, Search!HashesTellApart, [Search!Step]_(Search!vars)
  PROVE  WInv'
  <1>1. CASE Search!Step
    BY <1>1, StepWay
  <1>2. CASE UNCHANGED Search!vars
    <2>1. UNCHANGED <<step, frontier, known, won>>
      BY <1>2 DEF Search!vars
    <2>2. Sound'
      BY <2>1 DEF WInv, Sound, Search!Reached, Search!WinsAt, Search!StateHash
    <2>3. OnTheWay'
      BY <2>1 DEF WInv, OnTheWay, FirstWinWay, Search!NoWinBefore, Search!WinsAt, Search!Reached,
                  Search!IsPath
    <2> QED
      BY <2>1, <2>2, <2>3 DEF WInv
  <1> QED
    BY <1>1, <1>2

LEMMA WayFindsFirst ==
  ASSUME WInv, Game[Initial].type = "normal"
  PROVE  Search!FindsFirstWins
  <1>1. SUFFICES ASSUME Search!NoWinBefore(step) PROVE won = Search!WinsAt(step)
    BY DEF Search!FindsFirstWins
  <1>2. won \subseteq Search!WinsAt(step)
    BY DEF WInv, Sound
  <1>3. ASSUME NEW w \in Search!WinsAt(step) PROVE w \in won
    <2>1. w \in Search!Reached(step) /\ Game[w].type = "win"
      BY DEF Search!WinsAt
    <2>2. CASE step = 0
      BY <2>1, <2>2, Origin
    <2>3. CASE step # 0
      <3>1. step \in 1 .. MaxSteps
        BY <2>3, EngineAssumption DEF WInv
      <3>2. PICK p \in [0 .. step -> States] : Search!IsPath(p, step) /\ p[step] = w
        BY <2>1 DEF Search!Reached
      <3>3. FirstWinWay(p, step)
        BY <1>1, <2>1, <3>2 DEF FirstWinWay
      <3> QED
        BY <3>1, <3>2, <3>3 DEF WInv, OnTheWay
    <2> QED
      BY <2>2, <2>3
  <1> QED
    BY <1>2, <1>3

\* The breadth-first search finds every win that the fewest inputs lead to: a state left
\* out because its hash is known can be on no way to a first win when the game's hash
\* tells such a way's states from the others (engine.hpp:559-564).
THEOREM FirstWins ==
  ASSUME Game[Initial].type = "normal", Search!HashesTellApart
  PROVE  Search!Spec => []Search!FindsFirstWins
  <1>1. Search!Init => WInv
    BY InitWay
  <1>2. WInv /\ [Search!Step]_(Search!vars) => WInv'
    BY NextWay
  <1>3. WInv => Search!FindsFirstWins
    BY WayFindsFirst
  <1> QED
    BY <1>1, <1>2, <1>3, PTL DEF Search!Spec

\* So does the engine: with room for every state, the wins of a step are all those that
\* as many inputs can lead to when fewer can lead to none, for every game, number of
\* threads and order of their work (engine.hpp:187-290, 443-654).
THEOREM ShortestWins ==
  ASSUME Complete, Game[Initial].type = "normal", Search!HashesTellApart
  PROVE  SearchSpec => []FindsShortestWins
  <1>1. Search!Spec => []Search!FindsFirstWins
    BY FirstWins
  <1>2. SInv /\ Search!FindsFirstWins => FindsShortestWins
    BY DEF SInv, Expanding, Search!FindsFirstWins, FindsShortestWins
  <1> QED
    BY <1>1, <1>2, Refinement, SearchInvariance, PTL DEF ImplementsLevelSearch
=============================================================================
