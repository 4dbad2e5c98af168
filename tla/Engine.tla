------------------------------- MODULE Engine -------------------------------
(***************************************************************************)
(* One step of the search, run by several worker threads (source/          *)
(* engine.hpp).  Each worker pops base states, loads them into its own     *)
(* runner, tries every input on them, and stores the new states it reaches *)
(* in the next state database, until no base state is left; then the main  *)
(* thread makes the next database the current one.                         *)
(*                                                                         *)
(* The hash database is a SeenWindow, which HashDb implements.  The slots  *)
(* of the state database are counted: StateDbPlain shows that none is lost *)
(* or shared.  The game, with its emulator, its rules and the runner's     *)
(* input sets, is the constant Game: what each state leads to and counts   *)
(* as.  The counters that are only printed and the timers are left out.    *)
(***************************************************************************)
EXTENDS Integers, SequencesExt

CONSTANTS Threads,            \* the worker threads
          States,             \* the states of the game
          Initial,            \* the initial state
          NoState,            \* no state
          Inputs,             \* the input indices, in the order they are tried
          Keys,               \* the keys that tell kinds of states apart
          Game,               \* the game's facts about each state
          MaxStates,          \* slots of the state database
          MaxStoreCount,      \* "Max Store Count" of the hash database
          MaxStoreEntries,    \* entries above which a hash store is retired
          HashStepTolerance,  \* "Hash Step Tolerance" of the runner
          MaxSteps            \* "Max Steps" of the driver

Types == {"normal", "win", "fail"}
GameHashes == {Game[s].hash : s \in States}
Hashes == (0 .. HashStepTolerance) \X GameHashes

ASSUME EngineAssumption ==
    /\ IsFiniteSet(Threads) /\ Threads # {}
    /\ Initial \in States /\ NoState \notin States
    /\ Inputs \subseteq Nat
    /\ \A s \in States : /\ Game[s].allowed \subseteq Inputs
                         /\ Game[s].candidates \subseteq Inputs
                         /\ Game[s].key \in Keys
                         /\ Game[s].next \in [Inputs -> States]
                         /\ Game[s].type \in Types
                         /\ Game[s].level \in Nat /\ Game[s].tolerance \in Nat
                         /\ Game[s].reward \in Int
                         /\ Game[s].fits \in BOOLEAN
    \* A rule that has been satisfied stays so, and with it its checkpoint.
    /\ \A s \in States, i \in Inputs : Game[Game[s].next[i]].level >= Game[s].level
    /\ MaxStates \in Nat \ {0} /\ MaxSteps \in Nat \ {0}
    /\ MaxStoreCount \in Nat \ {0} /\ MaxStoreEntries \in Nat
    /\ HashStepTolerance \in Nat

VARIABLES
    step,          \* _currentStep
    running,       \* the parallel region of runStep is being executed
    currentDb,     \* states of the current database, the best first
    nextDb,        \* states of the next database, the best first
    freeSlots,     \* slots in the free state queue
    generation, lastSeen, asked, answer,   \* the hash database: see SeenWindow
    level,         \* _checkpointLevel
    tolerance,     \* _checkpointTolerance
    cutoff,        \* _checkpointCutoff
    bestWin,       \* the state in _stepBestWinState, or NoState
    detected,      \* _candidateInputsDetected
    pc,            \* what each worker does next
    base,          \* baseStateData
    todo,          \* inputs of the loop the worker is in that are still to be tried
    stage,         \* the loop it is in: over allowed or over candidate inputs
    trying,        \* the candidate input being run, with the key of its kind of state
    state,         \* the game state in the worker's runner
    typed,         \* updateGameStateType has been called since the base was loaded
    runnerTol,     \* the game's _checkpointTolerance in the runner: never reloaded
    outcome,       \* inputResult_t of the input being run
    wins,          \* history: the wins stored in this step
    moved          \* history: the checkpoint was written in this step

dbVars == <<currentDb, nextDb, freeSlots>>
hashVars == <<generation, lastSeen, asked, answer>>
checkpointVars == <<level, tolerance, cutoff, moved>>
winVars == <<bestWin, wins>>
loopVars == <<base, todo, stage, trying, detected>>
runnerVars == <<state, typed, runnerTol>>
mainVars == <<step, running>>
vars == <<mainVars, dbVars, hashVars, checkpointVars, winVars, loopVars, runnerVars, pc, outcome>>

Seen == INSTANCE SeenWindow

Outcomes == {"normal", "repeated", "failed", "win",
             "droppedNoStorage", "droppedFailedSerialization", "droppedCheckpoint"}

Reward(s) == Game[s].reward
StateHash(s, n) == <<n % (HashStepTolerance + 1), Game[s].hash>>

\* The game's checkpoint level in the runner: that of the base state until
\* updateGameStateType is called for the new one.
RunnerLevel(t) == IF typed[t] THEN Game[state[t]].level ELSE Game[base[t]].level

TypeOK == /\ step \in 0 .. MaxSteps /\ running \in BOOLEAN
          /\ currentDb \in Seq(States) /\ nextDb \in Seq(States)
          /\ freeSlots \in 0 .. MaxStates
          /\ level \in Nat /\ tolerance \in Nat /\ cutoff \in Nat
          /\ bestWin \in States \union {NoState}
          /\ detected \in [Keys -> SUBSET Inputs]
          /\ pc \in [Threads -> {"pop", "loop", "hash", "cutoff", "level", "type", "free",
                                 "steal", "store", "release", "count", "setLevel",
                                 "setTolerance", "setCutoff", "done", "terminated"}]
          /\ base \in [Threads -> States \union {NoState}]
          /\ todo \in [Threads -> SUBSET Inputs]
          /\ stage \in [Threads -> {"allowed", "candidates"}]
          /\ state \in [Threads -> States \union {NoState}]
          /\ typed \in [Threads -> BOOLEAN]
          /\ runnerTol \in [Threads -> Nat]
          /\ outcome \in [Threads -> Outcomes]
          /\ wins \subseteq States /\ moved \in BOOLEAN
-----------------------------------------------------------------------------
\* Engine::initialize and reset, and the start of the first step: the initial state
\* is the one base state and its hash is known.
Init == /\ step = 0 /\ running = TRUE
        /\ currentDb = <<Initial>> /\ nextDb = <<>> /\ freeSlots = MaxStates - 1
        /\ Seen!Init
        /\ lastSeen[StateHash(Initial, 0)] = 0
        /\ asked = [t \in Threads |-> StateHash(Initial, 0)]
        /\ level = 0 /\ tolerance = 0 /\ cutoff = 0
        /\ bestWin = NoState
        /\ detected = [k \in Keys |-> {}]
        /\ pc = [t \in Threads |-> "pop"]
        /\ base = [t \in Threads |-> NoState]
        /\ todo = [t \in Threads |-> {}]
        /\ stage = [t \in Threads |-> "allowed"]
        /\ trying = [t \in Threads |-> <<>>]
        /\ state = [t \in Threads |-> NoState]
        /\ typed = [t \in Threads |-> FALSE]
        \* The first runner has determined the type of the initial state.
        /\ \E first \in Threads : runnerTol = [t \in Threads |->
              IF t = first /\ Game[Initial].level > 0 THEN Game[Initial].tolerance ELSE 0]
        /\ outcome = [t \in Threads |-> "normal"]
        /\ wins = {} /\ moved = FALSE

Goto(t, place) == pc' = [pc EXCEPT ![t] = place]
-----------------------------------------------------------------------------
(* workerFunction                                                          *)

\* popState returned a base state; it is loaded and its allowed inputs are found.
PopBase(t) ==
    /\ pc[t] = "pop"
    /\ currentDb # <<>>
    /\ currentDb' = Tail(currentDb)
    /\ base' = [base EXCEPT ![t] = Head(currentDb)]
    /\ state' = [state EXCEPT ![t] = Head(currentDb)]
    /\ typed' = [typed EXCEPT ![t] = FALSE]
    /\ todo' = [todo EXCEPT ![t] = Game[Head(currentDb)].allowed]
    /\ stage' = [stage EXCEPT ![t] = "allowed"]
    /\ Goto(t, "loop")
    /\ UNCHANGED <<mainVars, nextDb, freeSlots, hashVars, checkpointVars, winVars,
                   trying, detected, runnerTol, outcome>>

PopNothing_OneLeft(t) ==
    /\ pc[t] = "pop"
    /\ Len(currentDb) <= 1
    /\ Goto(t, "done")
    /\ UNCHANGED <<mainVars, dbVars, hashVars, checkpointVars, winVars, loopVars, runnerVars, outcome>>
PopNothing(t) ==
    /\ pc[t] = "pop"
    /\ currentDb = <<>>
    /\ Goto(t, "done")
    /\ UNCHANGED <<mainVars, dbVars, hashVars, checkpointVars, winVars, loopVars, runnerVars, outcome>>

\* runNewInput reloads the base state, and runInput advances it and asks the hash
\* database about the state it gets.
RunNewInput_NoReload(t, i) ==
    LET new == Game[state[t]].next[i] IN
    /\ state' = [state EXCEPT ![t] = new]
    /\ typed' = [typed EXCEPT ![t] = FALSE]
    /\ todo' = [todo EXCEPT ![t] = @ \ {i}]
    /\ Seen!Ask(t, StateHash(new, step + 1))
    /\ Goto(t, "hash")
    /\ UNCHANGED <<mainVars, dbVars, checkpointVars, winVars, base, stage, detected,
                   runnerTol, outcome>>
RunNewInput(t, i) ==
    LET new == Game[base[t]].next[i] IN
    /\ state' = [state EXCEPT ![t] = new]
    /\ typed' = [typed EXCEPT ![t] = FALSE]
    /\ todo' = [todo EXCEPT ![t] = @ \ {i}]
    /\ Seen!Ask(t, StateHash(new, step + 1))
    /\ Goto(t, "hash")
    /\ UNCHANGED <<mainVars, dbVars, checkpointVars, winVars, base, stage, detected,
                   runnerTol, outcome>>

RunAllowedInput(t) ==
    /\ pc[t] = "loop" /\ stage[t] = "allowed" /\ todo[t] # {}
    /\ RunNewInput(t, Min(todo[t]))
    /\ UNCHANGED trying

\* The candidate inputs are those of the state the runner is left in.
GetCandidateInputs(t) ==
    /\ pc[t] = "loop" /\ stage[t] = "allowed" /\ todo[t] = {}
    /\ stage' = [stage EXCEPT ![t] = "candidates"]
    /\ todo' = [todo EXCEPT ![t] = Game[state[t]].candidates \ Game[base[t]].allowed]
    /\ UNCHANGED <<mainVars, dbVars, hashVars, checkpointVars, winVars, base, trying, detected,
                   runnerVars, pc, outcome>>

RunCandidateInput(t) ==
    /\ pc[t] = "loop" /\ stage[t] = "candidates" /\ todo[t] # {}
    /\ Min(todo[t]) \notin detected[Game[state[t]].key]
    /\ RunNewInput(t, Min(todo[t]))
    /\ trying' = [trying EXCEPT ![t] = <<Game[state[t]].key, Min(todo[t])>>]

SkipCandidateInput(t) ==
    /\ pc[t] = "loop" /\ stage[t] = "candidates" /\ todo[t] # {}
    /\ Min(todo[t]) \in detected[Game[state[t]].key]
    /\ todo' = [todo EXCEPT ![t] = @ \ {Min(@)}]
    /\ UNCHANGED <<mainVars, dbVars, hashVars, checkpointVars, winVars, base, stage, trying,
                   detected, runnerVars, pc, outcome>>

\* returnFreeState for the base state.
FinishBase(t) ==
    /\ pc[t] = "loop" /\ stage[t] = "candidates" /\ todo[t] = {}
    /\ freeSlots' = freeSlots + 1
    /\ base' = [base EXCEPT ![t] = NoState]
    /\ state' = [state EXCEPT ![t] = NoState]
    /\ Goto(t, "pop")
    /\ UNCHANGED <<mainVars, currentDb, nextDb, hashVars, checkpointVars, winVars, todo, stage,
                   trying, detected, typed, runnerTol, outcome>>
-----------------------------------------------------------------------------
(* runInput                                                                *)

\* runInput returns r to runNewInput.
Return(t, r) == /\ outcome' = [outcome EXCEPT ![t] = r]
                /\ Goto(t, "count")
Proceed(t, place) == Goto(t, place) /\ UNCHANGED outcome

CheckHash_Ignored(t) ==
    /\ pc[t] = "hash"
    /\ Seen!Reply(t)
    /\ Proceed(t, "cutoff")
    /\ UNCHANGED <<mainVars, dbVars, checkpointVars, winVars, loopVars, runnerVars>>
CheckHash(t) ==
    /\ pc[t] = "hash"
    /\ Seen!Reply(t)
    /\ IF answer'[t] = "repeated" THEN Return(t, "repeated") ELSE Proceed(t, "cutoff")
    /\ UNCHANGED <<mainVars, dbVars, checkpointVars, winVars, loopVars, runnerVars>>

\* The checkpoint's cutoff and its level are read one after the other.
CheckCutoff(t) ==
    /\ pc[t] = "cutoff"
    /\ Proceed(t, IF step > cutoff THEN "level" ELSE "type")
    /\ UNCHANGED <<mainVars, dbVars, hashVars, checkpointVars, winVars, loopVars, runnerVars>>

CheckLevel_Inclusive(t) ==
    /\ pc[t] = "level"
    /\ IF RunnerLevel(t) + 1 < level THEN Return(t, "droppedCheckpoint") ELSE Proceed(t, "type")
    /\ UNCHANGED <<mainVars, dbVars, hashVars, checkpointVars, winVars, loopVars, runnerVars>>
CheckLevel(t) ==
    /\ pc[t] = "level"
    /\ IF RunnerLevel(t) < level THEN Return(t, "droppedCheckpoint") ELSE Proceed(t, "type")
    /\ UNCHANGED <<mainVars, dbVars, hashVars, checkpointVars, winVars, loopVars, runnerVars>>

\* updateGameStateType.  The tolerance keeps its value if no checkpoint rule holds.
UpdateGameStateType_ReleasesFailed(t) ==
    /\ pc[t] = "type"
    /\ typed' = [typed EXCEPT ![t] = TRUE]
    /\ runnerTol' = [runnerTol EXCEPT ![t] =
          IF Game[state[t]].level > 0 THEN Game[state[t]].tolerance ELSE @]
    /\ IF Game[state[t]].type = "fail"
       THEN Goto(t, "release") /\ outcome' = [outcome EXCEPT ![t] = "failed"]
       ELSE Proceed(t, "free")
    /\ UNCHANGED <<mainVars, dbVars, hashVars, checkpointVars, winVars, loopVars, state>>
UpdateGameStateType(t) ==
    /\ pc[t] = "type"
    /\ typed' = [typed EXCEPT ![t] = TRUE]
    /\ runnerTol' = [runnerTol EXCEPT ![t] =
          IF Game[state[t]].level > 0 THEN Game[state[t]].tolerance ELSE @]
    /\ IF Game[state[t]].type = "fail" THEN Return(t, "failed") ELSE Proceed(t, "free")
    /\ UNCHANGED <<mainVars, dbVars, hashVars, checkpointVars, winVars, loopVars, state>>

\* getFreeState: the free queue, and failing that the worst base state.
GetFree(t) ==
    /\ pc[t] = "free"
    /\ IF freeSlots > 0 THEN freeSlots' = freeSlots - 1 /\ Proceed(t, "store")
                        ELSE UNCHANGED freeSlots /\ Proceed(t, "steal")
    /\ UNCHANGED <<mainVars, currentDb, nextDb, hashVars, checkpointVars, winVars, loopVars, runnerVars>>

Steal_Retries(t) ==
    /\ pc[t] = "steal"
    /\ IF currentDb # <<>> THEN currentDb' = Front(currentDb) /\ Proceed(t, "store")
                           ELSE UNCHANGED currentDb /\ Proceed(t, "free")
    /\ UNCHANGED <<mainVars, nextDb, freeSlots, hashVars, checkpointVars, winVars, loopVars, runnerVars>>
Steal(t) ==
    /\ pc[t] = "steal"
    /\ IF currentDb # <<>> THEN currentDb' = Front(currentDb) /\ Proceed(t, "store")
                           ELSE UNCHANGED currentDb /\ Return(t, "droppedNoStorage")
    /\ UNCHANGED <<mainVars, nextDb, freeSlots, hashVars, checkpointVars, winVars, loopVars, runnerVars>>

\* A win replaces the best one of the step, under _stepBestWinStateLock, if it beats
\* it.  Nobody catches the exception raised if it does not fit in its storage: it
\* leaves the parallel region, which terminates the program with all its threads,
\* before the reward of the best win is replaced.
Better_First(s) == bestWin = NoState
Better(s) == bestWin = NoState \/ Reward(s) > Reward(bestWin)
StoreWin(t) ==
    /\ pc[t] = "store" /\ Game[state[t]].type = "win"
    /\ IF Better(state[t]) /\ ~Game[state[t]].fits
       THEN /\ pc' = [u \in Threads |-> "terminated"]
            /\ UNCHANGED <<winVars, outcome>>
       ELSE /\ bestWin' = IF Better(state[t]) THEN state[t] ELSE bestWin
            /\ wins' = wins \union {state[t]}
            /\ outcome' = [outcome EXCEPT ![t] = "win"]
            /\ Goto(t, "release")
    /\ UNCHANGED <<mainVars, dbVars, hashVars, checkpointVars, loopVars, runnerVars>>

\* pushState of a normal state.
InsertionPoints(s) ==
    {i \in 1 .. Len(nextDb) + 1 :
        \A j \in 1 .. Len(nextDb) : IF j < i THEN Reward(nextDb[j]) >= Reward(s)
                                             ELSE Reward(nextDb[j]) <= Reward(s)}
StoreNormal(t) ==
    /\ pc[t] = "store" /\ Game[state[t]].type = "normal" /\ Game[state[t]].fits
    /\ \E i \in InsertionPoints(state[t]) : nextDb' = InsertAt(nextDb, i, state[t])
    /\ Return(t, "normal")
    /\ UNCHANGED <<mainVars, currentDb, freeSlots, hashVars, checkpointVars, winVars, loopVars, runnerVars>>

\* pushState failed: the differences to the reference state exceed the slot.
StoreFailed(t) ==
    /\ pc[t] = "store" /\ Game[state[t]].type = "normal" /\ ~Game[state[t]].fits
    /\ outcome' = [outcome EXCEPT ![t] = "droppedFailedSerialization"]
    /\ Goto(t, "release")
    /\ UNCHANGED <<mainVars, dbVars, hashVars, checkpointVars, winVars, loopVars, runnerVars>>

ReleaseSlot(t) ==
    /\ pc[t] = "release"
    /\ freeSlots' = freeSlots + 1
    /\ Goto(t, "count")
    /\ UNCHANGED <<mainVars, currentDb, nextDb, hashVars, checkpointVars, winVars, loopVars,
                   runnerVars, outcome>>
-----------------------------------------------------------------------------
(* The rest of runNewInput: the checkpoint is compared and written with no *)
(* lock, one variable after the other.                                     *)

\* Back in workerFunction, which records a candidate input that led to a new state.
BackToLoop(t) ==
    /\ Goto(t, "loop")
    /\ trying' = [trying EXCEPT ![t] = <<>>]
    /\ IF trying[t] # <<>> /\ outcome[t] # "repeated"
       THEN detected' = [detected EXCEPT ![trying[t][1]] = @ \union {trying[t][2]}]
       ELSE UNCHANGED detected
    /\ UNCHANGED <<base, todo, stage>>

CompareLevel(t) ==
    /\ pc[t] = "count"
    /\ IF RunnerLevel(t) > level THEN Goto(t, "setLevel") /\ UNCHANGED loopVars
                                 ELSE BackToLoop(t)
    /\ UNCHANGED <<mainVars, dbVars, hashVars, checkpointVars, winVars, runnerVars, outcome>>

SetLevel(t) ==
    /\ pc[t] = "setLevel"
    /\ level' = RunnerLevel(t)
    /\ moved' = TRUE
    /\ Goto(t, "setTolerance")
    /\ UNCHANGED <<mainVars, dbVars, hashVars, tolerance, cutoff, winVars, loopVars, runnerVars, outcome>>

SetTolerance(t) ==
    /\ pc[t] = "setTolerance"
    /\ tolerance' = runnerTol[t]
    /\ Goto(t, "setCutoff")
    /\ UNCHANGED <<mainVars, dbVars, hashVars, level, cutoff, moved, winVars, loopVars, runnerVars, outcome>>

SetCutoff(t) ==
    /\ pc[t] = "setCutoff"
    /\ cutoff' = step + runnerTol[t]
    /\ BackToLoop(t)
    /\ UNCHANGED <<mainVars, dbVars, hashVars, level, tolerance, moved, winVars, runnerVars, outcome>>
-----------------------------------------------------------------------------
(* runStep, and the conditions under which Driver::run calls it            *)

\* The barrier, then the advanceStep of both databases.
EndStep ==
    /\ running
    /\ \A t \in Threads : pc[t] = "done"
    /\ running' = FALSE
    /\ Seen!EndStep
    /\ currentDb' = currentDb \o nextDb
    /\ nextDb' = <<>>
    /\ step' = step + 1
    /\ UNCHANGED <<freeSlots, checkpointVars, winVars, loopVars, runnerVars, pc, outcome>>

\* The driver stops when no state is left or the last step has been run.
StartStep ==
    /\ ~running
    /\ currentDb # <<>> /\ step < MaxSteps
    /\ running' = TRUE
    /\ bestWin' = NoState /\ wins' = {} /\ moved' = FALSE
    /\ pc' = [t \in Threads |-> "pop"]
    /\ UNCHANGED <<step, dbVars, hashVars, level, tolerance, cutoff, loopVars, runnerVars, outcome>>

Worker(t) == \/ PopBase(t) \/ PopNothing(t) \/ FinishBase(t)
             \/ RunAllowedInput(t) \/ GetCandidateInputs(t)
             \/ RunCandidateInput(t) \/ SkipCandidateInput(t)
             \/ CheckHash(t) \/ CheckCutoff(t) \/ CheckLevel(t) \/ UpdateGameStateType(t)
             \/ GetFree(t) \/ Steal(t)
             \/ StoreWin(t) \/ StoreNormal(t) \/ StoreFailed(t) \/ ReleaseSlot(t)
             \/ CompareLevel(t) \/ SetLevel(t) \/ SetTolerance(t) \/ SetCutoff(t)

Next == EndStep \/ StartStep \/ \E t \in Threads : Worker(t)

Spec == Init /\ [][Next]_vars

\* Every thread, the main one too, is run by the operating system; the one lock is
\* held for a moment.
FairSpec == Spec /\ WF_vars(EndStep) /\ WF_vars(StartStep) /\ \A t \in Threads : WF_vars(Worker(t))
-----------------------------------------------------------------------------
(* Properties.                                                             *)

\* At the barrier the step's best win is one of its wins, and no win has a larger
\* reward: the comparison and the copy cannot be torn apart by another thread.
BestWinIsBest ==
    (\A t \in Threads : pc[t] = "done") =>
        IF wins = {} THEN bestWin = NoState
                     ELSE /\ bestWin \in wins
                          /\ \A w \in wins : Reward(w) <= Reward(bestWin)

\* No two states waiting to be expanded have the same hash, whichever threads found
\* them and when: the search never does the same work twice in a step.
NoDuplicates ==
    \A i, j \in 1 .. Len(nextDb) :
        i # j => Game[nextDb[i]].hash # Game[nextDb[j]].hash

\* If the checkpoint did not move during a step that was past its cutoff, the step
\* leaves no state of a lower level.
CheckpointPrunes ==
    (~running /\ ~moved /\ step > cutoff + 1) =>
        \A s \in ToSet(currentDb) : Game[s].level >= level

\* The search ends: it runs out of states or of steps, and no thread gets stuck.
Finished == ~running /\ (currentDb = <<>> \/ step = MaxSteps)
SearchEnds == <>[]Finished

\* The checkpoint level only rises ("Checking whether this state's checkpoint is
\* new", engine.hpp:533).
CheckpointRises == [][level' >= level]_vars

\* A new state is dropped for the checkpoint only if it does not meet it ("Checking
\* whether this state meets checkpoint", engine.hpp:571, and "If state does not meet
\* checkpoint, then do not process it further", engine.hpp:576).
DropsOnlyLateStates ==
    [][\A t \in Threads :
          pc[t] = "level" /\ pc'[t] = "count" => Game[state[t]].level < level]_vars

\* A worker is not through with a win before it is stored, or one at least as good is,
\* whichever thread found that: every win could be the best one of the step ("Best win state needs to be
\* stored if its better than any previous one found", engine.hpp:609).
StoresBestWin ==
    [][\A t \in Threads :
          pc[t] = "store" /\ Game[state[t]].type = "win" /\ pc'[t] # "store" =>
              bestWin' # NoState /\ Reward(bestWin') >= Reward(state[t])]_vars
=============================================================================
