------------------------------- MODULE Driver -------------------------------
(***************************************************************************)
(* Driver::run (source/driver.hpp:101-308): the main thread runs the       *)
(* engine step by step and copies the best and the worst state of each     *)
(* step out of the state database; a second thread saves the copies to     *)
(* files from time to time.  A mutex protects the copies.                  *)
(*                                                                         *)
(* One step of the engine is one action here.  What the driver sees of it  *)
(* is a set of rewards, those of the states in the current database (it is *)
(* sorted: CurrentSorted of StateDbPlain), the number of wins, and the     *)
(* best win of the step.  A state is encoded against the reference data of *)
(* the step that stores it and is read back against those of the last step *)
(* (AfterSwap of StateDb), which with differential compression must be the *)
(* same; reading it against others yields some other bytes, Garbage.       *)
(*                                                                         *)
(* The terminal output and the rewards that are only printed are left out. *)
(***************************************************************************)
EXTENDS Integers, FiniteSets, FiniteSetsExt

CONSTANTS Rewards,      \* the rewards of states
          MaxSteps,     \* "Max Steps" of the configuration
          Configs,      \* the configurations: see Configuration
          NoReward,     \* minus infinity
          NoState,      \* storage or a file that holds nothing yet
          Garbage       \* the inputs read from a state decoded wrongly

\* "End On First Win State", "Use Differential Compression" and "Save Intermediate
\* Results: Enabled", and whether the environment has JAFFAR_OVERRIDE_RETURN_CODE.
Configuration == [endOnFirstWin : BOOLEAN, differential : BOOLEAN, saving : BOOLEAN, override : BOOLEAN]

\* A state found in a step; the same step's reference data encode it.
FoundStates == [step : 0 .. MaxSteps, win : BOOLEAN, reward : Rewards]

ASSUME DriverAssumption == /\ Rewards \subseteq Int /\ Rewards # {} /\ IsFiniteSet(Rewards)
                           /\ NoReward \in Int /\ \A r \in Rewards : NoReward < r
                           /\ MaxSteps \in Nat \ {0}
                           /\ Configs \subseteq Configuration
                           /\ NoState \notin FoundStates

VARIABLES
    config,         \* the configuration of this run
    main, saver,    \* what the two threads do next
    mutex,          \* who holds _updateIntermediateResultMutex
    currentStep,    \* _currentStep
    winStatesFound, \* _winStatesFound
    bestWinReward,  \* _bestWinStateReward
    storage,        \* _bestStateStorage and _worstStateStorage
    solution,       \* _bestSolutionStorage and _worstSolutionStorage
    file,           \* the four files
    hasFinished,    \* _hasFinished
    exitReason,
    exitCode,       \* what main returns
    database,       \* rewards of the states in the engine's current database
    winStates,      \* the engine's _winStates
    stepBestWin,    \* reward in the engine's _stepBestWinState
    bestEver        \* history: reward of the best win of all steps

engineVars == <<database, winStates, stepBestWin, bestEver>>
resultVars == <<bestWinReward, storage, solution>>
vars == <<config, main, saver, mutex, currentStep, winStatesFound, resultVars, file,
          hasFinished, exitReason, exitCode, engineVars>>

NoCode == -1
Kinds == {"best", "worst"}
\* A state of the current step.
Found(win, r) == [step |-> currentStep, win |-> win, reward |-> r]

TypeOK == /\ config \in Configs
          /\ main \in {"check", "lockBest", "loadBest", "lockWorst", "loadWorst", "runStep", "join",
                       "lockFinal", "loadFinal", "lockSave", "saveState", "return", "done"}
          /\ saver \in {"loop", "asleep", "lockBest", "saveBest", "lockWorst", "saveWorst", "ended"}
          /\ mutex \in {"nobody", "main", "saver"}
          /\ currentStep \in 0 .. MaxSteps
          /\ winStatesFound \in Nat /\ winStates \in Nat
          /\ {bestWinReward, stepBestWin, bestEver} \subseteq Rewards \union {NoReward}
          /\ storage \in [Kinds -> FoundStates \union {NoState}]
          /\ solution \in [Kinds -> FoundStates \union {NoState, Garbage}]
          /\ file \in [Kinds -> [solution : FoundStates \union {NoState, Garbage},
                                 state : FoundStates \union {NoState}]]
          /\ hasFinished \in BOOLEAN
          /\ exitReason \in {"none", "winStateFound", "outOfStates", "maximumStepReached"}
          /\ exitCode \in {NoCode} \union 0 .. 2
          /\ database \subseteq Rewards
-----------------------------------------------------------------------------
\* Driver::initialize; the engine holds the initial state.
Init == /\ config \in Configs
        /\ main = "check" /\ mutex = "nobody"
        /\ saver = IF config.saving THEN "loop" ELSE "ended"
        /\ currentStep = 0 /\ winStatesFound = 0 /\ bestWinReward = NoReward
        /\ storage = [k \in Kinds |-> NoState]
        /\ solution = [k \in Kinds |-> NoState]
        /\ file = [k \in Kinds |-> [solution |-> NoState, state |-> NoState]]
        /\ hasFinished = FALSE /\ exitReason = "none" /\ exitCode = NoCode
        /\ \E r \in Rewards : database = {r}
        /\ winStates = 0 /\ stepBestWin = NoReward /\ bestEver = NoReward

\* loadStateIntoRunner and getInputHistoryString: the inputs of a stored state.
Decoded_CurrentReference(s) ==
    IF config.differential /\ s.step + 1 # currentStep THEN Garbage ELSE s
Decoded(s) == IF config.differential /\ s.step # currentStep THEN Garbage ELSE s

Lock(who) == mutex = "nobody" /\ mutex' = who
Unlock(who) == mutex = who /\ mutex' = "nobody"
-----------------------------------------------------------------------------
(* The main thread.                                                        *)

\* The reasons to stop, in the order in which they are tried.
StopReason_NoMaximum == IF config.endOnFirstWin /\ winStates > 0 THEN "winStateFound"
                        ELSE IF database = {} THEN "outOfStates" ELSE "none"
StopReason_ForgetsWins == IF config.endOnFirstWin /\ winStates > 0 THEN "winStateFound"
                          ELSE IF database = {} THEN "outOfStates"
                          ELSE IF currentStep < MaxSteps THEN "none" ELSE "maximumStepReached"
StopReason == IF config.endOnFirstWin /\ winStates > 0 THEN "winStateFound"
              ELSE IF database = {} THEN "outOfStates"
              ELSE IF currentStep < MaxSteps THEN "none"
              ELSE IF winStatesFound > 0 THEN "winStateFound" ELSE "maximumStepReached"

Continue == /\ main = "check" /\ StopReason = "none"
            /\ main' = "lockBest"
            /\ UNCHANGED <<config, saver, mutex, currentStep, winStatesFound, resultVars, file,
                           hasFinished, exitReason, exitCode, engineVars>>

Finish_FlagUnset == /\ main = "check" /\ StopReason # "none"
                    /\ exitReason' = StopReason
                    /\ main' = "join"
                    /\ UNCHANGED <<config, saver, mutex, currentStep, winStatesFound, resultVars, file,
                                   hasFinished, exitCode, engineVars>>
Finish == /\ main = "check" /\ StopReason # "none"
          /\ exitReason' = StopReason
          /\ hasFinished' = TRUE
          /\ main' = "join"
          /\ UNCHANGED <<config, saver, mutex, currentStep, winStatesFound, resultVars, file,
                         exitCode, engineVars>>

\* The saver thread has returned, if there is one.
Join == /\ main = "join" /\ saver = "ended"
        /\ main' = "lockFinal"
        /\ UNCHANGED <<config, saver, mutex, currentStep, winStatesFound, resultVars, file,
                       hasFinished, exitReason, exitCode, engineVars>>

\* Whether the best win of the last step is the best of all.
Improves_Any == winStates > 0 /\ stepBestWin # NoReward
Improves == winStates > 0 /\ stepBestWin > bestWinReward

\* updateBestState, in the loop and once more after it: the copy ...
CopyBest(from, next) ==
    /\ main = from
    /\ Lock("main")
    /\ storage' = [storage EXCEPT !["best"] =
          IF Improves THEN Found(TRUE, stepBestWin)
          ELSE IF winStatesFound = 0 THEN Found(FALSE, Max(database)) ELSE @]
    /\ bestWinReward' = IF Improves THEN stepBestWin ELSE bestWinReward
    /\ main' = next
    /\ UNCHANGED <<config, saver, currentStep, winStatesFound, solution, file,
                   hasFinished, exitReason, exitCode, engineVars>>
LockBest == CopyBest("lockBest", "loadBest")

\* ... and the inputs that lead to it.
Load(k, from, next) ==
    /\ main = from
    /\ Unlock("main")
    /\ solution' = [solution EXCEPT ![k] = Decoded(storage[k])]
    /\ main' = next
    /\ UNCHANGED <<config, saver, currentStep, winStatesFound, bestWinReward, storage, file,
                   hasFinished, exitReason, exitCode, engineVars>>
LoadBest == Load("best", "loadBest", "lockWorst")

\* updateWorstState.
LockWorst == /\ main = "lockWorst"
             /\ Lock("main")
             /\ storage' = [storage EXCEPT !["worst"] = Found(FALSE, Min(database))]
             /\ main' = "loadWorst"
             /\ UNCHANGED <<config, saver, currentStep, winStatesFound, bestWinReward, solution, file,
                            hasFinished, exitReason, exitCode, engineVars>>
LoadWorst == Load("worst", "loadWorst", "runStep")

\* Engine::runStep: the states and the wins it finds.
RunStep == /\ main = "runStep"
           /\ \E found, wins \in SUBSET Rewards :
                 /\ database' = found
                 /\ winStates' = winStates + Cardinality(wins)
                 /\ stepBestWin' = Max(wins \union {NoReward})
                 /\ bestEver' = Max(wins \union {bestEver})
           /\ winStatesFound' = winStates'
           /\ currentStep' = currentStep + 1
           /\ main' = "check"
           /\ UNCHANGED <<config, saver, mutex, resultVars, file, hasFinished, exitReason, exitCode>>

\* After the loop: updateBestState has nothing to do without states and wins.
LockFinal == /\ database # {} \/ winStatesFound > 0
             /\ CopyBest("lockFinal", "loadFinal")
SkipFinal == /\ main = "lockFinal" /\ database = {} /\ winStatesFound = 0
             /\ main' = "lockSave"
             /\ UNCHANGED <<config, saver, mutex, currentStep, winStatesFound, resultVars, file,
                            hasFinished, exitReason, exitCode, engineVars>>
LoadFinal == Load("best", "loadFinal", "lockSave")
-----------------------------------------------------------------------------
(* saveBestStateInformation and saveWorstStateInformation, run by the      *)
(* saver thread and, for the best state, by the main one at the end: two   *)
(* files written one after the other under the mutex.                      *)

SaveSolution_NoWait(k, who) ==
    /\ mutex' = who
    /\ file' = [file EXCEPT ![k].solution = solution[k]]
    /\ UNCHANGED <<config, currentStep, winStatesFound, resultVars,
                   hasFinished, exitReason, exitCode, engineVars>>
SaveSolution(k, who) ==
    /\ Lock(who)
    /\ file' = [file EXCEPT ![k].solution = solution[k]]
    /\ UNCHANGED <<config, currentStep, winStatesFound, resultVars,
                   hasFinished, exitReason, exitCode, engineVars>>
SaveState(k, who) ==
    /\ Unlock(who)
    /\ file' = [file EXCEPT ![k].state = storage[k]]
    /\ UNCHANGED <<config, currentStep, winStatesFound, resultVars,
                   hasFinished, exitReason, exitCode, engineVars>>

FinalSaveSolution == /\ main = "lockSave" /\ main' = "saveState"
                     /\ SaveSolution("best", "main") /\ UNCHANGED saver
FinalSaveState == /\ main = "saveState" /\ main' = "return"
                  /\ SaveState("best", "main") /\ UNCHANGED saver

\* Driver::run returns its reason and main (jaffar.cpp) that one's value, unless told
\* to return zero.
Code(reason) == CASE reason = "winStateFound" -> 0
                  [] reason = "outOfStates" -> 1
                  [] reason = "maximumStepReached" -> 2
Return == /\ main = "return" /\ main' = "done"
          /\ exitCode' = IF config.override THEN 0 ELSE Code(exitReason)
          /\ UNCHANGED <<config, saver, mutex, currentStep, winStatesFound, resultVars, file,
                         hasFinished, exitReason, engineVars>>

\* The saver thread sleeps for a moment at a time; when it wakes up, the time to save
\* may have come, also after the main thread has finished its loop.
Sleep == /\ saver = "loop" /\ ~hasFinished
         /\ saver' = "asleep"
         /\ UNCHANGED <<config, main, mutex, currentStep, winStatesFound, resultVars, file,
                        hasFinished, exitReason, exitCode, engineVars>>
Wake == /\ saver = "asleep"
        /\ \/ saver' = "loop"
           \/ currentStep > 1 /\ saver' = "lockBest"
        /\ UNCHANGED <<config, main, mutex, currentStep, winStatesFound, resultVars, file,
                       hasFinished, exitReason, exitCode, engineVars>>
EndSaver == /\ saver = "loop" /\ hasFinished
            /\ saver' = "ended"
            /\ UNCHANGED <<config, main, mutex, currentStep, winStatesFound, resultVars, file,
                           hasFinished, exitReason, exitCode, engineVars>>

SaverStep(from, next) == saver = from /\ saver' = next /\ UNCHANGED main
SaveBestSolution  == SaverStep("lockBest", "saveBest") /\ SaveSolution("best", "saver")
SaveBestState     == SaverStep("saveBest", "lockWorst") /\ SaveState("best", "saver")
SaveWorstSolution == SaverStep("lockWorst", "saveWorst") /\ SaveSolution("worst", "saver")
SaveWorstState    == SaverStep("saveWorst", "loop") /\ SaveState("worst", "saver")
-----------------------------------------------------------------------------
Main == \/ Continue \/ LockBest \/ LoadBest \/ LockWorst \/ LoadWorst \/ RunStep
        \/ Finish \/ Join \/ LockFinal \/ SkipFinal \/ LoadFinal
        \/ FinalSaveSolution \/ FinalSaveState \/ Return
Saver == \/ Sleep \/ Wake \/ EndSaver
         \/ SaveBestSolution \/ SaveBestState \/ SaveWorstSolution \/ SaveWorstState

Next == Main \/ Saver
Spec == Init /\ [][Next]_vars

\* The mutex is not fair, but the saver thread sleeps without it between two rounds of
\* saving, so the main thread, which finds it free again and again, gets it.
FairSpec == Spec /\ SF_vars(Main) /\ WF_vars(Saver)
-----------------------------------------------------------------------------
\* Whenever neither thread is between the two, the solution file and the state file of
\* a kind hold the inputs and the state of one and the same update, whichever of the
\* threads saved or updated last (driver.hpp:181-205 against 235-308).
FilesMatch == \A k \in Kinds : file[k].solution = file[k].state
                  \/ main = "saveState" \/ saver \in {"saveBest", "saveWorst"}

\* Outside an update the stored solution of a kind is the one of its stored state
\* (driver.hpp:252-253 and 297-304).
SolutionMatches == main \in {"loadBest", "loadWorst", "loadFinal"} \/ solution = storage

\* At the end of a run that won, the best state's file holds the best winning state of
\* all steps, although each step only reports its own best win (engine.hpp:220) and the
\* driver looks at it one call later.
ReportsBestWin ==
    main = "done" /\ winStatesFound > 0 => /\ file["best"].state.win
                                           /\ file["best"].state.reward = bestEver

\* What a test or a script learns from the exit code (jaffar.cpp:55-71, used by
\* tests/meson.build): zero, if it is not asked for, says that a win has been found and
\* is in the best state's file; "maximum step reached", that there was none.  A search
\* that goes on after a win and runs out of states returns one all the same.
CodeTellsWin ==
    main = "done" /\ ~config.override =>
        /\ exitCode = 0 => file["best"].state # NoState /\ file["best"].state.win
        /\ exitCode = 2 => winStatesFound = 0
        /\ exitCode = 1 => database = {} /\ (config.endOnFirstWin => winStatesFound = 0)

\* Every run comes to an end, the saver thread's sleep and the mutex notwithstanding.
RunEnds == <>(main = "done")
=============================================================================
