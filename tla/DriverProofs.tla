---------------------------- MODULE DriverProofs ----------------------------
(***************************************************************************)
(* The driver, for every set of rewards, every number of steps and every   *)
(* configuration: what it saves and what it returns tell the same as the   *)
(* search found.                                                           *)
(*                                                                         *)
(* The driver looks at the wins of a step only once, in the call of        *)
(* updateBestState that follows it, in the loop or after it.  The          *)
(* invariant says how the best win of all steps is to be had before and    *)
(* after that call (WinsKept), and that what made the loop go on or end    *)
(* still holds until the next step (GoesOn, Ended).  That the files match  *)
(* (Matched) rests on the mutex and on which step a copy is from.          *)
(***************************************************************************)
EXTENDS Driver, FiniteFacts

\* The main thread is in its loop, between the check and the end of the step.
Looping == {"lockBest", "loadBest", "lockWorst", "loadWorst", "runStep"}
\* It has not looked at the wins of the last step yet.
Unseen == {"check", "lockBest", "join", "lockFinal"}
\* It has left the loop.
Over == {"join", "lockFinal", "loadFinal", "lockSave", "saveState", "return", "done"}

MutexHeld == /\ mutex = "main"  <=> main \in {"loadBest", "loadWorst", "loadFinal", "saveState"}
             /\ mutex = "saver" <=> saver \in {"saveBest", "saveWorst"}

GoesOn == main \in Looping => StopReason = "none" /\ database # {} /\ currentStep < MaxSteps

Greater(a, b) == IF a > b THEN a ELSE b

WinsKept ==
    /\ winStatesFound = winStates
    /\ winStates > 0 <=> bestEver # NoReward
    /\ bestEver = IF main \in Unseen THEN Greater(stepBestWin, bestWinReward) ELSE bestWinReward
    /\ bestWinReward # NoReward => /\ storage["best"] \in FoundStates
                                   /\ storage["best"].win /\ storage["best"].reward = bestWinReward
    /\ config.endOnFirstWin /\ main \in Looping \union Unseen => bestWinReward = NoReward

Ended ==
    /\ main \in Over => exitReason = StopReason /\ exitReason # "none"
    /\ main \in {"return", "done"} => file["best"].state = storage["best"]
    /\ main = "done" => exitCode = IF config.override THEN 0 ELSE Code(exitReason)

IInv == TypeOK /\ MutexHeld /\ GoesOn /\ WinsKept /\ Ended
-----------------------------------------------------------------------------
(* Rewards.                                                                *)

LEMMA RewardFacts ==
  /\ Rewards \subseteq Int /\ IsFiniteSet(Rewards) /\ NoReward \in Int /\ NoReward \notin Rewards
  /\ \A r \in Rewards : NoReward < r
  /\ \A S \in SUBSET Rewards : S # {} => Max(S) \in Rewards /\ Min(S) \in Rewards
  /\ \A S \in SUBSET Rewards : Cardinality(S) \in Nat /\ (Cardinality(S) = 0 <=> S = {})
  <1>1. \A S \in SUBSET Rewards : IsFiniteSet(S) /\ S \subseteq Int
    BY DriverAssumption, FS_Subset
  <1>2. \A S \in SUBSET Rewards : S # {} => Max(S) \in Rewards /\ Min(S) \in Rewards
    BY <1>1, Extremes
  <1>3. \A S \in SUBSET Rewards : Cardinality(S) \in Nat /\ (Cardinality(S) = 0 <=> S = {})
    BY <1>1, FS_CardinalityType, FS_EmptySet
  <1> QED
    BY <1>2, <1>3, DriverAssumption

LEMMA RewardOrder ==
  ASSUME NEW a \in Rewards \union {NoReward}, NEW b \in Rewards \union {NoReward}
  PROVE  /\ a \in Int /\ b \in Int /\ a >= NoReward /\ b >= NoReward
         /\ a > b => a \in Rewards /\ a # NoReward
         /\ Greater(a, b) = NoReward => Greater(a, b) = b
  <1>1. /\ a \in Int /\ b \in Int /\ NoReward \in Int /\ a >= NoReward /\ b >= NoReward
        /\ a # NoReward => a \in Rewards
    BY RewardFacts
  <1> QED
    BY ONLY <1>1 DEF Greater

\* The best of some wins and what there was before.
LEMMA BestOf ==
  ASSUME NEW wins \in SUBSET Rewards, NEW b \in Rewards \union {NoReward}
  PROVE  /\ Max(wins \union {b}) \in Rewards \union {NoReward}
         /\ Max(wins \union {b}) = Greater(Max(wins \union {NoReward}), b)
         /\ Max(wins \union {b}) # NoReward <=> b # NoReward \/ wins # {}
  <1>1. /\ IsFiniteSet(wins \union {b}) /\ IsFiniteSet(wins \union {NoReward})
        /\ wins \union {b} \subseteq Int /\ wins \union {NoReward} \subseteq Int
    <2>1. IsFiniteSet(wins) /\ wins \subseteq Int /\ b \in Int /\ NoReward \in Int
      BY RewardFacts, FS_Subset
    <2> QED
      BY <2>1, FS_AddElement
  <1>2. /\ Max(wins \union {b}) \in wins \union {b}
        /\ \A y \in wins \union {b} : Max(wins \union {b}) >= y
        /\ Max(wins \union {NoReward}) \in wins \union {NoReward}
        /\ \A y \in wins \union {NoReward} : Max(wins \union {NoReward}) >= y
    BY <1>1, Extremes
  <1> DEFINE p == Max(wins \union {b})
             q == Max(wins \union {NoReward})
  <1>3. /\ p \in wins \union {b} /\ \A y \in wins \union {b} : p >= y
        /\ q \in wins \union {NoReward} /\ \A y \in wins \union {NoReward} : q >= y
    BY <1>2
  <1> HIDE DEF p, q
  <1>4. /\ p \in Rewards \union {NoReward} /\ q \in Rewards \union {NoReward}
        /\ p \in Int /\ q \in Int /\ b \in Int /\ b >= NoReward
        /\ \A r \in Rewards : r \in Int /\ r > NoReward
    BY <1>3, RewardFacts
  <1>5. p >= b /\ q >= NoReward /\ (\A r \in wins : p >= r /\ q >= r)
    BY <1>3
  <1>6. p # NoReward <=> b # NoReward \/ wins # {}
    <2>1. wins # {} => \E r \in wins : p >= r /\ r > NoReward /\ r \in Int
      BY <1>4, <1>5
    <2>2. wins # {} \/ b # NoReward => p > NoReward
      BY ONLY <1>4, <1>5, <2>1, RewardFacts
    <2>3. wins = {} => p = b
      BY <1>3
    <2> QED
      BY ONLY <1>4, <2>2, <2>3, RewardFacts
  <1>7. p = Greater(q, b)
    <2>1. CASE p \in wins
      <3>1. q >= p
        BY <1>5, <2>1
      <3>2. q \in wins
        BY <1>3, <1>4, <2>1, <3>1, RewardFacts
      <3>3. p >= q
        BY <1>5, <3>2
      <3> QED
        BY <1>4, <1>5, <3>1, <3>3 DEF Greater
    <2>2. CASE p = b
      <3>1. q <= b
        BY <1>3, <1>4, <1>5, <2>2
      <3> QED
        BY <1>4, <2>2, <3>1 DEF Greater
    <2> QED
      BY <1>3, <2>1, <2>2
  <1> QED
    BY <1>4, <1>6, <1>7 DEF p, q
-----------------------------------------------------------------------------
(* The invariant.                                                          *)

LEMMA InitInv == Init => IInv
  <1> SUFFICES ASSUME Init PROVE IInv
    OBVIOUS
  <1> USE RewardFacts DEF Init
  <1>1. TypeOK
    <2>1. 0 \in 0 .. MaxSteps /\ NoCode \in {NoCode} \union 0 .. 2
      BY DriverAssumption
    <2> QED
      BY <2>1 DEF TypeOK, Kinds
  <1>2. MutexHeld /\ GoesOn /\ WinsKept /\ Ended
    BY DEF MutexHeld, GoesOn, WinsKept, Ended, Looping, Unseen, Over, Greater
  <1> QED
    BY <1>1, <1>2 DEF IInv

\* Nothing but the threads' positions and the flags changes.
LEMMA CheckInv == ASSUME IInv, Continue \/ Finish \/ Join \/ SkipFinal PROVE IInv'
  <1> USE DEF IInv, Continue, Finish, Join, SkipFinal, engineVars, resultVars
  <1>1. StopReason \in {"none", "winStateFound", "outOfStates", "maximumStepReached"}
    BY DEF StopReason
  <1>2. TypeOK'
    BY <1>1 DEF TypeOK
  <1>3. StopReason' = StopReason
    BY DEF StopReason
  <1>4. MutexHeld'
    BY DEF MutexHeld
  <1>5. GoesOn'
    BY <1>3 DEF GoesOn, StopReason, Looping
  <1>6. winStatesFound = 0 /\ main = "lockFinal" => Greater(stepBestWin, bestWinReward) = bestWinReward
    <2>1. /\ stepBestWin \in Rewards \union {NoReward} /\ bestWinReward \in Rewards \union {NoReward}
          /\ winStatesFound = 0 => bestEver = NoReward
          /\ main = "lockFinal" => bestEver = Greater(stepBestWin, bestWinReward)
      BY DEF WinsKept, TypeOK, Unseen
    <2> QED
      BY ONLY <2>1, RewardOrder
  <1>7. WinsKept'
    BY <1>6 DEF WinsKept, Unseen, Looping
  <1>8. Ended'
    BY <1>3 DEF Ended, Over
  <1> QED
    BY <1>2, <1>4, <1>5, <1>7, <1>8

\* The copy of the best state: the wins of the last step have been seen.
LEMMA CopyBestInv == ASSUME IInv, LockBest \/ LockFinal PROVE IInv'
  <1> USE DEF IInv, LockBest, LockFinal, CopyBest, Lock, engineVars
  <1>1. /\ main \in {"lockBest", "lockFinal"} /\ main \in Unseen
        /\ main' = IF main = "lockBest" THEN "loadBest" ELSE "loadFinal"
        /\ currentStep \in 0 .. MaxSteps /\ database \subseteq Rewards
        /\ winStates \in Nat /\ winStatesFound = winStates
        /\ {bestWinReward, stepBestWin, bestEver} \subseteq Rewards \union {NoReward}
    BY DEF TypeOK, Unseen, WinsKept
  <1>2. Improves <=> stepBestWin > bestWinReward
    <2>1. bestEver = Greater(stepBestWin, bestWinReward) /\ (winStates > 0 <=> bestEver # NoReward)
      BY <1>1 DEF WinsKept
    <2>2. stepBestWin > bestWinReward => stepBestWin # NoReward
      BY <1>1, RewardOrder
    <2> QED
      BY ONLY <2>1, <2>2 DEF Improves, Greater
  <1>3. Improves => Found(TRUE, stepBestWin) \in FoundStates
    <2>1. Improves => stepBestWin \in Rewards
      BY <1>1, <1>2, RewardOrder
    <2> QED
      BY ONLY <1>1, <2>1 DEF Found, FoundStates
  <1>4. winStatesFound = 0 => Found(FALSE, Max(database)) \in FoundStates
    <2>1. winStatesFound = 0 => database # {}
      <3>1. CASE LockBest
        BY <3>1 DEF GoesOn, Looping
      <3>2. CASE LockFinal
        BY <1>1, <3>2
      <3> QED
        BY <3>1, <3>2
    <2>2. database # {} => Max(database) \in Rewards
      BY <1>1, RewardFacts
    <2> QED
      BY ONLY <1>1, <2>1, <2>2 DEF Found, FoundStates
  <1>5. TypeOK'
    BY <1>1, <1>3, <1>4 DEF TypeOK, Kinds
  <1>6. StopReason' = StopReason
    BY DEF StopReason
  <1>7. MutexHeld'
    BY <1>1 DEF MutexHeld
  <1>8. GoesOn'
    BY <1>1, <1>6 DEF GoesOn, Looping
  <1>9. bestWinReward' = bestEver /\ main' \notin Unseen
    BY <1>1, <1>2 DEF WinsKept, Greater, Unseen
  <1>10. bestWinReward' # NoReward => /\ storage'["best"] \in FoundStates /\ storage'["best"].win
                                      /\ storage'["best"].reward = bestWinReward'
    <2>1. CASE Improves
      <3>1. storage'["best"] = Found(TRUE, stepBestWin) /\ bestWinReward' = stepBestWin
        BY <2>1 DEF TypeOK, Kinds
      <3> QED
        BY ONLY <1>3, <2>1, <3>1 DEF Found
    <2>2. CASE ~Improves
      <3>1. bestWinReward' # NoReward => winStatesFound # 0
        BY <1>1, <1>9 DEF WinsKept
      <3>2. bestWinReward' = bestWinReward
        BY <2>2
      <3>3. winStatesFound # 0 => storage'["best"] = storage["best"]
        BY <2>2 DEF TypeOK, Kinds
      <3> QED
        BY <3>1, <3>2, <3>3 DEF WinsKept
    <2> QED
      BY <2>1, <2>2
  <1>11. config.endOnFirstWin /\ main = "lockBest" => bestWinReward' = NoReward
    <2>1. config.endOnFirstWin /\ main = "lockBest" => winStates = 0
      BY <1>1 DEF GoesOn, Looping, StopReason
    <2> QED
      BY <1>9, <2>1 DEF WinsKept
  <1>12. WinsKept'
    BY <1>1, <1>9, <1>10, <1>11 DEF WinsKept, Looping, Unseen
  <1>13. Ended'
    BY <1>1, <1>6 DEF Ended, Over
  <1> QED
    BY <1>5, <1>7, <1>8, <1>12, <1>13

LEMMA CopyWorstInv == ASSUME IInv, LockWorst PROVE IInv'
  <1> USE DEF IInv, LockWorst, Lock, engineVars
  <1>1. Found(FALSE, Min(database)) \in FoundStates
    BY RewardFacts DEF GoesOn, Looping, TypeOK, Found, FoundStates
  <1>2. TypeOK'
    BY <1>1 DEF TypeOK
  <1>3. StopReason' = StopReason
    BY DEF StopReason
  <1>4. storage'["best"] = storage["best"]
    BY DEF TypeOK, Kinds
  <1>5. MutexHeld' /\ GoesOn' /\ WinsKept' /\ Ended'
    BY <1>3, <1>4 DEF MutexHeld, GoesOn, WinsKept, Ended, Looping, Unseen, Over
  <1> QED
    BY <1>2, <1>5

\* The inputs of a copy are read.
LEMMA LoadInv == ASSUME IInv, LoadBest \/ LoadWorst \/ LoadFinal PROVE IInv'
  <1> USE DEF IInv, LoadBest, LoadWorst, LoadFinal, Load, Unlock, engineVars
  <1>1. \A k \in Kinds : Decoded(storage[k]) \in FoundStates \union {NoState, Garbage}
    BY DEF TypeOK, Decoded
  <1>2. TypeOK'
    BY <1>1 DEF TypeOK, Kinds
  <1>3. StopReason' = StopReason
    BY DEF StopReason
  <1>4. MutexHeld' /\ GoesOn' /\ WinsKept' /\ Ended'
    BY <1>3 DEF MutexHeld, GoesOn, WinsKept, Ended, Looping, Unseen, Over
  <1> QED
    BY <1>2, <1>4

LEMMA RunStepInv == ASSUME IInv, RunStep PROVE IInv'
  <1> USE DEF IInv, RunStep, resultVars
  <1>1. PICK found \in SUBSET Rewards, wins \in SUBSET Rewards :
           /\ database' = found
           /\ winStates' = winStates + Cardinality(wins)
           /\ stepBestWin' = Max(wins \union {NoReward})
           /\ bestEver' = Max(wins \union {bestEver})
    OBVIOUS
  <1>2. /\ bestEver = bestWinReward /\ winStates \in Nat
        /\ {bestWinReward, stepBestWin, bestEver} \subseteq Rewards \union {NoReward}
        /\ winStates > 0 <=> bestEver # NoReward
    BY DEF TypeOK, WinsKept, Unseen
  <1>3. /\ bestEver' \in Rewards \union {NoReward} /\ stepBestWin' \in Rewards \union {NoReward}
        /\ bestEver' = Greater(stepBestWin', bestWinReward)
        /\ bestEver' # NoReward <=> bestEver # NoReward \/ wins # {}
    BY <1>1, <1>2, BestOf
  <1>4. /\ Cardinality(wins) \in Nat /\ (Cardinality(wins) = 0 <=> wins = {})
    BY RewardFacts
  <1>5. winStates' \in Nat /\ (winStates' > 0 <=> bestEver' # NoReward)
    BY <1>1, <1>2, <1>3, <1>4
  <1>6. currentStep + 1 \in 0 .. MaxSteps
    BY DriverAssumption DEF GoesOn, Looping, TypeOK
  <1>7. TypeOK'
    BY <1>1, <1>2, <1>3, <1>5, <1>6 DEF TypeOK
  <1>8. WinsKept'
    BY <1>3, <1>5 DEF WinsKept, Unseen, Looping
  <1>9. MutexHeld' /\ GoesOn' /\ Ended'
    BY DEF MutexHeld, GoesOn, Ended, Looping, Over
  <1> QED
    BY <1>7, <1>8, <1>9

\* A file is written.
LEMMA SaveInv ==
  ASSUME IInv, \/ FinalSaveSolution \/ FinalSaveState
               \/ SaveBestSolution \/ SaveBestState \/ SaveWorstSolution \/ SaveWorstState
  PROVE  IInv'
  <1> USE DEF IInv, FinalSaveSolution, FinalSaveState, SaveBestSolution, SaveBestState,
              SaveWorstSolution, SaveWorstState, SaverStep, SaveSolution, SaveState, Lock, Unlock,
              engineVars, resultVars
  <1>1. TypeOK'
    <2>1. "best" \in Kinds /\ "worst" \in Kinds
      BY DEF Kinds
    <2>2. file' \in [Kinds -> [solution : FoundStates \union {NoState, Garbage},
                               state : FoundStates \union {NoState}]]
      BY <2>1 DEF TypeOK
    <2> QED
      BY <2>2 DEF TypeOK
  <1>2. StopReason' = StopReason
    BY DEF StopReason
  <1>3. MutexHeld'
    BY DEF MutexHeld
  <1>4. GoesOn' /\ WinsKept'
    BY <1>2 DEF GoesOn, WinsKept, Looping, Unseen
  <1>5. main' \in {"return", "done"} => file'["best"].state = storage["best"]
    BY DEF TypeOK, Kinds, Ended
  <1>6. Ended'
    BY <1>2, <1>5 DEF Ended, Over
  <1> QED
    BY <1>1, <1>3, <1>4, <1>6

LEMMA ReturnInv == ASSUME IInv, Return PROVE IInv'
  <1> USE DEF IInv, Return, engineVars, resultVars
  <1>1. StopReason' = StopReason
    BY DEF StopReason
  <1>2. exitReason \in {"winStateFound", "outOfStates", "maximumStepReached"}
    BY DEF Ended, Over, TypeOK
  <1>3. TypeOK'
    BY <1>2 DEF TypeOK, Code
  <1>4. MutexHeld' /\ GoesOn' /\ WinsKept' /\ Ended'
    BY <1>1 DEF MutexHeld, GoesOn, WinsKept, Ended, Looping, Unseen, Over
  <1> QED
    BY <1>3, <1>4

\* The saver thread sleeps, wakes up and ends.
LEMMA SleepInv == ASSUME IInv, Sleep \/ Wake \/ EndSaver PROVE IInv'
  <1> USE DEF IInv, Sleep, Wake, EndSaver, engineVars, resultVars
  <1>1. StopReason' = StopReason
    BY DEF StopReason
  <1>2. TypeOK' /\ MutexHeld' /\ GoesOn' /\ WinsKept' /\ Ended'
    BY <1>1 DEF TypeOK, MutexHeld, GoesOn, WinsKept, Ended, Looping, Unseen, Over
  <1> QED
    BY <1>2

LEMMA NextInv == IInv /\ [Next]_vars => IInv'
  <1> SUFFICES ASSUME IInv, [Next]_vars PROVE IInv'
    OBVIOUS
  <1>1. CASE UNCHANGED vars
    BY <1>1 DEF vars, engineVars, resultVars, IInv, TypeOK, MutexHeld, GoesOn, WinsKept, Ended, StopReason
  <1>2. CASE Next
    BY <1>2, CheckInv, CopyBestInv, CopyWorstInv, LoadInv, RunStepInv, SaveInv, ReturnInv, SleepInv
       DEF Next, Main, Saver
  <1> QED
    BY <1>1, <1>2

\* The invariant holds of every state of the driver, for every configuration.
THEOREM Invariance == Spec => []IInv
  BY InitInv, NextInv, PTL DEF Spec

\* The driver's variables keep their types: the loop stops at the last step, and every
\* copy is taken of a state there is.
THEOREM TypeCorrect == Spec => []TypeOK
  BY Invariance, PTL DEF IInv

\* At the end of a run that won, the best state's file holds the best winning state of
\* all steps: no win is missed between a step and the call of updateBestState that
\* follows it, in the loop or after it (driver.hpp:139-171 and 262-308).
THEOREM BestWinIsReported == Spec => []ReportsBestWin
  <1>1. ASSUME IInv PROVE ReportsBestWin
    <2> SUFFICES ASSUME main = "done", winStatesFound > 0
                 PROVE  file["best"].state.win /\ file["best"].state.reward = bestEver
      BY DEF ReportsBestWin
    <2>1. bestWinReward = bestEver /\ bestWinReward # NoReward
      BY <1>1 DEF IInv, WinsKept, Unseen
    <2> QED
      BY <1>1, <2>1 DEF IInv, WinsKept, Ended
  <1> QED
    BY <1>1, Invariance, PTL

\* What the exit code tells: that there is a win and that it is in the best state's
\* file, or why there is none (driver.hpp:122-146 and 170-178).
THEOREM ExitCodeTellsWin == Spec => []CodeTellsWin
  <1>1. ASSUME IInv PROVE CodeTellsWin
    <2> SUFFICES ASSUME main = "done", ~config.override
                 PROVE  /\ exitCode = 0 => file["best"].state # NoState /\ file["best"].state.win
                        /\ exitCode = 2 => winStatesFound = 0
                        /\ exitCode = 1 => database = {} /\ (config.endOnFirstWin => winStatesFound = 0)
      BY DEF CodeTellsWin
    <2>1. /\ exitCode = Code(exitReason) /\ exitReason = StopReason /\ exitReason # "none"
          /\ exitReason \in {"winStateFound", "outOfStates", "maximumStepReached"}
          /\ winStatesFound = winStates /\ winStates \in Nat
          /\ file["best"].state = storage["best"]
      BY <1>1 DEF IInv, Ended, Over, TypeOK, WinsKept
    <2>2. /\ exitReason = "winStateFound" => exitCode = 0 /\ winStates > 0
          /\ exitReason = "outOfStates" => /\ exitCode = 1 /\ database = {}
                                           /\ ~(config.endOnFirstWin /\ winStates > 0)
          /\ exitReason = "maximumStepReached" => exitCode = 2 /\ ~(winStates > 0)
      BY <2>1 DEF StopReason, Code
    <2>3. winStates > 0 => /\ storage["best"] # NoState
                           /\ storage["best"].win
      <3>1. winStates > 0 => bestWinReward # NoReward
        BY <1>1 DEF IInv, WinsKept, Unseen
      <3> QED
        BY <1>1, <3>1, DriverAssumption DEF IInv, WinsKept
    <2> QED
      BY <2>1, <2>2, <2>3
  <1> QED
    BY <1>1, Invariance, PTL
-----------------------------------------------------------------------------
(* The files.                                                              *)

\* A search that uses differential compression ends when it has won.
EndsWhenWon == \A c \in Configs : c.differential => c.endOnFirstWin

\* A copy is read in the step it was taken in, its solution is what was read, and what
\* one thread writes to the two files of a kind the other one leaves alone.
BestMatched ==
    /\ main \in {"loadBest", "loadFinal"} => Decoded(storage["best"]) = storage["best"]
    /\ main \in {"loadBest", "loadFinal"} \/ solution["best"] = storage["best"]
    /\ IF main = "saveState" \/ saver = "saveBest" THEN file["best"].solution = solution["best"]
                                                   ELSE file["best"].solution = file["best"].state
WorstMatched ==
    /\ main = "loadWorst" => Decoded(storage["worst"]) = storage["worst"]
    /\ main = "loadWorst" \/ solution["worst"] = storage["worst"]
    /\ IF saver = "saveWorst" THEN file["worst"].solution = solution["worst"]
                              ELSE file["worst"].solution = file["worst"].state

Matched == BestMatched /\ WorstMatched

LEMMA InitMatched == Init => Matched
  BY DEF Init, Matched, BestMatched, WorstMatched, Kinds

\* The best state that is copied is one of the current step, or no state is encoded
\* against data that change: a win of an earlier step is kept only by a search that
\* goes on after it.
LEMMA CopyMatched == ASSUME EndsWhenWon, IInv, Matched, LockBest \/ LockFinal PROVE Matched'
  <1> USE DEF IInv, Matched, LockBest, LockFinal, CopyBest, Lock, engineVars
  <1>1. /\ main \in {"lockBest", "lockFinal"} /\ main' \in {"loadBest", "loadFinal"}
        /\ saver \notin {"saveBest", "saveWorst"} /\ saver' = saver
        /\ UNCHANGED <<solution, file, config, currentStep>>
        /\ storage'["worst"] = storage["worst"]
        /\ winStatesFound = winStates /\ winStates \in Nat /\ config \in Configs
        /\ stepBestWin \in Rewards \union {NoReward} /\ bestWinReward \in Rewards \union {NoReward}
        /\ winStates > 0 <=> bestEver # NoReward
        /\ bestEver = Greater(stepBestWin, bestWinReward)
        /\ config.endOnFirstWin => bestWinReward = NoReward
    BY DEF TypeOK, Kinds, MutexHeld, WinsKept, Unseen
  <1>2. config.differential => storage'["best"].step = currentStep
    <2>1. config.differential => Improves \/ winStatesFound = 0
      <3>1. config.differential => bestWinReward = NoReward
        BY <1>1 DEF EndsWhenWon
      <3>2. config.differential /\ winStates > 0 => stepBestWin > bestWinReward
        BY ONLY <1>1, <3>1 DEF Greater
      <3> QED
        BY <1>1, <3>2 DEF Improves
    <2>2. CASE Improves
      <3>1. storage'["best"] = Found(TRUE, stepBestWin)
        BY <2>2 DEF TypeOK, Kinds
      <3> QED
        BY ONLY <3>1 DEF Found
    <2>3. CASE ~Improves /\ winStatesFound = 0
      <3>1. storage'["best"] = Found(FALSE, Max(database))
        BY <2>3 DEF TypeOK, Kinds
      <3> QED
        BY ONLY <3>1 DEF Found
    <2> QED
      BY <2>1, <2>2, <2>3
  <1>3. Decoded(storage["best"])' = storage'["best"]
    BY <1>1, <1>2 DEF Decoded
  <1>4. BestMatched'
    BY <1>1, <1>3 DEF BestMatched
  <1>5. WorstMatched'
    BY <1>1 DEF WorstMatched
  <1> QED
    BY <1>4, <1>5

LEMMA CopyWorstMatched == ASSUME IInv, Matched, LockWorst PROVE Matched'
  <1> USE DEF IInv, Matched, LockWorst, Lock, engineVars
  <1>1. /\ main = "lockWorst" /\ main' = "loadWorst"
        /\ saver \notin {"saveBest", "saveWorst"} /\ saver' = saver
        /\ UNCHANGED <<solution, file, config, currentStep>>
        /\ storage'["best"] = storage["best"]
        /\ storage'["worst"] = Found(FALSE, Min(database))
    BY DEF TypeOK, Kinds, MutexHeld
  <1>2. Decoded(storage["worst"])' = storage'["worst"]
    BY ONLY <1>1 DEF Decoded, Found
  <1> QED
    BY <1>1, <1>2 DEF BestMatched, WorstMatched

LEMMA LoadMatched == ASSUME IInv, Matched, LoadBest \/ LoadWorst \/ LoadFinal PROVE Matched'
  <1> USE DEF IInv, Matched, LoadBest, LoadWorst, LoadFinal, Load, Unlock, engineVars
  <1>1. /\ saver \notin {"saveBest", "saveWorst"} /\ saver' = saver
        /\ UNCHANGED <<storage, file, config, currentStep>>
        /\ main' \notin {"loadBest", "loadWorst", "loadFinal", "saveState"}
    BY DEF MutexHeld
  <1>2. CASE LoadBest \/ LoadFinal
    <2>1. /\ solution'["best"] = Decoded(storage["best"]) /\ solution'["worst"] = solution["worst"]
          /\ main \in {"loadBest", "loadFinal"}
      BY <1>2 DEF TypeOK, Kinds
    <2> QED
      BY <1>1, <2>1 DEF BestMatched, WorstMatched
  <1>3. CASE LoadWorst
    <2>1. /\ solution'["worst"] = Decoded(storage["worst"]) /\ solution'["best"] = solution["best"]
          /\ main = "loadWorst"
      BY <1>3 DEF TypeOK, Kinds
    <2> QED
      BY <1>1, <2>1 DEF BestMatched, WorstMatched
  <1> QED
    BY <1>2, <1>3

LEMMA SaveMatched ==
  ASSUME IInv, Matched, \/ FinalSaveSolution \/ FinalSaveState
                        \/ SaveBestSolution \/ SaveBestState \/ SaveWorstSolution \/ SaveWorstState
  PROVE  Matched'
  <1> USE DEF IInv, Matched, Lock, Unlock, engineVars, resultVars
  <1>0. "best" \in Kinds /\ "worst" \in Kinds
    BY DEF Kinds
  <1>1. CASE FinalSaveSolution \/ SaveBestSolution
    <2>1. /\ main' # main \/ saver' = "saveBest"
          /\ main' \in {"saveState", main} /\ saver' \in {"saveBest", saver}
          /\ main' # main => main' = "saveState"
          /\ mutex = "nobody"
          /\ file' = [file EXCEPT !["best"].solution = solution["best"]]
          /\ UNCHANGED <<storage, solution, config, currentStep>>
      BY <1>1 DEF FinalSaveSolution, SaveBestSolution, SaverStep, SaveSolution
    <2>2. /\ file'["best"].solution = solution["best"] /\ file'["worst"] = file["worst"]
          /\ main \notin {"loadBest", "loadWorst", "loadFinal", "saveState"}
          /\ saver \notin {"saveBest", "saveWorst"}
      BY <1>0, <2>1 DEF TypeOK, MutexHeld
    <2> QED
      BY <2>1, <2>2 DEF BestMatched, WorstMatched
  <1>2. CASE FinalSaveState \/ SaveBestState
    <2>1. /\ main = "saveState" \/ saver = "saveBest"
          /\ main = "saveState" => main' = "return" /\ mutex = "main" /\ saver' = saver
          /\ main # "saveState" => main' = main /\ mutex = "saver" /\ saver' = "lockWorst"
          /\ file' = [file EXCEPT !["best"].state = storage["best"]]
          /\ UNCHANGED <<storage, solution, config, currentStep>>
      BY <1>2 DEF FinalSaveState, SaveBestState, SaverStep, SaveState, MutexHeld
    <2>2. /\ file'["best"].solution = file["best"].solution
          /\ file'["best"].state = storage["best"] /\ file'["worst"] = file["worst"]
          /\ main = "saveState" => saver \notin {"saveBest", "saveWorst"}
          /\ main \notin {"loadBest", "loadWorst", "loadFinal"}
      BY <1>0, <2>1 DEF TypeOK, MutexHeld
    <2> QED
      BY <2>1, <2>2 DEF BestMatched, WorstMatched
  <1>3. CASE SaveWorstSolution
    <2>1. /\ saver' = "saveWorst" /\ saver = "lockWorst" /\ main' = main /\ mutex = "nobody"
          /\ file' = [file EXCEPT !["worst"].solution = solution["worst"]]
          /\ UNCHANGED <<storage, solution, config, currentStep>>
      BY <1>3 DEF SaveWorstSolution, SaverStep, SaveSolution
    <2>2. file'["worst"].solution = solution["worst"] /\ file'["best"] = file["best"]
      BY <1>0, <2>1 DEF TypeOK
    <2> QED
      BY <2>1, <2>2 DEF BestMatched, WorstMatched, Decoded
  <1>4. CASE SaveWorstState
    <2>1. /\ saver' = "loop" /\ saver = "saveWorst" /\ main' = main /\ mutex = "saver"
          /\ file' = [file EXCEPT !["worst"].state = storage["worst"]]
          /\ UNCHANGED <<storage, solution, config, currentStep>>
      BY <1>4 DEF SaveWorstState, SaverStep, SaveState
    <2>2. /\ file'["worst"].solution = file["worst"].solution
          /\ file'["worst"].state = storage["worst"] /\ file'["best"] = file["best"]
          /\ main \notin {"loadBest", "loadWorst", "loadFinal", "saveState"}
      BY <1>0, <2>1 DEF TypeOK, MutexHeld
    <2> QED
      BY <2>1, <2>2 DEF BestMatched, WorstMatched
  <1> QED
    BY <1>1, <1>2, <1>3, <1>4

\* The other steps touch neither copies nor files.
LEMMA OtherMatched ==
  ASSUME IInv, Matched, \/ Continue \/ Finish \/ Join \/ SkipFinal \/ RunStep \/ Return
                        \/ Sleep \/ Wake \/ EndSaver
  PROVE  Matched'
  <1>1. /\ UNCHANGED <<storage, solution, file>>
        /\ main' \notin {"loadBest", "loadWorst", "loadFinal", "saveState"} \/ UNCHANGED <<main, config, currentStep>>
        /\ main \notin {"loadBest", "loadWorst", "loadFinal", "saveState"} \/ main' = main
        /\ saver' \notin {"saveBest", "saveWorst"} \/ saver' = saver
        /\ saver \notin {"saveBest", "saveWorst"} \/ saver' = saver
    BY DEF Continue, Finish, Join, SkipFinal, RunStep, Return, Sleep, Wake, EndSaver, resultVars
  <1> QED
    BY <1>1 DEF Matched, BestMatched, WorstMatched, Decoded

LEMMA NextMatched == ASSUME EndsWhenWon, IInv, Matched, [Next]_vars PROVE Matched'
  <1>1. CASE UNCHANGED vars
    BY <1>1 DEF vars, resultVars, Matched, BestMatched, WorstMatched, Decoded
  <1>2. CASE Next
    BY <1>2, CopyMatched, CopyWorstMatched, LoadMatched, SaveMatched, OtherMatched
       DEF Next, Main, Saver
  <1> QED
    BY <1>1, <1>2

LEMMA AlwaysMatched == ASSUME EndsWhenWon PROVE Spec => []Matched
  BY InitMatched, NextMatched, Invariance, PTL DEF Spec

\* Unless differential compression meets a search that goes on after a win, the stored
\* solution of a kind is the one of its stored state (driver.hpp:252-253 and 297-304).
THEOREM SolutionIsOfState == ASSUME EndsWhenWon PROVE Spec => []SolutionMatches
  <1>1. IInv /\ Matched => SolutionMatches
    <2> SUFFICES ASSUME IInv, Matched, main \notin {"loadBest", "loadWorst", "loadFinal"}
                 PROVE  solution = storage
      BY DEF SolutionMatches
    <2> QED
      BY DEF Matched, BestMatched, WorstMatched, IInv, TypeOK, Kinds
  <1> QED
    BY <1>1, AlwaysMatched, Invariance, PTL

\* ... and the two files of a kind hold a state and its own inputs, whichever thread
\* wrote them last (driver.hpp:181-205 against 235-308).
THEOREM FilesAgree == ASSUME EndsWhenWon PROVE Spec => []FilesMatch
  <1>1. Matched => FilesMatch
    BY DEF Matched, BestMatched, WorstMatched, FilesMatch, Kinds
  <1> QED
    BY <1>1, AlwaysMatched, PTL
=============================================================================
