------------------------------- MODULE Replay -------------------------------
(***************************************************************************)
(* What the engine stores and what the player shows of it.                 *)
(*                                                                         *)
(* First a worker searches (source/engine.hpp): it loads one of two stored *)
(* states into its runner, runs an input and maybe stores the result in    *)
(* the other slot.  Which states are stored when, Engine says; here any    *)
(* may be, so that the runner is left by one path and loaded with another. *)
(* Then the solution of a stored state is played (source/playback.hpp,     *)
(* player.cpp) by another process: all its states are recorded and shown   *)
(* as the keys pressed ask for.  The file that a quicksave writes, and     *)
(* printing are left out.                                                  *)
(***************************************************************************)
EXTENDS Runner

CONSTANTS NoState   \* an empty slot

VARIABLES
    pc,           \* "search", then what the player does next
    runner,       \* the worker's, then the player's
    slots,        \* states stored by the search
    solution,     \* the solution file
    found,        \* history: the game state that the solution was saved for
    options,      \* how the player was started: see Options
    keyboard,     \* somebody presses keys
    initialState, \* the player's initialState
    sequence,     \* Playback::_sequence
    currentStep, isReproduce, isReload

playerVars == <<solution, found, options, keyboard, initialState, sequence,
                currentStep, isReproduce, isReload>>
vars == <<pc, runner, slots, playerVars>>

Slots == {1, 2}

Script == runner.game.script
Inputs == ToSet(InputStrings[Script])
Length == Len(solution)
Offset == [n |-> -1, m |-> 1, h |-> -10, j |-> 10, y |-> -100, u |-> 100, k |-> -1000, i |-> 1000]
Keys == DOMAIN Offset \union {"p", "r", "s", "q", "other"}

\* --unattended, --exitOnEnd and --disableRender.  Pictures are those of QuickerNES.
Options(s) == [unattended : BOOLEAN, exitOnEnd : BOOLEAN,
               disableRender : IF Scripts[s].game = Sprilo THEN BOOLEAN ELSE {TRUE}]

\* Engine::initialize evaluates the rules on the initial state, Playback does not: a
\* rule that held there only would be missing when the solution is played.  Nor may one
\* hold there by what is not initialized: conditions on "Kid Pos Y" ask for an initial
\* sequence.
Unused == CHOOSE garbage \in Uninitialized : TRUE
ASSUME ReplayAssumption ==
    \A s \in DOMAIN Scripts, garbage \in Uninitialized :
        LET start == NewRunner(s, garbage).game IN
        /\ NewStatus(start) = NewStatus(NewRunner(s, Unused).game)
        /\ \A input \in ToSet(InputStrings[s]) : NewStatus(AdvanceGame(start, input)) =
                                                 NewStatus(AdvanceGame(EvaluateRules[start], input))

StoredEmulators == [core : Cores, written : 0 .. Byte - 1, block : {0, 1}]
                   \union [core : Cores, written : 0 .. Byte - 1]
StoredGames == [emulator : StoredEmulators, step : Nat, lastInput : Nat, reward : Int,
                level : Nat, type : Types \union {"other"}, status : SUBSET Nat]
StoredRunners == [game : StoredGames, history : [0 .. MaxSteps - 1 -> Nat], step : 0 .. MaxSteps + 1]
TypeOK == /\ pc \in {"search", "record", "show", "command", "ended"}
          /\ runner.game \in Games /\ SerializeRunner(runner) \in StoredRunners
          /\ slots \in [Slots -> StoredRunners \union {NoState}]
          /\ solution \in Seq(Inputs)
          /\ initialState \in StoredRunners \union {NoState}
          /\ sequence \in Seq([state : StoredRunners, picture : Cores \union {NoPicture}])
          /\ currentStep \in 0 .. Length
          /\ isReproduce \in BOOLEAN /\ isReload \in BOOLEAN
-----------------------------------------------------------------------------
(* The search.                                                             *)

\* Engine::initialize: the initial state is stored, by the first worker's runner, which
\* then computes its hash.
FirstState(s, garbage) ==
    LET r == NewRunner(s, garbage)
    IN [r EXCEPT !.game = UpdateReward[RunRuleActions(UpdateGameStateType[EvaluateRules[@]])]]

Init == /\ pc = "search"
        /\ \E s \in DOMAIN Scripts, garbage \in Uninitialized :
              /\ runner \in {NewRunner(s, garbage), Hashed(FirstState(s, garbage))}
              /\ slots = [n \in Slots |-> IF n = 1 THEN SerializeRunner(FirstState(s, garbage)) ELSE NoState]
        /\ solution = <<>> /\ found = NoState
        /\ options = [unattended |-> FALSE, exitOnEnd |-> FALSE, disableRender |-> TRUE]
        /\ keyboard = FALSE
        /\ initialState = NoState /\ sequence = <<>> /\ currentStep = 0
        /\ isReproduce = FALSE /\ isReload = FALSE

\* A base state: the wins stored are not, nor is one that has used up the steps.
IsBase(n) == /\ slots[n] # NoState
             /\ slots[n].game.type = "win" => slots[n].step = 0
             /\ slots[n].step < MaxSteps

Base(n) == DeserializeRunner(runner, slots[n])

\* An input on a base state as far as runInput has come when it asks the hash database,
\* when it drops the state for the checkpoint, when it judges it and when it stores it.
Advanced(r, input) == Hashed(AdvanceRunner(r, input))
Evaluated(r) == [r EXCEPT !.game = EvaluateRules[@]]
Typed(r) == [r EXCEPT !.game = UpdateGameStateType[@]]
Rewarded(r) == [r EXCEPT !.game = UpdateReward[@]]

\* The candidate inputs are read after the allowed ones have been run, in any order, on
\* what the last of them left in the runner.
LeftOver(base, allowed) ==
    IF allowed = {} THEN {base}
    ELSE UNION {{r, Evaluated(r)} : r \in {Advanced(base, i) : i \in allowed}}
Tried(base) ==
    LET allowed == AllowedInputs(base) IN
    allowed \union UNION {CandidateInputs(r) :
                            r \in IF CandidateSets[Script] = <<>> THEN {} ELSE LeftOver(base, allowed)}

\* Its hash is known, its checkpoint level is too low, it fails or there is no storage.
RunDropped(r) == runner' = r /\ UNCHANGED slots

RunStored(n, r) == /\ r.game.type # "fail"
                   /\ runner' = r
                   /\ \E other \in Slots \ {n} : slots' = [slots EXCEPT ![other] = SerializeRunner(r)]

RunInput(n) ==
    /\ pc = "search" /\ IsBase(n)
    /\ \E base \in {Base(n)} : \E input \in Tried(base) : \E advanced \in {Advanced(base, input)} :
          \/ RunDropped(advanced)
          \/ \E evaluated \in {Evaluated(advanced)} :
                \/ RunDropped(evaluated)
                \/ \E typed \in {Typed(evaluated)} : RunDropped(typed) \/ RunStored(n, Rewarded(typed))
    /\ UNCHANGED <<pc, playerVars>>
-----------------------------------------------------------------------------
(* The player.                                                             *)

\* The driver loads a stored state into its runner and saves its inputs; the player is
\* started with them.  It saves the initial state with all blocks.
Prepared_DisabledBlocks(r) == r
Prepared(r) == [r EXCEPT !.game.emulator = EnableStateProperties(@)]
StartPlayer ==
    /\ pc = "search"
    /\ \E n \in Slots : /\ slots[n] # NoState
                        /\ solution' = InputHistory(Script, slots[n])
                        /\ found' = slots[n].game
    /\ options' \in Options(Script)
    /\ \E garbage \in Uninitialized :
          LET new == NewRunner(Script, garbage)
              shown == IF options'.disableRender THEN new
                       ELSE [new EXCEPT !.game.emulator = EnableRendering(@)]
          IN /\ runner' = [shown EXCEPT !.game.emulator = EnableStateProperties(@)]
             /\ initialState' = SerializeRunner(Prepared(shown))
    /\ keyboard' \in BOOLEAN
    /\ isReproduce' \in BOOLEAN /\ isReload' \in BOOLEAN
    /\ slots' = [n \in Slots |-> NoState]
    /\ sequence' = <<>> /\ currentStep' = 0
    /\ pc' = "record"

\* Playback::initialize: each state is recorded, with its picture, before the input of
\* its step, and one more input, the first one, is run at the end.
RecordStep ==
    LET input == IF Len(sequence) < Length THEN solution[Len(sequence) + 1] ELSE InputString(Script, 0)
        hashed == Hashed(runner)
        drawn == [hashed EXCEPT !.game.emulator = UpdateRendererState(@)]
    IN /\ pc = "record"
       /\ sequence' = Append(sequence, [state |-> SerializeRunner(hashed),
                                        picture |-> drawn.game.emulator.curBlit])
       /\ runner' = [AdvanceUnrecorded(drawn, input) EXCEPT !.game = Judge(@)]
       /\ pc' = IF Len(sequence) < Length THEN "record" ELSE "show"
       /\ UNCHANGED <<slots, solution, found, options, keyboard, initialState,
                      currentStep, isReproduce, isReload>>

\* renderFrame and loadStepData, after which the step is printed.
RenderFrame(r, step) ==
    IF options.disableRender THEN r
    ELSE [r EXCEPT !.game.emulator = DeserializeRendererState(@, step.picture)]
ShowStep == /\ pc = "show"
            /\ currentStep < Len(sequence)
            /\ LET step == sequence[currentStep + 1]
               IN runner' = DeserializeRunner(RenderFrame(runner, step), step.state)
            /\ pc' = "command"
            /\ UNCHANGED <<slots, playerVars>>

\* The keys that may be read, and the step that one asks for.
KeysRead == {key \in Keys \union {"none"} :
                IF key = "none" THEN isReproduce \/ options.unattended
                                ELSE keyboard /\ (isReproduce \/ ~options.unattended)}
NextStep(key) == currentStep + (IF isReproduce THEN 1 ELSE 0)
                             + (IF key \in DOMAIN Offset THEN Offset[key] ELSE 0)
Clamped_Above(step) == Min({step, Length})
Clamped(step) == Max({0, Min({step, Length})})
IsPast_NotLast(key) == NextStep(key) > Length + 1
IsPast(key) == NextStep(key) > Length

\* The end is passed: main ends, or plays once more from the initial state.
Finish(key) == /\ pc = "command"
               /\ IsPast(key) /\ options.exitOnEnd
               /\ pc' = "ended"
               /\ UNCHANGED <<runner, slots, playerVars>>
Restart(key) == /\ pc = "command"
                /\ IsPast(key) /\ isReload /\ ~options.exitOnEnd
                /\ runner' = DeserializeRunner(runner, initialState)
                /\ sequence' = <<>> /\ currentStep' = 0
                /\ pc' = "record"
                /\ UNCHANGED <<slots, solution, found, options, keyboard, initialState,
                               isReproduce, isReload>>

\* Otherwise the step is moved to, within the sequence; past its end, playing stops.
MoveTo(key) ==
    /\ pc = "command"
    /\ IsPast(key) => ~isReload /\ ~options.exitOnEnd
    /\ currentStep' = Clamped(NextStep(key))
    /\ isReproduce' = ((isReproduce /\ ~IsPast(key)) # (key = "p"))
    /\ isReload' = (isReload # (key = "r"))
    /\ pc' = IF key = "q" THEN "ended" ELSE "show"
    /\ UNCHANGED <<runner, slots, solution, found, options, keyboard, initialState, sequence>>

Command == \E key \in KeysRead : Finish(key) \/ Restart(key) \/ MoveTo(key)
Player == RecordStep \/ ShowStep \/ Command

Next == \/ \E n \in Slots : RunInput(n)
        \/ StartPlayer
        \/ Player

Spec == Init /\ [][Next]_vars

\* The player is one thread, and waits for nothing but a key.
FairSpec == Spec /\ WF_vars(Player)
-----------------------------------------------------------------------------
Stored == {slots[n] : n \in Slots} \ {NoState}
PathTo(stored) == InputHistory(Script, stored)

\* What is stored for a state depends on its inputs only, as if they had been run one
\* after the other: not on what else the runner has run since it was created, nor on
\* how often the state was saved and loaded, which runs the actions of its rules again
\* (game.hpp:133-168), nor on the hash being computed, which may run the emulator
\* (anotherWorld.hpp:96-118).
Paths(s) == Seq(ToSet(InputStrings[s]))
Undisturbed(s, path) ==
    LET after[inputs \in Paths(s)] ==
          IF inputs = <<>> THEN FirstState(s, Unused).game
                           ELSE Judge(AdvanceGame(after[Front(inputs)], Last(inputs)))
    IN after[path]
StoredIsPath == \A s \in Stored : s.game = SerializeGame(Undisturbed(Script, PathTo(s)))

\* Each input on the way to a stored state was allowed in the state it was run on, with
\* what is derived from it, or is a candidate (engine.hpp:464-482, runner.hpp:159-183):
\* conditions are not evaluated on what the runner has left from another state.
MayRun(input, g) ==
    \/ input \in InputsOf(AllowedSets[g.script], g)
    \/ \E i \in DOMAIN CandidateSets[g.script] : input \in CandidateSets[g.script][i].inputs
InputsAllowed ==
    \A s \in Stored : \A k \in 1 .. s.step :
        MayRun(PathTo(s)[k], UpdateDerived[Undisturbed(Script, SubSeq(PathTo(s), 1, k - 1))])

\* The rules satisfied in a stored state are those whose conditions held somewhere on
\* the way to it, the state as it was created included, and the rules that these satisfy;
\* the lap's progress is the number of actions that advance it in rules after the last
\* one that clears it (game.hpp:253-301, 608-631, sprilo.hpp:149-160).
AdvancesAt(s, l) == {i \in DOMAIN Rules[s][l].actions : Rules[s][l].actions[i].type = "Advance Lap Progress"}
Lap(s, labels) ==
    LET uncleared == {l \in labels : \A k \in labels : Clears(s, k) => k < l}
    IN Cardinality(UNION {{l} \X AdvancesAt(s, l) : l \in uncleared}) % Byte
CoreAfter(s, path) ==
    LET after[inputs \in Paths(s)] ==
          IF inputs = <<>> THEN NewRunner(s, Unused).game.emulator.core
                           ELSE AdvanceCore[after[Front(inputs)]][Last(inputs)]
    IN after[path]
Seen(s, core, written) ==
    UpdateDerived[[NewGame(s, Unused) EXCEPT !.emulator.core = core, !.emulator.written = written]]
RulesAfter(s, path) ==
    LET after[inputs \in Paths(s)] ==
          LET before == IF inputs = <<>> THEN {} ELSE after[Front(inputs)]
              seen == IF inputs = <<>> THEN NewRunner(s, Unused).game
                      ELSE Seen(s, CoreAfter(s, inputs), Lap(s, before))
          IN before \union Closure(s, {l \in Labels(s) : AllHold(Rules[s][l].conditions, seen)})
    IN after[path]
RulesOfPath ==
    \A s \in Stored :
        LET labels == RulesAfter(Script, PathTo(s))
        IN /\ s.game.status = IndexOf(Script, labels)
           /\ s.game.emulator.core = CoreAfter(Script, PathTo(s))
           /\ s.game.emulator.written = Lap(Script, labels)

\* The last step that the player shows is the state that the search stored with the
\* solution, but for the blocks that the search leaves out: its rules, reward, type and
\* checkpoint level (playback.hpp:48-101 against engine.hpp:511-654).  Step 0 is not
\* evaluated.
SolutionReplays ==
    pc \in {"show", "command"} /\ Length > 0 =>
        [sequence[Length + 1].state.game EXCEPT !.emulator = Restrict(@, DOMAIN found.emulator)] = found

\* Whatever was shown before and however the steps were reached, the player shows the
\* step that it says, with the magnets that its rules set last; the step exists.
Sets(g, m) == {l \in Satisfied(g) : Has(g.script, l, m)}
LastAction(actions, m) == actions[Max({i \in DOMAIN actions : actions[i].type = m})]
MagnetSet(g, a) ==
    IF a.type \in DOMAIN Attracted /\ ValueOf(g, Attracted[a.type].room) # a.room
      THEN NoMagnet ELSE [intensity |-> a.intensity, position |-> a.position]
LastMagnet(g, m) ==
    IF Sets(g, m) = {} THEN NoMagnet
    ELSE MagnetSet(g, LastAction(Rules[g.script][Max(Sets(g, m))].actions, m))
ShowsStep ==
    /\ pc = "show" => currentStep < Len(sequence)
    /\ pc = "command" =>
          /\ SerializeRunner(runner) = sequence[currentStep + 1].state
          /\ runner.step = currentStep
          /\ \A m \in DOMAIN runner.game.magnets :
                LET magnet == runner.game.magnets[m] IN
                \/ magnet = LastMagnet(runner.game, m)
                \/ magnet.intensity = 0 /\ LastMagnet(runner.game, m).intensity = 0

\* The player shows the way of the solution, step by step, also when it is played again
\* and with the blocks that the search left out: the emulator is in the state that the
\* inputs up to the step lead to, and the picture, if there is a window, is of that state
\* (player.cpp:277-321, playback.hpp:48-131).  Before the first input nothing is drawn.
ShowsPath ==
    pc = "command" =>
        LET shown == runner.game.emulator
            played == SubSeq(solution, 1, currentStep)
        IN /\ shown.core = CoreAfter(Script, played)
           /\ shown.block = (Len(Scripts[Script].initialSequence) + currentStep) % 2
           /\ ~options.disableRender /\ currentStep > 0 => shown.curBlit = shown.core
           /\ runner.game.kidPosY = Seen(Script, shown.core, shown.written).kidPosY

\* Left alone, a playback reaches the last step; then it ends if --exitOnEnd was given,
\* as the tests do (src/tests/meson.build), and starts again if it is to reload.
Playing == isReproduce /\ ~keyboard
PlaysToTheEnd ==
    [](pc = "record" /\ Playing =>
          <>(/\ pc = "command" /\ currentStep = Length
             /\ options.exitOnEnd => <>(pc = "ended")
             /\ isReload /\ ~options.exitOnEnd => <>(pc = "record")))
=============================================================================
