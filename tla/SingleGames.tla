----------------------------- MODULE SingleGames ----------------------------
(***************************************************************************)
(* The state of a game, and what three of the games of src/games add to    *)
(* it: nes/sprilo.hpp, whose rules write to the emulator's memory,         *)
(* sdlpop/princeOfPersia.hpp, whose magnets act in one room only, and      *)
(* raw/anotherWorld.hpp, which runs the emulator to compute a hash.        *)
(*                                                                         *)
(* Positions have one dimension, but for Prince of Persia's, and rewards   *)
(* are integers.  A magnet has the name of the action that sets it.        *)
(***************************************************************************)
EXTENDS GameScript

CONSTANTS LastInputReward, \* "Last Input Step Reward"
          Uninitialized    \* what the members that are not initialized may hold

Sprilo == "NES / Sprilo"
PrinceOfPersia == "SDLPoP / Prince of Persia"
AnotherWorld == "RAW / AnotherWorld"

\* The magnets of Prince of Persia that draw something in a room to a position, and
\* where that something is; the others weigh a value.
KidMagnets == {"Set Kid Pos X Magnet", "Set Kid Pos Y Magnet"}
Attracted == [m \in KidMagnets \union {"Set Guard Pos X Magnet", "Set Guard Pos Y Magnet"} |->
    [at |-> CASE m = "Set Kid Pos X Magnet" -> "Kid Pos X Raw"
              [] m = "Set Kid Pos Y Magnet" -> "Kid Pos Y Raw"
              [] m = "Set Guard Pos X Magnet" -> "Guard Pos X Raw"
              [] m = "Set Guard Pos Y Magnet" -> "Guard Pos Y Raw",
     room |-> IF m \in KidMagnets THEN "Kid Room" ELSE "Guard Room"]]
Weighing == {"Set Kid Direction Magnet", "Set Level Door Open Magnet",
             "Set United With Shadow Magnet", "Set Guard HP Magnet"}
Magnets(game) == IF game = PrinceOfPersia THEN DOMAIN Attracted \union Weighing
                                          ELSE {"Set Point Magnet"}
Magnet == [intensity : Int, position : Int]
NoMagnet == [intensity |-> 0, position |-> 0]

Types == {"normal", "win", "fail"}
Games == [script : DOMAIN Scripts, emulator : Emulators, step : Nat, lastInput : Nat,
          magnets : [Magnets(Sprilo) -> Magnet] \union [Magnets(PrinceOfPersia) -> Magnet],
          stopped : BOOLEAN, distance : Nat, kidPosY : Int,
          status : SUBSET Nat, type : Types \union {"other"},
          level : Nat, tolerance : Nat, reward : Int]

Game(g) == Scripts[g.script].game

\* A state of the core that takes a script's inputs leads to such a state again, and holds
\* a number for each property that the code of the script's game reads.
InputsGiven(s) == ToSet(InputStrings[s]) \union ToSet(Scripts[s].initialSequence)
                     \union (IF Scripts[s].game = AnotherWorld THEN {"....."} ELSE {})
CoresOf(s) == {c \in Cores : InputsGiven(s) \subseteq DOMAIN AdvanceCore[c]}
PropertiesRead(game) ==
    CASE game = Sprilo         -> {"Player Pos X"}
      [] game = AnotherWorld   -> {"Lester Pos X"}
      [] game = PrinceOfPersia -> {Attracted[m].at : m \in DOMAIN Attracted} \union
            {"Kid Frame", "Kid Previous Frame", "Kid Direction", "Level Door Open",
             "United With Shadow", "Guard Max HP", "Guard Current Hp"}
ASSUME CoresAssumption ==
    \A s \in DOMAIN Scripts :
        /\ Scripts[s].game \in {Sprilo, PrinceOfPersia, AnotherWorld}
        /\ Scripts[s].disabled \in BOOLEAN /\ Scripts[s].stateFile \in CoresOf(s)
        /\ \A c \in CoresOf(s) : /\ \A input \in InputsGiven(s) : AdvanceCore[c][input] \in CoresOf(s)
                                /\ \A p \in PropertiesRead(Scripts[s].game) : Memory[c][p] \in Int

ASSUME RewardAssumption == LastInputReward \in Int
ASSUME GarbageAssumption ==
    Uninitialized # {} /\ Uninitialized \subseteq [type : Types \union {"other"}, kidPosY : Int]

\* A game that has been created and not yet used.  Neither its type is initialized nor,
\* until the first input or the first state loaded, what is derived from the emulator.
NewGame(s, garbage) ==
    [script |-> s, emulator |-> InitializeEmulator(Scripts[s].stateFile, Scripts[s].disabled),
     step |-> 0, lastInput |-> 0,
     magnets |-> [m \in Magnets(Scripts[s].game) |-> NoMagnet], stopped |-> FALSE,
     distance |-> 0, kidPosY |-> IF Scripts[s].game = PrinceOfPersia THEN garbage.kidPosY ELSE 0,
     status |-> {}, type |-> garbage.type, level |-> 0, tolerance |-> 0, reward |-> 0]

ValueOf(g, property) == CASE property = "Lap Progress" -> g.emulator.written
                          [] property = "Kid Pos Y"    -> g.kidPosY
                          [] OTHER                     -> Memory[g.emulator.core][property]
Abs(n) == IF n < 0 THEN -n ELSE n
-----------------------------------------------------------------------------
(* Hooks that are called when the state changes.                           *)

\* advanceStateImpl.
AdvanceImpl(input) ==
    [g \in Games |->
    [g EXCEPT !.emulator = AdvanceEmulator(@, input),
              !.lastInput = IF Game(g) = Sprilo /\ input # "|..|........|" THEN g.step ELSE @,
              !.step = IF Game(g) = Sprilo THEN @ + 1 ELSE @]]

\* The height of the Kid's feet, by the frame of his movement.  The difference to the
\* previous frame is a byte: it is never below zero, also when he climbs down.
KidPosY(y, frame, previous) ==
    y + (IF frame \in 141 .. 148 /\ (frame - previous) % Byte > 0 THEN 7 - (frame - 141) ELSE 0)
      - (IF frame \in 67 .. 79 THEN 16 - (79 - frame) ELSE 0)
      - (IF frame = 80 THEN 20 ELSE 0)
      - (IF frame \in 87 .. 91 THEN 25 - (91 - frame) ELSE 0)
      - (IF frame \in 135 .. 140 THEN 39 - (141 - frame) ELSE 0)

\* stateUpdatePostHook.
UpdateDerived[g \in Games] ==
    IF Game(g) = PrinceOfPersia
      THEN [g EXCEPT !.kidPosY = KidPosY(ValueOf(g, "Kid Pos Y Raw"), ValueOf(g, "Kid Frame"),
                                         ValueOf(g, "Kid Previous Frame"))]
      ELSE g

\* computeAdditionalHashing of Another World hashes what the emulator reaches in one more
\* step, and loads it again as it was; that of the others only reads.
ComputeHash_NotRestored(g) ==
    IF Game(g) = AnotherWorld THEN [g EXCEPT !.emulator = AdvanceEmulator(@, ".....")] ELSE g
ComputeHash(g) ==
    IF Game(g) = AnotherWorld
      THEN [g EXCEPT !.emulator = DeserializeEmulator(AdvanceEmulator(@, "....."), SerializeEmulator(@))]
      ELSE g

\* The storage that it is kept in meanwhile is allocated with the disabled blocks left out;
\* the player enables them later, and then it is too small.
ASSUME HashAssumption == \A s \in DOMAIN Scripts : Scripts[s].game = AnotherWorld => ~Scripts[s].disabled
-----------------------------------------------------------------------------
(* Hooks around the evaluation of rules, and the actions of rules.         *)

\* ruleUpdatePreHook: Prince of Persia resets the intensities only.
ResetActions(g) ==
    [g EXCEPT !.magnets = [m \in DOMAIN @ |-> IF Game(g) = PrinceOfPersia
                                                THEN [@[m] EXCEPT !.intensity = 0] ELSE NoMagnet],
              !.stopped = FALSE]

\* ruleUpdatePostHook.
PosX == [game \in {Sprilo, AnotherWorld} |-> IF game = Sprilo THEN "Player Pos X" ELSE "Lester Pos X"]
MeasureDistance[g \in Games] ==
    IF Game(g) = PrinceOfPersia THEN g
    ELSE [g EXCEPT !.distance = Abs(g.magnets["Set Point Magnet"].position - ValueOf(g, PosX[Game(g)]))]

\* parseRuleActionImpl: what an action does when it is run.
SetMagnet(g, a) ==
    [g EXCEPT !.magnets[a.type] =
        [intensity |-> IF a.type \in DOMAIN Attracted /\ ValueOf(g, Attracted[a.type].room) # a.room
                         THEN 0 ELSE a.intensity,
         position |-> a.position]]
RunAction(a) == [g \in Games |->
    IF a.type \in DOMAIN g.magnets THEN SetMagnet(g, a)
    ELSE [g EXCEPT !.emulator.written = IF a.type = "Advance Lap Progress" THEN (@ + 1) % Byte
                                        ELSE IF a.type = "Clear Lap Progress" THEN 0 ELSE @,
                   !.stopped = @ \/ a.type = "Stop Processing Reward"]]

\* A magnet without a number makes initialization throw.
IsMagnet(a) == a.intensity \in Int /\ a.position \in Int
ASSUME ActionsAssumption ==
    /\ \A a \in RuleActions : a.type \in DOMAIN Attracted \union Weighing \union {"Set Point Magnet"} => IsMagnet(a)
    /\ ActionTypes[PrinceOfPersia] = Magnets(PrinceOfPersia)
    /\ ActionTypes[AnotherWorld] = Magnets(AnotherWorld)
    /\ ActionTypes[Sprilo] = Magnets(Sprilo) \union
           {"Advance Lap Progress", "Clear Lap Progress", "Stop Processing Reward"}
-----------------------------------------------------------------------------
(* calculateGameSpecificReward.                                            *)

Far(g) == g.magnets["Set Point Magnet"].intensity * g.distance
SpriloReward(g) ==
    LastInputReward * g.lastInput + (IF g.stopped THEN 0 ELSE g.emulator.written * 100 - Far(g))

\* The direction's magnet counts to one side only.
Near(g) == [m \in DOMAIN Attracted |->
    g.magnets[m].intensity * (255 - Abs(g.magnets[m].position - ValueOf(g, Attracted[m].at)))]
Turned(direction, intensity) == IF direction = 0 THEN 1 ELSE -intensity
Climbed(frame) == IF frame \in 217 .. 228 THEN frame - 216 ELSE 0
PrinceReward(g) ==
    SumFunction(Near(g))
        + Turned(ValueOf(g, "Kid Direction"), g.magnets["Set Kid Direction Magnet"].intensity)
        + Climbed(ValueOf(g, "Kid Frame"))
        + ValueOf(g, "Level Door Open") * g.magnets["Set Level Door Open Magnet"].intensity
        + ValueOf(g, "United With Shadow") * g.magnets["Set United With Shadow Magnet"].intensity
        + (ValueOf(g, "Guard Max HP") - ValueOf(g, "Guard Current Hp"))
              * g.magnets["Set Guard HP Magnet"].intensity

GameReward(g) ==
    CASE Game(g) = Sprilo         -> SpriloReward(g)
      [] Game(g) = PrinceOfPersia -> PrinceReward(g)
      [] Game(g) = AnotherWorld   -> -Far(g)
=============================================================================
