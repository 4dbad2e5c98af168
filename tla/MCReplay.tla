------------------------------ MODULE MCReplay ------------------------------
(* Three small games in the manner of src/examples, with a configuration   *)
(* each.  Their states are disjoint.                                       *)
EXTENDS Replay

Word == [bits |-> 16, signed |-> FALSE]
UnsignedByte == [bits |-> 8, signed |-> FALSE]
Typed8(properties) == [p \in properties |-> UnsignedByte]

Test(property, op, number) == [property |-> property, op |-> op, number |-> number]
Against(property, op, name) == [property |-> property, op |-> op, name |-> name]
Rule(label, conditions, satisfies, actions) ==
    [label |-> label, conditions |-> conditions, satisfies |-> satisfies, actions |-> actions]
Simple(type) == [type |-> type]
Reward(value) == [type |-> "Add Reward", value |-> value]
Checkpoint(tolerance) == [type |-> "Trigger Checkpoint", tolerance |-> tolerance]
Attract(type, intensity, position) == [type |-> type, intensity |-> intensity, position |-> position]
InRoom(type, room, position) == [room |-> room] @@ Attract(type, 1, position)
InputSet(conditions, inputs, stop) == [conditions |-> conditions, inputs |-> inputs, stop |-> stop]
-----------------------------------------------------------------------------
(* Sprilo: a race of two laps with three positions each.  Rules that       *)
(* advance the lap's progress satisfy the ones before, a rule of a small   *)
(* label wins, and the labels are not in order.                            *)
Track == 0 .. 7
FinishLine == 6
Wall == 7
Straight == "|..|.......A|"
Brake == "|..|........|"
Cut == "|..|..L....A|"
Drive == [c \in Track |->
    Brake :> c @@ Straight :> (IF c = Wall THEN c ELSE Min({c + 1, FinishLine}))
        @@ Cut :> (IF c \in {2, Wall} THEN Wall ELSE Min({c + 2, FinishLine}))]
RaceMemory == [c \in Track |->
    "Player Pos X" :> (IF c = Wall THEN 2 ELSE c % 3) @@ "Current Lap" :> (IF c = Wall THEN 0 ELSE c \div 3)
        @@ "Wall" :> (IF c = Wall THEN 2 ELSE 0)]
Race ==
    LET lap0 == Test("Current Lap", "==", 0)
        lap1 == Test("Current Lap", "==", 1)
        point(x) == Attract("Set Point Magnet", 1, x)
        clear == Simple("Clear Lap Progress")
        lead == Simple("Advance Lap Progress")
    IN [game |-> Sprilo, stateFile |-> 0, disabled |-> TRUE, hashed |-> {"Player Pos X", "Lap Progress"},
        rules |->
          << Rule(3, {lap0, Against("Player Pos X", ">", "Lap Progress"), Test("Lap Progress", "!=", 0)}, {2},
                  <<lead, Reward(10), Checkpoint(1)>>),
             Rule(1, {lap0}, {}, <<clear, point(2)>>),
             Rule(2, {lap0, Test("Player Pos X", ">=", 2), Test("Lap Progress", "==", 256)}, {1},
                  <<lead, point(0), Reward(10)>>),
             Rule(5, {lap1}, {3}, <<clear, point(1), Reward(100), Checkpoint(0)>>),
             Rule(7, {Test("Wall", "BitTrue", 1)}, {}, <<Simple("Trigger Fail")>>),
             Rule(4, {Test("Current Lap", ">", 1)}, {},
                  <<clear, Simple("Stop Processing Reward"), Simple("Trigger Win")>>),
             Rule(6, {lap1, Test("Player Pos X", "<=", 1), Test("Lap Progress", "<", 1)}, {5},
                  <<lead, point(2), lead, Reward(10)>>) >>,
        \* In the second lap one may not brake.
        allowed |-> <<InputSet({lap1}, <<Straight, Cut>>, TRUE),
                      InputSet({Test("Wall", "BitFalse", 1)}, <<Straight, Brake, Cut>>, FALSE)>>,
        candidates |-> <<>>, testCandidates |-> FALSE, initialSequence |-> <<Straight>>]
-----------------------------------------------------------------------------
(* Prince of Persia: standing (10), climbing (11), on the stairs in the    *)
(* second room (12) and falling (13).                                      *)
Rest == "|.|.....|"
Up == "|.|U....|"
Right == "|.|...R.|"
Walk == 10 :> (Rest :> 10 @@ Up :> 11 @@ Right :> 13) @@ 11 :> (Rest :> 10 @@ Up :> 12 @@ Right :> 10)
     @@ 12 :> (Rest :> 12 @@ Up :> 12 @@ Right :> 11) @@ 13 :> (Rest :> 13 @@ Up :> 13 @@ Right :> 13)
Kid(room, x, frame, previous, direction, guardHP) ==
    "Kid Room" :> room @@ "Kid Pos X Raw" :> x @@ "Kid Pos Y Raw" :> 50 @@ "Kid Frame" :> frame
        @@ "Kid Previous Frame" :> previous @@ "Kid Direction" :> direction
        @@ "Guard Room" :> 1 @@ "Guard Pos X Raw" :> 40 @@ "Guard Pos Y Raw" :> 50
        @@ "Guard Max HP" :> 3 @@ "Guard Current Hp" :> guardHP
        @@ "Level Door Open" :> room - 1 @@ "United With Shadow" :> 0
RoomMemory == 10 :> Kid(1, 10, 15, 14, 0, 3) @@ 11 :> Kid(1, 20, 141, 140, -1, 3)
           @@ 12 :> Kid(2, 5, 217, 216, -1, 1) @@ 13 :> Kid(1, 20, 102, 101, 0, 3)
PrinceTypes ==
    [p \in {"Guard Max HP", "Guard Current Hp", "Level Door Open", "United With Shadow"} |-> Word]
        @@ "Kid Direction" :> [bits |-> 8, signed |-> TRUE] @@ "Kid Pos Y" :> [bits |-> 32, signed |-> TRUE]
        @@ Typed8(DOMAIN RoomMemory[10])
Dungeon ==
    [game |-> PrinceOfPersia, stateFile |-> 10, disabled |-> FALSE, hashed |-> {"Kid Room"},
     rules |->
       << Rule(30, {Test("Kid Room", "==", 2)}, {10},
               <<Reward(50), InRoom("Set Kid Pos X Magnet", 2, 20), Attract("Set Guard HP Magnet", 2, 0),
                 Attract("Set Level Door Open Magnet", 7, 0), Checkpoint(1)>>),
          Rule(10, {Test("Kid Pos Y", ">", 55)}, {},
               <<InRoom("Set Kid Pos Y Magnet", 1, 60), Attract("Set Kid Direction Magnet", 3, 0)>>),
          Rule(20, {Test("Kid Direction", "==", 255)}, {},
               <<InRoom("Set Kid Pos X Magnet", 1, 0), InRoom("Set Guard Pos X Magnet", 1, 30)>>),
          Rule(40, {Test("Kid Frame", "==", 102)}, {}, <<Simple("Trigger Fail")>>) >>,
     \* While he climbs he must go on, and on the stairs he may turn back.
     allowed |-> <<InputSet({Test("Kid Pos Y", ">", 55)}, <<Up>>, TRUE), InputSet({}, <<Rest, Up>>, FALSE)>>,
     candidates |-> <<InputSet({Test("Kid Frame", ">=", 217)}, <<Up, Right>>, FALSE)>>,
     testCandidates |-> TRUE, initialSequence |-> <<Rest>>]
-----------------------------------------------------------------------------
(* Another World: what happens changes the state also without an input.  A *)
(* label is given twice.                                                   *)
Wait == "....."
Swim == "...R."
Lester == 20 :> (Wait :> 21 @@ Swim :> 22) @@ 21 :> (Wait :> 20 @@ Swim :> 22)
       @@ 22 :> (Wait :> 23 @@ Swim :> 23) @@ 23 :> (Wait :> 20 @@ Swim :> 23)
LesterMemory == [c \in DOMAIN Lester |-> "Lester Pos X" :> c - 20 @@ "Lester Room" :> c \div 22]
Pool ==
    [game |-> AnotherWorld, stateFile |-> 20, disabled |-> FALSE, hashed |-> {},
     rules |->
       << Rule(1000, {Test("Lester Pos X", "!=", 0)}, {}, <<Attract("Set Point Magnet", 1, 1)>>),
          Rule(1999, {Test("Lester Pos X", ">=", 3)}, {}, <<Simple("Trigger Win")>>),
          Rule(1000, {}, {}, <<Attract("Set Point Magnet", 2, 3)>>) >>,
     allowed |-> <<InputSet({}, <<Wait, Swim>>, FALSE)>>,
     candidates |-> <<>>, testCandidates |-> FALSE, initialSequence |-> <<Wait>>]
-----------------------------------------------------------------------------
MCConfigurations == "sprilo" :> Race @@ "prince" :> Dungeon @@ "lester" :> Pool
MCDatatypes == Sprilo :> Typed8({"Player Pos X", "Current Lap", "Lap Progress", "Wall"})
            @@ PrinceOfPersia :> PrinceTypes
            @@ AnotherWorld :> [p \in {"Lester Pos X", "Lester Room"} |-> [Word EXCEPT !.signed = TRUE]]
MCActionTypes ==
    [g \in {Sprilo, PrinceOfPersia, AnotherWorld} |-> Magnets(g)
        \union IF g = Sprilo THEN {"Advance Lap Progress", "Clear Lap Progress", "Stop Processing Reward"} ELSE {}]
MCAdvanceCore == Drive @@ Walk @@ Lester
MCCores == DOMAIN MCAdvanceCore
MCMemory == RaceMemory @@ RoomMemory @@ LesterMemory
MCLastInputReward == -1
MCUninitialized == {[type |-> "win", kidPosY |-> 200], [type |-> "other", kidPosY |-> 0]}
=============================================================================
