---------------------------- MODULE ReplayProofs ----------------------------
(***************************************************************************)
(* Theorems about Replay, for all configurations that its assumptions      *)
(* accept.                                                                 *)
(***************************************************************************)
EXTENDS Replay, FiniteFacts

\* The actions of a script's rules that are its game's own.
OwnActions(s) == {a \in UNION {ToSet(r.actions) : r \in ToSet(Scripts[s].rules)} : a.type \notin CommonActions}
-----------------------------------------------------------------------------
(* What is made of a script.                                               *)

\* The set that a sequence's positions are, and the position of the last one of a set.
LEMMA Positions ==
  ASSUME NEW n \in Nat
  PROVE  /\ IsFiniteSet(1 .. n)
         /\ \A s \in SUBSET (1 .. n) : s # {} => Max(s) \in s
  <1>1. IsFiniteSet(1 .. n)
    BY FS_Interval
  <1>2. ASSUME NEW s \in SUBSET (1 .. n), s # {} PROVE Max(s) \in s
    <2>1. IsFiniteSet(s)
      BY <1>1, FS_Subset
    <2>2. s \subseteq Int
      OBVIOUS
    <2> QED
      BY <1>2, <2>1, <2>2, Extremes
  <1> QED
    BY <1>1, <1>2

\* The last of a set of labels.
LEMMA LabelFacts ==
  ASSUME NEW s \in DOMAIN Scripts
  PROVE  /\ IsFiniteSet(Labels(s)) /\ Labels(s) \subseteq Nat
         /\ \A labels \in SUBSET Labels(s) : labels # {} => Max(labels) \in labels
         /\ \A l \in Labels(s) : /\ PlaceOf(Scripts[s].rules, l) \in 1 .. Len(Scripts[s].rules)
                                 /\ Scripts[s].rules[PlaceOf(Scripts[s].rules, l)].label = l
                                 /\ Rules[s][l] = ParseRule(Scripts[s].game, PlaceOf(Scripts[s].rules, l) - 1,
                                                            Scripts[s].rules[PlaceOf(Scripts[s].rules, l)])
  <1> DEFINE rules == Scripts[s].rules
  <1>1. Labels(s) = {rules[i].label : i \in DOMAIN rules}
    BY DEF Labels, Rules, ParseRules, LabelsOf
  <1>2. Len(rules) \in Nat /\ DOMAIN rules = 1 .. Len(rules)
    BY ScriptsAssumption, LenProperties DEF IsList
  <1>3. IsFiniteSet(Labels(s))
    <2> DEFINE f == [i \in 1 .. Len(rules) |-> rules[i].label]
    <2>1. f \in Surjection(1 .. Len(rules), Labels(s))
      BY <1>1, <1>2 DEF Surjection
    <2> QED
      BY <1>2, <2>1, Positions, FS_Surjection
  <1>4. Labels(s) \subseteq Nat
    BY RulesAssumption
  <1>5. ASSUME NEW labels \in SUBSET Labels(s), labels # {} PROVE Max(labels) \in labels
    <2>1. IsFiniteSet(labels) /\ labels \subseteq Int
      BY <1>3, <1>4, FS_Subset
    <2> QED
      BY <1>5, <2>1, Extremes
  <1>6. ASSUME NEW l \in Labels(s)
        PROVE  /\ PlaceOf(rules, l) \in 1 .. Len(rules) /\ rules[PlaceOf(rules, l)].label = l
               /\ Rules[s][l] = ParseRule(Scripts[s].game, PlaceOf(rules, l) - 1, rules[PlaceOf(rules, l)])
    <2> DEFINE places == {i \in DOMAIN rules : rules[i].label = l}
    <2>1. places # {} /\ places \in SUBSET (1 .. Len(rules))
      BY <1>1, <1>2
    <2>2. PlaceOf(rules, l) \in 1 .. Len(rules) /\ PlaceOf(rules, l) \in places
      BY <1>2, <2>1, Positions DEF PlaceOf
    <2>3. Rules[s][l] = ParseRule(Scripts[s].game, PlaceOf(rules, l) - 1, rules[PlaceOf(rules, l)])
      BY <1>1 DEF Rules, ParseRules, LabelsOf
    <2> QED
      BY <2>2, <2>3
  <1> QED
    BY <1>3, <1>4, <1>5, <1>6

\* A rule holds numbers, and of the actions those of its game's own.
RuleOf(s, l) == [index : {PlaceOf(Scripts[s].rules, l) - 1}, conditions : {Rules[s][l].conditions}, satisfies : {Rules[s][l].satisfies},
                 actions : Seq(OwnActions(s)), reward : Int, win : BOOLEAN,
                 fail : BOOLEAN, checkpoint : BOOLEAN, tolerance : Nat]
LEMMA RuleTyped ==
  ASSUME NEW s \in DOMAIN Scripts, NEW l \in Labels(s)
  PROVE  Rules[s][l] \in RuleOf(s, l)
  <1> DEFINE rules == Scripts[s].rules
             r == rules[PlaceOf(rules, l)]
             base == [index |-> PlaceOf(rules, l) - 1,
                      conditions |-> ParseConditions(Scripts[s].game, r.conditions),
                      satisfies |-> r.satisfies, actions |-> <<>>, reward |-> 0,
                      win |-> FALSE, fail |-> FALSE, checkpoint |-> FALSE, tolerance |-> 0]
             A == [index : {base.index}, conditions : {base.conditions}, satisfies : {base.satisfies},
                   actions : Seq(OwnActions(s)), reward : Int, win : BOOLEAN, fail : BOOLEAN,
                   checkpoint : BOOLEAN, tolerance : Nat]
             S == DOMAIN r.actions
             IsFold(it) == it = [T \in SUBSET S |-> IF T = {} THEN base
                                    ELSE ParseRuleAction(it[T \ {Max(T)}], r.actions[Max(T)])]
             fold == CHOOSE it : IsFold(it)
  <1>1. Len(rules) \in Nat /\ DOMAIN rules = 1 .. Len(rules) /\ PlaceOf(rules, l) \in 1 .. Len(rules)
    BY ScriptsAssumption, LenProperties, LabelFacts DEF IsList
  <1>2. r \in ToSet(rules)
    BY <1>1 DEF ToSet
  <1>3. /\ IsList(r.actions) /\ Len(r.actions) \in Nat /\ S = 1 .. Len(r.actions)
        /\ \A i \in S : r.actions[i] \in ToSet(r.actions)
    BY <1>2, ScriptsAssumption, LenProperties DEF IsList, ToSet
  <1>4. \A a \in ToSet(r.actions) : IsComplete(a) /\ (a.type \notin CommonActions => a \in OwnActions(s))
    BY <1>2, ScriptsAssumption DEF Accepted, OwnActions
  <1>5. base \in A
    BY <1>1
  <1>6. ASSUME NEW x \in A, NEW a \in ToSet(r.actions) PROVE ParseRuleAction(x, a) \in A
    <2> HIDE DEF base, r
    <2>1. CASE a.type = "Add Reward"
      BY <1>4, <2>1 DEF ParseRuleAction, IsComplete
    <2>2. CASE a.type = "Trigger Fail"
      BY <2>2 DEF ParseRuleAction
    <2>3. CASE a.type = "Trigger Win"
      BY <2>3 DEF ParseRuleAction
    <2>4. CASE a.type = "Trigger Checkpoint"
      BY <1>4, <2>4 DEF ParseRuleAction, IsComplete
    <2>5. CASE a.type \notin CommonActions
      <3>1. a \in OwnActions(s)
        BY <1>4, <2>5
      <3>2. ParseRuleAction(x, a) = [x EXCEPT !.actions = Append(x.actions, a)]
        BY <2>5 DEF ParseRuleAction, CommonActions
      <3>3. Append(x.actions, a) \in Seq(OwnActions(s))
        BY <3>1, AppendProperties
      <3> QED
        BY <3>2, <3>3
    <2> QED
      BY <2>1, <2>2, <2>3, <2>4, <2>5 DEF CommonActions
  <1>7. IsFiniteSet(S) /\ S \subseteq Int
    BY <1>3, Positions
  <1>8. Rules[s][l] = fold[S]
    BY LabelFacts DEF ParseRule, FoldLeft, MapThenFoldSet
  <1>9. \A x \in A : /\ x.conditions = base.conditions /\ x.satisfies = base.satisfies
                    /\ x.index = PlaceOf(rules, l) - 1
    OBVIOUS
  <1> HIDE DEF base, A, S, r
  <1>11. \E it : IsFold(it)
    <2> DEFINE G == [i \in S |-> [x \in A |-> ParseRuleAction(x, r.actions[i])]]
    <2>1. \A i \in S, x \in A : G[i][x] = ParseRuleAction(x, r.actions[i]) /\ G[i][x] \in A
      BY <1>3, <1>6
    <2> HIDE DEF G
    <2>2. PICK it : IsLatestFold(it, S, A, base, G)
      BY <1>5, <1>7, <2>1, LatestExists
    <2>3. \A T \in SUBSET S : it[T] = IF T = {} THEN base
                                       ELSE ParseRuleAction(it[T \ {Max(T)}], r.actions[Max(T)])
      BY <2>1, <2>2 DEF IsLatestFold
    <2>4. it \in [SUBSET S -> A]
      BY <2>2 DEF IsLatestFold
    <2> QED
      BY <2>3, <2>4
  <1>12. fold[{}] = base /\ \A T \in SUBSET S : T # {} => fold[T] = ParseRuleAction(fold[T \ {Max(T)}], r.actions[Max(T)])
    <2>1. IsFold(fold)
      BY <1>11
    <2> HIDE DEF fold
    <2> QED
      BY <2>1
  <1> HIDE DEF fold
  <1>13. ASSUME NEW T \in SUBSET S, T # {}, Max(T) \in T, fold[T \ {Max(T)}] \in A PROVE fold[T] \in A
    <2>1. r.actions[Max(T)] \in ToSet(r.actions)
      BY <1>3, <1>13
    <2>2. ParseRuleAction(fold[T \ {Max(T)}], r.actions[Max(T)]) \in A
      BY <1>6, <1>13, <2>1
    <2> QED
      BY <1>12, <1>13, <2>2
  <1>14. fold[S] \in A
    BY <1>5, <1>7, <1>12, <1>13, LatestStays
  <1> QED
    BY <1>8, <1>9, <1>14 DEF A, RuleOf

\* A rule is known by its index, and those that it satisfies come before it.
LEMMA IndexFacts ==
  ASSUME NEW s \in DOMAIN Scripts, NEW l \in Labels(s)
  PROVE  /\ Rules[s][l].index \in Nat
         /\ \A k \in Labels(s) : Rules[s][k].index = Rules[s][l].index => k = l
         /\ Rules[s][l].satisfies \in SUBSET Labels(s) /\ \A k \in Rules[s][l].satisfies : k < l
         /\ IsFiniteSet(Rules[s][l].satisfies) /\ Rules[s][l].satisfies \subseteq Int
  <1>1. \A k \in Labels(s) : Rules[s][k].index = PlaceOf(Scripts[s].rules, k) - 1
    BY RuleTyped DEF RuleOf
  <1>2. Rules[s][l].index \in Nat
    BY <1>1, LabelFacts
  <1>3. \A k \in Labels(s) : Rules[s][k].index = Rules[s][l].index => k = l
    BY <1>1, LabelFacts
  <1>4. Rules[s][l].satisfies \in SUBSET Labels(s) /\ \A k \in Rules[s][l].satisfies : k < l
    BY RulesAssumption
  <1>5. IsFiniteSet(Rules[s][l].satisfies) /\ Rules[s][l].satisfies \subseteq Int
    BY <1>4, LabelFacts, FS_Subset
  <1> QED
    BY <1>2, <1>3, <1>4, <1>5

\* What holds of a rule if it holds of those that it satisfies, holds of all.
LEMMA LabelInduction ==
  ASSUME NEW s \in DOMAIN Scripts, NEW Good,
         \A l \in Labels(s) : (\A k \in Rules[s][l].satisfies : k \in Good) => l \in Good
  PROVE  Labels(s) \subseteq Good
  <1> DEFINE Up == {n \in Nat : \A l \in Labels(s) : l < n => l \in Good}
  <1>1. Labels(s) \subseteq Nat
    BY LabelFacts
  <1>2. 0 \in Up
    BY <1>1
  <1>3. ASSUME NEW n \in Nat, n \in Up PROVE n + 1 \in Up
    <2>1. ASSUME NEW l \in Labels(s), l < n + 1 PROVE l \in Good
      <3>1. \A k \in Rules[s][l].satisfies : k \in Labels(s) /\ k \in Nat /\ k < n
        BY <1>1, <2>1, IndexFacts
      <3> QED
        BY <1>3, <3>1
    <2> QED
      BY <2>1
  <1>4. Nat \subseteq Up
    <2> HIDE DEF Up
    <2> QED
      BY <1>2, <1>3, NatSetInduction
  <1>5. ASSUME NEW l \in Labels(s) PROVE l \in Good
    <2>1. l + 1 \in Up /\ l < l + 1
      BY <1>1, <1>4
    <2> QED
      BY <2>1
  <1> QED
    BY <1>5
-----------------------------------------------------------------------------
(* What the functions of a game yield, and what they leave alone.          *)

\* What the status may be: with a rule, those that it satisfies are satisfied.
Statuses(s) == {status \in SUBSET Nat :
    \A l \in Labels(s) : Rules[s][l].index \in status =>
                             \A k \in Rules[s][l].satisfies : Rules[s][k].index \in status}

\* The states of a game of a script, which may disable a block.
GamesOf(s) == {g \in Games : /\ g.script = s /\ g.emulator.core \in CoresOf(s)
                             /\ Scripts[s].disabled \/ g.emulator.enabled
                             /\ DOMAIN g.magnets = Magnets(Scripts[s].game)
                             /\ g.status \in Statuses(s)}

\* Those that differ from a state by what the actions of rules change.
Acted(g) == {h \in GamesOf(g.script) :
    /\ \A field \in DOMAIN g \ {"emulator", "magnets", "stopped"} : h[field] = g[field]
    /\ \A field \in DOMAIN g.emulator \ {"written"} : h.emulator[field] = g.emulator[field]}

LEMMA MagnetsOf ==
  ASSUME NEW s \in DOMAIN Scripts
  PROVE  /\ Scripts[s].game \in {Sprilo, PrinceOfPersia, AnotherWorld}
         /\ Sprilo # PrinceOfPersia /\ Sprilo # AnotherWorld /\ PrinceOfPersia # AnotherWorld
         /\ DOMAIN Attracted \subseteq Magnets(PrinceOfPersia) /\ Weighing \subseteq Magnets(PrinceOfPersia)
         /\ Scripts[s].game # PrinceOfPersia => Magnets(Scripts[s].game) = {"Set Point Magnet"}
         /\ Magnets(Scripts[s].game) \subseteq DOMAIN Attracted \union Weighing \union {"Set Point Magnet"}
         /\ Magnets(Scripts[s].game) \in {Magnets(Sprilo), Magnets(PrinceOfPersia)}
  BY CoresAssumption DEF Magnets, Sprilo, PrinceOfPersia, AnotherWorld

LEMMA Attracting == IsFiniteSet(DOMAIN Attracted)
  <1> DEFINE GuardMagnets == {"Set Guard Pos X Magnet"} \union {"Set Guard Pos Y Magnet"}
  <1>1. DOMAIN Attracted = KidMagnets \union GuardMagnets
    BY DEF Attracted
  <1>2. KidMagnets = {"Set Kid Pos X Magnet"} \union {"Set Kid Pos Y Magnet"}
    BY DEF KidMagnets
  <1>3. \A x, y : IsFiniteSet({x} \union {y})
    BY FS_Singleton, FS_Union
  <1>4. IsFiniteSet(KidMagnets) /\ IsFiniteSet(GuardMagnets)
    BY <1>2, <1>3, Zenon
  <1> HIDE DEF GuardMagnets
  <1> QED
    BY <1>1, <1>4, FS_Union

LEMMA SameActed ==
  ASSUME NEW s \in DOMAIN Scripts, NEW g \in GamesOf(s)
  PROVE  g \in Acted(g)
  BY DEF Acted, GamesOf, Games, Emulators

LEMMA ActionActed ==
  ASSUME NEW s \in DOMAIN Scripts, NEW g \in GamesOf(s), NEW h \in Acted(g),
         NEW a \in RuleActions, a \in OwnActions(s)
  PROVE  RunAction(a)[h] \in Acted(g)
  <1>1. /\ h \in Games /\ h.script = s /\ h \in GamesOf(s)
        /\ h.emulator \in Emulators /\ DOMAIN h.magnets = Magnets(Scripts[s].game)
    BY DEF Acted, GamesOf, Games
  <1>2. a.type \in ActionTypes[Scripts[s].game]
    BY ScriptsAssumption DEF Accepted, OwnActions
  <1>3. CASE a.type \in Magnets(Scripts[s].game)
    <2> DEFINE magnet == [intensity |-> IF a.type \in DOMAIN Attracted /\ ValueOf(h, Attracted[a.type].room) # a.room
                                          THEN 0 ELSE a.intensity,
                          position |-> a.position]
    <2>1. magnet \in Magnet
      <3>1. a.type \in DOMAIN Attracted \union Weighing \union {"Set Point Magnet"}
        BY <1>3, MagnetsOf
      <3>2. IsMagnet(a)
        BY <3>1, ActionsAssumption
      <3> QED
        BY <3>2 DEF IsMagnet, Magnet
    <2>2. RunAction(a)[h] = [h EXCEPT !.magnets[a.type] = magnet]
      BY <1>1, <1>3 DEF RunAction, SetMagnet
    <2> HIDE DEF magnet
    <2>3. [h EXCEPT !.magnets[a.type] = magnet] \in Games
      BY <1>1, <1>3, <2>1 DEF Games
    <2> QED
      BY <1>1, <1>3, <2>2, <2>3 DEF Acted, GamesOf, Games
  <1>4. CASE a.type \notin Magnets(Scripts[s].game)
    <2> DEFINE w == IF a.type = "Advance Lap Progress" THEN (h.emulator.written + 1) % Byte
                    ELSE IF a.type = "Clear Lap Progress" THEN 0 ELSE h.emulator.written
               b == h.stopped \/ a.type = "Stop Processing Reward"
    <2>1. w \in 0 .. Byte - 1
      <3>1. h.emulator.written \in 0 .. Byte - 1
        BY <1>1 DEF Emulators
      <3>2. (h.emulator.written + 1) % Byte \in 0 .. Byte - 1 /\ 0 \in 0 .. Byte - 1
        BY <3>1 DEF Byte
      <3> QED
        BY <3>1, <3>2
    <2>0. b \in BOOLEAN
      BY <1>1 DEF Games
    <2>2. RunAction(a)[h] = [h EXCEPT !.emulator.written = w, !.stopped = b]
      BY <1>1, <1>4 DEF RunAction
    <2> HIDE DEF w, b
    <2>3. [h EXCEPT !.emulator.written = w, !.stopped = b] \in Games
      BY <1>1, <2>0, <2>1 DEF Games, Emulators
    <2> DEFINE r == [h EXCEPT !.emulator.written = w, !.stopped = b]
    <2>4. r \in GamesOf(s)
      BY <1>1, <2>3 DEF GamesOf, Games, Emulators
    <2>5. \A field \in DOMAIN g \ {"emulator", "magnets", "stopped"} : r[field] = g[field]
      BY <1>1 DEF Acted, GamesOf, Games
    <2>6. \A field \in DOMAIN g.emulator \ {"written"} : r.emulator[field] = g.emulator[field]
      <3>1. r.emulator = [h.emulator EXCEPT !.written = w]
        BY <1>1 DEF Games
      <3>2. DOMAIN h.emulator = DOMAIN g.emulator
        BY <1>1 DEF GamesOf, Games, Emulators
      <3>3. \A field \in DOMAIN g.emulator \ {"written"} : h.emulator[field] = g.emulator[field]
        BY DEF Acted
      <3> HIDE DEF r
      <3> QED
        BY <3>1, <3>2, <3>3
    <2>7. RunAction(a)[h] = r /\ g.script = s
      BY <2>2 DEF GamesOf
    <2> HIDE DEF r
    <2> QED
      BY <2>4, <2>5, <2>6, <2>7 DEF Acted
  <1> QED
    BY <1>3, <1>4

\* The actions of one rule are run in their order, and then those of the next rule.
RunsInOrder(it, s, l, h) ==
    /\ it[{}] = h
    /\ \A T \in SUBSET DOMAIN Rules[s][l].actions :
          T # {} => it[T] = RunAction(Rules[s][l].actions[Max(T)])[it[T \ {Max(T)}]]
LEMMA ActionPositions ==
  ASSUME NEW s \in DOMAIN Scripts, NEW l \in Labels(s)
  PROVE  /\ IsFiniteSet(DOMAIN Rules[s][l].actions) /\ DOMAIN Rules[s][l].actions \subseteq Int
         /\ \A i \in DOMAIN Rules[s][l].actions : /\ Rules[s][l].actions[i] \in OwnActions(s)
                                                 /\ Rules[s][l].actions[i] \in RuleActions
  <1> DEFINE actions == Rules[s][l].actions
             S == DOMAIN actions
  <1>1. actions \in Seq(OwnActions(s))
    BY RuleTyped DEF RuleOf
  <1>2. S = 1 .. Len(actions) /\ Len(actions) \in Nat /\ \A i \in S : actions[i] \in OwnActions(s)
    BY <1>1, LenProperties, ElementOfSeq
  <1>3. \A i \in S : actions[i] \in RuleActions
    BY DEF RuleActions, ToSet
  <1> QED
    BY <1>2, <1>3, Positions

LEMMA ActionsInOrder ==
  ASSUME NEW s \in DOMAIN Scripts, NEW g \in GamesOf(s), NEW h \in Acted(g), NEW l \in Labels(s)
  PROVE  \E it : /\ RunsInOrder(it, s, l, h)
                 /\ \A T \in SUBSET DOMAIN Rules[s][l].actions : it[T] \in Acted(g)
                 /\ RunActionsOf(l)[h] = IF Rules[s][l].index \in g.status
                                           THEN it[DOMAIN Rules[s][l].actions] ELSE h
  <1> DEFINE actions == Rules[h.script][l].actions
             A == Acted(g)
             S == DOMAIN actions
             IsFold(it) == it = [T \in SUBSET S |-> IF T = {} THEN h
                                    ELSE RunAction(actions[Max(T)])[it[T \ {Max(T)}]]]
             fold == CHOOSE it : IsFold(it)
  <1>1. h \in Games /\ h.script = s /\ h.status = g.status
    BY DEF Acted, GamesOf, Games
  <1>2. IsFiniteSet(S) /\ S \subseteq Int
    BY <1>1, ActionPositions
  <1>5. \A x \in A, i \in S : RunAction(actions[i])[x] \in A
    BY <1>1, ActionPositions, ActionActed
  <1>7. RunActionsOf(l)[h] = IF Rules[s][l].index \in h.status THEN fold[S] ELSE h
    <2>1. RunActionsOf(l)[h] = IF Rules[h.script][l].index \in h.status
                                 THEN FoldLeft(LAMBDA x, a : RunAction(a)[x], h, actions) ELSE h
      BY <1>1 DEF RunActionsOf
    <2>2. FoldLeft(LAMBDA x, a : RunAction(a)[x], h, actions) = fold[S]
      BY DEF FoldLeft, MapThenFoldSet
    <2> HIDE DEF fold, S
    <2> QED
      BY <1>1, <2>1, <2>2
  <1>8. h \in A /\ actions = Rules[s][l].actions /\ S = DOMAIN actions
    BY <1>1
  <1> HIDE DEF A, S, actions
  <1>10. \E it : IsFold(it)
    <2> DEFINE G == [i \in S |-> [x \in A |-> RunAction(actions[i])[x]]]
    <2>1. \A i \in S, x \in A : G[i][x] = RunAction(actions[i])[x] /\ G[i][x] \in A
      BY <1>5
    <2> HIDE DEF G
    <2>2. PICK it : IsLatestFold(it, S, A, h, G)
      BY <1>2, <1>8, <2>1, LatestExists
    <2>3. \A T \in SUBSET S : it[T] = IF T = {} THEN h ELSE RunAction(actions[Max(T)])[it[T \ {Max(T)}]]
      BY <2>1, <2>2 DEF IsLatestFold
    <2>4. it \in [SUBSET S -> A]
      BY <2>2 DEF IsLatestFold
    <2> QED
      BY <2>3, <2>4
  <1>11. fold[{}] = h /\ \A T \in SUBSET S : T # {} => fold[T] = RunAction(actions[Max(T)])[fold[T \ {Max(T)}]]
    <2>1. IsFold(fold)
      BY <1>10
    <2> HIDE DEF fold
    <2> QED
      BY <2>1
  <1> HIDE DEF fold
  <1>12. \A T \in SUBSET S : fold[T] \in A
    <2>1. ASSUME NEW T \in SUBSET S, T # {}, Max(T) \in T, fold[T \ {Max(T)}] \in A PROVE fold[T] \in A
      BY <1>5, <1>11, <2>1
    <2> QED
      BY <1>2, <1>8, <1>11, <2>1, LatestStays
  <1>13. RunsInOrder(fold, s, l, h)
    BY <1>8, <1>11 DEF RunsInOrder
  <1> QED
    BY <1>1, <1>7, <1>8, <1>12, <1>13 DEF A

LEMMA ActionsActed ==
  ASSUME NEW s \in DOMAIN Scripts, NEW g \in GamesOf(s), NEW h \in Acted(g), NEW l \in Labels(s)
  PROVE  RunActionsOf(l)[h] \in Acted(g)
  <1> DEFINE S == DOMAIN Rules[s][l].actions
  <1>1. PICK it : /\ RunsInOrder(it, s, l, h)
                  /\ \A T \in SUBSET S : it[T] \in Acted(g)
                  /\ RunActionsOf(l)[h] = IF Rules[s][l].index \in g.status THEN it[S] ELSE h
    BY ActionsInOrder
  <1> HIDE DEF S
  <1> QED
    BY <1>1

RunsRulesInOrder(it, s, g) ==
    /\ it[{}] = g /\ it[Labels(s)] = RunRuleActions(g)
    /\ \A T \in SUBSET Labels(s) : T # {} => it[T] = RunActionsOf(Max(T))[it[T \ {Max(T)}]]
LEMMA RulesInOrder ==
  ASSUME NEW s \in DOMAIN Scripts, NEW g \in GamesOf(s)
  PROVE  \E it : RunsRulesInOrder(it, s, g) /\ \A T \in SUBSET Labels(s) : it[T] \in Acted(g)
  <1> DEFINE A == Acted(g)
             S == Labels(s)
             IsFold(it) == it = [T \in SUBSET S |-> IF T = {} THEN g
                                    ELSE RunActionsOf(Max(T))[it[T \ {Max(T)}]]]
             fold == CHOOSE it : IsFold(it)
  <1>1. g.script = s /\ g \in A
    BY SameActed DEF GamesOf
  <1>2. \A x \in A, l \in S : RunActionsOf(l)[x] \in A
    BY ActionsActed
  <1>3. IsFiniteSet(S) /\ S \subseteq Int
    BY LabelFacts
  <1>4. RunRuleActions(g) = fold[S]
    BY <1>1 DEF RunRuleActions, InLabelOrder, MapThenFoldSet
  <1>5. S = Labels(s)
    OBVIOUS
  <1> HIDE DEF A, S
  <1>6. \E it : IsFold(it)
    <2> DEFINE G == [l \in S |-> [x \in A |-> RunActionsOf(l)[x]]]
    <2>1. \A l \in S, x \in A : G[l][x] = RunActionsOf(l)[x] /\ G[l][x] \in A
      BY <1>2
    <2> HIDE DEF G
    <2>2. PICK it : IsLatestFold(it, S, A, g, G)
      BY <1>1, <1>3, <2>1, LatestExists
    <2>3. \A T \in SUBSET S : it[T] = IF T = {} THEN g ELSE RunActionsOf(Max(T))[it[T \ {Max(T)}]]
      BY <2>1, <2>2 DEF IsLatestFold
    <2>4. it \in [SUBSET S -> A]
      BY <2>2 DEF IsLatestFold
    <2> QED
      BY <2>3, <2>4
  <1>7. fold[{}] = g /\ \A T \in SUBSET S : T # {} => fold[T] = RunActionsOf(Max(T))[fold[T \ {Max(T)}]]
    <2>1. IsFold(fold)
      BY <1>6
    <2> HIDE DEF fold
    <2> QED
      BY <2>1
  <1> HIDE DEF fold
  <1>8. \A T \in SUBSET S : fold[T] \in A
    <2>1. ASSUME NEW T \in SUBSET S, T # {}, Max(T) \in T, fold[T \ {Max(T)}] \in A PROVE fold[T] \in A
      BY <1>2, <1>7, <2>1
    <2> QED
      BY <1>1, <1>3, <1>7, <2>1, LatestStays
  <1>9. RunsRulesInOrder(fold, s, g)
    BY <1>4, <1>5, <1>7 DEF RunsRulesInOrder
  <1> QED
    BY <1>5, <1>8, <1>9 DEF A

\* Running the actions of all rules changes nothing else.
LEMMA RulesActed ==
  ASSUME NEW s \in DOMAIN Scripts, NEW g \in GamesOf(s)
  PROVE  RunRuleActions(g) \in Acted(g)
  <1>1. PICK it : RunsRulesInOrder(it, s, g) /\ \A T \in SUBSET Labels(s) : it[T] \in Acted(g)
    BY RulesInOrder
  <1> QED
    BY <1>1 DEF RunsRulesInOrder
-----------------------------------------------------------------------------
(* Which rules are satisfied.                                              *)

\* Marking a set of rules, one after the other, stays in a set that marking one does not
\* leave, and does not depend on what marking does elsewhere.
LEMMA MarkAllFacts ==
  ASSUME NEW L, IsFiniteSet(L), L \subseteq Int, NEW A, NEW status \in A,
         NEW m, \A k \in L, x \in A : m[k][x] \in A
  PROVE  /\ MarkAll(m, status, L) \in A
         /\ \A n : (\A k \in L, x \in A : n[k][x] = m[k][x]) => MarkAll(n, status, L) = MarkAll(m, status, L)
         /\ \E it : IsLatestFold(it, L, A, status, m) /\ MarkAll(m, status, L) = it[L]
  <1> DEFINE IsFold(f, it) == it = [T \in SUBSET L |-> IF T = {} THEN status
                                                       ELSE f[Max(T)][it[T \ {Max(T)}]]]
             Agrees(f) == \A k \in L, x \in A : f[k][x] = m[k][x]
             Fold(f) == CHOOSE it : IsFold(f, it)
  <1>1. \A f : MarkAll(f, status, L) = Fold(f)[L]
    BY DEF MarkAll, InLabelOrder, MapThenFoldSet
  <1>2. ASSUME NEW f, Agrees(f)
        PROVE  IsFold(f, Fold(f))
    <2>1. PICK it : IsLatestFold(it, L, A, status, m)
      BY LatestExists
    <2>2. \A T \in SUBSET L : it[T] = IF T = {} THEN status ELSE f[Max(T)][it[T \ {Max(T)}]]
      BY <1>2, <2>1 DEF IsLatestFold
    <2>3. it \in [SUBSET L -> A]
      BY <2>1 DEF IsLatestFold
    <2>4. IsFold(f, it)
      BY <2>2, <2>3
    <2>5. \E jt : IsFold(f, jt)
      BY <2>4
    <2> HIDE DEF IsFold
    <2> QED
      BY <2>5
  <1> HIDE DEF IsFold, Fold
  <1> DEFINE mine == Fold(m)
  <1>3. /\ mine[{}] = status /\ ((\A T \in SUBSET L : mine[T] \in A) => mine \in [SUBSET L -> A])
        /\ \A T \in SUBSET L : T # {} => mine[T] = m[Max(T)][mine[T \ {Max(T)}]]
    <2>1. IsFold(m, mine)
      BY <1>2
    <2> HIDE DEF mine
    <2> QED
      BY <2>1 DEF IsFold
  <1>4. MarkAll(m, status, L) = mine[L]
    BY <1>1
  <1> HIDE DEF mine
  <1>5. mine[L] \in A /\ \A T \in SUBSET L : mine[T] \in A
    <2>1. ASSUME NEW T \in SUBSET L, T # {}, Max(T) \in T, mine[T \ {Max(T)}] \in A PROVE mine[T] \in A
      BY <1>3, <2>1
    <2> QED
      BY <1>3, <2>1, LatestStays
  <1>6. ASSUME NEW n, Agrees(n)
        PROVE  Fold(n)[L] = mine[L]
    <2> DEFINE other == Fold(n)
               both == [T \in SUBSET L |-> <<other[T], mine[T]>>]
               Same == {<<x, x>> : x \in A}
    <2>1. /\ other[{}] = status
          /\ \A T \in SUBSET L : T # {} => other[T] = n[Max(T)][other[T \ {Max(T)}]]
      <3>1. IsFold(n, other)
        BY <1>2, <1>6
      <3> HIDE DEF other
      <3> QED
        BY <3>1 DEF IsFold
    <2> HIDE DEF other
    <2>2. both[{}] \in Same
      BY <1>3, <2>1
    <2>3. ASSUME NEW T \in SUBSET L, T # {}, Max(T) \in T, both[T \ {Max(T)}] \in Same PROVE both[T] \in Same
      <3>1. T \ {Max(T)} \in SUBSET L /\ Max(T) \in L
        BY <2>3
      <3>2. other[T \ {Max(T)}] = mine[T \ {Max(T)}] /\ mine[T \ {Max(T)}] \in A
        BY <1>5, <2>3, <3>1
      <3>3. other[T] = mine[T] /\ mine[T] \in A
        BY <1>3, <1>5, <1>6, <2>1, <2>3, <3>1, <3>2
      <3> QED
        BY <3>3
    <2>4. both[L] \in Same
      <3> HIDE DEF both, Same
      <3> QED
        BY <2>2, <2>3, LatestStays
    <2>5. other[L] = mine[L]
      BY <2>4
    <2> QED
      BY <2>5 DEF other
  <1>7. IsLatestFold(mine, L, A, status, m)
    <2>1. mine \in [SUBSET L -> A]
      BY <1>3, <1>5
    <2>2. \A T \in SUBSET L : T # {} => Max(T) \in L
      BY LatestPicks
    <2> QED
      BY <1>3, <1>5, <2>1, <2>2 DEF IsLatestFold
  <1>8. \A n : Agrees(n) => MarkAll(n, status, L) = MarkAll(m, status, L)
    BY <1>1, <1>4, <1>6
  <1> QED
    BY <1>4, <1>5, <1>7, <1>8

\* Marking one adds its index, and nothing but indices of a set.
MarksWithin(m, L, A, B, ix) ==
    \A k \in L, x \in A : x \subseteq m[k][x] /\ m[k][x] \subseteq x \union B /\ ix[k] \in m[k][x]

\* It marks all of them, and nothing but what marking one of them may.
LEMMA MarkAllMarks ==
  ASSUME NEW L, IsFiniteSet(L), L \subseteq Int, NEW A, NEW status \in A,
         NEW m, \A k \in L, x \in A : m[k][x] \in A,
         NEW B, NEW ix, MarksWithin(m, L, A, B, ix)
  PROVE  /\ status \subseteq MarkAll(m, status, L) /\ MarkAll(m, status, L) \subseteq status \union B
         /\ \A k \in L : ix[k] \in MarkAll(m, status, L)
  <1>1. PICK mine : IsLatestFold(mine, L, A, status, m) /\ MarkAll(m, status, L) = mine[L]
    BY MarkAllFacts
  <1>2. /\ mine[{}] = status
        /\ \A T \in SUBSET L : mine[T] \in A /\ (T # {} => mine[T] = m[Max(T)][mine[T \ {Max(T)}]])
    BY <1>1 DEF IsLatestFold
  <1> DEFINE marks == [T \in SUBSET L |-> <<T, mine[T]>>]
             Good == {p \in (SUBSET L) \X A : /\ status \subseteq p[2] /\ p[2] \subseteq status \union B
                                              /\ \A k \in p[1] : ix[k] \in p[2]}
  <1>3. marks[{}] \in Good
    BY <1>2
  <1>4. ASSUME NEW T \in SUBSET L, T # {}, Max(T) \in T, marks[T \ {Max(T)}] \in Good PROVE marks[T] \in Good
    <2> DEFINE rest == T \ {Max(T)}
    <2>1. rest \in SUBSET L /\ Max(T) \in L
      BY <1>4
    <2>2. /\ status \subseteq mine[rest] /\ mine[rest] \subseteq status \union B /\ mine[rest] \in A
          /\ \A k \in rest : ix[k] \in mine[rest]
      BY <1>2, <1>4, <2>1
    <2>3. mine[T] = m[Max(T)][mine[rest]] /\ mine[T] \in A
      BY <1>2, <1>4
    <2>4. /\ mine[rest] \subseteq mine[T] /\ mine[T] \subseteq mine[rest] \union B
          /\ ix[Max(T)] \in mine[T]
      BY <2>1, <2>2, <2>3 DEF MarksWithin
    <2>5. \A k \in T : ix[k] \in mine[T]
      BY <2>2, <2>4
    <2> HIDE DEF rest
    <2> QED
      BY <2>2, <2>3, <2>4, <2>5
  <1>5. marks[L] \in Good
    <2> HIDE DEF marks, Good
    <2> QED
      BY <1>3, <1>4, LatestStays
  <1> QED
    BY <1>1, <1>5

\* Satisfying a rule is well defined: it satisfies the rule, those that it satisfies
\* directly or through others, and no others.
LEMMA SatisfyRuleFacts ==
  ASSUME NEW s \in DOMAIN Scripts, NEW label \in Labels(s), NEW before \in Statuses(s)
  PROVE  /\ SatisfyRule(s)[label][before] \in Statuses(s)
         /\ before \subseteq SatisfyRule(s)[label][before]
         /\ Rules[s][label].index \in SatisfyRule(s)[label][before]
         /\ \A d \in SUBSET Labels(s) : label \in d /\ Closed(s, d) =>
               SatisfyRule(s)[label][before] \subseteq before \union IndexOf(s, d)
  <1> DEFINE L == Labels(s)
             Marked == SUBSET Nat
             index(l) == Rules[s][l].index
             sub(l) == Rules[s][l].satisfies
             Step(m, l) == [status \in Marked |-> IF Rules[s][l].index \in status THEN status
                              ELSE {Rules[s][l].index} \union MarkAll(m, status, Rules[s][l].satisfies)]
             IsMark(m) == m = [l \in L |-> Step(m, l)]
             mark == CHOOSE m : IsMark(m)
             F == [Marked -> Marked]
  <1>1. SatisfyRule(s) = mark
    BY DEF SatisfyRule
  <1>2. \A l \in L : /\ index(l) \in Nat /\ sub(l) \in SUBSET L
                     /\ IsFiniteSet(sub(l)) /\ sub(l) \subseteq Int
    BY IndexFacts
  <1>3. \A l \in L : \A status \in Marked :
           Step(mark, l)[status] = IF index(l) \in status THEN status ELSE {index(l)} \union MarkAll(mark, status, sub(l))
    <2> HIDE DEF mark
    <2> QED
      OBVIOUS
  <1>4. ASSUME NEW m, NEW l \in L, \A k \in sub(l) : m[k] \in F
        PROVE  /\ Step(m, l) \in F
               /\ \A n : (\A k \in sub(l) : n[k] = m[k]) => Step(n, l) = Step(m, l)
    <2>1. ASSUME NEW status \in Marked
          PROVE  /\ MarkAll(m, status, sub(l)) \in Marked
                 /\ \A n : (\A k \in sub(l), x \in Marked : n[k][x] = m[k][x])
                              => MarkAll(n, status, sub(l)) = MarkAll(m, status, sub(l))
      <3>1. \A k \in sub(l), x \in Marked : m[k][x] \in Marked
        BY <1>4
      <3>2. IsFiniteSet(sub(l)) /\ sub(l) \subseteq Int
        BY <1>2
      <3> HIDE DEF Marked, sub, F
      <3> QED
        BY <3>1, <3>2, MarkAllFacts
    <2>2. \A status \in Marked : /\ {index(l)} \union MarkAll(m, status, sub(l)) \in Marked
      BY <1>2, <2>1
    <2>3. Step(m, l) \in F
      BY <2>2
    <2>4. ASSUME NEW n, \A k \in sub(l) : n[k] = m[k]
          PROVE  Step(n, l) = Step(m, l)
      <3>1. \A status \in Marked : MarkAll(n, status, sub(l)) = MarkAll(m, status, sub(l))
        BY <2>1, <2>4
      <3> QED
        BY <3>1
    <2> QED
      BY <2>3, <2>4
  <1> HIDE DEF Step, F, L
  <1>5. \E m : IsMark(m) /\ \A l \in L : m[l] \in F
    <2> DEFINE Good == {b \in Nat : \E m \in [L -> F] : \A l \in L : l < b => m[l] = Step(m, l)}
    <2>1. 0 \in Good
      <3>1. [x \in Marked |-> x] \in F
        BY DEF F
      <3>2. [l \in L |-> [x \in Marked |-> x]] \in [L -> F]
        BY <3>1
      <3>3. \A l \in L : ~(l < 0)
        BY LabelFacts DEF L
      <3> QED
        BY <3>2, <3>3
    <2>2. ASSUME NEW b \in Nat, b \in Good PROVE b + 1 \in Good
      <3>1. PICK m \in [L -> F] : \A l \in L : l < b => m[l] = Step(m, l)
        BY <2>2
      <3> DEFINE n == [l \in L |-> IF l = b THEN Step(m, l) ELSE m[l]]
      <3>2. n \in [L -> F]
        <4>1. \A l \in L : Step(m, l) \in F
          BY <1>2, <1>4, <3>1
        <4> QED
          BY <3>1, <4>1
      <3>3. ASSUME NEW l \in L, l < b + 1 PROVE n[l] = Step(n, l)
        <4>1. l \in Nat /\ sub(l) \subseteq L /\ \A k \in sub(l) : k \in Nat /\ k < l
          BY IndexFacts, LabelFacts DEF L
        <4>2. \A k \in sub(l) : n[k] = m[k]
          BY <3>3, <4>1
        <4>3. Step(n, l) = Step(m, l)
          BY <1>4, <3>1, <4>1, <4>2
        <4>4. n[l] = Step(m, l)
          BY <3>1, <3>3, <4>1
        <4> QED
          BY <4>3, <4>4
      <3> HIDE DEF n
      <3> QED
        BY <3>2, <3>3
    <2>3. Nat \subseteq Good
      <3> HIDE DEF Good
      <3> QED
        BY <2>1, <2>2, NatSetInduction
    <2>4. PICK b \in Nat : \A l \in L : l < b
      <3>1. CASE L = {}
        BY <3>1
      <3>2. CASE L # {}
        <4>1. IsFiniteSet(L) /\ L \subseteq Int /\ L \subseteq Nat
          BY LabelFacts DEF L
        <4>2. PICK top \in L : \A l \in L : top >= l
          BY <3>2, <4>1, Extremes
        <4>3. \A l \in L : l \in Nat
          BY <4>1
        <4>4. top + 1 \in Nat /\ \A l \in L : l < top + 1
          BY <4>2, <4>3
        <4> QED
          BY <4>4
      <3> QED
        BY <3>1, <3>2
    <2>5. PICK m \in [L -> F] : \A l \in L : m[l] = Step(m, l)
      BY <2>3, <2>4
    <2>6. IsMark(m)
      BY <2>5
    <2> QED
      BY <2>5, <2>6
  <1>6. \A l \in L : mark[l] = Step(mark, l)
    <2>1. IsMark(mark)
      BY <1>5
    <2> HIDE DEF mark
    <2> QED
      BY <2>1
  <1> HIDE DEF mark
  <1>7. \A l \in L : mark[l] \in F
    <2> DEFINE Good == {l \in L : mark[l] \in F}
    <2>1. \A l \in L : (\A k \in sub(l) : k \in Good) => l \in Good
      BY <1>4, <1>6
    <2>2. L \subseteq Good
      <3> HIDE DEF Good
      <3> QED
        BY <2>1, LabelInduction DEF L
    <2> QED
      BY <2>2
  <1> DEFINE Marks(l) == \A x \in Statuses(s) :
                           /\ mark[l][x] \in Statuses(s) /\ x \subseteq mark[l][x] /\ index(l) \in mark[l][x]
                           /\ \A d \in SUBSET L : l \in d /\ Closed(s, d) => mark[l][x] \subseteq x \union IndexOf(s, d)
  <1>8. ASSUME NEW l \in L, \A k \in sub(l) : Marks(k)
        PROVE  Marks(l)
    <2> SUFFICES ASSUME NEW x \in Statuses(s)
                 PROVE  /\ mark[l][x] \in Statuses(s) /\ x \subseteq mark[l][x] /\ index(l) \in mark[l][x]
                        /\ \A d \in SUBSET L : l \in d /\ Closed(s, d) => mark[l][x] \subseteq x \union IndexOf(s, d)
      OBVIOUS
    <2> DEFINE marked == MarkAll(mark, x, sub(l))
               ix == [k \in L |-> index(k)]
    <2>1. mark[l][x] = IF index(l) \in x THEN x ELSE {index(l)} \union marked
      <3>1. x \in Marked
        BY DEF Statuses
      <3> QED
        BY <1>3, <1>6, <3>1
    <2>2. /\ sub(l) \subseteq L /\ IsFiniteSet(sub(l)) /\ sub(l) \subseteq Int
          /\ \A k \in sub(l), y \in Statuses(s) : mark[k][y] \in Statuses(s)
      BY <1>2, <1>8
    <2>3. marked \in Statuses(s)
      <3> DEFINE A == Statuses(s)
                 sl == sub(l)
      <3>1. x \in A /\ IsFiniteSet(sl) /\ sl \subseteq Int /\ \A k \in sl, y \in A : mark[k][y] \in A
        BY <2>2
      <3> HIDE DEF A, sl
      <3>2. MarkAll(mark, x, sl) \in A
        BY <3>1, MarkAllFacts
      <3> QED
        BY <3>2 DEF A, sl
    <2>4. ASSUME NEW d \in SUBSET L, sub(l) \subseteq d, Closed(s, d)
          PROVE  x \subseteq marked /\ marked \subseteq x \union IndexOf(s, d) /\ \A k \in sub(l) : index(k) \in marked
      <3> DEFINE A == Statuses(s)
                 sl == sub(l)
                 B == IndexOf(s, d)
      <3>1. x \in A /\ IsFiniteSet(sl) /\ sl \subseteq Int /\ \A k \in sl, y \in A : mark[k][y] \in A
        BY <2>2
      <3>2. MarksWithin(mark, sl, A, B, ix)
        BY <1>8, <2>2, <2>4 DEF MarksWithin
      <3> HIDE DEF A, sl, B, ix
      <3>3. /\ x \subseteq MarkAll(mark, x, sl) /\ MarkAll(mark, x, sl) \subseteq x \union B
            /\ \A k \in sl : ix[k] \in MarkAll(mark, x, sl)
        BY <3>1, <3>2, MarkAllMarks
      <3> QED
        BY <2>2, <3>3 DEF sl, B, ix
    <2>5. x \subseteq marked /\ \A k \in sub(l) : index(k) \in marked
      <3>1. L \in SUBSET L /\ sub(l) \subseteq L /\ Closed(s, L)
        BY <1>2 DEF Closed, L
      <3> QED
        BY <2>4, <3>1
    <2>6. {index(l)} \union marked \in Statuses(s)
      <3>1. index(l) \in Nat /\ \A k \in L : index(k) = index(l) => k = l
        BY IndexFacts DEF L
      <3> QED
        BY <2>3, <2>5, <3>1 DEF Statuses, L
    <2>7. ASSUME NEW d \in SUBSET L, l \in d, Closed(s, d)
          PROVE  mark[l][x] \subseteq x \union IndexOf(s, d)
      <3>1. sub(l) \subseteq d /\ index(l) \in IndexOf(s, d)
        BY <2>7 DEF Closed, IndexOf
      <3> QED
        BY <2>1, <2>4, <2>7, <3>1
    <2> QED
      BY <2>1, <2>5, <2>6, <2>7
  <1>9. Marks(label)
    <2> DEFINE Good == {l \in L : Marks(l)}
    <2> HIDE DEF Marks
    <2>1. \A l \in L : (\A k \in sub(l) : k \in Good) => l \in Good
      BY <1>8
    <2>2. L \subseteq Good
      <3> HIDE DEF Good
      <3> QED
        BY <2>1, LabelInduction DEF L
    <2> QED
      BY <2>2 DEF L
  <1> QED
    BY <1>1, <1>9 DEF L

\* A new status holds the old one, and the indices of the rules whose conditions hold, and
\* of no others than those that these satisfy.
LEMMA NewStatusFacts ==
  ASSUME NEW s \in DOMAIN Scripts, NEW g \in GamesOf(s)
  PROVE  /\ NewStatus(g) \in Statuses(s)
         /\ g.status \subseteq NewStatus(g)
         /\ IndexOf(s, Held(g)) \subseteq NewStatus(g)
         /\ \A d \in SUBSET Labels(s) : Held(g) \subseteq d /\ Closed(s, d) =>
               NewStatus(g) \subseteq g.status \union IndexOf(s, d)
  <1> DEFINE L == Held(g)
             A == Statuses(s)
             m == SatisfyRule(s)
             ix == [k \in L |-> Rules[s][k].index]
  <1>1. g.script = s /\ g.status \in A
    BY DEF GamesOf
  <1>2. L \subseteq Labels(s)
    BY <1>1 DEF Held
  <1>3. IsFiniteSet(L) /\ L \subseteq Int
    BY <1>2, LabelFacts, FS_Subset
  <1>4. \A k \in L, x \in A : m[k][x] \in A
    BY <1>2, SatisfyRuleFacts
  <1>5. NewStatus(g) = MarkAll(m, g.status, L)
    BY <1>1 DEF NewStatus
  <1>6. ASSUME NEW d \in SUBSET Labels(s), L \subseteq d, Closed(s, d)
        PROVE  MarksWithin(m, L, A, IndexOf(s, d), ix)
    BY <1>2, <1>6, SatisfyRuleFacts DEF MarksWithin
  <1>7. Labels(s) \in SUBSET Labels(s) /\ L \subseteq Labels(s) /\ Closed(s, Labels(s))
    BY <1>2, IndexFacts DEF Closed
  <1>8. IndexOf(s, L) = {ix[k] : k \in L}
    BY DEF IndexOf
  <1> HIDE DEF L, A, m, ix
  <1>9. MarkAll(m, g.status, L) \in A
    BY <1>1, <1>3, <1>4, MarkAllFacts
  <1>10. \A d \in SUBSET Labels(s) : L \subseteq d /\ Closed(s, d) =>
            /\ g.status \subseteq MarkAll(m, g.status, L)
            /\ MarkAll(m, g.status, L) \subseteq g.status \union IndexOf(s, d)
            /\ \A k \in L : ix[k] \in MarkAll(m, g.status, L)
    <2> TAKE d \in SUBSET Labels(s)
    <2> HAVE L \subseteq d /\ Closed(s, d)
    <2>1. MarksWithin(m, L, A, IndexOf(s, d), ix)
      BY <1>6
    <2> DEFINE B == IndexOf(s, d)
    <2> HIDE DEF B
    <2>2. /\ g.status \subseteq MarkAll(m, g.status, L) /\ MarkAll(m, g.status, L) \subseteq g.status \union B
          /\ \A k \in L : ix[k] \in MarkAll(m, g.status, L)
      BY <1>1, <1>3, <1>4, <2>1, MarkAllMarks DEF B
    <2> QED
      BY <2>2 DEF B
  <1>11. /\ g.status \subseteq MarkAll(m, g.status, L)
         /\ \A k \in L : ix[k] \in MarkAll(m, g.status, L)
    BY <1>7, <1>10
  <1> QED
    BY <1>5, <1>8, <1>9, <1>10, <1>11 DEF L, A
-----------------------------------------------------------------------------
(* What evaluation, loading and an input make of a game.                   *)

\* Those that differ from a state by what Judge changes.
Judged(g) == {h \in GamesOf(g.script) :
    /\ \A field \in {"script", "step", "lastInput", "kidPosY"} : h[field] = g[field]
    /\ \A field \in DOMAIN g.emulator \ {"written"} : h.emulator[field] = g.emulator[field]}

LEMMA ValueFacts ==
  ASSUME NEW s \in DOMAIN Scripts, NEW g \in GamesOf(s)
  PROVE  /\ Game(g) = Scripts[s].game
         /\ \A p \in PropertiesRead(Scripts[s].game) : ValueOf(g, p) \in Int
  <1>1. /\ g.script = s /\ g.emulator.core \in CoresOf(s)
        /\ g.kidPosY \in Int /\ g.emulator.written \in Int
    BY DEF GamesOf, Games, Emulators
  <1>2. \A p \in PropertiesRead(Scripts[s].game) : Memory[g.emulator.core][p] \in Int
    BY <1>1, CoresAssumption
  <1>3. \A p \in PropertiesRead(Scripts[s].game) : ValueOf(g, p) \in Int
    BY <1>1, <1>2 DEF ValueOf
  <1> QED
    BY <1>1, <1>3 DEF Game

LEMMA KidPosYTyped ==
  ASSUME NEW y \in Int, NEW frame \in Int, NEW previous \in Int
  PROVE  KidPosY(y, frame, previous) \in Int
  BY DEF KidPosY, Byte

\* The height of the Kid depends on the core only; the other games have none.
Height(s, core, y) ==
    IF Scripts[s].game = PrinceOfPersia
      THEN KidPosY(Memory[core]["Kid Pos Y Raw"], Memory[core]["Kid Frame"], Memory[core]["Kid Previous Frame"])
      ELSE y

LEMMA DerivedTyped ==
  ASSUME NEW s \in DOMAIN Scripts, NEW g \in GamesOf(s)
  PROVE  /\ UpdateDerived[g] \in GamesOf(s)
         /\ UpdateDerived[g].kidPosY = Height(s, g.emulator.core, g.kidPosY)
         /\ \A field \in DOMAIN g \ {"kidPosY"} : UpdateDerived[g][field] = g[field]
  <1>1. g \in Games
    BY DEF GamesOf
  <1>0. Game(g) = Scripts[s].game
    BY ValueFacts
  <1>2. CASE Game(g) # PrinceOfPersia
    BY <1>0, <1>1, <1>2 DEF UpdateDerived, Height
  <1>3. CASE Game(g) = PrinceOfPersia
    <2> DEFINE y == KidPosY(ValueOf(g, "Kid Pos Y Raw"), ValueOf(g, "Kid Frame"), ValueOf(g, "Kid Previous Frame"))
    <2>1. {"Kid Pos Y Raw", "Kid Frame", "Kid Previous Frame"} \subseteq PropertiesRead(PrinceOfPersia)
      BY DEF PropertiesRead, Attracted, PrinceOfPersia, Sprilo, AnotherWorld, KidMagnets
    <2>2. y \in Int
      <3>1. /\ ValueOf(g, "Kid Pos Y Raw") \in Int /\ ValueOf(g, "Kid Frame") \in Int
            /\ ValueOf(g, "Kid Previous Frame") \in Int
        BY <1>3, <2>1, ValueFacts
      <3> QED
        BY <3>1, KidPosYTyped
    <2>3. UpdateDerived[g] = [g EXCEPT !.kidPosY = y]
      BY <1>1, <1>3 DEF UpdateDerived
    <2>5. y = Height(s, g.emulator.core, g.kidPosY)
      <3>1. \A p : p \notin {"Lap Progress", "Kid Pos Y"} => ValueOf(g, p) = Memory[g.emulator.core][p]
        BY Zenon DEF ValueOf
      <3>2. {"Kid Pos Y Raw", "Kid Frame", "Kid Previous Frame"} \intersect {"Lap Progress", "Kid Pos Y"} = {}
        OBVIOUS
      <3> QED
        BY <1>0, <1>3, <3>1, <3>2 DEF Height
    <2> HIDE DEF y
    <2>4. [g EXCEPT !.kidPosY = y] \in GamesOf(s)
      BY <2>2 DEF GamesOf, Games
    <2>6. [g EXCEPT !.kidPosY = y].kidPosY = y
      BY <1>1 DEF Games
    <2> QED
      BY <1>1, <2>3, <2>4, <2>5, <2>6 DEF Games
  <1> QED
    BY <1>2, <1>3

LEMMA JudgedFurther ==
  ASSUME NEW s \in DOMAIN Scripts, NEW g \in GamesOf(s)
  PROVE  /\ g \in Judged(g) /\ Acted(g) \subseteq Judged(g)
         /\ \A h \in Judged(g) : h \in GamesOf(s) /\ Judged(h) \subseteq Judged(g)
  <1>1. g.script = s /\ DOMAIN g = DOMAIN g /\ {"script", "step", "lastInput", "kidPosY"} \subseteq DOMAIN g
    BY DEF GamesOf, Games
  <1>2. g \in Judged(g)
    BY <1>1 DEF Judged
  <1>3. Acted(g) \subseteq Judged(g)
    BY <1>1 DEF Acted, Judged
  <1>4. ASSUME NEW h \in Judged(g), NEW k \in Judged(h) PROVE h \in GamesOf(s) /\ k \in Judged(g)
    <2>1. h \in GamesOf(s) /\ h.script = s /\ k \in GamesOf(s)
      BY <1>1, <1>4 DEF Judged, GamesOf
    <2>2. DOMAIN h.emulator = DOMAIN g.emulator
      BY <2>1 DEF GamesOf, Games, Emulators
    <2>3. \A field \in DOMAIN g.emulator \ {"written"} : k.emulator[field] = g.emulator[field]
      BY <1>4, <2>2 DEF Judged
    <2>4. \A field \in {"script", "step", "lastInput", "kidPosY"} : k[field] = g[field]
      BY <1>4 DEF Judged
    <2> QED
      BY <1>1, <2>1, <2>3, <2>4 DEF Judged
  <1>5. \A h \in Judged(g) : h \in GamesOf(s)
    BY <1>1 DEF Judged
  <1> QED
    BY <1>2, <1>3, <1>4, <1>5

LEMMA ResetTyped ==
  ASSUME NEW s \in DOMAIN Scripts, NEW g \in GamesOf(s)
  PROVE  /\ ResetActions(g) \in Acted(g)
         /\ [ResetActions(g) EXCEPT !.status = NewStatus(g)] \in Judged(g)
  <1> DEFINE none == [m \in DOMAIN g.magnets |-> IF Game(g) = PrinceOfPersia
                                                   THEN [g.magnets[m] EXCEPT !.intensity = 0] ELSE NoMagnet]
  <1>1. none \in [Magnets(Scripts[s].game) -> Magnet]
    BY DEF GamesOf, Games, Magnet, NoMagnet
  <1>2. ResetActions(g) = [g EXCEPT !.magnets = none, !.stopped = FALSE]
    BY DEF ResetActions, GamesOf, Games
  <1>3. Magnets(Scripts[s].game) \in {Magnets(Sprilo), Magnets(PrinceOfPersia)}
    BY MagnetsOf
  <1>4. NewStatus(g) \in Statuses(s) /\ Statuses(s) \subseteq SUBSET Nat
    BY NewStatusFacts DEF Statuses
  <1> HIDE DEF none
  <1>5. none \in [Magnets(Sprilo) -> Magnet] \union [Magnets(PrinceOfPersia) -> Magnet]
    BY <1>1, <1>3
  <1> DEFINE r == [g EXCEPT !.magnets = none, !.stopped = FALSE]
  <1>6. r \in Games
    BY <1>5 DEF GamesOf, Games
  <1>7. r \in GamesOf(s)
    BY <1>1, <1>6 DEF GamesOf, Games
  <1>8. [r EXCEPT !.status = NewStatus(g)] \in GamesOf(s)
    <2>1. [r EXCEPT !.status = NewStatus(g)] \in Games
      BY <1>4, <1>6 DEF Games
    <2> QED
      BY <1>4, <1>7, <2>1 DEF GamesOf, Games
  <1>9. ResetActions(g) \in Acted(g)
    BY <1>2, <1>7 DEF Acted, GamesOf, Games
  <1>10. [r EXCEPT !.status = NewStatus(g)] \in Judged(g)
    BY <1>8 DEF Judged, GamesOf, Games
  <1> QED
    BY <1>2, <1>9, <1>10

LEMMA DistanceTyped ==
  ASSUME NEW s \in DOMAIN Scripts, NEW g \in GamesOf(s)
  PROVE  /\ MeasureDistance[g] \in Judged(g)
         /\ \A field \in DOMAIN g \ {"distance"} : MeasureDistance[g][field] = g[field]
  <1>1. g \in Games /\ Game(g) = Scripts[s].game
    BY ValueFacts DEF GamesOf
  <1>2. CASE Game(g) = PrinceOfPersia
    BY <1>1, <1>2, JudgedFurther DEF MeasureDistance
  <1>3. CASE Game(g) # PrinceOfPersia
    <2>1. Game(g) \in {Sprilo, AnotherWorld} /\ DOMAIN g.magnets = {"Set Point Magnet"}
      BY <1>1, <1>3, MagnetsOf DEF GamesOf
    <2>2. PosX[Game(g)] \in PropertiesRead(Game(g))
      BY <2>1 DEF PosX, PropertiesRead, Sprilo, AnotherWorld, PrinceOfPersia
    <2> DEFINE x == g.magnets["Set Point Magnet"].position
               v == ValueOf(g, PosX[Game(g)])
               d == Abs(x - v)
    <2>3. v \in Int
      BY <1>1, <2>2, ValueFacts
    <2>4. x \in Int
      BY <2>1 DEF GamesOf, Games, Magnet
    <2>5. MeasureDistance[g] = [g EXCEPT !.distance = d]
      BY <1>1, <1>3 DEF MeasureDistance
    <2> HIDE DEF x, v
    <2>6. d \in Nat
      BY <2>3, <2>4 DEF Abs
    <2> HIDE DEF d
    <2>7. [g EXCEPT !.distance = d] \in GamesOf(s)
      BY <2>6 DEF GamesOf, Games
    <2> QED
      BY <2>5, <2>7 DEF Judged, GamesOf, Games
  <1> QED
    BY <1>2, <1>3

LEMMA EvaluatedTyped ==
  ASSUME NEW s \in DOMAIN Scripts, NEW g \in GamesOf(s)
  PROVE  /\ EvaluateRules[g] \in Judged(g)
         /\ EvaluateRules[g].status = NewStatus(g)
  <1> DEFINE r == [ResetActions(g) EXCEPT !.status = NewStatus(g)]
  <1>1. r \in Judged(g) /\ r \in GamesOf(s)
    BY ResetTyped, JudgedFurther
  <1>2. r.status = NewStatus(g)
    BY DEF ResetActions, GamesOf, Games
  <1>3. EvaluateRules[g] = MeasureDistance[RunRuleActions(r)]
    BY DEF EvaluateRules, GamesOf
  <1> HIDE DEF r
  <1>4. RunRuleActions(r) \in Acted(r)
    BY <1>1, RulesActed
  <1>5. RunRuleActions(r) \in Judged(g) /\ RunRuleActions(r) \in GamesOf(s)
    BY <1>1, <1>4, JudgedFurther
  <1>6. RunRuleActions(r).status = NewStatus(g)
    BY <1>1, <1>2, <1>4 DEF Acted, GamesOf, Games
  <1> DEFINE q == RunRuleActions(r)
  <1> HIDE DEF q
  <1>7. q \in GamesOf(s) /\ q \in Judged(g) /\ q.status = NewStatus(g)
    BY <1>5, <1>6 DEF q
  <1>8. MeasureDistance[q] \in Judged(q) /\ MeasureDistance[q].status = q.status
    BY <1>7, DistanceTyped DEF GamesOf, Games
  <1>9. MeasureDistance[q] \in Judged(g)
    BY <1>7, <1>8, JudgedFurther
  <1> QED
    BY <1>3, <1>7, <1>8, <1>9 DEF q

LEMMA TypeTyped ==
  ASSUME NEW s \in DOMAIN Scripts, NEW g \in GamesOf(s)
  PROVE  /\ UpdateGameStateType[g] \in Judged(g)
         /\ \A field \in DOMAIN g \ {"level", "tolerance", "type"} : UpdateGameStateType[g][field] = g[field]
  <1> DEFINE rules == Rules[s]
             checkpoints == {l \in Satisfied(g) : rules[l].checkpoint}
             ends == {l \in Satisfied(g) : rules[l].win \/ rules[l].fail}
             level == Cardinality(checkpoints)
             tolerance == IF checkpoints = {} THEN g.tolerance ELSE rules[Max(checkpoints)].tolerance
             type == IF ends = {} THEN "normal"
                     ELSE IF rules[Max(ends)].fail THEN "fail" ELSE "win"
  <1>1. g \in Games /\ g.script = s
    BY DEF GamesOf
  <1>2. UpdateGameStateType[g] = [g EXCEPT !.level = level, !.tolerance = tolerance, !.type = type]
    BY <1>1 DEF UpdateGameStateType
  <1>3. checkpoints \in SUBSET Labels(s)
    BY <1>1 DEF Satisfied
  <1>4. level \in Nat
    BY <1>3, LabelFacts, FS_Subset, FS_CardinalityType
  <1>5. tolerance \in Nat
    <2>1. CASE checkpoints = {}
      BY <1>1, <2>1 DEF Games
    <2>2. CASE checkpoints # {}
      <3>1. Max(checkpoints) \in Labels(s)
        BY <1>3, <2>2, LabelFacts
      <3>2. rules[Max(checkpoints)] \in RuleOf(s, Max(checkpoints))
        BY <3>1, RuleTyped
      <3>3. rules[Max(checkpoints)].tolerance \in Nat
        BY <3>2 DEF RuleOf
      <3> QED
        BY <2>2, <3>3
    <2> QED
      BY <2>1, <2>2
  <1>6. type \in Types
    BY DEF Types
  <1> HIDE DEF level, tolerance, type
  <1>7. [g EXCEPT !.level = level, !.tolerance = tolerance, !.type = type] \in GamesOf(s)
    BY <1>4, <1>5, <1>6 DEF GamesOf, Games
  <1> QED
    BY <1>1, <1>2, <1>7 DEF Judged, GamesOf, Games

LEMMA GameRewardTyped ==
  ASSUME NEW s \in DOMAIN Scripts, NEW g \in GamesOf(s)
  PROVE  GameReward(g) \in Int
  <1>1. g \in Games /\ Game(g) = Scripts[s].game /\ DOMAIN g.magnets = Magnets(Game(g))
    BY ValueFacts DEF GamesOf
  <1>2. \A m \in DOMAIN g.magnets : g.magnets[m].intensity \in Int /\ g.magnets[m].position \in Int
    BY <1>1 DEF Games, Magnet
  <1>3. g.distance \in Int /\ g.lastInput \in Int /\ g.emulator.written \in Int /\ g.stopped \in BOOLEAN
    BY <1>1 DEF Games, Emulators
  <1>4. \A x, y \in Int : x * y \in Int /\ x + y \in Int /\ -x \in Int /\ x - y \in Int
    OBVIOUS
  <1>5. /\ \A x \in Int : Abs(x) \in Int
        /\ LastInputReward \in Int
    BY RewardAssumption DEF Abs
  <1>6. CASE Game(g) # PrinceOfPersia
    <2>1. DOMAIN g.magnets = {"Set Point Magnet"}
      BY <1>1, <1>6, MagnetsOf
    <2>2. g.magnets["Set Point Magnet"].intensity \in Int
      BY <1>2, <2>1
    <2>3. Far(g) \in Int
      BY <1>3, <1>4, <2>2, Zenon DEF Far
    <2>4. LastInputReward * g.lastInput \in Int /\ -Far(g) \in Int
      BY <1>3, <1>4, <1>5, <2>3
    <2>5. SpriloReward(g) \in Int
      BY <1>3, <2>3, <2>4 DEF SpriloReward
    <2>6. Game(g) = Sprilo \/ Game(g) = AnotherWorld
      BY <1>1, <1>6, MagnetsOf
    <2> QED
      BY <2>4, <2>5, <2>6, MagnetsOf DEF GameReward
  <1>7. CASE Game(g) = PrinceOfPersia
    <2>1. /\ DOMAIN g.magnets = DOMAIN Attracted \union Weighing
          /\ \A m \in DOMAIN g.magnets : g.magnets[m].intensity \in Int /\ g.magnets[m].position \in Int
      BY <1>1, <1>2, <1>7 DEF Magnets
    <2>2. \A m \in Weighing : g.magnets[m].intensity \in Int
      BY <2>1
    <2>3. /\ \A m \in DOMAIN Attracted : ValueOf(g, Attracted[m].at) \in Int
          /\ \A p \in {"Kid Frame", "Kid Previous Frame", "Kid Direction", "Level Door Open",
                       "United With Shadow", "Guard Max HP", "Guard Current Hp"} : ValueOf(g, p) \in Int
      BY <1>1, <1>7, ValueFacts DEF PropertiesRead, PrinceOfPersia, Sprilo, AnotherWorld
    <2>4. SumFunction(Near(g)) \in Int
      <3>1. IsFiniteSet(DOMAIN Near(g)) /\ DOMAIN Near(g) = DOMAIN Attracted
        BY Attracting DEF Near
      <3>2. ASSUME NEW m \in DOMAIN Attracted PROVE Near(g)[m] \in Int
        <4>1. /\ g.magnets[m].intensity \in Int /\ g.magnets[m].position \in Int
              /\ ValueOf(g, Attracted[m].at) \in Int
          BY <2>1, <2>3
        <4>2. 255 - Abs(g.magnets[m].position - ValueOf(g, Attracted[m].at)) \in Int
          BY <1>4, <1>5, <4>1
        <4>3. g.magnets[m].intensity * (255 - Abs(g.magnets[m].position - ValueOf(g, Attracted[m].at))) \in Int
          BY <1>4, <4>1, <4>2
        <4> QED
          BY <4>3 DEF Near
      <3> QED
        BY <3>1, <3>2, SumIsInt
    <2>5. \A x, y \in Int : Turned(x, y) \in Int /\ Climbed(x) \in Int
      BY DEF Turned, Climbed
    <2>7. /\ ValueOf(g, "Kid Frame") \in Int /\ ValueOf(g, "Kid Direction") \in Int
          /\ ValueOf(g, "Level Door Open") \in Int /\ ValueOf(g, "United With Shadow") \in Int
          /\ ValueOf(g, "Guard Max HP") \in Int /\ ValueOf(g, "Guard Current Hp") \in Int
      BY <2>3, Zenon
    <2>8. /\ g.magnets["Set Kid Direction Magnet"].intensity \in Int
          /\ g.magnets["Set Level Door Open Magnet"].intensity \in Int
          /\ g.magnets["Set United With Shadow Magnet"].intensity \in Int
          /\ g.magnets["Set Guard HP Magnet"].intensity \in Int
      BY <2>2, Zenon DEF Weighing
    <2>9. /\ Turned(ValueOf(g, "Kid Direction"), g.magnets["Set Kid Direction Magnet"].intensity) \in Int
          /\ Climbed(ValueOf(g, "Kid Frame")) \in Int
      BY <2>5, <2>7, <2>8, Zenon
    <2> DEFINE a == Turned(ValueOf(g, "Kid Direction"), g.magnets["Set Kid Direction Magnet"].intensity)
               b == Climbed(ValueOf(g, "Kid Frame"))
               c == ValueOf(g, "Level Door Open")
               d == g.magnets["Set Level Door Open Magnet"].intensity
               e == ValueOf(g, "United With Shadow")
               f == g.magnets["Set United With Shadow Magnet"].intensity
               h == ValueOf(g, "Guard Max HP")
               i == ValueOf(g, "Guard Current Hp")
               j == g.magnets["Set Guard HP Magnet"].intensity
    <2>10. PrinceReward(g) = SumFunction(Near(g)) + a + b + c * d + e * f + (h - i) * j
      BY Zenon DEF PrinceReward
    <2>11. a \in Int /\ b \in Int /\ c \in Int /\ d \in Int /\ e \in Int /\ f \in Int /\ h \in Int /\ i \in Int /\ j \in Int
      BY <2>7, <2>8, <2>9, Zenon
    <2> HIDE DEF a, b, c, d, e, f, h, i, j
    <2>12. c * d \in Int /\ e * f \in Int /\ (h - i) * j \in Int
      BY <1>4, <2>11
    <2>13. SumFunction(Near(g)) + a + b + c * d + e * f + (h - i) * j \in Int
      BY <2>4, <2>11, <2>12
    <2> QED
      BY <1>7, <2>10, <2>13, MagnetsOf DEF GameReward
  <1> QED
    BY <1>6, <1>7

LEMMA RewardTyped ==
  ASSUME NEW s \in DOMAIN Scripts, NEW g \in GamesOf(s)
  PROVE  /\ UpdateReward[g] \in Judged(g)
         /\ \A field \in DOMAIN g \ {"reward"} : UpdateReward[g][field] = g[field]
  <1> DEFINE rewards == [l \in Satisfied(g) |-> Rules[g.script][l].reward]
             reward == SumFunction(rewards) + GameReward(g)
  <1>1. g \in Games /\ g.script = s
    BY DEF GamesOf
  <1>2. Satisfied(g) \subseteq Labels(s) /\ IsFiniteSet(Satisfied(g))
    <2>1. Satisfied(g) \subseteq Labels(s)
      BY <1>1 DEF Satisfied
    <2> QED
      BY <2>1, LabelFacts, FS_Subset
  <1>3. IsFiniteSet(DOMAIN rewards) /\ \A l \in DOMAIN rewards : rewards[l] \in Int
    BY <1>1, <1>2, RuleTyped DEF RuleOf
  <1>4. UpdateReward[g] = [g EXCEPT !.reward = reward]
    BY <1>1 DEF UpdateReward
  <1> HIDE DEF rewards
  <1>5. reward \in Int
    BY <1>3, SumIsInt, GameRewardTyped
  <1> HIDE DEF reward
  <1>6. [g EXCEPT !.reward = reward] \in GamesOf(s)
    BY <1>5 DEF GamesOf, Games
  <1> QED
    BY <1>1, <1>4, <1>6 DEF Judged, GamesOf, Games

LEMMA JudgeTyped ==
  ASSUME NEW s \in DOMAIN Scripts, NEW g \in GamesOf(s)
  PROVE  /\ Judge(g) \in Judged(g)
         /\ Judge(g).status = NewStatus(g)
  <1> DEFINE e == EvaluateRules[g]
             t == UpdateGameStateType[e]
  <1>1. e \in GamesOf(s) /\ e \in Judged(g) /\ e.status = NewStatus(g)
    BY EvaluatedTyped, JudgedFurther
  <1> HIDE DEF e
  <1>2. t \in Judged(e) /\ t.status = e.status
    BY <1>1, TypeTyped DEF GamesOf, Games
  <1>3. t \in GamesOf(s) /\ t \in Judged(g)
    BY <1>1, <1>2, JudgedFurther
  <1> HIDE DEF t
  <1>4. UpdateReward[t] \in Judged(t) /\ UpdateReward[t].status = t.status
    BY <1>3, RewardTyped DEF GamesOf, Games
  <1>5. UpdateReward[t] \in Judged(g)
    BY <1>3, <1>4, JudgedFurther
  <1> QED
    BY <1>1, <1>2, <1>4, <1>5 DEF Judge, t, e

LEMMA EmulatorAdvanced ==
  ASSUME NEW e \in Emulators, NEW input, AdvanceCore[e.core][input] \in Cores
  PROVE  /\ AdvanceEmulator(e, input) \in Emulators
         /\ AdvanceEmulator(e, input).core = AdvanceCore[e.core][input]
         /\ AdvanceEmulator(e, input).block = 1 - e.block
         /\ AdvanceEmulator(e, input).frame = IF e.rendering THEN AdvanceCore[e.core][input] ELSE e.frame
         /\ \A field \in DOMAIN e \ {"core", "block", "frame"} : AdvanceEmulator(e, input)[field] = e[field]
  <1> DEFINE core == AdvanceCore[e.core][input]
             block == 1 - e.block
             frame == IF e.rendering THEN core ELSE e.frame
  <1>1. AdvanceEmulator(e, input) = [e EXCEPT !.core = core, !.block = block, !.frame = frame]
    BY DEF AdvanceEmulator
  <1>2. core \in Cores /\ block \in {0, 1} /\ frame \in Cores \union {NoPicture}
    BY DEF Emulators
  <1> HIDE DEF core, block, frame
  <1>3. [e EXCEPT !.core = core, !.block = block, !.frame = frame] \in Emulators
    BY <1>2 DEF Emulators
  <1> QED
    BY <1>1, <1>3 DEF Emulators, core, block, frame

\* An input changes the emulator and what a game counts; the rest is as it was.
StepAfter(g) == IF Game(g) = Sprilo THEN g.step + 1 ELSE g.step
LastInputAfter(g, input) == IF Game(g) = Sprilo /\ input # "|..|........|" THEN g.step ELSE g.lastInput
LEMMA AdvanceTyped ==
  ASSUME NEW s \in DOMAIN Scripts, NEW g \in GamesOf(s), NEW input \in InputsGiven(s)
  PROVE  /\ AdvanceGame(g, input) \in GamesOf(s)
         /\ AdvanceGame(g, input).emulator = AdvanceEmulator(g.emulator, input)
         /\ AdvanceGame(g, input).kidPosY = Height(s, AdvanceGame(g, input).emulator.core, g.kidPosY)
         /\ AdvanceGame(g, input).step = StepAfter(g) /\ AdvanceGame(g, input).lastInput = LastInputAfter(g, input)
         /\ \A field \in DOMAIN g \ {"emulator", "step", "lastInput", "kidPosY"} :
               AdvanceGame(g, input)[field] = g[field]
  <1> DEFINE e == AdvanceEmulator(g.emulator, input)
             last == LastInputAfter(g, input)
             step == StepAfter(g)
             h == [g EXCEPT !.emulator = e, !.lastInput = last, !.step = step]
  <1>1. g \in Games
    BY DEF GamesOf
  <1>2. AdvanceImpl(input)[g] = h
    BY <1>1, Zenon DEF AdvanceImpl, LastInputAfter, StepAfter
  <1>3. last \in Nat /\ step \in Nat
    <2>1. g.step \in Nat /\ g.lastInput \in Nat
      BY <1>1 DEF Games
    <2>2. step \in Nat
      BY <2>1 DEF StepAfter
    <2>3. last \in {g.step, g.lastInput}
      BY Zenon DEF LastInputAfter
    <2> HIDE DEF last
    <2> QED
      BY <2>1, <2>2, <2>3
  <1>4. /\ e \in Emulators /\ e.core \in CoresOf(s) /\ e.enabled = g.emulator.enabled
    <2>1. /\ g.emulator \in Emulators /\ g.emulator.core \in CoresOf(s)
      BY DEF GamesOf, Games
    <2>2. AdvanceCore[g.emulator.core][input] \in CoresOf(s)
      BY <2>1, CoresAssumption
    <2>3. CoresOf(s) \subseteq Cores
      BY DEF CoresOf
    <2> QED
      BY <2>1, <2>2, <2>3, EmulatorAdvanced DEF Emulators
  <1> HIDE DEF e, last, step
  <1>5. h \in Games
    BY <1>1, <1>3, <1>4 DEF Games
  <1>6. h \in GamesOf(s)
    BY <1>4, <1>5 DEF GamesOf, Games
  <1>7. /\ h.emulator = e /\ h.kidPosY = g.kidPosY /\ h.step = step /\ h.lastInput = last
        /\ \A field \in DOMAIN g \ {"emulator", "step", "lastInput", "kidPosY"} : h[field] = g[field]
    BY <1>1 DEF Games
  <1>8. DOMAIN h = DOMAIN g
    OBVIOUS
  <1> HIDE DEF h
  <1>9. AdvanceGame(g, input) = UpdateDerived[h]
    BY <1>2 DEF AdvanceGame
  <1>10. /\ UpdateDerived[h] \in GamesOf(s) /\ UpdateDerived[h].kidPosY = Height(s, h.emulator.core, h.kidPosY)
         /\ \A field \in DOMAIN h \ {"kidPosY"} : UpdateDerived[h][field] = h[field]
    BY <1>6, DerivedTyped
  <1>11. {"emulator", "step", "lastInput"} \subseteq DOMAIN h
    BY <1>5 DEF Games
  <1> QED
    BY <1>7, <1>8, <1>9, <1>10, <1>11 DEF e, step, last

\* Computing the hash changes at most what was drawn.
LEMMA HashTyped ==
  ASSUME NEW s \in DOMAIN Scripts, NEW g \in GamesOf(s)
  PROVE  /\ ComputeHash(g) \in GamesOf(s)
         /\ Game(g) # AnotherWorld => ComputeHash(g) = g
         /\ \A field \in DOMAIN g \ {"emulator"} : ComputeHash(g)[field] = g[field]
         /\ \A field \in DOMAIN g.emulator \ {"frame"} : ComputeHash(g).emulator[field] = g.emulator[field]
  <1>1. g \in Games /\ g.emulator \in Emulators /\ g.emulator.core \in CoresOf(s) /\ Game(g) = Scripts[s].game
    BY ValueFacts DEF GamesOf, Games
  <1>2. CASE Game(g) # AnotherWorld
    BY <1>1, <1>2 DEF ComputeHash
  <1>3. CASE Game(g) = AnotherWorld
    <2> DEFINE input == "....."
               e == DeserializeEmulator(AdvanceEmulator(g.emulator, input), SerializeEmulator(g.emulator))
    <2>1. g.emulator.enabled
      BY <1>1, <1>3, HashAssumption DEF GamesOf
    <2>2. ComputeHash(g) = [g EXCEPT !.emulator = e]
      BY <1>3, Zenon DEF ComputeHash
    <2>3. input \in InputsGiven(s)
      BY <1>1, <1>3, Zenon DEF InputsGiven
    <2> HIDE DEF input
    <2>4. AdvanceCore[g.emulator.core][input] \in Cores
      <3>1. AdvanceCore[g.emulator.core][input] \in CoresOf(s)
        BY <1>1, <2>3, CoresAssumption
      <3> QED
        BY <3>1 DEF CoresOf
    <2>5. /\ SerializeEmulator(g.emulator) = [core |-> g.emulator.core, written |-> g.emulator.written,
                                              block |-> g.emulator.block]
          /\ AdvanceEmulator(g.emulator, input) \in Emulators
      BY <1>1, <2>1, <2>4, EmulatorAdvanced DEF SerializeEmulator
    <2>6. /\ \A field \in {"enabled", "rendering", "curBlit"} :
                AdvanceEmulator(g.emulator, input)[field] = g.emulator[field]
      BY <1>1, <2>4, EmulatorAdvanced DEF Emulators
    <2>7. e \in Emulators /\ \A field \in DOMAIN g.emulator \ {"frame"} : e[field] = g.emulator[field]
      BY <1>1, <2>5, <2>6 DEF DeserializeEmulator, Restored, Emulators
    <2> HIDE DEF e
    <2>8. [g EXCEPT !.emulator = e] \in Games
      BY <1>1, <2>7 DEF Games
    <2>9. [g EXCEPT !.emulator = e] \in GamesOf(s)
      BY <1>1, <2>1, <2>7, <2>8 DEF GamesOf, Games, Emulators
    <2> QED
      BY <1>1, <1>3, <2>2, <2>7, <2>9 DEF Games
  <1> QED
    BY <1>2, <1>3

\* What may be stored for a game of a script.
StoredGamesOf(s) == {stored \in StoredGames : stored.emulator.core \in CoresOf(s) /\ stored.status \in Statuses(s)}

LEMMA SerializedTyped ==
  ASSUME NEW s \in DOMAIN Scripts, NEW g \in GamesOf(s)
  PROVE  /\ SerializeGame(g) \in StoredGamesOf(s)
         /\ SerializeEmulator(g.emulator).core = g.emulator.core
         /\ SerializeEmulator(g.emulator).written = g.emulator.written
  <1>1. g \in Games /\ g.emulator \in Emulators /\ g.emulator.core \in CoresOf(s) /\ g.status \in Statuses(s)
    BY DEF GamesOf, Games
  <1>2. /\ SerializeEmulator(g.emulator) \in StoredEmulators
        /\ SerializeEmulator(g.emulator).core = g.emulator.core
        /\ SerializeEmulator(g.emulator).written = g.emulator.written
    BY <1>1 DEF SerializeEmulator, StoredEmulators, Emulators
  <1> QED
    BY <1>1, <1>2 DEF SerializeGame, StoredGamesOf, StoredGames, Games

LEMMA RestoredEmulator ==
  ASSUME NEW e \in Emulators, NEW stored \in StoredEmulators
  PROVE  /\ DeserializeEmulator(e, stored) \in Emulators
         /\ DeserializeEmulator(e, stored).core = stored.core
         /\ DeserializeEmulator(e, stored).written = stored.written
         /\ DeserializeEmulator(e, stored).block = IF "block" \in DOMAIN stored THEN stored.block ELSE e.block
         /\ \A field \in {"enabled", "rendering", "frame", "curBlit"} : DeserializeEmulator(e, stored)[field] = e[field]
  <1> DEFINE r == DeserializeEmulator(e, stored)
  <1>1. stored.core \in Cores /\ stored.written \in 0 .. Byte - 1
    BY DEF StoredEmulators
  <1>2. /\ DOMAIN e = {"core", "written", "block", "enabled", "rendering", "frame", "curBlit"}
        /\ e \in Emulators
    BY DEF Emulators
  <1>3. \/ DOMAIN stored = {"core", "written", "block"} /\ stored.block \in {0, 1}
        \/ DOMAIN stored = {"core", "written"}
    BY DEF StoredEmulators
  <1>4. r = [core |-> r.core, written |-> r.written, block |-> r.block, enabled |-> r.enabled,
             rendering |-> r.rendering, frame |-> r.frame, curBlit |-> r.curBlit]
    BY <1>2 DEF DeserializeEmulator, Restored
  <1>5. /\ r.core = stored.core /\ r.written = stored.written
        /\ r.block = IF "block" \in DOMAIN stored THEN stored.block ELSE e.block
        /\ \A field \in {"enabled", "rendering", "frame", "curBlit"} : r[field] = e[field]
    BY <1>2, <1>3 DEF DeserializeEmulator, Restored
  <1> HIDE DEF r
  <1>6. r.block \in {0, 1}
    BY <1>3, <1>5 DEF Emulators
  <1>7. r \in Emulators
    BY <1>1, <1>4, <1>5, <1>6 DEF Emulators
  <1> QED
    BY <1>5, <1>7 DEF r

\* The emulator's and the members that are stored are those stored.
StoredMembers == {"step", "lastInput", "reward", "level", "type", "status"}
LEMMA LoadedTyped ==
  ASSUME NEW s \in DOMAIN Scripts, NEW g \in GamesOf(s), NEW stored \in StoredGamesOf(s)
  PROVE  /\ Loaded(g, stored) \in GamesOf(s)
         /\ Loaded(g, stored).emulator = DeserializeEmulator(g.emulator, stored.emulator)
         /\ Loaded(g, stored).kidPosY = Height(s, stored.emulator.core, g.kidPosY)
         /\ \A field \in StoredMembers : Loaded(g, stored)[field] = stored[field]
         /\ \A field \in {"script", "magnets", "stopped", "distance", "tolerance"} :
               Loaded(g, stored)[field] = g[field]
  <1> DEFINE e == DeserializeEmulator(g.emulator, stored.emulator)
             h == Restored(g, [stored EXCEPT !.emulator = e])
  <1>1. g \in Games /\ g.emulator \in Emulators
    BY DEF GamesOf, Games
  <1>2. /\ stored \in StoredGames /\ stored.emulator \in StoredEmulators
        /\ stored.emulator.core \in CoresOf(s) /\ stored.status \in Statuses(s)
    BY DEF StoredGamesOf, StoredGames
  <1>3. /\ e \in Emulators /\ e.core \in CoresOf(s) /\ e.core = stored.emulator.core
        /\ e.enabled = g.emulator.enabled
    BY <1>1, <1>2, RestoredEmulator
  <1> HIDE DEF e
  <1>4. h = [script |-> g.script, emulator |-> e, step |-> stored.step, lastInput |-> stored.lastInput,
             magnets |-> g.magnets, stopped |-> g.stopped, distance |-> g.distance, kidPosY |-> g.kidPosY,
             status |-> stored.status, type |-> stored.type, level |-> stored.level,
             tolerance |-> g.tolerance, reward |-> stored.reward]
    <2>1. DOMAIN stored = {"emulator"} \union StoredMembers
      BY <1>2 DEF StoredGames, StoredMembers
    <2>2. DOMAIN g = {"script", "magnets", "stopped", "distance", "kidPosY", "tolerance"} \union DOMAIN stored
      BY <1>1, <2>1 DEF Games, StoredMembers
    <2>3. h = [field \in DOMAIN g |-> IF field = "emulator" THEN e
                                     ELSE IF field \in StoredMembers THEN stored[field] ELSE g[field]]
      BY <2>1, <2>2 DEF Restored, StoredMembers
    <2> HIDE DEF h
    <2> QED
      BY <2>1, <2>2, <2>3 DEF StoredMembers
  <1>5. h \in Games
    BY <1>1, <1>2, <1>3, <1>4 DEF Games, StoredGames
  <1>6. h \in GamesOf(s)
    BY <1>2, <1>3, <1>4, <1>5 DEF GamesOf
  <1>7. /\ h.emulator = e /\ h.kidPosY = g.kidPosY /\ \A field \in StoredMembers : h[field] = stored[field]
        /\ \A field \in {"script", "magnets", "stopped", "distance", "tolerance"} : h[field] = g[field]
    BY <1>4 DEF StoredMembers
  <1>8. Loaded(g, stored) = UpdateDerived[h]
    BY DEF Loaded, e
  <1> HIDE DEF h
  <1>9. /\ UpdateDerived[h] \in GamesOf(s) /\ UpdateDerived[h].kidPosY = Height(s, h.emulator.core, h.kidPosY)
        /\ \A field \in DOMAIN h \ {"kidPosY"} : UpdateDerived[h][field] = h[field]
    BY <1>6, DerivedTyped
  <1>10. {"emulator", "script", "magnets", "stopped", "distance", "tolerance"} \union StoredMembers \subseteq DOMAIN h \ {"kidPosY"}
    BY <1>5 DEF Games, StoredMembers
  <1> QED
    BY <1>3, <1>7, <1>8, <1>9, <1>10 DEF e

\* Loading runs the actions of rules, as evaluation does.
LEMMA DeserializedTyped ==
  ASSUME NEW s \in DOMAIN Scripts, NEW g \in GamesOf(s), NEW stored \in StoredGamesOf(s)
  PROVE  /\ DeserializeGame(g, stored) \in Judged(Loaded(g, stored))
         /\ DeserializeGame(g, stored) \in GamesOf(s)
         /\ \A field \in DOMAIN g \ {"emulator", "magnets", "stopped", "distance"} :
               DeserializeGame(g, stored)[field] = Loaded(g, stored)[field]
  <1> DEFINE l == Loaded(g, stored)
             r == ResetActions(l)
             q == RunRuleActions(r)
  <1>1. l \in GamesOf(s)
    BY LoadedTyped
  <1>2. DOMAIN l = DOMAIN g
    BY <1>1 DEF GamesOf, Games
  <1> HIDE DEF l
  <1>3. r \in Acted(l)
    BY <1>1, ResetTyped
  <1>4. r \in Judged(l) /\ r \in GamesOf(s) /\ DOMAIN r = DOMAIN g
    BY <1>1, <1>2, <1>3, JudgedFurther DEF GamesOf, Games
  <1> HIDE DEF r
  <1>5. q \in Acted(r)
    BY <1>4, RulesActed
  <1>6. q \in Judged(r) /\ q \in GamesOf(s) /\ DOMAIN q = DOMAIN g
    BY <1>4, <1>5, JudgedFurther DEF GamesOf, Games
  <1> HIDE DEF q
  <1> DEFINE d == MeasureDistance[q]
  <1>7. d \in Judged(q) /\ \A field \in DOMAIN q \ {"distance"} : d[field] = q[field]
    BY <1>6, DistanceTyped
  <1> HIDE DEF d
  <1>8. d \in GamesOf(s) /\ d \in Judged(l)
    BY <1>1, <1>4, <1>6, <1>7, JudgedFurther
  <1>9. \A field \in DOMAIN g \ {"emulator", "magnets", "stopped", "distance"} : d[field] = l[field]
    BY <1>2, <1>3, <1>4, <1>5, <1>6, <1>7 DEF Acted
  <1>10. DeserializeGame(g, stored) = d
    BY DEF DeserializeGame, l, r, q, d
  <1> QED
    BY <1>8, <1>9, <1>10 DEF l
-----------------------------------------------------------------------------
(* A game that has been created, and a runner.                             *)

LEMMA NewGameTyped ==
  ASSUME NEW s \in DOMAIN Scripts, NEW garbage \in Uninitialized
  PROVE  /\ NewGame(s, garbage) \in GamesOf(s)
         /\ Scripts[s].game # PrinceOfPersia => NewGame(s, garbage).kidPosY = 0
         /\ NewGame(s, garbage).emulator.core = Scripts[s].stateFile
         /\ NewGame(s, garbage).emulator.written = 0
         /\ NewGame(s, garbage).emulator.block = 0
         /\ NewGame(s, garbage).emulator.rendering = FALSE
         /\ NewGame(s, garbage).emulator.enabled = ~Scripts[s].disabled
         /\ NewGame(s, garbage).emulator.frame = NoPicture
         /\ NewGame(s, garbage).emulator.curBlit = NoPicture
  <1> DEFINE e == InitializeEmulator(Scripts[s].stateFile, Scripts[s].disabled)
             none == [m \in Magnets(Scripts[s].game) |-> NoMagnet]
             y == IF Scripts[s].game = PrinceOfPersia THEN garbage.kidPosY ELSE 0
             enabled == ~Scripts[s].disabled
  <1>1. Scripts[s].stateFile \in CoresOf(s) /\ Scripts[s].disabled \in BOOLEAN /\ CoresOf(s) \subseteq Cores
    <2>1. CoresOf(s) \subseteq Cores
      BY DEF CoresOf
    <2> QED
      BY <2>1, CoresAssumption
  <1>2. garbage.type \in Types \union {"other"} /\ garbage.kidPosY \in Int
    BY GarbageAssumption
  <1>3. e = [core |-> Scripts[s].stateFile, written |-> 0, block |-> 0, enabled |-> enabled,
             rendering |-> FALSE, frame |-> NoPicture, curBlit |-> NoPicture]
    <2> DEFINE stored == [core |-> Scripts[s].stateFile, written |-> 0, block |-> 0]
               r == Restored(PoweredOn, stored)
    <2>1. e = [r EXCEPT !.enabled = enabled]
      BY DEF InitializeEmulator, DeserializeEmulator
    <2>2. /\ r = [f \in DOMAIN PoweredOn |-> IF f \in {"core", "written", "block"} THEN stored[f] ELSE PoweredOn[f]]
      BY DEF Restored
    <2>3. DOMAIN PoweredOn = {"core", "written", "block", "enabled", "rendering", "frame", "curBlit"}
      BY DEF PoweredOn
    <2>4. PoweredOn.rendering = FALSE /\ PoweredOn.frame = NoPicture /\ PoweredOn.curBlit = NoPicture
      BY DEF PoweredOn
    <2> HIDE DEF enabled, r
    <2>5. DOMAIN r = {"core", "written", "block", "enabled", "rendering", "frame", "curBlit"}
      BY <2>2, <2>3
    <2>6. /\ r.core = Scripts[s].stateFile /\ r.written = 0 /\ r.block = 0
          /\ r.rendering = FALSE /\ r.frame = NoPicture /\ r.curBlit = NoPicture
      BY <2>2, <2>3, <2>4
    <2> QED
      BY <2>1, <2>2, <2>5, <2>6
  <1>4. e \in Emulators
    <2>1. enabled \in BOOLEAN
      OBVIOUS
    <2> HIDE DEF enabled, e
    <2> QED
      BY <1>1, <1>3, <2>1 DEF Emulators, Byte
  <1>5. none \in [Magnets(Sprilo) -> Magnet] \union [Magnets(PrinceOfPersia) -> Magnet]
    <2>1. none \in [Magnets(Scripts[s].game) -> Magnet]
      BY DEF NoMagnet, Magnet
    <2> HIDE DEF none
    <2> QED
      BY <2>1, MagnetsOf
  <1>6. y \in Int /\ DOMAIN none = Magnets(Scripts[s].game)
    BY <1>2
  <1>7. NewGame(s, garbage) =
          [script |-> s, emulator |-> e, step |-> 0, lastInput |-> 0, magnets |-> none, stopped |-> FALSE,
           distance |-> 0, kidPosY |-> y, status |-> {}, type |-> garbage.type, level |-> 0,
           tolerance |-> 0, reward |-> 0]
    BY DEF NewGame
  <1>10. e.core \in CoresOf(s) /\ (Scripts[s].disabled \/ e.enabled)
    <2>1. e.core = Scripts[s].stateFile /\ e.enabled = ~Scripts[s].disabled
      BY <1>3
    <2> HIDE DEF e
    <2> QED
      BY <1>1, <2>1
  <1>12. /\ e.core = Scripts[s].stateFile /\ e.written = 0 /\ e.block = 0 /\ e.rendering = FALSE
         /\ e.enabled = enabled /\ e.frame = NoPicture /\ e.curBlit = NoPicture
    BY <1>3
  <1> HIDE DEF none, y, e, enabled
  <1>8. NewGame(s, garbage) \in Games
    BY <1>2, <1>4, <1>5, <1>6, <1>7 DEF Games
  <1>9. {} \in Statuses(s)
    BY DEF Statuses
  <1>11. NewGame(s, garbage) \in GamesOf(s)
    BY <1>6, <1>7, <1>8, <1>9, <1>10 DEF GamesOf
  <1> QED
    BY <1>7, <1>11, <1>12 DEF enabled, y

\* The initial sequence has been run, and what it leads to does not depend on garbage.
StartOf(s, garbage) == {g \in GamesOf(s) :
    /\ Scripts[s].game # PrinceOfPersia => g.kidPosY = 0
    /\ \A field \in DOMAIN g \ {"emulator", "step", "lastInput", "kidPosY"} : g[field] = NewGame(s, garbage)[field]
    /\ \A field \in {"written", "enabled", "rendering", "frame", "curBlit"} :
          g.emulator[field] = NewGame(s, garbage).emulator[field]}

LEMMA StartAdvanced ==
  ASSUME NEW s \in DOMAIN Scripts, NEW garbage \in Uninitialized,
         NEW g \in StartOf(s, garbage), NEW input \in InputsGiven(s)
  PROVE  AdvanceGame(g, input) \in StartOf(s, garbage)
  <1> DEFINE h == AdvanceGame(g, input)
             rest == {"written", "enabled", "rendering", "frame", "curBlit"}
  <1>1. g \in GamesOf(s) /\ g.emulator \in Emulators /\ g.emulator.rendering = FALSE
    <2>1. g \in GamesOf(s)
      BY DEF StartOf
    <2>2. NewGame(s, garbage).emulator.rendering = FALSE
      BY NewGameTyped
    <2>3. g.emulator.rendering = NewGame(s, garbage).emulator.rendering
      BY DEF StartOf
    <2> QED
      BY <2>1, <2>2, <2>3 DEF GamesOf, Games
  <1>2. /\ h \in GamesOf(s) /\ h.emulator = AdvanceEmulator(g.emulator, input)
        /\ h.kidPosY = Height(s, h.emulator.core, g.kidPosY)
        /\ \A field \in DOMAIN g \ {"emulator", "step", "lastInput", "kidPosY"} : h[field] = g[field]
    BY <1>1, AdvanceTyped
  <1>3. AdvanceCore[g.emulator.core][input] \in Cores
    <2>1. AdvanceCore[g.emulator.core][input] \in CoresOf(s)
      BY <1>1, CoresAssumption DEF GamesOf
    <2> QED
      BY <2>1 DEF CoresOf
  <1>4. \A field \in rest : AdvanceEmulator(g.emulator, input)[field] = g.emulator[field]
    BY <1>1, <1>3, EmulatorAdvanced DEF Emulators
  <1>5. DOMAIN h = DOMAIN g
    BY <1>1, <1>2 DEF GamesOf, Games
  <1> HIDE DEF h
  <1>6. \A field \in rest : h.emulator[field] = NewGame(s, garbage).emulator[field]
    BY <1>2, <1>4 DEF StartOf
  <1>7. \A field \in DOMAIN h \ {"emulator", "step", "lastInput", "kidPosY"} : h[field] = NewGame(s, garbage)[field]
    BY <1>2, <1>5 DEF StartOf
  <1>9. Scripts[s].game # PrinceOfPersia => h.kidPosY = 0
    BY <1>2 DEF StartOf, Height
  <1>8. h \in StartOf(s, garbage)
    BY <1>2, <1>6, <1>7, <1>9 DEF StartOf
  <1> QED
    BY <1>8 DEF h

\* Computed one by one, whatever the garbage is.
LEMMA NewRunnerTyped ==
  ASSUME NEW s \in DOMAIN Scripts, NEW garbage \in Uninitialized
  PROVE  /\ NewRunner(s, garbage).game \in StartOf(s, garbage)
         /\ NewRunner(s, garbage).game.emulator.core = NewRunner(s, Unused).game.emulator.core
         /\ NewRunner(s, garbage).game.step = NewRunner(s, Unused).game.step
         /\ NewRunner(s, garbage).game.lastInput = NewRunner(s, Unused).game.lastInput
         /\ NewRunner(s, garbage).game.emulator.block = Len(Scripts[s].initialSequence) % 2
  <1> DEFINE seq == Scripts[s].initialSequence
             S == DOMAIN seq
             A(x) == StartOf(s, x)
             IsFold(x, it) == it = [T \in SUBSET S |-> IF T = {} THEN NewGame(s, x)
                                       ELSE AdvanceGame(it[T \ {Max(T)}], seq[Max(T)])]
             Fold(x) == CHOOSE it : IsFold(x, it)
  <1>1. /\ S = 1 .. Len(seq) /\ Len(seq) \in Nat
        /\ \A i \in S : seq[i] \in InputsGiven(s)
    <2>1. S = 1 .. Len(seq) /\ Len(seq) \in Nat
      BY ScriptsAssumption, LenProperties
    <2>2. \A i \in S : seq[i] \in ToSet(seq)
      BY DEF ToSet
    <2> QED
      BY <2>1, <2>2 DEF InputsGiven
  <1>2. IsFiniteSet(S) /\ S \subseteq Int
    BY <1>1, Positions
  <1>3. \A x : NewRunner(s, x).game = Fold(x)[S]
    BY DEF NewRunner, FoldLeft, MapThenFoldSet
  <1>4. ASSUME NEW x \in Uninitialized
        PROVE  /\ NewGame(s, x) \in A(x)
               /\ \A g \in A(x), i \in S : AdvanceGame(g, seq[i]) \in A(x)
    <2>1. NewGame(s, x) \in A(x)
      BY NewGameTyped DEF StartOf
    <2>2. \A g \in A(x), i \in S : AdvanceGame(g, seq[i]) \in A(x)
      BY <1>1, StartAdvanced
    <2> QED
      BY <2>1, <2>2
  <1> HIDE DEF S, A, seq
  <1>5. ASSUME NEW x \in Uninitialized
        PROVE  /\ Fold(x)[{}] = NewGame(s, x)
               /\ \A T \in SUBSET S : T # {} => Fold(x)[T] = AdvanceGame(Fold(x)[T \ {Max(T)}], seq[Max(T)])
    <2> DEFINE B == A(x)
               b == NewGame(s, x)
               G == [i \in S |-> [g \in B |-> AdvanceGame(g, seq[i])]]
               fold == Fold(x)
    <2>1. \A i \in S, g \in B : G[i][g] = AdvanceGame(g, seq[i]) /\ G[i][g] \in B
      BY <1>4
    <2>2. b \in B
      BY <1>4
    <2> HIDE DEF G, B, b
    <2>3. PICK it : IsLatestFold(it, S, B, b, G)
      BY <1>2, <2>1, <2>2, LatestExists
    <2>4. \A T \in SUBSET S : it[T] = IF T = {} THEN b ELSE AdvanceGame(it[T \ {Max(T)}], seq[Max(T)])
      BY <2>1, <2>3 DEF IsLatestFold
    <2>5. it \in [SUBSET S -> B]
      BY <2>3 DEF IsLatestFold
    <2>6. IsFold(x, it)
      BY <2>4, <2>5 DEF b
    <2>7. IsFold(x, fold)
      BY <2>6
    <2> HIDE DEF fold
    <2>8. /\ fold[{}] = NewGame(s, x)
          /\ \A T \in SUBSET S : T # {} => fold[T] = AdvanceGame(fold[T \ {Max(T)}], seq[Max(T)])
      BY <2>7
    <2> QED
      BY <2>8 DEF fold
  <1> HIDE DEF Fold
  <1>6. Unused \in Uninitialized
    BY GarbageAssumption DEF Unused
  <1> DEFINE mine == Fold(garbage)
             other == Fold(Unused)
             both == [T \in SUBSET S |-> <<T, mine[T], other[T]>>]
             Good == {p \in (SUBSET S) \X A(garbage) \X A(Unused) :
                        /\ p[2].emulator.core = p[3].emulator.core
                        /\ p[2].step = p[3].step /\ p[2].lastInput = p[3].lastInput
                        /\ p[2].emulator.block = Cardinality(p[1]) % 2}
  <1>7. both[{}] \in Good
    <2>1. mine[{}] = NewGame(s, garbage) /\ other[{}] = NewGame(s, Unused)
      BY <1>5, <1>6
    <2>2. /\ NewGame(s, garbage).emulator.core = NewGame(s, Unused).emulator.core
          /\ NewGame(s, garbage).step = NewGame(s, Unused).step
          /\ NewGame(s, garbage).lastInput = NewGame(s, Unused).lastInput
          /\ NewGame(s, garbage).emulator.block = 0
      <3>1. \A x \in Uninitialized : /\ NewGame(s, x).emulator.core = Scripts[s].stateFile
                                     /\ NewGame(s, x).emulator.block = 0
        BY NewGameTyped
      <3>2. \A x \in Uninitialized : NewGame(s, x).step = 0 /\ NewGame(s, x).lastInput = 0
        BY DEF NewGame
      <3> QED
        BY <1>6, <3>1, <3>2
    <2>3. Cardinality({}) = 0 /\ 0 % 2 = 0
      BY FS_EmptySet
    <2> QED
      BY <1>4, <1>6, <2>1, <2>2, <2>3
  <1>8. ASSUME NEW T \in SUBSET S, T # {}, Max(T) \in T, both[T \ {Max(T)}] \in Good
        PROVE  both[T] \in Good
    <2> DEFINE rest == T \ {Max(T)}
               input == seq[Max(T)]
               g == mine[rest]
               h == other[rest]
    <2>1. rest \in SUBSET S /\ Max(T) \in S
      BY <1>8
    <2>2. /\ g \in A(garbage) /\ h \in A(Unused) /\ g.emulator.core = h.emulator.core
          /\ g.step = h.step /\ g.lastInput = h.lastInput
          /\ g.emulator.block = Cardinality(rest) % 2
      BY <1>8, <2>1
    <2>3. mine[T] = AdvanceGame(g, input) /\ other[T] = AdvanceGame(h, input)
      BY <1>5, <1>6, <1>8
    <2>4. mine[T] \in A(garbage) /\ other[T] \in A(Unused)
      BY <1>4, <1>6, <2>1, <2>2, <2>3
    <2>5. g \in GamesOf(s) /\ h \in GamesOf(s) /\ input \in InputsGiven(s)
      BY <1>1, <2>1, <2>2 DEF A, StartOf, S
    <2>6. mine[T].emulator = AdvanceEmulator(g.emulator, input) /\ other[T].emulator = AdvanceEmulator(h.emulator, input)
      BY <2>3, <2>5, AdvanceTyped
    <2>7. /\ g.emulator \in Emulators /\ h.emulator \in Emulators
          /\ AdvanceCore[g.emulator.core][input] \in Cores /\ AdvanceCore[h.emulator.core][input] \in Cores
      <3>1. AdvanceCore[g.emulator.core][input] \in CoresOf(s) /\ AdvanceCore[h.emulator.core][input] \in CoresOf(s)
        BY <2>5, CoresAssumption DEF GamesOf
      <3>2. CoresOf(s) \subseteq Cores
        BY DEF CoresOf
      <3> QED
        BY <2>5, <3>1, <3>2 DEF GamesOf, Games
    <2>8. mine[T].emulator.core = other[T].emulator.core /\ mine[T].emulator.block = 1 - g.emulator.block
      BY <2>2, <2>6, <2>7, EmulatorAdvanced
    <2>9. Cardinality(T) \in Nat /\ Cardinality(T) = Cardinality(rest) + 1 /\ Cardinality(rest) \in Nat
      BY <1>2, <1>8, FS_Subset, FS_RemoveElement, FS_CardinalityType
    <2>10. mine[T].emulator.block = Cardinality(T) % 2
      BY <2>2, <2>8, <2>9
    <2>11. mine[T].step = other[T].step /\ mine[T].lastInput = other[T].lastInput
      <3>1. /\ mine[T].step = StepAfter(g) /\ mine[T].lastInput = LastInputAfter(g, input)
            /\ other[T].step = StepAfter(h) /\ other[T].lastInput = LastInputAfter(h, input)
        BY <2>3, <2>5, AdvanceTyped
      <3>2. Game(g) = Game(h)
        BY <2>5 DEF Game, GamesOf
      <3>3. StepAfter(g) = StepAfter(h) /\ LastInputAfter(g, input) = LastInputAfter(h, input)
        BY <2>2, <3>2, Zenon DEF StepAfter, LastInputAfter
      <3> QED
        BY <3>1, <3>3
    <2> QED
      BY <2>4, <2>8, <2>10, <2>11
  <1>9. both[S] \in Good
    <2> HIDE DEF both, Good
    <2> QED
      BY <1>2, <1>7, <1>8, LatestStays
  <1>10. Cardinality(S) = Len(seq)
    BY <1>1, FS_Interval DEF S, seq
  <1>11. /\ mine[S] \in A(garbage) /\ mine[S].emulator.core = other[S].emulator.core
         /\ mine[S].step = other[S].step /\ mine[S].lastInput = other[S].lastInput
         /\ mine[S].emulator.block = Len(seq) % 2
    BY <1>9, <1>10
  <1> QED
    BY <1>3, <1>11 DEF A, seq
-----------------------------------------------------------------------------
(* The inputs.                                                             *)

\* Each input of a set is registered, and those registered before still are.
LEMMA SetRegistered ==
  ASSUME NEW registered \in Seq(STRING), NEW set, set.inputs \in Seq(STRING)
  PROVE  /\ RegisterInputs(registered, set) \in Seq(STRING)
         /\ ToSet(registered) \subseteq ToSet(RegisterInputs(registered, set))
         /\ ToSet(set.inputs) \subseteq ToSet(RegisterInputs(registered, set))
  <1> DEFINE inputs == set.inputs
             S == DOMAIN inputs
             A == Seq(STRING)
             IsFold(it) == it = [T \in SUBSET S |-> IF T = {} THEN registered
                                    ELSE RegisterInput(it[T \ {Max(T)}], inputs[Max(T)])]
             fold == CHOOSE it : IsFold(it)
  <1>1. S = 1 .. Len(inputs) /\ Len(inputs) \in Nat /\ \A i \in S : inputs[i] \in STRING
    BY LenProperties, ElementOfSeq
  <1>2. IsFiniteSet(S) /\ S \subseteq Int
    BY <1>1, Positions
  <1>3. ASSUME NEW r \in A, NEW i \in S
        PROVE  /\ RegisterInput(r, inputs[i]) \in A
               /\ ToSet(r) \union {inputs[i]} \subseteq ToSet(RegisterInput(r, inputs[i]))
    <2>1. CASE Contains(r, inputs[i])
      <3>1. inputs[i] \in ToSet(r)
        BY <2>1 DEF Contains, ToSet
      <3> QED
        BY <2>1, <3>1 DEF RegisterInput
    <2>2. CASE ~Contains(r, inputs[i])
      <3>1. RegisterInput(r, inputs[i]) = Append(r, inputs[i])
        BY <2>2 DEF RegisterInput
      <3>2. Append(r, inputs[i]) \in A
        BY <1>1, AppendProperties
      <3>3. ToSet(Append(r, inputs[i])) = ToSet(r) \union {inputs[i]}
        <4>1. /\ Len(Append(r, inputs[i])) = Len(r) + 1 /\ Len(r) \in Nat
              /\ \A k \in 1 .. Len(r) : Append(r, inputs[i])[k] = r[k]
              /\ Append(r, inputs[i])[Len(r) + 1] = inputs[i]
              /\ DOMAIN r = 1 .. Len(r) /\ DOMAIN Append(r, inputs[i]) = 1 .. Len(r) + 1
          BY <1>1, <3>2, AppendProperties, LenProperties
        <4> HIDE DEF inputs, A
        <4> QED
          BY <4>1 DEF ToSet
      <3> QED
        BY <3>1, <3>2, <3>3
    <2> QED
      BY <2>1, <2>2
  <1>4. RegisterInputs(registered, set) = fold[S]
    BY DEF RegisterInputs, FoldLeft, MapThenFoldSet
  <1>5. registered \in A /\ ToSet(inputs) = {inputs[i] : i \in S}
    BY DEF ToSet
  <1> HIDE DEF S, A, inputs
  <1>6. /\ fold[{}] = registered
        /\ \A T \in SUBSET S : T # {} => fold[T] = RegisterInput(fold[T \ {Max(T)}], inputs[Max(T)])
    <2> DEFINE G == [i \in S |-> [r \in A |-> RegisterInput(r, inputs[i])]]
    <2>1. \A i \in S, r \in A : G[i][r] = RegisterInput(r, inputs[i]) /\ G[i][r] \in A
      BY <1>3
    <2> HIDE DEF G
    <2>2. PICK it : IsLatestFold(it, S, A, registered, G)
      BY <1>2, <1>5, <2>1, LatestExists
    <2>3. \A T \in SUBSET S : it[T] = IF T = {} THEN registered
                                       ELSE RegisterInput(it[T \ {Max(T)}], inputs[Max(T)])
      BY <2>1, <2>2 DEF IsLatestFold
    <2>4. it \in [SUBSET S -> A]
      BY <2>2 DEF IsLatestFold
    <2>5. \E jt : IsFold(jt)
      BY <2>3, <2>4
    <2>6. IsFold(fold)
      BY <2>5
    <2> HIDE DEF fold
    <2> QED
      BY <2>6
  <1> HIDE DEF fold
  <1> DEFINE done == [T \in SUBSET S |-> <<T, fold[T]>>]
             Good == {p \in (SUBSET S) \X A : ToSet(registered) \union {inputs[i] : i \in p[1]} \subseteq ToSet(p[2])}
  <1>7. done[{}] \in Good
    BY <1>5, <1>6
  <1>8. ASSUME NEW T \in SUBSET S, T # {}, Max(T) \in T, done[T \ {Max(T)}] \in Good
        PROVE  done[T] \in Good
    <2> DEFINE rest == T \ {Max(T)}
    <2>1. rest \in SUBSET S /\ Max(T) \in S
      BY <1>8
    <2>2. fold[rest] \in A /\ ToSet(registered) \union {inputs[i] : i \in rest} \subseteq ToSet(fold[rest])
      BY <1>8, <2>1
    <2>3. /\ fold[T] \in A
          /\ ToSet(fold[rest]) \union {inputs[Max(T)]} \subseteq ToSet(fold[T])
      BY <1>3, <1>6, <1>8, <2>1, <2>2
    <2>4. {inputs[i] : i \in T} = {inputs[i] : i \in rest} \union {inputs[Max(T)]}
      BY <1>8
    <2> HIDE DEF rest
    <2> QED
      BY <2>2, <2>3, <2>4
  <1>9. done[S] \in Good
    <2> HIDE DEF done, Good
    <2> QED
      BY <1>2, <1>7, <1>8, LatestStays
  <1> QED
    BY <1>4, <1>5, <1>9 DEF A, inputs

LEMMA SetsJoined ==
  ASSUME NEW s \in DOMAIN Scripts
  PROVE  /\ Len(SetsParsed(Scripts[s])) \in Nat
         /\ DOMAIN SetsParsed(Scripts[s]) = 1 .. Len(SetsParsed(Scripts[s]))
         /\ \A i \in DOMAIN Scripts[s].allowed : Scripts[s].allowed[i] \in ToSet(SetsParsed(Scripts[s]))
         /\ \A i \in DOMAIN Candidates(Scripts[s]) : Candidates(Scripts[s])[i] \in ToSet(SetsParsed(Scripts[s]))
  <1> DEFINE allowed == Scripts[s].allowed
             candidates == Candidates(Scripts[s])
             both == allowed \o candidates
  <1>1. IsList(allowed) /\ IsList(candidates)
    BY ScriptsAssumption
  <1>2. both = SetsParsed(Scripts[s])
    BY DEF SetsParsed
  <1> HIDE DEF allowed, candidates
  <1>3. /\ DOMAIN allowed = 1 .. Len(allowed) /\ Len(allowed) \in Nat
        /\ DOMAIN candidates = 1 .. Len(candidates) /\ Len(candidates) \in Nat
    BY <1>1, LenProperties DEF IsList
  <1>4. allowed \in Seq(ToSet(allowed) \union ToSet(candidates)) /\ candidates \in Seq(ToSet(allowed) \union ToSet(candidates))
    BY <1>1, SeqMonotonic DEF IsList
  <1>5. /\ both \in Seq(ToSet(allowed) \union ToSet(candidates)) /\ Len(both) = Len(allowed) + Len(candidates)
        /\ \A i \in 1 .. Len(allowed) : both[i] = allowed[i]
        /\ \A i \in 1 .. Len(candidates) : both[Len(allowed) + i] = candidates[i]
    BY <1>3, <1>4, ConcatProperties
  <1> HIDE DEF both
  <1>6. DOMAIN both = 1 .. Len(both) /\ Len(both) \in Nat
    BY <1>5, LenProperties
  <1>7. \A i \in DOMAIN both : both[i] \in ToSet(both)
    BY DEF ToSet
  <1>8. /\ \A i \in DOMAIN allowed : i \in DOMAIN both
        /\ \A i \in DOMAIN candidates : Len(allowed) + i \in DOMAIN both
    BY <1>3, <1>5, <1>6
  <1>9. /\ \A i \in DOMAIN allowed : allowed[i] \in ToSet(both)
        /\ \A i \in DOMAIN candidates : candidates[i] \in ToSet(both)
    BY <1>3, <1>5, <1>7, <1>8
  <1> QED
    BY <1>2, <1>6, <1>9 DEF allowed, candidates

LEMMA InputsRegistered ==
  ASSUME NEW s \in DOMAIN Scripts
  PROVE  /\ InputStrings[s] \in Seq(STRING)
         /\ \A set \in ToSet(SetsParsed(Scripts[s])) : ToSet(set.inputs) \subseteq ToSet(InputStrings[s])
  <1> DEFINE sets == SetsParsed(Scripts[s])
             S == DOMAIN sets
             A == Seq(STRING)
             IsFold(it) == it = [T \in SUBSET S |-> IF T = {} THEN <<>>
                                    ELSE RegisterInputs(it[T \ {Max(T)}], sets[Max(T)])]
             fold == CHOOSE it : IsFold(it)
  <1>1. S = 1 .. Len(sets) /\ Len(sets) \in Nat /\ \A i \in S : sets[i] \in ToSet(sets)
    BY SetsJoined DEF ToSet
  <1>2. IsFiniteSet(S) /\ S \subseteq Int
    BY <1>1, Positions
  <1>3. \A r \in A, i \in S : /\ RegisterInputs(r, sets[i]) \in A
                              /\ ToSet(r) \union ToSet(sets[i].inputs) \subseteq ToSet(RegisterInputs(r, sets[i]))
    <2> TAKE r \in A, i \in S
    <2>1. sets[i].inputs \in Seq(STRING)
      BY <1>1, ScriptsAssumption
    <2> QED
      BY <2>1, SetRegistered
  <1>4. InputStrings[s] = fold[S]
    BY DEF InputStrings, FoldLeft, MapThenFoldSet
  <1>5. <<>> \in A /\ ToSet(sets) = {sets[i] : i \in S}
    BY DEF ToSet
  <1> HIDE DEF S, A, sets
  <1>6. /\ fold[{}] = <<>>
        /\ \A T \in SUBSET S : T # {} => fold[T] = RegisterInputs(fold[T \ {Max(T)}], sets[Max(T)])
    <2> DEFINE G == [i \in S |-> [r \in A |-> RegisterInputs(r, sets[i])]]
               none == <<>>
    <2>1. \A i \in S, r \in A : G[i][r] = RegisterInputs(r, sets[i]) /\ G[i][r] \in A
      BY <1>3
    <2>2. none \in A
      BY <1>5
    <2> HIDE DEF G, none
    <2>3. PICK it : IsLatestFold(it, S, A, none, G)
      BY <1>2, <2>1, <2>2, LatestExists
    <2>4. \A T \in SUBSET S : it[T] = IF T = {} THEN none
                                       ELSE RegisterInputs(it[T \ {Max(T)}], sets[Max(T)])
      BY <2>1, <2>3 DEF IsLatestFold
    <2>5. it \in [SUBSET S -> A]
      BY <2>3 DEF IsLatestFold
    <2>6. \E jt : IsFold(jt)
      BY <2>4, <2>5 DEF none
    <2>7. IsFold(fold)
      BY <2>6
    <2> HIDE DEF fold
    <2> QED
      BY <2>7
  <1> HIDE DEF fold
  <1> DEFINE done == [T \in SUBSET S |-> <<T, fold[T]>>]
             Good == {p \in (SUBSET S) \X A : \A i \in p[1] : ToSet(sets[i].inputs) \subseteq ToSet(p[2])}
  <1>7. done[{}] \in Good
    BY <1>5, <1>6
  <1>8. ASSUME NEW T \in SUBSET S, T # {}, Max(T) \in T, done[T \ {Max(T)}] \in Good
        PROVE  done[T] \in Good
    <2> DEFINE rest == T \ {Max(T)}
    <2>1. rest \in SUBSET S /\ Max(T) \in S
      BY <1>8
    <2>2. fold[rest] \in A /\ \A i \in rest : ToSet(sets[i].inputs) \subseteq ToSet(fold[rest])
      BY <1>8, <2>1
    <2>3. /\ fold[T] \in A
          /\ ToSet(fold[rest]) \union ToSet(sets[Max(T)].inputs) \subseteq ToSet(fold[T])
      BY <1>3, <1>6, <1>8, <2>1, <2>2
    <2>4. \A i \in T : i \in rest \/ i = Max(T)
      OBVIOUS
    <2> HIDE DEF rest
    <2>5. \A i \in T : ToSet(sets[i].inputs) \subseteq ToSet(fold[T])
      BY <2>2, <2>3, <2>4
    <2> QED
      BY <2>3, <2>5
  <1>9. done[S] \in Good
    <2> HIDE DEF done, Good
    <2> QED
      BY <1>2, <1>7, <1>8, LatestStays
  <1> QED
    BY <1>4, <1>5, <1>9 DEF A, sets

\* The sets that a game may take inputs from hold registered ones.
LEMMA SetsOfInputs ==
  ASSUME NEW s \in DOMAIN Scripts
  PROVE  /\ \A i \in DOMAIN AllowedSets[s] : AllowedSets[s][i].inputs \subseteq ToSet(InputStrings[s])
         /\ \A i \in DOMAIN CandidateSets[s] : CandidateSets[s][i].inputs \subseteq ToSet(InputStrings[s])
  <1>1. \A set \in ToSet(SetsParsed(Scripts[s])) : ToSet(set.inputs) \subseteq ToSet(InputStrings[s])
    BY InputsRegistered
  <1>2. /\ \A i \in DOMAIN AllowedSets[s] : /\ i \in DOMAIN Scripts[s].allowed
                                            /\ AllowedSets[s][i].inputs = ToSet(Scripts[s].allowed[i].inputs)
        /\ \A i \in DOMAIN CandidateSets[s] :
              /\ i \in DOMAIN Candidates(Scripts[s])
              /\ CandidateSets[s][i].inputs = ToSet(Candidates(Scripts[s])[i].inputs)
    BY DEF AllowedSets, CandidateSets, ParseInputSets, ParseInputSet
  <1> QED
    BY <1>1, <1>2, SetsJoined

\* A number is kept whole with its bits, and stands for its input.
LEMMA PowersOfTwo ==
  \A b \in Nat : TwoTo[b] \in Nat /\ TwoTo[b] > b
  <1> DEFINE G == [n \in Nat |-> [y \in Nat |-> 2 * y]]
             IsPowers(f) == f = [b \in Nat |-> IF b = 0 THEN 1 ELSE 2 * f[b - 1]]
             powers == CHOOSE f : IsPowers(f)
  <1>1. StepsWithin(G, Nat, Nat)
    BY DEF StepsWithin
  <1>2. \A n \in Nat, y \in Nat : G[n][y] = 2 * y
    OBVIOUS
  <1> HIDE DEF G
  <1>3. \E f \in [Nat -> Nat] : IsRecursion(f, 1, G)
    BY <1>1, NatRecursion
  <1>4. PICK f \in [Nat -> Nat] : IsRecursion(f, 1, G)
    BY <1>3
  <1>5. \A b \in Nat : f[b] = IF b = 0 THEN 1 ELSE 2 * f[b - 1]
    <2>1. ASSUME NEW b \in Nat, b # 0 PROVE f[b] = 2 * f[b - 1]
      <3>1. b - 1 \in Nat /\ (b - 1) + 1 = b
        BY <2>1
      <3>2. f[(b - 1) + 1] = G[b - 1][f[b - 1]]
        BY <1>4, <3>1 DEF IsRecursion
      <3> QED
        BY <1>2, <3>1, <3>2
    <2> QED
      BY <1>4, <2>1 DEF IsRecursion
  <1>6. \E g : IsPowers(g)
    BY <1>5
  <1>7. IsPowers(powers) /\ TwoTo = powers
    <2>1. IsPowers(powers)
      BY <1>6
    <2> HIDE DEF IsPowers
    <2>2. TwoTo = powers
      BY DEF TwoTo, IsPowers
    <2> QED
      BY <2>1, <2>2
  <1> HIDE DEF powers
  <1>8. \A b \in Nat : TwoTo[b] = IF b = 0 THEN 1 ELSE 2 * TwoTo[b - 1]
    BY <1>7
  <1>9. TwoTo[0] = 1 /\ \A b \in Nat : TwoTo[b + 1] = 2 * TwoTo[b]
    BY <1>8
  <1> DEFINE Good == {b \in Nat : TwoTo[b] \in Nat /\ TwoTo[b] > b}
  <1>10. 0 \in Good
    BY <1>9
  <1>11. ASSUME NEW n \in Nat, n \in Good PROVE n + 1 \in Good
    BY <1>9, <1>11
  <1>12. Nat \subseteq Good
    <2> HIDE DEF Good
    <2> QED
      BY <1>10, <1>11, NatSetInduction
  <1> QED
    BY <1>12

LEMMA PackedFacts ==
  ASSUME NEW s \in DOMAIN Scripts, NEW input \in ToSet(InputStrings[s])
  PROVE  /\ InputIndex(s, input) \in 0 .. Len(InputStrings[s]) - 1
         /\ InputString(s, InputIndex(s, input)) = input
         /\ Packed(s, input) = InputIndex(s, input)
  <1> DEFINE strings == InputStrings[s]
             n == Len(strings)
             i == InputIndex(s, input)
             b == BitsFor(n)
  <1>1. strings \in Seq(STRING) /\ n \in Nat /\ DOMAIN strings = 1 .. n
    BY InputsRegistered, LenProperties
  <1>2. PICK k \in 1 .. n : strings[k] = input
    BY <1>1 DEF ToSet
  <1>3. k - 1 \in 0 .. n - 1 /\ strings[(k - 1) + 1] = input
    BY <1>1, <1>2
  <1>4. i \in 0 .. n - 1 /\ strings[i + 1] = input
    BY <1>3 DEF InputIndex
  <1> HIDE DEF strings, n, i, b
  <1>5. b \in 0 .. n /\ TwoTo[b] >= n
    <2> DEFINE Enough == {c \in 0 .. n : TwoTo[c] >= n}
               least == Min(Enough)
    <2>1. n \in Enough /\ Enough \subseteq Int /\ IsFiniteSet(Enough)
      <3>1. Enough \subseteq 0 .. n /\ IsFiniteSet(0 .. n)
        BY <1>1, FS_Interval
      <3>2. IsFiniteSet(Enough)
        BY <3>1, FS_Subset
      <3>3. n \in 0 .. n /\ TwoTo[n] >= n
        BY <1>1, PowersOfTwo
      <3> QED
        BY <3>2, <3>3
    <2>2. least \in Enough /\ \A c \in Enough : least <= c
      <3> HIDE DEF Enough
      <3> QED
        BY <2>1, Extremes
    <2>3. least \in 0 .. n /\ TwoTo[least] >= n /\ \A c \in 0 .. least - 1 : TwoTo[c] < n
      <3>1. ASSUME NEW c \in 0 .. least - 1 PROVE TwoTo[c] < n
        <4> HIDE DEF least
        <4>1. least \in 0 .. n
          BY <2>2
        <4>2. c \in 0 .. n /\ ~(least <= c)
          BY <1>1, <4>1
        <4>3. TwoTo[c] \in Nat
          BY <1>1, <4>2, PowersOfTwo
        <4>4. ~(TwoTo[c] >= n)
          BY <2>2, <4>2
        <4> QED
          BY <1>1, <4>3, <4>4
      <3> QED
        BY <2>2, <3>1
    <2> HIDE DEF least
    <2>4. \E c \in 0 .. n : TwoTo[c] >= n /\ \A d \in 0 .. c - 1 : TwoTo[d] < n
      BY <2>3
    <2>5. b \in 0 .. n /\ TwoTo[b] >= n /\ \A d \in 0 .. b - 1 : TwoTo[d] < n
      BY <2>4 DEF BitsFor, b
    <2> QED
      BY <2>5
  <1>6. i % TwoTo[b] = i
    <2>1. TwoTo[b] \in Nat /\ i \in Nat /\ i < TwoTo[b]
      BY <1>1, <1>4, <1>5, PowersOfTwo
    <2> HIDE DEF TwoTo
    <2> QED
      BY <2>1
  <1> QED
    BY <1>4, <1>6 DEF Packed, InputString, strings, n, i, b
-----------------------------------------------------------------------------
(* Runners, and what is stored of them.                                    *)

Histories(s) == [0 .. MaxSteps - 1 -> 0 .. Len(InputStrings[s]) - 1]
RunnersOf(s) == [game : GamesOf(s), history : Histories(s), step : 0 .. MaxSteps + 1]
StoredOf(s) == [game : StoredGamesOf(s), history : Histories(s), step : 0 .. MaxSteps + 1]

LEMMA RunnerTyped ==
  ASSUME NEW s \in DOMAIN Scripts, NEW garbage \in Uninitialized
  PROVE  NewRunner(s, garbage) \in RunnersOf(s) /\ NewRunner(s, garbage).step = 0
  <1>1. NewRunner(s, garbage).game \in GamesOf(s)
    BY NewRunnerTyped DEF StartOf
  <1>2. Len(InputStrings[s]) \in Nat \ {0} /\ MaxSteps \in Nat
    BY InputsRegistered, RunnerAssumption, LenProperties, EmptySeq
  <1>3. [k \in 0 .. MaxSteps - 1 |-> 0] \in Histories(s) /\ 0 \in 0 .. MaxSteps + 1
    BY <1>2 DEF Histories
  <1> QED
    BY <1>1, <1>3 DEF NewRunner, RunnersOf

LEMMA StoredTyped ==
  ASSUME NEW s \in DOMAIN Scripts
  PROVE  /\ \A r \in RunnersOf(s) : SerializeRunner(r) \in StoredOf(s)
         /\ \A r \in RunnersOf(s), stored \in StoredOf(s) : DeserializeRunner(r, stored) \in RunnersOf(s)
         /\ StoredOf(s) \subseteq StoredRunners
  <1>1. ASSUME NEW r \in RunnersOf(s)
        PROVE  SerializeRunner(r) \in StoredOf(s)
    <2>1. r.game \in GamesOf(s)
      BY DEF RunnersOf
    <2>2. SerializeGame(r.game) \in StoredGamesOf(s)
      BY <2>1, SerializedTyped
    <2> QED
      BY <2>2 DEF SerializeRunner, StoredOf, RunnersOf
  <1>2. ASSUME NEW r \in RunnersOf(s), NEW stored \in StoredOf(s)
        PROVE  DeserializeRunner(r, stored) \in RunnersOf(s)
    <2>1. r.game \in GamesOf(s) /\ stored.game \in StoredGamesOf(s)
      BY DEF RunnersOf, StoredOf
    <2>2. DeserializeGame(r.game, stored.game) \in GamesOf(s)
      BY <2>1, DeserializedTyped
    <2> QED
      BY <2>2 DEF DeserializeRunner, StoredOf, RunnersOf
  <1>3. Histories(s) \subseteq [0 .. MaxSteps - 1 -> Nat]
    <2>1. Len(InputStrings[s]) \in Nat
      BY InputsRegistered, LenProperties
    <2> QED
      BY <2>1 DEF Histories
  <1>4. StoredOf(s) \subseteq StoredRunners
    BY <1>3 DEF StoredOf, StoredRunners, StoredGamesOf
  <1> QED
    BY <1>1, <1>2, <1>4

\* A game that another one takes the place of is of the same script.
LEMMA GameReplaced ==
  ASSUME NEW s \in DOMAIN Scripts, NEW r \in RunnersOf(s), NEW g \in GamesOf(s)
  PROVE  [r EXCEPT !.game = g] \in RunnersOf(s)
BY DEF RunnersOf

LEMMA EvaluationTyped ==
  ASSUME NEW s \in DOMAIN Scripts, NEW r \in RunnersOf(s)
  PROVE  /\ Hashed(r) \in RunnersOf(s) /\ Evaluated(r) \in RunnersOf(s)
         /\ Typed(r) \in RunnersOf(s) /\ Rewarded(r) \in RunnersOf(s)
         /\ \A q \in {Hashed(r), Evaluated(r), Typed(r), Rewarded(r)} : q.step = r.step /\ q.history = r.history
  <1>1. r.game \in GamesOf(s) /\ r = [game |-> r.game, history |-> r.history, step |-> r.step]
    BY DEF RunnersOf
  <1>2. /\ ComputeHash(r.game) \in GamesOf(s) /\ EvaluateRules[r.game] \in GamesOf(s)
        /\ UpdateGameStateType[r.game] \in GamesOf(s) /\ UpdateReward[r.game] \in GamesOf(s)
    <2>1. EvaluateRules[r.game] \in Judged(r.game) /\ UpdateGameStateType[r.game] \in Judged(r.game)
      BY <1>1, EvaluatedTyped, TypeTyped
    <2>2. UpdateReward[r.game] \in Judged(r.game) /\ Judged(r.game) \subseteq GamesOf(s)
      BY <1>1, RewardTyped, JudgedFurther
    <2> QED
      BY <1>1, <2>1, <2>2, HashTyped
  <1>3. \A g \in GamesOf(s) : /\ [r EXCEPT !.game = g] \in RunnersOf(s)
                              /\ [r EXCEPT !.game = g].step = r.step
                              /\ [r EXCEPT !.game = g].history = r.history
    BY <1>1, GameReplaced
  <1>4. /\ Hashed(r) = [r EXCEPT !.game = ComputeHash(r.game)]
        /\ Evaluated(r) = [r EXCEPT !.game = EvaluateRules[r.game]]
        /\ Typed(r) = [r EXCEPT !.game = UpdateGameStateType[r.game]]
        /\ Rewarded(r) = [r EXCEPT !.game = UpdateReward[r.game]]
    BY DEF Hashed, Evaluated, Typed, Rewarded
  <1> QED
    BY <1>2, <1>3, <1>4

LEMMA FirstTyped ==
  ASSUME NEW s \in DOMAIN Scripts, NEW garbage \in Uninitialized
  PROVE  /\ FirstState(s, garbage) \in RunnersOf(s) /\ FirstState(s, garbage).step = 0
         /\ FirstState(s, garbage).game \in Judged(NewRunner(s, garbage).game)
  <1> DEFINE r == NewRunner(s, garbage)
             a == EvaluateRules[r.game]
             b == UpdateGameStateType[a]
             c == RunRuleActions(b)
             d == UpdateReward[c]
  <1>1. r \in RunnersOf(s) /\ r.step = 0 /\ r.game \in GamesOf(s)
    BY RunnerTyped DEF RunnersOf
  <1>2. FirstState(s, garbage) = [r EXCEPT !.game = d]
    BY DEF FirstState
  <1> HIDE DEF r
  <1>3. a \in Judged(r.game) /\ a \in GamesOf(s) /\ Judged(a) \subseteq Judged(r.game)
    BY <1>1, EvaluatedTyped, JudgedFurther
  <1> HIDE DEF a
  <1>4. b \in Judged(a) /\ b \in GamesOf(s) /\ Judged(b) \subseteq Judged(a)
    BY <1>3, TypeTyped, JudgedFurther
  <1> HIDE DEF b
  <1>5. c \in Judged(b) /\ c \in GamesOf(s) /\ Judged(c) \subseteq Judged(b)
    <2>1. c \in Acted(b) /\ Acted(b) \subseteq Judged(b)
      BY <1>4, RulesActed, JudgedFurther
    <2>2. c \in Judged(b)
      BY <2>1
    <2> HIDE DEF c
    <2> QED
      BY <1>4, <2>2, JudgedFurther
  <1> HIDE DEF c
  <1>6. d \in Judged(r.game) /\ d \in GamesOf(s)
    BY <1>1, <1>3, <1>4, <1>5, RewardTyped, JudgedFurther
  <1> HIDE DEF d
  <1>7. [r EXCEPT !.game = d].step = 0 /\ [r EXCEPT !.game = d].game = d
    BY <1>1 DEF RunnersOf
  <1> QED
    BY <1>1, <1>2, <1>6, <1>7, GameReplaced DEF r

LEMMA AdvancedTyped ==
  ASSUME NEW s \in DOMAIN Scripts, NEW r \in RunnersOf(s), NEW input \in ToSet(InputStrings[s])
  PROVE  /\ r.step < MaxSteps => /\ Advanced(r, input) \in RunnersOf(s)
                                 /\ Advanced(r, input).step = r.step + 1
                                 /\ Advanced(r, input).history = [r.history EXCEPT ![r.step] = InputIndex(s, input)]
         /\ r.step <= MaxSteps => /\ AdvanceUnrecorded(r, input) \in RunnersOf(s)
                                  /\ AdvanceUnrecorded(r, input).step = r.step + 1
  <1>1. r.game \in GamesOf(s) /\ r.game.script = s /\ r.step \in Nat /\ MaxSteps \in Nat /\ r.history \in Histories(s)
    BY RunnerAssumption DEF RunnersOf, GamesOf
  <1>2. input \in InputsGiven(s)
    BY DEF InputsGiven
  <1>3. AdvanceGame(r.game, input) \in GamesOf(s)
    BY <1>1, <1>2, AdvanceTyped
  <1>4. /\ Packed(s, input) = InputIndex(s, input)
        /\ InputIndex(s, input) \in 0 .. Len(InputStrings[s]) - 1
    BY PackedFacts
  <1>5. ASSUME r.step < MaxSteps
        PROVE  /\ Advanced(r, input) \in RunnersOf(s)
               /\ Advanced(r, input).step = r.step + 1
               /\ Advanced(r, input).history = [r.history EXCEPT ![r.step] = InputIndex(s, input)]
    <2> DEFINE q == AdvanceRunner(r, input)
    <2>1. [r.history EXCEPT ![r.step] = InputIndex(s, input)] \in Histories(s)
      BY <1>1, <1>4, <1>5 DEF Histories
    <2>2. r.step + 1 \in 0 .. MaxSteps + 1
      BY <1>1, <1>5
    <2>3. /\ q \in RunnersOf(s) /\ q.step = r.step + 1
          /\ q.history = [r.history EXCEPT ![r.step] = InputIndex(s, input)]
      BY <1>1, <1>3, <1>4, <2>1, <2>2 DEF AdvanceRunner, RunnersOf
    <2> HIDE DEF q
    <2>4. Hashed(q) \in RunnersOf(s) /\ Hashed(q).step = q.step /\ Hashed(q).history = q.history
      BY <2>3, EvaluationTyped
    <2> QED
      BY <2>3, <2>4 DEF Advanced, q
  <1>6. ASSUME r.step <= MaxSteps
        PROVE  AdvanceUnrecorded(r, input) \in RunnersOf(s) /\ AdvanceUnrecorded(r, input).step = r.step + 1
    <2>1. r.step + 1 \in 0 .. MaxSteps + 1
      BY <1>1, <1>6
    <2> QED
      BY <1>3, <2>1 DEF AdvanceUnrecorded, RunnersOf
  <1> QED
    BY <1>5, <1>6

\* The inputs tried on a base state are registered ones, whatever the runner holds when the
\* candidate inputs are read.
LEMMA InputsTyped ==
  ASSUME NEW s \in DOMAIN Scripts, NEW r \in RunnersOf(s)
  PROVE  AllowedInputs(r) \subseteq ToSet(InputStrings[s]) /\ CandidateInputs(r) \subseteq ToSet(InputStrings[s])
  <1>1. r.game.script = s
    BY DEF RunnersOf, GamesOf
  <1> QED
    BY <1>1, SetsOfInputs DEF AllowedInputs, CandidateInputs, InputsOf

LEMMA LeftOverTyped ==
  ASSUME NEW s \in DOMAIN Scripts, NEW r \in RunnersOf(s), r.step < MaxSteps
  PROVE  LeftOver(r, AllowedInputs(r)) \subseteq RunnersOf(s)
  <1>1. AllowedInputs(r) \subseteq ToSet(InputStrings[s])
    BY InputsTyped
  <1>2. \A i \in AllowedInputs(r) : Advanced(r, i) \in RunnersOf(s) /\ Evaluated(Advanced(r, i)) \in RunnersOf(s)
    BY <1>1, AdvancedTyped, EvaluationTyped
  <1> QED
    BY <1>2 DEF LeftOver

LEMMA TriedTyped ==
  ASSUME NEW s \in DOMAIN Scripts, NEW r \in RunnersOf(s), r.step < MaxSteps
  PROVE  Tried(r) \subseteq ToSet(InputStrings[s])
  <1>1. AllowedInputs(r) \subseteq ToSet(InputStrings[s])
    BY InputsTyped
  <1>2. LeftOver(r, AllowedInputs(r)) \subseteq RunnersOf(s)
    BY LeftOverTyped
  <1>3. \A q \in LeftOver(r, AllowedInputs(r)) : CandidateInputs(q) \subseteq ToSet(InputStrings[s])
    BY <1>2, InputsTyped
  <1> QED
    BY <1>1, <1>3 DEF Tried

\* The inputs of a stored state, by their numbers in its history.
LEMMA HistoryTyped ==
  ASSUME NEW s \in DOMAIN Scripts, NEW stored \in StoredOf(s), stored.step <= MaxSteps
  PROVE  /\ InputHistory(s, stored) \in Seq(ToSet(InputStrings[s]))
         /\ Len(InputHistory(s, stored)) = stored.step
         /\ stored.step \in Nat
  <1>1. InputStrings[s] \in Seq(STRING) /\ Len(InputStrings[s]) \in Nat
    BY InputsRegistered, LenProperties
  <1>2. stored.step \in 0 .. MaxSteps /\ stored.history \in Histories(s) /\ MaxSteps \in Nat
    BY RunnerAssumption DEF StoredOf
  <1>3. ASSUME NEW k \in 1 .. stored.step
        PROVE  InputString(s, stored.history[k - 1]) \in ToSet(InputStrings[s])
    <2>1. k - 1 \in 0 .. MaxSteps - 1
      BY <1>2
    <2>2. stored.history[k - 1] \in 0 .. Len(InputStrings[s]) - 1
      BY <1>2, <2>1 DEF Histories
    <2>3. stored.history[k - 1] + 1 \in DOMAIN InputStrings[s]
      BY <1>1, <2>2, LenProperties
    <2> QED
      BY <2>3 DEF InputString, ToSet
  <1>4. InputHistory(s, stored) \in [1 .. stored.step -> ToSet(InputStrings[s])]
    BY <1>3 DEF InputHistory
  <1> QED
    BY <1>2, <1>4, SeqDef, LenProperties
-----------------------------------------------------------------------------
(* Types.                                                                  *)

\* What the player does to the emulator of its runner.
Pictures == Cores \union {NoPicture}
EmulatorReplaced(s, r, e) == [r EXCEPT !.game = [r.game EXCEPT !.emulator = e]]

LEMMA EmulatorReplacedTyped ==
  ASSUME NEW s \in DOMAIN Scripts, NEW r \in RunnersOf(s), NEW e \in Emulators,
         e.core = r.game.emulator.core, Scripts[s].disabled \/ e.enabled
  PROVE  /\ EmulatorReplaced(s, r, e) \in RunnersOf(s)
         /\ EmulatorReplaced(s, r, e).step = r.step
  <1> DEFINE g == r.game
             h == [g EXCEPT !.emulator = e]
  <1>1. g \in GamesOf(s) /\ g \in Games
    BY DEF RunnersOf, GamesOf
  <1>2. h \in Games /\ h.emulator = e /\ \A field \in DOMAIN g \ {"emulator"} : h[field] = g[field]
    BY <1>1 DEF Games
  <1>3. h \in GamesOf(s)
    <2>1. h.script = g.script /\ h.magnets = g.magnets /\ h.status = g.status
      BY <1>1, <1>2 DEF Games
    <2> HIDE DEF h
    <2> QED
      BY <1>1, <1>2, <2>1 DEF GamesOf
  <1> HIDE DEF h, g
  <1> QED
    BY <1>3, GameReplaced DEF EmulatorReplaced, h, g, RunnersOf

LEMMA ShownEmulators ==
  ASSUME NEW e \in Emulators
  PROVE  /\ \A f \in {EnableRendering(e), EnableStateProperties(e), UpdateRendererState(e)} :
               f \in Emulators /\ f.core = e.core /\ (e.enabled => f.enabled)
         /\ \A picture \in Pictures : /\ DeserializeRendererState(e, picture) \in Emulators
                                      /\ DeserializeRendererState(e, picture).core = e.core
                                      /\ DeserializeRendererState(e, picture).enabled = e.enabled
BY DEF EnableRendering, EnableStateProperties, UpdateRendererState, DeserializeRendererState, Emulators, Pictures

\* The steps of a playback are those of the states recorded.
Recorded(s) == [state : StoredOf(s), picture : Pictures]
SearchTyped(s) ==
    /\ runner \in RunnersOf(s)
    /\ slots \in [Slots -> StoredOf(s) \union {NoState}]
    /\ \A n \in Slots : slots[n] # NoState => slots[n].step <= MaxSteps
    /\ solution = <<>> /\ sequence = <<>> /\ initialState = NoState /\ currentStep = 0
    /\ isReproduce = FALSE /\ isReload = FALSE
PlayerTyped(s) ==
    /\ runner \in RunnersOf(s)
    /\ slots = [n \in Slots |-> NoState]
    /\ solution \in Seq(ToSet(InputStrings[s])) /\ Length <= MaxSteps
    /\ initialState \in StoredOf(s) /\ initialState.step = 0
    /\ sequence \in Seq(Recorded(s)) /\ Len(sequence) <= Length + 1
    /\ \A i \in DOMAIN sequence : sequence[i].state.step = i - 1
    /\ pc = "record" => Len(sequence) <= Length /\ runner.step = Len(sequence)
    /\ pc # "record" => Len(sequence) = Length + 1
    /\ currentStep \in 0 .. Length
    /\ isReproduce \in BOOLEAN /\ isReload \in BOOLEAN
Typing == /\ pc \in {"search", "record", "show", "command", "ended"}
          /\ Script \in DOMAIN Scripts
          /\ pc = "search" => SearchTyped(Script)
          /\ pc # "search" => PlayerTyped(Script)

LEMMA TypingImpliesTypeOK == Typing => TypeOK
  <1> SUFFICES ASSUME Typing PROVE TypeOK
    OBVIOUS
  <1> DEFINE s == Script
  <1>1. s \in DOMAIN Scripts /\ runner \in RunnersOf(s)
    BY DEF Typing, SearchTyped, PlayerTyped
  <1>2. runner.game \in Games /\ SerializeRunner(runner) \in StoredRunners /\ StoredOf(s) \subseteq StoredRunners
    BY <1>1, StoredTyped DEF RunnersOf, GamesOf
  <1>3. Inputs = ToSet(InputStrings[s])
    BY DEF Inputs
  <1> HIDE DEF s
  <1>4. CASE pc = "search"
    <2>1. SearchTyped(s)
      BY <1>4 DEF Typing, s
    <2>2. solution \in Seq(Inputs) /\ Length = 0 /\ currentStep \in 0 .. Length
      BY <2>1, EmptySeq DEF SearchTyped, Length
    <2>3. sequence \in Seq([state : StoredRunners, picture : Cores \union {NoPicture}])
      BY <2>1, EmptySeq DEF SearchTyped
    <2> QED
      BY <1>2, <1>4, <2>1, <2>2, <2>3 DEF SearchTyped, TypeOK
  <1>5. CASE pc # "search"
    <2>1. PlayerTyped(s) /\ pc \in {"search", "record", "show", "command", "ended"}
      BY <1>5 DEF Typing, s
    <2>2. Recorded(s) \subseteq [state : StoredRunners, picture : Cores \union {NoPicture}]
      BY <1>2 DEF Recorded, Pictures
    <2>3. sequence \in Seq([state : StoredRunners, picture : Cores \union {NoPicture}])
      <3>1. sequence \in Seq(Recorded(s))
        BY <2>1 DEF PlayerTyped
      <3> QED
        BY <2>2, <3>1, SeqMonotonic
    <2>4. slots \in [Slots -> StoredRunners \union {NoState}]
      BY <2>1 DEF PlayerTyped
    <2> QED
      BY <1>2, <1>3, <2>1, <2>3, <2>4 DEF PlayerTyped, TypeOK
  <1> QED
    BY <1>4, <1>5

LEMMA InitTyping == Init => Typing
  <1> SUFFICES ASSUME Init PROVE Typing
    OBVIOUS
  <1>1. PICK s \in DOMAIN Scripts, garbage \in Uninitialized :
           /\ runner \in {NewRunner(s, garbage), Hashed(FirstState(s, garbage))}
           /\ slots = [n \in Slots |-> IF n = 1 THEN SerializeRunner(FirstState(s, garbage)) ELSE NoState]
    BY DEF Init
  <1>2. FirstState(s, garbage) \in RunnersOf(s) /\ FirstState(s, garbage).step = 0
    BY FirstTyped
  <1>3. runner \in RunnersOf(s) /\ runner.game.script = s
    <2>1. runner \in RunnersOf(s)
      BY <1>1, <1>2, RunnerTyped, EvaluationTyped
    <2> QED
      BY <2>1 DEF RunnersOf, GamesOf
  <1>4. SerializeRunner(FirstState(s, garbage)) \in StoredOf(s) /\ SerializeRunner(FirstState(s, garbage)).step = 0
    BY <1>2, StoredTyped DEF SerializeRunner
  <1>5. MaxSteps \in Nat
    BY RunnerAssumption
  <1>6. SearchTyped(s)
    <2>1. slots \in [Slots -> StoredOf(s) \union {NoState}]
      BY <1>1, <1>4
    <2>2. \A n \in Slots : slots[n] # NoState => slots[n].step <= MaxSteps
      BY <1>1, <1>4, <1>5
    <2> QED
      BY <1>3, <2>1, <2>2 DEF Init, SearchTyped
  <1> QED
    BY <1>1, <1>3, <1>6 DEF Init, Typing, Script

\* What a worker has in its runner when it drops or stores the result of an input.
LEMMA RunInputTyping ==
  ASSUME Typing, NEW n \in Slots, RunInput(n)
  PROVE  Typing'
  <1> DEFINE s == Script
             base == Base(n)
  <1>1. s \in DOMAIN Scripts /\ SearchTyped(s) /\ pc = "search"
    BY DEF Typing, RunInput
  <1>2. runner \in RunnersOf(s) /\ slots[n] \in StoredOf(s) /\ slots[n].step < MaxSteps
    BY <1>1 DEF SearchTyped, RunInput, IsBase
  <1> HIDE DEF s
  <1>3. base \in RunnersOf(s) /\ base.step < MaxSteps
    <2>1. base \in RunnersOf(s)
      BY <1>1, <1>2, StoredTyped DEF Base
    <2>2. base.step = slots[n].step
      BY DEF Base, DeserializeRunner
    <2> HIDE DEF base
    <2> QED
      BY <1>2, <2>1, <2>2
  <1>4. PICK input \in Tried(base) :
           LET advanced == Advanced(base, input)
               evaluated == Evaluated(advanced)
               typed == Typed(evaluated)
           IN \/ RunDropped(advanced) \/ RunDropped(evaluated) \/ RunDropped(typed)
              \/ RunStored(n, Rewarded(typed))
    BY DEF RunInput
  <1> HIDE DEF base
  <1>5. input \in ToSet(InputStrings[s])
    BY <1>1, <1>3, TriedTyped
  <1> DEFINE advanced == Advanced(base, input)
             evaluated == Evaluated(advanced)
             typed == Typed(evaluated)
             OK(r) == r \in RunnersOf(s) /\ r.step = base.step + 1
  <1>6. OK(advanced)
    BY <1>1, <1>3, <1>5, AdvancedTyped
  <1> HIDE DEF advanced
  <1>7. OK(evaluated)
    BY <1>1, <1>6, EvaluationTyped
  <1> HIDE DEF evaluated
  <1>8. OK(typed)
    BY <1>1, <1>7, EvaluationTyped
  <1> HIDE DEF typed
  <1>9. OK(Rewarded(typed))
    BY <1>1, <1>8, EvaluationTyped
  <1>10. PICK r : OK(r) /\ (RunDropped(r) \/ RunStored(n, r))
    BY <1>4, <1>6, <1>7, <1>8, <1>9 DEF advanced, evaluated, typed
  <1>11. runner' = r /\ runner'.game.script = s
    BY <1>10 DEF RunDropped, RunStored, RunnersOf, GamesOf
  <1>12. /\ slots' \in [Slots -> StoredOf(s) \union {NoState}]
         /\ \A k \in Slots : slots'[k] # NoState => slots'[k].step <= MaxSteps
    <2>1. CASE UNCHANGED slots
      BY <1>1, <2>1 DEF SearchTyped
    <2>2. CASE RunStored(n, r)
      <3>1. PICK other \in Slots : slots' = [slots EXCEPT ![other] = SerializeRunner(r)]
        BY <2>2 DEF RunStored
      <3>2. SerializeRunner(r) \in StoredOf(s) /\ SerializeRunner(r).step <= MaxSteps
        <4>1. SerializeRunner(r) \in StoredOf(s)
          BY <1>1, <1>10, StoredTyped
        <4>2. SerializeRunner(r).step = base.step + 1
          BY <1>10 DEF SerializeRunner
        <4> QED
          BY <1>3, <4>1, <4>2, RunnerAssumption DEF RunnersOf
      <3> QED
        BY <1>1, <3>1, <3>2 DEF SearchTyped
    <2> QED
      BY <1>10, <2>1, <2>2 DEF RunDropped
  <1>13. SearchTyped(s)'
    <2>1. UNCHANGED <<solution, sequence, initialState, currentStep, isReproduce, isReload>>
      BY DEF RunInput, playerVars
    <2>2. s' = s
      BY <1>11 DEF s, Script
    <2> QED
      BY <1>1, <1>10, <1>11, <1>12, <2>1, <2>2 DEF SearchTyped
  <1> QED
    BY <1>1, <1>11, <1>13 DEF Typing, s, Script, RunInput

LEMMA StartTyping == Typing /\ StartPlayer => Typing'
  <1> SUFFICES ASSUME Typing, StartPlayer PROVE Typing'
    OBVIOUS
  <1> DEFINE s == Script
  <1>1. s \in DOMAIN Scripts /\ SearchTyped(s)
    BY DEF Typing, StartPlayer
  <1>2. PICK n \in Slots : slots[n] # NoState /\ solution' = InputHistory(s, slots[n])
    BY DEF StartPlayer
  <1>3. PICK garbage \in Uninitialized :
           LET new == NewRunner(s, garbage)
               shown == IF options'.disableRender THEN new
                        ELSE [new EXCEPT !.game.emulator = EnableRendering(@)]
           IN /\ runner' = [shown EXCEPT !.game.emulator = EnableStateProperties(@)]
              /\ initialState' = SerializeRunner(Prepared(shown))
    BY DEF StartPlayer
  <1> HIDE DEF s
  <1> DEFINE new == NewRunner(s, garbage)
             shown == IF options'.disableRender THEN new
                      ELSE [new EXCEPT !.game.emulator = EnableRendering(@)]
             OK(r) == r \in RunnersOf(s) /\ r.step = 0
  <1>4. OK(new)
    BY <1>1, RunnerTyped
  <1> HIDE DEF new
  <1>5. ASSUME NEW r, OK(r), NEW e \in {EnableRendering(r.game.emulator), EnableStateProperties(r.game.emulator)}
        PROVE  OK([r EXCEPT !.game.emulator = e])
    <2>1. r.game.emulator \in Emulators /\ (Scripts[s].disabled \/ r.game.emulator.enabled)
      BY <1>5 DEF RunnersOf, GamesOf, Games
    <2>2. e \in Emulators /\ e.core = r.game.emulator.core /\ (r.game.emulator.enabled => e.enabled)
      BY <2>1, ShownEmulators
    <2>3. OK(EmulatorReplaced(s, r, e))
      BY <1>1, <1>5, <2>1, <2>2, EmulatorReplacedTyped
    <2> QED
      BY <2>3 DEF EmulatorReplaced
  <1>6. OK(shown)
    BY <1>4, <1>5
  <1>7. runner' = [shown EXCEPT !.game.emulator = EnableStateProperties(shown.game.emulator)]
    BY <1>3 DEF new
  <1>8. Prepared(shown) = [shown EXCEPT !.game.emulator = EnableStateProperties(shown.game.emulator)]
    BY DEF Prepared
  <1>9. initialState' = SerializeRunner(Prepared(shown))
    BY <1>3 DEF new
  <1> HIDE DEF shown
  <1>10. OK([shown EXCEPT !.game.emulator = EnableStateProperties(shown.game.emulator)])
    BY <1>5, <1>6
  <1>11. OK(runner') /\ OK(Prepared(shown))
    BY <1>7, <1>8, <1>10
  <1>12. initialState' \in StoredOf(s) /\ initialState'.step = 0
    BY <1>1, <1>9, <1>11, StoredTyped DEF SerializeRunner
  <1>13. solution' \in Seq(ToSet(InputStrings[s])) /\ Len(solution') <= MaxSteps /\ Len(solution') \in Nat
    <2>1. slots[n] \in StoredOf(s) /\ slots[n].step <= MaxSteps
      BY <1>1, <1>2 DEF SearchTyped
    <2> QED
      BY <1>1, <1>2, <2>1, HistoryTyped
  <1>14. runner'.game.script = s
    BY <1>11 DEF RunnersOf, GamesOf
  <1>15. /\ slots' = [k \in Slots |-> NoState] /\ sequence' = <<>> /\ currentStep' = 0 /\ pc' = "record"
         /\ isReproduce' \in BOOLEAN /\ isReload' \in BOOLEAN
    BY DEF StartPlayer
  <1>16. sequence' \in Seq(Recorded(s)) /\ Len(sequence') = 0 /\ DOMAIN sequence' = {}
    BY <1>15, EmptySeq
  <1>17. PlayerTyped(s)'
    <2>1. s' = s
      BY <1>14 DEF s, Script
    <2> QED
      BY <1>11, <1>12, <1>13, <1>15, <1>16, <2>1 DEF PlayerTyped, Length
  <1> QED
    BY <1>1, <1>14, <1>15, <1>17 DEF Typing, s, Script

\* A playback's steps are those recorded before and the one that the runner is at.
LEMMA RecordTyping == Typing /\ RecordStep => Typing' /\ Script' = Script
  <1> SUFFICES ASSUME Typing, RecordStep PROVE Typing' /\ Script' = Script
    OBVIOUS
  <1> DEFINE s == Script
             input == IF Len(sequence) < Length THEN solution[Len(sequence) + 1] ELSE InputString(s, 0)
             hashed == Hashed(runner)
             drawn == [hashed EXCEPT !.game.emulator = UpdateRendererState(@)]
             recorded == [state |-> SerializeRunner(hashed), picture |-> drawn.game.emulator.curBlit]
             advanced == AdvanceUnrecorded(drawn, input)
  <1>1. s \in DOMAIN Scripts /\ PlayerTyped(s) /\ pc = "record"
    BY DEF Typing, RecordStep
  <1>2. /\ sequence' = Append(sequence, recorded)
        /\ runner' = [advanced EXCEPT !.game = Judge(@)]
        /\ pc' = IF Len(sequence) < Length THEN "record" ELSE "show"
        /\ UNCHANGED <<slots, solution, initialState, currentStep, isReproduce, isReload>>
    BY DEF RecordStep
  <1> HIDE DEF s
  <1>3. /\ runner \in RunnersOf(s) /\ runner.step = Len(sequence)
        /\ sequence \in Seq(Recorded(s)) /\ solution \in Seq(ToSet(InputStrings[s]))
        /\ Length <= MaxSteps /\ Len(sequence) <= Length
        /\ \A i \in DOMAIN sequence : sequence[i].state.step = i - 1
    BY <1>1 DEF PlayerTyped
  <1>4. Len(sequence) \in Nat /\ Length \in Nat /\ MaxSteps \in Nat /\ DOMAIN sequence = 1 .. Len(sequence)
    BY <1>3, LenProperties, RunnerAssumption DEF Length
  <1>5. input \in ToSet(InputStrings[s])
    <2>1. CASE Len(sequence) < Length
      <3>1. Len(sequence) + 1 \in 1 .. Len(solution)
        BY <1>4, <2>1 DEF Length
      <3>2. solution[Len(sequence) + 1] \in ToSet(InputStrings[s])
        BY <1>3, <3>1, ElementOfSeq
      <3> QED
        BY <2>1, <3>2
    <2>2. CASE ~(Len(sequence) < Length)
      <3>1. InputStrings[s] \in Seq(STRING) /\ InputStrings[s] # <<>>
        BY <1>1, InputsRegistered, RunnerAssumption
      <3>2. 1 \in DOMAIN InputStrings[s]
        BY <3>1, LenProperties, EmptySeq
      <3>3. InputString(s, 0) \in ToSet(InputStrings[s])
        BY <3>2 DEF InputString, ToSet
      <3> QED
        BY <2>2, <3>3
    <2> QED
      BY <2>1, <2>2
  <1> HIDE DEF input
  <1>6. hashed \in RunnersOf(s) /\ hashed.step = runner.step
    BY <1>1, <1>3, EvaluationTyped
  <1>7. drawn \in RunnersOf(s) /\ drawn.step = runner.step
    <2> DEFINE e == UpdateRendererState(hashed.game.emulator)
    <2> HIDE DEF hashed
    <2>1. hashed.game.emulator \in Emulators /\ (Scripts[s].disabled \/ hashed.game.emulator.enabled)
      BY <1>6 DEF RunnersOf, GamesOf, Games
    <2>2. e \in Emulators /\ e.core = hashed.game.emulator.core /\ (hashed.game.emulator.enabled => e.enabled)
      BY <2>1, ShownEmulators
    <2> HIDE DEF e
    <2>3. EmulatorReplaced(s, hashed, e) \in RunnersOf(s) /\ EmulatorReplaced(s, hashed, e).step = hashed.step
      BY <1>1, <1>6, <2>1, <2>2, EmulatorReplacedTyped
    <2>4. drawn = EmulatorReplaced(s, hashed, e)
      BY DEF EmulatorReplaced, e
    <2> QED
      BY <1>6, <2>3, <2>4
  <1>8. recorded \in Recorded(s) /\ recorded.state.step = Len(sequence)
    <2>1. drawn.game.emulator.curBlit \in Pictures
      <3> HIDE DEF drawn
      <3> QED
        BY <1>7 DEF RunnersOf, GamesOf, Games, Emulators, Pictures
    <2>2. SerializeRunner(hashed) \in StoredOf(s) /\ SerializeRunner(hashed).step = hashed.step
      <3> HIDE DEF hashed
      <3> QED
        BY <1>1, <1>6, StoredTyped DEF SerializeRunner
    <2> HIDE DEF drawn, hashed
    <2> QED
      BY <1>3, <1>6, <2>1, <2>2 DEF Recorded
  <1> HIDE DEF drawn, recorded
  <1>9. advanced \in RunnersOf(s) /\ advanced.step = Len(sequence) + 1
    <2>1. drawn.step = Len(sequence) /\ drawn.step <= MaxSteps
      BY <1>3, <1>4, <1>7
    <2>2. AdvanceUnrecorded(drawn, input) \in RunnersOf(s) /\ AdvanceUnrecorded(drawn, input).step = drawn.step + 1
      BY <1>1, <1>5, <1>7, <2>1, AdvancedTyped
    <2> QED
      BY <2>1, <2>2
  <1> HIDE DEF advanced
  <1>10. runner' \in RunnersOf(s) /\ runner'.step = Len(sequence) + 1
    <2>1. advanced.game \in GamesOf(s)
      BY <1>9 DEF RunnersOf
    <2>2. Judge(advanced.game) \in GamesOf(s)
      BY <1>1, <2>1, JudgeTyped, JudgedFurther
    <2>3. [advanced EXCEPT !.game = Judge(advanced.game)].step = advanced.step
      BY <1>9 DEF RunnersOf
    <2> QED
      BY <1>1, <1>2, <1>9, <2>2, <2>3, GameReplaced
  <1>11. /\ sequence' \in Seq(Recorded(s)) /\ Len(sequence') = Len(sequence) + 1
         /\ DOMAIN sequence' = 1 .. Len(sequence) + 1
         /\ \A i \in DOMAIN sequence' : sequence'[i].state.step = i - 1
    <2>1. /\ sequence' \in Seq(Recorded(s)) /\ Len(sequence') = Len(sequence) + 1
          /\ \A i \in 1 .. Len(sequence) : sequence'[i] = sequence[i]
          /\ sequence'[Len(sequence) + 1] = recorded
      BY <1>2, <1>3, <1>8, AppendProperties
    <2>2. DOMAIN sequence' = 1 .. Len(sequence) + 1
      BY <2>1, LenProperties
    <2> QED
      BY <1>3, <1>4, <1>8, <2>1, <2>2
  <1>12. runner'.game.script = s
    BY <1>10 DEF RunnersOf, GamesOf
  <1>13. PlayerTyped(s)'
    <2>1. s' = s /\ Length' = Length
      BY <1>2, <1>12 DEF s, Script, Length
    <2> QED
      BY <1>1, <1>2, <1>4, <1>10, <1>11, <2>1 DEF PlayerTyped
  <1> QED
    BY <1>1, <1>2, <1>12, <1>13 DEF Typing, s, Script

LEMMA ShowTyping == Typing /\ ShowStep => Typing' /\ Script' = Script
  <1> SUFFICES ASSUME Typing, ShowStep PROVE Typing' /\ Script' = Script
    OBVIOUS
  <1> DEFINE s == Script
             step == sequence[currentStep + 1]
             framed == RenderFrame(runner, step)
  <1>1. s \in DOMAIN Scripts /\ PlayerTyped(s) /\ pc = "show"
    BY DEF Typing, ShowStep
  <1>2. runner' = DeserializeRunner(framed, step.state) /\ pc' = "command" /\ UNCHANGED <<slots, playerVars>>
    BY DEF ShowStep
  <1> HIDE DEF s
  <1>3. step \in Recorded(s)
    <2>1. sequence \in Seq(Recorded(s)) /\ currentStep \in 0 .. Length /\ Len(sequence) = Length + 1
      BY <1>1 DEF PlayerTyped
    <2>2. Length \in Nat
      BY <1>1, LenProperties DEF PlayerTyped, Length
    <2>3. currentStep + 1 \in 1 .. Len(sequence)
      BY <2>1, <2>2
    <2> QED
      BY <2>1, <2>3, ElementOfSeq
  <1> HIDE DEF step
  <1>4. framed \in RunnersOf(s)
    <2>1. runner \in RunnersOf(s)
      BY <1>1 DEF PlayerTyped
    <2> DEFINE e == DeserializeRendererState(runner.game.emulator, step.picture)
    <2>2. runner.game.emulator \in Emulators /\ (Scripts[s].disabled \/ runner.game.emulator.enabled)
      BY <2>1 DEF RunnersOf, GamesOf, Games
    <2>3. step.picture \in Pictures
      BY <1>3 DEF Recorded
    <2>4. e \in Emulators /\ e.core = runner.game.emulator.core /\ e.enabled = runner.game.emulator.enabled
      BY <2>2, <2>3, ShownEmulators
    <2> HIDE DEF e
    <2>5. EmulatorReplaced(s, runner, e) \in RunnersOf(s)
      BY <1>1, <2>1, <2>2, <2>4, EmulatorReplacedTyped
    <2>6. framed \in {runner, EmulatorReplaced(s, runner, e)}
      BY DEF RenderFrame, EmulatorReplaced, e
    <2> QED
      BY <2>1, <2>5, <2>6
  <1> HIDE DEF framed
  <1>5. runner' \in RunnersOf(s) /\ runner'.game.script = s
    <2>1. step.state \in StoredOf(s)
      BY <1>3 DEF Recorded
    <2>2. runner' \in RunnersOf(s)
      BY <1>1, <1>2, <1>4, <2>1, StoredTyped
    <2> QED
      BY <2>2 DEF RunnersOf, GamesOf
  <1>6. PlayerTyped(s)'
    <2>1. s' = s
      BY <1>5 DEF s, Script
    <2> QED
      BY <1>1, <1>2, <1>5, <2>1 DEF PlayerTyped, Length, playerVars
  <1> QED
    BY <1>1, <1>2, <1>5, <1>6 DEF Typing, s, Script

LEMMA PairIsFinite ==
  ASSUME NEW x, NEW y
  PROVE  IsFiniteSet({x, y})
  <1>1. IsFiniteSet({x}) /\ {x, y} = {x} \union {y}
    BY FS_Singleton
  <1> QED
    BY <1>1, FS_AddElement

LEMMA ClampedTyped ==
  ASSUME NEW step \in Int, Length \in Nat
  PROVE  Clamped(step) \in 0 .. Length
  <1> DEFINE low == {step, Length}
             high == {0, Min(low)}
  <1>1. IsFiniteSet(low) /\ low \subseteq Int /\ low # {} /\ Length \in low
    <2>1. IsFiniteSet(low)
      BY PairIsFinite
    <2> QED
      BY <2>1
  <1>2. Min(low) \in low /\ Min(low) <= Length
    <2> HIDE DEF low
    <2> QED
      BY <1>1, Extremes
  <1>3. Min(low) \in Int
    BY <1>1, <1>2
  <1> DEFINE m == Min(low)
  <1> HIDE DEF m
  <1> DEFINE top == {0, m}
  <1>4. m \in Int /\ m <= Length
    BY <1>2, <1>3 DEF m
  <1>5. IsFiniteSet(top) /\ top \subseteq Int /\ top # {} /\ 0 \in top
    <2>1. IsFiniteSet(top)
      BY PairIsFinite
    <2> QED
      BY <1>4, <2>1
  <1>6. Max(top) \in top /\ Max(top) >= 0
    <2> HIDE DEF top
    <2> QED
      BY <1>5, Extremes
  <1>7. Max(top) \in 0 .. Length
    BY <1>4, <1>6
  <1> QED
    BY <1>7 DEF Clamped, m

LEMMA CommandTyping == Typing /\ Command => Typing' /\ Script' = Script
  <1> SUFFICES ASSUME Typing, NEW key \in KeysRead, Finish(key) \/ Restart(key) \/ MoveTo(key)
               PROVE  Typing' /\ Script' = Script
    BY DEF Command
  <1>1. /\ Script \in DOMAIN Scripts /\ PlayerTyped(Script) /\ pc = "command"
        /\ Length \in Nat /\ runner \in RunnersOf(Script) /\ currentStep \in Nat
    <2>1. Script \in DOMAIN Scripts /\ PlayerTyped(Script) /\ pc = "command"
      BY DEF Typing, Finish, Restart, MoveTo
    <2>2. Length \in Nat
      BY <2>1, LenProperties DEF PlayerTyped, Length
    <2> QED
      BY <2>1, <2>2 DEF PlayerTyped
  <1>2. CASE Finish(key)
    <2>1. UNCHANGED <<runner, slots, playerVars>> /\ pc' = "ended"
      BY <1>2 DEF Finish
    <2> QED
      BY <1>1, <2>1 DEF Typing, PlayerTyped, Script, Length, playerVars
  <1>3. CASE Restart(key)
    <2> DEFINE s == Script
    <2>1. /\ runner' = DeserializeRunner(runner, initialState) /\ sequence' = <<>> /\ currentStep' = 0
          /\ pc' = "record" /\ UNCHANGED <<slots, solution, initialState, isReproduce, isReload>>
      BY <1>3 DEF Restart
    <2>2. s \in DOMAIN Scripts /\ PlayerTyped(s) /\ runner \in RunnersOf(s)
      BY <1>1
    <2> HIDE DEF s
    <2>3. initialState \in StoredOf(s) /\ initialState.step = 0
      BY <2>2 DEF PlayerTyped
    <2>4. runner' \in RunnersOf(s) /\ runner'.step = 0
      BY <2>1, <2>2, <2>3, StoredTyped DEF DeserializeRunner
    <2>5. runner'.game.script = s
      BY <2>4 DEF RunnersOf, GamesOf
    <2>6. s' = s /\ Length' = Length
      BY <2>1, <2>5 DEF s, Script, Length
    <2>7. sequence' \in Seq(Recorded(s)) /\ Len(sequence') = 0 /\ DOMAIN sequence' = {}
      BY <2>1, EmptySeq
    <2>8. PlayerTyped(s)'
      BY <1>1, <2>1, <2>2, <2>4, <2>6, <2>7 DEF PlayerTyped
    <2> QED
      BY <2>1, <2>2, <2>5, <2>8 DEF Typing, s, Script
  <1>4. CASE MoveTo(key)
    <2>1. /\ currentStep' = Clamped(NextStep(key)) /\ isReproduce' \in BOOLEAN /\ isReload' \in BOOLEAN
          /\ pc' \in {"ended", "show"} /\ UNCHANGED <<runner, slots, solution, initialState, sequence>>
      BY <1>4 DEF MoveTo
    <2>2. NextStep(key) \in Int
      <3>1. \A k \in DOMAIN Offset : Offset[k] \in Int
        BY DEF Offset
      <3> QED
        BY <1>1, <3>1 DEF NextStep
    <2>3. currentStep' \in 0 .. Length
      BY <1>1, <2>1, <2>2, ClampedTyped
    <2> QED
      BY <1>1, <2>1, <2>3 DEF Typing, PlayerTyped, Script, Length
  <1> QED
    BY <1>2, <1>3, <1>4

\* Each step of the search and of the playback keeps the invariant.
LEMMA NextTyping == Typing /\ [Next]_vars => Typing'
  <1> SUFFICES ASSUME Typing, [Next]_vars PROVE Typing'
    OBVIOUS
  <1>1. CASE \E n \in Slots : RunInput(n)
    BY <1>1, RunInputTyping
  <1>2. CASE StartPlayer
    BY <1>2, StartTyping
  <1>3. CASE Player
    BY <1>3, RecordTyping, ShowTyping, CommandTyping DEF Player
  <1>4. CASE UNCHANGED vars
    BY <1>4 DEF vars, playerVars, Typing, SearchTyped, PlayerTyped, Script, Length
  <1> QED
    BY <1>1, <1>2, <1>3, <1>4 DEF Next

\* Types are kept, and the sequence has a state for each step that may be moved to.
THEOREM TypeCorrect == Spec => []TypeOK
  <1>1. Typing /\ [Next]_vars => Typing'
    BY NextTyping
  <1> QED
    BY <1>1, InitTyping, TypingImpliesTypeOK, PTL DEF Spec
-----------------------------------------------------------------------------
(* The way of a solution.                                                  *)

\* The core that a path leads to is what each input makes of the one before.
LEMMA CoreAfterFacts ==
  ASSUME NEW s \in DOMAIN Scripts
  PROVE  /\ CoreAfter(s, <<>>) = NewRunner(s, Unused).game.emulator.core
         /\ \A p \in Paths(s) : CoreAfter(s, p) \in CoresOf(s)
         /\ \A p \in Paths(s), i \in ToSet(InputStrings[s]) :
               CoreAfter(s, Append(p, i)) = AdvanceCore[CoreAfter(s, p)][i]
  <1> DEFINE I == ToSet(InputStrings[s])
             A == CoresOf(s)
             b == NewRunner(s, Unused).game.emulator.core
             IsAfter(f) == f = [p \in Seq(I) |-> IF p = <<>> THEN b ELSE AdvanceCore[f[Front(p)]][Last(p)]]
             after == CHOOSE f : IsAfter(f)
             G == [p \in Seq(I) |-> [c \in A |-> AdvanceCore[c][Last(p)]]]
             W == Seq(I) \ {<<>>}
             H == [p \in Seq(I) |-> [c \in A |-> IF p = <<>> THEN b ELSE G[p][c]]]
  <1>1. \A p : CoreAfter(s, p) = after[p]
    BY DEF CoreAfter, Paths
  <1>2. b \in A
    <2>1. Unused \in Uninitialized
      BY GarbageAssumption DEF Unused
    <2>2. NewRunner(s, Unused).game \in GamesOf(s)
      BY <2>1, RunnerTyped DEF RunnersOf
    <2> QED
      BY <2>2 DEF GamesOf
  <1>3. \A i \in I, c \in A : AdvanceCore[c][i] \in A
    BY CoresAssumption DEF InputsGiven
  <1>4. \A p \in W, c \in A : G[p][c] = AdvanceCore[c][Last(p)] /\ G[p][c] \in A
    <2>1. \A p \in W : Last(p) \in I
      BY FrontLast
    <2> QED
      BY <1>3, <2>1
  <1> HIDE DEF A, b, G, I
  <1>5. PICK f \in [Seq(I) -> A] : IsSeqRecursion(f, I, b, H)
    <2>1. StepsWithin(H, Seq(I), A)
      BY <1>2, <1>4 DEF StepsWithin
    <2> HIDE DEF H
    <2> QED
      BY <1>2, <2>1, SeqRecursion
  <1>6. \A p \in W : Front(p) \in Seq(I) /\ Last(p) \in I
    BY FrontLast
  <1>7. IsAfter(f)
    <2>1. \A p \in Seq(I) : f[p] = IF p = <<>> THEN b ELSE AdvanceCore[f[Front(p)]][Last(p)]
      BY <1>4, <1>5, <1>6 DEF IsSeqRecursion
    <2> QED
      BY <1>5, <2>1
  <1>8. \A p \in Seq(I) : after[p] = IF p = <<>> THEN b ELSE AdvanceCore[after[Front(p)]][Last(p)]
    <2>1. IsAfter(after)
      BY <1>7
    <2> HIDE DEF after
    <2> QED
      BY <2>1
  <1> HIDE DEF after
  <1>9. after[<<>>] = b
    BY <1>8, EmptySeq
  <1>10. \A p \in Seq(I), i \in I : after[Append(p, i)] = AdvanceCore[after[p]][i]
    <2> TAKE p \in Seq(I), i \in I
    <2>1. /\ Append(p, i) \in Seq(I) /\ Append(p, i) # <<>>
          /\ Front(Append(p, i)) = p /\ Last(Append(p, i)) = i
      BY FrontOfAppend
    <2> QED
      BY <1>8, <2>1
  <1>11. \A p \in Seq(I) : after[p] \in A
    <2> DEFINE Good == {n \in Nat : \A p \in Seq(I) : Len(p) = n => after[p] \in A}
    <2>1. 0 \in Good
      BY <1>2, <1>9, EmptySeq
    <2>2. ASSUME NEW n \in Nat, n \in Good PROVE n + 1 \in Good
      <3> SUFFICES ASSUME NEW p \in Seq(I), Len(p) = n + 1 PROVE after[p] \in A
        OBVIOUS
      <3>1. p # <<>>
        BY EmptySeq
      <3>2. Front(p) \in Seq(I) /\ Len(Front(p)) = Len(p) - 1 /\ Last(p) \in I
        BY <3>1, FrontLast
      <3>4. Len(Front(p)) = n
        BY <2>2, <3>2
      <3> QED
        BY <1>3, <1>8, <2>2, <3>1, <3>2, <3>4
    <2>3. Nat \subseteq Good
      <3> HIDE DEF Good
      <3> QED
        BY <2>1, <2>2, NatSetInduction
    <2> QED
      BY <2>3, LenProperties
  <1> QED
    BY <1>1, <1>9, <1>10, <1>11 DEF A, b, I, Paths

\* An emulator, or a state stored of one, after the inputs of a path.
Follows(s, e, path) == /\ e.core = CoreAfter(s, path)
                       /\ e.block = (Len(Scripts[s].initialSequence) + Len(path)) % 2
Played(n) == SubSeq(solution, 1, n)
StoresAll(stored) == stored.game.emulator \in [core : Cores, written : 0 .. Byte - 1, block : {0, 1}]
Window == ~options.disableRender

\* With a window, the picture recorded for a step is taken over from the frame that its
\* input drew; every state of the playback has all blocks.
RunnerFollows(s) ==
    /\ runner.game.emulator.enabled
    /\ Scripts[s].game # PrinceOfPersia => runner.game.kidPosY = 0
    /\ Window => Scripts[s].game = Sprilo /\ runner.game.emulator.rendering
    /\ pc = "record" => /\ Follows(s, runner.game.emulator, Played(Len(sequence)))
                        /\ Window /\ Len(sequence) > 0 => runner.game.emulator.frame = runner.game.emulator.core
    /\ pc = "command" =>
          /\ Follows(s, runner.game.emulator, Played(currentStep))
          /\ Window /\ currentStep > 0 => runner.game.emulator.curBlit = runner.game.emulator.core
          /\ runner.game.kidPosY = Height(s, runner.game.emulator.core, 0)
SequenceFollows(s) ==
    \A i \in DOMAIN sequence :
        /\ StoresAll(sequence[i].state) /\ Follows(s, sequence[i].state.game.emulator, Played(i - 1))
        /\ Window /\ i > 1 => sequence[i].picture = sequence[i].state.game.emulator.core
Following ==
    pc # "search" => /\ RunnerFollows(Script) /\ SequenceFollows(Script)
                     /\ StoresAll(initialState) /\ Follows(Script, initialState.game.emulator, <<>>)

\* What is derived from a core and from what is written is seen in a state of the two.
LEMMA SeenFacts ==
  ASSUME NEW s \in DOMAIN Scripts, NEW core \in CoresOf(s), core \in Cores, NEW written \in 0 .. Byte - 1
  PROVE  /\ Seen(s, core, written).script = s
         /\ Seen(s, core, written).emulator.core = core /\ Seen(s, core, written).emulator.written = written
         /\ Seen(s, core, written).kidPosY = Height(s, core, NewGame(s, Unused).kidPosY)
         /\ Scripts[s].game # PrinceOfPersia => NewGame(s, Unused).kidPosY = 0
  <1> DEFINE new == NewGame(s, Unused)
             f == [new.emulator EXCEPT !.core = core, !.written = written]
             seen == [new EXCEPT !.emulator = f]
  <1>1. /\ new \in GamesOf(s) /\ new \in Games /\ new.emulator \in Emulators
        /\ Scripts[s].game # PrinceOfPersia => new.kidPosY = 0
    BY NewGameTyped, GarbageAssumption DEF Unused, GamesOf, Games
  <1>2. Seen(s, core, written) = UpdateDerived[seen]
    BY DEF Seen
  <1> HIDE DEF new
  <1>3. /\ f \in Emulators /\ f.core = core /\ f.written = written /\ f.enabled = new.emulator.enabled
    BY <1>1 DEF Emulators
  <1> HIDE DEF f
  <1>4. seen \in Games
    BY <1>1, <1>3 DEF Games
  <1>5. seen \in GamesOf(s) /\ seen.emulator = f /\ seen.kidPosY = new.kidPosY
    BY <1>1, <1>3, <1>4 DEF GamesOf, Games
  <1>6. seen.script = s /\ {"script", "emulator"} \subseteq DOMAIN seen \ {"kidPosY"}
    BY <1>5 DEF GamesOf, Games
  <1> HIDE DEF seen
  <1>7. /\ UpdateDerived[seen].script = s /\ UpdateDerived[seen].emulator = f
        /\ UpdateDerived[seen].kidPosY = Height(s, f.core, new.kidPosY)
    BY <1>5, <1>6, DerivedTyped
  <1> QED
    BY <1>1, <1>2, <1>3, <1>7 DEF new

LEMMA FollowingShows == Typing /\ Following => ShowsPath
  <1> SUFFICES ASSUME Typing, Following, pc = "command" PROVE ShowsPath
    BY DEF ShowsPath
  <1> DEFINE s == Script
             e == runner.game.emulator
  <1>1. s \in DOMAIN Scripts /\ runner \in RunnersOf(s) /\ RunnerFollows(s)
    BY DEF Typing, PlayerTyped, Following
  <1>2. e \in Emulators /\ e.core \in CoresOf(s)
    BY <1>1 DEF RunnersOf, GamesOf, Games
  <1> HIDE DEF s
  <1>3. /\ Seen(s, e.core, e.written).kidPosY = Height(s, e.core, NewGame(s, Unused).kidPosY)
        /\ Scripts[s].game # PrinceOfPersia => NewGame(s, Unused).kidPosY = 0
    <2>1. e.core \in Cores /\ e.written \in 0 .. Byte - 1
      BY <1>2 DEF Emulators
    <2> HIDE DEF e
    <2> QED
      BY <1>1, <1>2, <2>1, SeenFacts
  <1>4. Seen(s, e.core, e.written).kidPosY = runner.game.kidPosY
    BY <1>1, <1>3 DEF RunnerFollows, Height
  <1>5. Len(Played(currentStep)) = currentStep
    <2>1. solution \in Seq(ToSet(InputStrings[Script])) /\ currentStep \in 0 .. Len(solution)
      BY DEF Typing, PlayerTyped, Length
    <2> QED
      BY <2>1, PrefixFacts DEF Played
  <1>6. Follows(s, e, Played(currentStep))
    BY <1>1 DEF RunnerFollows
  <1>7. e.core = CoreAfter(s, Played(currentStep)) /\ e.block = (Len(Scripts[s].initialSequence) + currentStep) % 2
    BY <1>5, <1>6 DEF Follows
  <1> QED
    BY <1>1, <1>4, <1>7 DEF ShowsPath, RunnerFollows, Window, Played, s

\* What each input makes of the part of the solution that has been played.
LEMMA PlayedFacts ==
  ASSUME NEW s \in DOMAIN Scripts, solution \in Paths(s)
  PROVE  /\ Length \in Nat /\ Played(0) = <<>>
         /\ \A n \in 0 .. Length : Played(n) \in Paths(s) /\ Len(Played(n)) = n
         /\ \A n \in 0 .. Length : n < Length => /\ solution[n + 1] \in ToSet(InputStrings[s])
                                               /\ Played(n + 1) = Append(Played(n), solution[n + 1])
BY PrefixFacts, LenProperties DEF Paths, Played, Length

LEMMA StartFollowing == Typing /\ StartPlayer => Following'
  <1> SUFFICES ASSUME Typing, StartPlayer PROVE Following'
    OBVIOUS
  <1> DEFINE s == Script
  <1>1. s \in DOMAIN Scripts /\ Typing'
    BY StartTyping DEF Typing
  <1>2. /\ options' \in Options(s) /\ sequence' = <<>> /\ currentStep' = 0 /\ pc' = "record"
        /\ \E garbage \in Uninitialized :
              LET new == NewRunner(s, garbage)
                  shown == IF options'.disableRender THEN new
                           ELSE [new EXCEPT !.game.emulator = EnableRendering(@)]
              IN /\ runner' = [shown EXCEPT !.game.emulator = EnableStateProperties(@)]
                 /\ initialState' = SerializeRunner(Prepared(shown))
    BY DEF StartPlayer
  <1> HIDE DEF s
  <1>3. PICK garbage \in Uninitialized :
           LET new == NewRunner(s, garbage)
               shown == IF options'.disableRender THEN new
                        ELSE [new EXCEPT !.game.emulator = EnableRendering(@)]
           IN /\ runner' = [shown EXCEPT !.game.emulator = EnableStateProperties(@)]
              /\ initialState' = SerializeRunner(Prepared(shown))
    BY <1>2
  <1> DEFINE new == NewRunner(s, garbage)
             start == new.game.emulator
             window == ~options'.disableRender
             shown == IF options'.disableRender THEN new
                      ELSE [new EXCEPT !.game.emulator = EnableRendering(@)]
             ready == [shown EXCEPT !.game.emulator = EnableStateProperties(@)]
             IsReady(e) == /\ e.enabled /\ (window => e.rendering) /\ e.core = start.core /\ e.block = start.block
  <1>4. /\ new \in RunnersOf(s) /\ new.game \in StartOf(s, garbage) /\ start \in Emulators
        /\ start.core = NewRunner(s, Unused).game.emulator.core
        /\ start.block = Len(Scripts[s].initialSequence) % 2
    <2>1. new \in RunnersOf(s)
      BY <1>1, RunnerTyped
    <2>2. start \in Emulators
      BY <2>1 DEF RunnersOf, GamesOf, Games
    <2> QED
      BY <1>1, <2>1, <2>2, NewRunnerTyped
  <1> HIDE DEF new
  <1>5. /\ ready.game.emulator \in Emulators /\ IsReady(ready.game.emulator)
        /\ ready.game.kidPosY = new.game.kidPosY
        /\ ready.game.script = s
    <2>1. new.game \in Games /\ new = [game |-> new.game, history |-> new.history, step |-> new.step]
          /\ new.game.script = s
      BY <1>4 DEF RunnersOf, GamesOf
    <2>2. \A e : \A r \in {[new EXCEPT !.game.emulator = e]} :
             /\ r = [game |-> r.game, history |-> r.history, step |-> r.step] /\ r.game.emulator = e
             /\ r.game.kidPosY = new.game.kidPosY /\ r.game.script = s
             /\ DOMAIN r.game = DOMAIN new.game
      BY <2>1 DEF Games
    <2>3. /\ EnableRendering(start) \in Emulators /\ EnableRendering(start).rendering
          /\ EnableRendering(start).core = start.core /\ EnableRendering(start).block = start.block
      BY <1>4 DEF EnableRendering, Emulators
    <2>4. /\ shown.game.emulator \in Emulators /\ (window => shown.game.emulator.rendering)
          /\ shown.game.emulator.core = start.core /\ shown.game.emulator.block = start.block
          /\ shown = [game |-> shown.game, history |-> shown.history, step |-> shown.step]
          /\ DOMAIN shown.game = DOMAIN new.game /\ shown.game.script = s
          /\ shown.game.kidPosY = new.game.kidPosY
      BY <1>4, <2>1, <2>2, <2>3
    <2> HIDE DEF shown
    <2> DEFINE e == EnableStateProperties(shown.game.emulator)
    <2>5. /\ e \in Emulators /\ IsReady(e)
      BY <2>4 DEF EnableStateProperties, Emulators
    <2> HIDE DEF e, IsReady
    <2>6. {"emulator", "kidPosY", "script"} \subseteq DOMAIN shown.game
      BY <2>1, <2>4 DEF Games
    <2>7. ready.game.emulator = e /\ ready.game.kidPosY = shown.game.kidPosY /\ ready.game.script = shown.game.script
      BY <2>4, <2>6 DEF e
    <2> QED
      BY <2>4, <2>5, <2>7
  <1>6. runner' = ready /\ initialState' = SerializeRunner(ready)
    BY <1>3 DEF Prepared, new
  <1> HIDE DEF ready
  <1>7. s' = s
    BY <1>5, <1>6 DEF s, Script
  <1>8. Played(0)' = <<>>
    <2>1. solution' \in Seq(ToSet(InputStrings[s])) /\ Len(solution') \in Nat
      BY <1>1, <1>2, <1>7, LenProperties DEF Typing, PlayerTyped, s
    <2> QED
      BY <1>1, <2>1, PrefixFacts DEF Played
  <1>9. /\ start.core = CoreAfter(s, <<>>) /\ Len(Scripts[s].initialSequence) \in Nat
    BY <1>1, <1>4, CoreAfterFacts, ScriptsAssumption, LenProperties
  <1>10. \A e : IsReady(e) => Follows(s, e, <<>>)
    BY <1>4, <1>9, EmptySeq DEF Follows
  <1>11. /\ initialState'.game.emulator = SerializeEmulator(ready.game.emulator)
         /\ StoresAll(initialState)' /\ IsReady(ready.game.emulator)
         /\ Follows(s, initialState'.game.emulator, <<>>)
    <2> DEFINE e == ready.game.emulator
    <2>1. initialState'.game.emulator = SerializeEmulator(e)
      BY <1>6 DEF SerializeRunner, SerializeGame
    <2>2. e \in Emulators /\ IsReady(e)
      BY <1>5
    <2>3. SerializeEmulator(e) = [core |-> e.core, written |-> e.written, block |-> e.block]
      BY <2>2 DEF SerializeEmulator
    <2> HIDE DEF e
    <2>4. SerializeEmulator(e) \in [core : Cores, written : 0 .. Byte - 1, block : {0, 1}]
      BY <2>2, <2>3 DEF Emulators
    <2>5. Follows(s, SerializeEmulator(e), <<>>)
      BY <1>4, <1>9, <2>2, <2>3, EmptySeq DEF Follows
    <2> QED
      BY <2>1, <2>2, <2>4, <2>5 DEF StoresAll, e
  <1>12. Scripts[s].game # PrinceOfPersia => runner'.game.kidPosY = 0
    BY <1>4, <1>5, <1>6 DEF StartOf
  <1>13. window => Scripts[s].game = Sprilo
    BY <1>2 DEF Options
  <1>14. RunnerFollows(s)'
    <2>1. Len(sequence') = 0
      BY <1>2, EmptySeq
    <2>2. Follows(s, runner'.game.emulator, Played(0)')
      BY <1>6, <1>8, <1>10, <1>11
    <2>3. Follows(s, runner'.game.emulator, Played(Len(sequence))')
      BY <1>8, <2>1, <2>2 DEF Played
    <2>4. runner'.game.emulator.enabled /\ (window => runner'.game.emulator.rendering)
      BY <1>6, <1>11
    <2> QED
      BY <1>2, <1>7, <1>12, <1>13, <2>1, <2>3, <2>4 DEF RunnerFollows, Window
  <1>15. SequenceFollows(s)'
    <2>1. DOMAIN sequence' = {}
      BY <1>2, EmptySeq
    <2> QED
      BY <2>1 DEF SequenceFollows
  <1> QED
    BY <1>7, <1>11, <1>14, <1>15 DEF Following, s

LEMMA AdvanceFollows ==
  ASSUME NEW s \in DOMAIN Scripts, NEW e \in Emulators, e.core \in CoresOf(s),
         NEW path \in Paths(s), Follows(s, e, path), NEW input \in ToSet(InputStrings[s])
  PROVE  Follows(s, AdvanceEmulator(e, input), Append(path, input))
  <1>1. AdvanceCore[e.core][input] \in Cores
    <2>1. AdvanceCore[e.core][input] \in CoresOf(s)
      BY CoresAssumption DEF InputsGiven
    <2> QED
      BY <2>1 DEF CoresOf
  <1> DEFINE f == AdvanceEmulator(e, input)
             N == Len(Scripts[s].initialSequence)
  <1>2. f.core = AdvanceCore[e.core][input] /\ f.block = 1 - e.block
    BY <1>1, EmulatorAdvanced
  <1>3. CoreAfter(s, Append(path, input)) = AdvanceCore[CoreAfter(s, path)][input]
    BY CoreAfterFacts
  <1>4. Len(Append(path, input)) = Len(path) + 1 /\ Len(path) \in Nat /\ N \in Nat
    BY AppendProperties, LenProperties, ScriptsAssumption DEF Paths
  <1> HIDE DEF f, N
  <1>5. e.block = (N + Len(path)) % 2 /\ e.core = CoreAfter(s, path)
    BY DEF Follows, N
  <1>6. f.block = (N + Len(Append(path, input))) % 2
    <2>1. \A k \in Nat : 1 - (k % 2) = (k + 1) % 2
      OBVIOUS
    <2>2. N + Len(path) \in Nat /\ N + Len(Append(path, input)) = (N + Len(path)) + 1
      BY <1>4
    <2> QED
      BY <1>2, <1>5, <2>1, <2>2
  <1> QED
    BY <1>2, <1>3, <1>5, <1>6 DEF Follows, f, N

\* With all blocks enabled, what is stored of an emulator follows the same path.
LEMMA StoredFollows ==
  ASSUME NEW s, NEW e \in Emulators, e.enabled, NEW path
  PROVE  /\ SerializeEmulator(e) \in [core : Cores, written : 0 .. Byte - 1, block : {0, 1}]
         /\ SerializeEmulator(e).core = e.core
         /\ Follows(s, e, path) => Follows(s, SerializeEmulator(e), path)
  <1>1. SerializeEmulator(e) = [core |-> e.core, written |-> e.written, block |-> e.block]
    BY DEF SerializeEmulator
  <1>2. e.core \in Cores /\ e.written \in 0 .. Byte - 1 /\ e.block \in {0, 1}
    BY DEF Emulators
  <1>3. SerializeEmulator(e).core = e.core /\ SerializeEmulator(e).block = e.block
    BY <1>1
  <1>4. Follows(s, e, path) => Follows(s, SerializeEmulator(e), path)
    BY <1>3, Zenon DEF Follows
  <1> QED
    BY <1>1, <1>2, <1>4

LEMMA RecordFollowing == Typing /\ Following /\ RecordStep => Following'
  <1> SUFFICES ASSUME Typing, Following, RecordStep PROVE Following'
    OBVIOUS
  <1> DEFINE s == Script
             n == Len(sequence)
             input == IF Len(sequence) < Length THEN solution[Len(sequence) + 1] ELSE InputString(s, 0)
             hashed == Hashed(runner)
             drawn == [hashed EXCEPT !.game.emulator = UpdateRendererState(@)]
             recorded == [state |-> SerializeRunner(hashed), picture |-> drawn.game.emulator.curBlit]
             advanced == AdvanceUnrecorded(drawn, input)
             before == runner.game.emulator
             shown == drawn.game.emulator
             after == runner'.game.emulator
             Kept == {"core", "block", "enabled", "rendering"}
  <1>1. s \in DOMAIN Scripts /\ PlayerTyped(s) /\ pc = "record" /\ Typing' /\ s' = s
    BY RecordTyping DEF Typing, RecordStep
  <1>2. /\ sequence' = Append(sequence, recorded)
        /\ runner' = [advanced EXCEPT !.game = Judge(@)]
        /\ pc' = IF Len(sequence) < Length THEN "record" ELSE "show"
        /\ UNCHANGED <<solution, options, initialState, currentStep>>
    BY DEF RecordStep
  <1>0. PlayerTyped(s)'
    BY <1>1, <1>2 DEF Typing
  <1> HIDE DEF s
  <1>3. /\ RunnerFollows(s) /\ SequenceFollows(s) /\ StoresAll(initialState)
        /\ Follows(s, initialState.game.emulator, <<>>)
    BY <1>1 DEF Following, s
  <1>4. /\ runner \in RunnersOf(s) /\ runner.game \in GamesOf(s) /\ before \in Emulators /\ before.core \in CoresOf(s)
        /\ sequence \in Seq(Recorded(s)) /\ n \in 0 .. Length /\ solution \in Paths(s)
        /\ sequence' \in Seq(Recorded(s)) /\ DOMAIN sequence = 1 .. n
    <2>1. runner \in RunnersOf(s) /\ n <= Length /\ sequence \in Seq(Recorded(s)) /\ solution \in Paths(s)
      BY <1>1 DEF PlayerTyped, Paths
    <2>2. n \in Nat /\ Length \in Nat /\ DOMAIN sequence = 1 .. n
      BY <2>1, LenProperties DEF Length, Paths
    <2>3. runner.game \in GamesOf(s) /\ before \in Emulators /\ before.core \in CoresOf(s)
      BY <2>1 DEF RunnersOf, GamesOf, Games
    <2>5. sequence' \in Seq(Recorded(s))
      BY <1>0, <1>1 DEF PlayerTyped
    <2> QED
      BY <2>1, <2>2, <2>3, <2>5
  <1>5. /\ hashed \in RunnersOf(s) /\ hashed.game = ComputeHash(runner.game) /\ hashed.step = runner.step
        /\ hashed.game.kidPosY = runner.game.kidPosY
        /\ \A field \in Kept : hashed.game.emulator[field] = before[field]
        /\ Window => hashed = runner
    <2>1. hashed = [runner EXCEPT !.game = ComputeHash(runner.game)]
      BY DEF Hashed
    <2>2. /\ "kidPosY" \in DOMAIN runner.game \ {"emulator"} /\ Kept \subseteq DOMAIN before \ {"frame"}
          /\ runner = [game |-> runner.game, history |-> runner.history, step |-> runner.step]
      BY <1>4 DEF RunnersOf, GamesOf, Games, Emulators
    <2>3. /\ ComputeHash(runner.game) \in GamesOf(s)
          /\ Game(runner.game) # AnotherWorld => ComputeHash(runner.game) = runner.game
          /\ ComputeHash(runner.game).kidPosY = runner.game.kidPosY
          /\ \A field \in Kept : ComputeHash(runner.game).emulator[field] = before[field]
      BY <1>1, <1>4, <2>2, HashTyped
    <2>4. Window => Game(runner.game) # AnotherWorld
      BY <1>3, <1>4 DEF RunnerFollows, Game, GamesOf, Sprilo, AnotherWorld
    <2> QED
      BY <1>1, <1>4, <2>1, <2>2, <2>3, <2>4, GameReplaced
  <1> HIDE DEF hashed
  <1>6. /\ hashed.game \in GamesOf(s) /\ hashed.game.emulator \in Emulators /\ hashed.game.emulator.enabled
        /\ Follows(s, hashed.game.emulator, Played(n))
    <2>1. hashed.game \in GamesOf(s) /\ hashed.game.emulator \in Emulators
      BY <1>5 DEF RunnersOf, GamesOf, Games
    <2>2. before.enabled /\ Follows(s, before, Played(n))
      BY <1>1, <1>3 DEF RunnerFollows
    <2>3. /\ hashed.game.emulator.core = before.core /\ hashed.game.emulator.block = before.block
          /\ hashed.game.emulator.enabled = before.enabled
      BY <1>5
    <2>4. Follows(s, hashed.game.emulator, Played(n))
      BY <2>2, <2>3, Zenon DEF Follows
    <2> QED
      BY <2>1, <2>2, <2>3, <2>4
  <1>7. /\ drawn \in RunnersOf(s) /\ drawn.game \in GamesOf(s) /\ shown \in Emulators
        /\ shown = [hashed.game.emulator EXCEPT !.curBlit = hashed.game.emulator.frame]
        /\ drawn.game.kidPosY = hashed.game.kidPosY
        /\ \A field \in Kept \union {"frame"} : shown[field] = hashed.game.emulator[field]
        /\ shown.curBlit = hashed.game.emulator.frame
    <2> DEFINE e == UpdateRendererState(hashed.game.emulator)
    <2>1. /\ e \in Emulators /\ e.enabled
          /\ \A field \in Kept \union {"frame"} : e[field] = hashed.game.emulator[field]
          /\ e.curBlit = hashed.game.emulator.frame
      BY <1>6 DEF UpdateRendererState, Emulators
    <2>2. e = [hashed.game.emulator EXCEPT !.curBlit = hashed.game.emulator.frame]
      BY DEF UpdateRendererState
    <2> HIDE DEF e
    <2>3. EmulatorReplaced(s, hashed, e) \in RunnersOf(s)
      BY <1>1, <1>5, <2>1, EmulatorReplacedTyped
    <2>4. drawn = EmulatorReplaced(s, hashed, e)
      BY DEF EmulatorReplaced, e
    <2>5. EmulatorReplaced(s, hashed, e).game = [hashed.game EXCEPT !.emulator = e]
      BY <1>5 DEF EmulatorReplaced, RunnersOf
    <2>6. drawn.game.emulator = e /\ drawn.game.kidPosY = hashed.game.kidPosY /\ drawn.game \in GamesOf(s)
      BY <1>6, <2>3, <2>4, <2>5 DEF RunnersOf, GamesOf, Games
    <2> QED
      BY <2>1, <2>2, <2>3, <2>4, <2>6
  <1> HIDE DEF drawn
  <1>8. SequenceFollows(s)'
    <2>1. /\ StoresAll(recorded.state) /\ Follows(s, recorded.state.game.emulator, Played(n))
          /\ recorded.state.game.emulator.core = hashed.game.emulator.core
      BY <1>6, StoredFollows DEF SerializeRunner, SerializeGame, StoresAll
    <2>2. Window /\ n > 0 => recorded.picture = recorded.state.game.emulator.core
      <3>2. Window /\ n > 0 => before.frame = before.core
        BY <1>1, <1>3, Zenon DEF RunnerFollows
      <3>1. Window /\ n > 0 => before.frame = before.core /\ hashed = runner
        BY <1>5, <3>2
      <3> QED
        BY <1>7, <2>1, <3>1
    <2> HIDE DEF recorded
    <2>3. /\ DOMAIN sequence' = 1 .. n + 1 /\ n \in Nat
          /\ \A i \in 1 .. n : sequence'[i] = sequence[i]
          /\ sequence'[n + 1] = recorded
      <3>1. n \in Nat
        BY <1>4, LenProperties
      <3>2. /\ sequence' \in Seq(Recorded(s) \union {recorded}) /\ Len(sequence') = n + 1
            /\ \A i \in 1 .. n : sequence'[i] = sequence[i]
            /\ sequence'[n + 1] = recorded
        <4> DEFINE R == Recorded(s) \union {recorded}
        <4>1. sequence \in Seq(R) /\ recorded \in R
          BY <1>4, SeqMonotonic
        <4> HIDE DEF R
        <4> QED
          BY <1>2, <4>1, AppendProperties DEF R
      <3> QED
        BY <3>1, <3>2, LenProperties
    <2>4. \A i : Played(i)' = Played(i)
      BY <1>2 DEF Played
    <2>5. Window' = Window
      BY <1>2 DEF Window
    <2>6. ASSUME NEW i \in DOMAIN sequence'
          PROVE  /\ StoresAll(sequence'[i].state) /\ Follows(s, sequence'[i].state.game.emulator, Played(i - 1))
                 /\ Window /\ i > 1 => sequence'[i].picture = sequence'[i].state.game.emulator.core
      <3>1. CASE i \in 1 .. n
        <4>1. i \in DOMAIN sequence /\ sequence'[i] = sequence[i]
          BY <1>4, <2>3, <3>1
        <4> QED
          BY <1>3, <4>1 DEF SequenceFollows
      <3>2. CASE i = n + 1
        <4>1. i - 1 = n /\ (i > 1 => n > 0) /\ sequence'[i] = recorded
          BY <2>3, <3>2
        <4> QED
          BY <2>1, <2>2, <4>1
      <3> QED
        BY <2>3, <2>6, <3>1, <3>2
    <2> QED
      BY <1>1, <2>4, <2>5, <2>6 DEF SequenceFollows, StoresAll
  <1>9. input \in ToSet(InputStrings[s])
    <2>1. CASE n < Length
      BY <1>1, <1>4, <2>1, PlayedFacts
    <2>2. CASE ~(n < Length)
      <3>1. InputStrings[s] \in Seq(STRING) /\ InputStrings[s] # <<>>
        BY <1>1, InputsRegistered, RunnerAssumption
      <3>2. 1 \in DOMAIN InputStrings[s]
        BY <3>1, LenProperties, EmptySeq
      <3>3. InputString(s, 0) \in ToSet(InputStrings[s])
        BY <3>2 DEF InputString, ToSet
      <3> QED
        BY <2>2, <3>3
    <2> QED
      BY <2>1, <2>2
  <1>10. /\ advanced.game \in GamesOf(s) /\ advanced.game = AdvanceGame(drawn.game, input)
         /\ advanced.game.emulator = AdvanceEmulator(shown, input)
         /\ advanced.game.kidPosY = Height(s, advanced.game.emulator.core, drawn.game.kidPosY)
         /\ advanced = [game |-> advanced.game, history |-> advanced.history, step |-> advanced.step]
    <2>1. input \in InputsGiven(s)
      BY <1>9 DEF InputsGiven
    <2>4. drawn = [game |-> drawn.game, history |-> drawn.history, step |-> drawn.step]
      BY <1>7 DEF RunnersOf
    <2> DEFINE g == AdvanceGame(drawn.game, input)
               k == drawn.step + 1
    <2>2. advanced = [[drawn EXCEPT !.game = g] EXCEPT !.step = k]
      BY DEF AdvanceUnrecorded
    <2> HIDE DEF g, k
    <2>3. advanced = [game |-> g, history |-> drawn.history, step |-> k]
      BY <2>2, <2>4
    <2>5. advanced.game = g /\ advanced = [game |-> advanced.game, history |-> advanced.history, step |-> advanced.step]
      BY <2>3
    <2> HIDE DEF advanced
    <2> QED
      BY <1>1, <1>7, <2>1, <2>5, AdvanceTyped DEF g
  <1> HIDE DEF advanced
  <1>11. /\ runner'.game = Judge(advanced.game) /\ after \in Emulators
         /\ \A field \in Kept \union {"frame"} : after[field] = AdvanceEmulator(shown, input)[field]
         /\ runner'.game.kidPosY = advanced.game.kidPosY
    <2>1. runner'.game = Judge(advanced.game)
      BY <1>2, <1>10
    <2>2. Judge(advanced.game) \in Judged(advanced.game) /\ Judge(advanced.game) \in GamesOf(s)
      BY <1>1, <1>10, JudgeTyped, JudgedFurther
    <2>3. DOMAIN advanced.game.emulator = Kept \union {"frame", "curBlit", "written"}
      BY <1>10 DEF GamesOf, Games, Emulators
    <2> QED
      BY <1>10, <2>1, <2>2, <2>3 DEF Judged, GamesOf, Games
  <1>12. Scripts[s].game # PrinceOfPersia => runner'.game.kidPosY = 0
    <2>1. Scripts[s].game # PrinceOfPersia => runner.game.kidPosY = 0
      BY <1>3 DEF RunnerFollows
    <2> QED
      BY <1>5, <1>7, <1>10, <1>11, <2>1 DEF Height
  <1>13. /\ after.enabled /\ (Window => Scripts[s].game = Sprilo /\ after.rendering)
         /\ after.rendering => after.frame = after.core
    <2>1. AdvanceCore[shown.core][input] \in Cores
      <3>1. shown.core \in CoresOf(s) /\ CoresOf(s) \subseteq Cores
        BY <1>7 DEF GamesOf, CoresOf
      <3> QED
        BY <1>1, <1>9, <3>1, CoresAssumption DEF InputsGiven
    <2>2. /\ AdvanceEmulator(shown, input).enabled = shown.enabled
          /\ AdvanceEmulator(shown, input).rendering = shown.rendering
          /\ shown.rendering => AdvanceEmulator(shown, input).frame = AdvanceEmulator(shown, input).core
      <3> DEFINE e == shown
      <3>1. e \in Emulators /\ AdvanceCore[e.core][input] \in Cores /\ {"enabled", "rendering"} \subseteq DOMAIN e
        BY <1>7, <2>1 DEF Emulators
      <3> HIDE DEF e
      <3>2. /\ AdvanceEmulator(e, input).core = AdvanceCore[e.core][input]
            /\ AdvanceEmulator(e, input).frame = IF e.rendering THEN AdvanceCore[e.core][input] ELSE e.frame
            /\ \A field \in DOMAIN e \ {"core", "block", "frame"} : AdvanceEmulator(e, input)[field] = e[field]
        BY <3>1, EmulatorAdvanced
      <3>3. /\ AdvanceEmulator(e, input).enabled = e.enabled /\ AdvanceEmulator(e, input).rendering = e.rendering
            /\ e.rendering => AdvanceEmulator(e, input).frame = AdvanceEmulator(e, input).core
        BY <3>1, <3>2
      <3> QED
        BY <3>3 DEF e
    <2>3. before.enabled /\ (Window => Scripts[s].game = Sprilo /\ before.rendering)
      BY <1>3 DEF RunnerFollows
    <2> QED
      BY <1>5, <1>7, <1>11, <2>2, <2>3
  <1>14. n < Length => Follows(s, after, Played(n + 1))
    <2> SUFFICES ASSUME n < Length PROVE Follows(s, after, Played(n + 1))
      OBVIOUS
    <2>1. /\ Played(n) \in Paths(s) /\ Played(n + 1) = Append(Played(n), input)
      BY <1>1, <1>4, PlayedFacts
    <2>2. Follows(s, shown, Played(n)) /\ shown.core \in CoresOf(s)
      <3>1. shown.core = hashed.game.emulator.core /\ shown.block = hashed.game.emulator.block
        BY <1>7
      <3>2. shown.core \in CoresOf(s)
        BY <1>7 DEF GamesOf
      <3> QED
        BY <1>6, <3>1, <3>2, Zenon DEF Follows
    <2>3. Follows(s, AdvanceEmulator(shown, input), Append(Played(n), input))
      BY <1>1, <1>7, <1>9, <2>1, <2>2, AdvanceFollows
    <2>4. after.core = AdvanceEmulator(shown, input).core /\ after.block = AdvanceEmulator(shown, input).block
      BY <1>11
    <2> QED
      BY <2>1, <2>3, <2>4, Zenon DEF Follows
  <1> HIDE DEF input
  <1>15. RunnerFollows(s)'
    <2>1. Window' = Window /\ \A i : Played(i)' = Played(i)
      BY <1>2 DEF Window, Played
    <2>2. Len(sequence') = n + 1 /\ n \in Nat
      BY <1>2, <1>4, AppendProperties, LenProperties DEF recorded
    <2>3. pc' \in {"record", "show"} /\ (pc' = "record" => n < Length)
      BY <1>2
    <2>4. pc' = "record" => Follows(s, after, Played(Len(sequence))')
      BY <1>14, <2>1, <2>2, <2>3 DEF Played
    <2> QED
      BY <1>1, <1>12, <1>13, <2>1, <2>3, <2>4 DEF RunnerFollows
  <1> QED
    BY <1>1, <1>2, <1>3, <1>8, <1>15 DEF Following, StoresAll, s

\* What a state that has all blocks leaves of the runner it is loaded into.
LEMMA LoadFollows ==
  ASSUME NEW s \in DOMAIN Scripts, NEW r \in RunnersOf(s), NEW stored \in StoredOf(s), StoresAll(stored),
         Scripts[s].game # PrinceOfPersia => r.game.kidPosY = 0
  PROVE  /\ \A field \in {"core", "block"} :
               DeserializeRunner(r, stored).game.emulator[field] = stored.game.emulator[field]
         /\ \A field \in {"enabled", "rendering", "curBlit"} :
               DeserializeRunner(r, stored).game.emulator[field] = r.game.emulator[field]
         /\ DeserializeRunner(r, stored).game.kidPosY = Height(s, stored.game.emulator.core, 0)
  <1> DEFINE g == r.game
             loaded == Loaded(g, stored.game)
             h == DeserializeGame(g, stored.game)
             e == DeserializeEmulator(g.emulator, stored.game.emulator)
  <1>1. g \in GamesOf(s) /\ g.emulator \in Emulators /\ stored.game \in StoredGamesOf(s)
    BY DEF RunnersOf, GamesOf, Games, StoredOf
  <1>2. stored.game.emulator \in StoredEmulators /\ "block" \in DOMAIN stored.game.emulator
    BY DEF StoresAll, StoredEmulators
  <1>3. /\ e.core = stored.game.emulator.core /\ e.block = stored.game.emulator.block
        /\ \A field \in {"enabled", "rendering", "frame", "curBlit"} : e[field] = g.emulator[field]
    BY <1>1, <1>2, RestoredEmulator
  <1>4. /\ loaded \in GamesOf(s) /\ loaded.emulator = e
        /\ loaded.kidPosY = Height(s, stored.game.emulator.core, g.kidPosY)
    BY <1>1, LoadedTyped
  <1>5. /\ h \in Judged(loaded) /\ h.kidPosY = loaded.kidPosY
    <2>1. "kidPosY" \in DOMAIN g \ {"emulator", "magnets", "stopped", "distance"}
      BY <1>1 DEF GamesOf, Games
    <2> QED
      BY <1>1, <2>1, DeserializedTyped
  <1> HIDE DEF loaded, h, e
  <1>6. \A field \in {"core", "block", "enabled", "rendering", "curBlit"} : h.emulator[field] = e[field]
    <2>1. DOMAIN loaded.emulator = {"core", "written", "block", "enabled", "rendering", "frame", "curBlit"}
      BY <1>4 DEF GamesOf, Games, Emulators
    <2> QED
      BY <1>4, <1>5, <2>1 DEF Judged
  <1>7. Height(s, stored.game.emulator.core, g.kidPosY) = Height(s, stored.game.emulator.core, 0)
    BY DEF Height
  <1>8. DeserializeRunner(r, stored).game = h
    BY DEF DeserializeRunner, h
  <1> QED
    BY <1>3, <1>4, <1>5, <1>6, <1>7, <1>8

LEMMA ShowFollowing == Typing /\ Following /\ ShowStep => Following'
  <1> SUFFICES ASSUME Typing, Following, ShowStep PROVE Following'
    OBVIOUS
  <1> DEFINE s == Script
             step == sequence[currentStep + 1]
             framed == RenderFrame(runner, step)
             after == runner'.game.emulator
  <1>1. s \in DOMAIN Scripts /\ PlayerTyped(s) /\ pc = "show" /\ s' = s
    BY ShowTyping DEF Typing, ShowStep
  <1>2. runner' = DeserializeRunner(framed, step.state) /\ pc' = "command" /\ UNCHANGED <<slots, playerVars>>
    BY DEF ShowStep
  <1> HIDE DEF s
  <1>3. /\ RunnerFollows(s) /\ SequenceFollows(s) /\ StoresAll(initialState)
        /\ Follows(s, initialState.game.emulator, <<>>)
    BY <1>1 DEF Following, s
  <1>4. /\ currentStep + 1 \in DOMAIN sequence /\ (currentStep + 1) - 1 = currentStep
        /\ (currentStep > 0 => currentStep + 1 > 1) /\ step \in Recorded(s)
    <2>1. sequence \in Seq(Recorded(s)) /\ currentStep \in 0 .. Length /\ Len(sequence) = Length + 1
      BY <1>1 DEF PlayerTyped
    <2>2. Length \in Nat /\ DOMAIN sequence = 1 .. Len(sequence)
      BY <1>1, <2>1, LenProperties DEF PlayerTyped, Length
    <2>3. currentStep + 1 \in 1 .. Len(sequence)
      BY <2>1, <2>2
    <2> QED
      BY <2>1, <2>2, <2>3, ElementOfSeq
  <1>5. /\ StoresAll(step.state) /\ Follows(s, step.state.game.emulator, Played(currentStep))
        /\ Window /\ currentStep > 0 => step.picture = step.state.game.emulator.core
    BY <1>3, <1>4 DEF SequenceFollows
  <1>6. step.state \in StoredOf(s) /\ step.picture \in Pictures
    BY <1>4 DEF Recorded
  <1> HIDE DEF step
  <1>7. /\ framed \in RunnersOf(s) /\ framed.game.kidPosY = runner.game.kidPosY
        /\ framed.game.emulator.enabled = runner.game.emulator.enabled
        /\ framed.game.emulator.rendering = runner.game.emulator.rendering
        /\ Window => framed.game.emulator.curBlit = step.picture
    <2>1. runner \in RunnersOf(s)
      BY <1>1 DEF PlayerTyped
    <2> DEFINE e == DeserializeRendererState(runner.game.emulator, step.picture)
    <2>2. runner.game.emulator \in Emulators /\ (Scripts[s].disabled \/ runner.game.emulator.enabled) /\ runner.game \in Games
      BY <2>1 DEF RunnersOf, GamesOf, Games
    <2>3. e \in Emulators /\ e.core = runner.game.emulator.core /\ e.enabled = runner.game.emulator.enabled
      BY <1>6, <2>2, ShownEmulators
    <2>4. e.rendering = runner.game.emulator.rendering /\ e.curBlit = step.picture
      BY <2>2 DEF DeserializeRendererState, Emulators
    <2>5. framed = IF options.disableRender THEN runner ELSE EmulatorReplaced(s, runner, e)
      BY DEF RenderFrame, EmulatorReplaced
    <2> HIDE DEF e, framed
    <2>6. EmulatorReplaced(s, runner, e) \in RunnersOf(s)
      BY <1>1, <2>1, <2>2, <2>3, EmulatorReplacedTyped
    <2>7. EmulatorReplaced(s, runner, e).game = [runner.game EXCEPT !.emulator = e]
      BY <2>1 DEF EmulatorReplaced, RunnersOf
    <2>8. /\ EmulatorReplaced(s, runner, e).game.emulator = e
          /\ EmulatorReplaced(s, runner, e).game.kidPosY = runner.game.kidPosY
      BY <2>2, <2>7 DEF Games
    <2> QED
      BY <2>1, <2>3, <2>4, <2>5, <2>6, <2>8 DEF Window
  <1> HIDE DEF framed
  <1>8. Scripts[s].game # PrinceOfPersia => framed.game.kidPosY = 0
    BY <1>3, <1>7 DEF RunnerFollows
  <1>9. /\ after.core = step.state.game.emulator.core /\ after.block = step.state.game.emulator.block
        /\ after.enabled = framed.game.emulator.enabled /\ after.rendering = framed.game.emulator.rendering
        /\ after.curBlit = framed.game.emulator.curBlit
        /\ runner'.game.kidPosY = Height(s, after.core, 0)
    BY <1>1, <1>2, <1>5, <1>6, <1>7, <1>8, LoadFollows
  <1>10. Follows(s, after, Played(currentStep))
    BY <1>5, <1>9, Zenon DEF Follows
  <1>11. UNCHANGED <<solution, sequence, currentStep, options, initialState>>
    BY <1>2 DEF playerVars
  <1>12. RunnerFollows(s)'
    <2>1. Window' = Window /\ \A i : Played(i)' = Played(i)
      BY <1>11 DEF Window, Played
    <2>2. Follows(s, after, Played(currentStep)')
      BY <1>10, <1>11, <2>1 DEF Played
    <2>3. /\ runner.game.emulator.enabled /\ (Window => Scripts[s].game = Sprilo /\ runner.game.emulator.rendering)
      BY <1>3 DEF RunnerFollows
    <2>4. Scripts[s].game # PrinceOfPersia => runner'.game.kidPosY = 0
      BY <1>9 DEF Height
    <2> QED
      BY <1>1, <1>2, <1>5, <1>7, <1>9, <1>11, <2>1, <2>2, <2>3, <2>4 DEF RunnerFollows
  <1>13. SequenceFollows(s)'
    BY <1>1, <1>3, <1>11 DEF SequenceFollows, Played, Window
  <1> QED
    BY <1>1, <1>3, <1>11, <1>12, <1>13 DEF Following, StoresAll, s

LEMMA CommandFollowing == Typing /\ Following /\ Command => Following'
  <1> SUFFICES ASSUME Typing, Following, NEW key \in KeysRead, Finish(key) \/ Restart(key) \/ MoveTo(key)
               PROVE  Following'
    BY DEF Command
  <1> DEFINE s == Script
  <1>1. s \in DOMAIN Scripts /\ PlayerTyped(s) /\ pc = "command" /\ s' = s
    BY CommandTyping DEF Typing, Finish, Restart, MoveTo, Command
  <1>2. pc' \in {"ended", "record", "show"} /\ UNCHANGED <<solution, options, initialState>>
    BY DEF Finish, Restart, MoveTo, playerVars
  <1> HIDE DEF s
  <1>3. /\ RunnerFollows(s) /\ SequenceFollows(s) /\ StoresAll(initialState)
        /\ Follows(s, initialState.game.emulator, <<>>)
    BY <1>1 DEF Following, s
  <1>4. Window' = Window /\ \A i : Played(i)' = Played(i)
    BY <1>2 DEF Window, Played
  <1>5. CASE Finish(key) \/ MoveTo(key)
    <2>1. pc' \in {"ended", "show"} /\ UNCHANGED <<runner, sequence>>
      BY <1>5 DEF Finish, MoveTo, playerVars
    <2>2. RunnerFollows(s)'
      BY <1>1, <1>3, <1>4, <2>1 DEF RunnerFollows
    <2>3. SequenceFollows(s)'
      BY <1>1, <1>3, <1>4, <2>1 DEF SequenceFollows
    <2> QED
      BY <1>1, <1>2, <1>3, <2>2, <2>3 DEF Following, StoresAll, s
  <1>6. CASE Restart(key)
    <2>1. runner' = DeserializeRunner(runner, initialState) /\ sequence' = <<>> /\ pc' = "record"
      BY <1>6 DEF Restart
    <2>2. runner \in RunnersOf(s) /\ initialState \in StoredOf(s) /\ solution \in Paths(s)
      BY <1>1 DEF PlayerTyped, Paths
    <2>3. /\ runner.game.emulator.enabled /\ (Window => Scripts[s].game = Sprilo /\ runner.game.emulator.rendering)
          /\ Scripts[s].game # PrinceOfPersia => runner.game.kidPosY = 0
      BY <1>3 DEF RunnerFollows
    <2> DEFINE after == runner'.game.emulator
    <2>4. /\ after.core = initialState.game.emulator.core /\ after.block = initialState.game.emulator.block
          /\ after.enabled = runner.game.emulator.enabled /\ after.rendering = runner.game.emulator.rendering
          /\ runner'.game.kidPosY = Height(s, initialState.game.emulator.core, 0)
      BY <1>1, <1>3, <2>1, <2>2, <2>3, LoadFollows
    <2>5. Len(sequence') = 0 /\ DOMAIN sequence' = {}
      BY <2>1, EmptySeq
    <2>6. Follows(s, after, <<>>)
      BY <1>3, <2>4, Zenon DEF Follows
    <2>7. Follows(s, after, Played(Len(sequence))')
      <3>1. Played(0)' = <<>>
        BY <1>1, <1>4, <2>2, PlayedFacts DEF Played
      <3> QED
        BY <2>5, <2>6, <3>1 DEF Played
    <2>8. Scripts[s].game # PrinceOfPersia => runner'.game.kidPosY = 0
      BY <2>4 DEF Height
    <2>9. RunnerFollows(s)'
      BY <1>1, <1>4, <2>1, <2>3, <2>4, <2>5, <2>7, <2>8 DEF RunnerFollows
    <2>10. SequenceFollows(s)'
      BY <2>5 DEF SequenceFollows
    <2> QED
      BY <1>1, <1>2, <1>3, <2>9, <2>10 DEF Following, StoresAll, s
  <1> QED
    BY <1>5, <1>6

LEMMA NextFollowing == Typing /\ Following /\ [Next]_vars => Following'
  <1> SUFFICES ASSUME Typing, Following, [Next]_vars PROVE Following'
    OBVIOUS
  <1>1. CASE \E n \in Slots : RunInput(n)
    BY <1>1 DEF RunInput, Following
  <1>2. CASE StartPlayer
    BY <1>2, StartFollowing
  <1>3. CASE RecordStep
    BY <1>3, RecordFollowing
  <1>4. CASE ShowStep
    BY <1>4, ShowFollowing
  <1>5. CASE Command
    BY <1>5, CommandFollowing
  <1>6. CASE UNCHANGED vars
    <2>1. UNCHANGED <<pc, runner, slots, solution, options, initialState, sequence, currentStep, isReproduce, isReload>>
      BY <1>6 DEF vars, playerVars
    <2> QED
      BY <2>1 DEF Following, RunnerFollows, SequenceFollows, StoresAll, Follows, Played, Window, Script
  <1> QED
    BY <1>1, <1>2, <1>3, <1>4, <1>5, <1>6 DEF Next, Player

\* The player shows the way of the solution: the state of the emulator, the blocks that the
\* search leaves out, the picture and what is derived from the emulator are those that the
\* inputs up to the step lead to, however often steps were shown and the playback restarted.
THEOREM ShowsTheSolution == Spec => []ShowsPath
  <1>1. Init => Typing /\ Following
    <2>1. Init => pc = "search"
      BY DEF Init
    <2> QED
      BY <2>1, InitTyping DEF Following
  <1>2. Typing /\ Following /\ [Next]_vars => Typing' /\ Following'
    BY NextTyping, NextFollowing
  <1> QED
    BY <1>1, <1>2, FollowingShows, PTL DEF Spec
-----------------------------------------------------------------------------
(* What running actions again changes.                                     *)

\* What an action makes of the magnet that it sets.
Pulled(g, a) ==
    [intensity |-> IF a.type \in DOMAIN Attracted /\ ValueOf(g, Attracted[a.type].room) # a.room
                     THEN 0 ELSE a.intensity,
     position |-> a.position]
Written(w, a) == IF a.type = "Advance Lap Progress" THEN (w + 1) % Byte
                 ELSE IF a.type = "Clear Lap Progress" THEN 0 ELSE w

LEMMA RoomsRead ==
  ASSUME NEW s \in DOMAIN Scripts, NEW g \in GamesOf(s), NEW h \in GamesOf(s),
         g.emulator.core = h.emulator.core, NEW a
  PROVE  Pulled(g, a) = Pulled(h, a)
  <1>1. ASSUME NEW m \in DOMAIN Attracted PROVE ValueOf(g, Attracted[m].room) = ValueOf(h, Attracted[m].room)
    <2>1. Attracted[m].room \in {"Kid Room", "Guard Room"}
      BY Zenon DEF Attracted
    <2>2. Attracted[m].room # "Lap Progress" /\ Attracted[m].room # "Kid Pos Y"
      BY <2>1, Zenon
    <2> QED
      BY <2>2, Zenon DEF ValueOf
  <1> QED
    BY <1>1, Zenon DEF Pulled

LEMMA ActionFacts ==
  ASSUME NEW s \in DOMAIN Scripts, NEW h \in GamesOf(s), NEW a \in RuleActions, a \in OwnActions(s)
  PROVE  /\ RunAction(a)[h].magnets = IF a.type \in Magnets(Scripts[s].game)
                                        THEN [h.magnets EXCEPT ![a.type] = Pulled(h, a)] ELSE h.magnets
         /\ RunAction(a)[h].stopped = (h.stopped \/ a.type = "Stop Processing Reward")
         /\ RunAction(a)[h].emulator.written = Written(h.emulator.written, a)
  <1>1. /\ h \in Games /\ h.script = s /\ h.stopped \in BOOLEAN /\ h.emulator \in Emulators
        /\ DOMAIN h.magnets = Magnets(Scripts[s].game)
    BY DEF GamesOf, Games
  <1>2. CASE a.type \in Magnets(Scripts[s].game)
    <2> DEFINE magnet == Pulled(h, a)
    <2>1. RunAction(a)[h] = [h EXCEPT !.magnets[a.type] = magnet]
      BY <1>1, <1>2 DEF RunAction, SetMagnet, Pulled
    <2> HIDE DEF magnet
    <2>2. /\ RunAction(a)[h].magnets = [h.magnets EXCEPT ![a.type] = magnet]
          /\ RunAction(a)[h].stopped = h.stopped /\ RunAction(a)[h].emulator = h.emulator
      BY <1>1, <2>1 DEF Games
    <2>3. a.type \in DOMAIN Attracted \union Weighing \union {"Set Point Magnet"}
      BY <1>2, MagnetsOf
    <2>4. a.type # "Stop Processing Reward" /\ a.type # "Advance Lap Progress" /\ a.type # "Clear Lap Progress"
      BY <2>3, Zenon DEF Attracted, KidMagnets, Weighing
    <2>5. Written(h.emulator.written, a) = h.emulator.written
      BY <2>4, Zenon DEF Written
    <2> QED
      BY <1>1, <1>2, <2>2, <2>4, <2>5 DEF magnet
  <1>3. CASE a.type \notin Magnets(Scripts[s].game)
    <2> DEFINE w == Written(h.emulator.written, a)
               b == h.stopped \/ a.type = "Stop Processing Reward"
    <2>1. RunAction(a)[h] = [h EXCEPT !.emulator.written = w, !.stopped = b]
      BY <1>1, <1>3 DEF RunAction, Written
    <2> HIDE DEF w, b
    <2>2. /\ RunAction(a)[h].magnets = h.magnets /\ RunAction(a)[h].stopped = b
          /\ RunAction(a)[h].emulator.written = w
      BY <1>1, <2>1 DEF Games, Emulators
    <2> QED
      BY <1>3, <2>2 DEF w, b
  <1> QED
    BY <1>2, <1>3

\* Two states whose magnets pull alike: one that does not pull may be anywhere.
Matched(one, other) == one = other \/ (one.intensity = 0 /\ other.intensity = 0)
PullsAlike(g, h) == /\ g.status = h.status /\ g.emulator.core = h.emulator.core /\ g.stopped = h.stopped
                    /\ \A m \in DOMAIN g.magnets : Matched(g.magnets[m], h.magnets[m])
                    /\ Game(g) # PrinceOfPersia => g.magnets = h.magnets

LEMMA ActionAlike ==
  ASSUME NEW s \in DOMAIN Scripts, NEW g \in GamesOf(s), NEW h \in GamesOf(s),
         PullsAlike(g, h), NEW a \in RuleActions, a \in OwnActions(s)
  PROVE  PullsAlike(RunAction(a)[g], RunAction(a)[h])
  <1> DEFINE x == RunAction(a)[g]
             y == RunAction(a)[h]
             M == Magnets(Scripts[s].game)
  <1>1. x \in Acted(g) /\ y \in Acted(h)
    BY ActionActed, SameActed
  <1>2. /\ DOMAIN g.magnets = M /\ DOMAIN h.magnets = M
        /\ g \in Games /\ h \in Games
    BY DEF GamesOf
  <1>3. x.status = y.status /\ x.emulator.core = y.emulator.core
    BY <1>1, <1>2 DEF Acted, PullsAlike, Games, Emulators
  <1>4. x.stopped = y.stopped
    <2>1. g.stopped = h.stopped
      BY DEF PullsAlike
    <2>2. x.stopped = (g.stopped \/ a.type = "Stop Processing Reward")
      BY ActionFacts
    <2>3. y.stopped = (h.stopped \/ a.type = "Stop Processing Reward")
      BY ActionFacts
    <2> QED
      BY <2>1, <2>2, <2>3
  <1>5. Pulled(g, a) = Pulled(h, a)
    BY RoomsRead DEF PullsAlike
  <1>6. /\ x.magnets = IF a.type \in M THEN [g.magnets EXCEPT ![a.type] = Pulled(g, a)] ELSE g.magnets
        /\ y.magnets = IF a.type \in M THEN [h.magnets EXCEPT ![a.type] = Pulled(h, a)] ELSE h.magnets
    BY ActionFacts
  <1>7. \A m \in M : Matched(g.magnets[m], h.magnets[m])
    BY <1>2 DEF PullsAlike
  <1>11. Game(x) = Game(g) /\ (Game(g) # PrinceOfPersia => g.magnets = h.magnets)
    BY <1>1 DEF PullsAlike, Acted, GamesOf, Game
  <1> HIDE DEF M, x, y
  <1>8. DOMAIN x.magnets = M
    BY <1>2, <1>6
  <1>9. ASSUME NEW m \in M PROVE Matched(x.magnets[m], y.magnets[m])
    <2>1. CASE a.type = m
      <3>1. x.magnets[m] = y.magnets[m]
        BY <1>2, <1>5, <1>6, <2>1
      <3> QED
        BY <3>1 DEF Matched
    <2>2. CASE a.type # m
      <3>1. x.magnets[m] = g.magnets[m] /\ y.magnets[m] = h.magnets[m]
        BY <1>2, <1>6, <2>2
      <3> QED
        BY <1>7, <3>1 DEF Matched
    <2> QED
      BY <2>1, <2>2
  <1>10. \A m \in DOMAIN x.magnets : Matched(x.magnets[m], y.magnets[m])
    BY <1>8, <1>9
  <1>12. Game(x) # PrinceOfPersia => x.magnets = y.magnets
    BY <1>5, <1>6, <1>11
  <1> QED
    BY <1>3, <1>4, <1>10, <1>12 DEF PullsAlike, x, y

LEMMA OwnInOrder ==
  ASSUME NEW s \in DOMAIN Scripts, NEW g \in GamesOf(s), NEW l \in Labels(s)
  PROVE  \E it : /\ RunsInOrder(it, s, l, g)
                 /\ \A T \in SUBSET DOMAIN Rules[s][l].actions : it[T] \in Acted(g)
                 /\ RunActionsOf(l)[g] = IF Rules[s][l].index \in g.status
                                           THEN it[DOMAIN Rules[s][l].actions] ELSE g
  <1>1. g \in Acted(g)
    BY SameActed
  <1> QED
    BY <1>1, ActionsInOrder

LEMMA ActionsAlike ==
  ASSUME NEW s \in DOMAIN Scripts, NEW g \in GamesOf(s), NEW h \in GamesOf(s),
         PullsAlike(g, h), NEW l \in Labels(s)
  PROVE  PullsAlike(RunActionsOf(l)[g], RunActionsOf(l)[h])
  <1> DEFINE S == DOMAIN Rules[s][l].actions
  <1>1. PICK x : /\ RunsInOrder(x, s, l, g)
                 /\ \A T \in SUBSET S : x[T] \in Acted(g)
                 /\ RunActionsOf(l)[g] = IF Rules[s][l].index \in g.status THEN x[S] ELSE g
    BY OwnInOrder
  <1>2. PICK y : /\ RunsInOrder(y, s, l, h)
                 /\ \A T \in SUBSET S : y[T] \in Acted(h)
                 /\ RunActionsOf(l)[h] = IF Rules[s][l].index \in h.status THEN y[S] ELSE h
    BY OwnInOrder
  <1> DEFINE Good == {T \in SUBSET S : PullsAlike(x[T], y[T])}
  <1>3. IsFiniteSet(S) /\ S \subseteq Int
    BY ActionPositions
  <1>4. {} \in Good
    BY <1>1, <1>2 DEF RunsInOrder
  <1>5. ASSUME NEW T \in SUBSET S, T # {}, Max(T) \in T, T \ {Max(T)} \in Good
        PROVE  T \in Good
    <2> DEFINE a == Rules[s][l].actions[Max(T)]
               R == T \ {Max(T)}
    <2>1. a \in RuleActions /\ a \in OwnActions(s)
      BY <1>5, ActionPositions
    <2>2. x[T] = RunAction(a)[x[R]] /\ y[T] = RunAction(a)[y[R]]
      BY <1>1, <1>2, <1>5 DEF RunsInOrder
    <2>3. x[R] \in GamesOf(s) /\ y[R] \in GamesOf(s)
      BY <1>1, <1>2, <1>5 DEF Acted, GamesOf
    <2>4. PullsAlike(x[R], y[R])
      BY <1>5
    <2> HIDE DEF a, R
    <2>5. PullsAlike(RunAction(a)[x[R]], RunAction(a)[y[R]])
      BY <2>1, <2>3, <2>4, ActionAlike
    <2> QED
      BY <1>5, <2>2, <2>5
  <1>6. S \in Good
    <2> HIDE DEF Good
    <2>1. SUBSET S \subseteq Good
      BY <1>3, <1>4, <1>5, LatestInduction
    <2> QED
      BY <2>1
  <1>7. g.status = h.status
    BY DEF PullsAlike
  <1> QED
    BY <1>1, <1>2, <1>6, <1>7

\* The actions of rules make of states that pull alike such states.
LEMMA RulesAlike ==
  ASSUME NEW s \in DOMAIN Scripts, NEW g \in GamesOf(s), NEW h \in GamesOf(s), PullsAlike(g, h)
  PROVE  PullsAlike(RunRuleActions(g), RunRuleActions(h))
  <1>1. PICK x : RunsRulesInOrder(x, s, g) /\ \A T \in SUBSET Labels(s) : x[T] \in Acted(g)
    BY RulesInOrder
  <1>2. PICK y : RunsRulesInOrder(y, s, h) /\ \A T \in SUBSET Labels(s) : y[T] \in Acted(h)
    BY RulesInOrder
  <1> DEFINE S == Labels(s)
             Good == {T \in SUBSET S : PullsAlike(x[T], y[T])}
  <1>3. IsFiniteSet(S) /\ S \subseteq Int
    BY LabelFacts
  <1>4. {} \in Good
    BY <1>1, <1>2 DEF RunsRulesInOrder
  <1>5. ASSUME NEW T \in SUBSET S, T # {}, Max(T) \in T, T \ {Max(T)} \in Good
        PROVE  T \in Good
    <2> DEFINE l == Max(T)
               R == T \ {l}
    <2>1. x[T] = RunActionsOf(l)[x[R]] /\ y[T] = RunActionsOf(l)[y[R]]
      BY <1>1, <1>2, <1>5 DEF RunsRulesInOrder
    <2>2. x[R] \in GamesOf(s) /\ y[R] \in GamesOf(s)
      BY <1>1, <1>2, <1>5 DEF Acted, GamesOf
    <2>3. PullsAlike(x[R], y[R]) /\ l \in S
      BY <1>5
    <2> HIDE DEF l, R
    <2>4. PullsAlike(RunActionsOf(l)[x[R]], RunActionsOf(l)[y[R]])
      BY <2>2, <2>3, ActionsAlike
    <2> QED
      BY <1>5, <2>1, <2>4
  <1>6. S \in Good
    <2> HIDE DEF Good
    <2>1. SUBSET S \subseteq Good
      BY <1>3, <1>4, <1>5, LatestInduction
    <2> QED
      BY <2>1
  <1> QED
    BY <1>1, <1>2, <1>6 DEF RunsRulesInOrder

\* The byte that the rules write to.
IsClear(a) == a.type = "Clear Lap Progress"
IsAdvance(a) == a.type = "Advance Lap Progress"
LEMMA WrittenFacts ==
  ASSUME NEW a
  PROVE  /\ \A w : IsClear(a) => Written(w, a) = 0
         /\ \A w : ~IsClear(a) /\ ~IsAdvance(a) => Written(w, a) = w
  BY Zenon DEF IsClear, IsAdvance, Written

LEMMA WritersOf ==
  ASSUME NEW s, NEW l
  PROVE  /\ Clears(s, l) <=> \E i \in DOMAIN Rules[s][l].actions : IsClear(Rules[s][l].actions[i])
         /\ Advances(s, l) <=> \E i \in DOMAIN Rules[s][l].actions : IsAdvance(Rules[s][l].actions[i])
  BY Zenon DEF Clears, Advances, Has, IsClear, IsAdvance

Ran(g, l) == Rules[g.script][l].index \in g.status
Lasting(g, h) == g.emulator.written = h.emulator.written

LEMMA ActionsWrite ==
  ASSUME NEW s \in DOMAIN Scripts, NEW g \in GamesOf(s), NEW h \in GamesOf(s),
         g.status = h.status, NEW l \in Labels(s)
  PROVE  /\ Lasting(g, h) \/ (Ran(g, l) /\ Clears(s, l)) => Lasting(RunActionsOf(l)[g], RunActionsOf(l)[h])
         /\ ~Ran(g, l) \/ ~(Clears(s, l) \/ Advances(s, l)) => Lasting(RunActionsOf(l)[g], g)
  <1> DEFINE actions == Rules[s][l].actions
             S == DOMAIN Rules[s][l].actions
  <1>1. PICK x : /\ RunsInOrder(x, s, l, g)
                 /\ \A T \in SUBSET S : x[T] \in Acted(g)
                 /\ RunActionsOf(l)[g] = IF Rules[s][l].index \in g.status THEN x[S] ELSE g
    BY OwnInOrder
  <1>2. PICK y : /\ RunsInOrder(y, s, l, h)
                 /\ \A T \in SUBSET S : y[T] \in Acted(h)
                 /\ RunActionsOf(l)[h] = IF Rules[s][l].index \in h.status THEN y[S] ELSE h
    BY OwnInOrder
  <1> DEFINE Cleared(T) == \E i \in T : IsClear(actions[i])
             Untouched == \A i \in S : ~IsClear(actions[i]) /\ ~IsAdvance(actions[i])
             Good == {T \in SUBSET S : /\ Lasting(g, h) \/ Cleared(T) => Lasting(x[T], y[T])
                                       /\ Untouched => Lasting(x[T], g)}
  <1>3. IsFiniteSet(S) /\ S \subseteq Int
    BY ActionPositions
  <1>4. {} \in Good
    BY <1>1, <1>2 DEF RunsInOrder, Lasting
  <1>5. ASSUME NEW T \in SUBSET S, T # {}, Max(T) \in T, T \ {Max(T)} \in Good
        PROVE  T \in Good
    <2> DEFINE n == Max(T)
               a == actions[n]
               R == T \ {n}
    <2>1. a \in RuleActions /\ a \in OwnActions(s)
      BY <1>5, ActionPositions
    <2>2. x[T] = RunAction(a)[x[R]] /\ y[T] = RunAction(a)[y[R]]
      BY <1>1, <1>2, <1>5 DEF RunsInOrder
    <2>3. x[R] \in GamesOf(s) /\ y[R] \in GamesOf(s)
      BY <1>1, <1>2, <1>5 DEF Acted, GamesOf
    <2>4. /\ Lasting(g, h) \/ Cleared(R) => Lasting(x[R], y[R])
          /\ Untouched => Lasting(x[R], g)
      BY <1>5
    <2>5. Cleared(T) => IsClear(a) \/ Cleared(R)
      OBVIOUS
    <2>6. Untouched => ~IsClear(a) /\ ~IsAdvance(a)
      BY <1>5
    <2> HIDE DEF a, R, Cleared, Untouched
    <2>7. /\ x[T].emulator.written = Written(x[R].emulator.written, a)
          /\ y[T].emulator.written = Written(y[R].emulator.written, a)
      BY <2>1, <2>2, <2>3, ActionFacts
    <2>8. Lasting(x[R], y[R]) \/ IsClear(a) => Lasting(x[T], y[T])
      BY <2>7, WrittenFacts DEF Lasting
    <2>9. Lasting(x[R], g) /\ ~IsClear(a) /\ ~IsAdvance(a) => Lasting(x[T], g)
      BY <2>7, WrittenFacts DEF Lasting
    <2> QED
      BY <1>5, <2>4, <2>5, <2>6, <2>8, <2>9
  <1>6. S \in Good
    <2> HIDE DEF Good
    <2>1. SUBSET S \subseteq Good
      BY <1>3, <1>4, <1>5, LatestInduction
    <2> QED
      BY <2>1
  <1>7. /\ Clears(s, l) => Cleared(S)
        /\ ~(Clears(s, l) \/ Advances(s, l)) => Untouched
    BY WritersOf
  <1>8. g.script = s /\ (Ran(g, l) <=> Rules[s][l].index \in g.status)
    BY DEF GamesOf, Ran
  <1>9. /\ Lasting(g, h) \/ Cleared(S) => Lasting(x[S], y[S])
        /\ Untouched => Lasting(x[S], g)
    BY <1>6
  <1> HIDE DEF Good, Cleared, Untouched, S, actions
  <1>10. CASE Ran(g, l)
    <2>1. RunActionsOf(l)[g] = x[S] /\ RunActionsOf(l)[h] = y[S]
      BY <1>1, <1>2, <1>8, <1>10
    <2> QED
      BY <1>7, <1>9, <1>10, <2>1
  <1>11. CASE ~Ran(g, l)
    <2>1. RunActionsOf(l)[g] = g /\ RunActionsOf(l)[h] = h
      BY <1>1, <1>2, <1>8, <1>11
    <2> QED
      BY <1>11, <2>1 DEF Lasting
  <1> QED
    BY <1>10, <1>11

\* The actions of all rules write the same over whatever was written if a satisfied rule
\* clears it, and leave it as it is if none clears or advances it.
LEMMA RulesWrite ==
  ASSUME NEW s \in DOMAIN Scripts, NEW g \in GamesOf(s), NEW h \in GamesOf(s), g.status = h.status
  PROVE  /\ Lasting(g, h) \/ (\E l \in Satisfied(g) : Clears(s, l)) =>
               Lasting(RunRuleActions(g), RunRuleActions(h))
         /\ (\A l \in Satisfied(g) : ~(Clears(s, l) \/ Advances(s, l))) => Lasting(RunRuleActions(g), g)
  <1>1. PICK x : RunsRulesInOrder(x, s, g) /\ \A T \in SUBSET Labels(s) : x[T] \in Acted(g)
    BY RulesInOrder
  <1>2. PICK y : RunsRulesInOrder(y, s, h) /\ \A T \in SUBSET Labels(s) : y[T] \in Acted(h)
    BY RulesInOrder
  <1> DEFINE S == Labels(s)
             Cleared(T) == \E l \in T : Ran(g, l) /\ Clears(s, l)
             Untouched == \A l \in S : ~Ran(g, l) \/ ~(Clears(s, l) \/ Advances(s, l))
             Good == {T \in SUBSET S : /\ Lasting(g, h) \/ Cleared(T) => Lasting(x[T], y[T])
                                       /\ Untouched => Lasting(x[T], g)}
  <1>3. IsFiniteSet(S) /\ S \subseteq Int
    BY LabelFacts
  <1>4. {} \in Good
    BY <1>1, <1>2 DEF RunsRulesInOrder, Lasting
  <1>5. ASSUME NEW T \in SUBSET S, T # {}, Max(T) \in T, T \ {Max(T)} \in Good
        PROVE  T \in Good
    <2> DEFINE l == Max(T)
               R == T \ {l}
    <2>1. x[T] = RunActionsOf(l)[x[R]] /\ y[T] = RunActionsOf(l)[y[R]]
      BY <1>1, <1>2, <1>5 DEF RunsRulesInOrder
    <2>2. x[R] \in Acted(g) /\ y[R] \in Acted(h) /\ l \in S
      BY <1>1, <1>2, <1>5
    <2>3. /\ x[R] \in GamesOf(s) /\ y[R] \in GamesOf(s)
          /\ x[R].status = g.status /\ y[R].status = h.status /\ x[R].script = g.script
      BY <2>2 DEF Acted, GamesOf, Games
    <2>4. /\ Lasting(g, h) \/ Cleared(R) => Lasting(x[R], y[R])
          /\ Untouched => Lasting(x[R], g)
      BY <1>5
    <2>5. Cleared(T) => (Ran(g, l) /\ Clears(s, l)) \/ Cleared(R)
      OBVIOUS
    <2>6. Untouched => ~Ran(g, l) \/ ~(Clears(s, l) \/ Advances(s, l))
      BY <2>2
    <2>7. Ran(x[R], l) <=> Ran(g, l)
      BY <2>3 DEF Ran
    <2> HIDE DEF l, R, Cleared, Untouched
    <2>8. /\ Lasting(x[R], y[R]) \/ (Ran(x[R], l) /\ Clears(s, l)) => Lasting(x[T], y[T])
          /\ ~Ran(x[R], l) \/ ~(Clears(s, l) \/ Advances(s, l)) => Lasting(x[T], x[R])
      BY <2>1, <2>2, <2>3, ActionsWrite
    <2>9. Lasting(x[R], g) /\ Lasting(x[T], x[R]) => Lasting(x[T], g)
      BY DEF Lasting
    <2> QED
      BY <1>5, <2>4, <2>5, <2>6, <2>7, <2>8, <2>9
  <1>6. S \in Good
    <2> HIDE DEF Good
    <2>1. SUBSET S \subseteq Good
      BY <1>3, <1>4, <1>5, LatestInduction
    <2> QED
      BY <2>1
  <1>7. Satisfied(g) = {l \in S : Ran(g, l)}
    BY DEF Satisfied, Ran, GamesOf
  <1> QED
    BY <1>1, <1>2, <1>6, <1>7 DEF RunsRulesInOrder

\* The rules that a set of rules satisfies are the least closed set.
LEMMA ClosureFacts ==
  ASSUME NEW s \in DOMAIN Scripts, NEW labels \in SUBSET Labels(s)
  PROVE  /\ Closure(s, labels) \in SUBSET Labels(s)
         /\ labels \subseteq Closure(s, labels) /\ Closed(s, Closure(s, labels))
         /\ \A d \in SUBSET Labels(s) : labels \subseteq d /\ Closed(s, d) => Closure(s, labels) \subseteq d
  <1> DEFINE IsLeast(c) == /\ labels \subseteq c /\ Closed(s, c)
                           /\ \A d \in SUBSET Labels(s) : labels \subseteq d /\ Closed(s, d) => c \subseteq d
             least == {l \in Labels(s) : \A d \in SUBSET Labels(s) : labels \subseteq d /\ Closed(s, d) => l \in d}
  <1>1. least \in SUBSET Labels(s) /\ labels \subseteq least
    OBVIOUS
  <1>2. \A d \in SUBSET Labels(s) : labels \subseteq d /\ Closed(s, d) => least \subseteq d
    OBVIOUS
  <1>3. Closed(s, least)
    <2> SUFFICES ASSUME NEW l \in least, NEW k \in Rules[s][l].satisfies
                 PROVE  k \in least
      BY DEF Closed
    <2>1. k \in Labels(s)
      BY IndexFacts
    <2>2. ASSUME NEW d \in SUBSET Labels(s), labels \subseteq d, Closed(s, d) PROVE k \in d
      BY <2>2 DEF Closed
    <2> QED
      BY <2>1, <2>2
  <1> HIDE DEF least
  <1>4. \E c \in SUBSET Labels(s) : IsLeast(c)
    BY <1>1, <1>2, <1>3
  <1>5. Closure(s, labels) = CHOOSE c \in SUBSET Labels(s) : IsLeast(c)
    BY DEF Closure
  <1> HIDE DEF IsLeast
  <1>6. Closure(s, labels) \in SUBSET Labels(s) /\ IsLeast(Closure(s, labels))
    BY <1>4, <1>5
  <1> QED
    BY <1>6 DEF IsLeast

LEMMA SatisfiedClosed ==
  ASSUME NEW s \in DOMAIN Scripts, NEW g \in GamesOf(s)
  PROVE  Satisfied(g) \in SUBSET Labels(s) /\ Closed(s, Satisfied(g))
  <1>1. g.script = s /\ g.status \in Statuses(s)
    BY DEF GamesOf
  <1> SUFFICES ASSUME NEW l \in Satisfied(g), NEW k \in Rules[s][l].satisfies PROVE k \in Satisfied(g)
    BY <1>1 DEF Satisfied, Closed
  <1>2. k \in Labels(s)
    BY <1>1, IndexFacts DEF Satisfied
  <1> QED
    BY <1>1, <1>2 DEF Satisfied, Statuses

\* A satisfied rule that advances comes with one that clears.
LEMMA AdvancesClear ==
  ASSUME NEW s \in DOMAIN Scripts, NEW g \in GamesOf(s), NEW l \in Satisfied(g), Advances(s, l)
  PROVE  \E k \in Satisfied(g) : Clears(s, k)
  <1>1. Satisfied(g) \in SUBSET Labels(s) /\ Closed(s, Satisfied(g))
    BY SatisfiedClosed
  <1>2. PICK k \in Closure(s, {l}) : Clears(s, k)
    BY <1>1, RulesAssumption
  <1>3. {l} \in SUBSET Labels(s) /\ {l} \subseteq Satisfied(g)
    BY <1>1
  <1>4. Closure(s, {l}) \subseteq Satisfied(g)
    BY <1>1, <1>3, ClosureFacts
  <1> QED
    BY <1>2, <1>4

\* So running them again changes nothing more.
Settled(s, status, w) ==
    \A h \in GamesOf(s) : h.status = status /\ h.emulator.written = w =>
                             RunRuleActions(h).emulator.written = w
LEMMA WritesOnce ==
  ASSUME NEW s \in DOMAIN Scripts, NEW g \in GamesOf(s)
  PROVE  Settled(s, g.status, RunRuleActions(g).emulator.written)
  <1> SUFFICES ASSUME NEW h \in GamesOf(s), h.status = g.status,
                      h.emulator.written = RunRuleActions(g).emulator.written
               PROVE  RunRuleActions(h).emulator.written = RunRuleActions(g).emulator.written
    BY DEF Settled
  <1>1. CASE \E l \in Satisfied(g) : Clears(s, l)
    <2>1. Lasting(RunRuleActions(g), RunRuleActions(h))
      BY <1>1, RulesWrite
    <2> QED
      BY <2>1 DEF Lasting
  <1>2. CASE ~\E l \in Satisfied(g) : Clears(s, l)
    <2>1. \A l \in Satisfied(g) : ~(Clears(s, l) \/ Advances(s, l))
      BY <1>2, AdvancesClear
    <2>2. Satisfied(h) = Satisfied(g)
      BY DEF Satisfied, GamesOf
    <2>3. Lasting(RunRuleActions(h), h)
      BY <2>1, <2>2, RulesWrite
    <2> QED
      BY <2>3 DEF Lasting
  <1> QED
    BY <1>1, <1>2

-----------------------------------------------------------------------------
(* What conditions, rewards and types depend on.                           *)

\* States in which the same is read.
ReadsAlike(g, h) == /\ g.script = h.script /\ g.emulator.core = h.emulator.core
                    /\ Lasting(g, h) /\ g.kidPosY = h.kidPosY

LEMMA HeldAlike ==
  ASSUME NEW g, NEW h, ReadsAlike(g, h)
  PROVE  /\ \A conditions : AllHold(conditions, g) <=> AllHold(conditions, h)
         /\ Held(g) = Held(h)
         /\ \A sets : InputsOf(sets, g) = InputsOf(sets, h)
  <1>1. \A p : ValueOf(g, p) = ValueOf(h, p)
    BY Zenon DEF ValueOf, ReadsAlike, Lasting
  <1>2. Game(g) = Game(h) /\ Rules[g.script] = Rules[h.script] /\ Labels(g.script) = Labels(h.script)
    BY DEF Game, ReadsAlike
  <1>3. \A c : Holds(c, g) <=> Holds(c, h)
    <2> SUFFICES ASSUME NEW c PROVE Holds(c, g) <=> Holds(c, h)
      OBVIOUS
    <2> DEFINE left(x) == ValueOf(x, c.property)
               right(x) == IF c.other = NoProperty THEN c.immediate
                           ELSE Cast(ValueOf(x, c.other), Datatypes[Game(x)][c.property])
    <2>1. left(g) = left(h) /\ right(g) = right(h)
      BY <1>1, <1>2, Zenon
    <2>2. /\ Holds(c, g) <=> Compare(c.op, left(g), right(g))
          /\ Holds(c, h) <=> Compare(c.op, left(h), right(h))
      BY Zenon DEF Holds
    <2> HIDE DEF left, right
    <2> QED
      BY <2>1, <2>2, Zenon
  <1>4. \A conditions : AllHold(conditions, g) <=> AllHold(conditions, h)
    BY <1>3, Zenon DEF AllHold
  <1>5. Held(g) = Held(h)
    BY <1>2, <1>4 DEF Held
  <1>6. ASSUME NEW sets PROVE InputsOf(sets, g) = InputsOf(sets, h)
    <2>1. \A set : Active(set, g) <=> Active(set, h)
      BY <1>4, Zenon DEF Active
    <2> DEFINE IsFirst(k, x) == /\ Active(sets[k], x)
                                /\ \A i \in 1 .. k - 1 : ~(Active(sets[i], x) /\ sets[i].stop)
    <2>2. \A k : IsFirst(k, g) <=> IsFirst(k, h)
      BY <2>1, Zenon
    <2>3. /\ InputsOf(sets, g) = UNION {sets[k].inputs : k \in {j \in DOMAIN sets : IsFirst(j, g)}}
          /\ InputsOf(sets, h) = UNION {sets[k].inputs : k \in {j \in DOMAIN sets : IsFirst(j, h)}}
      BY Zenon DEF InputsOf
    <2> HIDE DEF IsFirst
    <2>4. {j \in DOMAIN sets : IsFirst(j, g)} = {j \in DOMAIN sets : IsFirst(j, h)}
      BY <2>2
    <2> QED
      BY <2>3, <2>4
  <1> QED
    BY <1>4, <1>5, <1>6

LEMMA StatusAlike ==
  ASSUME NEW g, NEW h, ReadsAlike(g, h), g.status = h.status
  PROVE  NewStatus(g) = NewStatus(h)
  <1>1. Held(g) = Held(h) /\ g.script = h.script
    BY HeldAlike DEF ReadsAlike
  <1> QED
    BY <1>1, Zenon DEF NewStatus

\* States whose rewards are the same.
RewardsAlike(g, h) == /\ PullsAlike(g, h) /\ Lasting(g, h) /\ g.lastInput = h.lastInput
                      /\ Game(g) # PrinceOfPersia => g.distance = h.distance

LEMMA NoPull ==
  ASSUME NEW a \in Magnet, NEW b \in Magnet, Matched(a, b)
  PROVE  /\ a.intensity = b.intensity /\ a.intensity \in Int
         /\ \A at \in Int : a.intensity * (255 - Abs(a.position - at)) = b.intensity * (255 - Abs(b.position - at))
  <1>1. a.intensity \in Int /\ b.intensity \in Int /\ a.position \in Int /\ b.position \in Int
    BY DEF Magnet
  <1>2. CASE a = b
    BY <1>1, <1>2
  <1>3. CASE a.intensity = 0 /\ b.intensity = 0
    <2>1. ASSUME NEW at \in Int
          PROVE  a.intensity * (255 - Abs(a.position - at)) = b.intensity * (255 - Abs(b.position - at))
      <3> DEFINE m == 255 - Abs(a.position - at)
                 n == 255 - Abs(b.position - at)
      <3>1. m \in Int /\ n \in Int
        BY <1>1 DEF Abs
      <3> HIDE DEF m, n
      <3>2. 0 * m = 0 * n
        BY <3>1
      <3>3. a.intensity * m = b.intensity * n
        BY <1>3, <3>2
      <3> QED
        BY <3>3 DEF m, n
    <2> QED
      BY <1>1, <1>3, <2>1
  <1> QED
    BY <1>2, <1>3 DEF Matched

LEMMA GameRewardAlike ==
  ASSUME NEW s \in DOMAIN Scripts, NEW g \in GamesOf(s), NEW h \in GamesOf(s), RewardsAlike(g, h)
  PROVE  GameReward(g) = GameReward(h)
  <1>1. /\ Game(g) = Scripts[s].game /\ Game(h) = Scripts[s].game
        /\ DOMAIN g.magnets = Magnets(Scripts[s].game) /\ DOMAIN h.magnets = Magnets(Scripts[s].game)
    BY DEF Game, GamesOf
  <1>2. CASE Game(g) # PrinceOfPersia
    <2>1. Far(g) = Far(h)
      BY <1>2 DEF Far, RewardsAlike, PullsAlike
    <2>2. SpriloReward(g) = SpriloReward(h)
      BY <2>1, Zenon DEF SpriloReward, RewardsAlike, PullsAlike, Lasting
    <2>3. Game(g) \in {Sprilo, AnotherWorld} /\ Sprilo # PrinceOfPersia /\ Sprilo # AnotherWorld /\ AnotherWorld # PrinceOfPersia
      BY <1>1, <1>2, MagnetsOf
    <2> QED
      BY <1>1, <2>1, <2>2, <2>3, Zenon DEF GameReward
  <1>3. CASE Game(g) = PrinceOfPersia
    <2> DEFINE M == Magnets(Scripts[s].game)
    <2>1. \A m \in M : g.magnets[m] \in Magnet /\ h.magnets[m] \in Magnet /\ Matched(g.magnets[m], h.magnets[m])
      BY <1>1 DEF GamesOf, Games, RewardsAlike, PullsAlike
    <2>2. DOMAIN Attracted \subseteq M /\ Weighing \subseteq M
      BY <1>1, <1>3, MagnetsOf
    <2>3. /\ \A p \in PropertiesRead(PrinceOfPersia) : ValueOf(g, p) \in Int
          /\ PropertiesRead(PrinceOfPersia) = {Attracted[m].at : m \in DOMAIN Attracted} \union
                {"Kid Frame", "Kid Previous Frame", "Kid Direction", "Level Door Open",
                 "United With Shadow", "Guard Max HP", "Guard Current Hp"}
      <3>1. Sprilo # PrinceOfPersia /\ AnotherWorld # PrinceOfPersia
        BY MagnetsOf
      <3>2. \A p \in PropertiesRead(PrinceOfPersia) : ValueOf(g, p) \in Int
        BY <1>1, <1>3, ValueFacts
      <3> QED
        BY <3>1, <3>2, Zenon DEF PropertiesRead
    <2>4. g.emulator.core = h.emulator.core
      BY DEF RewardsAlike, PullsAlike
    <2>5. \A p \in {"Kid Direction", "Kid Frame", "Level Door Open", "United With Shadow", "Guard Max HP", "Guard Current Hp"} :
            ValueOf(g, p) = ValueOf(h, p)
      BY <2>4, Zenon DEF ValueOf
    <2>6. ASSUME NEW m \in DOMAIN Attracted
          PROVE  Near(g)[m] = Near(h)[m]
      <3>1. Attracted[m].at \in {"Kid Pos X Raw", "Kid Pos Y Raw", "Guard Pos X Raw", "Guard Pos Y Raw"}
        BY Zenon DEF Attracted, KidMagnets
      <3>2. ValueOf(g, Attracted[m].at) = ValueOf(h, Attracted[m].at)
        BY <2>4, <3>1, Zenon DEF ValueOf
      <3>3. ValueOf(g, Attracted[m].at) \in Int
        BY <2>3
      <3> DEFINE at == ValueOf(g, Attracted[m].at)
                 a == g.magnets[m]
                 b == h.magnets[m]
      <3>4. Near(g)[m] = a.intensity * (255 - Abs(a.position - at)) /\ Near(h)[m] = b.intensity * (255 - Abs(b.position - at))
        BY <3>2 DEF Near
      <3>5. a \in Magnet /\ b \in Magnet /\ Matched(a, b) /\ at \in Int
        BY <2>1, <2>2, <3>3
      <3> HIDE DEF at, a, b
      <3> QED
        BY <3>4, <3>5, NoPull
    <2>7. Near(g) = Near(h)
      BY <2>6 DEF Near
    <2>8. \A m \in Weighing : g.magnets[m].intensity = h.magnets[m].intensity
      BY <2>1, <2>2, NoPull
    <2>9. PrinceReward(g) = PrinceReward(h)
      BY <2>5, <2>7, <2>8, Zenon DEF PrinceReward, Weighing
    <2>10. Sprilo # PrinceOfPersia /\ AnotherWorld # PrinceOfPersia
      BY MagnetsOf
    <2> QED
      BY <1>1, <1>3, <2>9, <2>10, Zenon DEF GameReward
  <1> QED
    BY <1>2, <1>3

\* Evaluation and loading both run the actions of the rules of a status anew.
Ready(g, status) == [ResetActions(g) EXCEPT !.status = status]
Rerun(g, status) == MeasureDistance[RunRuleActions(Ready(g, status))]

Silent(s, g) == [m \in Magnets(Scripts[s].game) |->
    IF Scripts[s].game = PrinceOfPersia THEN [g.magnets[m] EXCEPT !.intensity = 0] ELSE NoMagnet]

NotActed == {"script", "step", "lastInput", "kidPosY", "type", "level", "tolerance", "reward"}
LEMMA ReadyFacts ==
  ASSUME NEW s \in DOMAIN Scripts, NEW g \in GamesOf(s), NEW status \in Statuses(s)
  PROVE  /\ Ready(g, status) \in GamesOf(s)
         /\ Ready(g, status).status = status /\ Ready(g, status).stopped = FALSE
         /\ Ready(g, status).emulator = g.emulator
         /\ \A field \in NotActed : Ready(g, status)[field] = g[field]
  <1> DEFINE M == Magnets(Scripts[s].game)
             none == [m \in M |-> IF Scripts[s].game = PrinceOfPersia
                                    THEN [g.magnets[m] EXCEPT !.intensity = 0] ELSE NoMagnet]
  <1>1. /\ g \in Games /\ g.script = s /\ Game(g) = Scripts[s].game /\ DOMAIN g.magnets = M
        /\ \A m \in M : g.magnets[m] \in Magnet
    BY DEF GamesOf, Games, Game
  <1>2. none \in [M -> Magnet]
    BY <1>1 DEF Magnet, NoMagnet
  <1>3. M \in {Magnets(Sprilo), Magnets(PrinceOfPersia)}
    BY MagnetsOf
  <1>4. status \in SUBSET Nat
    BY DEF Statuses
  <1>5. Ready(g, status) = [g EXCEPT !.magnets = none, !.stopped = FALSE, !.status = status]
    BY <1>1, Zenon DEF Ready, ResetActions, Games
  <1> HIDE DEF none, M
  <1>6. none \in [Magnets(Sprilo) -> Magnet] \union [Magnets(PrinceOfPersia) -> Magnet] /\ DOMAIN none = M
    BY <1>2, <1>3
  <1> DEFINE r == [g EXCEPT !.magnets = none, !.stopped = FALSE, !.status = status]
  <1>7. r \in Games /\ r.magnets = none /\ r.status = status /\ r.stopped = FALSE /\ r.emulator = g.emulator
    BY <1>1, <1>4, <1>6 DEF Games
  <1>8. \A field \in NotActed : r[field] = g[field]
    BY <1>1 DEF Games, NotActed
  <1>9. r.script = s
    BY <1>1, <1>8 DEF NotActed
  <1> HIDE DEF r
  <1>10. r \in GamesOf(s)
    BY <1>1, <1>6, <1>7, <1>9 DEF GamesOf, M
  <1> QED
    BY <1>5, <1>7, <1>8, <1>10 DEF r, none, M

LEMMA ReadyMagnets ==
  ASSUME NEW s \in DOMAIN Scripts, NEW g \in GamesOf(s), NEW status \in Statuses(s)
  PROVE  Ready(g, status).magnets = Silent(s, g)
  <1> DEFINE M == Magnets(Scripts[s].game)
             none == [m \in M |-> IF Scripts[s].game = PrinceOfPersia
                                    THEN [g.magnets[m] EXCEPT !.intensity = 0] ELSE NoMagnet]
  <1>1. g \in Games /\ Game(g) = Scripts[s].game /\ DOMAIN g.magnets = M
    BY DEF GamesOf, Game
  <1>2. Ready(g, status) = [g EXCEPT !.magnets = none, !.stopped = FALSE, !.status = status]
    BY <1>1, Zenon DEF Ready, ResetActions, Games
  <1>3. none = Silent(s, g)
    BY DEF Silent
  <1> HIDE DEF none
  <1> QED
    BY <1>1, <1>2, <1>3 DEF Games

LEMMA ReadyAlike ==
  ASSUME NEW s \in DOMAIN Scripts, NEW g \in GamesOf(s), NEW h \in GamesOf(s), NEW status \in Statuses(s),
         g.emulator.core = h.emulator.core
  PROVE  PullsAlike(Ready(g, status), Ready(h, status))
  <1> DEFINE x == Ready(g, status)
             y == Ready(h, status)
             M == Magnets(Scripts[s].game)
  <1>10. x \in GamesOf(s) /\ x.status = status /\ x.stopped = FALSE /\ x.emulator = g.emulator
    BY ReadyFacts
  <1>11. y \in GamesOf(s) /\ y.status = status /\ y.stopped = FALSE /\ y.emulator = h.emulator
    BY ReadyFacts
  <1>12. Ready(g, status).magnets = Silent(s, g)
    BY ReadyMagnets
  <1>13. Ready(h, status).magnets = Silent(s, h)
    BY ReadyMagnets
  <1>0. /\ x \in GamesOf(s) /\ y \in GamesOf(s) /\ x.status = status /\ y.status = status
        /\ x.stopped = FALSE /\ y.stopped = FALSE
        /\ x.emulator = g.emulator /\ y.emulator = h.emulator
        /\ x.magnets = Silent(s, g) /\ y.magnets = Silent(s, h)
    BY <1>10, <1>11, <1>12, <1>13
  <1> HIDE DEF x, y
  <1>1. x.status = y.status /\ x.stopped = y.stopped /\ x.emulator.core = y.emulator.core
    BY <1>0
  <1>2. Game(x) = Scripts[s].game /\ DOMAIN x.magnets = M
    BY <1>0 DEF GamesOf, Game
  <1>3. CASE Scripts[s].game # PrinceOfPersia
    <2>1. x.magnets = [m \in M |-> NoMagnet] /\ y.magnets = [m \in M |-> NoMagnet]
      BY <1>0, <1>3 DEF Silent
    <2>2. \A m \in M : Matched(x.magnets[m], y.magnets[m])
      BY <2>1 DEF Matched
    <2>3. PullsAlike(x, y)
      BY <1>1, <1>2, <2>1, <2>2, Zenon DEF PullsAlike
    <2> QED
      BY <2>3 DEF x, y
  <1>4. CASE Scripts[s].game = PrinceOfPersia
    <2>1. /\ x.magnets = [m \in M |-> [g.magnets[m] EXCEPT !.intensity = 0]]
          /\ y.magnets = [m \in M |-> [h.magnets[m] EXCEPT !.intensity = 0]]
      BY <1>0, <1>4 DEF Silent
    <2>2. \A m \in M : g.magnets[m] \in Magnet /\ h.magnets[m] \in Magnet
      BY DEF GamesOf, Games
    <2>3. \A m \in M : x.magnets[m].intensity = 0 /\ y.magnets[m].intensity = 0
      BY <2>1, <2>2 DEF Magnet
    <2>4. \A m \in M : Matched(x.magnets[m], y.magnets[m])
      BY <2>3 DEF Matched
    <2>5. PullsAlike(x, y)
      BY <1>1, <1>2, <1>4, <2>4, Zenon DEF PullsAlike
    <2> QED
      BY <2>5 DEF x, y
  <1> QED
    BY <1>3, <1>4

LEMMA DistanceAlike ==
  ASSUME NEW s \in DOMAIN Scripts, NEW g \in GamesOf(s), NEW h \in GamesOf(s), PullsAlike(g, h)
  PROVE  /\ PullsAlike(MeasureDistance[g], MeasureDistance[h])
         /\ Game(g) # PrinceOfPersia => MeasureDistance[g].distance = MeasureDistance[h].distance
  <1> DEFINE x == MeasureDistance[g]
             y == MeasureDistance[h]
  <1>1. /\ g \in Games /\ h \in Games /\ Game(g) = Scripts[s].game /\ Game(h) = Scripts[s].game
    BY DEF GamesOf, Game
  <1>2. \A field \in {"script", "emulator", "status", "stopped", "magnets"} : x[field] = g[field] /\ y[field] = h[field]
    BY <1>1, DistanceTyped DEF Games
  <1>3. Game(x) = Game(g)
    BY <1>2 DEF Game
  <1>4. PullsAlike(x, y)
    <2>1. /\ x.emulator = g.emulator /\ x.status = g.status /\ x.stopped = g.stopped /\ x.magnets = g.magnets
          /\ y.emulator = h.emulator /\ y.status = h.status /\ y.stopped = h.stopped /\ y.magnets = h.magnets
      BY <1>2
    <2> HIDE DEF x, y
    <2> QED
      BY <1>3, <2>1, Zenon DEF PullsAlike
  <1>5. ASSUME Game(g) # PrinceOfPersia PROVE x.distance = y.distance
    <2>1. Game(g) \in {Sprilo, AnotherWorld}
      BY <1>1, <1>5, MagnetsOf
    <2>2. PosX[Game(g)] \in {"Player Pos X", "Lester Pos X"}
      BY <2>1, Zenon DEF PosX
    <2>3. ValueOf(g, PosX[Game(g)]) = ValueOf(h, PosX[Game(g)])
      BY <2>2, Zenon DEF ValueOf, PullsAlike
    <2>4. g.magnets = h.magnets
      BY <1>5 DEF PullsAlike
    <2> DEFINE d == Abs(g.magnets["Set Point Magnet"].position - ValueOf(g, PosX[Game(g)]))
               e == Abs(h.magnets["Set Point Magnet"].position - ValueOf(h, PosX[Game(h)]))
    <2>5. d = e
      BY <1>1, <2>3, <2>4, Zenon
    <2>6. x = [g EXCEPT !.distance = d] /\ y = [h EXCEPT !.distance = e]
      BY <1>1, <1>5 DEF MeasureDistance
    <2> HIDE DEF d, e
    <2>7. x.distance = d /\ y.distance = e
      BY <1>1, <2>6 DEF Games
    <2> QED
      BY <2>5, <2>7
  <1> QED
    BY <1>4, <1>5

ClearedBy(s, status) == \E l \in Labels(s) : Rules[s][l].index \in status /\ Clears(s, l)
UntouchedBy(s, status) == \A l \in Labels(s) : Rules[s][l].index \in status => ~(Clears(s, l) \/ Advances(s, l))

LEMMA RerunFacts ==
  ASSUME NEW s \in DOMAIN Scripts, NEW g \in GamesOf(s), NEW status \in Statuses(s)
  PROVE  /\ Rerun(g, status) \in GamesOf(s)
         /\ Rerun(g, status).status = status
         /\ \A field \in NotActed : Rerun(g, status)[field] = g[field]
         /\ \A field \in DOMAIN g.emulator \ {"written"} : Rerun(g, status).emulator[field] = g.emulator[field]
         /\ Settled(s, status, Rerun(g, status).emulator.written)
         /\ Settled(s, status, g.emulator.written) => Lasting(Rerun(g, status), g)
         /\ UntouchedBy(s, status) => Lasting(Rerun(g, status), g)
  <1> DEFINE r == Ready(g, status)
             q == RunRuleActions(r)
             d == MeasureDistance[q]
  <1>1. /\ r \in GamesOf(s) /\ r.status = status /\ r.emulator = g.emulator
        /\ \A field \in NotActed : r[field] = g[field]
    BY ReadyFacts
  <1>2. q \in Acted(r)
    BY <1>1, RulesActed
  <1> HIDE DEF r
  <1>3. Settled(s, status, q.emulator.written)
    BY <1>1, WritesOnce
  <1>4. Settled(s, status, g.emulator.written) => q.emulator.written = g.emulator.written
    BY <1>1 DEF Settled
  <1>5. UntouchedBy(s, status) => q.emulator.written = g.emulator.written
    <2>1. Satisfied(r) = {l \in Labels(s) : Rules[s][l].index \in status}
      BY <1>1 DEF Satisfied, GamesOf
    <2>2. UntouchedBy(s, status) => \A l \in Satisfied(r) : ~(Clears(s, l) \/ Advances(s, l))
      BY <2>1 DEF UntouchedBy
    <2>3. (\A l \in Satisfied(r) : ~(Clears(s, l) \/ Advances(s, l))) => Lasting(q, r)
      BY <1>1, RulesWrite
    <2> QED
      BY <1>1, <2>2, <2>3 DEF Lasting
  <1>6. /\ q \in GamesOf(s) /\ q.status = status
        /\ \A field \in NotActed : q[field] = g[field]
        /\ \A field \in DOMAIN g.emulator \ {"written"} : q.emulator[field] = g.emulator[field]
    <2>1. DOMAIN r = DOMAIN g /\ DOMAIN g = {"script", "emulator", "step", "lastInput", "magnets", "stopped", "distance",
                         "kidPosY", "status", "type", "level", "tolerance", "reward"}
      BY <1>1 DEF GamesOf, Games
    <2>2. NotActed \subseteq DOMAIN r \ {"emulator", "magnets", "stopped"}
      BY <2>1 DEF NotActed
    <2>3. "status" \in DOMAIN r \ {"emulator", "magnets", "stopped"}
      BY <2>1
    <2>4. r.script = s
      BY <1>1 DEF GamesOf
    <2> HIDE DEF q
    <2> QED
      BY <1>1, <1>2, <2>2, <2>3, <2>4 DEF Acted
  <1> HIDE DEF q
  <1>7. d \in GamesOf(s) /\ \A field \in DOMAIN q \ {"distance"} : d[field] = q[field]
    BY <1>6, DistanceTyped DEF Judged, GamesOf
  <1>8. d.status = status /\ d.emulator = q.emulator /\ \A field \in NotActed : d[field] = g[field]
    <2>1. DOMAIN q = {"script", "emulator", "step", "lastInput", "magnets", "stopped", "distance",
                         "kidPosY", "status", "type", "level", "tolerance", "reward"}
      BY <1>6 DEF GamesOf, Games
    <2>2. NotActed \union {"status", "emulator"} \subseteq DOMAIN q \ {"distance"}
      BY <2>1 DEF NotActed
    <2> HIDE DEF d
    <2> QED
      BY <1>6, <1>7, <2>2
  <1>9. Rerun(g, status) = d
    BY DEF Rerun, d, q, r
  <1> HIDE DEF d
  <1> QED
    BY <1>3, <1>4, <1>5, <1>6, <1>7, <1>8, <1>9 DEF Lasting

LEMMA RerunAlike ==
  ASSUME NEW s \in DOMAIN Scripts, NEW g \in GamesOf(s), NEW h \in GamesOf(s), NEW status \in Statuses(s),
         g.emulator.core = h.emulator.core, g.lastInput = h.lastInput, Lasting(g, h) \/ ClearedBy(s, status)
  PROVE  RewardsAlike(Rerun(g, status), Rerun(h, status))
  <1> DEFINE x == Ready(g, status)
             y == Ready(h, status)
             p == RunRuleActions(x)
             q == RunRuleActions(y)
  <1>1. /\ x \in GamesOf(s) /\ y \in GamesOf(s) /\ x.status = status /\ y.status = status
        /\ x.emulator = g.emulator /\ y.emulator = h.emulator
    BY ReadyFacts
  <1>2. PullsAlike(x, y)
    BY ReadyAlike
  <1> HIDE DEF x, y
  <1>3. PullsAlike(p, q)
    BY <1>1, <1>2, RulesAlike
  <1>4. Lasting(p, q)
    <2>1. Satisfied(x) = {l \in Labels(s) : Rules[s][l].index \in status}
      BY <1>1 DEF Satisfied, GamesOf
    <2>2. ClearedBy(s, status) => \E l \in Satisfied(x) : Clears(s, l)
      BY <2>1 DEF ClearedBy
    <2>3. Lasting(g, h) => Lasting(x, y)
      BY <1>1 DEF Lasting
    <2> QED
      BY <1>1, <2>2, <2>3, RulesWrite
  <1>5. p \in GamesOf(s) /\ q \in GamesOf(s)
    BY <1>1, RulesActed, JudgedFurther
  <1> HIDE DEF p, q
  <1> DEFINE u == MeasureDistance[p]
             v == MeasureDistance[q]
  <1>6. /\ PullsAlike(u, v)
        /\ Game(p) # PrinceOfPersia => u.distance = v.distance
        /\ u.emulator = p.emulator /\ v.emulator = q.emulator /\ u.script = p.script
    BY <1>3, <1>5, DistanceAlike, DistanceTyped DEF GamesOf, Games
  <1>7. Game(u) = Game(p) /\ Lasting(u, v)
    BY <1>4, <1>6 DEF Game, Lasting
  <1>8. u = Rerun(g, status) /\ v = Rerun(h, status)
    BY DEF Rerun, u, v, p, q, x, y
  <1>9. u.lastInput = g.lastInput /\ v.lastInput = h.lastInput
    BY <1>8, RerunFacts DEF NotActed
  <1> HIDE DEF u, v
  <1>10. RewardsAlike(u, v)
    BY <1>6, <1>7, <1>9 DEF RewardsAlike
  <1> QED
    BY <1>8, <1>10

-----------------------------------------------------------------------------
(* What is judged of a state that was stored, as of the one that was run.  *)

LEMMA EvaluatedReruns ==
  ASSUME NEW s \in DOMAIN Scripts, NEW g \in GamesOf(s)
  PROVE  /\ NewStatus(g) \in Statuses(s)
         /\ EvaluateRules[g] = Rerun(g, NewStatus(g))
  <1>1. g \in Games
    BY DEF GamesOf
  <1>2. EvaluateRules[g] = Rerun(g, NewStatus(g))
    BY <1>1, Zenon DEF EvaluateRules, Rerun, Ready
  <1> QED
    BY <1>2, NewStatusFacts

LEMMA LoadedReruns ==
  ASSUME NEW s \in DOMAIN Scripts, NEW g \in GamesOf(s), NEW stored \in StoredGamesOf(s)
  PROVE  /\ stored.status \in Statuses(s)
         /\ DeserializeGame(g, stored) = Rerun(Loaded(g, stored), stored.status)
  <1> DEFINE l == Loaded(g, stored)
             r == ResetActions(l)
  <1>1. l \in GamesOf(s) /\ l.status = stored.status
    BY LoadedTyped DEF StoredMembers
  <1> HIDE DEF l
  <1>2. r \in Acted(l)
    BY <1>1, ResetTyped
  <1>3. r.status = l.status /\ r \in Games
    BY <1>1, <1>2 DEF Acted, GamesOf, Games
  <1> HIDE DEF r
  <1>4. r = [r EXCEPT !.status = stored.status]
    BY <1>1, <1>3 DEF Games
  <1>5. DeserializeGame(g, stored) = MeasureDistance[RunRuleActions(r)]
    BY DEF DeserializeGame, l, r
  <1>6. Rerun(l, stored.status) = MeasureDistance[RunRuleActions([r EXCEPT !.status = stored.status])]
    BY DEF Rerun, Ready, r
  <1> QED
    BY <1>4, <1>5, <1>6 DEF l, StoredGamesOf

\* The type and the checkpoint level depend on the status only.
LEMMA TypedAlike ==
  ASSUME NEW s \in DOMAIN Scripts, NEW g \in GamesOf(s), NEW h \in GamesOf(s), g.status = h.status
  PROVE  /\ UpdateGameStateType[g].type = UpdateGameStateType[h].type
         /\ UpdateGameStateType[g].level = UpdateGameStateType[h].level
         /\ RewardsAlike(g, h) => RewardsAlike(UpdateGameStateType[g], UpdateGameStateType[h])
  <1> DEFINE x == UpdateGameStateType[g]
             y == UpdateGameStateType[h]
  <1>1. /\ g \in Games /\ h \in Games /\ g.script = s /\ h.script = s
        /\ Satisfied(g) = Satisfied(h)
    BY DEF GamesOf, Satisfied
  <1>2. /\ x.type = y.type /\ x.level = y.level
    <2> DEFINE rules == Rules[s]
               checkpoints(f) == {l \in Satisfied(f) : rules[l].checkpoint}
               ends(f) == {l \in Satisfied(f) : rules[l].win \/ rules[l].fail}
               level(f) == Cardinality(checkpoints(f))
               tolerance(f) == IF checkpoints(f) = {} THEN f.tolerance ELSE rules[Max(checkpoints(f))].tolerance
               type(f) == IF ends(f) = {} THEN "normal" ELSE IF rules[Max(ends(f))].fail THEN "fail" ELSE "win"
    <2>1. \A f \in {g, h} : UpdateGameStateType[f] = [f EXCEPT !.level = level(f), !.tolerance = tolerance(f), !.type = type(f)]
      BY <1>1 DEF UpdateGameStateType
    <2>4. checkpoints(g) = checkpoints(h) /\ ends(g) = ends(h)
      BY <1>1
    <2> HIDE DEF checkpoints, ends
    <2>2. level(g) = level(h) /\ type(g) = type(h)
      BY <2>4
    <2> HIDE DEF level, type, tolerance
    <2>3. ASSUME NEW f \in {g, h}
          PROVE  UpdateGameStateType[f].type = type(f) /\ UpdateGameStateType[f].level = level(f)
      <3> DEFINE a == level(f)
                 b == tolerance(f)
                 c == type(f)
      <3>1. UpdateGameStateType[f] = [f EXCEPT !.level = a, !.tolerance = b, !.type = c]
        BY <2>1
      <3> HIDE DEF a, b, c
      <3>2. f \in Games
        BY <1>1
      <3>3. UpdateGameStateType[f].type = c /\ UpdateGameStateType[f].level = a
        BY <3>1, <3>2 DEF Games
      <3> QED
        BY <3>3 DEF a, c
    <2> QED
      BY <2>2, <2>3
  <1>3. \A field \in {"script", "emulator", "status", "stopped", "magnets", "lastInput", "distance"} :
           x[field] = g[field] /\ y[field] = h[field]
    BY <1>1, TypeTyped DEF Games
  <1> HIDE DEF x, y
  <1>4. RewardsAlike(g, h) => RewardsAlike(x, y)
    <2>1. /\ x.emulator = g.emulator /\ x.status = g.status /\ x.stopped = g.stopped /\ x.magnets = g.magnets
          /\ y.emulator = h.emulator /\ y.status = h.status /\ y.stopped = h.stopped /\ y.magnets = h.magnets
          /\ x.lastInput = g.lastInput /\ y.lastInput = h.lastInput
          /\ x.distance = g.distance /\ y.distance = h.distance
          /\ Game(x) = Game(g)
      BY <1>3 DEF Game
    <2> QED
      BY <2>1, Zenon DEF RewardsAlike, PullsAlike, Lasting
  <1> QED
    BY <1>2, <1>4 DEF x, y

LEMMA RewardedAlike ==
  ASSUME NEW s \in DOMAIN Scripts, NEW g \in GamesOf(s), NEW h \in GamesOf(s), RewardsAlike(g, h)
  PROVE  UpdateReward[g].reward = UpdateReward[h].reward
  <1> DEFINE rewards(f) == [l \in Satisfied(f) |-> Rules[f.script][l].reward]
             reward(f) == SumFunction(rewards(f)) + GameReward(f)
  <1>1. /\ g \in Games /\ h \in Games /\ g.script = s /\ h.script = s
        /\ Satisfied(g) = Satisfied(h)
    BY DEF GamesOf, Satisfied, RewardsAlike, PullsAlike
  <1>2. rewards(g) = rewards(h)
    BY <1>1
  <1>3. \A f \in {g, h} : UpdateReward[f] = [f EXCEPT !.reward = reward(f)]
    BY <1>1 DEF UpdateReward
  <1> HIDE DEF rewards
  <1>4. reward(g) = reward(h)
    BY <1>2, GameRewardAlike
  <1> HIDE DEF reward
  <1>5. UpdateReward[g].reward = reward(g) /\ UpdateReward[h].reward = reward(h)
    BY <1>1, <1>3 DEF Games
  <1> QED
    BY <1>4, <1>5

\* What a state is judged to be depends on the new status, the core, the last input and
\* what the rules had written, and on the latter only if no rule clears it.
LEMMA JudgeAlike ==
  ASSUME NEW s \in DOMAIN Scripts, NEW g \in GamesOf(s), NEW h \in GamesOf(s),
         NewStatus(g) = NewStatus(h), g.emulator.core = h.emulator.core, g.lastInput = h.lastInput,
         Lasting(g, h) \/ ClearedBy(s, NewStatus(g))
  PROVE  /\ Lasting(Judge(g), Judge(h))
         /\ \A field \in {"status", "type", "level", "reward"} : Judge(g)[field] = Judge(h)[field]
  <1> DEFINE st == NewStatus(g)
             a == Rerun(g, st)
             b == Rerun(h, st)
             x == UpdateGameStateType[a]
             y == UpdateGameStateType[b]
             p == UpdateReward[x]
             q == UpdateReward[y]
  <1>1. st \in Statuses(s) /\ EvaluateRules[g] = a /\ EvaluateRules[h] = b
    BY EvaluatedReruns
  <1> HIDE DEF st
  <1>2. a \in GamesOf(s) /\ b \in GamesOf(s) /\ a.status = st /\ b.status = st
    BY <1>1, RerunFacts
  <1>3. RewardsAlike(a, b)
    <2>1. Lasting(g, h) \/ ClearedBy(s, st)
      BY DEF st
    <2> QED
      BY <1>1, <2>1, RerunAlike
  <1>11. Judge(g) = p /\ Judge(h) = q
    BY <1>1 DEF Judge
  <1> HIDE DEF a, b
  <1>4. x.type = y.type /\ x.level = y.level /\ RewardsAlike(x, y)
    BY <1>2, <1>3, TypedAlike
  <1>5. x \in GamesOf(s) /\ y \in GamesOf(s)
    BY <1>2, TypeTyped, JudgedFurther
  <1> HIDE DEF x, y
  <1>6. p.reward = q.reward
    BY <1>4, <1>5, RewardedAlike
  <1>7. DOMAIN x = DOMAIN Judge(g) /\ x \in Games /\ y \in Games
    BY <1>5, <1>11, RewardTyped, JudgedFurther DEF GamesOf, Games
  <1>8. \A field \in {"emulator", "status", "type", "level"} : p[field] = x[field] /\ q[field] = y[field]
    BY <1>5, <1>7, RewardTyped DEF Games
  <1> HIDE DEF p, q
  <1>9. Lasting(p, q) /\ p.status = q.status
    BY <1>4, <1>8 DEF RewardsAlike, Lasting, PullsAlike
  <1>10. \A field \in {"status", "type", "level", "reward"} : p[field] = q[field]
    BY <1>4, <1>6, <1>8, <1>9
  <1> QED
    BY <1>9, <1>10, <1>11

\* A runner's game: only Prince of Persia has a Kid.  A worker's has the blocks that are not
\* left out, the player's has all.
Playable(s) == {g \in GamesOf(s) : Scripts[s].game # PrinceOfPersia => g.kidPosY = 0}
Searched(s) == {g \in Playable(s) : g.emulator.enabled = ~Scripts[s].disabled}

\* Games that the same inputs were given to, and that also are in the same state.
SameInputs(g, h) == /\ g.step = h.step /\ g.lastInput = h.lastInput /\ g.emulator.core = h.emulator.core
                    /\ g.emulator.enabled => g.emulator.block = h.emulator.block
Same(g, h) == SameInputs(g, h) /\ g.status = h.status /\ Lasting(g, h)

LEMMA PlayableFacts ==
  ASSUME NEW s \in DOMAIN Scripts, NEW g \in Playable(s)
  PROVE  /\ g \in GamesOf(s) /\ g \in Games /\ g.script = s /\ g.emulator \in Emulators
         /\ g.emulator.core \in CoresOf(s) /\ Same(g, g)
         /\ DOMAIN g = {"script", "emulator", "step", "lastInput", "magnets", "stopped", "distance",
                        "kidPosY", "status", "type", "level", "tolerance", "reward"}
         /\ DOMAIN g.emulator = {"core", "written", "block", "enabled", "rendering", "frame", "curBlit"}
         /\ \A h \in GamesOf(s) : h.kidPosY = Height(s, h.emulator.core, g.kidPosY) \/ h.kidPosY = g.kidPosY
                                  => h \in Playable(s)
  <1>1. g \in GamesOf(s) /\ g \in Games
    BY DEF Playable, GamesOf
  <1>2. \A h \in GamesOf(s) : h.kidPosY = Height(s, h.emulator.core, g.kidPosY) \/ h.kidPosY = g.kidPosY
                              => h \in Playable(s)
    BY DEF Playable, Height
  <1> QED
    BY <1>1, <1>2 DEF GamesOf, Games, Emulators, Same, SameInputs, Lasting

LEMMA SearchedFacts ==
  ASSUME NEW s \in DOMAIN Scripts, NEW g \in Searched(s)
  PROVE  /\ g \in Playable(s) /\ g \in GamesOf(s) /\ g \in Games /\ g.script = s /\ g.emulator \in Emulators
         /\ g.emulator.core \in CoresOf(s) /\ g.emulator.enabled = ~Scripts[s].disabled
         /\ Same(g, g)
         /\ DOMAIN g = {"script", "emulator", "step", "lastInput", "magnets", "stopped", "distance",
                        "kidPosY", "status", "type", "level", "tolerance", "reward"}
         /\ DOMAIN g.emulator = {"core", "written", "block", "enabled", "rendering", "frame", "curBlit"}
         /\ \A h \in GamesOf(s) : /\ h.emulator.enabled = g.emulator.enabled
                                  /\ h.kidPosY = Height(s, h.emulator.core, g.kidPosY) \/ h.kidPosY = g.kidPosY
                                  => h \in Searched(s)
BY PlayableFacts DEF Searched

LEMMA HashAlike ==
  ASSUME NEW s \in DOMAIN Scripts, NEW g \in Playable(s)
  PROVE  /\ ComputeHash(g) \in Playable(s) /\ Same(ComputeHash(g), g) /\ ComputeHash(g).kidPosY = g.kidPosY
         /\ ComputeHash(g).emulator.enabled = g.emulator.enabled
         /\ \A field \in {"reward", "level", "type"} : ComputeHash(g)[field] = g[field]
  <1> DEFINE h == ComputeHash(g)
  <1>1. /\ g \in GamesOf(s)
        /\ DOMAIN g = {"script", "emulator", "step", "lastInput", "magnets", "stopped", "distance",
                        "kidPosY", "status", "type", "level", "tolerance", "reward"}
        /\ DOMAIN g.emulator = {"core", "written", "block", "enabled", "rendering", "frame", "curBlit"}
    BY PlayableFacts
  <1>2. /\ h \in GamesOf(s)
        /\ \A field \in DOMAIN g \ {"emulator"} : h[field] = g[field]
        /\ \A field \in DOMAIN g.emulator \ {"frame"} : h.emulator[field] = g.emulator[field]
    BY <1>1, HashTyped
  <1> HIDE DEF h
  <1>3. /\ h.emulator.enabled = g.emulator.enabled /\ h.kidPosY = g.kidPosY
        /\ \A field \in {"reward", "level", "type"} : h[field] = g[field]
    BY <1>1, <1>2
  <1>4. h \in Playable(s)
    BY <1>2, <1>3, PlayableFacts
  <1>5. Same(h, g)
    BY <1>1, <1>2 DEF Same, SameInputs, Lasting
  <1> QED
    BY <1>3, <1>4, <1>5 DEF h

LEMMA HashSame ==
  ASSUME NEW s \in DOMAIN Scripts, NEW g \in Searched(s)
  PROVE  ComputeHash(g) \in Searched(s) /\ Same(ComputeHash(g), g) /\ ComputeHash(g).kidPosY = g.kidPosY
BY HashAlike DEF Searched

LEMMA AdvanceAlike ==
  ASSUME NEW s \in DOMAIN Scripts, NEW g \in Playable(s), NEW input \in ToSet(InputStrings[s])
  PROVE  /\ AdvanceGame(g, input) \in Playable(s)
         /\ AdvanceGame(g, input).status = g.status /\ Lasting(AdvanceGame(g, input), g)
         /\ AdvanceGame(g, input).emulator.enabled = g.emulator.enabled
         /\ \A h \in Playable(s) : SameInputs(g, h) =>
               /\ SameInputs(AdvanceGame(g, input), AdvanceGame(h, input))
               /\ AdvanceGame(g, input).kidPosY = AdvanceGame(h, input).kidPosY
  <1>1. input \in InputsGiven(s)
    BY DEF InputsGiven
  <1>2. ASSUME NEW f \in Playable(s)
        PROVE  /\ AdvanceGame(f, input) \in Playable(s)
               /\ AdvanceGame(f, input).step = StepAfter(f)
               /\ AdvanceGame(f, input).lastInput = LastInputAfter(f, input)
               /\ AdvanceGame(f, input).status = f.status
               /\ AdvanceGame(f, input).emulator.core = AdvanceCore[f.emulator.core][input]
               /\ AdvanceGame(f, input).emulator.block = 1 - f.emulator.block
               /\ AdvanceGame(f, input).emulator.written = f.emulator.written
               /\ AdvanceGame(f, input).emulator.enabled = f.emulator.enabled
               /\ AdvanceGame(f, input).kidPosY = Height(s, AdvanceGame(f, input).emulator.core, f.kidPosY)
    <2> DEFINE x == AdvanceGame(f, input)
    <2>1. /\ f \in GamesOf(s) /\ f.emulator \in Emulators /\ f.emulator.core \in CoresOf(s) /\ "status" \in DOMAIN f
          /\ DOMAIN f.emulator = {"core", "written", "block", "enabled", "rendering", "frame", "curBlit"}
      BY PlayableFacts
    <2>2. AdvanceCore[f.emulator.core][input] \in Cores
      <3>1. AdvanceCore[f.emulator.core][input] \in CoresOf(s)
        BY <1>1, <2>1, CoresAssumption
      <3> QED
        BY <3>1 DEF CoresOf
    <2>3. /\ x \in GamesOf(s) /\ x.emulator = AdvanceEmulator(f.emulator, input)
          /\ x.kidPosY = Height(s, x.emulator.core, f.kidPosY)
          /\ x.step = StepAfter(f) /\ x.lastInput = LastInputAfter(f, input) /\ x.status = f.status
      BY <1>1, <2>1, AdvanceTyped
    <2> HIDE DEF x
    <2>4. /\ x.emulator.core = AdvanceCore[f.emulator.core][input] /\ x.emulator.block = 1 - f.emulator.block
          /\ x.emulator.written = f.emulator.written /\ x.emulator.enabled = f.emulator.enabled
      BY <2>1, <2>2, <2>3, EmulatorAdvanced
    <2>5. x \in Playable(s)
      BY <2>3, <2>4, PlayableFacts
    <2> QED
      BY <2>3, <2>4, <2>5 DEF x
  <1>3. ASSUME NEW h \in Playable(s), SameInputs(g, h)
        PROVE  /\ SameInputs(AdvanceGame(g, input), AdvanceGame(h, input))
               /\ AdvanceGame(g, input).kidPosY = AdvanceGame(h, input).kidPosY
    <2> DEFINE x == AdvanceGame(g, input)
               y == AdvanceGame(h, input)
    <2>1. Game(g) = Game(h)
      BY PlayableFacts DEF Game
    <2>2. StepAfter(g) = StepAfter(h) /\ LastInputAfter(g, input) = LastInputAfter(h, input)
      BY <1>3, <2>1, Zenon DEF StepAfter, LastInputAfter, SameInputs
    <2>3. /\ x.step = StepAfter(g) /\ x.lastInput = LastInputAfter(g, input)
          /\ x.emulator.core = AdvanceCore[g.emulator.core][input] /\ x.emulator.block = 1 - g.emulator.block
          /\ x.emulator.enabled = g.emulator.enabled
          /\ x.kidPosY = Height(s, x.emulator.core, g.kidPosY)
      BY <1>2
    <2>4. /\ y.step = StepAfter(h) /\ y.lastInput = LastInputAfter(h, input)
          /\ y.emulator.core = AdvanceCore[h.emulator.core][input] /\ y.emulator.block = 1 - h.emulator.block
          /\ y.kidPosY = Height(s, y.emulator.core, h.kidPosY)
      BY <1>2
    <2> HIDE DEF x, y
    <2>5. SameInputs(x, y)
      BY <1>3, <2>2, <2>3, <2>4 DEF SameInputs
    <2>6. Scripts[s].game # PrinceOfPersia => g.kidPosY = h.kidPosY
      BY DEF Playable
    <2>7. x.kidPosY = y.kidPosY
      BY <2>3, <2>4, <2>5, <2>6, Zenon DEF Height, SameInputs
    <2> QED
      BY <2>5, <2>7 DEF x, y
  <1> QED
    BY <1>2, <1>3 DEF Lasting

LEMMA AdvanceSame ==
  ASSUME NEW s \in DOMAIN Scripts, NEW g \in Searched(s), NEW h \in Searched(s), Same(g, h),
         NEW input \in ToSet(InputStrings[s])
  PROVE  /\ AdvanceGame(g, input) \in Searched(s) /\ AdvanceGame(h, input) \in Searched(s)
         /\ Same(AdvanceGame(g, input), AdvanceGame(h, input))
         /\ AdvanceGame(g, input).kidPosY = AdvanceGame(h, input).kidPosY
  <1>1. g \in Playable(s) /\ h \in Playable(s) /\ SameInputs(g, h) /\ g.status = h.status /\ Lasting(g, h)
    BY DEF Searched, Same
  <1> DEFINE x == AdvanceGame(g, input)
             y == AdvanceGame(h, input)
  <1>2. /\ x \in Playable(s) /\ x.status = g.status /\ Lasting(x, g) /\ x.emulator.enabled = g.emulator.enabled
        /\ y \in Playable(s) /\ y.status = h.status /\ Lasting(y, h) /\ y.emulator.enabled = h.emulator.enabled
        /\ SameInputs(x, y) /\ x.kidPosY = y.kidPosY
    BY <1>1, AdvanceAlike
  <1> HIDE DEF x, y
  <1> QED
    BY <1>1, <1>2 DEF Searched, Same, Lasting, x, y

LEMMA JudgeKeeps ==
  ASSUME NEW s \in DOMAIN Scripts, NEW g \in GamesOf(s)
  PROVE  /\ Judge(g) \in GamesOf(s) /\ Judge(g).status = NewStatus(g)
         /\ \A field \in {"script", "step", "lastInput", "kidPosY"} : Judge(g)[field] = g[field]
         /\ \A field \in DOMAIN g.emulator \ {"written"} : Judge(g).emulator[field] = g.emulator[field]
         /\ Settled(s, Judge(g).status, Judge(g).emulator.written)
  <1>1. Judge(g) \in Judged(g) /\ Judge(g).status = NewStatus(g)
    BY JudgeTyped
  <1>2. Judge(g) \in GamesOf(s)
    BY <1>1, JudgedFurther
  <1> DEFINE a == EvaluateRules[g]
             b == UpdateGameStateType[a]
             c == UpdateReward[b]
  <1>3. Judge(g) = c
    BY DEF Judge
  <1>4. /\ a = Rerun(g, NewStatus(g)) /\ NewStatus(g) \in Statuses(s)
    BY EvaluatedReruns
  <1> HIDE DEF a
  <1>5. a \in GamesOf(s) /\ Settled(s, NewStatus(g), a.emulator.written)
    BY <1>4, RerunFacts
  <1>6. b \in GamesOf(s) /\ b.emulator = a.emulator
    <2>1. b \in GamesOf(s)
      BY <1>5, TypeTyped, JudgedFurther
    <2>2. "emulator" \in DOMAIN a \ {"level", "tolerance", "type"}
      BY <1>5 DEF GamesOf, Games
    <2> QED
      BY <1>5, <2>1, <2>2, TypeTyped
  <1> HIDE DEF b
  <1>7. c.emulator = b.emulator
    <2>1. "emulator" \in DOMAIN b \ {"reward"}
      BY <1>6 DEF GamesOf, Games
    <2> QED
      BY <1>6, <2>1, RewardTyped
  <1> HIDE DEF c
  <1>8. Settled(s, Judge(g).status, Judge(g).emulator.written)
    BY <1>1, <1>3, <1>5, <1>6, <1>7
  <1> QED
    BY <1>1, <1>2, <1>8 DEF Judged

\* Two games of the same inputs are judged the same if they satisfy the same rules, and if
\* these clear what was written or the same was.
LEMMA JudgedAlike ==
  ASSUME NEW s \in DOMAIN Scripts, NEW g \in Playable(s), NEW h \in Playable(s), SameInputs(g, h),
         NewStatus(g) = NewStatus(h), Lasting(g, h) \/ ClearedBy(s, NewStatus(g))
  PROVE  /\ Judge(g) \in Playable(s) /\ Judge(h) \in Playable(s) /\ Same(Judge(g), Judge(h))
         /\ Judge(g).emulator.enabled = g.emulator.enabled /\ Judge(h).emulator.enabled = h.emulator.enabled
         /\ \A field \in {"reward", "level", "type"} : Judge(g)[field] = Judge(h)[field]
         /\ Settled(s, Judge(g).status, Judge(g).emulator.written)
  <1> DEFINE x == Judge(g)
             y == Judge(h)
  <1>1. /\ g \in GamesOf(s) /\ h \in GamesOf(s)
        /\ DOMAIN g.emulator = {"core", "written", "block", "enabled", "rendering", "frame", "curBlit"}
        /\ DOMAIN h.emulator = {"core", "written", "block", "enabled", "rendering", "frame", "curBlit"}
    BY PlayableFacts
  <1>2. g.emulator.core = h.emulator.core /\ g.lastInput = h.lastInput
    BY DEF SameInputs
  <1>3. /\ Lasting(x, y)
        /\ \A field \in {"status", "type", "level", "reward"} : x[field] = y[field]
    BY <1>1, <1>2, JudgeAlike
  <1>4. /\ x \in GamesOf(s) /\ \A field \in {"script", "step", "lastInput", "kidPosY"} : x[field] = g[field]
        /\ \A field \in DOMAIN g.emulator \ {"written"} : x.emulator[field] = g.emulator[field]
        /\ Settled(s, x.status, x.emulator.written)
    BY <1>1, JudgeKeeps
  <1>5. /\ y \in GamesOf(s) /\ \A field \in {"script", "step", "lastInput", "kidPosY"} : y[field] = h[field]
        /\ \A field \in DOMAIN h.emulator \ {"written"} : y.emulator[field] = h.emulator[field]
    BY <1>1, JudgeKeeps
  <1> HIDE DEF x, y
  <1>6. /\ x.emulator.core = g.emulator.core /\ x.emulator.block = g.emulator.block
        /\ x.emulator.enabled = g.emulator.enabled /\ y.emulator.enabled = h.emulator.enabled
        /\ y.emulator.core = h.emulator.core /\ y.emulator.block = h.emulator.block
    BY <1>1, <1>4, <1>5
  <1>7. x \in Playable(s) /\ y \in Playable(s)
    BY <1>4, <1>5, PlayableFacts
  <1>8. Same(x, y)
    BY <1>3, <1>4, <1>5, <1>6 DEF Same, SameInputs
  <1> QED
    BY <1>3, <1>4, <1>6, <1>7, <1>8 DEF x, y

\* What is stored of two such states is the same if they are judged the same.
LEMMA SerializedAlike ==
  ASSUME NEW s \in DOMAIN Scripts, NEW g \in Searched(s), NEW h \in Searched(s), Same(g, h),
         g.reward = h.reward, g.level = h.level, g.type = h.type
  PROVE  SerializeGame(g) = SerializeGame(h)
  <1>1. g.emulator.enabled = h.emulator.enabled
    BY SearchedFacts
  <1>2. SerializeEmulator(g.emulator) = SerializeEmulator(h.emulator)
    BY <1>1, Zenon DEF SerializeEmulator, Same, SameInputs, Lasting
  <1> QED
    BY <1>2, Zenon DEF SerializeGame, Same, SameInputs

LEMMA JudgeSame ==
  ASSUME NEW s \in DOMAIN Scripts, NEW g \in Searched(s), NEW h \in Searched(s), Same(g, h), g.kidPosY = h.kidPosY
  PROVE  /\ Judge(g) \in Searched(s) /\ SerializeGame(Judge(g)) = SerializeGame(Judge(h))
         /\ Settled(s, Judge(g).status, Judge(g).emulator.written)
  <1>1. g \in Playable(s) /\ h \in Playable(s) /\ g.script = s /\ h.script = s
    BY SearchedFacts
  <1>2. ReadsAlike(g, h) /\ g.status = h.status /\ SameInputs(g, h) /\ Lasting(g, h)
    BY <1>1 DEF ReadsAlike, Same, SameInputs
  <1>3. NewStatus(g) = NewStatus(h)
    BY <1>2, StatusAlike
  <1> DEFINE x == Judge(g)
             y == Judge(h)
  <1>4. /\ x \in Playable(s) /\ y \in Playable(s) /\ Same(x, y)
        /\ x.emulator.enabled = g.emulator.enabled /\ y.emulator.enabled = h.emulator.enabled
        /\ \A field \in {"reward", "level", "type"} : x[field] = y[field]
        /\ Settled(s, x.status, x.emulator.written)
    BY <1>1, <1>2, <1>3, JudgedAlike
  <1> HIDE DEF x, y
  <1>5. x \in Searched(s) /\ y \in Searched(s)
    BY <1>4 DEF Searched
  <1>6. SerializeGame(x) = SerializeGame(y)
    BY <1>4, <1>5, SerializedAlike
  <1> QED
    BY <1>4, <1>5, <1>6 DEF x, y

\* A state is loaded into a runner as it was stored, wherever the runner has been.
LEMMA LoadSame ==
  ASSUME NEW s \in DOMAIN Scripts, NEW r \in Searched(s), NEW u \in Searched(s),
         Settled(s, u.status, u.emulator.written)
  PROVE  /\ DeserializeGame(r, SerializeGame(u)) \in Searched(s)
         /\ Same(DeserializeGame(r, SerializeGame(u)), u)
  <1> DEFINE stored == SerializeGame(u)
             l == Loaded(r, stored)
             d == Rerun(l, stored.status)
             e == r.emulator
  <1>1. /\ r \in GamesOf(s) /\ u \in GamesOf(s) /\ e \in Emulators
        /\ e.enabled = u.emulator.enabled
        /\ DOMAIN e = {"core", "written", "block", "enabled", "rendering", "frame", "curBlit"}
    BY SearchedFacts
  <1>2. stored \in StoredGamesOf(s) /\ stored.emulator.core = u.emulator.core /\ stored.emulator.written = u.emulator.written
    BY <1>1, SerializedTyped DEF SerializeGame
  <1>3. stored.status = u.status /\ stored.step = u.step /\ stored.lastInput = u.lastInput
    BY DEF SerializeGame
  <1>4. u.emulator.enabled => "block" \in DOMAIN stored.emulator /\ stored.emulator.block = u.emulator.block
    BY Zenon DEF SerializeGame, SerializeEmulator
  <1> HIDE DEF stored
  <1>5. stored.emulator \in StoredEmulators
    BY <1>2 DEF StoredGamesOf, StoredGames
  <1>6. stored.status \in Statuses(s) /\ DeserializeGame(r, stored) = d
    BY <1>1, <1>2, LoadedReruns
  <1>7. /\ l \in GamesOf(s) /\ l.emulator = DeserializeEmulator(e, stored.emulator)
        /\ l.kidPosY = Height(s, stored.emulator.core, r.kidPosY)
        /\ l.step = u.step /\ l.lastInput = u.lastInput
    BY <1>1, <1>2, <1>3, LoadedTyped DEF StoredMembers
  <1>8. /\ l.emulator.core = u.emulator.core /\ l.emulator.written = u.emulator.written
        /\ u.emulator.enabled => l.emulator.block = u.emulator.block
        /\ l.emulator.enabled = u.emulator.enabled
    BY <1>1, <1>2, <1>4, <1>5, <1>7, RestoredEmulator
  <1> HIDE DEF l
  <1>9. DOMAIN l.emulator = {"core", "written", "block", "enabled", "rendering", "frame", "curBlit"}
    BY <1>7 DEF GamesOf, Games, Emulators
  <1>10. Settled(s, stored.status, l.emulator.written)
    BY <1>3, <1>8
  <1>11. /\ d \in GamesOf(s) /\ d.status = u.status /\ Lasting(d, l)
         /\ d.step = l.step /\ d.lastInput = l.lastInput /\ d.kidPosY = l.kidPosY
         /\ \A field \in DOMAIN l.emulator \ {"written"} : d.emulator[field] = l.emulator[field]
    BY <1>3, <1>6, <1>7, <1>10, RerunFacts DEF NotActed
  <1> HIDE DEF d
  <1>12. /\ d.emulator.core = u.emulator.core /\ d.emulator.written = u.emulator.written
         /\ u.emulator.enabled => d.emulator.block = u.emulator.block
         /\ d.emulator.enabled = u.emulator.enabled
    BY <1>8, <1>9, <1>11 DEF Lasting
  <1>13. Same(d, u)
    BY <1>7, <1>11, <1>12 DEF Same, SameInputs, Lasting
  <1>14. d \in Searched(s)
    BY <1>1, <1>2, <1>7, <1>11, <1>12, SearchedFacts
  <1> QED
    BY <1>6, <1>13, <1>14 DEF stored

\* The initial state, whose rules' actions are run once more before its reward.
LEMMA RanAgain ==
  ASSUME NEW s \in DOMAIN Scripts, NEW b \in GamesOf(s), Settled(s, b.status, b.emulator.written)
  PROVE  /\ RunRuleActions(b) \in GamesOf(s) /\ Lasting(RunRuleActions(b), b)
         /\ \A field \in {"script", "status", "type", "level", "distance", "lastInput"} :
               RunRuleActions(b)[field] = b[field]
  <1>1. RunRuleActions(b) \in Acted(b)
    BY RulesActed
  <1>2. {"script", "status", "type", "level", "distance", "lastInput"} \subseteq DOMAIN b \ {"emulator", "magnets", "stopped"}
    BY DEF GamesOf, Games
  <1>3. RunRuleActions(b) \in GamesOf(s)
    BY <1>1, JudgedFurther
  <1> QED
    BY <1>1, <1>2, <1>3 DEF Acted, Settled, Lasting

LEMMA FirstSame ==
  ASSUME NEW s \in DOMAIN Scripts, NEW garbage \in Uninitialized
  PROVE  /\ NewRunner(s, garbage).game \in Searched(s) /\ FirstState(s, garbage).game \in Searched(s)
         /\ SerializeGame(FirstState(s, garbage).game) = SerializeGame(FirstState(s, Unused).game)
         /\ Settled(s, FirstState(s, garbage).game.status, FirstState(s, garbage).game.emulator.written)
         /\ FirstState(s, garbage).game.status = NewStatus(NewRunner(s, Unused).game)
         /\ Lasting(FirstState(s, garbage).game, EvaluateRules[NewRunner(s, garbage).game])
         /\ SameInputs(FirstState(s, garbage).game, NewRunner(s, garbage).game)
         /\ FirstState(s, garbage).game.emulator.block = NewRunner(s, garbage).game.emulator.block
  <1> DEFINE new(x) == NewRunner(s, x).game
             a(x) == EvaluateRules[new(x)]
             b(x) == UpdateGameStateType[a(x)]
             c(x) == RunRuleActions(b(x))
             d(x) == UpdateReward[c(x)]
             Fields == {"core", "written", "block", "enabled", "rendering", "frame", "curBlit"}
  <1>1. Unused \in Uninitialized
    BY GarbageAssumption DEF Unused
  <1>2. ASSUME NEW x \in Uninitialized
        PROVE  /\ new(x) \in Searched(s) /\ new(x).emulator.written = 0
               /\ new(x).step = new(Unused).step /\ new(x).lastInput = new(Unused).lastInput
               /\ new(x).emulator.core = new(Unused).emulator.core
               /\ new(x).emulator.block = new(Unused).emulator.block
               /\ NewStatus(new(x)) = NewStatus(new(Unused))
    <2>1. /\ new(x) \in StartOf(s, x)
          /\ new(x).emulator.core = new(Unused).emulator.core
          /\ new(x).step = new(Unused).step /\ new(x).lastInput = new(Unused).lastInput
          /\ new(x).emulator.block = new(Unused).emulator.block
      BY <1>1, NewRunnerTyped
    <2>2. NewGame(s, x).emulator.enabled = ~Scripts[s].disabled /\ NewGame(s, x).emulator.written = 0
      BY NewGameTyped
    <2>3. NewStatus(new(x)) = NewStatus(new(Unused))
      BY ReplayAssumption
    <2> HIDE DEF new
    <2>4. /\ new(x) \in Searched(s) /\ new(x).emulator.written = 0
      BY <2>1, <2>2 DEF StartOf, Searched, Playable
    <2> QED
      BY <2>1, <2>3, <2>4
  <1> DEFINE st == NewStatus(new(Unused))
  <1>3. ASSUME NEW x \in Uninitialized
        PROVE  /\ st \in Statuses(s) /\ a(x) = Rerun(new(x), st)
               /\ a(x) \in GamesOf(s) /\ a(x).status = st
               /\ Settled(s, st, a(x).emulator.written)
    <2>1. new(x) \in GamesOf(s) /\ NewStatus(new(x)) = st
      BY <1>2, SearchedFacts
    <2>2. NewStatus(new(x)) \in Statuses(s) /\ a(x) = Rerun(new(x), NewStatus(new(x)))
      BY <2>1, EvaluatedReruns
    <2>3. a(x) = Rerun(new(x), st) /\ st \in Statuses(s)
      BY <2>1, <2>2
    <2> HIDE DEF new, a, st
    <2>4. /\ Rerun(new(x), st) \in GamesOf(s) /\ Rerun(new(x), st).status = st
          /\ Settled(s, st, Rerun(new(x), st).emulator.written)
      BY <2>1, <2>3, RerunFacts
    <2> QED
      BY <2>3, <2>4
  <1>4. RewardsAlike(a(garbage), a(Unused))
    <2>1. /\ new(garbage) \in GamesOf(s) /\ new(Unused) \in GamesOf(s)
          /\ new(garbage).emulator.core = new(Unused).emulator.core
          /\ new(garbage).lastInput = new(Unused).lastInput /\ Lasting(new(garbage), new(Unused))
      BY <1>1, <1>2, SearchedFacts DEF Lasting
    <2>2. st \in Statuses(s) /\ a(garbage) = Rerun(new(garbage), st) /\ a(Unused) = Rerun(new(Unused), st)
      BY <1>1, <1>3
    <2> HIDE DEF new, a, st
    <2> QED
      BY <2>1, <2>2, RerunAlike
  <1>5. \A x : FirstState(s, x).game = d(x)
    BY DEF FirstState, NewRunner
  <1>6. ASSUME NEW x \in Uninitialized PROVE d(x) \in Judged(new(x))
    BY <1>5, FirstTyped
  <1> HIDE DEF new, a, st
  <1>7. ASSUME NEW x \in Uninitialized
        PROVE  b(x) \in GamesOf(s) /\ b(x).status = st /\ b(x).emulator = a(x).emulator
    <2>1. /\ a(x) \in GamesOf(s) /\ {"status", "emulator"} \subseteq DOMAIN a(x) \ {"level", "tolerance", "type"}
          /\ a(x).status = st
      BY <1>3 DEF GamesOf, Games
    <2>2. b(x) \in GamesOf(s)
      BY <2>1, TypeTyped, JudgedFurther
    <2>3. b(x).status = a(x).status /\ b(x).emulator = a(x).emulator
      BY <2>1, TypeTyped
    <2> HIDE DEF b
    <2> QED
      BY <2>1, <2>2, <2>3
  <1>8. b(garbage).type = b(Unused).type /\ b(garbage).level = b(Unused).level /\ RewardsAlike(b(garbage), b(Unused))
    <2>1. a(garbage) \in GamesOf(s) /\ a(Unused) \in GamesOf(s) /\ a(garbage).status = a(Unused).status
      BY <1>1, <1>3
    <2> QED
      BY <1>4, <2>1, TypedAlike
  <1> HIDE DEF b
  <1>9. ASSUME NEW x \in Uninitialized
        PROVE  /\ c(x) \in GamesOf(s) /\ Lasting(c(x), b(x))
               /\ \A field \in {"script", "status", "type", "level", "distance", "lastInput"} : c(x)[field] = b(x)[field]
    <2>1. b(x) \in GamesOf(s) /\ Settled(s, b(x).status, b(x).emulator.written)
      BY <1>3, <1>7
    <2> QED
      BY <2>1, RanAgain
  <1>10. PullsAlike(c(garbage), c(Unused))
    <2>1. b(garbage) \in GamesOf(s) /\ b(Unused) \in GamesOf(s) /\ PullsAlike(b(garbage), b(Unused))
      BY <1>1, <1>7, <1>8 DEF RewardsAlike
    <2> QED
      BY <2>1, RulesAlike
  <1> HIDE DEF c
  <1>11. RewardsAlike(c(garbage), c(Unused))
    <2>1. Game(c(garbage)) = Game(b(garbage))
      BY <1>9 DEF Game
    <2>2. /\ c(garbage).distance = b(garbage).distance /\ c(Unused).distance = b(Unused).distance
          /\ c(garbage).lastInput = b(garbage).lastInput /\ c(Unused).lastInput = b(Unused).lastInput
          /\ Lasting(c(garbage), b(garbage)) /\ Lasting(c(Unused), b(Unused))
      BY <1>1, <1>9
    <2> QED
      BY <1>8, <1>10, <2>1, <2>2, Zenon DEF RewardsAlike, Lasting
  <1>12. d(garbage).reward = d(Unused).reward
    BY <1>1, <1>9, <1>11, RewardedAlike
  <1>13. ASSUME NEW x \in Uninitialized
         PROVE  /\ d(x).status = st /\ d(x).type = b(x).type /\ d(x).level = b(x).level
                /\ Lasting(d(x), b(x)) /\ Settled(s, st, d(x).emulator.written)
    <2>1. /\ c(x) \in GamesOf(s)
          /\ {"status", "type", "level", "emulator"} \subseteq DOMAIN c(x) \ {"reward"}
      BY <1>9 DEF GamesOf, Games
    <2>2. d(x).status = c(x).status /\ d(x).type = c(x).type /\ d(x).level = c(x).level /\ d(x).emulator = c(x).emulator
      BY <2>1, RewardTyped
    <2> HIDE DEF d
    <2> QED
      BY <1>3, <1>7, <1>9, <2>2 DEF Lasting
  <1> HIDE DEF d
  <1>14. ASSUME NEW x \in Uninitialized
         PROVE  /\ d(x) \in Searched(s) /\ d(x).step = new(x).step /\ d(x).lastInput = new(x).lastInput
                /\ d(x).emulator.core = new(x).emulator.core /\ d(x).emulator.block = new(x).emulator.block
    <2>1. new(x) \in Searched(s) /\ new(x).script = s /\ DOMAIN new(x).emulator = Fields
      BY <1>2, SearchedFacts
    <2>2. /\ d(x) \in GamesOf(s) /\ d(x).step = new(x).step /\ d(x).lastInput = new(x).lastInput
          /\ d(x).kidPosY = new(x).kidPosY
          /\ \A field \in Fields \ {"written"} : d(x).emulator[field] = new(x).emulator[field]
      BY <1>6, <2>1 DEF Judged
    <2>3. d(x).emulator.enabled = new(x).emulator.enabled
      BY <2>2
    <2>4. d(x) \in Searched(s)
      BY <2>1, <2>2, <2>3, SearchedFacts
    <2> QED
      BY <2>2, <2>4
  <1>15. SerializeGame(d(garbage)) = SerializeGame(d(Unused))
    <2>1. Same(d(garbage), d(Unused))
      <3>1. Lasting(d(garbage), d(Unused))
        BY <1>1, <1>8, <1>13 DEF RewardsAlike, Lasting
      <3> QED
        BY <1>1, <1>2, <1>13, <1>14, <3>1 DEF Same, SameInputs
    <2>2. d(garbage).level = d(Unused).level /\ d(garbage).type = d(Unused).type
      BY <1>1, <1>8, <1>13
    <2> QED
      BY <1>1, <1>12, <1>14, <2>1, <2>2, SerializedAlike
  <1>16. new(garbage) \in Searched(s) /\ d(garbage) \in Searched(s) /\ Settled(s, d(garbage).status, d(garbage).emulator.written)
    BY <1>2, <1>13, <1>14
  <1>17. /\ d(garbage).status = st /\ Lasting(d(garbage), a(garbage))
         /\ SameInputs(d(garbage), new(garbage)) /\ d(garbage).emulator.block = new(garbage).emulator.block
    <2>1. Lasting(d(garbage), a(garbage))
      BY <1>7, <1>13 DEF Lasting
    <2>2. SameInputs(d(garbage), new(garbage))
      BY <1>14 DEF SameInputs
    <2> QED
      BY <1>13, <1>14, <2>1, <2>2
  <1> QED
    BY <1>5, <1>15, <1>16, <1>17 DEF new, a, st
-----------------------------------------------------------------------------
(* What is stored, and the way to it.                                      *)

\* A state undisturbed on its path is what each input makes of the one before.
Lasts(s) == {g \in Searched(s) : Settled(s, g.status, g.emulator.written)}
LEMMA UndisturbedFacts ==
  ASSUME NEW s \in DOMAIN Scripts
  PROVE  /\ Undisturbed(s, <<>>) = FirstState(s, Unused).game
         /\ \A p \in Paths(s) : Undisturbed(s, p) \in Lasts(s)
         /\ \A p \in Paths(s), i \in ToSet(InputStrings[s]) :
               Undisturbed(s, Append(p, i)) = Judge(AdvanceGame(Undisturbed(s, p), i))
  <1> DEFINE I == ToSet(InputStrings[s])
             A == Lasts(s)
             b == FirstState(s, Unused).game
             IsAfter(f) == f = [p \in Seq(I) |-> IF p = <<>> THEN b ELSE Judge(AdvanceGame(f[Front(p)], Last(p)))]
             after == CHOOSE f : IsAfter(f)
             G == [p \in Seq(I) |-> [g \in A |-> Judge(AdvanceGame(g, Last(p)))]]
             W == Seq(I) \ {<<>>}
             H == [p \in Seq(I) |-> [g \in A |-> IF p = <<>> THEN b ELSE G[p][g]]]
  <1>1. \A p : Undisturbed(s, p) = after[p]
    BY DEF Undisturbed, Paths
  <1>2. b \in A
    <2>1. Unused \in Uninitialized
      BY GarbageAssumption DEF Unused
    <2> QED
      BY <2>1, FirstSame DEF Lasts
  <1>3. ASSUME NEW i \in I, NEW g \in A PROVE Judge(AdvanceGame(g, i)) \in A
    <2> DEFINE x == AdvanceGame(g, i)
    <2>1. g \in Searched(s) /\ Same(g, g)
      BY SearchedFacts DEF Lasts
    <2>2. x \in Searched(s)
      BY <2>1, AdvanceSame
    <2> HIDE DEF x
    <2>3. Same(x, x)
      BY <2>2, SearchedFacts
    <2>4. Judge(x) \in Searched(s) /\ Settled(s, Judge(x).status, Judge(x).emulator.written)
      BY <2>2, <2>3, JudgeSame
    <2> QED
      BY <2>4 DEF Lasts, x
  <1> HIDE DEF A, b, G, I
  <1>4. \A p \in W, g \in A : G[p][g] = Judge(AdvanceGame(g, Last(p))) /\ G[p][g] \in A
    <2>1. \A p \in W : Last(p) \in I
      BY FrontLast
    <2> QED
      BY <1>3, <2>1 DEF G
  <1>5. PICK f \in [Seq(I) -> A] : IsSeqRecursion(f, I, b, H)
    <2>1. StepsWithin(H, Seq(I), A)
      BY <1>2, <1>4 DEF StepsWithin
    <2> HIDE DEF H
    <2> QED
      BY <1>2, <2>1, SeqRecursion
  <1>6. \A p \in W : Front(p) \in Seq(I) /\ Last(p) \in I
    BY FrontLast
  <1>7. IsAfter(f)
    <2>1. \A p \in Seq(I) : f[p] = IF p = <<>> THEN b ELSE Judge(AdvanceGame(f[Front(p)], Last(p)))
      BY <1>4, <1>5, <1>6 DEF IsSeqRecursion
    <2> QED
      BY <1>5, <2>1
  <1>8. \A p \in Seq(I) : after[p] = IF p = <<>> THEN b ELSE Judge(AdvanceGame(after[Front(p)], Last(p)))
    <2>1. IsAfter(after)
      BY <1>7
    <2> HIDE DEF after
    <2> QED
      BY <2>1
  <1> HIDE DEF after
  <1>9. after[<<>>] = b
    BY <1>8, EmptySeq
  <1>10. \A p \in Seq(I), i \in I : after[Append(p, i)] = Judge(AdvanceGame(after[p], i))
    <2> TAKE p \in Seq(I), i \in I
    <2>1. /\ Append(p, i) \in Seq(I) /\ Append(p, i) # <<>>
          /\ Front(Append(p, i)) = p /\ Last(Append(p, i)) = i
      BY FrontOfAppend
    <2> QED
      BY <1>8, <2>1
  <1>11. \A p \in Seq(I) : after[p] \in A
    <2> DEFINE Good == {n \in Nat : \A p \in Seq(I) : Len(p) = n => after[p] \in A}
    <2>1. 0 \in Good
      BY <1>2, <1>9, EmptySeq
    <2>2. ASSUME NEW n \in Nat, n \in Good PROVE n + 1 \in Good
      <3> SUFFICES ASSUME NEW p \in Seq(I), Len(p) = n + 1 PROVE after[p] \in A
        OBVIOUS
      <3>1. p # <<>>
        BY EmptySeq
      <3>2. Front(p) \in Seq(I) /\ Len(Front(p)) = Len(p) - 1 /\ Last(p) \in I
        BY <3>1, FrontLast
      <3>4. Len(Front(p)) = n
        BY <2>2, <3>2
      <3>5. after[Front(p)] \in A
        BY <2>2, <3>2, <3>4
      <3>6. after[p] = Judge(AdvanceGame(after[Front(p)], Last(p)))
        BY <1>8, <3>1
      <3> QED
        BY <1>3, <3>2, <3>5, <3>6
    <2>3. Nat \subseteq Good
      <3> HIDE DEF Good
      <3> QED
        BY <2>1, <2>2, NatSetInduction
    <2> QED
      BY <2>3, LenProperties
  <1> QED
    BY <1>1, <1>9, <1>10, <1>11 DEF A, b, I, Paths

LEMMA JudgedSearched ==
  ASSUME NEW s \in DOMAIN Scripts, NEW g \in Searched(s), NEW h \in Judged(g)
  PROVE  h \in Searched(s)
  <1>1. /\ g.script = s /\ "enabled" \in DOMAIN g.emulator \ {"written"}
    BY SearchedFacts
  <1>2. h \in GamesOf(s) /\ h.emulator.enabled = g.emulator.enabled /\ h.kidPosY = g.kidPosY
    BY <1>1 DEF Judged
  <1> QED
    BY <1>2, SearchedFacts

\* The inputs of a stored state are those of the state that it was made of, and one more.
LEMMA PathExtended ==
  ASSUME NEW s \in DOMAIN Scripts, NEW old \in StoredOf(s), old.step < MaxSteps,
         NEW input \in ToSet(InputStrings[s]), NEW new \in StoredOf(s),
         new.history = [old.history EXCEPT ![old.step] = InputIndex(s, input)], new.step = old.step + 1
  PROVE  InputHistory(s, new) = Append(InputHistory(s, old), input)
  <1> DEFINE p == InputHistory(s, old)
             q == InputHistory(s, new)
             I == ToSet(InputStrings[s])
  <1>1. old.step \in Nat /\ MaxSteps \in Nat /\ old.history \in Histories(s)
    BY RunnerAssumption DEF StoredOf
  <1>2. new.step <= MaxSteps /\ old.step <= MaxSteps
    BY <1>1
  <1>3. p \in Seq(I) /\ Len(p) = old.step /\ q \in Seq(I) /\ Len(q) = old.step + 1
    BY <1>1, <1>2, HistoryTyped
  <1>4. Append(p, input) \in Seq(I) /\ Len(Append(p, input)) = old.step + 1
    BY <1>3, AppendProperties
  <1>5. ASSUME NEW k \in 1 .. old.step + 1 PROVE q[k] = Append(p, input)[k]
    <2>1. q[k] = InputString(s, new.history[k - 1])
      BY <1>5 DEF InputHistory
    <2>2. CASE k <= old.step
      <3>1. k - 1 \in 0 .. MaxSteps - 1 /\ k - 1 # old.step /\ k \in 1 .. old.step
        BY <1>1, <2>2
      <3>2. new.history[k - 1] = old.history[k - 1]
        BY <1>1, <3>1 DEF Histories
      <3>3. p[k] = InputString(s, old.history[k - 1])
        BY <3>1 DEF InputHistory
      <3>4. Append(p, input)[k] = p[k]
        BY <1>3, <3>1, AppendProperties
      <3> QED
        BY <2>1, <3>2, <3>3, <3>4
    <2>3. CASE k = old.step + 1
      <3>1. k - 1 \in 0 .. MaxSteps - 1 /\ k - 1 = old.step
        BY <1>1, <2>3
      <3>2. new.history[k - 1] = InputIndex(s, input)
        BY <1>1, <3>1 DEF Histories
      <3>3. Append(p, input)[k] = input
        BY <1>3, <2>3, AppendProperties
      <3> QED
        BY <2>1, <3>2, <3>3, PackedFacts
    <2>4. k <= old.step \/ k = old.step + 1
      BY <1>1
    <2> QED
      BY <2>2, <2>3, <2>4
  <1> HIDE DEF p, q
  <1>6. q = Append(p, input)
    BY <1>1, <1>3, <1>4, <1>5, SeqEqual
  <1> QED
    BY <1>6 DEF p, q

\* The stored state of a path, and the inputs of it.
Reached(s, stored) == stored.game = SerializeGame(Undisturbed(s, InputHistory(s, stored)))
AllowedTo(s, stored) ==
    \A k \in 1 .. stored.step :
        MayRun(InputHistory(s, stored)[k], UpdateDerived[Undisturbed(s, SubSeq(InputHistory(s, stored), 1, k - 1))])

\* What a state has loaded reads as the state undisturbed does, once the Kid's height is
\* computed.
LEMMA BaseFacts ==
  ASSUME NEW s \in DOMAIN Scripts, NEW r \in RunnersOf(s), r.game \in Searched(s),
         NEW stored \in StoredOf(s), stored.step <= MaxSteps, Reached(s, stored)
  PROVE  LET u == Undisturbed(s, InputHistory(s, stored))
             g == DeserializeGame(r.game, stored.game)
         IN /\ u \in Lasts(s) /\ g \in Searched(s) /\ Same(g, u)
            /\ ReadsAlike(g, UpdateDerived[u])
  <1> DEFINE p == InputHistory(s, stored)
             u == Undisturbed(s, p)
             g == DeserializeGame(r.game, stored.game)
  <1>1. p \in Paths(s)
    BY HistoryTyped DEF Paths
  <1>2. u \in Lasts(s)
    BY <1>1, UndisturbedFacts
  <1>3. stored.game = SerializeGame(u)
    BY DEF Reached
  <1>0. stored.game \in StoredGamesOf(s)
    BY DEF StoredOf
  <1> HIDE DEF u, p
  <1>4. u \in Searched(s) /\ Settled(s, u.status, u.emulator.written)
    BY <1>2 DEF Lasts
  <1>5. g \in Searched(s) /\ Same(g, u)
    BY <1>3, <1>4, LoadSame
  <1>6. g.kidPosY = Height(s, u.emulator.core, r.game.kidPosY)
    <2> DEFINE x == r.game
               l == Loaded(r.game, stored.game)
    <2>1. x \in GamesOf(s) /\ "kidPosY" \in DOMAIN x
      BY SearchedFacts
    <2>2. g.kidPosY = l.kidPosY
      BY <1>0, <2>1, DeserializedTyped
    <2>3. l.kidPosY = Height(s, stored.game.emulator.core, x.kidPosY)
      BY <1>0, <2>1, LoadedTyped
    <2>4. stored.game.emulator.core = u.emulator.core
      <3>1. u \in GamesOf(s)
        BY <1>4, SearchedFacts
      <3> QED
        BY <1>3, <3>1, SerializedTyped DEF SerializeGame
    <2> HIDE DEF g, l
    <2> QED
      BY <2>2, <2>3, <2>4
  <1> HIDE DEF g
  <1> DEFINE v == UpdateDerived[u]
  <1>7. /\ u \in GamesOf(s) /\ {"script", "emulator"} \subseteq DOMAIN u \ {"kidPosY"} /\ u.script = s /\ g.script = s
    BY <1>4, <1>5, SearchedFacts
  <1>8. v.kidPosY = Height(s, u.emulator.core, u.kidPosY) /\ v.script = u.script /\ v.emulator = u.emulator
    BY <1>7, DerivedTyped
  <1> HIDE DEF v
  <1>9. Scripts[s].game # PrinceOfPersia => u.kidPosY = r.game.kidPosY
    BY <1>4 DEF Searched, Playable
  <1>10. v.kidPosY = g.kidPosY
    BY <1>6, <1>8, <1>9, Zenon DEF Height
  <1>11. ReadsAlike(g, v)
    BY <1>5, <1>7, <1>8, <1>10 DEF ReadsAlike, Same, SameInputs, Lasting
  <1> QED
    BY <1>2, <1>5, <1>11 DEF p, u, g, v

\* What an input makes of a base state, when it is dropped and when it is stored.
LEMMA InputFollows ==
  ASSUME NEW s \in DOMAIN Scripts, NEW base \in RunnersOf(s), base.step < MaxSteps,
         NEW u \in Lasts(s), base.game \in Searched(s), Same(base.game, u),
         NEW input \in ToSet(InputStrings[s])
  PROVE  LET advanced == Advanced(base, input)
             evaluated == Evaluated(advanced)
             typed == Typed(evaluated)
             rewarded == Rewarded(typed)
         IN /\ \A r \in {advanced, evaluated, typed, rewarded} :
                  /\ r \in RunnersOf(s) /\ r.game \in Searched(s) /\ r.step = base.step + 1
                  /\ r.history = [base.history EXCEPT ![base.step] = InputIndex(s, input)]
            /\ SerializeGame(rewarded.game) = SerializeGame(Judge(AdvanceGame(u, input)))
  <1> DEFINE advanced == Advanced(base, input)
             evaluated == Evaluated(advanced)
             typed == Typed(evaluated)
             rewarded == Rewarded(typed)
             a == advanced.game
             OK(r) == /\ r \in RunnersOf(s) /\ r.step = base.step + 1
                      /\ r.history = [base.history EXCEPT ![base.step] = InputIndex(s, input)]
  <1>1. OK(advanced)
    BY AdvancedTyped
  <1>2. /\ a \in Searched(s) /\ Same(a, AdvanceGame(u, input)) /\ a.kidPosY = AdvanceGame(u, input).kidPosY
        /\ AdvanceGame(u, input) \in Searched(s)
    <2> DEFINE x == AdvanceGame(base.game, input)
               y == AdvanceGame(u, input)
    <2>1. u \in Searched(s)
      BY DEF Lasts
    <2>2. x \in Searched(s) /\ y \in Searched(s) /\ Same(x, y) /\ x.kidPosY = y.kidPosY
      BY <2>1, AdvanceSame
    <2>3. a = ComputeHash(x)
      BY DEF Advanced, Hashed, AdvanceRunner
    <2> HIDE DEF x, y, a
    <2>4. a \in Searched(s) /\ Same(a, x) /\ a.kidPosY = x.kidPosY
      BY <2>2, <2>3, HashSame
    <2>5. x.emulator.enabled = a.emulator.enabled
      BY <2>2, <2>4, SearchedFacts
    <2>6. Same(a, y)
      BY <2>2, <2>4, <2>5 DEF Same, SameInputs, Lasting
    <2> QED
      BY <2>2, <2>4, <2>6 DEF y
  <1> HIDE DEF advanced
  <1>3. OK(evaluated) /\ evaluated.game = EvaluateRules[a]
    <2>1. OK(evaluated)
      BY <1>1, EvaluationTyped
    <2> QED
      BY <1>1, <2>1 DEF Evaluated, RunnersOf
  <1> HIDE DEF evaluated
  <1>4. OK(typed) /\ typed.game = UpdateGameStateType[evaluated.game]
    <2>1. OK(typed)
      BY <1>3, EvaluationTyped
    <2> QED
      BY <1>3, <2>1 DEF Typed, RunnersOf
  <1> HIDE DEF typed
  <1>5. OK(rewarded) /\ rewarded.game = UpdateReward[typed.game]
    <2>1. OK(rewarded)
      BY <1>4, EvaluationTyped
    <2> QED
      BY <1>4, <2>1 DEF Rewarded, RunnersOf
  <1> HIDE DEF rewarded, a
  <1>6. rewarded.game = Judge(a)
    BY <1>3, <1>4, <1>5 DEF Judge
  <1>7. /\ evaluated.game \in Searched(s) /\ typed.game \in Searched(s) /\ rewarded.game \in Searched(s)
        /\ SerializeGame(rewarded.game) = SerializeGame(Judge(AdvanceGame(u, input)))
    <2>1. a \in GamesOf(s)
      BY <1>2, SearchedFacts
    <2>2. EvaluateRules[a] \in Judged(a)
      BY <2>1, EvaluatedTyped
    <2>3. evaluated.game \in Searched(s)
      BY <1>2, <1>3, <2>2, JudgedSearched
    <2>4. UpdateGameStateType[evaluated.game] \in Judged(evaluated.game)
      <3>1. evaluated.game \in GamesOf(s)
        BY <2>3, SearchedFacts
      <3> QED
        BY <3>1, TypeTyped
    <2>5. typed.game \in Searched(s)
      BY <1>4, <2>3, <2>4, JudgedSearched
    <2>6. Judge(a) \in Searched(s) /\ SerializeGame(Judge(a)) = SerializeGame(Judge(AdvanceGame(u, input)))
      BY <1>2, JudgeSame
    <2> QED
      BY <1>6, <2>3, <2>5, <2>6
  <1> QED
    BY <1>1, <1>2, <1>3, <1>4, <1>5, <1>7 DEF advanced, evaluated, typed, rewarded, a

\* An input that is tried on a base state may be run on it, whatever the others that were
\* tried before have left in the runner.
LEMMA TriedMayRun ==
  ASSUME NEW s \in DOMAIN Scripts, NEW base \in RunnersOf(s), base.step < MaxSteps,
         NEW u \in Lasts(s), ReadsAlike(base.game, UpdateDerived[u]), NEW input \in Tried(base)
  PROVE  MayRun(input, UpdateDerived[u])
  <1> DEFINE v == UpdateDerived[u]
             sets == CandidateSets[s]
  <1>0. base.game.script = s
    BY DEF RunnersOf, GamesOf
  <1>1. v.script = s
    BY <1>0 DEF ReadsAlike
  <1>2. CASE input \in AllowedInputs(base)
    <2>1. input \in InputsOf(AllowedSets[s], base.game)
      BY <1>0, <1>2 DEF AllowedInputs
    <2> HIDE DEF v
    <2>2. InputsOf(AllowedSets[s], base.game) = InputsOf(AllowedSets[s], v)
      BY HeldAlike DEF v
    <2> QED
      BY <1>1, <2>1, <2>2 DEF MayRun, v
  <1>3. CASE input \notin AllowedInputs(base)
    <2>1. PICK r \in LeftOver(base, AllowedInputs(base)) : input \in CandidateInputs(r)
      BY <1>3 DEF Tried
    <2>2. r.game.script = s
      BY <2>1, LeftOverTyped DEF RunnersOf, GamesOf
    <2>3. PICK i \in DOMAIN sets : input \in sets[i].inputs
      BY <2>1, <2>2 DEF CandidateInputs, InputsOf
    <2> QED
      BY <1>1, <2>3 DEF MayRun
  <1> QED
    BY <1>2, <1>3

\* The states stored are those of their paths, whose inputs may be run; a worker's runner
\* is a state with the blocks that are not left out.
SearchFollows(s) ==
    /\ runner.game \in Searched(s)
    /\ \A n \in Slots : slots[n] # NoState => Reached(s, slots[n]) /\ AllowedTo(s, slots[n])
Searching == pc = "search" => SearchFollows(Script)

LEMMA SearchingStores == Typing /\ Searching => StoredIsPath /\ InputsAllowed
  <1> SUFFICES ASSUME Typing, Searching PROVE StoredIsPath /\ InputsAllowed
    OBVIOUS
  <1>1. CASE pc = "search"
    <2>1. \A n \in Slots : slots[n] # NoState => Reached(Script, slots[n]) /\ AllowedTo(Script, slots[n])
      BY <1>1 DEF Searching, SearchFollows
    <2> QED
      BY <2>1 DEF Stored, StoredIsPath, InputsAllowed, Reached, AllowedTo, PathTo
  <1>2. CASE pc # "search"
    <2>1. Stored = {}
      BY <1>2 DEF Typing, PlayerTyped, Stored
    <2> QED
      BY <2>1 DEF StoredIsPath, InputsAllowed
  <1> QED
    BY <1>1, <1>2

LEMMA InitSearching == Init => Searching
  <1> SUFFICES ASSUME Init PROVE SearchFollows(Script)
    BY DEF Searching
  <1>1. PICK s \in DOMAIN Scripts, garbage \in Uninitialized :
           /\ runner \in {NewRunner(s, garbage), Hashed(FirstState(s, garbage))}
           /\ slots = [n \in Slots |-> IF n = 1 THEN SerializeRunner(FirstState(s, garbage)) ELSE NoState]
    BY DEF Init
  <1> DEFINE first == FirstState(s, garbage)
             new == NewRunner(s, garbage)
             stored == SerializeRunner(first)
  <1>2. /\ first \in RunnersOf(s) /\ first.step = 0
        /\ new.game \in Searched(s) /\ first.game \in Searched(s)
        /\ SerializeGame(first.game) = SerializeGame(FirstState(s, Unused).game)
    BY FirstTyped, FirstSame
  <1>3. runner.game \in Searched(s)
    <2>1. Hashed(first).game = ComputeHash(first.game)
      BY <1>2 DEF Hashed, RunnersOf
    <2>2. ComputeHash(first.game) \in Searched(s)
      BY <1>2, HashSame
    <2> QED
      BY <1>1, <1>2, <2>1, <2>2
  <1>4. Script = s
    BY <1>3, SearchedFacts DEF Script
  <1>5. stored \in StoredOf(s) /\ stored.step = 0 /\ stored.game = SerializeGame(first.game)
    <2>1. stored \in StoredOf(s)
      BY <1>2, StoredTyped
    <2> QED
      BY <1>2, <2>1 DEF SerializeRunner
  <1> HIDE DEF first, new, stored
  <1>6. InputHistory(s, stored) = <<>>
    <2>1. stored.step <= MaxSteps
      BY <1>5, RunnerAssumption
    <2>2. InputHistory(s, stored) \in Seq(ToSet(InputStrings[s])) /\ Len(InputHistory(s, stored)) = 0
      BY <1>5, <2>1, HistoryTyped
    <2> QED
      BY <2>2, EmptySeq
  <1>7. Reached(s, stored)
    BY <1>2, <1>5, <1>6, UndisturbedFacts DEF Reached
  <1>8. AllowedTo(s, stored)
    <2>1. 1 .. stored.step = {}
      BY <1>5
    <2> QED
      BY <2>1 DEF AllowedTo
  <1>9. \A n \in Slots : slots[n] # NoState => slots[n] = stored
    BY <1>1 DEF stored, first
  <1> QED
    BY <1>3, <1>4, <1>7, <1>8, <1>9 DEF SearchFollows

LEMMA RunInputSearching ==
  ASSUME Typing, Searching, NEW n \in Slots, RunInput(n)
  PROVE  Searching'
  <1> DEFINE s == Script
             base == Base(n)
             path == InputHistory(s, slots[n])
             u == Undisturbed(s, path)
             v == UpdateDerived[u]
  <1>1. s \in DOMAIN Scripts /\ SearchTyped(s) /\ SearchFollows(s) /\ pc = "search" /\ pc' = "search"
    BY DEF Typing, Searching, RunInput
  <1>2. /\ runner \in RunnersOf(s) /\ runner.game \in Searched(s)
        /\ slots[n] \in StoredOf(s) /\ slots[n].step < MaxSteps /\ slots[n].step <= MaxSteps
        /\ Reached(s, slots[n]) /\ AllowedTo(s, slots[n])
    BY <1>1 DEF SearchTyped, SearchFollows, RunInput, IsBase
  <1> HIDE DEF s
  <1>3. /\ path \in Paths(s) /\ Len(path) = slots[n].step /\ slots[n].step \in Nat
    BY <1>1, <1>2, HistoryTyped DEF Paths
  <1>4. /\ u \in Lasts(s) /\ DeserializeGame(runner.game, slots[n].game) \in Searched(s)
        /\ Same(DeserializeGame(runner.game, slots[n].game), u)
        /\ ReadsAlike(DeserializeGame(runner.game, slots[n].game), v)
    BY <1>1, <1>2, BaseFacts
  <1>5. /\ base \in RunnersOf(s) /\ base.step = slots[n].step /\ base.history = slots[n].history
        /\ base.game \in Searched(s) /\ Same(base.game, u) /\ ReadsAlike(base.game, v)
    <2>1. base \in RunnersOf(s)
      BY <1>1, <1>2, StoredTyped DEF Base
    <2>2. base.game = DeserializeGame(runner.game, slots[n].game)
      BY DEF Base, DeserializeRunner
    <2>3. base.step = slots[n].step /\ base.history = slots[n].history
      BY DEF Base, DeserializeRunner
    <2> QED
      BY <1>4, <2>1, <2>2, <2>3
  <1>6. PICK input \in Tried(base) :
           LET advanced == Advanced(base, input)
               evaluated == Evaluated(advanced)
               typed == Typed(evaluated)
           IN \/ RunDropped(advanced) \/ RunDropped(evaluated) \/ RunDropped(typed)
              \/ RunStored(n, Rewarded(typed))
    BY DEF RunInput
  <1> HIDE DEF base, path
  <1>7. input \in ToSet(InputStrings[s]) /\ MayRun(input, v)
    <2>1. base.step < MaxSteps
      BY <1>2, <1>5
    <2>2. input \in ToSet(InputStrings[s])
      BY <1>1, <1>5, <2>1, TriedTyped
    <2>3. MayRun(input, v)
      BY <1>1, <1>4, <1>5, <2>1, TriedMayRun
    <2> QED
      BY <2>2, <2>3
  <1> HIDE DEF u, v
  <1> DEFINE advanced == Advanced(base, input)
             evaluated == Evaluated(advanced)
             typed == Typed(evaluated)
             rewarded == Rewarded(typed)
             stored == SerializeRunner(rewarded)
  <1>8. /\ \A r \in {advanced, evaluated, typed, rewarded} :
              /\ r \in RunnersOf(s) /\ r.game \in Searched(s) /\ r.step = base.step + 1
              /\ r.history = [base.history EXCEPT ![base.step] = InputIndex(s, input)]
        /\ SerializeGame(rewarded.game) = SerializeGame(Judge(AdvanceGame(u, input)))
    BY <1>1, <1>2, <1>4, <1>5, <1>7, InputFollows
  <1> HIDE DEF advanced, evaluated, typed, rewarded
  <1>9. \/ slots' = slots /\ runner' \in {advanced, evaluated, typed, rewarded}
        \/ \E other \in Slots \ {n} : slots' = [slots EXCEPT ![other] = stored] /\ runner' = rewarded
    BY <1>6 DEF RunDropped, RunStored, advanced, evaluated, typed, rewarded
  <1>10. runner'.game \in Searched(s)
    BY <1>8, <1>9
  <1>11. s' = s
    BY <1>1, <1>10, SearchedFacts DEF s, Script
  <1>12. /\ stored \in StoredOf(s) /\ stored.step = slots[n].step + 1
         /\ stored.history = [slots[n].history EXCEPT ![slots[n].step] = InputIndex(s, input)]
         /\ stored.game = SerializeGame(rewarded.game)
    <2>1. stored \in StoredOf(s)
      BY <1>1, <1>8, StoredTyped
    <2>2. rewarded.step = slots[n].step + 1 /\ rewarded.history = [slots[n].history EXCEPT ![slots[n].step] = InputIndex(s, input)]
      BY <1>5, <1>8
    <2> QED
      BY <2>1, <2>2 DEF SerializeRunner
  <1> HIDE DEF stored
  <1>13. InputHistory(s, stored) = Append(path, input)
    <2> DEFINE old == slots[n]
    <2>1. /\ s \in DOMAIN Scripts /\ old \in StoredOf(s) /\ old.step < MaxSteps
          /\ input \in ToSet(InputStrings[s]) /\ stored \in StoredOf(s)
          /\ stored.history = [old.history EXCEPT ![old.step] = InputIndex(s, input)]
          /\ stored.step = old.step + 1
      BY <1>1, <1>2, <1>7, <1>12
    <2> HIDE DEF old
    <2>2. InputHistory(s, stored) = Append(InputHistory(s, old), input)
      BY <2>1, PathExtended
    <2> QED
      BY <2>2 DEF path, old
  <1>14. Reached(s, stored)
    <2>1. Undisturbed(s, Append(path, input)) = Judge(AdvanceGame(u, input))
      BY <1>1, <1>3, <1>7, UndisturbedFacts DEF u
    <2> QED
      BY <1>8, <1>12, <1>13, <2>1 DEF Reached
  <1>15. AllowedTo(s, stored)
    <2> DEFINE q == Append(path, input)
    <2> SUFFICES ASSUME NEW k \in 1 .. stored.step
                 PROVE  MayRun(q[k], UpdateDerived[Undisturbed(s, SubSeq(q, 1, k - 1))])
      BY <1>13 DEF AllowedTo
    <2>0. k \in Int /\ 1 <= k /\ k <= Len(path) + 1 /\ Len(path) \in Nat
      BY <1>3, <1>12
    <2>1. CASE k <= Len(path)
      <3>1. k - 1 \in 0 .. Len(path) /\ k \in 1 .. Len(path)
        BY <2>0, <2>1
      <3>2. q[k] = path[k] /\ SubSeq(q, 1, k - 1) = SubSeq(path, 1, k - 1)
        BY <1>3, <1>7, <3>1, AppendProperties, PrefixFacts DEF Paths
      <3>3. MayRun(path[k], UpdateDerived[Undisturbed(s, SubSeq(path, 1, k - 1))])
        BY <1>2, <1>3, <3>1 DEF AllowedTo, path
      <3> QED
        BY <3>2, <3>3
    <2>2. CASE k = Len(path) + 1
      <3>1. q[k] = input
        BY <1>3, <1>7, <2>2, AppendProperties DEF Paths
      <3>2. SubSeq(q, 1, k - 1) = path
        BY <1>3, <1>7, <2>0, <2>2, PrefixFacts DEF Paths
      <3> QED
        BY <1>7, <3>1, <3>2 DEF v, u
    <2> QED
      BY <2>0, <2>1, <2>2
  <1>16. \A k \in Slots : slots'[k] # NoState => Reached(s, slots'[k]) /\ AllowedTo(s, slots'[k])
    <2>1. \A k \in Slots : slots'[k] = slots[k] \/ slots'[k] = stored
      BY <1>1, <1>9 DEF SearchTyped
    <2>2. \A k \in Slots : slots[k] # NoState => Reached(s, slots[k]) /\ AllowedTo(s, slots[k])
      BY <1>1 DEF SearchFollows
    <2> QED
      BY <1>14, <1>15, <2>1, <2>2
  <1>17. SearchFollows(s)'
    BY <1>10, <1>11, <1>16 DEF SearchFollows
  <1> QED
    BY <1>11, <1>17 DEF Searching, s

LEMMA NextSearching == Typing /\ Searching /\ [Next]_vars => Searching'
  <1> SUFFICES ASSUME Typing, Searching, [Next]_vars PROVE Searching'
    OBVIOUS
  <1>1. CASE \E n \in Slots : RunInput(n)
    BY <1>1, RunInputSearching
  <1>2. CASE StartPlayer
    BY <1>2 DEF StartPlayer, Searching
  <1>3. CASE Player
    <2>1. pc' # "search"
      BY <1>3 DEF Player, RecordStep, ShowStep, Command, Finish, Restart, MoveTo
    <2> QED
      BY <2>1 DEF Searching
  <1>4. CASE UNCHANGED vars
    BY <1>4 DEF vars, playerVars, Searching, SearchFollows, Script
  <1> QED
    BY <1>1, <1>2, <1>3, <1>4 DEF Next

\* What is stored for a state depends on its inputs only.
THEOREM StoresThePath == Spec => []StoredIsPath
  <1>1. Typing /\ [Next]_vars => Typing'
    BY NextTyping
  <1> QED
    BY <1>1, InitTyping, InitSearching, NextSearching, SearchingStores, PTL DEF Spec

\* The inputs of a stored state may be run, each on the state before it.
THEOREM InputsMayRun == Spec => []InputsAllowed
  <1>1. Typing /\ [Next]_vars => Typing'
    BY NextTyping
  <1> QED
    BY <1>1, InitTyping, InitSearching, NextSearching, SearchingStores, PTL DEF Spec
-----------------------------------------------------------------------------
(* The end of a solution.                                                  *)

\* A game, or what is stored of one, before the first input: nothing has been evaluated.
AtStart(s, g) ==
    LET new == NewRunner(s, Unused).game
    IN /\ g.status = {} /\ g.emulator.written = 0
       /\ g.step = new.step /\ g.lastInput = new.lastInput
       /\ g.emulator.core = new.emulator.core /\ g.emulator.block = new.emulator.block

LEMMA NewAtStart ==
  ASSUME NEW s \in DOMAIN Scripts, NEW garbage \in Uninitialized
  PROVE  /\ AtStart(s, NewRunner(s, garbage).game) /\ NewRunner(s, garbage).game \in Playable(s)
         /\ Unused \in Uninitialized
  <1> DEFINE new == NewRunner(s, garbage).game
  <1>1. Unused \in Uninitialized
    BY GarbageAssumption DEF Unused
  <1>2. /\ new \in StartOf(s, garbage) /\ new.step = NewRunner(s, Unused).game.step
        /\ new.lastInput = NewRunner(s, Unused).game.lastInput
        /\ new.emulator.core = NewRunner(s, Unused).game.emulator.core
        /\ new.emulator.block = NewRunner(s, Unused).game.emulator.block
    BY <1>1, NewRunnerTyped
  <1> HIDE DEF new
  <1>3. new \in Playable(s) /\ "status" \in DOMAIN new \ {"emulator", "step", "lastInput", "kidPosY"}
    BY <1>2 DEF StartOf, Playable, GamesOf, Games
  <1>4. new.status = {} /\ new.emulator.written = 0
    <2>1. new.status = NewGame(s, garbage).status /\ new.emulator.written = NewGame(s, garbage).emulator.written
      BY <1>2, <1>3 DEF StartOf
    <2>2. NewGame(s, garbage).status = {}
      BY DEF NewGame
    <2> QED
      BY <2>1, <2>2, NewGameTyped
  <1> QED
    BY <1>1, <1>2, <1>3, <1>4 DEF AtStart, new

\* The engine evaluates the initial state and the playback does not; after one input the
\* same rules are satisfied, and what the initial state's rules wrote has been cleared.
LEMMA FirstInput ==
  ASSUME NEW s \in DOMAIN Scripts, NEW g \in Playable(s), AtStart(s, g), NEW input \in ToSet(InputStrings[s])
  PROVE  LET x == AdvanceGame(g, input)
             y == AdvanceGame(FirstState(s, Unused).game, input)
         IN /\ x \in Playable(s) /\ y \in Playable(s) /\ SameInputs(x, y) /\ NewStatus(x) = NewStatus(y)
            /\ Lasting(x, y) \/ ClearedBy(s, NewStatus(x))
  <1> DEFINE new == NewRunner(s, Unused).game
             first == FirstState(s, Unused).game
             evaluated == EvaluateRules[new]
             st == NewStatus(new)
             x == AdvanceGame(g, input)
             y == AdvanceGame(first, input)
             n == AdvanceGame(new, input)
             e == AdvanceGame(evaluated, input)
  <1>1. AtStart(s, new) /\ new \in Playable(s) /\ Unused \in Uninitialized
    BY NewAtStart, GarbageAssumption DEF Unused
  <1>2. /\ first \in Playable(s) /\ first.status = st /\ Lasting(first, evaluated)
        /\ SameInputs(first, new) /\ first.emulator.block = new.emulator.block
    <2>1. first \in Searched(s)
      BY <1>1, FirstSame
    <2> QED
      BY <1>1, <2>1, FirstSame, SearchedFacts
  <1>3. NewStatus(n) = NewStatus(e)
    BY <1>1, ReplayAssumption
  <1> HIDE DEF first
  <1>4. /\ new \in GamesOf(s) /\ st \in Statuses(s) /\ evaluated = Rerun(new, st)
        /\ DOMAIN new.emulator = {"core", "written", "block", "enabled", "rendering", "frame", "curBlit"}
    BY <1>1, PlayableFacts, EvaluatedReruns
  <1> HIDE DEF new, st
  <1> HIDE DEF evaluated
  <1>5. /\ evaluated \in Playable(s) /\ evaluated.status = st
        /\ SameInputs(evaluated, new) /\ evaluated.emulator.block = new.emulator.block
        /\ UntouchedBy(s, st) => Lasting(evaluated, new)
    <2>1. /\ evaluated \in GamesOf(s) /\ evaluated.status = st
          /\ \A field \in NotActed : evaluated[field] = new[field]
          /\ \A field \in DOMAIN new.emulator \ {"written"} : evaluated.emulator[field] = new.emulator[field]
          /\ UntouchedBy(s, st) => Lasting(evaluated, new)
      BY <1>4, RerunFacts
    <2>2. evaluated.kidPosY = new.kidPosY /\ evaluated.step = new.step /\ evaluated.lastInput = new.lastInput
      BY <2>1 DEF NotActed
    <2>3. evaluated.emulator.core = new.emulator.core /\ evaluated.emulator.block = new.emulator.block
      BY <1>4, <2>1
    <2>4. evaluated \in Playable(s)
      BY <1>1, <2>1, <2>2, PlayableFacts
    <2> QED
      BY <2>1, <2>2, <2>3, <2>4 DEF SameInputs
  <1>6. SameInputs(g, new)
    BY DEF AtStart, SameInputs, new
  <1>7. /\ x \in Playable(s) /\ x.status = g.status /\ Lasting(x, g)
        /\ n \in Playable(s) /\ n.status = new.status /\ Lasting(n, new)
        /\ SameInputs(x, n) /\ x.kidPosY = n.kidPosY
    BY <1>1, <1>6, AdvanceAlike
  <1>8. SameInputs(first, evaluated) /\ SameInputs(g, first)
    BY <1>2, <1>5, <1>6 DEF SameInputs
  <1>9. /\ y \in Playable(s) /\ y.status = first.status /\ Lasting(y, first)
        /\ SameInputs(y, e) /\ y.kidPosY = e.kidPosY
    BY <1>2, <1>5, <1>8, AdvanceAlike
  <1>10. /\ SameInputs(x, y) /\ e \in Playable(s) /\ e.status = evaluated.status /\ Lasting(e, evaluated)
    BY <1>2, <1>5, <1>8, AdvanceAlike
  <1> HIDE DEF x, y, n, e
  <1>11. NewStatus(x) = NewStatus(n)
    <2>1. x.script = n.script /\ x.emulator.core = n.emulator.core
      BY <1>7, PlayableFacts DEF SameInputs
    <2>2. x.status = n.status /\ Lasting(x, n)
      BY <1>1, <1>7 DEF AtStart, Lasting
    <2> QED
      BY <1>7, <2>1, <2>2, StatusAlike DEF ReadsAlike
  <1>12. NewStatus(y) = NewStatus(e)
    <2>1. y.script = e.script /\ y.emulator.core = e.emulator.core
      BY <1>9, <1>10, PlayableFacts DEF SameInputs
    <2>2. y.status = e.status /\ Lasting(y, e)
      BY <1>2, <1>5, <1>9, <1>10 DEF Lasting
    <2> QED
      BY <1>9, <2>1, <2>2, StatusAlike DEF ReadsAlike
  <1>13. NewStatus(x) = NewStatus(y)
    BY <1>3, <1>11, <1>12
  <1>14. Lasting(x, y) \/ ClearedBy(s, NewStatus(y))
    <2>1. st \subseteq NewStatus(y)
      <3>1. y \in GamesOf(s)
        BY <1>9, PlayableFacts
      <3> QED
        BY <1>2, <1>9, <3>1, NewStatusFacts
    <2>2. CASE ClearedBy(s, st)
      BY <2>1, <2>2 DEF ClearedBy
    <2>3. CASE ~ClearedBy(s, st)
      <3>1. UntouchedBy(s, st)
        <4>1. first \in GamesOf(s) /\ first.script = s
          BY <1>2, PlayableFacts
        <4>2. \A l \in Satisfied(first) : ~Clears(s, l)
          BY <1>2, <2>3, <4>1 DEF Satisfied, ClearedBy
        <4>3. \A l \in Satisfied(first) : ~Advances(s, l)
          BY <4>1, <4>2, AdvancesClear
        <4> QED
          BY <1>2, <4>1, <4>2, <4>3 DEF Satisfied, UntouchedBy
      <3>2. first.emulator.written = 0 /\ new.emulator.written = 0 /\ g.emulator.written = 0
        BY <1>1, <1>2, <1>5, <3>1 DEF AtStart, Lasting
      <3> QED
        BY <1>7, <1>9, <3>2 DEF Lasting
    <2> QED
      BY <2>2, <2>3
  <1> QED
    BY <1>7, <1>9, <1>10, <1>13, <1>14 DEF x, y, first

\* A playback is in the state that the inputs played so far lead to undisturbed, but for what
\* only an evaluation sets while there was none.
Replays(s, g, path) ==
    LET u == Undisturbed(s, path)
    IN IF path = <<>> THEN AtStart(s, g)
       ELSE Same(g, u) /\ \A field \in {"reward", "level", "type"} : g[field] = u[field]

\* What is recorded, without the blocks that the search leaves out.
Shown(stored) == [stored EXCEPT !.emulator = Restrict(@, DOMAIN found.emulator)]

\* The inductive invariant of a playback: where it is, and that it ends where the search did.
Replaying ==
    pc # "search" =>
        /\ found = SerializeGame(Undisturbed(Script, solution))
        /\ AtStart(Script, initialState.game)
        /\ pc = "record" => Replays(Script, runner.game, Played(Len(sequence)))
        /\ pc # "record" /\ Length > 0 => Shown(sequence[Length + 1].state.game) = found

LEMMA InputReplays ==
  ASSUME NEW s \in DOMAIN Scripts, NEW g \in Playable(s), NEW path \in Paths(s), Replays(s, g, path),
         NEW input \in ToSet(InputStrings[s])
  PROVE  LET h == Judge(AdvanceGame(g, input))
         IN h \in Playable(s) /\ h.emulator.enabled = g.emulator.enabled /\ Replays(s, h, Append(path, input))
  <1> DEFINE u == Undisturbed(s, path)
             x == AdvanceGame(g, input)
             y == AdvanceGame(u, input)
  <1>1. /\ Undisturbed(s, Append(path, input)) = Judge(y) /\ u \in Playable(s)
        /\ u = IF path = <<>> THEN FirstState(s, Unused).game ELSE u
    BY UndisturbedFacts, SearchedFacts DEF Lasts
  <1>2. Append(path, input) # <<>>
    BY FrontOfAppend DEF Paths
  <1>3. x.emulator.enabled = g.emulator.enabled
    BY AdvanceAlike
  <1>4. /\ x \in Playable(s) /\ y \in Playable(s) /\ SameInputs(x, y) /\ NewStatus(x) = NewStatus(y)
        /\ Lasting(x, y) \/ ClearedBy(s, NewStatus(x))
    <2>1. CASE path = <<>>
      <3>1. u = FirstState(s, Unused).game /\ AtStart(s, g)
        BY <1>1, <2>1 DEF Replays
      <3> QED
        BY <3>1, FirstInput
    <2>2. CASE path # <<>>
      <3>1. SameInputs(g, u) /\ g.status = u.status /\ Lasting(g, u)
        BY <2>2 DEF Replays, Same
      <3> HIDE DEF u
      <3>2. /\ x \in Playable(s) /\ x.status = g.status /\ Lasting(x, g)
            /\ y \in Playable(s) /\ y.status = u.status /\ Lasting(y, u)
            /\ SameInputs(x, y) /\ x.kidPosY = y.kidPosY
        BY <1>1, <3>1, AdvanceAlike
      <3> HIDE DEF x, y
      <3>3. x.script = y.script /\ x.emulator.core = y.emulator.core /\ x.status = y.status /\ Lasting(x, y)
        BY <3>1, <3>2, PlayableFacts DEF SameInputs, Lasting
      <3>4. NewStatus(x) = NewStatus(y)
        BY <3>2, <3>3, StatusAlike DEF ReadsAlike
      <3> QED
        BY <3>2, <3>3, <3>4
    <2> QED
      BY <2>1, <2>2
  <1> HIDE DEF x, y, u
  <1>5. /\ Judge(x) \in Playable(s) /\ Judge(x).emulator.enabled = x.emulator.enabled /\ Same(Judge(x), Judge(y))
        /\ \A field \in {"reward", "level", "type"} : Judge(x)[field] = Judge(y)[field]
    BY <1>4, JudgedAlike
  <1> QED
    BY <1>1, <1>2, <1>3, <1>5 DEF Replays, x

\* Looking at a game, to hash it or to draw it, does not change where it is.
LEMMA LookedAt ==
  ASSUME NEW s \in DOMAIN Scripts, NEW g \in Playable(s), NEW h \in Playable(s),
         \A field \in DOMAIN g \ {"emulator"} : h[field] = g[field],
         \A field \in {"core", "written", "block", "enabled"} : h.emulator[field] = g.emulator[field],
         NEW path
  PROVE  Replays(s, g, path) => Replays(s, h, path)
  <1>1. /\ h.status = g.status /\ h.step = g.step /\ h.lastInput = g.lastInput
        /\ h.reward = g.reward /\ h.level = g.level /\ h.type = g.type
    BY PlayableFacts
  <1>2. /\ h.emulator.core = g.emulator.core /\ h.emulator.written = g.emulator.written
        /\ h.emulator.block = g.emulator.block /\ h.emulator.enabled = g.emulator.enabled
    OBVIOUS
  <1>3. CASE path = <<>>
    BY <1>1, <1>2, <1>3 DEF Replays, AtStart
  <1>4. CASE path # <<>>
    BY <1>1, <1>2, <1>4 DEF Replays, Same, SameInputs, Lasting
  <1> QED
    BY <1>3, <1>4

\* What is recorded at the end is what the search stored, with all blocks.
LEMMA LastShown ==
  ASSUME NEW s \in DOMAIN Scripts, NEW g \in Playable(s), g.emulator.enabled, NEW path, path # <<>>,
         Replays(s, g, path), Undisturbed(s, path) \in Searched(s), found = SerializeGame(Undisturbed(s, path))
  PROVE  Shown(SerializeGame(g)) = found
  <1> DEFINE u == Undisturbed(s, path)
             e == SerializeEmulator(g.emulator)
             f == SerializeEmulator(u.emulator)
  <1>1. Same(g, u) /\ g.reward = u.reward /\ g.level = u.level /\ g.type = u.type
    BY DEF Replays
  <1>2. found = [emulator |-> f, step |-> u.step, lastInput |-> u.lastInput,
                 reward |-> u.reward, level |-> u.level, type |-> u.type, status |-> u.status]
    BY DEF SerializeGame
  <1> HIDE DEF u
  <1>3. e = [core |-> g.emulator.core, written |-> g.emulator.written, block |-> g.emulator.block]
    BY DEF SerializeEmulator
  <1>4. Restrict(e, DOMAIN f) = f
    <2>1. /\ e.core = u.emulator.core /\ e.written = u.emulator.written /\ e.block = u.emulator.block
      BY <1>1, <1>3 DEF Same, SameInputs, Lasting
    <2>2. f \in {[core |-> u.emulator.core, written |-> u.emulator.written, block |-> u.emulator.block],
                 [core |-> u.emulator.core, written |-> u.emulator.written]}
      BY DEF SerializeEmulator
    <2> HIDE DEF e, f
    <2> QED
      BY <2>1, <2>2 DEF Restrict
  <1> HIDE DEF e, f
  <1>5. SerializeGame(g) = [emulator |-> e, step |-> g.step, lastInput |-> g.lastInput,
                            reward |-> g.reward, level |-> g.level, type |-> g.type, status |-> g.status]
    BY DEF SerializeGame, e
  <1>6. Shown(SerializeGame(g)) = [SerializeGame(g) EXCEPT !.emulator = f]
    <2>1. found.emulator = f /\ SerializeGame(g).emulator = e
      BY <1>2, <1>5
    <2> QED
      BY <1>4, <1>5, <2>1 DEF Shown
  <1>7. g.step = u.step /\ g.lastInput = u.lastInput /\ g.status = u.status
    BY <1>1 DEF Same, SameInputs
  <1> QED
    BY <1>1, <1>2, <1>5, <1>6, <1>7

LEMMA StartReplaying == Typing /\ Searching /\ StartPlayer => Replaying'
  <1> SUFFICES ASSUME Typing, Searching, StartPlayer PROVE Replaying'
    OBVIOUS
  <1> DEFINE s == Script
  <1>1. /\ s \in DOMAIN Scripts /\ SearchTyped(s) /\ SearchFollows(s) /\ Typing'
        /\ pc' = "record" /\ sequence' = <<>>
    BY StartTyping DEF Typing, Searching, StartPlayer
  <1>2. PICK n \in Slots : /\ slots[n] # NoState /\ solution' = InputHistory(s, slots[n])
                           /\ found' = slots[n].game
    BY DEF StartPlayer
  <1>3. PICK garbage \in Uninitialized :
           LET new == NewRunner(s, garbage)
               shown == IF options'.disableRender THEN new
                        ELSE [new EXCEPT !.game.emulator = EnableRendering(@)]
           IN /\ runner' = [shown EXCEPT !.game.emulator = EnableStateProperties(@)]
              /\ initialState' = SerializeRunner(Prepared(shown))
    BY DEF StartPlayer
  <1> HIDE DEF s
  <1>4. found' = SerializeGame(Undisturbed(s, solution'))
    BY <1>1, <1>2 DEF SearchFollows, Reached
  <1> DEFINE new == NewRunner(s, garbage)
             shown == IF options'.disableRender THEN new
                      ELSE [new EXCEPT !.game.emulator = EnableRendering(@)]
             OK(r) == r \in RunnersOf(s) /\ AtStart(s, r.game)
  <1>5. OK(new)
    BY <1>1, RunnerTyped, NewAtStart
  <1> HIDE DEF new
  <1>6. ASSUME NEW r, OK(r), NEW e \in {EnableRendering(r.game.emulator), EnableStateProperties(r.game.emulator)}
        PROVE  /\ OK([r EXCEPT !.game.emulator = e]) /\ [r EXCEPT !.game.emulator = e].game.emulator = e
               /\ e \in Emulators
    <2>1. r.game \in Games /\ r.game.emulator \in Emulators /\ (Scripts[s].disabled \/ r.game.emulator.enabled)
      BY <1>6 DEF RunnersOf, GamesOf, Games
    <2>2. e \in Emulators /\ e.core = r.game.emulator.core /\ (r.game.emulator.enabled => e.enabled)
      BY <2>1, ShownEmulators
    <2>3. e.written = r.game.emulator.written /\ e.block = r.game.emulator.block
      BY <2>1 DEF EnableRendering, EnableStateProperties, Emulators
    <2> HIDE DEF AtStart
    <2>4. EmulatorReplaced(s, r, e) \in RunnersOf(s)
      BY <1>1, <1>6, <2>1, <2>2, EmulatorReplacedTyped
    <2>5. EmulatorReplaced(s, r, e).game = [r.game EXCEPT !.emulator = e]
      BY <1>6 DEF EmulatorReplaced, RunnersOf
    <2> DEFINE g == [r.game EXCEPT !.emulator = e]
    <2>6. /\ g.emulator = e /\ g.status = r.game.status /\ g.step = r.game.step /\ g.lastInput = r.game.lastInput
      BY <2>1 DEF Games
    <2> HIDE DEF g
    <2>7. AtStart(s, g)
      BY <1>6, <2>2, <2>3, <2>6 DEF AtStart
    <2>8. [r EXCEPT !.game.emulator = e] = EmulatorReplaced(s, r, e)
      BY DEF EmulatorReplaced
    <2> QED
      BY <2>2, <2>4, <2>5, <2>6, <2>7, <2>8 DEF g
  <1>7. OK(shown)
    BY <1>5, <1>6
  <1>8. runner' = [shown EXCEPT !.game.emulator = EnableStateProperties(shown.game.emulator)]
    BY <1>3 DEF new
  <1>9. initialState' = SerializeRunner(runner')
    BY <1>3, <1>8 DEF Prepared, new
  <1> HIDE DEF shown
  <1>10. /\ OK(runner') /\ runner'.game.emulator = EnableStateProperties(shown.game.emulator)
         /\ runner'.game.emulator \in Emulators
    BY <1>6, <1>7, <1>8
  <1>11. runner'.game.emulator.enabled
    <2>1. shown.game.emulator \in Emulators
      BY <1>7 DEF RunnersOf, GamesOf, Games
    <2> QED
      BY <1>10, <2>1 DEF EnableStateProperties, Emulators
  <1>12. AtStart(s, initialState'.game)
    <2> DEFINE g == runner'.game
               e == runner'.game.emulator
               i == initialState'.game
    <2>1. /\ i.status = g.status /\ i.step = g.step /\ i.lastInput = g.lastInput /\ i.emulator = SerializeEmulator(e)
      BY <1>9 DEF SerializeRunner, SerializeGame
    <2>2. SerializeEmulator(e) = [core |-> e.core, written |-> e.written, block |-> e.block]
      BY <1>11 DEF SerializeEmulator
    <2>3. AtStart(s, g) /\ e = g.emulator
      BY <1>10
    <2> HIDE DEF i, g, e
    <2>4. i.emulator.core = e.core /\ i.emulator.written = e.written /\ i.emulator.block = e.block
      BY <2>1, <2>2
    <2>5. AtStart(s, i)
      BY <2>1, <2>3, <2>4 DEF AtStart
    <2> QED
      BY <2>5 DEF i
  <1>13. s' = s
    BY <1>10 DEF s, Script, RunnersOf, GamesOf
  <1>14. Replays(s, runner'.game, Played(Len(sequence))')
    <2>1. Len(sequence') = 0
      BY <1>1, EmptySeq
    <2>2. solution' \in Seq(ToSet(InputStrings[s])) /\ Len(solution') \in Nat
      BY <1>1, <1>13, LenProperties DEF Typing, PlayerTyped, s
    <2>3. Played(Len(sequence))' = <<>>
      BY <2>1, <2>2, PrefixFacts DEF Played
    <2> HIDE DEF Played
    <2> QED
      BY <1>10, <2>3 DEF Replays
  <1> QED
    BY <1>1, <1>4, <1>12, <1>13, <1>14 DEF Replaying, s

LEMMA RecordReplaying == Typing /\ Following /\ Replaying /\ RecordStep => Replaying'
  <1> SUFFICES ASSUME Typing, Following, Replaying, RecordStep PROVE Replaying'
    OBVIOUS
  <1> DEFINE s == Script
             n == Len(sequence)
             input == IF n < Length THEN solution[n + 1] ELSE InputString(s, 0)
             hashed == Hashed(runner)
             drawn == [hashed EXCEPT !.game.emulator = UpdateRendererState(@)]
             recorded == [state |-> SerializeRunner(hashed), picture |-> drawn.game.emulator.curBlit]
             advanced == AdvanceUnrecorded(drawn, input)
  <1>1. s \in DOMAIN Scripts /\ PlayerTyped(s) /\ pc = "record" /\ s' = s
    BY RecordTyping DEF Typing, RecordStep
  <1>2. /\ sequence' = Append(sequence, recorded)
        /\ runner' = [advanced EXCEPT !.game = Judge(@)]
        /\ pc' = IF n < Length THEN "record" ELSE "show"
        /\ UNCHANGED <<solution, found, initialState>>
    BY DEF RecordStep
  <1> HIDE DEF s
  <1>3. /\ RunnerFollows(s) /\ found = SerializeGame(Undisturbed(s, solution)) /\ AtStart(s, initialState.game)
        /\ Replays(s, runner.game, Played(n))
    BY <1>1 DEF Following, Replaying, s
  <1>4. /\ runner \in RunnersOf(s) /\ runner.game \in GamesOf(s)
        /\ sequence \in Seq(Recorded(s)) /\ n \in 0 .. Length /\ n \in Nat /\ Length \in Nat /\ solution \in Paths(s)
    BY <1>1, LenProperties DEF PlayerTyped, Paths, Length, RunnersOf
  <1>5. runner.game \in Playable(s) /\ runner.game.emulator.enabled
    BY <1>3, <1>4 DEF RunnerFollows, Playable
  <1>6. /\ hashed \in RunnersOf(s) /\ hashed.game = ComputeHash(runner.game) /\ hashed.game \in Playable(s)
        /\ hashed.game.emulator.enabled /\ Replays(s, hashed.game, Played(n))
    <2> DEFINE g == ComputeHash(runner.game)
    <2>1. hashed = [runner EXCEPT !.game = g]
      BY DEF Hashed
    <2>2. runner = [game |-> runner.game, history |-> runner.history, step |-> runner.step]
      BY <1>4 DEF RunnersOf
    <2>3. hashed \in RunnersOf(s)
      BY <1>1, <1>4, EvaluationTyped
    <2>4. g \in Playable(s) /\ g.emulator.enabled
      BY <1>1, <1>5, HashAlike
    <2>5. /\ \A field \in DOMAIN runner.game \ {"emulator"} : g[field] = runner.game[field]
          /\ \A field \in DOMAIN runner.game.emulator \ {"frame"} : g.emulator[field] = runner.game.emulator[field]
      BY <1>1, <1>4, HashTyped
    <2>6. DOMAIN runner.game.emulator = {"core", "written", "block", "enabled", "rendering", "frame", "curBlit"}
      BY <1>1, <1>5, PlayableFacts
    <2> HIDE DEF hashed, g
    <2>7. \A field \in {"core", "written", "block", "enabled"} : g.emulator[field] = runner.game.emulator[field]
      BY <2>5, <2>6
    <2>8. Replays(s, g, Played(n))
      BY <1>1, <1>3, <1>5, <2>4, <2>5, <2>7, LookedAt
    <2>9. hashed.game = g
      BY <2>1, <2>2
    <2> QED
      BY <2>3, <2>4, <2>8, <2>9 DEF g
  <1> HIDE DEF hashed
  <1>7. /\ drawn \in RunnersOf(s) /\ drawn.game \in Playable(s) /\ drawn.game.emulator.enabled
        /\ Replays(s, drawn.game, Played(n))
    <2> DEFINE e == UpdateRendererState(hashed.game.emulator)
               h == hashed.game
               d == drawn.game
    <2>1. h \in GamesOf(s) /\ h \in Games /\ h.emulator \in Emulators /\ h.emulator.enabled
      BY <1>1, <1>6, PlayableFacts
    <2>2. e \in Emulators /\ \A field \in {"core", "written", "block", "enabled"} : e[field] = h.emulator[field]
      BY <2>1 DEF UpdateRendererState, Emulators
    <2> HIDE DEF e
    <2>3. e.core = h.emulator.core /\ e.enabled
      BY <2>1, <2>2
    <2>4. EmulatorReplaced(s, hashed, e) \in RunnersOf(s)
      BY <1>1, <1>6, <2>1, <2>2, <2>3, EmulatorReplacedTyped
    <2>5. EmulatorReplaced(s, hashed, e).game = [h EXCEPT !.emulator = e]
      BY <1>6 DEF EmulatorReplaced, RunnersOf
    <2>6. drawn = EmulatorReplaced(s, hashed, e)
      BY DEF EmulatorReplaced, e
    <2>7. d = [h EXCEPT !.emulator = e] /\ drawn \in RunnersOf(s)
      BY <2>4, <2>5, <2>6
    <2> HIDE DEF drawn
    <2>12. d \in GamesOf(s)
      BY <2>7 DEF RunnersOf
    <2> HIDE DEF d
    <2>8. d.emulator = e /\ \A field \in DOMAIN h \ {"emulator"} : d[field] = h[field]
      BY <2>1, <2>7 DEF Games
    <2>9. d.kidPosY = h.kidPosY
      BY <2>1, <2>8 DEF Games
    <2>10. d \in Playable(s)
      BY <1>6, <2>9, <2>12 DEF Playable
    <2>11. Replays(s, d, Played(n))
      BY <1>1, <1>6, <2>2, <2>8, <2>10, LookedAt
    <2> QED
      BY <2>3, <2>7, <2>8, <2>10, <2>11 DEF d
  <1> HIDE DEF drawn
  <1>8. runner'.game = Judge(AdvanceGame(drawn.game, input))
    <2>1. DOMAIN drawn = {"game", "history", "step"}
      BY <1>7 DEF RunnersOf
    <2> HIDE DEF input
    <2>2. advanced.game = AdvanceGame(drawn.game, input) /\ "game" \in DOMAIN advanced
      BY <2>1 DEF AdvanceUnrecorded
    <2> HIDE DEF advanced
    <2> QED
      BY <1>2, <2>2
  <1>9. \A i : Played(i)' = Played(i)
    BY <1>2 DEF Played
  <1>10. Len(sequence') = n + 1 /\ sequence'[n + 1] = recorded
    <2> DEFINE R == Recorded(s) \union {recorded}
    <2>1. sequence \in Seq(R) /\ recorded \in R
      BY <1>4, SeqMonotonic
    <2> HIDE DEF R, recorded
    <2> QED
      BY <1>2, <2>1, AppendProperties
  <1>11. CASE n < Length
    <2>1. /\ Played(n) \in Paths(s) /\ input \in ToSet(InputStrings[s])
          /\ Played(n + 1) = Append(Played(n), input)
      BY <1>1, <1>4, <1>11, PlayedFacts
    <2>2. Replays(s, runner'.game, Played(n + 1))
      BY <1>1, <1>7, <1>8, <2>1, InputReplays
    <2>3. Replays(s, runner'.game, Played(Len(sequence))')
      BY <1>9, <1>10, <2>2 DEF Played
    <2> QED
      BY <1>1, <1>2, <1>3, <1>11, <2>3 DEF Replaying, s
  <1>12. CASE ~(n < Length)
    <2>1. n = Length
      BY <1>4, <1>12
    <2>2. Length > 0 => Shown(recorded.state.game) = found
      <3> SUFFICES ASSUME Length > 0 PROVE Shown(recorded.state.game) = found
        OBVIOUS
      <3>1. Played(n) = solution /\ Played(n) \in Paths(s) /\ Played(n) # <<>>
        <4>1. Played(n) \in Paths(s) /\ Len(Played(n)) = n
          BY <1>1, <1>4, PlayedFacts
        <4>2. Played(n) = solution
          BY <1>4, <2>1, PrefixFacts DEF Played, Length, Paths
        <4> QED
          BY <1>4, <2>1, <4>1, <4>2, EmptySeq
      <3>2. Undisturbed(s, Played(n)) \in Searched(s)
        BY <1>1, <3>1, UndisturbedFacts DEF Lasts
      <3>3. recorded.state.game = SerializeGame(hashed.game)
        BY DEF SerializeRunner
      <3> QED
        BY <1>1, <1>3, <1>6, <3>1, <3>2, <3>3, LastShown
    <2> DEFINE last == recorded.state.game
    <2>3. Length' = n /\ sequence'[Length' + 1].state.game = last
      BY <1>2, <1>10, <2>1 DEF Length
    <2>4. Length' > 0 => [last EXCEPT !.emulator = Restrict(@, DOMAIN found'.emulator)] = found'
      BY <1>2, <2>1, <2>2, <2>3 DEF Shown
    <2> HIDE DEF last
    <2>5. pc' = "show"
      BY <1>2, <1>12
    <2> QED
      BY <1>1, <1>2, <1>3, <2>3, <2>4, <2>5 DEF Replaying, s, Shown
  <1> QED
    BY <1>11, <1>12

LEMMA ShowReplaying == Typing /\ Replaying /\ ShowStep => Replaying'
  <1> SUFFICES ASSUME Typing, Replaying, ShowStep PROVE Replaying'
    OBVIOUS
  <1>1. Script' = Script /\ pc = "show" /\ pc' = "command" /\ UNCHANGED <<solution, found, initialState, sequence>>
    BY ShowTyping DEF ShowStep, playerVars
  <1> QED
    BY <1>1, Zenon DEF Replaying, Shown, Length

LEMMA CommandReplaying == Typing /\ Following /\ Replaying /\ Command => Replaying'
  <1> SUFFICES ASSUME Typing, Following, Replaying, NEW key \in KeysRead,
                      Finish(key) \/ Restart(key) \/ MoveTo(key)
               PROVE  Replaying'
    BY DEF Command
  <1> DEFINE s == Script
             i == initialState.game
  <1>1. /\ s \in DOMAIN Scripts /\ PlayerTyped(s) /\ pc = "command" /\ s' = s
        /\ UNCHANGED <<solution, found, initialState>>
    BY CommandTyping DEF Typing, Finish, Restart, MoveTo, Command, playerVars
  <1> HIDE DEF s
  <1>2. /\ found = SerializeGame(Undisturbed(s, solution)) /\ AtStart(s, i) /\ StoresAll(initialState)
        /\ Length > 0 => Shown(sequence[Length + 1].state.game) = found
    BY <1>1 DEF Following, Replaying, s
  <1>3. CASE Finish(key) \/ MoveTo(key)
    <2>1. pc' \in {"ended", "show"} /\ UNCHANGED sequence
      BY <1>3 DEF Finish, MoveTo, playerVars
    <2> QED
      BY <1>1, <1>2, <2>1 DEF Replaying, Shown, Length, s
  <1>4. CASE Restart(key)
    <2>1. runner' = DeserializeRunner(runner, initialState) /\ sequence' = <<>> /\ pc' = "record"
      BY <1>4 DEF Restart
    <2> DEFINE g == runner.game
               l == Loaded(g, i)
               h == DeserializeGame(g, i)
    <2>2. g \in GamesOf(s) /\ i \in StoredGamesOf(s) /\ solution \in Paths(s)
      BY <1>1 DEF PlayerTyped, RunnersOf, StoredOf, Paths
    <2>3. g.emulator \in Emulators /\ i.emulator \in StoredEmulators /\ "block" \in DOMAIN i.emulator
      BY <1>2, <2>2 DEF GamesOf, Games, StoresAll, StoredEmulators
    <2>4. i.status \in Statuses(s) /\ h = Rerun(l, i.status)
      BY <1>1, <2>2, LoadedReruns
    <2>5. /\ l \in GamesOf(s) /\ l.emulator = DeserializeEmulator(g.emulator, i.emulator)
          /\ l.step = i.step /\ l.lastInput = i.lastInput
      BY <1>1, <2>2, LoadedTyped DEF StoredMembers
    <2>6. l.emulator.core = i.emulator.core /\ l.emulator.written = i.emulator.written
          /\ l.emulator.block = i.emulator.block
      BY <2>3, <2>5, RestoredEmulator
    <2> HIDE DEF l, h, g, i
    <2>7. i.status = {} /\ UntouchedBy(s, i.status)
      BY <1>2 DEF AtStart, UntouchedBy
    <2>8. /\ h.status = i.status /\ h.step = l.step /\ h.lastInput = l.lastInput
          /\ h.emulator.core = l.emulator.core /\ h.emulator.block = l.emulator.block
      <3>1. DOMAIN l.emulator = {"core", "written", "block", "enabled", "rendering", "frame", "curBlit"}
        BY <2>5 DEF GamesOf, Games, Emulators
      <3> QED
        BY <1>1, <2>4, <2>5, <3>1, RerunFacts DEF NotActed
    <2>9. h.emulator.written = l.emulator.written
      BY <1>1, <2>4, <2>5, <2>7, RerunFacts DEF Lasting
    <2>10. AtStart(s, h)
      BY <1>2, <2>5, <2>6, <2>7, <2>8, <2>9 DEF AtStart
    <2>11. runner'.game = h
      BY <2>1 DEF DeserializeRunner, h, g, i
    <2>12. Len(sequence') = 0 /\ Played(0)' = <<>>
      <3>1. Played(0) = <<>>
        BY <1>1, <2>2, PrefixFacts DEF Played, Paths
      <3> QED
        BY <1>1, <2>1, <3>1, EmptySeq DEF Played
    <2>13. Replays(s, runner'.game, Played(Len(sequence))')
      BY <2>10, <2>11, <2>12 DEF Replays, Played
    <2> QED
      BY <1>1, <1>2, <2>1, <2>13 DEF Replaying, s, i
  <1> QED
    BY <1>3, <1>4

LEMMA NextReplaying == Typing /\ Following /\ Searching /\ Replaying /\ [Next]_vars => Replaying'
  <1> SUFFICES ASSUME Typing, Following, Searching, Replaying, [Next]_vars PROVE Replaying'
    OBVIOUS
  <1>1. CASE \E n \in Slots : RunInput(n)
    BY <1>1 DEF RunInput, Replaying
  <1>2. CASE StartPlayer
    BY <1>2, StartReplaying
  <1>3. CASE RecordStep
    BY <1>3, RecordReplaying
  <1>4. CASE ShowStep
    BY <1>4, ShowReplaying
  <1>5. CASE Command
    BY <1>5, CommandReplaying
  <1>6. CASE UNCHANGED vars
    BY <1>6 DEF vars, playerVars, Replaying, Replays, Shown, Played, Script, Length
  <1> QED
    BY <1>1, <1>2, <1>3, <1>4, <1>5, <1>6 DEF Next, Player

\* Playing the solution of a stored state ends in that state, but for the blocks that the
\* search leaves out, also when it is played again: the playback, which does not evaluate
\* the initial state, agrees with the search from the first input on, and judges a state
\* that was hashed, drawn or restored as the search did the one that it stored.
THEOREM ReplaysTheSolution == Spec => []SolutionReplays
  <1> DEFINE I == Typing /\ Following /\ Searching /\ Replaying
  <1>1. Init => I
    <2>1. Init => pc = "search"
      BY DEF Init
    <2> QED
      BY <2>1, InitTyping, InitSearching DEF Following, Replaying
  <1>2. I /\ [Next]_vars => I'
    BY NextTyping, NextFollowing, NextSearching, NextReplaying
  <1>3. I => SolutionReplays
    BY DEF Replaying, SolutionReplays, Shown
  <1> QED
    BY <1>1, <1>2, <1>3, PTL DEF Spec
-----------------------------------------------------------------------------
(* What is shown of a step.                                                *)

\* The latest of a set is the latest of each part of it that has it.
LEMMA LatestOfPart ==
  ASSUME NEW S, IsFiniteSet(S), S \subseteq Int, NEW T \in SUBSET S, NEW P \in SUBSET T, Max(T) \in P
  PROVE  Max(P) = Max(T)
  <1>1. IsFiniteSet(T) /\ T \subseteq Int /\ T # {} /\ IsFiniteSet(P) /\ P \subseteq Int /\ P # {}
    BY FS_Subset
  <1>2. Max(P) \in P /\ (\A y \in P : Max(P) >= y) /\ (\A y \in T : Max(T) >= y)
    BY <1>1, Extremes
  <1>3. Max(P) >= Max(T) /\ Max(T) >= Max(P) /\ Max(P) \in Int /\ Max(T) \in Int
    BY <1>1, <1>2
  <1> QED
    BY <1>3

\* A rule's actions leave a magnet as the last of them that sets it does.
LEMMA ActionsSet ==
  ASSUME NEW s \in DOMAIN Scripts, NEW g \in GamesOf(s), NEW l \in Labels(s), NEW m \in Magnets(Scripts[s].game)
  PROVE  RunActionsOf(l)[g].magnets[m] =
            IF Ran(g, l) /\ Has(s, l, m) THEN Pulled(g, LastAction(Rules[s][l].actions, m)) ELSE g.magnets[m]
  <1> DEFINE actions == Rules[s][l].actions
             S == DOMAIN Rules[s][l].actions
             Of(T) == {i \in T : actions[i].type = m}
  <1>1. PICK x : /\ RunsInOrder(x, s, l, g)
                 /\ \A T \in SUBSET S : x[T] \in Acted(g)
                 /\ RunActionsOf(l)[g] = IF Rules[s][l].index \in g.status THEN x[S] ELSE g
    BY OwnInOrder
  <1> DEFINE Good == {T \in SUBSET S : x[T].magnets[m] = IF Of(T) = {} THEN g.magnets[m]
                                                         ELSE Pulled(g, actions[Max(Of(T))])}
  <1>2. IsFiniteSet(S) /\ S \subseteq Int
    BY ActionPositions
  <1>3. {} \in Good
    BY <1>1 DEF RunsInOrder
  <1>4. ASSUME NEW T \in SUBSET S, T # {}, Max(T) \in T, T \ {Max(T)} \in Good
        PROVE  T \in Good
    <2> DEFINE n == Max(T)
               a == actions[n]
               R == T \ {n}
    <2>1. a \in RuleActions /\ a \in OwnActions(s)
      BY <1>4, ActionPositions
    <2>2. x[T] = RunAction(a)[x[R]]
      BY <1>1, <1>4 DEF RunsInOrder
    <2>3. x[R] \in Acted(g) /\ x[R] \in GamesOf(s) /\ x[R].emulator.core = g.emulator.core
      <3>1. x[R] \in Acted(g)
        BY <1>1, <1>4
      <3>2. "core" \in DOMAIN g.emulator \ {"written"} /\ g.script = s
        BY DEF GamesOf, Games, Emulators
      <3> QED
        BY <3>1, <3>2 DEF Acted
    <2>4. x[R].magnets[m] = IF Of(R) = {} THEN g.magnets[m] ELSE Pulled(g, actions[Max(Of(R))])
      BY <1>4
    <2>5. x[T].magnets = IF a.type \in Magnets(Scripts[s].game)
                           THEN [x[R].magnets EXCEPT ![a.type] = Pulled(x[R], a)] ELSE x[R].magnets
      <3> DEFINE h == x[R]
      <3>1. h \in GamesOf(s)
        BY <2>3
      <3> HIDE DEF a, h
      <3>2. RunAction(a)[h].magnets = IF a.type \in Magnets(Scripts[s].game)
                                        THEN [h.magnets EXCEPT ![a.type] = Pulled(h, a)] ELSE h.magnets
        BY <2>1, <3>1, ActionFacts
      <3> QED
        BY <2>2, <3>2 DEF h
    <2>6. Pulled(x[R], a) = Pulled(g, a)
      BY <2>3, RoomsRead
    <2>7. DOMAIN x[R].magnets = Magnets(Scripts[s].game)
      BY <2>3 DEF GamesOf
    <2>8. CASE a.type = m
      <3>1. Of(T) \in SUBSET T /\ n \in Of(T)
        BY <1>4, <2>8
      <3>2. Max(Of(T)) = n
        BY <1>2, <3>1, LatestOfPart
      <3>3. x[T].magnets[m] = Pulled(g, a)
        BY <2>5, <2>6, <2>7, <2>8
      <3> QED
        BY <3>1, <3>2, <3>3
    <2>9. CASE a.type # m
      <3>1. Of(T) = Of(R)
        BY <2>9
      <3>2. x[T].magnets[m] = x[R].magnets[m]
        BY <2>5, <2>7, <2>9
      <3> QED
        BY <2>4, <3>1, <3>2
    <2> QED
      BY <2>8, <2>9
  <1>5. S \in Good
    <2> HIDE DEF Good
    <2>1. SUBSET S \subseteq Good
      BY <1>2, <1>3, <1>4, LatestInduction
    <2> QED
      BY <2>1
  <1>6. x[S].magnets[m] = IF Has(s, l, m) THEN Pulled(g, LastAction(actions, m)) ELSE g.magnets[m]
    BY <1>5 DEF Has, LastAction
  <1>7. Ran(g, l) <=> Rules[s][l].index \in g.status
    BY DEF Ran, GamesOf
  <1> HIDE DEF S, actions
  <1> QED
    BY <1>1, <1>6, <1>7 DEF actions

\* The actions of all rules leave a magnet as the last satisfied rule that sets it does.
LEMMA RulesSet ==
  ASSUME NEW s \in DOMAIN Scripts, NEW g \in GamesOf(s), NEW m \in Magnets(Scripts[s].game)
  PROVE  RunRuleActions(g).magnets[m] =
            IF Sets(g, m) = {} THEN g.magnets[m]
            ELSE Pulled(g, LastAction(Rules[s][Max(Sets(g, m))].actions, m))
  <1>1. PICK x : RunsRulesInOrder(x, s, g) /\ \A T \in SUBSET Labels(s) : x[T] \in Acted(g)
    BY RulesInOrder
  <1> DEFINE S == Labels(s)
             Of(T) == {l \in T : Ran(g, l) /\ Has(s, l, m)}
             By(l) == Pulled(g, LastAction(Rules[s][l].actions, m))
             Good == {T \in SUBSET S : x[T].magnets[m] = IF Of(T) = {} THEN g.magnets[m] ELSE By(Max(Of(T)))}
  <1>2. IsFiniteSet(S) /\ S \subseteq Int
    BY LabelFacts
  <1>3. {} \in Good
    BY <1>1 DEF RunsRulesInOrder
  <1>4. ASSUME NEW T \in SUBSET S, T # {}, Max(T) \in T, T \ {Max(T)} \in Good
        PROVE  T \in Good
    <2> DEFINE l == Max(T)
               R == T \ {l}
    <2>1. x[T] = RunActionsOf(l)[x[R]]
      BY <1>1, <1>4 DEF RunsRulesInOrder
    <2>2. x[R] \in Acted(g) /\ l \in S
      BY <1>1, <1>4
    <2>3. /\ x[R] \in GamesOf(s) /\ x[R].status = g.status /\ x[R].script = g.script
          /\ x[R].emulator.core = g.emulator.core
      <3>1. "core" \in DOMAIN g.emulator \ {"written"} /\ g.script = s
        BY DEF GamesOf, Games, Emulators
      <3>2. "status" \in DOMAIN g \ {"emulator", "magnets", "stopped"}
            /\ "script" \in DOMAIN g \ {"emulator", "magnets", "stopped"}
        BY DEF GamesOf, Games
      <3> QED
        BY <2>2, <3>1, <3>2 DEF Acted
    <2>4. x[R].magnets[m] = IF Of(R) = {} THEN g.magnets[m] ELSE By(Max(Of(R)))
      BY <1>4
    <2> DEFINE a == LastAction(Rules[s][l].actions, m)
    <2>5. Pulled(x[R], a) = By(l)
      BY <2>3, RoomsRead
    <2>6. Ran(x[R], l) <=> Ran(g, l)
      BY <2>3 DEF Ran
    <2> HIDE DEF a, By
    <2>7. x[T].magnets[m] = IF Ran(x[R], l) /\ Has(s, l, m) THEN Pulled(x[R], a) ELSE x[R].magnets[m]
      BY <2>1, <2>2, <2>3, ActionsSet DEF a
    <2>8. CASE Ran(g, l) /\ Has(s, l, m)
      <3>1. Of(T) \in SUBSET T /\ l \in Of(T)
        BY <1>4, <2>8
      <3>2. Max(Of(T)) = l
        BY <1>2, <3>1, LatestOfPart
      <3> QED
        BY <2>5, <2>6, <2>7, <2>8, <3>1, <3>2
    <2>9. CASE ~(Ran(g, l) /\ Has(s, l, m))
      <3>1. Of(T) = Of(R)
        BY <2>9
      <3> QED
        BY <2>4, <2>6, <2>7, <2>9, <3>1
    <2> QED
      BY <2>8, <2>9
  <1>5. S \in Good
    <2> HIDE DEF Good
    <2>1. SUBSET S \subseteq Good
      BY <1>2, <1>3, <1>4, LatestInduction
    <2> QED
      BY <2>1
  <1>6. Sets(g, m) = Of(S)
    BY DEF Sets, Satisfied, Ran, GamesOf
  <1> QED
    BY <1>1, <1>5, <1>6 DEF RunsRulesInOrder

\* A state whose rules' actions have been run anew has the magnets that they set last.
LEMMA RerunMagnets ==
  ASSUME NEW s \in DOMAIN Scripts, NEW g \in GamesOf(s), NEW status \in Statuses(s),
         NEW m \in Magnets(Scripts[s].game)
  PROVE  Matched(Rerun(g, status).magnets[m], LastMagnet(Rerun(g, status), m))
  <1> DEFINE r == Ready(g, status)
             q == RunRuleActions(r)
             d == Rerun(g, status)
  <1>1. r \in GamesOf(s) /\ r.status = status /\ r.emulator = g.emulator
    BY ReadyFacts
  <1>2. r.magnets[m].intensity = 0
    <2>1. r.magnets = Silent(s, g)
      BY ReadyMagnets
    <2>2. g.magnets[m] \in Magnet
      BY DEF GamesOf, Games
    <2> QED
      BY <2>1, <2>2 DEF Silent, NoMagnet, Magnet
  <1>3. q \in GamesOf(s)
    BY <1>1, RulesActed, JudgedFurther
  <1>4. d.magnets = q.magnets
    <2>1. "magnets" \in DOMAIN q \ {"distance"}
      BY <1>3 DEF GamesOf, Games
    <2> QED
      BY <1>3, <2>1, DistanceTyped DEF Rerun
  <1>5. d \in GamesOf(s) /\ d.status = status /\ d.emulator.core = g.emulator.core
    <2>1. "core" \in DOMAIN g.emulator \ {"written"}
      BY DEF GamesOf, Games, Emulators
    <2> QED
      BY <2>1, RerunFacts
  <1> HIDE DEF d, r
  <1>6. Sets(r, m) = Sets(d, m)
    BY <1>1, <1>5 DEF Sets, Satisfied, GamesOf
  <1>7. d.magnets[m] = IF Sets(d, m) = {} THEN r.magnets[m]
                       ELSE Pulled(r, LastAction(Rules[s][Max(Sets(d, m))].actions, m))
    BY <1>1, <1>4, <1>6, RulesSet
  <1>8. CASE Sets(d, m) = {}
    BY <1>2, <1>7, <1>8 DEF Matched, LastMagnet, NoMagnet, d
  <1>9. CASE Sets(d, m) # {}
    <2> DEFINE a == LastAction(Rules[s][Max(Sets(d, m))].actions, m)
    <2>1. d.magnets[m] = Pulled(r, a) /\ LastMagnet(d, m) = MagnetSet(d, a)
      BY <1>5, <1>7, <1>9 DEF LastMagnet, GamesOf
    <2> HIDE DEF a
    <2>2. Pulled(r, a) = Pulled(d, a)
      BY <1>1, <1>5, RoomsRead
    <2>3. Matched(Pulled(d, a), MagnetSet(d, a))
      <3>1. CASE a.type \in DOMAIN Attracted /\ ValueOf(d, Attracted[a.type].room) # a.room
        <4>1. Pulled(d, a).intensity = 0 /\ MagnetSet(d, a) = NoMagnet
          BY <3>1, Zenon DEF Pulled, MagnetSet
        <4> QED
          BY <4>1 DEF Matched, NoMagnet
      <3>2. CASE ~(a.type \in DOMAIN Attracted /\ ValueOf(d, Attracted[a.type].room) # a.room)
        <4>1. Pulled(d, a) = MagnetSet(d, a)
          BY <3>2, Zenon DEF Pulled, MagnetSet
        <4> QED
          BY <4>1 DEF Matched
      <3> QED
        BY <3>1, <3>2
    <2> QED
      BY <2>1, <2>2, <2>3 DEF d
  <1> QED
    BY <1>8, <1>9 DEF d

LEMMA NothingWritten ==
  ASSUME NEW s \in DOMAIN Scripts, NEW w
  PROVE  Settled(s, {}, w)
  <1> SUFFICES ASSUME NEW h \in GamesOf(s), h.status = {} PROVE RunRuleActions(h).emulator.written = h.emulator.written
    BY DEF Settled
  <1>1. Satisfied(h) = {}
    BY DEF Satisfied
  <1>2. Lasting(RunRuleActions(h), h)
    BY <1>1, RulesWrite
  <1> QED
    BY <1>2 DEF Lasting

LEMMA ReplaysSettles ==
  ASSUME NEW s \in DOMAIN Scripts, NEW path \in Paths(s), NEW g, Replays(s, g, path)
  PROVE  Settled(s, g.status, g.emulator.written)
  <1>1. CASE path = <<>>
    <2>1. g.status = {}
      BY <1>1 DEF Replays, AtStart
    <2> QED
      BY <2>1, NothingWritten
  <1>2. CASE path # <<>>
    <2> DEFINE u == Undisturbed(s, path)
    <2>1. g.status = u.status /\ g.emulator.written = u.emulator.written
      BY <1>2 DEF Replays, Same, Lasting
    <2>2. Settled(s, u.status, u.emulator.written)
      BY UndisturbedFacts DEF Lasts
    <2> QED
      BY <2>1, <2>2
  <1> QED
    BY <1>1, <1>2

\* A state with all blocks is shown as it was recorded, with the magnets of its rules.
LEMMA ShownAsRecorded ==
  ASSUME NEW s \in DOMAIN Scripts, NEW r \in RunnersOf(s), r.game.emulator.enabled,
         NEW stored \in StoredOf(s), StoresAll(stored),
         Settled(s, stored.game.status, stored.game.emulator.written)
  PROVE  LET h == DeserializeRunner(r, stored)
         IN /\ SerializeRunner(h) = stored
            /\ \A m \in DOMAIN h.game.magnets : Matched(h.game.magnets[m], LastMagnet(h.game, m))
  <1> DEFINE g == r.game
             i == stored.game
             l == Loaded(g, i)
             h == DeserializeGame(g, i)
  <1>1. g \in GamesOf(s) /\ i \in StoredGamesOf(s)
    BY DEF RunnersOf, StoredOf
  <1>2. g.emulator \in Emulators /\ i.emulator \in StoredEmulators /\ "block" \in DOMAIN i.emulator
    BY <1>1 DEF GamesOf, Games, StoresAll, StoredEmulators
  <1>3. i.status \in Statuses(s) /\ h = Rerun(l, i.status)
    BY <1>1, LoadedReruns
  <1>4. /\ l \in GamesOf(s) /\ l.emulator = DeserializeEmulator(g.emulator, i.emulator)
        /\ \A field \in StoredMembers : l[field] = i[field]
    BY <1>1, LoadedTyped
  <1>5. /\ l.emulator.core = i.emulator.core /\ l.emulator.written = i.emulator.written
        /\ l.emulator.block = i.emulator.block /\ l.emulator.enabled
    BY <1>2, <1>4, RestoredEmulator
  <1>6. i.emulator = [core |-> i.emulator.core, written |-> i.emulator.written, block |-> i.emulator.block]
    BY DEF StoresAll
  <1>7. i = [emulator |-> i.emulator, step |-> i.step, lastInput |-> i.lastInput, reward |-> i.reward,
             level |-> i.level, type |-> i.type, status |-> i.status]
    BY <1>1 DEF StoredGamesOf, StoredGames
  <1>8. stored = [game |-> i, history |-> stored.history, step |-> stored.step]
    BY DEF StoredOf
  <1>9. SerializeRunner(DeserializeRunner(r, stored)) =
            [game |-> SerializeGame(h), history |-> stored.history, step |-> stored.step]
    BY DEF SerializeRunner, DeserializeRunner
  <1>10. Settled(s, i.status, l.emulator.written)
    BY <1>5
  <1>11. DeserializeRunner(r, stored).game = h
    BY DEF DeserializeRunner
  <1> HIDE DEF l, h, g, i
  <1>12. /\ h \in GamesOf(s) /\ h.status = i.status /\ Lasting(h, l)
         /\ \A field \in NotActed : h[field] = l[field]
         /\ \A field \in DOMAIN l.emulator \ {"written"} : h.emulator[field] = l.emulator[field]
    BY <1>3, <1>4, <1>10, RerunFacts
  <1>13. /\ h.emulator.core = i.emulator.core /\ h.emulator.written = i.emulator.written
         /\ h.emulator.block = i.emulator.block /\ h.emulator.enabled
    <2>1. DOMAIN l.emulator = {"core", "written", "block", "enabled", "rendering", "frame", "curBlit"}
      BY <1>4 DEF GamesOf, Games, Emulators
    <2> QED
      BY <1>5, <1>12, <2>1 DEF Lasting
  <1>14. /\ h.step = i.step /\ h.lastInput = i.lastInput /\ h.reward = i.reward
         /\ h.level = i.level /\ h.type = i.type
    BY <1>4, <1>12 DEF NotActed, StoredMembers
  <1>15. SerializeEmulator(h.emulator) = i.emulator
    BY <1>6, <1>13 DEF SerializeEmulator
  <1>16. SerializeGame(h) = i
    BY <1>7, <1>12, <1>14, <1>15, Zenon DEF SerializeGame
  <1>17. \A m \in DOMAIN h.magnets : Matched(h.magnets[m], LastMagnet(h, m))
    <2>1. DOMAIN h.magnets = Magnets(Scripts[s].game)
      BY <1>12 DEF GamesOf
    <2> QED
      BY <1>3, <1>4, <2>1, RerunMagnets
  <1> QED
    BY <1>8, <1>9, <1>11, <1>16, <1>17

\* The recorded states are ones that loading keeps, and the step shown is one of them.
Showing ==
    pc # "search" =>
        /\ \A i \in DOMAIN sequence : LET g == sequence[i].state.game
                                      IN Settled(Script, g.status, g.emulator.written)
        /\ pc = "command" =>
              /\ SerializeRunner(runner) = sequence[currentStep + 1].state
              /\ \A m \in DOMAIN runner.game.magnets :
                    Matched(runner.game.magnets[m], LastMagnet(runner.game, m))

LEMMA RecordShowing == Typing /\ Replaying /\ Showing /\ RecordStep => Showing'
  <1> SUFFICES ASSUME Typing, Replaying, Showing, RecordStep PROVE Showing'
    OBVIOUS
  <1> DEFINE s == Script
             n == Len(sequence)
             hashed == Hashed(runner)
             stored == SerializeRunner(hashed)
             drawn == [hashed EXCEPT !.game.emulator = UpdateRendererState(@)]
             recorded == [state |-> stored, picture |-> drawn.game.emulator.curBlit]
  <1>1. s \in DOMAIN Scripts /\ PlayerTyped(s) /\ pc = "record" /\ s' = s
    BY RecordTyping DEF Typing, RecordStep
  <1>2. sequence' = Append(sequence, recorded) /\ pc' \in {"record", "show"}
    BY DEF RecordStep
  <1> HIDE DEF s
  <1>3. /\ runner.game \in GamesOf(s) /\ sequence \in Seq(Recorded(s)) /\ n \in 0 .. Length
        /\ solution \in Paths(s) /\ runner \in RunnersOf(s)
    BY <1>1, LenProperties DEF PlayerTyped, RunnersOf, Paths, Length
  <1>4. Settled(s, runner.game.status, runner.game.emulator.written)
    <2>1. Replays(s, runner.game, Played(n))
      BY <1>1 DEF Replaying, s
    <2>2. Played(n) \in Paths(s)
      BY <1>1, <1>3, PlayedFacts
    <2> QED
      BY <1>1, <2>1, <2>2, ReplaysSettles
  <1>5. hashed.game.status = runner.game.status /\ hashed.game.emulator.written = runner.game.emulator.written
    <2> DEFINE h == ComputeHash(runner.game)
    <2>1. "status" \in DOMAIN runner.game \ {"emulator"} /\ "written" \in DOMAIN runner.game.emulator \ {"frame"}
      BY <1>3 DEF GamesOf, Games, Emulators
    <2>2. h.status = runner.game.status /\ h.emulator.written = runner.game.emulator.written
      BY <1>1, <1>3, <2>1, HashTyped
    <2> HIDE DEF h
    <2>3. hashed = [runner EXCEPT !.game = h]
      BY DEF Hashed, h
    <2>4. hashed.game = h
      BY <1>3, <2>3 DEF RunnersOf
    <2> QED
      BY <2>2, <2>4
  <1> HIDE DEF hashed
  <1>6. stored.game.status = hashed.game.status /\ stored.game.emulator.written = hashed.game.emulator.written
    BY Zenon DEF SerializeRunner, SerializeGame, SerializeEmulator
  <1>7. recorded.state = stored
    OBVIOUS
  <1> HIDE DEF recorded, stored
  <1>8. \A i \in DOMAIN sequence' : (i \in DOMAIN sequence /\ sequence'[i] = sequence[i]) \/ sequence'[i] = recorded
    <2> DEFINE R == Recorded(s) \union {recorded}
    <2>1. sequence \in Seq(R) /\ recorded \in R
      BY <1>3, SeqMonotonic
    <2> HIDE DEF R
    <2>2. /\ sequence' \in Seq(R) /\ Len(sequence') = n + 1 /\ sequence'[n + 1] = recorded
          /\ \A i \in 1 .. n : sequence'[i] = sequence[i]
      BY <1>2, <2>1, AppendProperties
    <2>3. DOMAIN sequence' = 1 .. n + 1 /\ DOMAIN sequence = 1 .. n /\ n \in Nat
      BY <2>1, <2>2, LenProperties
    <2> QED
      BY <2>2, <2>3
  <1>9. \A i \in DOMAIN sequence : Settled(s, sequence[i].state.game.status, sequence[i].state.game.emulator.written)
    BY <1>1 DEF Showing, s
  <1>10. ASSUME NEW i \in DOMAIN sequence'
         PROVE  Settled(s, sequence'[i].state.game.status, sequence'[i].state.game.emulator.written)
    BY <1>4, <1>5, <1>6, <1>7, <1>8, <1>9, <1>10
  <1> QED
    BY <1>1, <1>2, <1>10 DEF Showing, s

LEMMA ShowShowing == Typing /\ Following /\ Showing /\ ShowStep => Showing'
  <1> SUFFICES ASSUME Typing, Following, Showing, ShowStep PROVE Showing'
    OBVIOUS
  <1> DEFINE s == Script
             step == sequence[currentStep + 1]
             framed == RenderFrame(runner, step)
  <1>1. s \in DOMAIN Scripts /\ PlayerTyped(s) /\ pc = "show" /\ s' = s
    BY ShowTyping DEF Typing, ShowStep
  <1>2. /\ runner' = DeserializeRunner(framed, step.state) /\ pc' = "command"
        /\ sequence' = sequence /\ currentStep' = currentStep
    BY DEF ShowStep, playerVars
  <1> HIDE DEF s
  <1>3. currentStep + 1 \in DOMAIN sequence /\ step \in Recorded(s)
    <2>1. sequence \in Seq(Recorded(s)) /\ currentStep \in 0 .. Length /\ Len(sequence) = Length + 1
      BY <1>1 DEF PlayerTyped
    <2>2. Length \in Nat
      BY <1>1, LenProperties DEF PlayerTyped, Length
    <2>3. currentStep + 1 \in 1 .. Len(sequence)
      BY <2>1, <2>2
    <2> QED
      BY <2>1, <2>3, ElementOfSeq, LenProperties
  <1>4. /\ runner.game.emulator.enabled /\ StoresAll(step.state)
        /\ Settled(s, step.state.game.status, step.state.game.emulator.written)
    BY <1>1, <1>3 DEF Following, RunnerFollows, SequenceFollows, Showing, s
  <1> HIDE DEF step
  <1>5. framed \in RunnersOf(s) /\ framed.game.emulator.enabled
    <2>1. runner \in RunnersOf(s)
      BY <1>1 DEF PlayerTyped
    <2> DEFINE e == DeserializeRendererState(runner.game.emulator, step.picture)
    <2>2. runner.game.emulator \in Emulators /\ (Scripts[s].disabled \/ runner.game.emulator.enabled)
      BY <2>1 DEF RunnersOf, GamesOf, Games
    <2>3. step.picture \in Pictures
      BY <1>3 DEF Recorded
    <2>4. e \in Emulators /\ e.core = runner.game.emulator.core /\ e.enabled = runner.game.emulator.enabled
      BY <2>2, <2>3, ShownEmulators
    <2> HIDE DEF e
    <2>5. EmulatorReplaced(s, runner, e) \in RunnersOf(s)
      BY <1>1, <2>1, <2>2, <2>4, EmulatorReplacedTyped
    <2>6. EmulatorReplaced(s, runner, e).game.emulator = e
      BY <2>1 DEF EmulatorReplaced, RunnersOf, GamesOf, Games
    <2>7. framed \in {runner, EmulatorReplaced(s, runner, e)}
      BY DEF RenderFrame, EmulatorReplaced, e
    <2> QED
      BY <1>4, <2>1, <2>4, <2>5, <2>6, <2>7
  <1> HIDE DEF framed
  <1>6. /\ SerializeRunner(runner') = step.state
        /\ \A m \in DOMAIN runner'.game.magnets : Matched(runner'.game.magnets[m], LastMagnet(runner'.game, m))
    <2>1. step.state \in StoredOf(s)
      BY <1>3 DEF Recorded
    <2> QED
      BY <1>1, <1>2, <1>4, <1>5, <2>1, ShownAsRecorded
  <1>7. \A i \in DOMAIN sequence : Settled(s, sequence[i].state.game.status, sequence[i].state.game.emulator.written)
    BY <1>1 DEF Showing, s
  <1> QED
    BY <1>1, <1>2, <1>6, <1>7 DEF Showing, s, step

LEMMA CommandShowing == Typing /\ Showing /\ Command => Showing'
  <1> SUFFICES ASSUME Typing, Showing, NEW key \in KeysRead, Finish(key) \/ Restart(key) \/ MoveTo(key)
               PROVE  Showing'
    BY DEF Command
  <1>1. Script' = Script /\ pc = "command" /\ pc' # "command"
    BY CommandTyping DEF Finish, Restart, MoveTo, Command
  <1>2. sequence' = sequence \/ DOMAIN sequence' = {}
    BY DEF Finish, Restart, MoveTo, playerVars
  <1> QED
    BY <1>1, <1>2 DEF Showing

LEMMA ShowingShows == Typing /\ Showing => ShowsStep
  <1> SUFFICES ASSUME Typing, Showing PROVE ShowsStep
    OBVIOUS
  <1>1. ASSUME pc \in {"show", "command"}
        PROVE  /\ currentStep < Len(sequence)
               /\ sequence[currentStep + 1].state.step = currentStep
    <2>1. /\ currentStep \in 0 .. Length /\ Len(sequence) = Length + 1 /\ solution \in Seq(Inputs)
          /\ sequence \in Seq(Recorded(Script)) /\ \A i \in DOMAIN sequence : sequence[i].state.step = i - 1
      BY <1>1 DEF Typing, PlayerTyped, Inputs
    <2>2. Length \in Nat /\ DOMAIN sequence = 1 .. Len(sequence)
      BY <2>1, LenProperties DEF Length
    <2>3. currentStep + 1 \in DOMAIN sequence /\ (currentStep + 1) - 1 = currentStep
      BY <2>1, <2>2
    <2> QED
      BY <2>1, <2>2, <2>3
  <1>2. SerializeRunner(runner).step = runner.step
    BY DEF SerializeRunner
  <1> QED
    BY <1>1, <1>2 DEF Showing, ShowsStep, Matched

\* The player shows the step that it says, as it was recorded, with the magnets that the
\* step's rules set last, whatever was shown before: recording stores all blocks, loading a
\* recorded state runs the actions of its rules anew, and these do not change what they
\* wrote when the state was judged.
THEOREM ShowsTheStep == Spec => []ShowsStep
  <1> DEFINE I == Typing /\ Following /\ Searching /\ Replaying /\ Showing
  <1>1. Init => I
    <2>1. Init => pc = "search"
      BY DEF Init
    <2> QED
      BY <2>1, InitTyping, InitSearching DEF Following, Replaying, Showing
  <1>2. I /\ [Next]_vars => I'
    <2> SUFFICES ASSUME I, [Next]_vars PROVE I'
      OBVIOUS
    <2>1. Typing' /\ Following' /\ Searching' /\ Replaying'
      BY NextTyping, NextFollowing, NextSearching, NextReplaying
    <2>2. CASE \E n \in Slots : RunInput(n)
      BY <2>1, <2>2 DEF RunInput, Showing
    <2>3. CASE StartPlayer
      <3>1. sequence' = <<>> /\ pc' = "record"
        BY <2>3 DEF StartPlayer
      <3> QED
        BY <2>1, <3>1 DEF Showing
    <2>4. CASE RecordStep
      BY <2>1, <2>4, RecordShowing
    <2>5. CASE ShowStep
      BY <2>1, <2>5, ShowShowing
    <2>6. CASE Command
      BY <2>1, <2>6, CommandShowing
    <2>7. CASE UNCHANGED vars
      BY <2>1, <2>7 DEF vars, playerVars, Showing, Script
    <2> QED
      BY <2>2, <2>3, <2>4, <2>5, <2>6, <2>7 DEF Next, Player
  <1>3. I => ShowsStep
    BY ShowingShows
  <1> QED
    BY <1>1, <1>2, <1>3, PTL DEF Spec
-----------------------------------------------------------------------------
(* The rules satisfied on a path, and the lap's progress.                  *)

LEMMA ByteSums ==
  ASSUME NEW m \in Nat, NEW n \in Nat
  PROVE  /\ ((m % Byte) + n) % Byte = (m + n) % Byte
         /\ m % Byte \in 0 .. Byte - 1
         /\ m < Byte => m % Byte = m
  BY DEF Byte

\* What the actions of a rule make of the lap's progress.
Progress(s, w, l) == IF Clears(s, l) THEN 0 ELSE (w + Cardinality(AdvancesAt(s, l))) % Byte

LEMMA AdvancesFinite ==
  ASSUME NEW s \in DOMAIN Scripts, NEW l \in Labels(s)
  PROVE  /\ IsFiniteSet(AdvancesAt(s, l)) /\ Cardinality(AdvancesAt(s, l)) \in Nat
         /\ ~Advances(s, l) => AdvancesAt(s, l) = {}
         /\ \A i : i \in AdvancesAt(s, l) <=> i \in DOMAIN Rules[s][l].actions /\ IsAdvance(Rules[s][l].actions[i])
  <1>1. \A i : i \in AdvancesAt(s, l) <=> i \in DOMAIN Rules[s][l].actions /\ IsAdvance(Rules[s][l].actions[i])
    BY Zenon DEF AdvancesAt, IsAdvance
  <1>2. IsFiniteSet(DOMAIN Rules[s][l].actions)
    BY ActionPositions
  <1>3. AdvancesAt(s, l) \subseteq DOMAIN Rules[s][l].actions
    BY <1>1
  <1>4. IsFiniteSet(AdvancesAt(s, l))
    BY <1>2, <1>3, FS_Subset
  <1>5. ~Advances(s, l) => AdvancesAt(s, l) = {}
    BY <1>1, WritersOf
  <1> QED
    BY <1>1, <1>4, <1>5, FS_CardinalityType

LEMMA ActionsProgress ==
  ASSUME NEW s \in DOMAIN Scripts, NEW g \in GamesOf(s), NEW l \in Labels(s)
  PROVE  RunActionsOf(l)[g].emulator.written = IF Ran(g, l) THEN Progress(s, g.emulator.written, l)
                                                            ELSE g.emulator.written
  <1> DEFINE actions == Rules[s][l].actions
             S == DOMAIN Rules[s][l].actions
             Adv(T) == {i \in T : IsAdvance(actions[i])}
             Cleared(T) == \E i \in T : IsClear(actions[i])
             w == g.emulator.written
  <1>1. PICK x : /\ RunsInOrder(x, s, l, g)
                 /\ \A T \in SUBSET S : x[T] \in Acted(g)
                 /\ RunActionsOf(l)[g] = IF Rules[s][l].index \in g.status THEN x[S] ELSE g
    BY OwnInOrder
  <1>2. g.script = s /\ w \in 0 .. Byte - 1 /\ (Ran(g, l) <=> Rules[s][l].index \in g.status)
    BY DEF GamesOf, Games, Emulators, Ran
  <1>3. IsFiniteSet(S) /\ S \subseteq Int
    BY ActionPositions
  <1>4. /\ Clears(s, l) => \A i \in S : ~IsAdvance(actions[i])
        /\ ~Clears(s, l) => \A i \in S : ~IsClear(actions[i])
    BY RulesAssumption, WritersOf
  <1> DEFINE Value(T) == IF Clears(s, l) THEN (IF Cleared(T) THEN 0 ELSE w)
                                         ELSE (w + Cardinality(Adv(T))) % Byte
             Good == {T \in SUBSET S : x[T].emulator.written = Value(T)}
  <1>5. {} \in Good
    <2>1. x[{}] = g
      BY <1>1 DEF RunsInOrder
    <2>2. Adv({}) = {} /\ ~Cleared({})
      OBVIOUS
    <2>3. Cardinality(Adv({})) = 0
      BY <2>2, FS_EmptySet
    <2>4. (w + 0) % Byte = w
      BY <1>2, ByteSums DEF Byte
    <2> QED
      BY <2>1, <2>2, <2>3, <2>4
  <1>6. ASSUME NEW T \in SUBSET S, T # {}, Max(T) \in T, T \ {Max(T)} \in Good
        PROVE  T \in Good
    <2> DEFINE n == Max(T)
               a == actions[n]
               R == T \ {n}
    <2>1. a \in RuleActions /\ a \in OwnActions(s) /\ n \in S
      BY <1>6, ActionPositions
    <2>2. x[T] = RunAction(a)[x[R]]
      BY <1>1, <1>6 DEF RunsInOrder
    <2>3. x[R] \in GamesOf(s)
      BY <1>1, <1>2, <1>6 DEF Acted
    <2>4. x[R].emulator.written = Value(R)
      BY <1>6
    <2>5. Cleared(T) <=> IsClear(a) \/ Cleared(R)
      BY <1>6
    <2>6. Adv(T) = IF IsAdvance(a) THEN Adv(R) \union {n} ELSE Adv(R)
      BY <1>6
    <2>7. n \notin Adv(R)
      OBVIOUS
    <2>8. IsFiniteSet(Adv(R))
      BY <1>3, <1>6, FS_Subset
    <2>9. /\ Clears(s, l) => ~IsAdvance(a)
          /\ ~Clears(s, l) => ~IsClear(a)
      BY <1>4, <2>1
    <2> HIDE DEF a, R, Cleared, Adv, n, w
    <2>10. x[T].emulator.written = Written(Value(R), a)
      <3>1. x[T].emulator.written = Written(x[R].emulator.written, a)
        BY <2>1, <2>2, <2>3, ActionFacts
      <3> HIDE DEF Value
      <3> QED
        BY <2>4, <3>1
    <2>11. Cardinality(Adv(R)) \in Nat /\ Cardinality(Adv(T)) = Cardinality(Adv(R)) + (IF IsAdvance(a) THEN 1 ELSE 0)
      <3>1. Cardinality(Adv(R)) \in Nat
        BY <2>8, FS_CardinalityType
      <3>2. Cardinality(Adv(R) \union {n}) = Cardinality(Adv(R)) + 1
        BY <2>7, <2>8, FS_AddElement
      <3> QED
        BY <2>6, <3>1, <3>2
    <2>12. CASE Clears(s, l)
      <3>1. Written(Value(R), a) = IF IsClear(a) THEN 0 ELSE Value(R)
        BY <2>9, <2>12, WrittenFacts
      <3> QED
        BY <1>6, <2>5, <2>10, <2>12, <3>1
    <2>13. CASE ~Clears(s, l)
      <3> DEFINE c == Cardinality(Adv(R))
      <3>1. Value(R) = (w + c) % Byte
        BY <2>13
      <3>2. CASE IsAdvance(a)
        <4>1. Written(Value(R), a) = (Value(R) + 1) % Byte
          BY <3>2, Zenon DEF Written, IsAdvance
        <4>2. (((w + c) % Byte) + 1) % Byte = (w + c + 1) % Byte
          BY <1>2, <2>11, ByteSums DEF Byte, w
        <4>3. (w + c + 1) % Byte = Value(T)
          <5>1. Cardinality(Adv(T)) = c + 1 /\ c \in Nat /\ w \in Int
            BY <1>2, <2>11, <3>2 DEF Byte
          <5> HIDE DEF c
          <5> QED
            BY <2>13, <5>1
        <4> HIDE DEF c, Value
        <4> QED
          BY <1>6, <2>10, <3>1, <4>1, <4>2, <4>3
      <3>3. CASE ~IsAdvance(a)
        <4>1. Written(Value(R), a) = Value(R)
          BY <2>9, <2>13, <3>3, WrittenFacts
        <4>2. Value(R) = Value(T)
          BY <2>6, <2>13, <3>3
        <4> HIDE DEF Value
        <4> QED
          BY <1>6, <2>10, <4>1, <4>2
      <3> QED
        BY <3>2, <3>3
    <2> QED
      BY <2>12, <2>13
  <1>7. x[S].emulator.written = Value(S)
    <2> HIDE DEF Good
    <2>1. SUBSET S \subseteq Good
      BY <1>3, <1>5, <1>6, LatestInduction
    <2>2. S \in Good
      BY <2>1
    <2> QED
      BY <2>2 DEF Good
  <1>8. Value(S) = Progress(s, w, l)
    <2>1. Adv(S) = AdvancesAt(s, l)
      BY AdvancesFinite
    <2>2. Clears(s, l) => Cleared(S)
      BY WritersOf
    <2> HIDE DEF Adv, Cleared
    <2> QED
      BY <2>1, <2>2 DEF Progress
  <1> HIDE DEF Value, S, actions
  <1> QED
    BY <1>1, <1>2, <1>7, <1>8

\* The actions that the lap's progress counts, and how one more rule changes it: as its
\* actions do.
Counted(s, labels) ==
    UNION {{l} \X AdvancesAt(s, l) : l \in {l \in labels : \A k \in labels : Clears(s, k) => k < l}}

LEMMA CountedFacts ==
  ASSUME NEW s \in DOMAIN Scripts, NEW labels \in SUBSET Labels(s)
  PROVE  /\ Lap(s, labels) = Cardinality(Counted(s, labels)) % Byte
         /\ \A p : p \in Counted(s, labels) <=>
               \E l \in labels : /\ \A k \in labels : Clears(s, k) => k < l
                                 /\ p \in {l} \X AdvancesAt(s, l)
  BY Zenon DEF Lap, Counted

LEMMA LapFacts ==
  ASSUME NEW s \in DOMAIN Scripts
  PROVE  /\ Lap(s, {}) = 0
         /\ \A labels \in SUBSET Labels(s) :
               /\ Lap(s, labels) \in 0 .. Byte - 1
               /\ (\A l \in labels : ~Advances(s, l)) => Lap(s, labels) = 0
         /\ \A labels \in SUBSET Labels(s), l \in Labels(s) :
               (\A k \in labels : k < l) => Lap(s, labels \union {l}) = Progress(s, Lap(s, labels), l)
  <1> DEFINE C(labels) == Counted(s, labels)
  <1>1. Labels(s) \subseteq Nat /\ IsFiniteSet(Labels(s))
    BY LabelFacts
  <1>2. ASSUME NEW labels \in SUBSET Labels(s), \A l \in labels : ~Advances(s, l) PROVE C(labels) = {}
    <2>1. \A l \in labels : AdvancesAt(s, l) = {}
      BY <1>2, AdvancesFinite
    <2>2. \A l \in labels : {l} \X AdvancesAt(s, l) = {}
      BY <2>1
    <2> QED
      BY <2>2, CountedFacts
  <1>3. ASSUME NEW labels \in SUBSET Labels(s), NEW l \in Labels(s), \A k \in labels : k < l, Clears(s, l)
        PROVE  C(labels \union {l}) = {}
    <2>1. \A k \in labels \union {l} : ~(l < k)
      BY <1>1, <1>3
    <2> QED
      BY <1>3, <2>1, CountedFacts
  <1>4. ASSUME NEW labels \in SUBSET Labels(s), NEW l \in Labels(s), \A k \in labels : k < l, ~Clears(s, l)
        PROVE  C(labels \union {l}) = C(labels) \union ({l} \X AdvancesAt(s, l))
    <2> DEFINE more == labels \union {l}
    <2>1. more \in SUBSET Labels(s)
      OBVIOUS
    <2>2. \A m \in labels : (\A k \in more : Clears(s, k) => k < m) <=> (\A k \in labels : Clears(s, k) => k < m)
      BY <1>4
    <2>3. \A k \in more : Clears(s, k) => k < l
      BY <1>4
    <2>4. \A p : p \in C(more) <=> p \in C(labels) \/ p \in {l} \X AdvancesAt(s, l)
      <3> HIDE DEF more
      <3>1. \A p : p \in C(more) <=> \E m \in more : /\ \A k \in more : Clears(s, k) => k < m
                                                     /\ p \in {m} \X AdvancesAt(s, m)
        BY <2>1, CountedFacts
      <3>2. \A p : p \in C(labels) <=> \E m \in labels : /\ \A k \in labels : Clears(s, k) => k < m
                                                         /\ p \in {m} \X AdvancesAt(s, m)
        BY CountedFacts
      <3>3. \A m : m \in more <=> m \in labels \/ m = l
        BY DEF more
      <3> QED
        BY <2>2, <2>3, <3>1, <3>2, <3>3, Zenon
    <2> HIDE DEF C
    <2> QED
      BY <2>4 DEF more
  <1>5. ASSUME NEW l \in Labels(s)
        PROVE  /\ IsFiniteSet({l} \X AdvancesAt(s, l))
               /\ Cardinality({l} \X AdvancesAt(s, l)) = Cardinality(AdvancesAt(s, l))
    <2>1. IsFiniteSet(AdvancesAt(s, l)) /\ Cardinality(AdvancesAt(s, l)) \in Nat
      BY AdvancesFinite
    <2>2. IsFiniteSet({l}) /\ Cardinality({l}) = 1
      BY FS_Singleton
    <2>3. /\ IsFiniteSet({l} \X AdvancesAt(s, l))
          /\ Cardinality({l} \X AdvancesAt(s, l)) = Cardinality({l}) * Cardinality(AdvancesAt(s, l))
      BY <2>1, <2>2, FS_Product
    <2> QED
      BY <2>1, <2>2, <2>3
  <1>6. ASSUME NEW labels \in SUBSET Labels(s) PROVE IsFiniteSet(C(labels))
    <2> DEFINE parts == {{l} \X AdvancesAt(s, l) : l \in labels}
               f == [l \in labels |-> {l} \X AdvancesAt(s, l)]
    <2>1. IsFiniteSet(labels)
      BY <1>1, FS_Subset
    <2>2. f \in Surjection(labels, parts)
      BY DEF Surjection
    <2>3. IsFiniteSet(parts)
      BY <2>1, <2>2, FS_Surjection
    <2>4. \A part \in parts : IsFiniteSet(part)
      BY <1>5
    <2>5. IsFiniteSet(UNION parts)
      <3> HIDE DEF parts
      <3> QED
        BY <2>3, <2>4, FS_UNION
    <2>6. C(labels) \subseteq UNION parts
      BY CountedFacts
    <2> HIDE DEF C
    <2> QED
      BY <2>5, <2>6, FS_Subset
  <1>7. ASSUME NEW labels \in SUBSET Labels(s) PROVE Cardinality(C(labels)) \in Nat
    BY <1>6, FS_CardinalityType
  <1>8. Cardinality({}) = 0 /\ 0 % Byte = 0
    BY FS_EmptySet, ByteSums DEF Byte
  <1>9. ASSUME NEW labels \in SUBSET Labels(s), NEW l \in Labels(s), \A k \in labels : k < l
        PROVE  Lap(s, labels \union {l}) = Progress(s, Lap(s, labels), l)
    <2> DEFINE more == labels \union {l}
               a == {l} \X AdvancesAt(s, l)
    <2>1. more \in SUBSET Labels(s)
      OBVIOUS
    <2>2. Lap(s, more) = Cardinality(C(more)) % Byte /\ Lap(s, labels) = Cardinality(C(labels)) % Byte
      BY <2>1, CountedFacts
    <2>3. CASE Clears(s, l)
      <3>1. C(more) = {}
        BY <1>3, <1>9, <2>3
      <3> HIDE DEF C, more
      <3>2. Lap(s, more) = 0
        BY <1>8, <2>2, <3>1
      <3> QED
        BY <2>3, <3>2 DEF Progress, more
    <2>4. CASE ~Clears(s, l)
      <3>1. C(more) = C(labels) \union a
        BY <1>4, <1>9, <2>4
      <3>2. C(labels) \intersect a = {}
        <4>1. ASSUME NEW p \in a, p \in C(labels) PROVE FALSE
          <5>1. PICK k \in labels : p \in {k} \X AdvancesAt(s, k)
            BY <4>1, CountedFacts
          <5>2. k = l
            BY <4>1, <5>1
          <5>3. k < l /\ k \in Nat
            BY <1>1, <1>9
          <5> QED
            BY <5>2, <5>3
        <4> HIDE DEF C, a
        <4> QED
          BY <4>1
      <3>3. /\ IsFiniteSet(a) /\ Cardinality(a) = Cardinality(AdvancesAt(s, l))
            /\ IsFiniteSet(C(labels)) /\ Cardinality(AdvancesAt(s, l)) \in Nat
            /\ Cardinality(C(labels)) \in Nat
        BY <1>5, <1>6, <1>7, AdvancesFinite
      <3> HIDE DEF C, a, more
      <3>4. Cardinality(C(more)) = Cardinality(C(labels)) + Cardinality(a) - Cardinality(C(labels) \intersect a)
        BY <3>1, <3>3, FS_Union
      <3>5. Cardinality(C(more)) = Cardinality(C(labels)) + Cardinality(AdvancesAt(s, l))
        <4>1. Cardinality(C(labels) \intersect a) = 0
          BY <1>8, <3>2, Zenon
        <4> QED
          BY <3>3, <3>4, <4>1
      <3>6. ((Cardinality(C(labels)) % Byte) + Cardinality(AdvancesAt(s, l))) % Byte
              = (Cardinality(C(labels)) + Cardinality(AdvancesAt(s, l))) % Byte
        BY <3>3, ByteSums
      <3>7. Progress(s, Lap(s, labels), l) = (Lap(s, labels) + Cardinality(AdvancesAt(s, l))) % Byte
        BY <2>4 DEF Progress
      <3> QED
        BY <2>2, <3>5, <3>6, <3>7 DEF more
    <2> QED
      BY <2>3, <2>4
  <1>10. ASSUME NEW labels \in SUBSET Labels(s)
         PROVE  /\ Lap(s, labels) \in 0 .. Byte - 1
                /\ (\A l \in labels : ~Advances(s, l)) => Lap(s, labels) = 0
    <2>1. Lap(s, labels) = Cardinality(C(labels)) % Byte
      BY CountedFacts
    <2>2. Lap(s, labels) \in 0 .. Byte - 1
      BY <1>7, <2>1, ByteSums
    <2>3. (\A l \in labels : ~Advances(s, l)) => C(labels) = {}
      BY <1>2
    <2> HIDE DEF C
    <2> QED
      BY <1>8, <2>1, <2>2, <2>3
  <1>11. Lap(s, {}) = 0
    BY <1>10
  <1> QED
    BY <1>9, <1>10, <1>11

\* What running the actions of all rules makes of the lap's progress.
LEMMA RulesProgress ==
  ASSUME NEW s \in DOMAIN Scripts, NEW g \in GamesOf(s)
  PROVE  (\E l \in Satisfied(g) : Clears(s, l)) \/ g.emulator.written = 0
            => RunRuleActions(g).emulator.written = Lap(s, Satisfied(g))
  <1>1. PICK x : RunsRulesInOrder(x, s, g) /\ \A T \in SUBSET Labels(s) : x[T] \in Acted(g)
    BY RulesInOrder
  <1> DEFINE S == Labels(s)
             Of(T) == T \intersect Satisfied(g)
             w == g.emulator.written
             Good == {T \in SUBSET S : (\E l \in Of(T) : Clears(s, l)) \/ w = 0
                                          => x[T].emulator.written = Lap(s, Of(T))}
  <1>2. IsFiniteSet(S) /\ S \subseteq Int
    BY LabelFacts
  <1>3. Satisfied(g) = {l \in S : Ran(g, l)}
    BY DEF Satisfied, Ran, GamesOf
  <1>4. {} \in Good
    <2>1. x[{}] = g /\ Of({}) = {}
      BY <1>1 DEF RunsRulesInOrder
    <2> QED
      BY <2>1, LapFacts
  <1>5. ASSUME NEW T \in SUBSET S, T # {}, Max(T) \in T, T \ {Max(T)} \in Good
        PROVE  T \in Good
    <2> DEFINE l == Max(T)
               R == T \ {l}
    <2>1. x[T] = RunActionsOf(l)[x[R]]
      BY <1>1, <1>5 DEF RunsRulesInOrder
    <2>2. x[R] \in Acted(g) /\ l \in S /\ l \in T
      BY <1>1, <1>5
    <2>3. /\ x[R] \in GamesOf(s) /\ x[R].status = g.status /\ x[R].script = g.script
      BY <2>2 DEF Acted, GamesOf, Games
    <2>4. (\E k \in Of(R) : Clears(s, k)) \/ w = 0 => x[R].emulator.written = Lap(s, Of(R))
      BY <1>5
    <2>5. Ran(x[R], l) <=> l \in Satisfied(g)
      BY <1>3, <2>2, <2>3 DEF Ran
    <2>6. \A k \in Of(R) : k < l
      <3>1. \A k \in T : k <= l
        BY <1>2, <1>5, FS_Subset, Extremes
      <3> QED
        BY <1>2, <2>2, <3>1
    <2>7. Of(T) = IF l \in Satisfied(g) THEN Of(R) \union {l} ELSE Of(R)
      BY <2>2
    <2>8. Of(R) \in SUBSET Labels(s) /\ T \in SUBSET S
      BY <1>5
    <2> HIDE DEF l, R, Of
    <2>9. x[T].emulator.written = IF l \in Satisfied(g) THEN Progress(s, x[R].emulator.written, l)
                                                        ELSE x[R].emulator.written
      BY <2>1, <2>2, <2>3, <2>5, ActionsProgress
    <2>10. l \in Satisfied(g) => Lap(s, Of(T)) = Progress(s, Lap(s, Of(R)), l)
      BY <2>2, <2>6, <2>7, <2>8, LapFacts
    <2>11. ASSUME (\E k \in Of(T) : Clears(s, k)) \/ w = 0 PROVE x[T].emulator.written = Lap(s, Of(T))
      <3>1. CASE l \in Satisfied(g) /\ Clears(s, l)
        <4>1. \A v : Progress(s, v, l) = 0
          BY <3>1 DEF Progress
        <4> QED
          BY <2>9, <2>10, <3>1, <4>1
      <3>2. CASE l \in Satisfied(g) /\ ~Clears(s, l)
        <4>1. (\E k \in Of(R) : Clears(s, k)) \/ w = 0
          BY <2>7, <2>11, <3>2
        <4> QED
          BY <2>4, <2>9, <2>10, <3>2, <4>1
      <3>3. CASE l \notin Satisfied(g)
        BY <2>4, <2>7, <2>9, <2>11, <3>3
      <3> QED
        BY <3>1, <3>2, <3>3
    <2> QED
      BY <2>8, <2>11
  <1>6. S \in Good
    <2> HIDE DEF Good
    <2>1. SUBSET S \subseteq Good
      BY <1>2, <1>4, <1>5, LatestInduction
    <2> QED
      BY <2>1
  <1>7. Of(S) = Satisfied(g) /\ x[S] = RunRuleActions(g)
    BY <1>1, <1>3 DEF RunsRulesInOrder
  <1> HIDE DEF Of
  <1> QED
    BY <1>6, <1>7

SatisfiedBy(s, status) == {l \in Labels(s) : Rules[s][l].index \in status}

\* A status is that of its rules, and what evaluating adds to them.
LEMMA StatusOfRules ==
  ASSUME NEW s \in DOMAIN Scripts, NEW g \in GamesOf(s), NEW labels \in SUBSET Labels(s),
         g.status = IndexOf(s, labels)
  PROVE  /\ NewStatus(g) = IndexOf(s, labels \union Closure(s, Held(g)))
         /\ SatisfiedBy(s, NewStatus(g)) = labels \union Closure(s, Held(g))
         /\ labels \union Closure(s, Held(g)) \in SUBSET Labels(s)
  <1> DEFINE held == Held(g)
             c == Closure(s, held)
             new == NewStatus(g)
  <1>1. held \in SUBSET Labels(s)
    BY DEF Held, GamesOf
  <1>2. /\ c \in SUBSET Labels(s) /\ held \subseteq c /\ Closed(s, c)
        /\ \A d \in SUBSET Labels(s) : held \subseteq d /\ Closed(s, d) => c \subseteq d
    BY <1>1, ClosureFacts
  <1>3. /\ new \in Statuses(s) /\ g.status \subseteq new /\ IndexOf(s, held) \subseteq new
        /\ \A d \in SUBSET Labels(s) : held \subseteq d /\ Closed(s, d) => new \subseteq g.status \union IndexOf(s, d)
    BY NewStatusFacts
  <1> HIDE DEF held, c, new
  <1>4. new \subseteq g.status \union IndexOf(s, c)
    BY <1>2, <1>3
  <1>5. c \subseteq SatisfiedBy(s, new)
    <2>1. SatisfiedBy(s, new) \in SUBSET Labels(s)
      BY DEF SatisfiedBy
    <2>2. held \subseteq SatisfiedBy(s, new)
      BY <1>1, <1>3 DEF SatisfiedBy, IndexOf
    <2>3. Closed(s, SatisfiedBy(s, new))
      <3> SUFFICES ASSUME NEW l \in SatisfiedBy(s, new), NEW k \in Rules[s][l].satisfies
                   PROVE  k \in SatisfiedBy(s, new)
        BY DEF Closed
      <3>1. k \in Labels(s) /\ l \in Labels(s) /\ Rules[s][l].index \in new
        BY IndexFacts DEF SatisfiedBy
      <3>2. Rules[s][k].index \in new
        BY <1>3, <3>1 DEF Statuses
      <3> QED
        BY <3>1, <3>2 DEF SatisfiedBy
    <2> QED
      BY <1>2, <2>1, <2>2, <2>3
  <1>6. new = IndexOf(s, labels \union c)
    <2>1. IndexOf(s, labels \union c) = IndexOf(s, labels) \union IndexOf(s, c)
      BY DEF IndexOf
    <2>2. IndexOf(s, c) \subseteq new
      BY <1>5 DEF IndexOf, SatisfiedBy
    <2> QED
      BY <1>3, <1>4, <2>1, <2>2
  <1>7. SatisfiedBy(s, new) = labels \union c
    <2>1. \A l \in Labels(s), d \in SUBSET Labels(s) : Rules[s][l].index \in IndexOf(s, d) <=> l \in d
      BY IndexFacts DEF IndexOf
    <2> QED
      BY <1>2, <1>6, <2>1 DEF SatisfiedBy
  <1> QED
    BY <1>2, <1>6, <1>7 DEF new, c, held

\* So the lap's progress is that of the rules satisfied, if it was that of some of them.
LEMMA RerunProgress ==
  ASSUME NEW s \in DOMAIN Scripts, NEW g \in GamesOf(s), NEW status \in Statuses(s),
         NEW labels \in SUBSET SatisfiedBy(s, status), g.emulator.written = Lap(s, labels)
  PROVE  Rerun(g, status).emulator.written = Lap(s, SatisfiedBy(s, status))
  <1> DEFINE r == Ready(g, status)
             q == RunRuleActions(r)
             d == MeasureDistance[q]
             all == SatisfiedBy(s, status)
  <1>1. r \in GamesOf(s) /\ r.status = status /\ r.emulator = g.emulator
    BY ReadyFacts
  <1>2. q \in GamesOf(s)
    BY <1>1, RulesActed DEF Acted, GamesOf
  <1>3. d.emulator = q.emulator
    <2>1. "emulator" \in DOMAIN q \ {"distance"}
      BY <1>2 DEF GamesOf, Games
    <2> HIDE DEF q
    <2> QED
      BY <1>2, <2>1, DistanceTyped
  <1>4. Satisfied(r) = all
    BY <1>1 DEF Satisfied, SatisfiedBy, GamesOf
  <1>5. all \in SUBSET Labels(s)
    BY DEF SatisfiedBy
  <1> HIDE DEF r, all
  <1>6. (\E l \in all : Clears(s, l)) \/ g.emulator.written = 0
    <2> SUFFICES ASSUME ~\E l \in all : Clears(s, l) PROVE g.emulator.written = 0
      OBVIOUS
    <2>1. \A l \in all : ~Advances(s, l)
      BY <1>1, <1>4, AdvancesClear
    <2>2. labels \subseteq all /\ labels \in SUBSET Labels(s)
      BY <1>5 DEF all
    <2> QED
      BY <2>1, <2>2, LapFacts
  <1>7. q.emulator.written = Lap(s, all)
    BY <1>1, <1>4, <1>6, RulesProgress
  <1>8. Rerun(g, status) = d
    BY DEF Rerun, r
  <1> HIDE DEF d, q
  <1> QED
    BY <1>3, <1>7, <1>8 DEF all

LEMMA JudgeProgress ==
  ASSUME NEW s \in DOMAIN Scripts, NEW g \in GamesOf(s),
         NEW labels \in SUBSET Labels(s), g.status = IndexOf(s, labels), g.emulator.written = Lap(s, labels)
  PROVE  LET more == labels \union Closure(s, Held(g))
         IN /\ Judge(g).status = IndexOf(s, more)
            /\ EvaluateRules[g].emulator.written = Lap(s, more)
            /\ Judge(g).emulator.written = Lap(s, more)
  <1> DEFINE a == EvaluateRules[g]
             b == UpdateGameStateType[a]
             c == UpdateReward[b]
             st == NewStatus(g)
             more == labels \union Closure(s, Held(g))
  <1>1. Judge(g) = c /\ Judge(g).status = st
    BY JudgeKeeps DEF Judge
  <1>2. st = IndexOf(s, more) /\ SatisfiedBy(s, st) = more
    BY StatusOfRules
  <1>3. a = Rerun(g, st) /\ st \in Statuses(s)
    BY EvaluatedReruns
  <1> HIDE DEF a, st, more
  <1>4. labels \in SUBSET SatisfiedBy(s, st)
    BY <1>2 DEF more
  <1>5. a \in GamesOf(s) /\ a.emulator.written = Lap(s, more)
    BY <1>2, <1>3, <1>4, RerunFacts, RerunProgress
  <1>6. b \in GamesOf(s) /\ b.emulator = a.emulator
    <2>1. b \in GamesOf(s)
      BY <1>5, TypeTyped, JudgedFurther
    <2>2. "emulator" \in DOMAIN a \ {"level", "tolerance", "type"}
      BY <1>5 DEF GamesOf, Games
    <2> QED
      BY <1>5, <2>1, <2>2, TypeTyped
  <1> HIDE DEF b
  <1>7. c.emulator = b.emulator
    <2>1. "emulator" \in DOMAIN b \ {"reward"}
      BY <1>6 DEF GamesOf, Games
    <2> QED
      BY <1>6, <2>1, RewardTyped
  <1> HIDE DEF c
  <1> QED
    BY <1>1, <1>2, <1>5, <1>6, <1>7 DEF a, more

\* The rules after a path: what held in the state as it was created, then what each input
\* adds.
HeldIn(s, g) == {l \in Labels(s) : AllHold(Rules[s][l].conditions, g)}
Created(s) == NewRunner(s, Unused).game
More(s, path, before) == before \union Closure(s, HeldIn(s,
    IF path = <<>> THEN Created(s) ELSE Seen(s, CoreAfter(s, path), Lap(s, before))))

LEMMA RulesAfterFacts ==
  ASSUME NEW s \in DOMAIN Scripts
  PROVE  /\ RulesAfter(s, <<>>) = Closure(s, HeldIn(s, Created(s)))
         /\ \A p \in Paths(s) : RulesAfter(s, p) \in SUBSET Labels(s)
         /\ \A p \in Paths(s), i \in ToSet(InputStrings[s]) :
               RulesAfter(s, Append(p, i)) = More(s, Append(p, i), RulesAfter(s, p))
  <1> DEFINE I == ToSet(InputStrings[s])
             A == SUBSET Labels(s)
             b == More(s, <<>>, {})
             Step(p, old) == More(s, p, IF p = <<>> THEN {} ELSE old)
             IsAfter(f) == f = [p \in Seq(I) |-> Step(p, f[Front(p)])]
             after == CHOOSE f : IsAfter(f)
             H == [p \in Seq(I) |-> [old \in A |-> Step(p, old)]]
  <1>1. \A p : RulesAfter(s, p) = after[p]
    BY Zenon DEF RulesAfter, Paths, More, HeldIn, Created
  <1>2. ASSUME NEW p, NEW old \in A PROVE More(s, p, old) \in A
    <2> DEFINE seen == IF p = <<>> THEN Created(s) ELSE Seen(s, CoreAfter(s, p), Lap(s, old))
    <2>1. HeldIn(s, seen) \in SUBSET Labels(s)
      BY DEF HeldIn
    <2>2. More(s, p, old) = old \union Closure(s, HeldIn(s, seen))
      BY DEF More
    <2> HIDE DEF seen
    <2>3. Closure(s, HeldIn(s, seen)) \in SUBSET Labels(s)
      BY <2>1, ClosureFacts
    <2> QED
      BY <2>2, <2>3
  <1>3. \A p, old : old \in A => Step(p, old) \in A
    <2>1. {} \in A
      OBVIOUS
    <2> HIDE DEF A
    <2> QED
      BY <1>2, <2>1
  <1>4. b \in A /\ b = Closure(s, HeldIn(s, Created(s)))
    BY <1>2 DEF More
  <1> HIDE DEF Step, A, b, I
  <1>5. PICK f \in [Seq(I) -> A] : IsSeqRecursion(f, I, b, H)
    <2>1. StepsWithin(H, Seq(I), A)
      BY <1>3 DEF StepsWithin
    <2> HIDE DEF H
    <2> QED
      BY <1>4, <2>1, SeqRecursion
  <1>6. \A p \in Seq(I) : p # <<>> => Front(p) \in Seq(I) /\ Last(p) \in I
    BY FrontLast
  <1>7. \A old : Step(<<>>, old) = b
    BY DEF Step, b
  <1>8. IsAfter(f)
    <2>1. \A p \in Seq(I) : p # <<>> => f[p] = Step(p, f[Front(p)])
      BY <1>5, <1>6 DEF IsSeqRecursion
    <2>2. \A p \in Seq(I) : p = <<>> => f[p] = Step(p, f[Front(p)])
      BY <1>5, <1>7 DEF IsSeqRecursion
    <2> QED
      BY <1>5, <2>1, <2>2
  <1>9. \A p \in Seq(I) : after[p] = Step(p, after[Front(p)])
    <2>1. IsAfter(after)
      BY <1>8
    <2> HIDE DEF after
    <2> QED
      BY <2>1
  <1> HIDE DEF after
  <1>10. after[<<>>] = b
    BY <1>7, <1>9, EmptySeq
  <1>11. \A p \in Seq(I), i \in I : after[Append(p, i)] = More(s, Append(p, i), after[p])
    <2> TAKE p \in Seq(I), i \in I
    <2>1. /\ Append(p, i) \in Seq(I) /\ Append(p, i) # <<>>
          /\ Front(Append(p, i)) = p
      BY FrontOfAppend
    <2> QED
      BY <1>9, <2>1 DEF Step
  <1>12. \A p \in Seq(I) : after[p] \in A
    <2> DEFINE Good == {n \in Nat : \A p \in Seq(I) : Len(p) = n => after[p] \in A}
    <2>1. 0 \in Good
      BY <1>4, <1>10, EmptySeq
    <2>2. ASSUME NEW n \in Nat, n \in Good PROVE n + 1 \in Good
      <3> SUFFICES ASSUME NEW p \in Seq(I), Len(p) = n + 1 PROVE after[p] \in A
        OBVIOUS
      <3>1. p # <<>>
        BY EmptySeq
      <3>2. Front(p) \in Seq(I) /\ Len(Front(p)) = Len(p) - 1
        BY <3>1, FrontLast
      <3>3. after[Front(p)] \in A
        BY <2>2, <3>2
      <3> QED
        BY <1>3, <1>9, <3>3
    <2>3. Nat \subseteq Good
      <3> HIDE DEF Good
      <3> QED
        BY <2>1, <2>2, NatSetInduction
    <2> QED
      BY <2>3, LenProperties
  <1> QED
    BY <1>1, <1>4, <1>10, <1>11, <1>12 DEF A, I, Paths

\* A game of the path whose rules are those after it.
OfRules(s, g, path) ==
    LET labels == RulesAfter(s, path)
    IN /\ g.status = IndexOf(s, labels)
       /\ g.emulator.core = CoreAfter(s, path) /\ g.emulator.written = Lap(s, labels)

LEMMA FirstOfRules ==
  ASSUME NEW s \in DOMAIN Scripts
  PROVE  OfRules(s, FirstState(s, Unused).game, <<>>)
  <1> DEFINE new == Created(s)
             first == FirstState(s, Unused).game
             c == Closure(s, HeldIn(s, new))
  <1>1. Unused \in Uninitialized
    BY GarbageAssumption DEF Unused
  <1>2. /\ new \in GamesOf(s) /\ new.script = s
        /\ new.status = {} /\ new.emulator.written = 0
    BY <1>1, NewAtStart, PlayableFacts DEF AtStart, Created
  <1>3. /\ first.status = NewStatus(new) /\ Lasting(first, EvaluateRules[new])
        /\ first.emulator.core = new.emulator.core
    BY <1>1, FirstSame DEF SameInputs, Created
  <1> HIDE DEF new, first
  <1>4. Held(new) = HeldIn(s, new)
    BY <1>2 DEF Held, HeldIn
  <1>5. /\ {} \in SUBSET Labels(s) /\ new.status = IndexOf(s, {}) /\ new.emulator.written = Lap(s, {})
    BY <1>2, LapFacts DEF IndexOf
  <1>6. /\ NewStatus(new) = IndexOf(s, {} \union Closure(s, Held(new)))
        /\ EvaluateRules[new].emulator.written = Lap(s, {} \union Closure(s, Held(new)))
    BY <1>2, <1>5, StatusOfRules, JudgeProgress
  <1>7. {} \union Closure(s, Held(new)) = c
    BY <1>4
  <1>8. RulesAfter(s, <<>>) = c /\ CoreAfter(s, <<>>) = new.emulator.core
    BY RulesAfterFacts, CoreAfterFacts DEF new, Created
  <1> HIDE DEF c
  <1> QED
    BY <1>3, <1>6, <1>7, <1>8 DEF OfRules, Lasting, first

LEMMA NextOfRules ==
  ASSUME NEW s \in DOMAIN Scripts, NEW g \in Playable(s), NEW path \in Paths(s), OfRules(s, g, path),
         NEW input \in ToSet(InputStrings[s])
  PROVE  OfRules(s, Judge(AdvanceGame(g, input)), Append(path, input))
  <1> DEFINE x == AdvanceGame(g, input)
             longer == Append(path, input)
             core == CoreAfter(s, longer)
             before == RulesAfter(s, path)
             seen == Seen(s, core, Lap(s, before))
  <1>1. longer \in Paths(s) /\ longer # <<>>
    BY FrontOfAppend DEF Paths
  <1>2. /\ x \in Playable(s) /\ x \in GamesOf(s) /\ x.script = s
        /\ x.status = g.status /\ x.emulator.written = g.emulator.written
    BY AdvanceAlike, PlayableFacts DEF Lasting
  <1>3. /\ input \in InputsGiven(s) /\ g \in GamesOf(s) /\ g.emulator \in Emulators
        /\ g.emulator.core \in CoresOf(s)
    BY PlayableFacts DEF InputsGiven
  <1>4. x.emulator.core = core /\ x.kidPosY = Height(s, core, g.kidPosY)
    <2>1. AdvanceCore[g.emulator.core][input] \in Cores
      BY <1>3, CoresAssumption DEF CoresOf
    <2>2. x.emulator = AdvanceEmulator(g.emulator, input) /\ x.kidPosY = Height(s, x.emulator.core, g.kidPosY)
      BY <1>3, AdvanceTyped
    <2>3. AdvanceEmulator(g.emulator, input).core = AdvanceCore[g.emulator.core][input]
      BY <1>3, <2>1, EmulatorAdvanced
    <2>4. core = AdvanceCore[g.emulator.core][input]
      BY CoreAfterFacts DEF OfRules
    <2> HIDE DEF x, core
    <2> QED
      BY <2>2, <2>3, <2>4
  <1>5. before \in SUBSET Labels(s) /\ Lap(s, before) \in 0 .. Byte - 1
    BY RulesAfterFacts, LapFacts
  <1>6. core \in CoresOf(s) /\ core \in Cores
    BY <1>1, CoreAfterFacts DEF CoresOf
  <1>7. x.status = IndexOf(s, before) /\ x.emulator.written = Lap(s, before)
    BY <1>2 DEF OfRules
  <1>8. RulesAfter(s, longer) = More(s, longer, before)
    BY RulesAfterFacts
  <1>9. Scripts[s].game # PrinceOfPersia => g.kidPosY = 0
    BY DEF Playable
  <1> HIDE DEF x, core, before, longer
  <1>10. /\ seen.script = s /\ seen.emulator.core = core /\ seen.emulator.written = Lap(s, before)
         /\ seen.kidPosY = Height(s, core, NewGame(s, Unused).kidPosY)
         /\ Scripts[s].game # PrinceOfPersia => NewGame(s, Unused).kidPosY = 0
    BY <1>5, <1>6, SeenFacts
  <1> HIDE DEF seen
  <1>11. ReadsAlike(x, seen)
    <2>1. x.kidPosY = seen.kidPosY
      BY <1>4, <1>9, <1>10 DEF Height
    <2> QED
      BY <1>2, <1>4, <1>7, <1>10, <2>1 DEF ReadsAlike, Lasting
  <1>12. Held(x) = HeldIn(s, seen)
    <2>1. Held(x) = Held(seen)
      BY <1>11, HeldAlike
    <2>2. Held(seen) = HeldIn(s, seen)
      BY <1>10 DEF Held, HeldIn
    <2> QED
      BY <2>1, <2>2
  <1>13. More(s, longer, before) = before \union Closure(s, Held(x))
    BY <1>1, <1>12 DEF More, seen, core
  <1>14. /\ Judge(x).status = IndexOf(s, before \union Closure(s, Held(x)))
         /\ Judge(x).emulator.written = Lap(s, before \union Closure(s, Held(x)))
    BY <1>2, <1>5, <1>7, JudgeProgress
  <1>15. Judge(x).emulator.core = core
    <2>1. "core" \in DOMAIN x.emulator \ {"written"}
      BY <1>2, PlayableFacts
    <2> QED
      BY <1>2, <1>4, <2>1, JudgeKeeps
  <1> QED
    BY <1>8, <1>13, <1>14, <1>15 DEF OfRules, core, x, longer

LEMMA PathOfRules ==
  ASSUME NEW s \in DOMAIN Scripts
  PROVE  \A p \in Paths(s) : OfRules(s, Undisturbed(s, p), p)
  <1> DEFINE I == ToSet(InputStrings[s])
             Good == {n \in Nat : \A p \in Seq(I) : Len(p) = n => OfRules(s, Undisturbed(s, p), p)}
  <1>1. 0 \in Good
    <2>1. OfRules(s, Undisturbed(s, <<>>), <<>>)
      BY FirstOfRules, UndisturbedFacts
    <2> QED
      BY <2>1, EmptySeq
  <1>2. ASSUME NEW n \in Nat, n \in Good PROVE n + 1 \in Good
    <2> SUFFICES ASSUME NEW p \in Seq(I), Len(p) = n + 1 PROVE OfRules(s, Undisturbed(s, p), p)
      OBVIOUS
    <2>1. p # <<>>
      BY EmptySeq
    <2> DEFINE q == Front(p)
               i == Last(p)
    <2>2. q \in Seq(I) /\ Len(q) = n /\ i \in I /\ p = Append(q, i)
      BY <2>1, FrontLast
    <2>3. OfRules(s, Undisturbed(s, q), q)
      BY <1>2, <2>2
    <2> HIDE DEF q, i
    <2>4. /\ Undisturbed(s, q) \in Playable(s)
          /\ Undisturbed(s, Append(q, i)) = Judge(AdvanceGame(Undisturbed(s, q), i))
      BY <2>2, UndisturbedFacts, SearchedFacts DEF Paths, Lasts
    <2>5. OfRules(s, Judge(AdvanceGame(Undisturbed(s, q), i)), Append(q, i))
      BY <2>2, <2>3, <2>4, NextOfRules DEF Paths
    <2> QED
      BY <2>2, <2>4, <2>5
  <1>3. Nat \subseteq Good
    <2> HIDE DEF Good
    <2> QED
      BY <1>1, <1>2, NatSetInduction
  <1> QED
    BY <1>3, LenProperties DEF Paths

LEMMA StoringSatisfies == Typing /\ StoredIsPath => RulesOfPath
  <1> SUFFICES ASSUME Typing, StoredIsPath, NEW stored \in Stored
               PROVE  LET labels == RulesAfter(Script, PathTo(stored))
                      IN /\ stored.game.status = IndexOf(Script, labels)
                         /\ stored.game.emulator.core = CoreAfter(Script, PathTo(stored))
                         /\ stored.game.emulator.written = Lap(Script, labels)
    BY DEF RulesOfPath
  <1> DEFINE s == Script
             path == PathTo(stored)
             g == Undisturbed(s, path)
  <1>1. s \in DOMAIN Scripts /\ stored \in StoredOf(s) /\ stored.step <= MaxSteps
    <2>1. pc = "search" => SearchTyped(s) /\ s \in DOMAIN Scripts
      BY DEF Typing
    <2>2. pc # "search" => Stored = {}
      BY DEF Typing, PlayerTyped, Stored
    <2> QED
      BY <2>1, <2>2 DEF SearchTyped, Stored
  <1>2. stored.game = SerializeGame(g)
    BY DEF StoredIsPath
  <1> HIDE DEF s
  <1>3. path \in Paths(s)
    BY <1>1, HistoryTyped DEF PathTo, Paths, s
  <1> HIDE DEF path
  <1>4. OfRules(s, g, path)
    BY <1>1, <1>3, PathOfRules
  <1> HIDE DEF g
  <1>5. stored.game.status = g.status /\ stored.game.emulator = SerializeEmulator(g.emulator)
    BY <1>2 DEF SerializeGame
  <1>6. SerializeEmulator(g.emulator).core = g.emulator.core /\ SerializeEmulator(g.emulator).written = g.emulator.written
    BY DEF SerializeEmulator
  <1> QED
    BY <1>4, <1>5, <1>6 DEF OfRules, s, path

\* The rules satisfied in a stored state, and the lap's progress, follow from its inputs.
THEOREM SatisfiesTheRules == Spec => []RulesOfPath
  <1>1. Typing /\ [Next]_vars => Typing'
    BY NextTyping
  <1> QED
    BY <1>1, InitTyping, InitSearching, NextSearching, SearchingStores, StoringSatisfies, PTL DEF Spec
=============================================================================
