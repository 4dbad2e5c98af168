----------------------------- MODULE GameRules ------------------------------
(***************************************************************************)
(* The rules of a game (source/game.hpp, rule.hpp, condition.hpp), as      *)
(* functions from the game's state to its next one.                        *)
(***************************************************************************)
EXTENDS SingleGames

BitOf(a, b) == (a \div 2^b) % 2 = 1

Compare(op, a, b) == \/ op = "==" /\ a = b
                     \/ op = "!=" /\ a # b
                     \/ op = ">"  /\ a > b
                     \/ op = ">=" /\ a >= b
                     \/ op = "<"  /\ a < b
                     \/ op = "<=" /\ a <= b
                     \/ op = "BitTrue"  /\ BitOf(a, b)
                     \/ op = "BitFalse" /\ ~BitOf(a, b)

\* A property is read with the type of the one that it is compared with.
Holds(c, g) ==
    Compare(c.op, ValueOf(g, c.property),
            IF c.other = NoProperty THEN c.immediate
                                    ELSE Cast(ValueOf(g, c.other), Datatypes[Game(g)][c.property]))
AllHold(conditions, g) == \A c \in conditions : Holds(c, g)

AdvanceGame(g, input) == UpdateDerived[AdvanceImpl(input)[g]]

IndexOf(s, labels) == {Rules[s][l].index : l \in labels}
Satisfied(g) == {l \in Labels(g.script) : Rules[g.script][l].index \in g.status}
-----------------------------------------------------------------------------
\* satisfyRule, called for a rule that is not marked yet: the rules that it satisfies and
\* that are not marked yet are marked before it.
MarkAll(mark, status, labels) == InLabelOrder(LAMBDA marked, k : mark[k][marked], status, labels)
SatisfyRule(s) ==
    LET mark[l \in Labels(s)] == [status \in SUBSET Nat |->
          IF Rules[s][l].index \in status THEN status
          ELSE {Rules[s][l].index} \union MarkAll(mark, status, Rules[s][l].satisfies)]
    IN mark

\* runGameSpecificRuleActions: those of all satisfied rules, in the order of labels.
RunActionsOf(l) == [g \in Games |->
    IF Rules[g.script][l].index \in g.status
      THEN FoldLeft(LAMBDA h, a : RunAction(a)[h], g, Rules[g.script][l].actions) ELSE g]
RunRuleActions_Backwards(g) ==
    MapThenFoldSet(LAMBDA l, h : RunActionsOf(l)[h], g, LAMBDA l : l, LAMBDA labels : Min(labels), Labels(g.script))
RunRuleActions(g) == InLabelOrder(LAMBDA h, l : RunActionsOf(l)[h], g, Labels(g.script))

Held(g) == {l \in Labels(g.script) : AllHold(Rules[g.script][l].conditions, g)}
NewStatus(g) == MarkAll(SatisfyRule(g.script), g.status, Held(g))
EvaluateRules[g \in Games] ==
    MeasureDistance[RunRuleActions([ResetActions(g) EXCEPT !.status = NewStatus(g)])]

\* The last rule in the order of labels decides; a rule that wins and fails, fails.
\* The tolerance keeps its value if no checkpoint rule is satisfied.
UpdateGameStateType[g \in Games] ==
    LET rules == Rules[g.script]
        checkpoints == {l \in Satisfied(g) : rules[l].checkpoint}
        ends == {l \in Satisfied(g) : rules[l].win \/ rules[l].fail}
    IN [g EXCEPT !.level = Cardinality(checkpoints),
                 !.tolerance = IF checkpoints = {} THEN @ ELSE rules[Max(checkpoints)].tolerance,
                 !.type = IF ends = {} THEN "normal"
                          ELSE IF rules[Max(ends)].fail THEN "fail" ELSE "win"]

UpdateReward[g \in Games] ==
    LET rewards == [l \in Satisfied(g) |-> Rules[g.script][l].reward]
    IN [g EXCEPT !.reward = SumFunction(rewards) + GameReward(g)]

\* What Playback and the engine do with a new state.
Judge(g) == UpdateReward[UpdateGameStateType[EvaluateRules[g]]]
-----------------------------------------------------------------------------
(* Serialization: neither the tolerance nor what the actions of rules set  *)
(* outside the emulator is stored; loading a state runs the actions again. *)

SerializeGame(g) ==
    [emulator |-> SerializeEmulator(g.emulator), step |-> g.step, lastInput |-> g.lastInput,
     reward |-> g.reward, level |-> g.level, type |-> g.type, status |-> g.status]

Loaded_KeepsDerived(g, stored) ==
    Restored(g, [stored EXCEPT !.emulator = DeserializeEmulator(g.emulator, @)])
Loaded(g, stored) ==
    UpdateDerived[Restored(g, [stored EXCEPT !.emulator = DeserializeEmulator(g.emulator, @)])]
DeserializeGame_KeepsActions(g, stored) == MeasureDistance[RunRuleActions(Loaded(g, stored))]
DeserializeGame(g, stored) == MeasureDistance[RunRuleActions(ResetActions(Loaded(g, stored)))]
-----------------------------------------------------------------------------
(* What the rules must be for a game to be searched and replayed.          *)

\* The rules that a set of rules satisfies, directly or through others.
Closed(s, labels) == \A l \in labels : Rules[s][l].satisfies \subseteq labels
Closure(s, labels) ==
    CHOOSE c \in SUBSET Labels(s) : /\ labels \subseteq c /\ Closed(s, c)
                                    /\ \A d \in SUBSET Labels(s) : labels \subseteq d /\ Closed(s, d) => c \subseteq d
Has(s, l, type) == \E i \in DOMAIN Rules[s][l].actions : Rules[s][l].actions[i].type = type
Clears(s, l) == Has(s, l, "Clear Lap Progress")
Advances(s, l) == Has(s, l, "Advance Lap Progress")

\* Rules satisfy rules of smaller labels only, as in all examples (src/examples): satisfyRule
\* recurses for ever on a cycle.  A rule that advances the lap satisfies one that
\* clears it before, so that running the actions again changes nothing.
ASSUME RulesAssumption ==
    \A s \in DOMAIN Scripts : \A l \in Labels(s) :
        /\ l \in Nat
        /\ Rules[s][l].satisfies \subseteq {k \in Labels(s) : k < l}
        /\ ~(Clears(s, l) /\ Advances(s, l))
        /\ Advances(s, l) => \E k \in Closure(s, {l}) : k < l /\ Clears(s, k)
=============================================================================
