----------------------------- MODULE GameScript -----------------------------
(***************************************************************************)
(* The configuration of a game and of its runner, and what is made of it   *)
(* when they are initialized: the rules by their labels (source/game.hpp:  *)
(* 52-97, 368-445, 495-606) and the numbered inputs (runner.hpp:49-158).   *)
(* Several configurations are given; a game is of one of them.             *)
(***************************************************************************)
EXTENDS Emulator, SequencesExt

CONSTANTS Scripts,     \* the configurations, by name: see Accepted
          Datatypes,   \* for each game, the types of the properties it registers
          ActionTypes  \* for each game, the types of actions of its own

Operators == {"==", "!=", ">", ">=", "<", "<=", "BitTrue", "BitFalse"}
NoProperty == "none"
Datatype == [bits : {8, 16, 32}, signed : BOOLEAN]

\* A number takes the type of the property that it is compared with; those of the scripts
\* fit into 32 bits, a float's included.
Cast(n, type) == IF type.bits = 32 THEN n
                 ELSE IF type.signed THEN ((n + 2^(type.bits - 1)) % 2^type.bits) - 2^(type.bits - 1)
                 ELSE n % 2^type.bits

\* The second operand is a number, or a property that is read with the type of the first.
ParseCondition(game, c) ==
    [op |-> c.op, property |-> c.property,
     other |-> IF "name" \in DOMAIN c THEN c.name ELSE NoProperty,
     immediate |-> IF "name" \in DOMAIN c THEN 0 ELSE Cast(c.number, Datatypes[game][c.property])]
ParseConditions(game, conditions) == {ParseCondition(game, c) : c \in conditions}
-----------------------------------------------------------------------------
(* Rules.                                                                  *)

CommonActions == {"Add Reward", "Trigger Fail", "Trigger Win", "Trigger Checkpoint"}

\* Actions that set the same value do not add up; those of the game are kept in order.
ParseRuleAction(rule, a) ==
    CASE a.type = "Add Reward"         -> [rule EXCEPT !.reward = a.value]
      [] a.type = "Trigger Fail"       -> [rule EXCEPT !.fail = TRUE]
      [] a.type = "Trigger Win"        -> [rule EXCEPT !.win = TRUE]
      [] a.type = "Trigger Checkpoint" -> [rule EXCEPT !.checkpoint = TRUE, !.tolerance = a.tolerance]
      [] OTHER                         -> [rule EXCEPT !.actions = Append(@, a)]

\* The index of a rule, which stands for it in the status, is its place in the file.
ParseRule(game, index, r) ==
    FoldLeft(ParseRuleAction,
             [index |-> index, conditions |-> ParseConditions(game, r.conditions),
              satisfies |-> r.satisfies, actions |-> <<>>, reward |-> 0,
              win |-> FALSE, fail |-> FALSE, checkpoint |-> FALSE, tolerance |-> 0],
             r.actions)

\* A rule replaces an earlier one of its label.
LabelsOf(rules) == {rules[i].label : i \in DOMAIN rules}
PlaceOf(rules, label) == Max({i \in DOMAIN rules : rules[i].label = label})
ParseRules(game, rules) ==
    [l \in LabelsOf(rules) |-> ParseRule(game, PlaceOf(rules, l) - 1, rules[PlaceOf(rules, l)])]

\* Bits in the storage of the status, one for each rule kept, in whole bytes.
StatusBits(labels) == 8 * ((Cardinality(labels) + 7) \div 8)

Rules == [s \in DOMAIN Scripts |-> ParseRules(Scripts[s].game, Scripts[s].rules)]
Labels(s) == DOMAIN Rules[s]

RuleActions == UNION {UNION {ToSet(Rules[s][l].actions) : l \in Labels(s)} : s \in DOMAIN Scripts}

\* _rules is a map: its iterators follow the labels.
InLabelOrder(op(_, _), base, labels) ==
    MapThenFoldSet(LAMBDA l, x : op(x, l), base, LAMBDA l : l, LAMBDA rest : Max(rest), labels)
-----------------------------------------------------------------------------
(* Inputs.                                                                 *)

ParseInputSet(game, set) ==
    [conditions |-> ParseConditions(game, set.conditions), inputs |-> ToSet(set.inputs), stop |-> set.stop]
ParseInputSets(game, sets) == [i \in DOMAIN sets |-> ParseInputSet(game, sets[i])]

\* The candidate sets are parsed after the allowed ones, if they are tested at all.
Candidates(script) == IF script.testCandidates THEN script.candidates ELSE <<>>
AllowedSets == [s \in DOMAIN Scripts |-> ParseInputSets(Scripts[s].game, Scripts[s].allowed)]
CandidateSets == [s \in DOMAIN Scripts |-> ParseInputSets(Scripts[s].game, Candidates(Scripts[s]))]

\* An input is numbered when it first appears.
RegisterInput(registered, input) ==
    IF Contains(registered, input) THEN registered ELSE Append(registered, input)
SetsParsed(script) == script.allowed \o Candidates(script)
RegisterInputs(registered, set) == FoldLeft(RegisterInput, registered, set.inputs)
InputStrings == [s \in DOMAIN Scripts |-> FoldLeft(RegisterInputs, <<>>, SetsParsed(Scripts[s]))]

InputIndex(s, input) == CHOOSE i \in 0 .. Len(InputStrings[s]) - 1 : InputStrings[s][i + 1] = input
InputString(s, index) == InputStrings[s][index + 1]
-----------------------------------------------------------------------------
(* What makes initialization throw.                                        *)

IsDeclared(game, c) == /\ c.op \in Operators
                       /\ c.property \in DOMAIN Datatypes[game]
                       /\ "name" \in DOMAIN c => c.name \in DOMAIN Datatypes[game]
                       /\ "name" \in DOMAIN c \/ "number" \in DOMAIN c
IsComplete(a) == /\ a.type = "Add Reward" => a.value \in Int
                 /\ a.type = "Trigger Checkpoint" => a.tolerance \in Nat
Accepted(script) ==
    LET rules == ToSet(script.rules)
        conditions == UNION {x.conditions : x \in rules \union ToSet(SetsParsed(script))}
        actions == UNION {ToSet(r.actions) : r \in rules}
    IN /\ script.hashed \subseteq DOMAIN Datatypes[script.game]
       /\ \A c \in conditions : IsDeclared(script.game, c)
       /\ \A a \in actions : a.type \in CommonActions \union ActionTypes[script.game] /\ IsComplete(a)
       /\ \A r \in rules : r.satisfies \subseteq {k.label : k \in rules}

\* Besides, two properties that are compared have one size (reading the second throws
\* otherwise, in the middle of a search), and the index of a rule lies within the
\* storage of the status, which labels given twice may prevent.
IsList(x) == x \in Seq(ToSet(x))
ASSUME ScriptsAssumption ==
    \A s \in DOMAIN Scripts :
        LET types == Datatypes[Scripts[s].game] IN
        /\ IsList(Scripts[s].rules) /\ \A r \in ToSet(Scripts[s].rules) : IsList(r.actions)
        /\ IsList(Scripts[s].allowed) /\ IsList(Candidates(Scripts[s]))
        /\ \A set \in ToSet(SetsParsed(Scripts[s])) : set.inputs \in Seq(STRING)
        /\ Scripts[s].initialSequence \in Seq(STRING)
        /\ \A p \in DOMAIN types : types[p] \in Datatype
        /\ Accepted(Scripts[s])
        /\ \A l \in Labels(s) : /\ Rules[s][l].index < StatusBits(Labels(s))
                                /\ \A c \in Rules[s][l].conditions :
                                       c.other # NoProperty => types[c.other].bits = types[c.property].bits
=============================================================================
