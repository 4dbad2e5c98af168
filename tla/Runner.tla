------------------------------- MODULE Runner -------------------------------
(***************************************************************************)
(* A runner (source/runner.hpp, inputSet.hpp): a game, the inputs it was   *)
(* given and their number.  Every worker, the driver and the player have   *)
(* one.  The history holds the numbers of inputs.                          *)
(***************************************************************************)
EXTENDS GameRules

CONSTANTS MaxSteps   \* size of the input history: the driver's "Max Steps"

ASSUME RunnerAssumption == /\ MaxSteps \in Nat \ {0}
                           /\ \A s \in DOMAIN Scripts : InputStrings[s] # <<>>

\* Runner::initialize: the initial sequence advances the game, not the runner's step.
NewRunner(s, garbage) ==
    [game |-> FoldLeft(AdvanceGame, NewGame(s, garbage), Scripts[s].initialSequence),
     history |-> [k \in 0 .. MaxSteps - 1 |-> 0],
     step |-> 0]

\* The inputs of the sets whose conditions hold, up to the first such set that says to
\* stop ("Stop Input Evaluation").
Active(set, g) == AllHold(set.conditions, g)
InputsOf(sets, g) ==
    UNION {sets[k].inputs : k \in {j \in DOMAIN sets : /\ Active(sets[j], g)
                                                       /\ \A i \in 1 .. j - 1 :
                                                             ~(Active(sets[i], g) /\ sets[i].stop)}}
AllowedInputs(r) == InputsOf(AllowedSets[r.game.script], r.game)
CandidateInputs(r) == InputsOf(CandidateSets[r.game.script], r.game)

\* setInput keeps the bits of an input's number that tell the registered inputs apart.
TwoTo[b \in Nat] == IF b = 0 THEN 1 ELSE 2 * TwoTo[b - 1]
BitsFor_Largest(n) == CHOOSE b \in 0 .. n : TwoTo[b] >= n - 1 /\ \A c \in 0 .. b - 1 : TwoTo[c] < n - 1
BitsFor(n) == CHOOSE b \in 0 .. n : TwoTo[b] >= n /\ \A c \in 0 .. b - 1 : TwoTo[c] < n
Packed(s, input) == InputIndex(s, input) % TwoTo[BitsFor(Len(InputStrings[s]))]

\* advanceState with an input's number, history enabled; it throws beyond MaxSteps.
AdvanceRunner(r, input) ==
    [game |-> AdvanceGame(r.game, input),
     history |-> [r.history EXCEPT ![r.step] = Packed(r.game.script, input)],
     step |-> r.step + 1]

\* advanceState with an input's string, or with the history disabled.
AdvanceUnrecorded(r, input) ==
    [r EXCEPT !.game = AdvanceGame(@, input), !.step = @ + 1]

\* computeHash: what it does to the game, not the value.
Hashed(r) == [r EXCEPT !.game = ComputeHash(@)]

SerializeRunner(r) == [game |-> SerializeGame(r.game), history |-> r.history, step |-> r.step]
DeserializeRunner(r, stored) ==
    [game |-> DeserializeGame(r.game, stored.game), history |-> stored.history, step |-> stored.step]

\* getInputHistoryString: the solution that is saved for a state.
InputHistory(s, stored) == [k \in 1 .. stored.step |-> InputString(s, stored.history[k - 1])]
=============================================================================
