---------------------------- MODULE LevelSearch -----------------------------
(***************************************************************************)
(* What the engine is for: a breadth-first search of the game.  Each step  *)
(* replaces the frontier by the successors of its states whose hash was    *)
(* not known, one state for each new hash, without those that fail or win. *)
(* Engine, run by any number of threads with room for every state and no   *)
(* checkpoints, implements this specification.                             *)
(***************************************************************************)
EXTENDS Integers, FiniteSets

CONSTANTS States, Initial, Game, HashStepTolerance, MaxSteps

VARIABLES step,      \* steps completed
          frontier,  \* the states to be expanded in the next step
          known,     \* the hashes of all states reached so far
          won        \* the wins reached in the last step

vars == <<step, frontier, known, won>>

StateHash(s, n) == <<n % (HashStepTolerance + 1), Game[s].hash>>

Init == /\ step = 0
        /\ frontier = {Initial}
        /\ known = {StateHash(Initial, 0)}
        /\ won = {}

Children == UNION {{Game[s].next[i] : i \in Game[s].allowed} : s \in frontier}
New(h) == {c \in Children : StateHash(c, step + 1) = h}
NewHashes == {StateHash(c, step + 1) : c \in Children} \ known

Step == /\ frontier # {} /\ step < MaxSteps
        /\ \E reached \in SUBSET Children :
              /\ {StateHash(c, step + 1) : c \in reached} = NewHashes
              /\ \A h \in NewHashes : Cardinality(reached \intersect New(h)) = 1
              /\ frontier' = {c \in reached : Game[c].type = "normal"}
              /\ won' = {c \in reached : Game[c].type = "win"}
        /\ known' = known \union NewHashes
        /\ step' = step + 1

Spec == Init /\ [][Step]_vars
-----------------------------------------------------------------------------
(* What the search is for.                                                 *)

\* The states and the wins that a sequence of n inputs leads to.
IsPath(p, n) == /\ p[0] = Initial
                /\ \A i \in 0 .. n - 1 : /\ Game[p[i]].type = "normal"
                                         /\ \E a \in Game[p[i]].allowed : p[i + 1] = Game[p[i]].next[a]
Reached(n) == {s \in States : \E p \in [0 .. n -> States] : IsPath(p, n) /\ p[n] = s}
WinsAt(n) == {w \in Reached(n) : Game[w].type = "win"}
NoWinBefore(n) == \A m \in 0 .. n - 1 : WinsAt(m) = {}

\* The game's hash tells a state on the way to a first win from every other state that
\* as few inputs lead to.
HashesTellApart ==
    \A n \in 1 .. MaxSteps : NoWinBefore(n) =>
        \A p \in [0 .. n -> States] : IsPath(p, n) /\ Game[p[n]].type = "win" =>
            \A k \in 1 .. n, m \in 0 .. n :
                m <= k => \A s \in Reached(m) : Game[s].hash = Game[p[k]].hash => s = p[k]

\* The first win is found by as few inputs as any can be, with every other win that as
\* few inputs lead to.
FindsFirstWins == NoWinBefore(step) => won = WinsAt(step)
=============================================================================
