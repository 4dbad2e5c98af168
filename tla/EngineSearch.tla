---------------------------- MODULE EngineSearch ----------------------------
(***************************************************************************)
(* Engine, with what each of its steps started from and found, as a        *)
(* breadth-first search of the game.                                       *)
(***************************************************************************)
EXTENDS Engine

VARIABLES
    frontier,  \* the base states the step started from
    known,     \* the hashes remembered at that time
    won        \* the wins stored in the step before

searchVars == <<vars, frontier, known, won>>

RememberedHashes == {h \in Hashes : lastSeen'[h] # Seen!Forgotten}

SearchInit == /\ Init
              /\ frontier = {Initial} /\ won = {}
              /\ known = {StateHash(Initial, 0)}
SearchNext == /\ Next
              /\ IF running /\ ~running'
                 THEN /\ frontier' = ToSet(currentDb')
                      /\ won' = wins
                      /\ known' = RememberedHashes
                 ELSE UNCHANGED <<frontier, known, won>>
SearchSpec == SearchInit /\ [][SearchNext]_searchVars

Search == INSTANCE LevelSearch

\* The search is complete if it has no checkpoints, no candidate inputs, states that fit
\* their slots, a slot for every state in each database with two more for each thread,
\* and a hash database that never starts a new generation.
Complete == /\ \A s \in States : Game[s].level = 0 /\ Game[s].candidates = {} /\ Game[s].fits
            /\ IsFiniteSet(States)
            /\ MaxStates >= 2 * (Cardinality(States) + Cardinality(Threads))
            /\ MaxStoreEntries >= Cardinality(Hashes)

\* Whatever the threads do, a step expands exactly the frontier of the breadth-first
\* search: no state is lost, none is expanded twice, and failed states stay out.
ImplementsLevelSearch == Search!Spec

\* The step that ends a shortest winning input sequence finds every win that so few
\* inputs reach, in whatever order the threads work: the first win reported is short.
FindsShortestWins == ~running /\ Search!NoWinBefore(step) => wins = Search!WinsAt(step)
=============================================================================
