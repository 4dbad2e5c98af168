------------------------------ MODULE MCGames -------------------------------
(* The small games that Engine is checked on: the facts about each of their *)
(* states, which are numbered.                                             *)
EXTENDS Integers, TLC

Node(next, type, reward) ==
    [next |-> next, type |-> type, reward |-> reward, allowed |-> {1, 2}, candidates |-> {},
     key |-> 0, level |-> 0, tolerance |-> 0, fits |-> TRUE]

Hashed(game) == [s \in DOMAIN game |-> game[s] @@ [hash |-> s]]

\* Two ways to most states, a way back, a failure, two wins of the same step, the
\* worse of which is found first, and a state (7) whose hash is that of another (6).
GraphGame ==
    LET game == Hashed(0 :> Node(<<1, 2>>, "normal", 0) @@
                       1 :> Node(<<3, 0>>, "normal", 2) @@
                       2 :> Node(<<3, 4>>, "normal", 1) @@
                       3 :> Node(<<5, 6>>, "normal", 4) @@
                       4 :> Node(<<7, 8>>, "normal", 3) @@
                       5 :> Node(<<5, 5>>, "win", 6) @@
                       6 :> Node(<<1, 9>>, "normal", 5) @@
                       7 :> Node(<<9, 2>>, "normal", 5) @@
                       8 :> Node(<<8, 8>>, "win", 7) @@
                       9 :> Node(<<9, 9>>, "fail", 0))
    IN [game EXCEPT ![7].hash = 6]

\* Two checkpoints (levels 1 and 2) reached in the same step, states left behind by
\* them, a state that does not fit its slot, and candidate inputs.
CheckpointGame ==
    LET game == Hashed(0 :> Node(<<1, 2, 1>>, "normal", 0) @@
                       1 :> Node(<<3, 5, 9>>, "normal", 2) @@
                       2 :> Node(<<4, 5, 6>>, "normal", 1) @@
                       3 :> Node(<<6, 7, 8>>, "normal", 4) @@
                       4 :> Node(<<7, 8, 8>>, "normal", 3) @@
                       5 :> Node(<<9, 6, 1>>, "normal", 5) @@
                       6 :> Node(<<6, 7, 8>>, "normal", 6) @@
                       7 :> Node(<<7, 7, 7>>, "win", 9) @@
                       8 :> Node(<<8, 8, 8>>, "fail", 0) @@
                       9 :> Node(<<5, 0, 3>>, "normal", 1))
        at(s, l, t) == [game[s] EXCEPT !.level = l, !.tolerance = t]
    IN (3 :> at(3, 1, 1) @@ 4 :> at(4, 2, 0) @@ 6 :> at(6, 1, 1) @@ 7 :> at(7, 2, 0)
          @@ 8 :> at(8, 2, 0)) @@ game

CandidateGame ==
    [s \in DOMAIN CheckpointGame |->
        [CheckpointGame[s] EXCEPT !.candidates = IF s \in {5, 7, 8} THEN {2, 3} ELSE {},
                                  !.key = s % 2,
                                  !.fits = s # 9]]

\* A win reached in two ways whose differences to the reference state do not fit.
LargeWinGame == [CandidateGame EXCEPT ![7].fits = FALSE]
=============================================================================
