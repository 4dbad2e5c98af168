--------------------------- MODULE MCEngineSearch ---------------------------
(* EngineSearch on small games.                                            *)
EXTENDS EngineSearch, MCGames

\* The game and the sizes are such that the search is complete.
ASSUME CompleteAssumption == /\ Complete
                             /\ Game[Initial].type = "normal" /\ Search!HashesTellApart
=============================================================================
