------------------------------ MODULE MCEngine ------------------------------
(* Engine on small games.                                                  *)
EXTENDS Engine, MCGames
=============================================================================
