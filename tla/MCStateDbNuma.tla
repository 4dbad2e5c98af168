--------------------------- MODULE MCStateDbNuma ----------------------------
(* StateDbNuma on two NUMA domains of two slots each with one worker each. *)
EXTENDS StateDbNuma

CONSTANTS t1, t2

MCPreferred == t1 :> 0 @@ t2 :> 1
MCMaxStates == 0 :> 2 @@ 1 :> 2

\* Buffers with other memory between them, the second allocated below the first.
ApartStart == 0 :> 10 @@ 1 :> 5
\* The second buffer starts where the first one ends.
AdjacentStart == 0 :> 5 @@ 1 :> 7
=============================================================================
