------------------------------ MODULE MCHashDb ------------------------------
(* HashDb on two threads, three hashes and three stores.                  *)
EXTENDS HashDb, TLC

Symmetry == Permutations(Threads) \union Permutations(Hashes)
=============================================================================
