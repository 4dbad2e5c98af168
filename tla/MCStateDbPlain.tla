--------------------------- MODULE MCStateDbPlain ---------------------------
(* StateDbPlain on two workers and four slots.                             *)
EXTENDS StateDbPlain
=============================================================================
