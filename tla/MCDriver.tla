------------------------------ MODULE MCDriver ------------------------------
(* Small instances of Driver.                                              *)
EXTENDS Driver

MinusInfinity == 0

\* Every configuration but differential compression with a search that goes on after a win.
SafeConfigs == {c \in Configuration : c.differential => c.endOnFirstWin}
\* That one.
StaleConfigs == Configuration \ SafeConfigs
=============================================================================
