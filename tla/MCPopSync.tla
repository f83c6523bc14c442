------------------------------ MODULE MCPopSync ------------------------------
(***************************************************************************)
(* PopSync on small instances.                                             *)
(***************************************************************************)
EXTENDS PopSync, TLC

Symmetry == Permutations(Procs)

\* Every step of a command may fail or be the last one before a crash.
AbortAnywhere == Labels \ {"idle"}
=============================================================================
