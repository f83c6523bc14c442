---------------------------- MODULE MCImapSync ----------------------------
(***************************************************************************)
(* ImapSync on small instances.                                            *)
(***************************************************************************)
EXTENDS ImapSync, TLC

\* The processes are interchangeable in every safety run.
Symmetry == Permutations(Procs)

\* Every step of a command may fail or be the last one before a crash, except
\* that the backfill is not cut short in the middle of its batch.
AbortAnywhere == Labels \ {"idle", "insert"}
AbortInBackfill == {"insert"}
=============================================================================
