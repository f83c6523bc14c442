--------------------------- MODULE MCPopInstances ---------------------------
(***************************************************************************)
(* PopSync on two instances: syncs and backfills beside moves and the      *)
(* deletion of a folder (S), and syncs beside the deletion of mails for    *)
(* good (P).  A behaviour is one of one instance.                          *)
(***************************************************************************)
EXTENDS PopSync, TLC

VARIABLE instance

\* The processes are interchangeable.
Symmetry == Permutations(Procs)

\* Every step of a command may fail or be the last one before a crash.
AbortAnywhere == Labels \ {"idle"}

\* The constants of S are those of the configuration; P has one mail less and no rule.
P == INSTANCE PopSync WITH
        Filtered <- {}, Commands <- {"sync", "purge", "move"},
        Events <- {"expire", "retr", "deliver"}
Latest == IF instance = "P" THEN MaxMail - 1 ELSE MaxMail

MCInit ==
    /\ instance \in {"S", "P"}
    /\ Init /\ arrived <= Latest

MCNext ==
    /\ \/ instance = "S" /\ Next
       \/ instance = "P" /\ P!Next
    /\ arrived' <= Latest
    /\ UNCHANGED instance

MCSpec == MCInit /\ [][MCNext]_<<instance, vars>>
=============================================================================
