-------------------------- MODULE MCImapInstances --------------------------
(***************************************************************************)
(* ImapSync on three instances, each with a filter rule: syncs and         *)
(* backfills that fail while the mailbox is rebuilt (R), syncs beside the  *)
(* user's commands (U), and the same on a smaller mailbox that another     *)
(* client marks as well (V).  A behaviour is one of one instance.          *)
(***************************************************************************)
EXTENDS ImapSync, TLC

VARIABLE instance

\* The processes are interchangeable.
Symmetry == Permutations(Procs)

\* R, whose constants are those of the configuration: every step may fail or be the last
\* one before a crash, except that the backfill is not cut short in the middle of its
\* batch (see imap_backfill_abort).
AbortAnywhere == Labels \ {"idle", "insert"}

\* U and V have fewer mails: UIDs from the given one on are never given out.
U == INSTANCE ImapSync WITH
        OlderWindow <- 1, Commands <- {"sync", "move", "read"}, Events <- {},
        AbortAt <- {"local"}
V == INSTANCE ImapSync WITH
        OlderWindow <- 1, Commands <- {"sync", "move", "read"}, Events <- {"flag"},
        AbortAt <- {"local"}
FirstUnused == CASE instance = "R" -> MaxUid + 1
                 [] instance = "U" -> 4
                 [] instance = "V" -> 3

MCInit ==
    /\ instance \in {"R", "U", "V"}
    /\ Init /\ uidNext <= FirstUnused

MCNext ==
    /\ \/ instance = "R" /\ Next
       \/ instance = "U" /\ U!Next
       \/ instance = "V" /\ V!Next
    /\ uidNext' <= FirstUnused
    /\ UNCHANGED instance

MCSpec == MCInit /\ [][MCNext]_<<instance, vars>>
=============================================================================
