------------------------------- MODULE MCLive -------------------------------
(***************************************************************************)
(* What must happen in the end: that a backfill of metadata that was asked *)
(* for is made (MetaBackfill); and that the sync lock is given back, with  *)
(* the daily flow, which takes no lock, beside a sync and a backfill that  *)
(* may fail anywhere (ImapSync).  A behaviour is one of either.            *)
(***************************************************************************)
EXTENDS ImapSync, MetaBackfill

VARIABLE part

\* Every step may fail or be the last one before a crash, except that the backfill is
\* not cut short in the middle of its batch (see imap_backfill_abort).
AbortAnywhere == Labels \ {"idle", "insert"}

\* A mail that cannot be parsed in one folder, and one in the next folder with the UID
\* the cursor has reached at the end of the first.
TwoFolders == {<<"f1", 1>>, <<"f2", 1>>}
FirstBroken == {<<"f1", 1>>}

\* One state of the part that does not run, and one caller that is the first.
LiveInit ==
    /\ part \in {"sync", "meta"} /\ Init /\ MetaInit
    /\ caller["g1"] = "dirty"
    /\ uidNext = 3 /\ (part = "sync" => meta = [r \in Rows |-> "none"])

LiveNext ==
    \/ part = "sync" /\ Next /\ UNCHANGED <<part, metaVars>>
    \/ part = "meta" /\ MetaNext /\ UNCHANGED <<part, vars>>

\* The fairness of both specifications, each where it runs.
LiveSpec ==
    /\ LiveInit /\ [][LiveNext]_<<part, vars, metaVars>>
    /\ \A p \in Procs : WF_vars(Run(p))
    /\ \A w \in Workers : WF_metaVars(part = "meta" /\ Work(w))
    /\ \A g \in Callers : WF_metaVars(part = "meta" /\ Wake(g))
=============================================================================
