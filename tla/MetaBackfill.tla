----------------------------- MODULE MetaBackfill -----------------------------
(***************************************************************************)
(* The message list is served from messages.meta_json.  A row without it   *)
(* is shown as "…" until the backfill thread of the desktop application    *)
(* parses it.  Whoever leaves rows without metadata wakes that thread with *)
(* spawn_meta_backfill, through two atomic flags: DIRTY (rows are missing) *)
(* and RUNNING (a worker is on it).  The commands of the window run in CLI *)
(* processes, which share the table but not the flags, and which have read *)
(* the trusted contacts when they started.                                 *)
(***************************************************************************)
EXTENDS Naturals, FiniteSets, Sequences, SequencesExt

CONSTANTS
    Workers,        \* threads that may be backfill workers
    Callers,        \* GUI threads that run commands
    Clis,           \* CLI processes
    Rows,           \* the stored mails: pairs of a folder and a UID, from 1
    Broken,         \* those whose mail cannot be parsed
    BatchSize,      \* the limit of backfill_meta_batch, 40 in the source
    MaxRestarts     \* bound: how often the application is restarted

ASSUME RowsAssumption ==
    /\ IsFiniteSet(Rows) /\ \A r \in Rows : r[2] \in Nat \ {0}
    /\ MaxRestarts \in Nat

VARIABLES
    meta,       \* meta_json of each row: none (NULL), garbled, or computed with
                \* the current trusted contacts or with old ones
    gui,        \* are the trusted contacts the application holds current or old?
    cli,        \* and those of each CLI process, unless it is off
    dirty,      \* META_BACKFILL_DIRTY
    running,    \* META_BACKFILL_RUNNING
    step,       \* the step each worker is about to take
    task,       \* the local variables of each worker
    caller,     \* where each GUI thread is in spawn_meta_backfill
    restarts,   \* how often the application was restarted
    owed,       \* observed: a backfill was asked for and no scan began since
    failed      \* observed: a database access of a worker failed

metaVars == <<meta, gui, cli, dirty, running, step, task, caller, restarts, owed, failed>>
flagVars == <<dirty, running>>
trustVars == <<gui, cli>>

Steps == {"off", "clear", "targets", "batch", "swap", "stop", "recheck", "retake"}
NoTask == [todo |-> <<>>, cursor |-> 0]

Folders == {r[1] : r \in Rows}
Missing == {r \in Rows : meta[r] = "none"}
Of(f) == {r \in Rows : r[1] = f}

\* The first BatchSize rows of f without metadata, by UID, above the cursor.
Batch(f, cursor) ==
    LET above == {r \in Missing \cap Of(f) : r[2] > cursor}
    IN  {r \in above : Cardinality({s \in above : s[2] <= r[2]}) <= BatchSize}

(***************************************************************************)
(* spawn_meta_backfill: store DIRTY, then try to become the one who starts *)
(* a worker.                                                               *)
(***************************************************************************)
MarkDirty(g) ==
    /\ caller[g] = "dirty"
    /\ dirty' = TRUE
    /\ owed' = TRUE
    /\ caller' = [caller EXCEPT ![g] = "cas"]
    /\ UNCHANGED <<trustVars, meta, running, step, task, restarts, failed>>

\* Mutant: the worker is started without looking at RUNNING.
SpawnAlways(g) ==
    /\ caller[g] = "cas"
    /\ running' = TRUE
    /\ \E w \in Workers : step[w] = "off" /\ step' = [step EXCEPT ![w] = "clear"]
    /\ caller' = [caller EXCEPT ![g] = "idle"]
    /\ UNCHANGED <<trustVars, meta, dirty, task, restarts, owed, failed>>

Spawn(g) ==
    /\ caller[g] = "cas"
    /\ running' = TRUE
    /\ \/ running /\ step' = step
       \/ /\ ~running
          /\ \E w \in Workers : step[w] = "off" /\ step' = [step EXCEPT ![w] = "clear"]
    /\ caller' = [caller EXCEPT ![g] = "idle"]
    /\ UNCHANGED <<trustVars, meta, dirty, task, restarts, owed, failed>>

(***************************************************************************)
(* The worker.                                                             *)
(***************************************************************************)
StepTo(w, label) == step' = [step EXCEPT ![w] = label]

ClearDirty(w) ==
    /\ step[w] = "clear"
    /\ dirty' = FALSE
    /\ StepTo(w, "targets")
    /\ UNCHANGED <<trustVars, meta, running, task, caller, restarts, owed, failed>>

\* missing_meta_targets, in no particular order; an error counts as no targets
\* (unwrap_or_default).
ReadTargets(w) ==
    /\ step[w] = "targets"
    /\ LET found == {r[1] : r \in Missing}
       IN  \E targets \in SetToSeqs(found) \cup {<<>>} :
              /\ failed' = (failed \/ (found # {} /\ targets = <<>>))
              /\ task' = [task EXCEPT ![w].todo = targets]
              /\ StepTo(w, IF targets = <<>> THEN "swap" ELSE "batch")
    /\ owed' = FALSE
    /\ UNCHANGED <<trustVars, meta, flagVars, caller, restarts>>

Batching(w) == step[w] = "batch"

\* On to the next folder, which starts with cursor 0.
NextFolder(w, cursor) ==
    /\ task' = [task EXCEPT ![w] = [todo |-> Tail(task[w].todo), cursor |-> cursor]]
    /\ StepTo(w, IF Len(task[w].todo) = 1 THEN "swap" ELSE "batch")

\* backfill_meta_batch: writes what can be parsed of a batch; the cursor passes
\* all of it.  The statements of a batch run under the lock of the state.
FillBatch(w) ==
    /\ Batching(w)
    /\ LET batch == Batch(Head(task[w].todo), task[w].cursor)
       IN  /\ meta' = [r \in Rows |-> IF r \in batch \ Broken THEN gui ELSE meta[r]]
           /\ \E r \in batch :
                /\ \A s \in batch : s[2] <= r[2]
                /\ task' = [task EXCEPT ![w].cursor = r[2]]
    /\ UNCHANGED <<trustVars, flagVars, step, caller, restarts, owed, failed>>

\* Mutant: the cursor is carried over to the next folder.
FolderDoneCursorKept(w) ==
    /\ Batching(w)
    /\ Batch(Head(task[w].todo), task[w].cursor) = {}
    /\ NextFolder(w, task[w].cursor)
    /\ UNCHANGED <<trustVars, meta, flagVars, caller, restarts, owed, failed>>

FolderDone(w) ==
    /\ Batching(w)
    /\ Batch(Head(task[w].todo), task[w].cursor) = {}
    /\ NextFolder(w, 0)
    /\ UNCHANGED <<trustVars, meta, flagVars, caller, restarts, owed, failed>>

\* The account is gone or the database is busy: the folder is skipped.
FolderFails(w) ==
    /\ Batching(w)
    /\ NextFolder(w, 0)
    /\ failed' = TRUE
    /\ UNCHANGED <<trustVars, meta, flagVars, caller, restarts, owed>>

SwapDirty(w) ==
    /\ step[w] = "swap"
    /\ dirty' = FALSE
    /\ StepTo(w, IF dirty THEN "clear" ELSE "stop")
    /\ UNCHANGED <<trustVars, meta, running, task, caller, restarts, owed, failed>>

\* Mutant: the worker does not look at DIRTY again.
StopForGood(w) ==
    /\ step[w] = "stop"
    /\ running' = FALSE
    /\ StepTo(w, "off")
    /\ UNCHANGED <<trustVars, meta, dirty, task, caller, restarts, owed, failed>>

Stop(w) ==
    /\ step[w] = "stop"
    /\ running' = FALSE
    /\ StepTo(w, "recheck")
    /\ UNCHANGED <<trustVars, meta, dirty, task, caller, restarts, owed, failed>>

Recheck(w) ==
    /\ step[w] = "recheck"
    /\ StepTo(w, IF dirty THEN "retake" ELSE "off")
    /\ UNCHANGED <<trustVars, meta, flagVars, task, caller, restarts, owed, failed>>

Retake(w) ==
    /\ step[w] = "retake"
    /\ running' = TRUE
    /\ StepTo(w, IF running THEN "off" ELSE "clear")
    /\ UNCHANGED <<trustVars, meta, dirty, task, caller, restarts, owed, failed>>

(***************************************************************************)
(* Who leaves rows without metadata.                                       *)
(***************************************************************************)
workerVars == <<dirty, running, step, task>>

\* list_cached: garbled metadata is dropped.
Listed(f) == [r \in Rows |-> IF r[1] = f /\ meta[r] = "garbled" THEN "none" ELSE meta[r]]

\* trust_sender and remove_trusted save the contacts and then clear meta_json;
\* a failure to clear goes unnoticed, and a crash before it has the same effect.
Invalidate ==
    \/ meta' = [r \in Rows |-> "none"] /\ UNCHANGED failed
    \/ /\ meta' = [r \in Rows |-> IF meta[r] = "current" THEN "old" ELSE meta[r]]
       /\ failed' = TRUE

Outdated(c) == IF cli[c] = "current" THEN "old" ELSE cli[c]

\* A trust change or a list with placeholders, in the application itself.
GuiTrust(g) ==
    /\ caller[g] = "idle"
    /\ Invalidate
    /\ gui' = "current"
    /\ cli' = [c \in Clis |-> Outdated(c)]
    /\ caller' = [caller EXCEPT ![g] = "dirty"]
    /\ UNCHANGED <<workerVars, restarts, owed>>

GuiList(g, f) ==
    /\ caller[g] = "idle"
    /\ meta' = Listed(f)
    /\ \E r \in Rows : r[1] = f /\ Listed(f)[r] = "none"
    /\ caller' = [caller EXCEPT ![g] = "dirty"]
    /\ UNCHANGED <<trustVars, workerVars, restarts, owed, failed>>

\* get_message writes the metadata of the mail it opens.
GuiOpen(r) ==
    /\ r \notin Broken
    /\ meta' = [meta EXCEPT ![r] = gui]
    /\ UNCHANGED <<trustVars, workerVars, caller, restarts, owed, failed>>

\* The same in a CLI process, which holds the contacts it has read when it
\* started and can wake nobody.
CliStart(c) ==
    /\ cli[c] = "off"
    /\ cli' = [cli EXCEPT ![c] = "current"]
    /\ UNCHANGED <<meta, gui, workerVars, caller, restarts, owed, failed>>

CliEnds(c) == cli[c] # "off" /\ cli' = [cli EXCEPT ![c] = "off"]

CliTrust(c) ==
    /\ cli[c] # "off"
    /\ Invalidate
    /\ gui' = "old"
    /\ cli' = [d \in Clis |-> IF d = c THEN "off" ELSE Outdated(d)]
    /\ UNCHANGED <<workerVars, caller, restarts, owed>>

CliList(c, f) ==
    /\ CliEnds(c)
    /\ meta' = Listed(f)
    /\ UNCHANGED <<gui, workerVars, caller, restarts, owed, failed>>

CliOpen(c, r) ==
    /\ CliEnds(c)
    /\ r \notin Broken
    /\ meta' = [meta EXCEPT ![r] = cli[c]]
    /\ UNCHANGED <<gui, workerVars, caller, restarts, owed, failed>>

\* The application ends or crashes and is started again: setup wakes the worker.
Restart(g) ==
    /\ restarts < MaxRestarts
    /\ restarts' = restarts + 1
    /\ gui' = "current"
    /\ dirty' = FALSE /\ running' = FALSE
    /\ step' = [w \in Workers |-> "off"]
    /\ task' = [w \in Workers |-> NoTask]
    /\ caller' = [h \in Callers |-> IF h = g THEN "dirty" ELSE "idle"]
    /\ UNCHANGED <<meta, cli, owed, failed>>

(***************************************************************************)
(* The specification.                                                      *)
(***************************************************************************)
MetaInit ==
    /\ meta \in [Rows -> {"none", "garbled"}]
    /\ gui = "current"
    /\ cli = [c \in Clis |-> "off"]
    /\ dirty = FALSE /\ running = FALSE
    /\ step = [w \in Workers |-> "off"]
    /\ task = [w \in Workers |-> NoTask]
    /\ \E g \in Callers : caller = [h \in Callers |-> IF h = g THEN "dirty" ELSE "idle"]
    /\ restarts = 0
    /\ owed = FALSE /\ failed = FALSE

Work(w) ==
    \/ ClearDirty(w) \/ ReadTargets(w) \/ FillBatch(w) \/ FolderDone(w) \/ FolderFails(w)
    \/ SwapDirty(w) \/ Stop(w) \/ Recheck(w) \/ Retake(w)

Wake(g) == MarkDirty(g) \/ Spawn(g)

Command ==
    \/ \E g \in Callers : GuiTrust(g) \/ Restart(g) \/ \E f \in Folders : GuiList(g, f)
    \/ \E r \in Rows : GuiOpen(r)
    \/ \E c \in Clis :
        \/ CliStart(c) \/ CliTrust(c)
        \/ \E f \in Folders : CliList(c, f)
        \/ \E r \in Rows : CliOpen(c, r)

MetaNext ==
    \/ \E w \in Workers : Work(w)
    \/ \E g \in Callers : Wake(g)
    \/ Command

MetaSpec == MetaInit /\ [][MetaNext]_metaVars

\* The operating system schedules the threads of the application.
MetaFairSpec ==
    /\ MetaSpec
    /\ \A w \in Workers : WF_metaVars(Work(w))
    /\ \A g \in Callers : WF_metaVars(Wake(g))

(***************************************************************************)
(* Properties.                                                             *)
(***************************************************************************)
\* The types of the variables.
MetaTypeOK ==
    /\ meta \in [Rows -> {"none", "garbled", "current", "old"}]
    /\ gui \in {"current", "old"}
    /\ cli \in [Clis -> {"off", "current", "old"}]
    /\ dirty \in BOOLEAN /\ running \in BOOLEAN
    /\ step \in [Workers -> Steps]
    /\ task \in [Workers -> [todo : Seq(Folders), cursor : Nat]]
    /\ \A w \in Workers : step[w] = "batch" => task[w].todo # <<>>
    /\ caller \in [Callers -> {"idle", "dirty", "cas"}]
    /\ restarts \in 0 .. MaxRestarts
    /\ owed \in BOOLEAN /\ failed \in BOOLEAN

\* At most one worker scans, and RUNNING says whether there is one, although a
\* worker that stops may take RUNNING back from under a caller that wants it.
Scanning == {"clear", "targets", "batch", "swap", "stop"}
OneScanner ==
    /\ \A v, w \in Workers : (step[v] \in Scanning /\ step[w] \in Scanning) => v = w
    /\ running <=> \E w \in Workers : step[w] \in Scanning

\* No request of spawn_meta_backfill is lost: as long as one waits, the flags and the
\* threads are in a state from which a scan begins.  The delicate case is the worker
\* that has seen DIRTY cleared and resets RUNNING while a caller sets the one and finds
\* the other set.
NoLostWakeup ==
    owed =>
        \/ \E g \in Callers : caller[g] = "dirty"
        \/ \E w \in Workers : step[w] \in {"clear", "targets"}
        \/ /\ dirty
           /\ \/ running
              \/ \E g \in Callers : caller[g] = "cas"
              \/ \E w \in Workers : step[w] \in {"recheck", "retake"}

\* lib.rs:46-48: once a backfill was asked for, every row without metadata that
\* can be parsed gets it, although rows are cleared behind the worker's cursor
\* and the application is restarted; only a failing database excuses it.
FillsAfterRequest ==
    \A r \in Rows \ Broken :
        (owed /\ meta[r] = "none") ~> (meta[r] \notin {"none", "garbled"} \/ failed)

\* core.rs:310-311 "可信联系人变化后，列表里缓存的 trust 标记需按新规则重算：清空持久化的
\* 元信息缓存与内存缓存，下次读取会用最新信任关系重新解析" (after a change of the
\* trusted contacts the cached trust marks are recomputed by the new rules).
FreshTrust == failed \/ \A r \in Rows : meta[r] # "old"
=============================================================================
