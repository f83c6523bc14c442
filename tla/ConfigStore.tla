----------------------------- MODULE ConfigStore -----------------------------
(***************************************************************************)
(* The configuration directory: one JSON file per table, read as a whole   *)
(* when a process starts and written as a whole by each command that       *)
(* changes it.  Every command of the window or of a terminal is a CLI      *)
(* process of its own; the window's process keeps the tables it has read   *)
(* and reads some of them again after a command of its own.                *)
(*                                                                         *)
(* A table is a sequence of rows [id, v]; the preferences are a table with *)
(* a row per preference.  What a file holds when it is damaged (not JSON,  *)
(* or empty) are the rows it had.                                          *)
(***************************************************************************)
EXTENDS Integers, Sequences, SequencesExt, FiniteSets

CONSTANTS
    Clis,          \* CLI processes that may run at a time
    Files,          \* the tables, in the order they are read
    Hard,           \* those that a process does not start without
    Locked,         \* those that are changed under accounts.lock
    Commands,       \* [file, op, id, v, window]: id New asks for a new row; window says
                    \* that the window has run it, and not a terminal
    New, NoCli,
    MaxRuns, MaxDamage      \* bounds: commands, damaged files

VARIABLES
    disk,           \* per file: [st, rows], st is "none", "ok" or "torn"
    backups,        \* what was renamed to *.corrupt: [file, rows]
    accountsLock,   \* who holds accounts.lock
    procs,          \* the CLI processes
    gui,            \* the tables in the memory of the window's process
    runs, damages,  \* bounds
    abs,            \* history: the tables as if commands ran one by one
    live,           \* history: rows that nobody has replaced or removed
    raced,          \* history: files written from a copy that was not the latest
    damaged,        \* history: files that were damaged
    unsaved,        \* history: files of which a damaged copy could not be renamed
    behind          \* history: files changed by a command the window is not told of

diskVars == <<disk, backups>>
history == <<abs, live, raced, damaged, unsaved, behind>>
configVars == <<diskVars, accountsLock, procs, gui, runs, damages, history>>

Tables == ToSet(Files)

ASSUME ConfigAssumption ==
    /\ Files \in Seq(STRING) /\ IsInjective(Files)
    /\ {"prefs", "accounts", "filters"} \subseteq Tables
    /\ NoCli \notin Clis
    /\ \A cmd \in Commands : cmd.file \in Tables
    /\ MaxRuns \in Nat /\ MaxDamage \in Nat

\* A process: what it does, the file it reads next, the table of its command as it has
\* read it, and whether the file has been written since.
Gone == [pc |-> "gone", cmd |-> NoCli, next |-> 1, run |-> 0,
         mem |-> <<>>, old |-> FALSE]

ConfigInit ==
    /\ disk = [f \in Tables |-> [st |-> "none", rows |-> <<>>]]
    /\ backups = {} /\ accountsLock = NoCli
    /\ procs = [p \in Clis |-> Gone]
    /\ gui = [f \in Tables |-> <<>>]
    /\ runs = 0 /\ damages = 0
    /\ abs = [f \in Tables |-> <<>>] /\ live = [f \in Tables |-> {}]
    /\ raced = {} /\ damaged = {} /\ unsaved = {} /\ behind = {}

-----------------------------------------------------------------------------
(* Commands.                                                               *)

\* retain: the rows of the other ids, in their order.
WithoutRow(table, id) ==
    LET kept[n \in 0 .. Len(table)] ==
            IF n = 0 THEN <<>>
            ELSE IF table[n].id = id THEN kept[n - 1] ELSE Append(kept[n - 1], table[n])
    IN  kept[Len(table)]

\* Mutant: a row that is changed moves to the end.
InPlaceMoved(table, row) == Append(WithoutRow(table, row.id), row)

\* The row stays where it is, or comes last.
InPlace(table, row) ==
    IF \E i \in DOMAIN table : table[i].id = row.id
    THEN [i \in DOMAIN table |-> IF table[i].id = row.id THEN row ELSE table[i]]
    ELSE Append(table, row)

\* save_filter: a new rule that says what a rule of the table says is that rule.
RuleId(table, cmd, fresh) ==
    IF cmd.id # New THEN cmd.id
    ELSE IF \E i \in DOMAIN table : table[i].v = cmd.v
    THEN table[CHOOSE i \in DOMAIN table :
                 table[i].v = cmd.v /\ \A j \in 1 .. i - 1 : table[j].v # cmd.v].id
    ELSE fresh

\* save_filter, delete_filter; save_draft, delete_draft, trust_sender, remove_trusted,
\* save_account, remove_account; the preferences.
Apply(table, cmd, fresh) ==
    IF cmd.op = "remove" THEN WithoutRow(table, cmd.id)
    ELSE IF cmd.file = "filters" THEN InPlace(table, [id |-> RuleId(table, cmd, fresh), v |-> cmd.v])
    ELSE IF cmd.file = "prefs" THEN InPlace(table, [id |-> cmd.id, v |-> cmd.v])
    ELSE Append(WithoutRow(table, cmd.id), [id |-> cmd.id, v |-> cmd.v])

-----------------------------------------------------------------------------
(* A CLI process: it reads every file, runs its command and writes the     *)
(* file of the command.                                                    *)

Start(p, cmd) ==
    /\ procs[p].pc = "gone" /\ runs < MaxRuns
    /\ runs' = runs + 1
    /\ procs' = [procs EXCEPT ![p] = [Gone EXCEPT !.pc = "load", !.cmd = cmd,
                                                  !.run = runs + 1]]
    /\ UNCHANGED <<diskVars, accountsLock, gui, damages, history>>

\* The file that is being read: in turn at the start, then the file of the command.
Reading(p) == IF procs[p].pc = "load" THEN Files[procs[p].next] ELSE procs[p].cmd.file

\* A process q has read the rows of f.
Read(q, f, rows) == IF f = q.cmd.file THEN [q EXCEPT !.mem = rows, !.old = FALSE] ELSE q
AfterLoad(q) == IF q.next = Len(Files) THEN [q EXCEPT !.pc = "ready"] ELSE [q EXCEPT !.next = @ + 1]

\* read_json: there is no file yet, or it is good.
ReadTable(p) ==
    /\ procs[p].pc = "load" /\ disk[Reading(p)].st # "torn"
    /\ procs' = [procs EXCEPT ![p] = AfterLoad(Read(@, Reading(p), disk[Reading(p)].rows))]
    /\ UNCHANGED <<diskVars, accountsLock, gui, runs, damages, history>>

\* read_json: it is not good.  What is at its path some time later is renamed.
ReadDamaged(p) ==
    /\ procs[p].pc \in {"load", "locked", "refresh"} /\ disk[Reading(p)].st = "torn"
    /\ procs' = [procs EXCEPT ![p].pc = CASE procs[p].pc = "load"   -> "loadTorn"
                                          [] procs[p].pc = "locked" -> "lockedTorn"
                                          [] OTHER                  -> "refreshTorn",
                              ![p].old = @ /\ Reading(p) # procs[p].cmd.file]
    /\ UNCHANGED <<diskVars, accountsLock, gui, runs, damages, history>>

Torn(p) == procs[p].pc \in {"loadTorn", "lockedTorn", "refreshTorn"}
TornFile(p) == IF procs[p].pc = "loadTorn" THEN Files[procs[p].next] ELSE procs[p].cmd.file

EndCli(p) ==
    /\ procs' = [procs EXCEPT ![p] = Gone]
    /\ accountsLock' = IF accountsLock = p THEN NoCli ELSE accountsLock

\* Mutant: a process starts with an empty table whichever file is damaged.
BackUpAlwaysRecovers(p, renamed) ==
    /\ Torn(p)
    /\ LET f == TornFile(p)
       IN  /\ renamed => disk[f].st # "none"
           /\ backups' = IF renamed THEN backups \cup {[file |-> f, rows |-> disk[f].rows]}
                         ELSE backups
           /\ disk' = IF renamed THEN [disk EXCEPT ![f] = [st |-> "none", rows |-> <<>>]] ELSE disk
           /\ unsaved' = IF ~renamed /\ disk[f].st = "torn" THEN unsaved \cup {f} ELSE unsaved
           /\ IF procs[p].pc = "loadTorn"
              THEN /\ procs' = [procs EXCEPT ![p] = AfterLoad([@ EXCEPT !.pc = "load"])]
                   /\ accountsLock' = accountsLock
              ELSE EndCli(p)
    /\ UNCHANGED <<gui, runs, damages, abs, live, raced, damaged, behind>>

\* read_json_recoverable starts with an empty table, read_json with none at all.
BackUp(p, renamed) ==
    /\ Torn(p)
    /\ LET f == TornFile(p)
       IN  /\ renamed => disk[f].st # "none"
           /\ backups' = IF renamed THEN backups \cup {[file |-> f, rows |-> disk[f].rows]}
                         ELSE backups
           /\ disk' = IF renamed THEN [disk EXCEPT ![f] = [st |-> "none", rows |-> <<>>]] ELSE disk
           /\ unsaved' = IF ~renamed /\ disk[f].st = "torn" THEN unsaved \cup {f} ELSE unsaved
           /\ IF procs[p].pc = "loadTorn" /\ f \notin Hard
              THEN /\ procs' = [procs EXCEPT ![p] = AfterLoad([@ EXCEPT !.pc = "load"])]
                   /\ accountsLock' = accountsLock
              ELSE EndCli(p)
    /\ UNCHANGED <<gui, runs, damages, abs, live, raced, damaged, behind>>

\* update_accounts_with, lock_exclusive_bounded: wait for the lock, but not for ever.
Lock(p) ==
    /\ procs[p].pc = "ready" /\ procs[p].cmd.file \in Locked
    /\ accountsLock = NoCli
    /\ accountsLock' = p
    /\ procs' = [procs EXCEPT ![p].pc = "locked"]
    /\ UNCHANGED <<diskVars, gui, runs, damages, history>>

LockBusy(p) ==
    /\ procs[p].pc = "ready" /\ procs[p].cmd.file \in Locked
    /\ accountsLock # NoCli
    /\ EndCli(p)
    /\ UNCHANGED <<diskVars, gui, runs, damages, history>>

\* Mutant: the table is the one that was read before the lock was taken.
ReadLatestSkipped(p) ==
    /\ procs[p].pc = "locked" /\ disk[Reading(p)].st # "torn"
    /\ procs' = [procs EXCEPT ![p].pc = "latest"]
    /\ UNCHANGED <<diskVars, accountsLock, gui, runs, damages, history>>

ReadLatest(p) ==
    /\ procs[p].pc = "locked" /\ disk[Reading(p)].st # "torn"
    /\ procs' = [procs EXCEPT ![p] = [Read(@, Reading(p), disk[Reading(p)].rows) EXCEPT !.pc = "latest"]]
    /\ UNCHANGED <<diskVars, accountsLock, gui, runs, damages, history>>

\* atomic_write_bytes: the rename of the finished temporary file, whose name no other
\* process uses.
Commit(p) ==
    /\ \/ procs[p].pc = "latest"
       \/ procs[p].pc = "ready" /\ procs[p].cmd.file \notin Locked
    /\ LET q == procs[p]
           f == q.cmd.file
           table == Apply(q.mem, q.cmd, q.run)
       IN  /\ disk' = [disk EXCEPT ![f] = [st |-> "ok", rows |-> table]]
           /\ abs' = [abs EXCEPT ![f] = Apply(@, q.cmd, q.run)]
           /\ live' = [live EXCEPT ![f] = (@ \ ToSet(q.mem)) \cup ToSet(table)]
           /\ raced' = IF q.old THEN raced \cup {f} ELSE raced
           /\ behind' = IF q.cmd.window THEN behind ELSE behind \cup {f}
           /\ procs' = [r \in Clis |->
                IF r = p THEN [q EXCEPT !.pc = IF f = "accounts" THEN "secrets" ELSE "done",
                                        !.mem = <<>>, !.old = FALSE]
                ELSE IF procs[r].pc # "gone" /\ procs[r].cmd.file = f
                THEN [procs[r] EXCEPT !.old = TRUE] ELSE procs[r]]
    /\ accountsLock' = IF accountsLock = p THEN NoCli ELSE accountsLock
    /\ UNCHANGED <<backups, gui, runs, damages, damaged, unsaved>>

\* save_account, remove_account: the credentials come after the table, and may fail.
SaveSecret(p, ok) ==
    /\ procs[p].pc = "secrets"
    /\ IF ok THEN /\ procs' = [procs EXCEPT ![p].pc = "done"]
                  /\ UNCHANGED behind
       ELSE /\ procs' = [procs EXCEPT ![p] = Gone]
            /\ behind' = behind \cup {"accounts"}
    /\ UNCHANGED <<diskVars, accountsLock, gui, runs, damages, abs, live, raced, damaged, unsaved>>

\* The process is killed, or cannot write: the file is as it was.
Die(p) ==
    /\ procs[p].pc \in {"load", "loadTorn", "ready", "locked", "lockedTorn", "latest"}
    /\ EndCli(p)
    /\ UNCHANGED <<diskVars, gui, runs, damages, history>>

-----------------------------------------------------------------------------
(* The window's process, when its command has succeeded.                   *)

\* Mutant: only preferences are read again.
FinishPrefsOnly(p) ==
    /\ procs[p].pc = "done"
    /\ procs' = [procs EXCEPT ![p] =
                    IF @.cmd.window /\ @.cmd.file = "prefs" THEN [@ EXCEPT !.pc = "refresh"] ELSE Gone]
    /\ UNCHANGED <<diskVars, accountsLock, gui, runs, damages, history>>

\* cli_json: preferences and accounts are read again, the other tables are not.
Finish(p) ==
    /\ procs[p].pc = "done"
    /\ procs' = [procs EXCEPT ![p] =
                    IF @.cmd.window /\ @.cmd.file \in {"prefs", "accounts"}
                    THEN [@ EXCEPT !.pc = "refresh"] ELSE Gone]
    /\ UNCHANGED <<diskVars, accountsLock, gui, runs, damages, history>>

\* refresh_accounts_in_memory: under the lock of the state.
RefreshAccounts(p) ==
    /\ procs[p].pc = "refresh" /\ procs[p].cmd.file = "accounts"
    /\ disk["accounts"].st # "torn"
    /\ gui' = [gui EXCEPT !["accounts"] = disk["accounts"].rows]
    /\ procs' = [procs EXCEPT ![p] = Gone]
    /\ behind' = behind \ {"accounts"}
    /\ UNCHANGED <<diskVars, accountsLock, runs, damages, abs, live, raced, damaged, unsaved>>

\* refresh_prefs_in_memory: the file is read before the lock is taken.
ReadPrefs(p) ==
    /\ procs[p].pc = "refresh" /\ procs[p].cmd.file = "prefs"
    /\ disk["prefs"].st # "torn"
    /\ procs' = [procs EXCEPT ![p].pc = "assign", ![p].mem = disk["prefs"].rows]
    /\ UNCHANGED <<diskVars, accountsLock, gui, runs, damages, history>>

AssignPrefs(p) ==
    /\ procs[p].pc = "assign"
    /\ gui' = [gui EXCEPT !["prefs"] = procs[p].mem]
    /\ procs' = [procs EXCEPT ![p] = Gone]
    /\ UNCHANGED <<diskVars, accountsLock, runs, damages, history>>

-----------------------------------------------------------------------------
\* A file is damaged from outside.
Damage(f) ==
    /\ damages < MaxDamage /\ disk[f].st = "ok"
    /\ disk' = [disk EXCEPT ![f].st = "torn"]
    /\ damaged' = damaged \cup {f}
    /\ damages' = damages + 1
    /\ UNCHANGED <<backups, accountsLock, procs, gui, runs, abs, live, raced, unsaved, behind>>

\* This instance has no more commands.
NoMoreRuns == runs = MaxRuns /\ (\A p \in Clis : procs[p].pc = "gone") /\ UNCHANGED configVars

Process(p) ==
    \/ \E cmd \in Commands : Start(p, cmd)
    \/ ReadTable(p) \/ ReadDamaged(p)
    \/ \E b \in BOOLEAN : BackUp(p, b) \/ SaveSecret(p, b)
    \/ Lock(p) \/ LockBusy(p) \/ ReadLatest(p) \/ Commit(p) \/ Die(p)
    \/ Finish(p) \/ RefreshAccounts(p) \/ ReadPrefs(p) \/ AssignPrefs(p)

ConfigNext == (\E p \in Clis : Process(p)) \/ (\E f \in Tables : Damage(f)) \/ NoMoreRuns
ConfigSpec == ConfigInit /\ [][ConfigNext]_configVars

-----------------------------------------------------------------------------
(* Properties.                                                             *)

Distinct(table) == \A i, j \in DOMAIN table : table[i].id = table[j].id => i = j

\* A file that is not there is empty, no table has two rows with one id, and only the
\* process that changes a locked file has the lock.
ConfigTypeOK ==
    /\ \A f \in Tables :
        /\ disk[f].st \in {"none", "ok", "torn"}
        /\ disk[f].st = "none" => disk[f].rows = <<>>
        /\ Distinct(disk[f].rows) /\ Distinct(gui[f])
    /\ \A p \in Clis : accountsLock = p <=> procs[p].pc \in {"locked", "lockedTorn", "latest"}
    /\ runs \in 0 .. MaxRuns /\ damages \in 0 .. MaxDamage

\* update_accounts_with (store.rs:184): every change of a locked table takes effect on
\* the latest one, whatever runs at the same time; the other tables are exact as
\* long as no process has written one from an older copy.
TablesExact ==
    \A f \in Tables :
        f \notin damaged /\ (f \in Locked \/ f \notin raced) => disk[f].rows = abs[f]

\* read_json (store.rs:56): a damaged file costs no row.  Every row that nobody has
\* replaced or removed is in the file or in a copy that was put aside, although
\* processes read and rename without a lock; a file that is not recovered from is
\* not overwritten even when the copy fails.
DamageKeepsRows ==
    \A f \in Tables :
        (f \in Locked \/ f \notin raced) /\ (f \in Hard \/ f \notin unsaved) =>
            live[f] \subseteq ToSet(disk[f].rows)
                                \cup UNION {ToSet(b.rows) : b \in {x \in backups : x.file = f}}

\* save_filter (core.rs:268): the first rule that matches wins, so no command changes
\* the order of two rules that stay, as long as no process has written the rules from
\* an older copy.
RulesKeepRank ==
    [][("filters" \in Locked \/ "filters" \notin raced') =>
          \A i, j \in DOMAIN disk["filters"].rows, k, l \in DOMAIN disk'["filters"].rows :
              /\ i < j
              /\ disk'["filters"].rows[k].id = disk["filters"].rows[i].id
              /\ disk'["filters"].rows[l].id = disk["filters"].rows[j].id
              => k < l]_disk

\* No command of the window has changed the file and is still to be reported.
Told(f) ==
    \A p \in Clis : procs[p].pc = "gone" \/ procs[p].cmd.file # f
                        \/ procs[p].pc \in {"load", "loadTorn", "ready", "locked", "lockedTorn", "latest"}
SeenByWindow(f) == f \in damaged \cup behind \/ (Told(f) => gui[f] = disk[f].rows)

\* reload_accounts_and_secrets_from_disk (store.rs:313): when the commands of the window
\* have been reported, it knows the accounts there are, unless a terminal has
\* changed them or the last command failed after it had changed them.
AccountsInWindow == SeenByWindow("accounts")
=============================================================================
