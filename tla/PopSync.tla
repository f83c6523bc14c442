------------------------------- MODULE PopSync -------------------------------
(***************************************************************************)
(* A POP3 account: the maildrop on the server, the rows of mail.db and the *)
(* commands that keep the two in step, each run by a process of its own.   *)
(*                                                                         *)
(*   "sync"   core::sync_messages        "older"  core::sync_older_messages*)
(*   "move"   core::move_message, archive_message and delete_message to    *)
(*            the trash: one UPDATE of the row                             *)
(*   "purge"  core::delete_message for good                                *)
(*   "rmdir"  core::delete_folder                                          *)
(*                                                                         *)
(* A mail is named by its UIDL, here its place in the order of arrival.    *)
(* The server knows no folders: a folder is a column of the row, and a row *)
(* is found by its folder and a number that pop_state gives out.  Every    *)
(* sync fetches from the one maildrop into INBOX, whatever folder it was   *)
(* asked for; the lock it takes is that folder's.                          *)
(***************************************************************************)
EXTENDS Naturals, FiniteSets

CONSTANTS
    Procs,          \* processes that may run at the same time
    NoProc,         \* nobody holds a lock
    MaxMail,        \* bound: the mails are 1 .. MaxMail
    MaxNum,         \* bound: the numbers of pop_state are 1 .. MaxNum
    Inbox, Trash, Local,    \* the folders; Local is one the user created
    SyncFolders,    \* the folders a sync is asked for
    InitialWindow,  \* db::INITIAL_WINDOW
    OlderWindow,    \* db::OLDER_WINDOW
    Filtered,       \* mails an enabled rule files into Local
    Commands,       \* the commands this instance explores
    Events,         \* what happens on the server and on the wire
    AbortAt         \* the steps before which a process may fail or crash

AllCommands == {"sync", "older", "move", "purge", "rmdir"}
AllEvents == {"deliver", "expire", "retr", "quit"}
Folders == {Inbox, Trash, Local}
Mails == 1 .. MaxMail
Nums == 1 .. MaxNum

ASSUME PopAssumption ==
    /\ NoProc \notin Procs
    /\ MaxMail \in Nat /\ MaxNum \in Nat
    /\ InitialWindow \in Nat /\ OlderWindow \in Nat
    /\ Inbox # Trash /\ Inbox # Local /\ Trash # Local
    /\ SyncFolders \subseteq Folders /\ Filtered \subseteq Mails

VARIABLES
    maildrop,   \* the mails on the server
    arrived,    \* how many mails have ever arrived
    rows,       \* the messages table: the mail of each row, 0 for no row
    nextNum,    \* pop_state.next_uid
    locks,      \* who holds the lock of each folder
    pc,         \* the statement each process is about to run
    mem,        \* the local variables of each process
    purged,     \* observed: mails whose deletion for good was reported done
    quiet       \* observed: processes during whose run nobody else acted and
                \* no RETR failed

vars == <<maildrop, arrived, rows, nextNum, locks, pc, mem, purged, quiet>>
Keys == Folders \X Nums
serverVars == <<maildrop, arrived>>
dbVars == <<rows, nextNum>>

NoMem == [cmd |-> "none", folder |-> Inbox, known |-> {}, all |-> {}, todo |-> {},
          cur |-> 0, placed |-> [m \in Mails |-> 0], gone |-> {}]
Labels == {"idle", "known", "fetch", "number", "bump", "upsert", "rows", "delete",
           "organize", "uidl", "dele", "purgeRow", "finish"}

(***************************************************************************)
(* Reading the table.                                                      *)
(***************************************************************************)
Used == {k \in Keys : rows[k] # 0}
Stored == {rows[k] : k \in Used}

\* pop3_inbox_rows_gone_from_server; as a mutant without its test of the folder.
GoneAnywhere(all) == {k \in Used : rows[k] \notin all}
Gone(all) == {k \in Used : k[1] = Inbox /\ rows[k] \notin all}

\* The n mails of S that come last in the maildrop.
Last(S, n) == {u \in S : Cardinality({v \in S : u <= v}) <= n}
IsFirst(m, S) == m \in S /\ \A v \in S : m <= v

(***************************************************************************)
(* The server.                                                             *)
(***************************************************************************)
Deliver ==
    /\ "deliver" \in Events
    /\ arrived < MaxMail
    /\ arrived' = arrived + 1
    /\ maildrop' = maildrop \cup {arrived + 1}
    /\ quiet' = {}
    /\ UNCHANGED <<dbVars, locks, pc, mem, purged>>

\* Another client, or the provider, removes a mail.
Expire(m) ==
    /\ "expire" \in Events
    /\ m \in maildrop
    /\ maildrop' = maildrop \ {m}
    /\ quiet' = {}
    /\ UNCHANGED <<arrived, dbVars, locks, pc, mem, purged>>

(***************************************************************************)
(* A sync, and a backfill of older mail.                                   *)
(***************************************************************************)
At(p, label) == pc[p] = label

Goto(p, label, m) ==
    /\ pc' = [pc EXCEPT ![p] = label]
    /\ mem' = [mem EXCEPT ![p] = m]

End(p) ==
    /\ Goto(p, "idle", NoMem)
    /\ locks' = [f \in Folders |-> IF locks[f] = p THEN NoProc ELSE locks[f]]

Reading(p) == UNCHANGED <<serverVars, dbVars, locks, purged, quiet>>
Writing(p) == UNCHANGED <<serverVars, locks, purged>> /\ quiet' = quiet \cap {p}

\* A contended lock ends the command at once, so only the success is a step.
Acquire(p, cmd, f) ==
    /\ cmd \in Commands \cap {"sync", "older"}
    /\ At(p, "idle")
    /\ locks[f] = NoProc
    /\ locks' = [locks EXCEPT ![f] = p]
    /\ Goto(p, "known", [NoMem EXCEPT !.cmd = cmd, !.folder = f])
    /\ quiet' = quiet \cup {p}
    /\ UNCHANGED <<serverVars, dbVars, purged>>

ReadKnown(p) ==
    /\ At(p, "known")
    /\ Goto(p, "fetch", [mem[p] EXCEPT !.known = Stored])
    /\ Reading(p)

\* Mutant: a sync never fetches more than the last window.
WantedAlwaysWindow(p, unknown) ==
    Last(unknown, IF mem[p].cmd = "older" THEN OlderWindow ELSE InitialWindow)

Wanted(p, unknown) ==
    IF mem[p].cmd = "older" THEN Last(unknown, OlderWindow)
    ELSE IF mem[p].known = {} THEN Last(unknown, InitialWindow)
    ELSE unknown

\* UIDL, then RETR of each wanted mail in one session, which sees the maildrop
\* as it was when it began; a RETR that fails is skipped.
Fetch(p) ==
    /\ At(p, "fetch")
    /\ LET wanted == Wanted(p, maildrop \ mem[p].known)
       IN  \E got \in SUBSET wanted :
              /\ "retr" \notin Events => got = wanted
              /\ Goto(p, "number", [mem[p] EXCEPT !.all = maildrop, !.todo = got])
              /\ quiet' = IF got = wanted THEN quiet ELSE quiet \ {p}
    /\ UNCHANGED <<serverVars, dbVars, locks, purged>>

\* pop_next_uid is a SELECT and a REPLACE, not one transaction.
ReadNumber(p) ==
    /\ At(p, "number") /\ mem[p].todo # {}
    /\ nextNum <= MaxNum
    /\ Goto(p, "bump", [mem[p] EXCEPT !.cur = nextNum])
    /\ Reading(p)

\* The bound on the numbers: a command that needs one more fails.
OutOfNumbers(p) ==
    /\ At(p, "number") /\ mem[p].todo # {}
    /\ nextNum > MaxNum
    /\ End(p)
    /\ quiet' = quiet \ {p}
    /\ UNCHANGED <<serverVars, dbVars, purged>>

\* Mutant: the counter is not advanced.
BumpForgotten(p) ==
    /\ At(p, "bump")
    /\ Goto(p, "upsert", mem[p])
    /\ UNCHANGED dbVars /\ Writing(p)

BumpNumber(p) ==
    /\ At(p, "bump")
    /\ nextNum' = mem[p].cur + 1
    /\ Goto(p, "upsert", mem[p])
    /\ UNCHANGED rows /\ Writing(p)

InsertRow(p) ==
    /\ At(p, "upsert")
    /\ \E m \in mem[p].todo :
        /\ IsFirst(m, mem[p].todo)
        /\ rows' = [rows EXCEPT ![<<Inbox, mem[p].cur>>] = m]
        /\ Goto(p, "number", [mem[p] EXCEPT !.todo = @ \ {m},
                                            !.placed[m] = mem[p].cur])
    /\ UNCHANGED nextNum /\ Writing(p)

InsertDone(p) ==
    /\ At(p, "number") /\ mem[p].todo = {}
    /\ Goto(p, IF mem[p].cmd = "sync" THEN "rows" ELSE "finish", mem[p])
    /\ Reading(p)

ReadRows(p) ==
    /\ At(p, "rows")
    /\ Goto(p, "delete", [mem[p] EXCEPT !.gone = Gone(mem[p].all)])
    /\ Reading(p)

DeleteGone(p) ==
    /\ At(p, "delete")
    /\ \E k \in mem[p].gone :
        /\ rows' = [rows EXCEPT ![k] = 0]
        /\ Goto(p, "delete", [mem[p] EXCEPT !.gone = @ \ {k}])
    /\ UNCHANGED nextNum /\ Writing(p)

\* plan_moves: of the mails of this sync, those that a rule files.
DeleteDone(p) ==
    /\ At(p, "delete") /\ mem[p].gone = {}
    /\ Goto(p, "organize",
            [mem[p] EXCEPT !.todo = {m \in Filtered : mem[p].placed[m] # 0}])
    /\ Reading(p)

\* set_folder: one UPDATE, which finds no row or fails when the key is taken.
Refile(from, to, n) ==
    IF rows[<<from, n>>] = 0 THEN rows
    ELSE [rows EXCEPT ![<<to, n>>] = rows[<<from, n>>], ![<<from, n>>] = 0]
Refilable(from, to, n) == rows[<<from, n>>] # 0 => rows[<<to, n>>] = 0

Organize(p) ==
    /\ At(p, "organize")
    /\ \E m \in mem[p].todo :
        LET n == mem[p].placed[m]
        IN  /\ Refilable(Inbox, Local, n)
            /\ rows' = Refile(Inbox, Local, n)
            /\ Goto(p, "organize", [mem[p] EXCEPT !.todo = @ \ {m}])
    /\ UNCHANGED nextNum /\ Writing(p)

OrganizeDone(p) ==
    /\ At(p, "organize") /\ mem[p].todo = {}
    /\ Goto(p, "finish", mem[p])
    /\ Reading(p)

Finish(p) ==
    /\ At(p, "finish")
    /\ End(p)
    /\ quiet' = quiet \ {p}
    /\ UNCHANGED <<serverVars, dbVars, purged>>

(***************************************************************************)
(* The user's commands, which take no lock.                                *)
(***************************************************************************)
Move(p, k, to) ==
    /\ "move" \in Commands
    /\ At(p, "idle") /\ k \in Used /\ to # k[1]
    /\ Refilable(k[1], to, k[2])
    /\ rows' = Refile(k[1], to, k[2])
    /\ quiet' = {}
    /\ UNCHANGED <<serverVars, nextNum, locks, pc, mem, purged>>

DeleteFolder(p) ==
    /\ "rmdir" \in Commands
    /\ At(p, "idle")
    /\ \E n \in Nums : rows[<<Local, n>>] # 0
    /\ rows' = [k \in Keys |-> IF k[1] = Local THEN 0 ELSE rows[k]]
    /\ quiet' = {}
    /\ UNCHANGED <<serverVars, nextNum, locks, pc, mem, purged>>

PurgeStart(p, k) ==
    /\ "purge" \in Commands
    /\ At(p, "idle") /\ k \in Used
    /\ Goto(p, "uidl", [NoMem EXCEPT !.cmd = "purge", !.gone = {k}])
    /\ quiet' = {}
    /\ UNCHANGED <<serverVars, dbVars, locks, purged>>

\* Mutant: a row that is gone is not an error.
ReadUidlUnchecked(p) ==
    /\ At(p, "uidl")
    /\ \E k \in mem[p].gone : Goto(p, "dele", [mem[p] EXCEPT !.todo = {rows[k]}])
    /\ Reading(p)

ReadUidl(p) ==
    /\ At(p, "uidl")
    /\ \E k \in mem[p].gone :
        Goto(p, IF rows[k] = 0 THEN "finish" ELSE "dele",
             [mem[p] EXCEPT !.todo = {rows[k]} \ {0}])
    /\ Reading(p)

\* Mutant: the row goes although the server refused the deletion.
PurgeOnServerIgnoringErrors(p) ==
    /\ At(p, "dele")
    /\ maildrop' \in {maildrop, maildrop \ mem[p].todo}
    /\ Goto(p, "purgeRow", mem[p])
    /\ quiet' = {}
    /\ UNCHANGED <<arrived, dbVars, locks, purged>>

\* DELE marks the mail and QUIT commits; the outcome of QUIT is not looked at.
\* A mail that is not on the server is an error.
PurgeOnServer(p) ==
    /\ At(p, "dele")
    /\ \/ /\ mem[p].todo \subseteq maildrop
          /\ maildrop' \in {maildrop \ mem[p].todo}
                             \cup (IF "quit" \in Events THEN {maildrop} ELSE {})
          /\ Goto(p, "purgeRow", mem[p])
       \/ /\ ~ mem[p].todo \subseteq maildrop
          /\ maildrop' = maildrop
          /\ Goto(p, "finish", mem[p])
    /\ quiet' = {}
    /\ UNCHANGED <<arrived, dbVars, locks, purged>>

PurgeRow(p) ==
    /\ At(p, "purgeRow")
    /\ \E k \in mem[p].gone : rows' = [rows EXCEPT ![k] = 0]
    /\ purged' = purged \cup mem[p].todo
    /\ Goto(p, "finish", mem[p])
    /\ quiet' = {}
    /\ UNCHANGED <<serverVars, nextNum, locks>>

(***************************************************************************)
(* A failing step returns its error, a crash ends the process; either way  *)
(* the lock goes and the database keeps what was written.                  *)
(***************************************************************************)
Abort(p) ==
    /\ pc[p] \in AbortAt \ {"idle"}
    /\ End(p)
    /\ quiet' = quiet \ {p}
    /\ UNCHANGED <<serverVars, dbVars, purged>>

Init ==
    /\ arrived \in 0 .. MaxMail
    /\ maildrop = 1 .. arrived
    /\ rows = [k \in Keys |-> 0]
    /\ nextNum = 1
    /\ locks = [f \in Folders |-> NoProc]
    /\ pc = [p \in Procs |-> "idle"]
    /\ mem = [p \in Procs |-> NoMem]
    /\ purged = {}
    /\ quiet = {}

ServerStep == Deliver \/ \E m \in Mails : Expire(m)

Start(p) ==
    \/ \E cmd \in {"sync", "older"}, f \in SyncFolders : Acquire(p, cmd, f)
    \/ \E k \in Keys, to \in Folders : Move(p, k, to)
    \/ DeleteFolder(p)
    \/ \E k \in Keys : PurgeStart(p, k)

Insertion(p) == ReadNumber(p) \/ BumpNumber(p) \/ InsertRow(p) \/ InsertDone(p)
Deletion(p) == ReadRows(p) \/ DeleteGone(p) \/ DeleteDone(p)
SyncStep(p) == ReadKnown(p) \/ Fetch(p) \/ Insertion(p) \/ Deletion(p)
                  \/ Organize(p) \/ OrganizeDone(p)
PurgeStep(p) == ReadUidl(p) \/ PurgeOnServer(p) \/ PurgeRow(p)
Run(p) == SyncStep(p) \/ PurgeStep(p) \/ Finish(p) \/ OutOfNumbers(p)

Next == ServerStep \/ \E p \in Procs : Start(p) \/ Run(p) \/ Abort(p)

Spec == Init /\ [][Next]_vars

(***************************************************************************)
(* Properties.                                                             *)
(***************************************************************************)
ProcMem == [cmd : AllCommands \cup {"none"}, folder : Folders, known : SUBSET Mails,
            all : SUBSET Mails, todo : SUBSET Mails, cur : 0 .. MaxNum,
            placed : [Mails -> 0 .. MaxNum], gone : SUBSET Keys]

\* The types of the variables.
TypeOK ==
    /\ maildrop \in SUBSET Mails
    /\ arrived \in 0 .. MaxMail
    /\ rows \in [Keys -> 0 .. MaxMail]
    /\ nextNum \in 1 .. MaxNum + 1
    /\ locks \in [Folders -> Procs \cup {NoProc}]
    /\ pc \in [Procs -> Labels]
    /\ mem \in [Procs -> ProcMem]
    /\ purged \in SUBSET Mails
    /\ quiet \in SUBSET Procs

\* No mail has two rows, and no number names two rows, whichever folder they
\* are in: a row that is filed elsewhere keeps its number, and the views and the
\* cache of the program know a mail by it.
Distinct ==
    \A k, l \in Used : (rows[k] = rows[l] \/ k[2] = l[2]) => k = l

ForgetsOnlyLost ==
    \A p \in Procs : SyncStep(p) =>
        \A k \in Used : rows[k] \notin Stored' => k[1] = Inbox /\ rows[k] \notin maildrop

\* core.rs:20-21: a sync only ever forgets a mail that it has in INBOX and that
\* the server has lost, although it decides on a UIDL list that is some steps
\* old; what the user filed away stays.
SyncForgetsOnlyLost == [][ForgetsOnlyLost]_vars

StaysAway == \A m \in purged : m \notin Stored => m \notin Stored'

\* A mail that was deleted for good, and reported so, never comes back, as long
\* as QUIT succeeds ("quit" \notin Events) and no folder is deleted meanwhile
\* ("rmdir" \notin Commands).
NoResurrection == [][StaysAway]_vars

\* After a sync during which nobody else acted and every RETR succeeded, INBOX
\* holds no mail the server lost, no mail of this sync that a rule files, and
\* the database has every mail on the server; of an account that was empty, the
\* last window.
SyncComplete ==
    \A p \in quiet :
        (At(p, "finish") /\ mem[p].cmd = "sync") =>
            /\ Gone(maildrop) = {}
            /\ \A k \in Used : (k[1] = Inbox /\ rows[k] \in Filtered)
                                 => mem[p].placed[rows[k]] = 0
            /\ IF mem[p].known = {} THEN Last(maildrop, InitialWindow) \subseteq Stored
               ELSE maildrop \subseteq Stored
=============================================================================
