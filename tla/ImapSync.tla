------------------------------ MODULE ImapSync ------------------------------
(***************************************************************************)
(* One IMAP folder and its local cache (mail.db): the commands that fill,  *)
(* refresh and change the cache, each run by a CLI process of its own,     *)
(* next to the server's mailbox, which changes underneath them.            *)
(*                                                                         *)
(*   "sync"   core::sync_messages        "older"  core::sync_older_messages*)
(*   "daily"  core::sync_imap_folder (the test flow, which takes no lock)  *)
(*   "move"   core::move_message, archive_message and delete_message       *)
(*   "read"   core::set_read (set_flagged does the same to another flag)   *)
(*                                                                         *)
(* A message is identified by the pair (UIDVALIDITY, UID): a row stands    *)
(* for the message <<rows[u].epoch, u>>.  The source stores the body and   *)
(* not the epoch; the epoch is the model's name for what the body is.      *)
(* Every statement that reads or writes the database or the server is a    *)
(* step, so the commands interleave wherever the source lets them.         *)
(***************************************************************************)
EXTENDS Naturals, FiniteSets

CONSTANTS
    Procs,          \* CLI processes that may run at the same time
    NoProc,         \* nobody holds the folder's sync lock
    MaxUid,         \* bound: UIDs are 1 .. MaxUid
    MaxEpoch,       \* bound: UIDVALIDITY values are 1 .. MaxEpoch
    InitialWindow,  \* db::INITIAL_WINDOW
    FlagWindow,     \* db::FLAG_SYNC_WINDOW
    OlderWindow,    \* db::OLDER_WINDOW
    Filtered,       \* UIDs whose message an enabled rule moves out of INBOX
    Commands,       \* the commands this instance explores
    Events,         \* what the server does besides receiving mail
    AbortAt         \* the steps before which a process may fail or crash

AllCommands == {"sync", "older", "daily", "move", "read"}
AllEvents == {"expunge", "flag", "newvalidity"}

ASSUME ConstantsAssumption ==
    /\ NoProc \notin Procs
    /\ MaxUid \in Nat
    /\ MaxEpoch \in Nat \ {0}
    /\ InitialWindow \in Nat \ {0}
    /\ FlagWindow \in Nat \ {0}
    /\ OlderWindow \in Nat \ {0}

Uids == 1 .. MaxUid
Epochs == 1 .. MaxEpoch

VARIABLES
    srvEpoch,   \* the server's UIDVALIDITY of the folder
    srv,        \* per UID: "none", or the message's flag, "unread" or "read"
    uidNext,    \* the server's UIDNEXT
    validity,   \* folder_state.uidvalidity, 0 when there is no row
    rows,       \* the messages table: the row of each UID, or NoRow
    lock,       \* who holds the flock of sync_lock.rs
    pc,         \* the statement each process is about to run
    mem,        \* the local variables of each process
    quiet       \* observed: processes during whose run nobody else acted

serverVars == <<srvEpoch, srv, uidNext>>
dbVars == <<validity, rows>>
vars == <<srvEpoch, srv, uidNext, validity, rows, lock, pc, mem, quiet>>

Flag == {"none", "unread", "read"}
Nothing == [u \in Uids |-> "none"]
Row == [epoch : 0 .. MaxEpoch, unread : BOOLEAN]
NoRow == [epoch |-> 0, unread |-> FALSE]
NoMem == [cmd |-> "none", stored |-> 0, known |-> 0, low |-> 1, epoch |-> 0,
          reset |-> FALSE, seen |-> {}, fresh |-> Nothing, scan |-> Nothing,
          todo |-> {}]

Labels == {"idle", "validity", "max", "low", "select", "search", "fetch", "scan",
           "clear", "stamp", "commit", "list", "flags", "organize", "orgMove",
           "orgDelete", "min", "older", "insert", "local", "finish"}

(***************************************************************************)
(* Reading the server and the table.                                       *)
(***************************************************************************)
Present == {u \in Uids : srv[u] # "none"}
Cached == {u \in Uids : rows[u] # NoRow}

\* The n highest UIDs of S: the last n sequence numbers of a mailbox, and
\* ORDER BY uid DESC LIMIT n.
Newest(S, n) == {u \in S : Cardinality({v \in S : u <= v}) <= n}

IsHighest(m, S) == m \in S /\ \A v \in S : v <= m
IsLowest(m, S) == m \in S /\ \A v \in S : m <= v

\* What FETCH returns for a set of UIDs: those still there, with their flag.
Fetched(S) == [u \in Uids |-> IF u \in S THEN srv[u] ELSE "none"]
Has(f) == {u \in Uids : f[u] # "none"}
RowOf(p, u) == [epoch |-> mem[p].epoch, unread |-> mem[p].fresh[u] = "unread"]

(***************************************************************************)
(* The server.                                                             *)
(***************************************************************************)
Mailbox(n) == [u \in Uids |-> IF u < n THEN "unread" ELSE "none"]

Deliver ==
    /\ uidNext <= MaxUid
    /\ srv' = [srv EXCEPT ![uidNext] = "unread"]
    /\ uidNext' = uidNext + 1
    /\ quiet' = {}
    /\ UNCHANGED <<srvEpoch, validity, rows, lock, pc, mem>>

Expunge(u) ==
    /\ "expunge" \in Events
    /\ srv[u] # "none"
    /\ srv' = [srv EXCEPT ![u] = "none"]
    /\ quiet' = {}
    /\ UNCHANGED <<srvEpoch, uidNext, validity, rows, lock, pc, mem>>

ChangeFlag(u) ==
    /\ "flag" \in Events
    /\ srv[u] # "none"
    /\ srv' = [srv EXCEPT ![u] = IF @ = "read" THEN "unread" ELSE "read"]
    /\ quiet' = {}
    /\ UNCHANGED <<srvEpoch, uidNext, validity, rows, lock, pc, mem>>

\* The mailbox is rebuilt: its messages get new UIDs under a new UIDVALIDITY.
NewValidity(n) ==
    /\ "newvalidity" \in Events
    /\ srvEpoch < MaxEpoch
    /\ srvEpoch' = srvEpoch + 1
    /\ srv' = Mailbox(n)
    /\ uidNext' = n
    /\ quiet' = {}
    /\ UNCHANGED <<validity, rows, lock, pc, mem>>

(***************************************************************************)
(* The steps of a process.                                                 *)
(***************************************************************************)
At(p, label) == pc[p] = label

Goto(p, label, m) ==
    /\ pc' = [pc EXCEPT ![p] = label]
    /\ mem' = [mem EXCEPT ![p] = m]

\* A command that is over drops the lock (RAII, or the kernel's close).
End(p) ==
    /\ Goto(p, "idle", NoMem)
    /\ lock' = IF lock = p THEN NoProc ELSE lock

\* Steps that only read or write local variables, or read one table.
Reading(p) ==
    /\ UNCHANGED <<serverVars, dbVars, lock>>
    /\ quiet' = quiet

\* A session stays on the mailbox it selected.
InSession(p) == mem[p].epoch = srvEpoch

\* try_acquire does not wait: a contended lock is an error and the command ends
\* without having touched anything, so only the success is a step.
Acquire(p, cmd) ==
    /\ cmd \in Commands
    /\ At(p, "idle")
    /\ lock = NoProc
    /\ lock' = p
    /\ Goto(p, IF cmd = "sync" THEN "validity" ELSE "min",
            [NoMem EXCEPT !.cmd = cmd])
    /\ quiet' = quiet \cup {p}
    /\ UNCHANGED <<serverVars, dbVars>>

StartDaily(p) ==
    /\ "daily" \in Commands
    /\ At(p, "idle")
    /\ Goto(p, "validity", [NoMem EXCEPT !.cmd = "daily"])
    /\ quiet' = {}
    /\ UNCHANGED <<serverVars, dbVars, lock>>

ReadValidity(p) ==
    /\ At(p, "validity")
    /\ Goto(p, "max", [mem[p] EXCEPT !.stored = validity])
    /\ Reading(p)

\* SELECT MAX(uid); 0 stands for None, which is also sync_start_max_uid.
ReadMax(p) ==
    /\ At(p, "max")
    /\ \E m \in 0 .. MaxUid :
        /\ IF Cached = {} THEN m = 0 ELSE IsHighest(m, Cached)
        /\ Goto(p, "low", [mem[p] EXCEPT !.known = m])
    /\ Reading(p)

\* Mutant: an empty folder gives 0, the unwrap_or(1) of sync_fetch is missing.
ReadLowWithoutDefault(p) ==
    /\ At(p, "low")
    /\ \E m \in 0 .. MaxUid + 1 :
        /\ IF Cached = {} THEN m = 0 ELSE IsLowest(m, Newest(Cached, FlagWindow))
        /\ Goto(p, "select", [mem[p] EXCEPT !.low = m])
    /\ Reading(p)

\* window_low, with the unwrap_or(1) of sync_fetch.
ReadLow(p) ==
    /\ At(p, "low")
    /\ \E m \in 1 .. MaxUid + 1 :
        /\ IF Cached = {} THEN m = 1 ELSE IsLowest(m, Newest(Cached, FlagWindow))
        /\ Goto(p, "select", [mem[p] EXCEPT !.low = m])
    /\ Reading(p)

\* Mutant: only the first sync of a folder starts from nothing.
NeedsResetFirstTimeOnly(p) == mem[p].known = 0

NeedsReset(p) == mem[p].stored # srvEpoch \/ mem[p].known = 0

\* SELECT: fixes the session's UIDVALIDITY and its sequence numbers.
Select(p) ==
    /\ At(p, "select")
    /\ Goto(p, IF NeedsReset(p) THEN "fetch" ELSE "search",
            [mem[p] EXCEPT !.epoch = srvEpoch, !.reset = NeedsReset(p),
                           !.seen = IF NeedsReset(p)
                                    THEN Newest(Present, InitialWindow) ELSE {}])
    /\ Reading(p)

\* Mutant: the search starts one UID too high.
SearchOffByOne(p) ==
    /\ At(p, "search") /\ InSession(p)
    /\ Goto(p, "fetch", [mem[p] EXCEPT !.seen = {u \in Present : u > mem[p].known + 1}])
    /\ Reading(p)

\* UID SEARCH max+1:*, which also hits the last message when nothing is newer.
Search(p) ==
    /\ At(p, "search") /\ InSession(p)
    /\ LET hits == {u \in Present : u > mem[p].known} \cup Newest(Present, 1)
       IN  Goto(p, "fetch", [mem[p] EXCEPT !.seen = {u \in hits : u > mem[p].known}])
    /\ Reading(p)

Fetch(p) ==
    /\ At(p, "fetch") /\ InSession(p)
    /\ LET next == IF mem[p].cmd = "older" THEN "insert"
                   ELSE IF mem[p].reset THEN "clear" ELSE "scan"
           got == Fetched(mem[p].seen)
       IN  Goto(p, next, [mem[p] EXCEPT !.fresh = got,
                              !.todo = IF mem[p].cmd = "older" THEN Has(got) ELSE {}])
    /\ Reading(p)

\* Mutant: the scan leaves out the lower end of the window.
ScanOffByOne(p) ==
    /\ At(p, "scan") /\ InSession(p)
    /\ Goto(p, "stamp", [mem[p] EXCEPT !.scan = Fetched({u \in Present : mem[p].low < u})])
    /\ Reading(p)

\* UID FETCH low:* (UID FLAGS)
Scan(p) ==
    /\ At(p, "scan") /\ InSession(p)
    /\ Goto(p, "stamp",
            [mem[p] EXCEPT !.scan = Fetched({u \in Present : mem[p].low <= u}
                                                \cup Newest(Present, 1))])
    /\ Reading(p)

ClearFolder(p) ==
    /\ At(p, "clear")
    /\ rows' = [u \in Uids |-> NoRow]
    /\ Goto(p, "stamp", mem[p])
    /\ quiet' = IF mem[p].cmd = "daily" THEN {} ELSE quiet
    /\ UNCHANGED <<serverVars, validity, lock>>

SetValidity(p) ==
    /\ At(p, "stamp")
    /\ validity' = mem[p].epoch
    /\ IF mem[p].cmd = "daily"
       THEN /\ Goto(p, "insert", [mem[p] EXCEPT !.todo = Has(mem[p].fresh)])
            /\ quiet' = {}
       ELSE Goto(p, "commit", mem[p]) /\ quiet' = quiet
    /\ UNCHANGED <<serverVars, rows, lock>>

\* One transaction for all the new mail.
Commit(p) ==
    /\ At(p, "commit")
    /\ rows' = [u \in Uids |-> IF u \in Has(mem[p].fresh) THEN RowOf(p, u) ELSE rows[u]]
    /\ Goto(p, IF mem[p].reset THEN "organize" ELSE "list", mem[p])
    /\ UNCHANGED <<serverVars, validity, lock, quiet>>

\* db::uids_from(flags_low)
ListWindow(p) ==
    /\ At(p, "list")
    /\ Goto(p, "flags", [mem[p] EXCEPT !.todo = {u \in Cached : mem[p].low <= u}])
    /\ Reading(p)

\* Mutant: < for <=.
ShouldDeleteMissingBelow(p, u) == mem[p].scan[u] = "none" /\ u < mem[p].known

\* imap_should_delete_missing_uid
ShouldDeleteMissing(p, u) == mem[p].scan[u] = "none" /\ u <= mem[p].known

FlagRow(p) ==
    /\ At(p, "flags")
    /\ \E u \in mem[p].todo :
        /\ rows' =
             IF rows[u] = NoRow THEN rows
             ELSE IF mem[p].scan[u] # "none"
                  THEN [rows EXCEPT ![u].unread = mem[p].scan[u] = "unread"]
             ELSE IF mem[p].cmd = "sync" /\ ShouldDeleteMissing(p, u)
                  THEN [rows EXCEPT ![u] = NoRow]
             ELSE rows
        /\ Goto(p, "flags", [mem[p] EXCEPT !.todo = @ \ {u}])
    /\ quiet' = IF mem[p].cmd = "daily" THEN {} ELSE quiet
    /\ UNCHANGED <<serverVars, validity, lock>>

FlagsDone(p) ==
    /\ At(p, "flags") /\ mem[p].todo = {}
    /\ Goto(p, IF mem[p].cmd = "sync" THEN "organize" ELSE "finish", mem[p])
    /\ Reading(p)

(***************************************************************************)
(* organize_by_filters: a second connection moves the new messages that a  *)
(* rule matches, group by group; then their rows are deleted one by one.   *)
(***************************************************************************)
Matched(p) == Has(mem[p].fresh) \cap Filtered

\* Mutant: the rules are not applied to the mail of a sync that starts afresh.
PlanMovesUnlessReset(p) ==
    /\ At(p, "organize")
    /\ Goto(p, IF Matched(p) = {} \/ mem[p].reset THEN "finish" ELSE "orgMove",
            [mem[p] EXCEPT !.todo = Matched(p)])
    /\ Reading(p)

PlanMoves(p) ==
    /\ At(p, "organize")
    /\ Goto(p, IF Matched(p) = {} THEN "finish" ELSE "orgMove",
            [mem[p] EXCEPT !.todo = Matched(p)])
    /\ Reading(p)

OrganizeOnServer(p) ==
    /\ At(p, "orgMove")
    /\ \E u \in mem[p].todo :
        /\ srv' = [srv EXCEPT ![u] = "none"]
        /\ LET rest == mem[p].todo \ {u}
           IN  Goto(p, IF rest = {} THEN "orgDelete" ELSE "orgMove",
                    [mem[p] EXCEPT !.todo = IF rest = {} THEN Matched(p) ELSE rest])
    /\ quiet' = quiet \cap {p}
    /\ UNCHANGED <<srvEpoch, uidNext, dbVars, lock>>

OrganizeRow(p) ==
    /\ At(p, "orgDelete")
    /\ \E u \in mem[p].todo :
        /\ rows' = [rows EXCEPT ![u] = NoRow]
        /\ LET rest == mem[p].todo \ {u}
           IN  Goto(p, IF rest = {} THEN "finish" ELSE "orgDelete",
                    [mem[p] EXCEPT !.todo = rest])
    /\ UNCHANGED <<serverVars, validity, lock, quiet>>

(***************************************************************************)
(* sync_older_messages: a batch of mail below the lowest cached UID.       *)
(***************************************************************************)
ReadMin(p) ==
    /\ At(p, "min")
    /\ \E m \in 0 .. MaxUid :
        /\ IF Cached = {} THEN m = 0 ELSE IsLowest(m, Cached)
        /\ Goto(p, IF m <= 1 THEN "finish" ELSE "older", [mem[p] EXCEPT !.known = m])
    /\ Reading(p)

\* SELECT and the binary search for the boundary, on fixed sequence numbers.
SelectOlder(p) ==
    /\ At(p, "older")
    /\ Goto(p, "fetch",
            [mem[p] EXCEPT !.epoch = srvEpoch,
                !.seen = Newest({u \in Present : u < mem[p].known}, OlderWindow)])
    /\ Reading(p)

\* The batch is written row by row, in the order of the FETCH response.
InsertRow(p) ==
    /\ At(p, "insert")
    /\ \E u \in mem[p].todo :
        /\ IsLowest(u, mem[p].todo)
        /\ rows' = [rows EXCEPT ![u] = RowOf(p, u)]
        /\ Goto(p, "insert", [mem[p] EXCEPT !.todo = @ \ {u}])
    /\ quiet' = IF mem[p].cmd = "daily" THEN {} ELSE quiet
    /\ UNCHANGED <<serverVars, validity, lock>>

InsertDone(p) ==
    /\ At(p, "insert") /\ mem[p].todo = {}
    /\ IF mem[p].cmd = "daily"
       THEN Goto(p, "flags", [mem[p] EXCEPT !.todo = Has(mem[p].scan)])
       ELSE Goto(p, "finish", mem[p])
    /\ Reading(p)

Finish(p) ==
    /\ At(p, "finish")
    /\ End(p)
    /\ quiet' = quiet \ {p}
    /\ UNCHANGED <<serverVars, dbVars>>

(***************************************************************************)
(* The user's commands: the server first, the row second, and no lock.     *)
(***************************************************************************)
SetReadOnServer(p, u, flag) ==
    /\ "read" \in Commands
    /\ At(p, "idle") /\ u \in Cached
    /\ srv' = [srv EXCEPT ![u] = IF @ = "none" THEN @ ELSE flag]
    /\ Goto(p, "local", [NoMem EXCEPT !.cmd = "read", !.todo = {u},
                                      !.fresh = [Nothing EXCEPT ![u] = flag]])
    /\ quiet' = {}
    /\ UNCHANGED <<srvEpoch, uidNext, dbVars, lock>>

MoveOnServer(p, u) ==
    /\ "move" \in Commands
    /\ At(p, "idle") /\ u \in Cached
    /\ srv' = [srv EXCEPT ![u] = "none"]
    /\ Goto(p, "local", [NoMem EXCEPT !.cmd = "move", !.todo = {u}])
    /\ quiet' = {}
    /\ UNCHANGED <<srvEpoch, uidNext, dbVars, lock>>

SetReadRow(p) ==
    /\ At(p, "local") /\ mem[p].cmd = "read"
    /\ \E u \in mem[p].todo :
        rows' = IF rows[u] = NoRow THEN rows
                ELSE [rows EXCEPT ![u].unread = mem[p].fresh[u] = "unread"]
    /\ Goto(p, "finish", mem[p])
    /\ quiet' = {}
    /\ UNCHANGED <<serverVars, validity, lock>>

MoveRow(p) ==
    /\ At(p, "local") /\ mem[p].cmd = "move"
    /\ \E u \in mem[p].todo : rows' = [rows EXCEPT ![u] = NoRow]
    /\ Goto(p, "finish", mem[p])
    /\ quiet' = {}
    /\ UNCHANGED <<serverVars, validity, lock>>

(***************************************************************************)
(* Failures.  A step that fails returns its error at once (the ? operator),*)
(* and a crash is no different to the database and the lock.               *)
(***************************************************************************)
\* Mutant: the lock is a file that only a command that completes removes.
AbortKeepsLock(p) ==
    /\ pc[p] \in AbortAt \ {"idle"}
    /\ Goto(p, "idle", NoMem)
    /\ quiet' = quiet \ {p}
    /\ UNCHANGED <<serverVars, dbVars, lock>>

Abort(p) ==
    /\ pc[p] \in AbortAt \ {"idle"}
    /\ End(p)
    /\ quiet' = quiet \ {p}
    /\ UNCHANGED <<serverVars, dbVars>>

\* A session on a mailbox that was rebuilt is closed by the server.
SessionLost(p) ==
    /\ pc[p] \in {"search", "fetch", "scan"} /\ ~InSession(p)
    /\ End(p)
    /\ quiet' = quiet \ {p}
    /\ UNCHANGED <<serverVars, dbVars>>

(***************************************************************************)
(* The specification.                                                      *)
(***************************************************************************)
Init ==
    /\ srvEpoch = 1
    /\ uidNext \in 1 .. MaxUid + 1
    /\ srv = Mailbox(uidNext)
    /\ validity = 0
    /\ rows = [u \in Uids |-> NoRow]
    /\ lock = NoProc
    /\ pc = [p \in Procs |-> "idle"]
    /\ mem = [p \in Procs |-> NoMem]
    /\ quiet = {}

ServerStep ==
    \/ Deliver
    \/ \E u \in Uids : Expunge(u) \/ ChangeFlag(u)
    \/ \E n \in 1 .. MaxUid + 1 : NewValidity(n)

Start(p) ==
    \/ \E cmd \in {"sync", "older"} : Acquire(p, cmd)
    \/ StartDaily(p)
    \/ \E u \in Uids : \/ MoveOnServer(p, u)
                       \/ \E flag \in {"read", "unread"} : SetReadOnServer(p, u, flag)

SyncStep(p) ==
    \/ ReadValidity(p) \/ ReadMax(p) \/ ReadLow(p) \/ Select(p) \/ Search(p)
    \/ Fetch(p) \/ Scan(p) \/ ClearFolder(p) \/ SetValidity(p) \/ Commit(p)
    \/ ListWindow(p) \/ FlagRow(p) \/ FlagsDone(p)
    \/ PlanMoves(p) \/ OrganizeOnServer(p) \/ OrganizeRow(p)

OlderStep(p) == ReadMin(p) \/ SelectOlder(p) \/ InsertRow(p) \/ InsertDone(p)

UserStep(p) == SetReadRow(p) \/ MoveRow(p)

Run(p) == SyncStep(p) \/ OlderStep(p) \/ UserStep(p) \/ Finish(p) \/ SessionLost(p)

Next ==
    \/ ServerStep
    \/ \E p \in Procs : Start(p) \/ Run(p) \/ Abort(p)

Spec == Init /\ [][Next]_vars

\* The operating system schedules every process that has started, and the
\* network timeouts of the client end every wait: a command always goes on.
FairSpec == Spec /\ \A p \in Procs : WF_vars(Run(p))

(***************************************************************************)
(* Properties.                                                             *)
(***************************************************************************)
ProcMem == [cmd : AllCommands \cup {"none"}, stored : 0 .. MaxEpoch,
            known : 0 .. MaxUid, low : 1 .. MaxUid + 1, epoch : 0 .. MaxEpoch,
            reset : BOOLEAN, seen : SUBSET Uids, fresh : [Uids -> Flag],
            scan : [Uids -> Flag], todo : SUBSET Uids]

\* The types of the variables.
TypeOK ==
    /\ srvEpoch \in Epochs
    /\ srv \in [Uids -> Flag]
    /\ uidNext \in 1 .. MaxUid + 1
    /\ validity \in 0 .. MaxEpoch
    /\ rows \in [Uids -> Row]
    /\ lock \in Procs \cup {NoProc}
    /\ pc \in [Procs -> Labels]
    /\ mem \in [Procs -> ProcMem]
    /\ quiet \in SUBSET Procs

\* The cache never passes one message off as another: while the stored
\* UIDVALIDITY is the server's, every row is the message the server has, or
\* had, under that UID.  It holds at every step, so after every crash too:
\* clear, set_uidvalidity and the transaction may each be the last one to run.
RowsTrustworthy ==
    validity = srvEpoch => \A u \in Cached : rows[u].epoch = validity

DeletesOnlyLost ==
    \A p \in Procs : \A u \in Uids :
        (FlagRow(p) /\ rows[u] # NoRow /\ rows'[u] = NoRow)
            => ~(rows[u].epoch = srvEpoch /\ srv[u] # "none")

\* The delete detection of a sync only removes mail the server no longer has,
\* although it decides on a scan of flags taken some steps before.
DeleteSound == [][DeletesOnlyLost]_vars

\* Between the lowest and the highest cached UID the cache misses nothing the
\* server has, whenever no sync runs.  Nothing ever fetches such a message
\* later: the incremental fetch starts above the highest, the backfill below
\* the lowest.
NoHole ==
    (lock = NoProc /\ validity = srvEpoch) =>
        \A v, w \in Cached : \A u \in Present : (v < u /\ u < w) => u \in Cached

\* The part of the folder that a sync answers for.
Covered(p) ==
    IF mem[p].reset
    THEN {u \in Uids : mem[p].seen = {} \/ \E v \in mem[p].seen : v <= u}
    ELSE {u \in Uids : mem[p].low <= u}

\* A sync during which nobody else acted leaves the window it answers for
\* exactly as the server has it: same messages, same flags.
SyncExact ==
    \A p \in quiet : (At(p, "finish") /\ mem[p].cmd = "sync") =>
        \A u \in Covered(p) :
            rows[u] = IF srv[u] = "none" THEN NoRow
                      ELSE [epoch |-> srvEpoch, unread |-> srv[u] = "unread"]

\* core.rs:686 "新到收件箱的邮件自动应用过滤规则" (the rules are applied to new mail in the
\* inbox): when a sync is over, none of the mail it brought that a rule matches is left.
FilteredLeaveInbox ==
    \A p \in Procs : (At(p, "finish") /\ mem[p].cmd = "sync") => Matched(p) \cap Cached = {}

\* The detailed specification implements the promise of MailCache.
Contract == INSTANCE MailCache WITH
    epoch <- srvEpoch,
    next <- uidNext,
    server <- {<<srvEpoch, u>> : u \in Present},
    stamp <- validity,
    cache <- {<<rows[u].epoch, u>> : u \in Cached}

\* Every behaviour of the commands is one of MailCache: no command, at any
\* interleaving, invents a message, drops one the server still has, or stamps
\* the cache with a UIDVALIDITY that is not that of all its rows.
KeepsContract == Contract!Spec

\* Whoever holds the folder's lock gives it back, whatever fails.
LockReleased == (lock # NoProc) ~> (lock = NoProc)

(***************************************************************************)
(* The inductive invariant.  It holds when no "daily" command runs: that   *)
(* flow changes the folder without the lock.                               *)
(***************************************************************************)
SyncLabels == {"validity", "max", "low", "select", "search", "scan", "clear", "stamp",
               "commit", "list", "flags", "organize", "orgMove", "orgDelete"}
OlderLabels == {"min", "older", "insert"}

\* A process is at a statement of the command it runs, and the two commands
\* that add rows are the ones that hold the lock.
Owner(p) ==
    /\ mem[p].cmd # "daily"
    /\ pc[p] = "idle" => mem[p].cmd = "none"
    /\ pc[p] \in SyncLabels => mem[p].cmd = "sync"
    /\ pc[p] \in OlderLabels => mem[p].cmd = "older"
    /\ pc[p] = "fetch" => mem[p].cmd \in {"sync", "older"}
    /\ pc[p] = "local" => mem[p].cmd \in {"move", "read"}
    /\ mem[p].cmd \in {"sync", "older"} => lock = p

\* No UIDVALIDITY from the future, and no UID that was not given out.
Bounded ==
    /\ validity <= srvEpoch
    /\ \A u \in Uids : srv[u] # "none" => u < uidNext
    /\ \A u \in Uids : rows[u].epoch <= srvEpoch
    /\ \A u \in Uids : rows[u].epoch = srvEpoch => u < uidNext

\* What a sync or a backfill knows about the table before it selects.
BeforeSelect(p) ==
    /\ pc[p] \in {"max", "low", "select"} => mem[p].stored = validity
    /\ (pc[p] \in {"low", "select"} /\ validity = srvEpoch) => mem[p].known < uidNext

InSync(p) == pc[p] \in {"search", "fetch", "scan", "clear", "stamp", "commit", "list", "flags"}
                /\ mem[p].cmd = "sync"
InBackfill(p) == pc[p] \in {"fetch", "insert"} /\ mem[p].cmd = "older"

\* After SELECT: the session's UIDVALIDITY, and what was fetched under it.
AfterSelect(p) ==
    /\ (InSync(p) \/ InBackfill(p)) => 1 <= mem[p].epoch /\ mem[p].epoch <= srvEpoch
    /\ (pc[p] \in {"scan", "clear", "stamp", "commit", "insert"} /\ mem[p].epoch = srvEpoch)
          => \A u \in Has(mem[p].fresh) : u < uidNext
    /\ InBackfill(p) => validity <= mem[p].epoch
    /\ pc[p] = "insert" => mem[p].todo \subseteq Has(mem[p].fresh)
    /\ pc[p] \in {"search", "scan", "list", "flags"} => ~mem[p].reset
    /\ pc[p] = "clear" => mem[p].reset
    /\ (InSync(p) /\ ~mem[p].reset) =>
          /\ validity = mem[p].epoch
          /\ \A u \in Cached : rows[u].epoch = mem[p].epoch
          /\ mem[p].epoch = srvEpoch => mem[p].known < uidNext
    /\ (pc[p] \in {"stamp", "commit"} /\ mem[p].reset) => Cached = {}
    /\ pc[p] = "commit" => validity = mem[p].epoch

\* What the scan of flags did not see is gone for good.
ScanSound(p) ==
    (pc[p] \in {"stamp", "commit", "list", "flags"} /\ ~mem[p].reset) =>
        /\ mem[p].epoch = srvEpoch =>
              \A u \in Uids : (/\ mem[p].low <= u /\ u <= mem[p].known
                               /\ mem[p].scan[u] = "none") => srv[u] = "none"
        /\ pc[p] = "flags" => \A u \in mem[p].todo : mem[p].low <= u

\* Together they are preserved by every step.
Local(p) == BeforeSelect(p) /\ AfterSelect(p) /\ ScanSound(p)

Inductive ==
    /\ TypeOK
    /\ Bounded
    /\ RowsTrustworthy
    /\ \A p \in Procs : Owner(p) /\ Local(p)
=============================================================================
