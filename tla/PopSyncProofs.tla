---------------------------- MODULE PopSyncProofs ----------------------------
(***************************************************************************)
(* What PopSync promises when every sync is asked for the same folder, and *)
(* so takes the same lock (OneLock): each mail is stored once, a sync only *)
(* forgets what the server has lost, a sync that nobody disturbed has      *)
(* everything, and what was deleted for good stays away.                   *)
(***************************************************************************)
EXTENDS PopSync, TLAPS

\* Syncs that take different locks do delete each other's mail (see the run pop_two_locks).
OneLock == \A f, g \in SyncFolders : f = g

SyncLabels == {"known", "fetch", "number", "bump", "upsert", "rows", "delete", "organize"}
Inserting == {"number", "bump", "upsert"}
PurgeLabels == {"uidl", "dele", "purgeRow"}
Syncs(p) == mem[p].cmd \in {"sync", "older"}

(***************************************************************************)
(* The inductive invariant.                                                *)
(***************************************************************************)
Role(p) ==
    /\ pc[p] \in SyncLabels => Syncs(p)
    /\ pc[p] \in {"rows", "delete", "organize"} => mem[p].cmd = "sync"
    /\ pc[p] \in PurgeLabels => mem[p].cmd = "purge"
    /\ Syncs(p) => mem[p].folder \in SyncFolders /\ locks[mem[p].folder] = p

\* n and what follows name no row, and none that a command has in mind.
Above(n) ==
    /\ \A k \in Used : k[2] < n
    /\ \A p \in Procs : \A k \in mem[p].gone : k[2] < n

Numbering(p) ==
    /\ pc[p] = "bump" => mem[p].cur = nextNum
    /\ pc[p] = "upsert" => mem[p].cur \in Nums /\ mem[p].cur < nextNum /\ Above(mem[p].cur)
    /\ pc[p] = "organize" => \A m \in mem[p].todo : mem[p].placed[m] # 0

\* What a sync is about to insert is not there, and what is there and on the
\* server was on the server when the sync asked.
Fetched(p) ==
    /\ pc[p] = "fetch" => Stored \subseteq mem[p].known
    /\ pc[p] \in Inserting => mem[p].todo \cap Stored = {} /\ mem[p].todo \subseteq mem[p].all
    /\ pc[p] \in Inserting \cup {"rows", "delete"} =>
          mem[p].all \subseteq 1 .. arrived /\ maildrop \cap Stored \subseteq mem[p].all

\* A row about to be deleted, wherever the user has filed it since, is one of
\* a mail that was not on the server.
Doomed(p) ==
    pc[p] = "delete" => \A k \in mem[p].gone :
        k[1] = Inbox /\ \A l \in Used : l[2] = k[2] => rows[l] \notin mem[p].all

Arrived == maildrop \subseteq 1 .. arrived /\ Stored \subseteq 1 .. arrived

ProcInv(p) == Role(p) /\ Numbering(p) /\ Fetched(p) /\ Doomed(p)

Inductive ==
    /\ TypeOK /\ Distinct /\ Arrived /\ Above(nextNum)
    /\ \A p \in Procs : ProcInv(p)

(***************************************************************************)
(* Small facts.                                                            *)
(***************************************************************************)
LEMMA KeyFacts ==
    /\ \A k \in Keys : k[1] \in Folders /\ k[2] \in Nums /\ k = <<k[1], k[2]>>
    /\ \A f \in Folders, n \in Nums : <<f, n>> \in Keys
    /\ \A k \in Used : k \in Keys /\ rows[k] # 0
BY DEF Keys, Used

LEMMA GotoFacts ==
    ASSUME TypeOK, NEW p \in Procs, NEW l, NEW m, Goto(p, l, m)
    PROVE  /\ pc'[p] = l /\ mem'[p] = m
           /\ \A q \in Procs : q # p => pc'[q] = pc[q] /\ mem'[q] = mem[q]
BY DEF Goto, TypeOK

LEMMA LastSubset == ASSUME NEW S, NEW n PROVE Last(S, n) \subseteq S
BY DEF Last

LEMMA WantedUnknown ==
    ASSUME NEW p \in Procs, NEW S PROVE Wanted(p, S) \subseteq S
BY LastSubset DEF Wanted

\* Two processes that sync are one, for they hold the same lock.
LEMMA OneSync ==
    ASSUME OneLock, Inductive, NEW p \in Procs, NEW q \in Procs, Syncs(p), Syncs(q)
    PROVE  p = q
BY DEF OneLock, Inductive, ProcInv, Role

LEMMA MemFacts ==
    ASSUME TypeOK, NEW p \in Procs
    PROVE  /\ mem[p] \in ProcMem /\ mem[p].cur \in Nat /\ mem[p].folder \in Folders
           /\ mem[p].known \subseteq Mails /\ mem[p].all \subseteq Mails
           /\ mem[p].todo \subseteq Mails /\ mem[p].gone \subseteq Keys
           /\ mem[p].placed \in [Mails -> 0 .. MaxNum]
BY PopAssumption DEF TypeOK, ProcMem

LEMMA RowsExcept ==
    ASSUME NEW r \in [Keys -> 0 .. MaxMail], NEW k, NEW v \in 0 .. MaxMail
    PROVE  [r EXCEPT ![k] = v] \in [Keys -> 0 .. MaxMail]
OBVIOUS

LEMMA NoMemType == NoMem \in ProcMem
BY PopAssumption DEF NoMem, ProcMem, Folders, AllCommands

(***************************************************************************)
(* Initially.                                                              *)
(***************************************************************************)
LEMMA InitInductive == Init => Inductive
<1> SUFFICES ASSUME Init PROVE Inductive  OBVIOUS
<1>1. Used = {} /\ Stored = {}  BY DEF Init, Used, Stored
<1>2. TypeOK
  BY NoMemType, PopAssumption DEF Init, TypeOK, Mails, Labels
<1>3. Distinct  BY <1>1 DEF Distinct
<1>4. Arrived  BY <1>1 DEF Init, Arrived
<1>5. Above(nextNum)  BY <1>1 DEF Init, Above, NoMem
<1>6. ASSUME NEW p \in Procs PROVE ProcInv(p)
  <2>1. pc[p] = "idle" /\ mem[p].cmd = "none"  BY DEF Init, NoMem
  <2> QED BY <2>1 DEF ProcInv, Role, Numbering, Fetched, Doomed, SyncLabels, Inserting,
               PurgeLabels, Syncs
<1> QED BY <1>2, <1>3, <1>4, <1>5, <1>6 DEF Inductive

(***************************************************************************)
(* The types.                                                              *)
(***************************************************************************)
LEMMA GotoType ==
    ASSUME TypeOK, NEW p \in Procs, NEW l \in Labels, NEW m \in ProcMem, Goto(p, l, m)
    PROVE  pc' \in [Procs -> Labels] /\ mem' \in [Procs -> ProcMem]
BY DEF Goto, TypeOK

LEMMA EndType ==
    ASSUME TypeOK, NEW p \in Procs, End(p)
    PROVE  /\ pc' \in [Procs -> Labels] /\ mem' \in [Procs -> ProcMem]
           /\ locks' \in [Folders -> Procs \cup {NoProc}]
<1>1. Goto(p, "idle", NoMem)  BY DEF End
<1>2. "idle" \in Labels  BY DEF Labels
<1>3. locks' \in [Folders -> Procs \cup {NoProc}]  BY DEF End, TypeOK
<1> QED BY <1>1, <1>2, <1>3, NoMemType, GotoType

LEMMA RefileType ==
    ASSUME TypeOK, NEW f \in Folders, NEW g \in Folders, NEW n
    PROVE  Refile(f, g, n) \in [Keys -> 0 .. MaxMail]
<1>1. Refile(f, g, n) = IF rows[<<f, n>>] = 0 THEN rows
                        ELSE [rows EXCEPT ![<<g, n>>] = rows[<<f, n>>], ![<<f, n>>] = 0]
  BY DEF Refile
<1>2. rows \in [Keys -> 0 .. MaxMail] /\ 0 \in 0 .. MaxMail  BY PopAssumption DEF TypeOK
<1>3. CASE n \in Nums
  <2>1. <<f, n>> \in Keys  BY <1>3, KeyFacts
  <2>2. rows[<<f, n>>] \in 0 .. MaxMail  BY <1>2, <2>1
  <2> QED BY <1>1, <1>2, <2>2
<1>4. CASE n \notin Nums
  <2>1. <<f, n>> \notin Keys /\ <<g, n>> \notin Keys  BY <1>4 DEF Keys
  <2>2. [rows EXCEPT ![<<g, n>>] = rows[<<f, n>>], ![<<f, n>>] = 0] = rows
    BY <1>2, <2>1
  <2> QED BY <1>1, <1>2, <2>2
<1> QED BY <1>3, <1>4

LEMMA ServerType == ASSUME TypeOK, ServerStep PROVE TypeOK'
<1>1. CASE Deliver
  <2>1. arrived + 1 \in Mails  BY <1>1, PopAssumption DEF Deliver, TypeOK, Mails
  <2> QED BY <1>1, <2>1, PopAssumption DEF Deliver, TypeOK, dbVars, Mails
<1>2. ASSUME NEW m \in Mails, Expire(m) PROVE TypeOK'
  BY <1>2 DEF Expire, TypeOK, dbVars
<1> QED BY <1>1, <1>2 DEF ServerStep

\* The shape that the steps of a sync have: what they do to the rows, the counter and
\* the memory is typed.
LEMMA StepType ==
    ASSUME TypeOK, NEW p \in Procs, NEW l \in Labels, NEW m \in ProcMem, Goto(p, l, m),
           UNCHANGED <<serverVars, locks, purged>>, quiet' \subseteq quiet \cup {p},
           rows' \in [Keys -> 0 .. MaxMail], nextNum' \in 1 .. MaxNum + 1
    PROVE  TypeOK'
<1>1. pc' \in [Procs -> Labels] /\ mem' \in [Procs -> ProcMem]  BY GotoType
<1> QED BY <1>1 DEF TypeOK, serverVars

LEMMA EndStepType ==
    ASSUME TypeOK, NEW p \in Procs, End(p), UNCHANGED <<serverVars, dbVars, purged>>,
           quiet' \subseteq quiet
    PROVE  TypeOK'
<1>1. /\ pc' \in [Procs -> Labels] /\ mem' \in [Procs -> ProcMem]
      /\ locks' \in [Folders -> Procs \cup {NoProc}]
  BY EndType
<1> QED BY <1>1 DEF TypeOK, serverVars, dbVars

LEMMA SyncStepType == ASSUME Inductive, NEW p \in Procs, SyncStep(p) PROVE TypeOK'
<1> USE DEF Reading, Writing, dbVars
<1>1. /\ TypeOK /\ mem[p] \in ProcMem /\ maildrop \subseteq Mails
      /\ rows \in [Keys -> 0 .. MaxMail] /\ nextNum \in 1 .. MaxNum + 1
  BY MemFacts DEF Inductive, TypeOK
<1>2. ASSUME NEW l, NEW m, l \in Labels, m \in ProcMem, Goto(p, l, m), Reading(p)
      PROVE  TypeOK'
  BY <1>1, <1>2, StepType
<1>3. ASSUME NEW l, NEW m, l \in Labels, m \in ProcMem, Goto(p, l, m), Writing(p),
             rows' \in [Keys -> 0 .. MaxMail], nextNum' \in 1 .. MaxNum + 1
      PROVE  TypeOK'
  BY <1>1, <1>3, StepType
<1>4. CASE ReadKnown(p)
  <2>1. Stored \subseteq Mails  BY <1>1, PopAssumption DEF Stored, Used, Mails
  <2>2. [mem[p] EXCEPT !.known = Stored] \in ProcMem  BY <1>1, <2>1 DEF ProcMem
  <2> QED BY <1>2, <1>4, <2>2 DEF ReadKnown, Labels
<1>5. CASE Fetch(p)
  <2>1. PICK got \in SUBSET Wanted(p, maildrop \ mem[p].known) :
          Goto(p, "number", [mem[p] EXCEPT !.all = maildrop, !.todo = got])
    BY <1>5 DEF Fetch
  <2>2. got \subseteq Mails  BY <1>1, WantedUnknown
  <2>3. [mem[p] EXCEPT !.all = maildrop, !.todo = got] \in ProcMem  BY <1>1, <2>2 DEF ProcMem
  <2>4. "number" \in Labels  BY DEF Labels
  <2>5. UNCHANGED <<serverVars, dbVars, locks, purged>> /\ quiet' \subseteq quiet
    BY <1>5 DEF Fetch
  <2> QED BY <1>1, <2>1, <2>3, <2>4, <2>5, StepType
<1>6. CASE ReadNumber(p)
  <2>1. nextNum \in 0 .. MaxNum  BY <1>1, <1>6, PopAssumption DEF ReadNumber
  <2>2. [mem[p] EXCEPT !.cur = nextNum] \in ProcMem  BY <1>1, <2>1 DEF ProcMem
  <2> QED BY <1>2, <1>6, <2>2 DEF ReadNumber, Labels
<1>7. CASE BumpNumber(p)
  <2>1. mem[p].cur \in 0 .. MaxNum  BY <1>1 DEF ProcMem
  <2>2. nextNum' \in 1 .. MaxNum + 1  BY <1>7, <2>1, PopAssumption DEF BumpNumber
  <2> QED BY <1>1, <1>3, <1>7, <2>2 DEF BumpNumber, Labels
<1>8. CASE InsertRow(p)
  <2>1. PICK m \in mem[p].todo :
          /\ rows' = [rows EXCEPT ![<<Inbox, mem[p].cur>>] = m]
          /\ Goto(p, "number", [mem[p] EXCEPT !.todo = @ \ {m}, !.placed[m] = mem[p].cur])
    BY <1>8 DEF InsertRow
  <2>2. m \in Mails /\ mem[p].cur \in 0 .. MaxNum  BY <1>1, <2>1 DEF ProcMem
  <2>3. rows' \in [Keys -> 0 .. MaxMail]  BY <1>1, <2>1, <2>2, RowsExcept, PopAssumption DEF Mails
  <2>4. [mem[p] EXCEPT !.todo = @ \ {m}, !.placed[m] = mem[p].cur] \in ProcMem
    BY <1>1, <2>2 DEF ProcMem
  <2> QED BY <1>1, <1>3, <1>8, <2>1, <2>3, <2>4 DEF InsertRow, Labels
<1>9. CASE InsertDone(p)
  BY <1>1, <1>2, <1>9 DEF InsertDone, Labels
<1>10. CASE ReadRows(p)
  <2>1. Gone(mem[p].all) \subseteq Keys  BY DEF Gone, Used
  <2>2. [mem[p] EXCEPT !.gone = Gone(mem[p].all)] \in ProcMem  BY <1>1, <2>1 DEF ProcMem
  <2> QED BY <1>2, <1>10, <2>2 DEF ReadRows, Labels
<1>11. CASE DeleteGone(p)
  <2>1. PICK k \in mem[p].gone :
          /\ rows' = [rows EXCEPT ![k] = 0]
          /\ Goto(p, "delete", [mem[p] EXCEPT !.gone = @ \ {k}])
    BY <1>11 DEF DeleteGone
  <2>2. rows' \in [Keys -> 0 .. MaxMail]  BY <1>1, <2>1, RowsExcept, PopAssumption
  <2>3. [mem[p] EXCEPT !.gone = @ \ {k}] \in ProcMem  BY <1>1 DEF ProcMem
  <2> QED BY <1>1, <1>3, <1>11, <2>1, <2>2, <2>3 DEF DeleteGone, Labels
<1>12. CASE DeleteDone(p)
  <2>1. {m \in Filtered : mem[p].placed[m] # 0} \subseteq Mails  BY PopAssumption
  <2>2. [mem[p] EXCEPT !.todo = {m \in Filtered : mem[p].placed[m] # 0}] \in ProcMem
    BY <1>1, <2>1 DEF ProcMem
  <2> QED BY <1>2, <1>12, <2>2 DEF DeleteDone, Labels
<1>13. CASE Organize(p)
  <2>1. PICK m \in mem[p].todo :
          /\ rows' = Refile(Inbox, Local, mem[p].placed[m])
          /\ Goto(p, "organize", [mem[p] EXCEPT !.todo = @ \ {m}])
    BY <1>13 DEF Organize
  <2>2. rows' \in [Keys -> 0 .. MaxMail]  BY <1>1, <2>1, RefileType DEF Folders
  <2>3. [mem[p] EXCEPT !.todo = @ \ {m}] \in ProcMem  BY <1>1 DEF ProcMem
  <2> QED BY <1>1, <1>3, <1>13, <2>1, <2>2, <2>3 DEF Organize, Labels
<1>14. CASE OrganizeDone(p)  BY <1>1, <1>2, <1>14 DEF OrganizeDone, Labels
<1> QED BY <1>4, <1>5, <1>6, <1>7, <1>8, <1>9, <1>10, <1>11, <1>12, <1>13, <1>14
        DEF SyncStep, Insertion, Deletion

LEMMA StartType == ASSUME Inductive, NEW p \in Procs, Start(p) PROVE TypeOK'
<1> USE DEF dbVars
<1>1. /\ TypeOK /\ rows \in [Keys -> 0 .. MaxMail] /\ 0 \in 0 .. MaxMail
  BY PopAssumption DEF Inductive, TypeOK
<1>2. ASSUME NEW cmd \in {"sync", "older"}, NEW f \in SyncFolders, Acquire(p, cmd, f) PROVE TypeOK'
  <2>1. [NoMem EXCEPT !.cmd = cmd, !.folder = f] \in ProcMem
    BY NoMemType, PopAssumption DEF ProcMem, AllCommands
  <2>2. "known" \in Labels  BY DEF Labels
  <2>3. pc' \in [Procs -> Labels] /\ mem' \in [Procs -> ProcMem]
    BY <1>1, <1>2, <2>1, <2>2, GotoType DEF Acquire
  <2> QED BY <1>1, <1>2, <2>3 DEF Acquire, TypeOK, serverVars
<1>3. ASSUME NEW k \in Keys, NEW to \in Folders, Move(p, k, to) PROVE TypeOK'
  <2>1. rows' \in [Keys -> 0 .. MaxMail]  BY <1>1, <1>3, RefileType, KeyFacts DEF Move
  <2> QED BY <1>1, <1>3, <2>1 DEF Move, TypeOK, serverVars
<1>4. CASE DeleteFolder(p)
  <2>1. rows' \in [Keys -> 0 .. MaxMail]  BY <1>1, <1>4 DEF DeleteFolder
  <2> QED BY <1>1, <1>4, <2>1 DEF DeleteFolder, TypeOK, serverVars
<1>5. ASSUME NEW k \in Keys, PurgeStart(p, k) PROVE TypeOK'
  <2>1. [NoMem EXCEPT !.cmd = "purge", !.gone = {k}] \in ProcMem
    BY NoMemType DEF ProcMem, AllCommands
  <2>2. "uidl" \in Labels  BY DEF Labels
  <2>3. pc' \in [Procs -> Labels] /\ mem' \in [Procs -> ProcMem]
    BY <1>1, <1>5, <2>1, <2>2, GotoType DEF PurgeStart
  <2> QED BY <1>1, <1>5, <2>3 DEF PurgeStart, TypeOK, serverVars
<1> QED BY <1>2, <1>3, <1>4, <1>5 DEF Start

LEMMA PurgeStepType == ASSUME Inductive, NEW p \in Procs, PurgeStep(p) PROVE TypeOK'
<1> USE DEF dbVars, serverVars
<1>1. /\ TypeOK /\ mem[p] \in ProcMem /\ rows \in [Keys -> 0 .. MaxMail]
      /\ mem[p].gone \subseteq Keys /\ mem[p].todo \subseteq Mails
  BY MemFacts DEF Inductive, TypeOK
<1>2. CASE ReadUidl(p)
  <2>1. PICK k \in mem[p].gone :
          Goto(p, IF rows[k] = 0 THEN "finish" ELSE "dele", [mem[p] EXCEPT !.todo = {rows[k]} \ {0}])
    BY <1>2 DEF ReadUidl
  <2>2. {rows[k]} \ {0} \subseteq Mails  BY <1>1, PopAssumption DEF Mails
  <2>3. [mem[p] EXCEPT !.todo = {rows[k]} \ {0}] \in ProcMem  BY <1>1, <2>2 DEF ProcMem
  <2>4. (IF rows[k] = 0 THEN "finish" ELSE "dele") \in Labels  BY DEF Labels
  <2>5. nextNum \in 1 .. MaxNum + 1 /\ UNCHANGED <<maildrop, arrived, rows, nextNum, locks, purged, quiet>>
    BY <1>1, <1>2 DEF ReadUidl, Reading, TypeOK
  <2> QED BY <1>1, <2>1, <2>3, <2>4, <2>5, StepType
<1>3. CASE PurgeOnServer(p)
  <2>1. PICK l \in {"purgeRow", "finish"} : Goto(p, l, mem[p])  BY <1>3 DEF PurgeOnServer
  <2>2. l \in Labels  BY <2>1 DEF Labels
  <2>3. pc' \in [Procs -> Labels] /\ mem' \in [Procs -> ProcMem]
    BY <1>1, <2>1, <2>2, GotoType
  <2>4. maildrop' \subseteq Mails  BY <1>1, <1>3 DEF PurgeOnServer, TypeOK
  <2> QED BY <1>1, <1>3, <2>3, <2>4 DEF PurgeOnServer, TypeOK
<1>4. CASE PurgeRow(p)
  <2>1. Goto(p, "finish", mem[p]) /\ "finish" \in Labels  BY <1>4 DEF PurgeRow, Labels
  <2>2. pc' \in [Procs -> Labels] /\ mem' \in [Procs -> ProcMem]
    BY <1>1, <2>1, GotoType
  <2>3. rows' \in [Keys -> 0 .. MaxMail]  BY <1>1, <1>4, PopAssumption DEF PurgeRow
  <2>4. purged' \subseteq Mails  BY <1>1, <1>4 DEF PurgeRow, TypeOK
  <2> QED BY <1>1, <1>4, <2>2, <2>3, <2>4 DEF PurgeRow, TypeOK
<1> QED BY <1>2, <1>3, <1>4 DEF PurgeStep

LEMMA TypeStep ==
    ASSUME Inductive, [Next]_vars
    PROVE  TypeOK'
<1>1. TypeOK  BY DEF Inductive
<1>2. CASE UNCHANGED vars  BY <1>1, <1>2 DEF vars, TypeOK
<1>3. ASSUME NEW p \in Procs, Finish(p) \/ OutOfNumbers(p) \/ Abort(p) PROVE TypeOK'
  <2>1. End(p) /\ UNCHANGED <<serverVars, dbVars, purged>> /\ quiet' \subseteq quiet
    BY <1>3 DEF Finish, OutOfNumbers, Abort
  <2> QED BY <1>1, <2>1, EndStepType
<1> QED BY <1>1, <1>2, <1>3, ServerType, SyncStepType, StartType, PurgeStepType DEF Next, Run

(***************************************************************************)
(* Steps that insert no row.  Rows may go, and may change their folder,    *)
(* but each row there is afterwards was there before, with its mail and    *)
(* its number.                                                             *)
(***************************************************************************)
Shrinks == \A k \in Used' : \E l \in Used : l[2] = k[2] /\ rows[l] = rows'[k]

\* The server may lose mails, or get the next one.
ServerMoves ==
    \/ arrived' = arrived /\ maildrop' \subseteq maildrop
    \/ arrived' = arrived + 1 /\ maildrop' = maildrop \cup {arrived + 1}

\* No command comes to have a key in mind that is not one of a row.
Minds == \A p \in Procs : \A k \in mem'[p].gone : k \in mem[p].gone \/ k \in Used

LocksOfOthersStay(p) ==
    \A f \in Folders : locks[f] # p /\ locks[f] # NoProc => locks'[f] = locks[f]

Calm == Shrinks /\ Distinct' /\ ServerMoves /\ Minds /\ nextNum' = nextNum

LEMMA NoChangeShrinks == UNCHANGED rows => Shrinks /\ (Distinct => Distinct')
BY DEF Shrinks, Distinct, Used

LEMMA CalmFacts ==
    ASSUME Inductive, Calm
    PROVE  /\ Stored' \subseteq Stored
           /\ Arrived' /\ Above(nextNum)'
           /\ \A n : Above(n) => Above(n)'
           /\ maildrop' \cap Stored' \subseteq maildrop
<1>1. Stored' \subseteq Stored  BY DEF Calm, Shrinks, Stored
<1>2. arrived \in Nat /\ maildrop \subseteq 1 .. arrived /\ Stored \subseteq 1 .. arrived
  BY PopAssumption DEF Inductive, TypeOK, Arrived
<1>3. Arrived'
  <2>1. 1 .. arrived \subseteq 1 .. arrived' /\ maildrop' \subseteq 1 .. arrived'
    <3>1. CASE arrived' = arrived /\ maildrop' \subseteq maildrop  BY <1>2, <3>1
    <3>2. CASE arrived' = arrived + 1 /\ maildrop' = maildrop \cup {arrived + 1}
      <4>1. 1 .. arrived \subseteq 1 .. arrived' /\ arrived + 1 \in 1 .. arrived'
        BY <1>2, <3>2
      <4> QED BY <1>2, <3>2, <4>1
    <3> QED BY <3>1, <3>2 DEF Calm, ServerMoves
  <2>2. Stored' \subseteq 1 .. arrived'  BY <1>1, <1>2, <2>1
  <2> QED BY <2>1, <2>2 DEF Arrived
<1>4. maildrop' \cap Stored' \subseteq maildrop  BY <1>1, <1>2 DEF Calm, ServerMoves
<1>5. ASSUME NEW n, Above(n) PROVE Above(n)'
  <2>1. \A k \in Used' : k[2] < n  BY <1>5 DEF Above, Calm, Shrinks
  <2>2. \A p \in Procs : \A k \in mem'[p].gone : k[2] < n  BY <1>5 DEF Above, Calm, Minds
  <2> QED BY <2>1, <2>2 DEF Above
<1>6. Above(nextNum)'
  <2>1. Above(nextNum)  BY DEF Inductive
  <2>2. PICK n : n = nextNum  OBVIOUS
  <2>3. Above(n)'  BY <1>5, <2>1, <2>2
  <2> QED BY <2>2, <2>3 DEF Calm, Above
<1> QED BY <1>1, <1>3, <1>4, <1>5, <1>6

\* A process that does not act keeps its part of the invariant.
LEMMA OtherKeeps ==
    ASSUME Inductive, Calm, NEW q \in Procs, pc'[q] = pc[q], mem'[q] = mem[q],
           \A f \in Folders : locks[f] = q => locks'[f] = q
    PROVE  ProcInv(q)'
<1>1. ProcInv(q) /\ mem[q].folder \in Folders /\ mem[q].cur \in Nat
  BY MemFacts DEF Inductive
<1>2. Role(q)'  BY <1>1 DEF ProcInv, Role, Syncs
<1>3. Numbering(q)'
  <2>1. PICK n : n = mem[q].cur  OBVIOUS
  <2>2. pc[q] = "upsert" => Above(n)'  BY <1>1, <2>1, CalmFacts DEF ProcInv, Numbering
  <2>3. mem'[q].cur = n  BY <2>1
  <2>4. pc[q] = "upsert" => Above(mem[q].cur)'  BY <2>2, <2>3 DEF Above
  <2> QED BY <1>1, <2>4 DEF ProcInv, Numbering, Calm
<1>4. Fetched(q)'
  <2>1. arrived \in Nat /\ arrived' \in {arrived, arrived + 1}
    BY PopAssumption DEF Inductive, TypeOK, Calm, ServerMoves
  <2>2. 1 .. arrived \subseteq 1 .. arrived'  BY <2>1
  <2> QED BY <1>1, <2>2, CalmFacts DEF ProcInv, Fetched
<1>5. Doomed(q)'
  <2> SUFFICES ASSUME pc[q] = "delete", NEW k \in mem[q].gone
               PROVE  k[1] = Inbox /\ \A l \in Used' : l[2] = k[2] => rows'[l] \notin mem[q].all
    BY DEF Doomed
  <2>1. \A l \in Used : l[2] = k[2] => rows[l] \notin mem[q].all  BY <1>1 DEF ProcInv, Doomed
  <2>2. k[1] = Inbox  BY <1>1 DEF ProcInv, Doomed
  <2> QED BY <2>1, <2>2 DEF Calm, Shrinks
<1> QED BY <1>2, <1>3, <1>4, <1>5 DEF ProcInv

LEMMA CalmStep ==
    ASSUME Inductive, TypeOK', Calm, NEW p \in Procs, LocksOfOthersStay(p), ProcInv(p)',
           \A q \in Procs : q # p => pc'[q] = pc[q] /\ mem'[q] = mem[q]
    PROVE  Inductive'
<1>1. ASSUME NEW q \in Procs, q # p PROVE ProcInv(q)'
  <2>1. \A f \in Folders : locks[f] = q => locks'[f] = q
    BY <1>1, PopAssumption DEF LocksOfOthersStay
  <2> QED BY <1>1, <2>1, OtherKeeps
<1> QED BY <1>1, CalmFacts DEF Inductive, Calm

\* The end of a command, however it comes.
LEMMA EndKeeps ==
    ASSUME Inductive, TypeOK', NEW p \in Procs, End(p), UNCHANGED <<serverVars, dbVars>>
    PROVE  Inductive'
<1>1. TypeOK  BY DEF Inductive
<1>2. Goto(p, "idle", NoMem)  BY DEF End
<1>3. /\ pc'[p] = "idle" /\ mem'[p] = NoMem
      /\ \A q \in Procs : q # p => pc'[q] = pc[q] /\ mem'[q] = mem[q]
  BY <1>1, <1>2, GotoFacts
<1>4. Minds  BY <1>3 DEF Minds, NoMem
<1>5. Calm  BY <1>4, NoChangeShrinks DEF Calm, ServerMoves, serverVars, dbVars, Inductive
<1>6. LocksOfOthersStay(p)  BY DEF LocksOfOthersStay, End
<1>7. ProcInv(p)'
  BY <1>3 DEF ProcInv, Role, Numbering, Fetched, Doomed, SyncLabels, Inserting, PurgeLabels,
       Syncs, NoMem
<1> QED BY <1>3, <1>5, <1>6, <1>7, CalmStep

LEMMA ServerKeeps == ASSUME Inductive, TypeOK', ServerStep PROVE Inductive'
<1>1. UNCHANGED <<dbVars, locks, pc, mem>> /\ ServerMoves
  BY DEF ServerStep, Deliver, Expire, ServerMoves
<1>2. Calm  BY <1>1, NoChangeShrinks DEF Calm, Minds, dbVars, Inductive
<1>3. \A q \in Procs : ProcInv(q)'  BY <1>1, <1>2, OtherKeeps
<1> QED BY <1>2, <1>3, CalmFacts DEF Inductive, Calm

(***************************************************************************)
(* Changes of the rows.                                                    *)
(***************************************************************************)
LEMMA RemovalShrinks ==
    ASSUME Distinct, \A k \in Used' : k \in Used /\ rows'[k] = rows[k]
    PROVE  Shrinks /\ Distinct'
BY DEF Shrinks, Distinct

LEMMA DeletionShrinks ==
    ASSUME Inductive, NEW k, rows' = [rows EXCEPT ![k] = 0]
    PROVE  Shrinks /\ Distinct'
<1>1. rows \in [Keys -> 0 .. MaxMail]  BY DEF Inductive, TypeOK
<1>2. \A l \in Used' : l \in Used /\ rows'[l] = rows[l]  BY <1>1 DEF Used
<1> QED BY <1>2, RemovalShrinks DEF Inductive

\* A row that is filed elsewhere keeps its mail and its number.
LEMMA RefileShrinks ==
    ASSUME Inductive, NEW f \in Folders, NEW g \in Folders, f # g, NEW n \in Nums,
           Refilable(f, g, n), rows' = Refile(f, g, n)
    PROVE  /\ Shrinks /\ Distinct' /\ Stored' = Stored
           /\ <<f, n>> \notin Used'
           /\ \A k \in Used' : k = <<g, n>> \/ (k \in Used /\ rows'[k] = rows[k])
<1> DEFINE fk == <<f, n>>
           gk == <<g, n>>
<1>1. /\ rows \in [Keys -> 0 .. MaxMail] /\ fk \in Keys /\ gk \in Keys /\ fk # gk
      /\ fk[2] = n /\ gk[2] = n /\ Distinct
  BY KeyFacts DEF Inductive, TypeOK
<1>2. rows' = IF rows[fk] = 0 THEN rows ELSE [rows EXCEPT ![gk] = rows[fk], ![fk] = 0]
  BY DEF Refile
<1>3. rows[fk] # 0 => rows[gk] = 0  BY DEF Refilable
<1> HIDE DEF fk, gk
<1>4. CASE rows[fk] = 0
  <2>1. rows' = rows  BY <1>2, <1>4
  <2>2. fk \notin Used'  BY <1>4, <2>1 DEF Used
  <2> QED BY <1>1, <2>1, <2>2, NoChangeShrinks DEF Stored, Used, fk, gk
<1>5. CASE rows[fk] # 0
  <2>1. /\ rows'[gk] = rows[fk] /\ rows'[fk] = 0
        /\ \A k \in Keys : k # fk /\ k # gk => rows'[k] = rows[k]
    BY <1>1, <1>2, <1>5
  <2>2. fk \in Used /\ gk \notin Used /\ gk \in Used' /\ fk \notin Used'
    BY <1>1, <1>3, <1>5, <2>1 DEF Used
  <2>3. \A k \in Used' : k = gk \/ (k \in Used /\ k # fk /\ rows'[k] = rows[k])
    BY <2>1, <2>2 DEF Used
  <2>4. \A k \in Used : k = fk \/ (k \in Used' /\ rows'[k] = rows[k])
    BY <2>1, <2>2 DEF Used
  <2>5. Shrinks  BY <1>1, <2>1, <2>2, <2>3 DEF Shrinks
  <2>6. Distinct'  BY <1>1, <2>1, <2>2, <2>3 DEF Distinct
  <2>7. Stored' = Stored
    <3>1. Stored' \subseteq Stored  BY <2>5 DEF Shrinks, Stored
    <3>2. ASSUME NEW k \in Used PROVE \E l \in Used' : rows'[l] = rows[k]
      BY <2>1, <2>2, <2>4
    <3>3. Stored \subseteq Stored'  BY <3>2 DEF Stored
    <3> QED BY <3>1, <3>3
  <2> QED BY <2>2, <2>3, <2>5, <2>6, <2>7 DEF fk, gk
<1> QED BY <1>4, <1>5

(***************************************************************************)
(* The steps of a sync.  Those that leave the table alone:                 *)
(***************************************************************************)
\* Not to repeat it: a step of p from l to m that reads, or writes rows without a new one.
LEMMA PlainStep ==
    ASSUME Inductive, TypeOK', NEW p \in Procs, NEW l, NEW m, Goto(p, l, m),
           m.gone \subseteq mem[p].gone \cup Used, Shrinks, Distinct', ServerMoves,
           UNCHANGED <<nextNum, locks>>, ProcInv(p)'
    PROVE  Inductive'
<1>1. /\ mem'[p] = m
      /\ \A q \in Procs : q # p => pc'[q] = pc[q] /\ mem'[q] = mem[q]
  BY GotoFacts DEF Inductive
<1>2. Calm  BY <1>1 DEF Calm, Minds
<1>3. LocksOfOthersStay(p)  BY DEF LocksOfOthersStay
<1> QED BY <1>1, <1>2, <1>3, CalmStep

LEMMA Reads ==
    ASSUME Inductive, UNCHANGED <<serverVars, dbVars>>
    PROVE  /\ Shrinks /\ Distinct' /\ ServerMoves
           /\ Stored' = Stored /\ Used' = Used
BY NoChangeShrinks DEF Inductive, ServerMoves, serverVars, dbVars, Stored, Used

LEMMA AcquireKeeps ==
    ASSUME Inductive, TypeOK', NEW p \in Procs, NEW cmd \in {"sync", "older"},
           NEW f \in SyncFolders, Acquire(p, cmd, f)
    PROVE  Inductive'
<1>1. PICK m : m = [NoMem EXCEPT !.cmd = cmd, !.folder = f]  OBVIOUS
<1>2. m.cmd = cmd /\ m.folder = f /\ m.gone = {}  BY <1>1 DEF NoMem
<1>3. Goto(p, "known", m) /\ UNCHANGED <<serverVars, dbVars>>  BY <1>1 DEF Acquire
<1>4. /\ pc'[p] = "known" /\ mem'[p] = m
      /\ \A q \in Procs : q # p => pc'[q] = pc[q] /\ mem'[q] = mem[q]
  BY <1>3, GotoFacts DEF Inductive
<1>5. f \in Folders /\ locks[f] = NoProc /\ locks' = [locks EXCEPT ![f] = p]
      /\ locks \in [Folders -> Procs \cup {NoProc}]
  BY PopAssumption DEF Acquire, Inductive, TypeOK
<1>6. LocksOfOthersStay(p) /\ locks'[f] = p  BY <1>5 DEF LocksOfOthersStay
<1>7. ProcInv(p)'
  BY <1>2, <1>4, <1>6 DEF ProcInv, Role, Numbering, Fetched, Doomed, SyncLabels, Inserting,
       PurgeLabels, Syncs
<1>8. Calm  BY <1>2, <1>3, <1>4, Reads DEF Calm, Minds, dbVars
<1> QED BY <1>4, <1>6, <1>7, <1>8, CalmStep

LEMMA ReadKnownKeeps ==
    ASSUME Inductive, TypeOK', NEW p \in Procs, ReadKnown(p)
    PROVE  Inductive'
<1>1. PICK m : m = [mem[p] EXCEPT !.known = Stored]  OBVIOUS
<1>2. mem[p] \in ProcMem /\ ProcInv(p) /\ pc[p] = "known" /\ Goto(p, "fetch", m)
      /\ UNCHANGED <<serverVars, dbVars, locks>>
  BY <1>1, MemFacts DEF ReadKnown, Reading, At, Inductive
<1>3. m.cmd = mem[p].cmd /\ m.folder = mem[p].folder /\ m.gone = mem[p].gone /\ m.known = Stored
  BY <1>1, <1>2 DEF ProcMem
<1>4. pc'[p] = "fetch" /\ mem'[p] = m  BY <1>2, GotoFacts DEF Inductive
<1>5. ProcInv(p)'
  BY <1>2, <1>3, <1>4, Reads DEF ProcInv, Role, Numbering, Fetched, Doomed, SyncLabels,
       Inserting, PurgeLabels, Syncs
<1> QED BY <1>2, <1>3, <1>5, Reads, PlainStep DEF dbVars

LEMMA FetchKeeps ==
    ASSUME Inductive, TypeOK', NEW p \in Procs, Fetch(p)
    PROVE  Inductive'
<1>1. PICK got \in SUBSET Wanted(p, maildrop \ mem[p].known) :
        Goto(p, "number", [mem[p] EXCEPT !.all = maildrop, !.todo = got])
  BY DEF Fetch
<1>2. PICK m : m = [mem[p] EXCEPT !.all = maildrop, !.todo = got]  OBVIOUS
<1>3. mem[p] \in ProcMem /\ ProcInv(p) /\ pc[p] = "fetch" /\ Goto(p, "number", m)
      /\ UNCHANGED <<serverVars, dbVars, locks>>
  BY <1>1, <1>2, MemFacts DEF Fetch, At, Inductive
<1>4. m.cmd = mem[p].cmd /\ m.folder = mem[p].folder /\ m.gone = mem[p].gone
      /\ m.all = maildrop /\ m.todo = got
  BY <1>2, <1>3 DEF ProcMem
<1>5. pc'[p] = "number" /\ mem'[p] = m  BY <1>3, GotoFacts DEF Inductive
<1>6. got \subseteq maildrop /\ got \cap Stored = {}
  BY <1>3, WantedUnknown DEF ProcInv, Fetched
<1>7. maildrop \subseteq 1 .. arrived /\ maildrop' = maildrop /\ arrived' = arrived
  BY <1>3 DEF Inductive, Arrived, serverVars
<1>8. ProcInv(p)'
  BY <1>3, <1>4, <1>5, <1>6, <1>7, Reads DEF ProcInv, Role, Numbering, Fetched, Doomed,
       SyncLabels, Inserting, PurgeLabels, Syncs
<1> QED BY <1>3, <1>4, <1>8, Reads, PlainStep DEF dbVars

LEMMA ReadNumberKeeps ==
    ASSUME Inductive, TypeOK', NEW p \in Procs, ReadNumber(p)
    PROVE  Inductive'
<1>1. PICK m : m = [mem[p] EXCEPT !.cur = nextNum]  OBVIOUS
<1>2. mem[p] \in ProcMem /\ ProcInv(p) /\ pc[p] = "number" /\ Goto(p, "bump", m)
      /\ UNCHANGED <<serverVars, dbVars, locks>>
  BY <1>1, MemFacts DEF ReadNumber, Reading, At, Inductive
<1>3. m.cmd = mem[p].cmd /\ m.folder = mem[p].folder /\ m.gone = mem[p].gone
      /\ m.all = mem[p].all /\ m.todo = mem[p].todo /\ m.cur = nextNum
  BY <1>1, <1>2 DEF ProcMem
<1>4. pc'[p] = "bump" /\ mem'[p] = m  BY <1>2, GotoFacts DEF Inductive
<1>5. maildrop' = maildrop /\ arrived' = arrived /\ nextNum' = nextNum
  BY <1>2 DEF serverVars, dbVars
<1>6. ProcInv(p)'
  BY <1>2, <1>3, <1>4, <1>5, Reads DEF ProcInv, Role, Numbering, Fetched, Doomed,
       SyncLabels, Inserting, PurgeLabels, Syncs
<1> QED BY <1>2, <1>3, <1>6, Reads, PlainStep DEF dbVars

LEMMA BumpNumberKeeps ==
    ASSUME OneLock, Inductive, TypeOK', NEW p \in Procs, BumpNumber(p)
    PROVE  Inductive'
<1>1. /\ ProcInv(p) /\ pc[p] = "bump" /\ nextNum' = mem[p].cur + 1 /\ rows' = rows
      /\ UNCHANGED <<serverVars, locks>> /\ Goto(p, "upsert", mem[p])
      /\ nextNum \in 1 .. MaxNum + 1 /\ mem[p].cur \in 0 .. MaxNum /\ mem[p] \in ProcMem
  BY MemFacts DEF BumpNumber, Writing, At, Inductive, TypeOK, ProcMem
<1>2. /\ pc'[p] = "upsert" /\ mem'[p] = mem[p]
      /\ \A q \in Procs : q # p => pc'[q] = pc[q] /\ mem'[q] = mem[q]
  BY <1>1, GotoFacts DEF Inductive
<1>3. Used' = Used /\ Stored' = Stored  BY <1>1 DEF Used, Stored
<1>4. \A q \in Procs : mem'[q] = mem[q]  BY <1>2
<1>5. PICK n : n = nextNum  OBVIOUS
<1>6. n \in Nums /\ mem[p].cur = n /\ nextNum' = n + 1
  BY <1>1, <1>5, PopAssumption DEF ProcInv, Numbering, Nums
<1>7. Above(n)  BY <1>5 DEF Inductive
<1>8. Above(n)'  BY <1>3, <1>4, <1>7 DEF Above
<1>9. Above(nextNum)'
  <2>1. \A k \in Used : k[2] \in Nat /\ k[2] < n  BY <1>7, KeyFacts DEF Above, Nums
  <2>2. \A q \in Procs : \A k \in mem[q].gone : k[2] \in Nat /\ k[2] < n
    BY <1>7, MemFacts, KeyFacts DEF Above, Nums, Inductive
  <2> QED BY <1>3, <1>4, <1>6, <2>1, <2>2, PopAssumption DEF Above, Nums
<1>10. Distinct' /\ Arrived'
  BY <1>1, <1>3 DEF Inductive, Distinct, Arrived, serverVars
<1>11. ProcInv(p)'
  <2>1. Role(p)'  BY <1>1, <1>2 DEF ProcInv, Role, Syncs, SyncLabels, PurgeLabels
  <2>2. Numbering(p)'
    <3>1. Above(mem[p].cur)'  BY <1>2, <1>6, <1>8 DEF Above
    <3> QED BY <1>2, <1>6, <3>1, PopAssumption DEF Numbering, Nums
  <2>3. Fetched(p)'  BY <1>1, <1>2, <1>3 DEF ProcInv, Fetched, Inserting, serverVars
  <2>4. Doomed(p)'  BY <1>2 DEF Doomed
  <2> QED BY <2>1, <2>2, <2>3, <2>4 DEF ProcInv
<1>12. ASSUME NEW q \in Procs, q # p PROVE ProcInv(q)'
  <2>1. pc'[q] = pc[q] /\ mem'[q] = mem[q] /\ ProcInv(q)  BY <1>2, <1>12 DEF Inductive
  <2>2. Syncs(p)  BY <1>1 DEF ProcInv, Role, SyncLabels
  <2>3. pc[q] \notin SyncLabels  BY <1>12, <2>1, <2>2, OneSync DEF ProcInv, Role
  <2> QED BY <1>1, <2>1, <2>3 DEF ProcInv, Role, Syncs, Numbering, Fetched, Doomed, SyncLabels,
               Inserting
<1> QED BY <1>9, <1>10, <1>11, <1>12 DEF Inductive

LEMMA InsertDoneKeeps ==
    ASSUME Inductive, TypeOK', NEW p \in Procs, InsertDone(p)
    PROVE  Inductive'
<1>1. PICK l : l = IF mem[p].cmd = "sync" THEN "rows" ELSE "finish"  OBVIOUS
<1>2. ProcInv(p) /\ pc[p] = "number" /\ Goto(p, l, mem[p])
      /\ UNCHANGED <<serverVars, dbVars, locks>>
  BY <1>1 DEF InsertDone, Reading, At, Inductive
<1>3. pc'[p] = l /\ mem'[p] = mem[p]  BY <1>2, GotoFacts DEF Inductive
<1>4. maildrop' = maildrop /\ arrived' = arrived  BY <1>2 DEF serverVars
<1>5. ProcInv(p)'
  BY <1>1, <1>2, <1>3, <1>4, Reads DEF ProcInv, Role, Numbering, Fetched, Doomed,
       SyncLabels, Inserting, PurgeLabels, Syncs
<1> QED BY <1>2, <1>5, Reads, PlainStep DEF dbVars

\* The row of the first mail that was fetched: its key and its mail are new.
LEMMA InsertFacts ==
    ASSUME OneLock, Inductive, NEW p \in Procs, InsertRow(p)
    PROVE  \E key \in Keys, m \in mem[p].todo :
             /\ key = <<Inbox, mem[p].cur>>
             /\ rows' = [rows EXCEPT ![key] = m]
             /\ Goto(p, "number", [mem[p] EXCEPT !.todo = @ \ {m}, !.placed[m] = mem[p].cur])
             /\ m \in Mails /\ m \notin Stored /\ m \in mem[p].all
             /\ \A l \in Used : l[2] < mem[p].cur
             /\ Used' = Used \cup {key} /\ rows'[key] = m
             /\ \A l \in Used : l # key /\ rows'[l] = rows[l]
             /\ Stored' = Stored \cup {m}
<1>1. PICK m \in mem[p].todo :
        /\ rows' = [rows EXCEPT ![<<Inbox, mem[p].cur>>] = m]
        /\ Goto(p, "number", [mem[p] EXCEPT !.todo = @ \ {m}, !.placed[m] = mem[p].cur])
  BY DEF InsertRow
<1>2. PICK key : key = <<Inbox, mem[p].cur>>  OBVIOUS
<1>3. ProcInv(p) /\ pc[p] = "upsert"  BY DEF InsertRow, At, Inductive
<1>4. /\ m \in Mails /\ m \notin Stored /\ m \in mem[p].all /\ mem[p].cur \in Nums
      /\ \A l \in Used : l[2] < mem[p].cur
  BY <1>3, MemFacts DEF ProcInv, Fetched, Numbering, Above, Inserting, Inductive
<1>5. key \in Keys /\ key[2] = mem[p].cur  BY <1>2, <1>4, KeyFacts DEF Folders
<1>6. \A l \in Used : l # key
  <2>1. ~(mem[p].cur < mem[p].cur)  BY <1>4 DEF Nums
  <2> QED BY <1>4, <1>5, <2>1
<1>7. rows' = [rows EXCEPT ![key] = m] /\ rows \in [Keys -> 0 .. MaxMail] /\ m # 0
  BY <1>1, <1>2, <1>4, PopAssumption DEF Inductive, TypeOK, Mails
<1>8. Used' = Used \cup {key} /\ rows'[key] = m /\ \A l \in Used : rows'[l] = rows[l]
  BY <1>5, <1>6, <1>7 DEF Used
<1>9. Stored' = Stored \cup {m}
  <2>1. Stored' = {rows'[k] : k \in Used'}  BY DEF Stored
  <2> QED BY <1>8, <2>1 DEF Stored
<1> QED BY <1>1, <1>2, <1>4, <1>5, <1>6, <1>7, <1>8, <1>9

LEMMA InsertRowKeeps ==
    ASSUME OneLock, Inductive, TypeOK', NEW p \in Procs, InsertRow(p)
    PROVE  Inductive'
<1>1. PICK key \in Keys, m \in mem[p].todo :
        /\ key = <<Inbox, mem[p].cur>>
        /\ Goto(p, "number", [mem[p] EXCEPT !.todo = @ \ {m}, !.placed[m] = mem[p].cur])
        /\ m \in Mails /\ m \notin Stored /\ m \in mem[p].all
        /\ \A l \in Used : l[2] < mem[p].cur
        /\ Used' = Used \cup {key} /\ rows'[key] = m
        /\ \A l \in Used : l # key /\ rows'[l] = rows[l]
        /\ Stored' = Stored \cup {m}
  BY InsertFacts
<1>2. PICK n : n = [mem[p] EXCEPT !.todo = @ \ {m}, !.placed[m] = mem[p].cur]  OBVIOUS
<1>3. /\ ProcInv(p) /\ pc[p] = "upsert" /\ mem[p] \in ProcMem /\ mem[p].cur \in Nums
      /\ UNCHANGED <<serverVars, locks, nextNum>> /\ Goto(p, "number", n)
      /\ mem[p].cur < nextNum
  BY <1>1, <1>2, MemFacts DEF InsertRow, Writing, At, Inductive, ProcInv, Numbering
<1>4. n.cmd = mem[p].cmd /\ n.folder = mem[p].folder /\ n.gone = mem[p].gone
      /\ n.all = mem[p].all /\ n.todo = mem[p].todo \ {m}
  BY <1>2, <1>3 DEF ProcMem
<1>5. /\ pc'[p] = "number" /\ mem'[p] = n
      /\ \A q \in Procs : q # p => pc'[q] = pc[q] /\ mem'[q] = mem[q]
  BY <1>3, GotoFacts DEF Inductive
<1>6. Distinct'
  <2>1. key[2] = mem[p].cur /\ mem[p].cur \in Nat /\ \A l \in Used : l[2] # key[2]
    BY <1>1, <1>3 DEF Nums
  <2>2. \A l \in Used : rows[l] # m  BY <1>1 DEF Stored
  <2> QED BY <1>1, <2>1, <2>2 DEF Inductive, Distinct
<1>7. Above(nextNum)'
  <2>1. \A k \in Used' : k[2] < nextNum  BY <1>1, <1>3 DEF Inductive, Above
  <2>2. \A q \in Procs : \A k \in mem'[q].gone : k[2] < nextNum
    BY <1>4, <1>5 DEF Inductive, Above
  <2> QED BY <1>3, <2>1, <2>2 DEF Above
<1>8. Arrived' /\ m \in 1 .. arrived
  BY <1>1, <1>3 DEF Inductive, Arrived, ProcInv, Fetched, Inserting, serverVars
<1>9. ProcInv(p)'
  <2>1. Role(p)'  BY <1>3, <1>4, <1>5 DEF ProcInv, Role, Syncs, SyncLabels, PurgeLabels
  <2>2. Numbering(p)' /\ Doomed(p)'  BY <1>5 DEF Numbering, Doomed
  <2>3. Fetched(p)'  BY <1>1, <1>3, <1>4, <1>5 DEF ProcInv, Fetched, Inserting, serverVars
  <2> QED BY <2>1, <2>2, <2>3 DEF ProcInv
<1>10. ASSUME NEW q \in Procs, q # p PROVE ProcInv(q)'
  <2>1. pc'[q] = pc[q] /\ mem'[q] = mem[q] /\ ProcInv(q)  BY <1>5, <1>10 DEF Inductive
  <2>2. Syncs(p)  BY <1>3 DEF ProcInv, Role, SyncLabels
  <2>3. pc[q] \notin SyncLabels  BY <1>10, <2>1, <2>2, OneSync DEF ProcInv, Role
  <2> QED BY <1>3, <2>1, <2>3 DEF ProcInv, Role, Syncs, Numbering, Fetched, Doomed, SyncLabels,
               Inserting
<1> QED BY <1>6, <1>7, <1>8, <1>9, <1>10 DEF Inductive

LEMMA ReadRowsKeeps ==
    ASSUME Inductive, TypeOK', NEW p \in Procs, ReadRows(p)
    PROVE  Inductive'
<1>1. PICK m : m = [mem[p] EXCEPT !.gone = Gone(mem[p].all)]  OBVIOUS
<1>2. mem[p] \in ProcMem /\ ProcInv(p) /\ pc[p] = "rows" /\ Goto(p, "delete", m)
      /\ UNCHANGED <<serverVars, dbVars, locks>>
  BY <1>1, MemFacts DEF ReadRows, Reading, At, Inductive
<1>3. m.cmd = mem[p].cmd /\ m.folder = mem[p].folder /\ m.gone = Gone(mem[p].all)
      /\ m.all = mem[p].all
  BY <1>1, <1>2 DEF ProcMem
<1>4. pc'[p] = "delete" /\ mem'[p] = m  BY <1>2, GotoFacts DEF Inductive
<1>5. maildrop' = maildrop /\ arrived' = arrived /\ rows' = rows
  BY <1>2 DEF serverVars, dbVars
<1>6. ASSUME NEW k \in Gone(mem[p].all)
      PROVE  k \in Used /\ k[1] = Inbox /\ \A l \in Used : l[2] = k[2] => rows[l] \notin mem[p].all
  BY DEF Gone, Inductive, Distinct
<1>7. Doomed(p)'  BY <1>3, <1>4, <1>5, <1>6, <1>2, Reads DEF Doomed
<1>8. Role(p)' /\ Numbering(p)' /\ Fetched(p)'
  BY <1>2, <1>3, <1>4, <1>5, Reads DEF ProcInv, Role, Numbering, Fetched,
       SyncLabels, Inserting, PurgeLabels, Syncs
<1> QED BY <1>2, <1>3, <1>6, <1>7, <1>8, Reads, PlainStep DEF dbVars, ProcInv

LEMMA DeleteGoneKeeps ==
    ASSUME Inductive, TypeOK', NEW p \in Procs, DeleteGone(p)
    PROVE  Inductive'
<1>1. PICK k \in mem[p].gone :
        /\ rows' = [rows EXCEPT ![k] = 0]
        /\ Goto(p, "delete", [mem[p] EXCEPT !.gone = @ \ {k}])
  BY DEF DeleteGone
<1>2. PICK m : m = [mem[p] EXCEPT !.gone = @ \ {k}]  OBVIOUS
<1>3. mem[p] \in ProcMem /\ ProcInv(p) /\ pc[p] = "delete" /\ Goto(p, "delete", m)
      /\ UNCHANGED <<serverVars, nextNum, locks>>
  BY <1>1, <1>2, MemFacts DEF DeleteGone, Writing, At, Inductive
<1>4. m.cmd = mem[p].cmd /\ m.folder = mem[p].folder /\ m.gone = mem[p].gone \ {k}
      /\ m.all = mem[p].all
  BY <1>2, <1>3 DEF ProcMem
<1>5. pc'[p] = "delete" /\ mem'[p] = m  BY <1>3, GotoFacts DEF Inductive
<1>6. Shrinks /\ Distinct'  BY <1>1, DeletionShrinks
<1>7. Stored' \subseteq Stored  BY <1>6 DEF Shrinks, Stored
<1>8. Doomed(p)'
  <2>1. \A j \in mem[p].gone :
          j[1] = Inbox /\ \A l \in Used : l[2] = j[2] => rows[l] \notin mem[p].all
    BY <1>3 DEF ProcInv, Doomed
  <2> QED BY <1>4, <1>5, <1>6, <2>1 DEF Shrinks, Doomed
<1>9. Role(p)' /\ Numbering(p)' /\ Fetched(p)'
  BY <1>3, <1>4, <1>5, <1>7 DEF ProcInv, Role, Numbering, Fetched,
       SyncLabels, Inserting, PurgeLabels, Syncs, serverVars
<1>10. ServerMoves  BY <1>3 DEF ServerMoves, serverVars
<1> QED BY <1>3, <1>4, <1>6, <1>8, <1>9, <1>10, PlainStep DEF ProcInv

LEMMA DeleteDoneKeeps ==
    ASSUME Inductive, TypeOK', NEW p \in Procs, DeleteDone(p)
    PROVE  Inductive'
<1>1. PICK m : m = [mem[p] EXCEPT !.todo = {u \in Filtered : mem[p].placed[u] # 0}]  OBVIOUS
<1>2. mem[p] \in ProcMem /\ ProcInv(p) /\ pc[p] = "delete" /\ Goto(p, "organize", m)
      /\ UNCHANGED <<serverVars, dbVars, locks>>
  BY <1>1, MemFacts DEF DeleteDone, Reading, At, Inductive
<1>3. m.cmd = mem[p].cmd /\ m.folder = mem[p].folder /\ m.gone = mem[p].gone
      /\ m.placed = mem[p].placed /\ m.todo = {u \in Filtered : mem[p].placed[u] # 0}
  BY <1>1, <1>2 DEF ProcMem
<1>4. pc'[p] = "organize" /\ mem'[p] = m  BY <1>2, GotoFacts DEF Inductive
<1>5. ProcInv(p)'
  BY <1>2, <1>3, <1>4 DEF ProcInv, Role, Numbering, Fetched, Doomed,
       SyncLabels, Inserting, PurgeLabels, Syncs
<1> QED BY <1>2, <1>3, <1>5, Reads, PlainStep DEF dbVars

\* What a sync files by the rules keeps its number.
LEMMA OrganizeFacts ==
    ASSUME Inductive, NEW p \in Procs, Organize(p)
    PROVE  \E m \in mem[p].todo :
             /\ mem[p].placed[m] \in Nums
             /\ Refilable(Inbox, Local, mem[p].placed[m])
             /\ rows' = Refile(Inbox, Local, mem[p].placed[m])
             /\ Goto(p, "organize", [mem[p] EXCEPT !.todo = @ \ {m}])
             /\ Shrinks /\ Distinct' /\ Stored' = Stored
<1>1. PICK m \in mem[p].todo :
        /\ Refilable(Inbox, Local, mem[p].placed[m])
        /\ rows' = Refile(Inbox, Local, mem[p].placed[m])
        /\ Goto(p, "organize", [mem[p] EXCEPT !.todo = @ \ {m}])
  BY DEF Organize
<1>2. mem[p].todo \subseteq Mails /\ mem[p].placed \in [Mails -> 0 .. MaxNum]
      /\ ProcInv(p) /\ pc[p] = "organize"
  BY MemFacts DEF Inductive, Organize, At
<1>3. mem[p].placed[m] \in 0 .. MaxNum /\ mem[p].placed[m] # 0
  BY <1>2 DEF ProcInv, Numbering
<1>4. mem[p].placed[m] \in Nums  BY <1>3, PopAssumption DEF Nums
<1>5. Inbox \in Folders /\ Local \in Folders /\ Inbox # Local  BY PopAssumption DEF Folders
<1>6. PICK n \in Nums : n = mem[p].placed[m]  BY <1>4
<1>7. Refilable(Inbox, Local, n) /\ rows' = Refile(Inbox, Local, n)  BY <1>1, <1>6
<1>8. Shrinks /\ Distinct' /\ Stored' = Stored  BY <1>5, <1>7, RefileShrinks
<1> QED BY <1>1, <1>4, <1>8

LEMMA OrganizeKeeps ==
    ASSUME Inductive, TypeOK', NEW p \in Procs, Organize(p)
    PROVE  Inductive'
<1>1. PICK u \in mem[p].todo :
        Goto(p, "organize", [mem[p] EXCEPT !.todo = @ \ {u}]) /\ Shrinks /\ Distinct'
  BY OrganizeFacts
<1>2. PICK m : m = [mem[p] EXCEPT !.todo = @ \ {u}]  OBVIOUS
<1>3. mem[p] \in ProcMem /\ ProcInv(p) /\ pc[p] = "organize" /\ Goto(p, "organize", m)
      /\ UNCHANGED <<serverVars, nextNum, locks>>
  BY <1>1, <1>2, MemFacts DEF Organize, Writing, At, Inductive
<1>4. m.cmd = mem[p].cmd /\ m.folder = mem[p].folder /\ m.gone = mem[p].gone
      /\ m.placed = mem[p].placed /\ m.todo = mem[p].todo \ {u}
  BY <1>2, <1>3 DEF ProcMem
<1>5. pc'[p] = "organize" /\ mem'[p] = m  BY <1>3, GotoFacts DEF Inductive
<1>6. ProcInv(p)'
  BY <1>3, <1>4, <1>5 DEF ProcInv, Role, Numbering, Fetched, Doomed,
       SyncLabels, Inserting, PurgeLabels, Syncs
<1>7. ServerMoves  BY <1>3 DEF ServerMoves, serverVars
<1> QED BY <1>1, <1>3, <1>4, <1>6, <1>7, PlainStep

LEMMA OrganizeDoneKeeps ==
    ASSUME Inductive, TypeOK', NEW p \in Procs, OrganizeDone(p)
    PROVE  Inductive'
<1>1. ProcInv(p) /\ pc[p] = "organize" /\ Goto(p, "finish", mem[p])
      /\ UNCHANGED <<serverVars, dbVars, locks>>
  BY DEF OrganizeDone, Reading, At, Inductive
<1>2. pc'[p] = "finish" /\ mem'[p] = mem[p]  BY <1>1, GotoFacts DEF Inductive
<1>3. ProcInv(p)'
  BY <1>1, <1>2 DEF ProcInv, Role, Numbering, Fetched, Doomed,
       SyncLabels, Inserting, PurgeLabels, Syncs
<1> QED BY <1>1, <1>3, Reads, PlainStep DEF dbVars

(***************************************************************************)
(* The user's commands.                                                    *)
(***************************************************************************)
\* One that is a single UPDATE or DELETE leaves every process where it is.
LEMMA UpdateKeeps ==
    ASSUME Inductive, TypeOK', Shrinks, Distinct',
           UNCHANGED <<serverVars, nextNum, locks, pc, mem>>
    PROVE  Inductive'
<1>1. Calm  BY DEF Calm, Minds, ServerMoves, serverVars
<1>2. \A q \in Procs : ProcInv(q)'  BY <1>1, OtherKeeps
<1> QED BY <1>1, <1>2, CalmFacts DEF Inductive, Calm

LEMMA MoveKeeps ==
    ASSUME Inductive, TypeOK', NEW p \in Procs, NEW k \in Keys, NEW to \in Folders, Move(p, k, to)
    PROVE  Inductive'
<1>1. k[1] \in Folders /\ k[2] \in Nums /\ k[1] # to  BY KeyFacts DEF Move
<1>2. Shrinks /\ Distinct'  BY <1>1, RefileShrinks DEF Move
<1> QED BY <1>2, UpdateKeeps DEF Move

LEMMA DeleteFolderKeeps ==
    ASSUME Inductive, TypeOK', NEW p \in Procs, DeleteFolder(p)
    PROVE  Inductive'
<1>1. \A k \in Used' : k \in Used /\ rows'[k] = rows[k]  BY DEF DeleteFolder, Used
<1>2. Shrinks /\ Distinct'  BY <1>1, RemovalShrinks DEF Inductive
<1> QED BY <1>2, UpdateKeeps DEF DeleteFolder

LEMMA PurgeStartKeeps ==
    ASSUME Inductive, TypeOK', NEW p \in Procs, NEW k \in Keys, PurgeStart(p, k)
    PROVE  Inductive'
<1>1. PICK m : m = [NoMem EXCEPT !.cmd = "purge", !.gone = {k}]  OBVIOUS
<1>2. m.cmd = "purge" /\ m.gone = {k}  BY <1>1 DEF NoMem
<1>3. Goto(p, "uidl", m) /\ UNCHANGED <<serverVars, dbVars, locks>> /\ k \in Used
  BY <1>1 DEF PurgeStart
<1>4. pc'[p] = "uidl" /\ mem'[p] = m  BY <1>3, GotoFacts DEF Inductive
<1>5. ProcInv(p)'
  BY <1>2, <1>4 DEF ProcInv, Role, Numbering, Fetched, Doomed, SyncLabels, Inserting,
       PurgeLabels, Syncs
<1> QED BY <1>2, <1>3, <1>5, Reads, PlainStep DEF dbVars

LEMMA ReadUidlKeeps ==
    ASSUME Inductive, TypeOK', NEW p \in Procs, ReadUidl(p)
    PROVE  Inductive'
<1>1. PICK l \in {"finish", "dele"} : \E t : Goto(p, l, [mem[p] EXCEPT !.todo = t])
  BY DEF ReadUidl
<1>2. PICK m : \E t : m = [mem[p] EXCEPT !.todo = t] /\ Goto(p, l, m)  BY <1>1
<1>3. mem[p] \in ProcMem /\ ProcInv(p) /\ pc[p] = "uidl" /\ Goto(p, l, m)
      /\ UNCHANGED <<serverVars, dbVars, locks>>
  BY <1>2, MemFacts DEF ReadUidl, Reading, At, Inductive
<1>4. m.cmd = mem[p].cmd /\ m.gone = mem[p].gone  BY <1>2, <1>3 DEF ProcMem
<1>5. pc'[p] = l /\ mem'[p] = m  BY <1>3, GotoFacts DEF Inductive
<1>6. ProcInv(p)'
  BY <1>3, <1>4, <1>5 DEF ProcInv, Role, Numbering, Fetched, Doomed, SyncLabels, Inserting,
       PurgeLabels, Syncs
<1> QED BY <1>3, <1>4, <1>6, Reads, PlainStep DEF dbVars

LEMMA PurgeOnServerKeeps ==
    ASSUME Inductive, TypeOK', NEW p \in Procs, PurgeOnServer(p)
    PROVE  Inductive'
<1>1. PICK l \in {"purgeRow", "finish"} : Goto(p, l, mem[p])  BY DEF PurgeOnServer
<1>2. ProcInv(p) /\ pc[p] = "dele" /\ UNCHANGED <<dbVars, locks>>
  BY DEF PurgeOnServer, At, Inductive
<1>3. ServerMoves  BY DEF PurgeOnServer, ServerMoves
<1>4. pc'[p] = l /\ mem'[p] = mem[p]  BY <1>1, GotoFacts DEF Inductive
<1>5. ProcInv(p)'
  BY <1>2, <1>4 DEF ProcInv, Role, Numbering, Fetched, Doomed, SyncLabels, Inserting,
       PurgeLabels, Syncs
<1>6. Shrinks /\ Distinct'  BY <1>2, NoChangeShrinks DEF dbVars, Inductive
<1> QED BY <1>1, <1>2, <1>3, <1>5, <1>6, PlainStep DEF dbVars

LEMMA PurgeRowKeeps ==
    ASSUME Inductive, TypeOK', NEW p \in Procs, PurgeRow(p)
    PROVE  Inductive'
<1>1. PICK k : rows' = [rows EXCEPT ![k] = 0]  BY DEF PurgeRow
<1>2. ProcInv(p) /\ pc[p] = "purgeRow" /\ UNCHANGED <<serverVars, nextNum, locks>>
      /\ Goto(p, "finish", mem[p])
  BY DEF PurgeRow, At, Inductive
<1>3. Shrinks /\ Distinct' /\ ServerMoves
  BY <1>1, <1>2, DeletionShrinks DEF ServerMoves, serverVars
<1>4. pc'[p] = "finish" /\ mem'[p] = mem[p]  BY <1>2, GotoFacts DEF Inductive
<1>5. ProcInv(p)'
  BY <1>2, <1>4 DEF ProcInv, Role, Numbering, Fetched, Doomed, SyncLabels, Inserting,
       PurgeLabels, Syncs
<1> QED BY <1>2, <1>3, <1>5, PlainStep

(***************************************************************************)
(* Every step.                                                             *)
(***************************************************************************)
LEMMA StutterKeeps == ASSUME Inductive, TypeOK', UNCHANGED vars PROVE Inductive'
<1>1. UNCHANGED <<serverVars, nextNum, locks, pc, mem>> /\ UNCHANGED rows
  BY DEF vars, serverVars
<1> QED BY <1>1, NoChangeShrinks, UpdateKeeps DEF Inductive

LEMMA StepInductive ==
    ASSUME OneLock, Inductive, [Next]_vars
    PROVE  Inductive'
<1>1. TypeOK'  BY TypeStep
<1>2. CASE UNCHANGED vars  BY <1>1, <1>2, StutterKeeps
<1>3. CASE ServerStep  BY <1>1, <1>3, ServerKeeps
<1>4. ASSUME NEW p \in Procs, Start(p) PROVE Inductive'
  BY <1>1, <1>4, AcquireKeeps, MoveKeeps, DeleteFolderKeeps, PurgeStartKeeps DEF Start
<1>5. ASSUME NEW p \in Procs, SyncStep(p) PROVE Inductive'
  <2>1. CASE ReadKnown(p)  BY <1>1, <2>1, ReadKnownKeeps
  <2>2. CASE Fetch(p)  BY <1>1, <2>2, FetchKeeps
  <2>3. CASE Insertion(p)
    BY <1>1, <2>3, ReadNumberKeeps, BumpNumberKeeps, InsertRowKeeps, InsertDoneKeeps
       DEF Insertion
  <2>4. CASE Deletion(p)
    BY <1>1, <2>4, ReadRowsKeeps, DeleteGoneKeeps, DeleteDoneKeeps DEF Deletion
  <2>5. CASE Organize(p) \/ OrganizeDone(p)
    BY <1>1, <2>5, OrganizeKeeps, OrganizeDoneKeeps
  <2> QED BY <1>5, <2>1, <2>2, <2>3, <2>4, <2>5 DEF SyncStep
<1>6. ASSUME NEW p \in Procs, PurgeStep(p) PROVE Inductive'
  BY <1>1, <1>6, ReadUidlKeeps, PurgeOnServerKeeps, PurgeRowKeeps DEF PurgeStep
<1>7. ASSUME NEW p \in Procs, Finish(p) \/ OutOfNumbers(p) \/ Abort(p) PROVE Inductive'
  BY <1>1, <1>7, EndKeeps DEF Finish, OutOfNumbers, Abort
<1> QED BY <1>2, <1>3, <1>4, <1>5, <1>6, <1>7 DEF Next, Run

LEMMA Always == ASSUME OneLock PROVE Spec => []Inductive
<1>1. Inductive /\ [Next]_vars => Inductive'  BY StepInductive
<1> QED BY <1>1, InitInductive, PTL DEF Spec

\* Every variable keeps its type: the numbers that pop_state gives out stay in their range.
THEOREM TypeCorrect == ASSUME OneLock PROVE Spec => []TypeOK
<1>1. Inductive => TypeOK  BY DEF Inductive
<1> QED BY <1>1, Always, PTL

\* core.rs:705-736: no mail has two rows and no number two mails, whatever fails
\* between the SELECT of pop_next_uid, its REPLACE and the INSERT OR REPLACE of the row.
THEOREM StoredOnce == ASSUME OneLock PROVE Spec => []Distinct
<1>1. Inductive => Distinct  BY DEF Inductive
<1> QED BY <1>1, Always, PTL

(***************************************************************************)
(* What a sync forgets.                                                    *)
(***************************************************************************)
LEMMA SyncStepForgets ==
    ASSUME OneLock, Inductive, NEW p \in Procs, SyncStep(p), NEW k \in Used, rows[k] \notin Stored'
    PROVE  k[1] = Inbox /\ rows[k] \notin maildrop
<1>1. rows[k] \in Stored  BY DEF Stored
<1>2. CASE DeleteGone(p)
  <2>1. PICK j \in mem[p].gone : rows' = [rows EXCEPT ![j] = 0]  BY <1>2 DEF DeleteGone
  <2>2. k # j => k \in Used' /\ rows'[k] = rows[k]  BY <2>1 DEF Inductive, TypeOK, Used
  <2>3. k = j  BY <2>2 DEF Stored
  <2>4. pc[p] = "delete" /\ ProcInv(p)  BY <1>2 DEF DeleteGone, At, Inductive
  <2>5. k[1] = Inbox /\ rows[k] \notin mem[p].all  BY <2>1, <2>3, <2>4 DEF ProcInv, Doomed
  <2>6. maildrop \cap Stored \subseteq mem[p].all  BY <2>4 DEF ProcInv, Fetched
  <2> QED BY <1>1, <2>5, <2>6
<1>3. CASE InsertRow(p)
  <2>1. Stored \subseteq Stored'  BY <1>3, InsertFacts
  <2> QED BY <1>1, <2>1
<1>4. CASE Organize(p)  BY <1>1, <1>4, OrganizeFacts
<1>5. CASE UNCHANGED rows  BY <1>1, <1>5 DEF Stored, Used
<1> QED BY <1>2, <1>3, <1>4, <1>5 DEF SyncStep, Insertion, Deletion, ReadKnown, Fetch, ReadNumber,
        BumpNumber, InsertDone, ReadRows, DeleteDone, OrganizeDone, Reading, dbVars

\* core.rs:20-21: a sync forgets a mail only if it is in INBOX and the server has lost
\* it, although it decides on a list of UIDLs that is some steps old, while mail comes and
\* goes and the user files rows away; what the user filed elsewhere stays.
THEOREM ForgetsLostMailOnly == ASSUME OneLock PROVE Spec => SyncForgetsOnlyLost
<1>1. Inductive /\ [Next]_vars => [ForgetsOnlyLost]_vars
  BY SyncStepForgets DEF ForgetsOnlyLost
<1> QED BY <1>1, Always, PTL DEF Spec, SyncForgetsOnlyLost

(***************************************************************************)
(* A sync during which nobody else wrote anything and every RETR           *)
(* succeeded: what it finds at each step.                                  *)
(***************************************************************************)
Fetching == Inserting \cup {"rows", "delete", "organize", "finish"}

\* What the sync has set out to have: the last window, or everything.
Target(p) == IF mem[p].known = {} THEN Last(mem[p].all, InitialWindow) ELSE mem[p].all

Begun(p) ==
    /\ pc[p] = "fetch" => mem[p].known = Stored
    /\ pc[p] \in {"known", "fetch"} => mem[p].placed = [m \in Mails |-> 0]

Has(p) ==
    /\ pc[p] \in Fetching => mem[p].all = maildrop
    /\ pc[p] \in Inserting => Target(p) \subseteq Stored \cup mem[p].todo
    /\ pc[p] \in Fetching \ Inserting => Target(p) \subseteq Stored

Deletes(p) ==
    /\ pc[p] = "delete" => Gone(maildrop) \subseteq mem[p].gone
    /\ pc[p] \in {"organize", "finish"} => Gone(maildrop) = {}

\* A mail of this sync is where it was put until a rule files it.
Places(p) ==
    pc[p] \in Fetching =>
        \A k \in Used : (k[1] = Inbox /\ mem[p].placed[rows[k]] # 0)
                          => k[2] = mem[p].placed[rows[k]]
Files(p) ==
    pc[p] \in {"organize", "finish"} =>
        \A k \in Used : (k[1] = Inbox /\ rows[k] \in Filtered /\ mem[p].placed[rows[k]] # 0)
                          => pc[p] = "organize" /\ rows[k] \in mem[p].todo

Watched(p) ==
    mem[p].cmd = "sync" => Begun(p) /\ Has(p) /\ Deletes(p) /\ Places(p) /\ Files(p)

QuietInv == \A p \in quiet : Watched(p)

LEMMA MailOfRow == ASSUME Inductive, NEW k \in Used PROVE rows[k] \in Mails
BY PopAssumption DEF Inductive, TypeOK, Used, Mails

LEMMA QuietStep ==
    ASSUME Inductive, QuietInv, NEW p \in Procs,
           \A q \in Procs : q # p => pc'[q] = pc[q] /\ mem'[q] = mem[q],
           quiet' \subseteq quiet \cup {p},
           UNCHANGED <<rows, maildrop>> \/ quiet' \subseteq {p},
           p \in quiet' => Watched(p)'
    PROVE  QuietInv'
<1>1. ASSUME NEW q \in quiet', q # p PROVE Watched(q)'
  <2>1. q \in quiet /\ q \in Procs  BY <1>1 DEF Inductive, TypeOK
  <2>2. rows' = rows /\ maildrop' = maildrop /\ pc'[q] = pc[q] /\ mem'[q] = mem[q]
    BY <1>1, <2>1
  <2>3. Used' = Used /\ Stored' = Stored /\ Gone(maildrop)' = Gone(maildrop)
        /\ Target(q)' = Target(q)
    BY <2>2 DEF Used, Stored, Gone, Target
  <2>4. Watched(q)  BY <2>1 DEF QuietInv
  <2>5. Begun(q) => Begun(q)'  BY <2>2, <2>3 DEF Begun
  <2>6. Has(q) => Has(q)'  BY <2>2, <2>3 DEF Has
  <2>7. Deletes(q) => Deletes(q)'  BY <2>2, <2>3 DEF Deletes
  <2>8. Places(q) => Places(q)'  BY <2>2, <2>3 DEF Places
  <2>9. Files(q) => Files(q)'  BY <2>2, <2>3 DEF Files
  <2> QED BY <2>2, <2>4, <2>5, <2>6, <2>7, <2>8, <2>9 DEF Watched
<1> QED BY <1>1 DEF QuietInv

LEMMA QuietStart ==
    ASSUME Inductive, QuietInv, NEW p \in Procs, Start(p)
    PROVE  QuietInv'
<1>1. CASE quiet' = {}  BY <1>1 DEF QuietInv
<1>2. ASSUME NEW cmd \in {"sync", "older"}, NEW f \in SyncFolders, Acquire(p, cmd, f)
      PROVE  QuietInv'
  <2>1. PICK m : m = [NoMem EXCEPT !.cmd = cmd, !.folder = f]  OBVIOUS
  <2>2. m.placed = [u \in Mails |-> 0]  BY <2>1 DEF NoMem
  <2>3. Goto(p, "known", m) /\ UNCHANGED <<rows, maildrop>> /\ quiet' = quiet \cup {p}
    BY <1>2, <2>1 DEF Acquire, serverVars, dbVars
  <2>4. /\ pc'[p] = "known" /\ mem'[p] = m
        /\ \A q \in Procs : q # p => pc'[q] = pc[q] /\ mem'[q] = mem[q]
    BY <2>3, GotoFacts DEF Inductive
  <2>5. Watched(p)'
    BY <2>2, <2>4 DEF Watched, Begun, Has, Deletes, Places, Files, Fetching, Inserting
  <2> QED BY <2>3, <2>4, <2>5, QuietStep
<1> QED BY <1>1, <1>2 DEF Start, Move, DeleteFolder, PurgeStart

\* The steps that only read.
LEMMA QuietRead ==
    ASSUME Inductive, QuietInv, NEW p \in Procs, NEW l, NEW m, Goto(p, l, m),
           UNCHANGED <<rows, maildrop>>, quiet' \subseteq quiet,
           p \in quiet' => Watched(p)'
    PROVE  QuietInv'
BY QuietStep, GotoFacts DEF Inductive

LEMMA Reread ==
    ASSUME UNCHANGED <<rows, maildrop>>
    PROVE  Used' = Used /\ Stored' = Stored /\ Gone(maildrop)' = Gone(maildrop)
BY DEF Used, Stored, Gone

LEMMA QuietReadKnown ==
    ASSUME Inductive, QuietInv, NEW p \in Procs, ReadKnown(p) PROVE QuietInv'
<1>1. PICK m : m = [mem[p] EXCEPT !.known = Stored]  OBVIOUS
<1>2. mem[p] \in ProcMem /\ pc[p] = "known" /\ Goto(p, "fetch", m)
      /\ UNCHANGED <<rows, maildrop, quiet>>
  BY <1>1, MemFacts DEF ReadKnown, Reading, At, Inductive, serverVars, dbVars
<1>3. m.cmd = mem[p].cmd /\ m.known = Stored /\ m.placed = mem[p].placed
  BY <1>1, <1>2 DEF ProcMem
<1>4. pc'[p] = "fetch" /\ mem'[p] = m  BY <1>2, GotoFacts DEF Inductive
<1>5. p \in quiet => Watched(p)'
  BY <1>2, <1>3, <1>4, Reread
     DEF QuietInv, Watched, Begun, Has, Deletes, Places, Files, Fetching, Inserting
<1> QED BY <1>2, <1>5, QuietRead

LEMMA QuietFetch ==
    ASSUME Inductive, QuietInv, NEW p \in Procs, Fetch(p) PROVE QuietInv'
<1> DEFINE wanted == Wanted(p, maildrop \ mem[p].known)
<1>1. PICK got \in SUBSET wanted :
        /\ Goto(p, "number", [mem[p] EXCEPT !.all = maildrop, !.todo = got])
        /\ quiet' = IF got = wanted THEN quiet ELSE quiet \ {p}
  BY DEF Fetch
<1>2. PICK m : m = [mem[p] EXCEPT !.all = maildrop, !.todo = got]  OBVIOUS
<1>3. mem[p] \in ProcMem /\ pc[p] = "fetch" /\ Goto(p, "number", m)
      /\ UNCHANGED <<rows, maildrop>> /\ quiet' \subseteq quiet
  BY <1>1, <1>2, MemFacts DEF Fetch, At, Inductive, serverVars, dbVars
<1>4. m.cmd = mem[p].cmd /\ m.known = mem[p].known /\ m.placed = mem[p].placed
      /\ m.all = maildrop /\ m.todo = got
  BY <1>2, <1>3 DEF ProcMem
<1>5. pc'[p] = "number" /\ mem'[p] = m  BY <1>3, GotoFacts DEF Inductive
<1>6. ASSUME p \in quiet', m.cmd = "sync" PROVE Watched(p)'
  <2>1. got = wanted /\ Watched(p)  BY <1>1, <1>3, <1>6 DEF QuietInv
  <2>2. mem[p].known = Stored /\ mem[p].placed = [u \in Mails |-> 0]
    BY <1>3, <1>4, <1>6, <2>1 DEF Watched, Begun
  <2>3. Target(p)' = IF Stored = {} THEN Last(maildrop, InitialWindow) ELSE maildrop
    BY <1>3, <1>4, <1>5, <2>2 DEF Target
  <2>4. mem[p].cmd # "older" /\ wanted = IF Stored = {} THEN Last(maildrop \ Stored, InitialWindow)
                                         ELSE maildrop \ Stored
    BY <1>4, <1>6, <2>2 DEF Wanted
  <2>5. Stored = {} => maildrop \ Stored = maildrop  OBVIOUS
  <2> HIDE DEF wanted
  <2>6. Target(p)' \subseteq Stored \cup got  BY <2>1, <2>3, <2>4, <2>5
  <2>7. Has(p)'  BY <1>3, <1>4, <1>5, <2>6, Reread DEF Has, Inserting, Fetching
  <2>8. Places(p)'
    <3>1. \A k \in Used : m.placed[rows[k]] = 0  BY <1>4, <2>2, MailOfRow
    <3> QED BY <1>3, <1>5, <3>1, Reread DEF Places
  <2>9. Begun(p)' /\ Deletes(p)' /\ Files(p)'  BY <1>5 DEF Begun, Deletes, Files
  <2> QED BY <2>7, <2>8, <2>9 DEF Watched
<1>7. p \in quiet' => Watched(p)'  BY <1>5, <1>6 DEF Watched
<1> QED BY <1>3, <1>7, QuietRead

LEMMA QuietReadNumber ==
    ASSUME Inductive, QuietInv, NEW p \in Procs, ReadNumber(p) PROVE QuietInv'
<1>1. PICK m : m = [mem[p] EXCEPT !.cur = nextNum]  OBVIOUS
<1>2. mem[p] \in ProcMem /\ pc[p] = "number" /\ Goto(p, "bump", m)
      /\ UNCHANGED <<rows, maildrop, quiet>>
  BY <1>1, MemFacts DEF ReadNumber, Reading, At, Inductive, serverVars, dbVars
<1>3. m.cmd = mem[p].cmd /\ m.known = mem[p].known /\ m.placed = mem[p].placed
      /\ m.all = mem[p].all /\ m.todo = mem[p].todo
  BY <1>1, <1>2 DEF ProcMem
<1>4. pc'[p] = "bump" /\ mem'[p] = m  BY <1>2, GotoFacts DEF Inductive
<1>5. Target(p)' = Target(p)  BY <1>3, <1>4 DEF Target
<1>6. ASSUME p \in quiet, m.cmd = "sync" PROVE Watched(p)'
  <2>1. Has(p) /\ Deletes(p) /\ Places(p)  BY <1>3, <1>6 DEF QuietInv, Watched
  <2>2. Has(p)'  BY <1>2, <1>3, <1>4, <1>5, <2>1, Reread DEF Has, Fetching, Inserting
  <2>3. Places(p)'  BY <1>2, <1>3, <1>4, <2>1, Reread DEF Places, Fetching, Inserting
  <2>4. Begun(p)' /\ Deletes(p)' /\ Files(p)'  BY <1>4 DEF Begun, Deletes, Files
  <2> QED BY <2>2, <2>3, <2>4 DEF Watched
<1>7. p \in quiet => Watched(p)'  BY <1>4, <1>6 DEF Watched
<1> QED BY <1>2, <1>7, QuietRead

LEMMA QuietBumpNumber ==
    ASSUME Inductive, QuietInv, NEW p \in Procs, BumpNumber(p) PROVE QuietInv'
<1>1. pc[p] = "bump" /\ Goto(p, "upsert", mem[p])
      /\ UNCHANGED <<rows, maildrop>> /\ quiet' \subseteq quiet
  BY DEF BumpNumber, Writing, At, serverVars
<1>2. pc'[p] = "upsert" /\ mem'[p] = mem[p]  BY <1>1, GotoFacts DEF Inductive
<1>3. Target(p)' = Target(p)  BY <1>2 DEF Target
<1>4. p \in quiet => Watched(p)'
  BY <1>1, <1>2, <1>3, Reread
     DEF QuietInv, Watched, Begun, Has, Deletes, Places, Files, Fetching, Inserting
<1> QED BY <1>1, <1>4, QuietRead

LEMMA QuietInsertRow ==
    ASSUME OneLock, Inductive, QuietInv, NEW p \in Procs, InsertRow(p) PROVE QuietInv'
<1>1. PICK key \in Keys, u \in mem[p].todo :
        /\ key = <<Inbox, mem[p].cur>>
        /\ Goto(p, "number", [mem[p] EXCEPT !.todo = @ \ {u}, !.placed[u] = mem[p].cur])
        /\ u \in Mails /\ u \notin Stored
        /\ Used' = Used \cup {key} /\ rows'[key] = u
        /\ \A l \in Used : l # key /\ rows'[l] = rows[l]
        /\ Stored' = Stored \cup {u}
  BY InsertFacts
<1>2. PICK m : m = [mem[p] EXCEPT !.todo = @ \ {u}, !.placed[u] = mem[p].cur]  OBVIOUS
<1>3. mem[p] \in ProcMem /\ pc[p] = "upsert" /\ Goto(p, "number", m)
      /\ maildrop' = maildrop /\ quiet' = quiet \cap {p}
  BY <1>1, <1>2, MemFacts DEF InsertRow, Writing, At, Inductive, serverVars
<1>4. m.cmd = mem[p].cmd /\ m.known = mem[p].known /\ m.all = mem[p].all
      /\ m.todo = mem[p].todo \ {u}
  BY <1>2, <1>3 DEF ProcMem
<1>5. m.placed = [mem[p].placed EXCEPT ![u] = mem[p].cur] /\ mem[p].placed \in [Mails -> 0 .. MaxNum]
  BY <1>2, <1>3 DEF ProcMem
<1>6. /\ pc'[p] = "number" /\ mem'[p] = m
      /\ \A q \in Procs : q # p => pc'[q] = pc[q] /\ mem'[q] = mem[q]
  BY <1>3, GotoFacts DEF Inductive
<1>7. ASSUME p \in quiet', m.cmd = "sync" PROVE Watched(p)'
  <2>1. Has(p) /\ Places(p)  BY <1>3, <1>4, <1>7 DEF QuietInv, Watched
  <2>2. Target(p)' = Target(p)  BY <1>4, <1>6 DEF Target
  <2>3. Has(p)'  BY <1>1, <1>3, <1>4, <1>6, <2>1, <2>2 DEF Has, Inserting, Fetching
  <2>4. Places(p)'
    <3> SUFFICES ASSUME NEW k \in Used', k[1] = Inbox, m.placed[rows'[k]] # 0
                 PROVE  k[2] = m.placed[rows'[k]]
      BY <1>6 DEF Places
    <3>1. CASE k = key
      <4>1. m.placed[u] = mem[p].cur  BY <1>1, <1>5
      <4> QED BY <1>1, <3>1, <4>1
    <3>2. CASE k \in Used
      <4>1. rows'[k] = rows[k] /\ rows[k] # u /\ rows[k] \in Mails
        BY <1>1, <3>2, MailOfRow DEF Stored
      <4>2. m.placed[rows[k]] = mem[p].placed[rows[k]]  BY <1>5, <4>1
      <4> QED BY <1>3, <2>1, <3>2, <4>1, <4>2 DEF Places, Inserting, Fetching
    <3> QED BY <1>1, <3>1, <3>2
  <2>5. Begun(p)' /\ Deletes(p)' /\ Files(p)'  BY <1>6 DEF Begun, Deletes, Files
  <2> QED BY <2>3, <2>4, <2>5 DEF Watched
<1>8. p \in quiet' => Watched(p)'  BY <1>6, <1>7 DEF Watched
<1> QED BY <1>3, <1>6, <1>8, QuietStep

LEMMA QuietInsertDone ==
    ASSUME Inductive, QuietInv, NEW p \in Procs, InsertDone(p) PROVE QuietInv'
<1>1. PICK l : l = IF mem[p].cmd = "sync" THEN "rows" ELSE "finish"  OBVIOUS
<1>2. pc[p] = "number" /\ mem[p].todo = {} /\ Goto(p, l, mem[p])
      /\ UNCHANGED <<rows, maildrop, quiet>>
  BY <1>1 DEF InsertDone, Reading, At, serverVars, dbVars
<1>3. pc'[p] = l /\ mem'[p] = mem[p]  BY <1>2, GotoFacts DEF Inductive
<1>4. Target(p)' = Target(p)  BY <1>3 DEF Target
<1>5. p \in quiet => Watched(p)'
  BY <1>1, <1>2, <1>3, <1>4, Reread
     DEF QuietInv, Watched, Begun, Has, Deletes, Places, Files, Fetching, Inserting
<1> QED BY <1>2, <1>5, QuietRead

LEMMA QuietReadRows ==
    ASSUME Inductive, QuietInv, NEW p \in Procs, ReadRows(p) PROVE QuietInv'
<1>1. PICK m : m = [mem[p] EXCEPT !.gone = Gone(mem[p].all)]  OBVIOUS
<1>2. mem[p] \in ProcMem /\ pc[p] = "rows" /\ Goto(p, "delete", m)
      /\ UNCHANGED <<rows, maildrop, quiet>>
  BY <1>1, MemFacts DEF ReadRows, Reading, At, Inductive, serverVars, dbVars
<1>3. m.cmd = mem[p].cmd /\ m.known = mem[p].known /\ m.placed = mem[p].placed
      /\ m.all = mem[p].all /\ m.gone = Gone(mem[p].all)
  BY <1>1, <1>2 DEF ProcMem
<1>4. pc'[p] = "delete" /\ mem'[p] = m  BY <1>2, GotoFacts DEF Inductive
<1>5. Target(p)' = Target(p)  BY <1>3, <1>4 DEF Target
<1>6. ASSUME p \in quiet, m.cmd = "sync" PROVE Watched(p)'
  <2>1. Has(p) /\ Deletes(p) /\ Places(p)  BY <1>3, <1>6 DEF QuietInv, Watched
  <2>2. Has(p)'  BY <1>2, <1>3, <1>4, <1>5, <2>1, Reread DEF Has, Fetching, Inserting
  <2>3. Places(p)'  BY <1>2, <1>3, <1>4, <2>1, Reread DEF Places, Fetching, Inserting
  <2>4. mem[p].all = maildrop  BY <1>2, <2>1 DEF Has, Fetching
  <2>5. Deletes(p)'  BY <1>2, <1>3, <1>4, <2>4, Reread DEF Deletes
  <2>6. Begun(p)' /\ Files(p)'  BY <1>4 DEF Begun, Files
  <2> QED BY <2>2, <2>3, <2>5, <2>6 DEF Watched
<1>7. p \in quiet => Watched(p)'  BY <1>4, <1>6 DEF Watched
<1> QED BY <1>2, <1>7, QuietRead

LEMMA QuietDeleteGone ==
    ASSUME Inductive, QuietInv, NEW p \in Procs, DeleteGone(p) PROVE QuietInv'
<1>1. PICK j \in mem[p].gone :
        /\ rows' = [rows EXCEPT ![j] = 0]
        /\ Goto(p, "delete", [mem[p] EXCEPT !.gone = @ \ {j}])
  BY DEF DeleteGone
<1>2. PICK m : m = [mem[p] EXCEPT !.gone = @ \ {j}]  OBVIOUS
<1>3. mem[p] \in ProcMem /\ pc[p] = "delete" /\ Goto(p, "delete", m)
      /\ maildrop' = maildrop /\ quiet' = quiet \cap {p} /\ ProcInv(p)
  BY <1>1, <1>2, MemFacts DEF DeleteGone, Writing, At, Inductive, serverVars
<1>4. m.cmd = mem[p].cmd /\ m.known = mem[p].known /\ m.placed = mem[p].placed
      /\ m.all = mem[p].all /\ m.gone = mem[p].gone \ {j}
  BY <1>2, <1>3 DEF ProcMem
<1>5. /\ pc'[p] = "delete" /\ mem'[p] = m
      /\ \A q \in Procs : q # p => pc'[q] = pc[q] /\ mem'[q] = mem[q]
  BY <1>3, GotoFacts DEF Inductive
<1>6. /\ \A k \in Used' : k \in Used /\ k # j /\ rows'[k] = rows[k]
      /\ \A k \in Used : k # j => k \in Used' /\ rows'[k] = rows[k]
  BY <1>1 DEF Inductive, TypeOK, Used
<1>7. ASSUME p \in quiet', m.cmd = "sync" PROVE Watched(p)'
  <2>1. Has(p) /\ Places(p) /\ Deletes(p)  BY <1>3, <1>4, <1>7 DEF QuietInv, Watched
  <2>2. Target(p)' = Target(p) /\ Target(p) \subseteq mem[p].all
    BY <1>4, <1>5, LastSubset DEF Target
  <2>3. Target(p) \subseteq Stored'
    <3> SUFFICES ASSUME NEW u \in Target(p) PROVE u \in Stored'  OBVIOUS
    <3>1. PICK k \in Used : rows[k] = u
      BY <1>3, <2>1 DEF Has, Fetching, Inserting, Stored
    <3>2. k # j  BY <1>1, <1>3, <2>2, <3>1 DEF ProcInv, Doomed
    <3> QED BY <1>6, <3>1, <3>2 DEF Stored
  <2>4. Has(p)'  BY <1>3, <1>4, <1>5, <2>1, <2>2, <2>3 DEF Has, Inserting, Fetching
  <2>5. Places(p)'  BY <1>3, <1>4, <1>5, <1>6, <2>1 DEF Places, Inserting, Fetching
  <2>6. Gone(maildrop)' \subseteq m.gone
    BY <1>3, <1>4, <1>6, <2>1 DEF Gone, Deletes
  <2>7. Deletes(p)'  BY <1>5, <2>6 DEF Deletes
  <2>8. Begun(p)' /\ Files(p)'  BY <1>5 DEF Begun, Files
  <2> QED BY <2>4, <2>5, <2>7, <2>8 DEF Watched
<1>8. p \in quiet' => Watched(p)'  BY <1>5, <1>7 DEF Watched
<1> QED BY <1>3, <1>5, <1>8, QuietStep

LEMMA QuietDeleteDone ==
    ASSUME Inductive, QuietInv, NEW p \in Procs, DeleteDone(p) PROVE QuietInv'
<1>1. PICK m : m = [mem[p] EXCEPT !.todo = {u \in Filtered : mem[p].placed[u] # 0}]  OBVIOUS
<1>2. mem[p] \in ProcMem /\ pc[p] = "delete" /\ mem[p].gone = {} /\ Goto(p, "organize", m)
      /\ UNCHANGED <<rows, maildrop, quiet>>
  BY <1>1, MemFacts DEF DeleteDone, Reading, At, Inductive, serverVars, dbVars
<1>3. m.cmd = mem[p].cmd /\ m.known = mem[p].known /\ m.placed = mem[p].placed
      /\ m.all = mem[p].all /\ m.todo = {u \in Filtered : mem[p].placed[u] # 0}
  BY <1>1, <1>2 DEF ProcMem
<1>4. pc'[p] = "organize" /\ mem'[p] = m  BY <1>2, GotoFacts DEF Inductive
<1>5. Target(p)' = Target(p)  BY <1>3, <1>4 DEF Target
<1>6. ASSUME p \in quiet, m.cmd = "sync" PROVE Watched(p)'
  <2>1. Has(p) /\ Deletes(p) /\ Places(p)  BY <1>3, <1>6 DEF QuietInv, Watched
  <2>2. Has(p)'  BY <1>2, <1>3, <1>4, <1>5, <2>1, Reread DEF Has, Fetching, Inserting
  <2>3. Places(p)'  BY <1>2, <1>3, <1>4, <2>1, Reread DEF Places, Fetching, Inserting
  <2>4. Gone(maildrop)' = {}  BY <1>2, <2>1, Reread DEF Deletes
  <2>5. Deletes(p)'  BY <1>4, <2>4 DEF Deletes
  <2>6. Files(p)'  BY <1>2, <1>3, <1>4, Reread DEF Files
  <2>7. Begun(p)'  BY <1>4 DEF Begun
  <2> QED BY <2>2, <2>3, <2>5, <2>6, <2>7 DEF Watched
<1>7. p \in quiet => Watched(p)'  BY <1>4, <1>6 DEF Watched
<1> QED BY <1>2, <1>7, QuietRead

LEMMA QuietOrganize ==
    ASSUME Inductive, QuietInv, NEW p \in Procs, Organize(p) PROVE QuietInv'
<1>1. PICK u \in mem[p].todo :
        /\ mem[p].placed[u] \in Nums
        /\ Refilable(Inbox, Local, mem[p].placed[u])
        /\ rows' = Refile(Inbox, Local, mem[p].placed[u])
        /\ Goto(p, "organize", [mem[p] EXCEPT !.todo = @ \ {u}])
        /\ Stored' = Stored
  BY OrganizeFacts
<1>2. PICK n \in Nums : n = mem[p].placed[u]  BY <1>1
<1>3. /\ <<Inbox, n>> \notin Used'
      /\ \A k \in Used' : k = <<Local, n>> \/ (k \in Used /\ rows'[k] = rows[k])
  <2>1. Inbox \in Folders /\ Local \in Folders /\ Inbox # Local  BY PopAssumption DEF Folders
  <2>2. Refilable(Inbox, Local, n) /\ rows' = Refile(Inbox, Local, n)  BY <1>1, <1>2
  <2> QED BY <2>1, <2>2, RefileShrinks
<1>4. \A k \in Used' : k[1] = Inbox => k \in Used /\ rows'[k] = rows[k] /\ k[2] # n
  <2> SUFFICES ASSUME NEW k \in Used', k[1] = Inbox
               PROVE  k \in Used /\ rows'[k] = rows[k] /\ k[2] # n
    OBVIOUS
  <2>1. k # <<Local, n>>  BY PopAssumption
  <2>2. k \in Keys /\ k = <<k[1], k[2]>>  BY KeyFacts DEF Used
  <2> QED BY <1>3, <2>1, <2>2
<1>5. PICK m : m = [mem[p] EXCEPT !.todo = @ \ {u}]  OBVIOUS
<1>6. mem[p] \in ProcMem /\ pc[p] = "organize" /\ Goto(p, "organize", m)
      /\ maildrop' = maildrop /\ quiet' = quiet \cap {p}
  BY <1>1, <1>5, MemFacts DEF Organize, Writing, At, Inductive, serverVars
<1>7. m.cmd = mem[p].cmd /\ m.known = mem[p].known /\ m.placed = mem[p].placed
      /\ m.all = mem[p].all /\ m.todo = mem[p].todo \ {u}
  BY <1>5, <1>6 DEF ProcMem
<1>8. /\ pc'[p] = "organize" /\ mem'[p] = m
      /\ \A q \in Procs : q # p => pc'[q] = pc[q] /\ mem'[q] = mem[q]
  BY <1>6, GotoFacts DEF Inductive
<1>9. ASSUME p \in quiet', m.cmd = "sync" PROVE Watched(p)'
  <2>1. Has(p) /\ Places(p) /\ Deletes(p) /\ Files(p)
    BY <1>6, <1>7, <1>9 DEF QuietInv, Watched
  <2>2. Target(p)' = Target(p)  BY <1>7, <1>8 DEF Target
  <2>3. Has(p)'  BY <1>1, <1>6, <1>7, <1>8, <2>1, <2>2 DEF Has, Inserting, Fetching
  <2>4. Places(p)'  BY <1>4, <1>6, <1>7, <1>8, <2>1 DEF Places, Inserting, Fetching
  <2>5. Gone(maildrop)' = {}  BY <1>4, <1>6, <2>1 DEF Gone, Deletes
  <2>6. Deletes(p)'  BY <1>8, <2>5 DEF Deletes
  <2>7. Files(p)'
    <3> SUFFICES ASSUME NEW k \in Used', k[1] = Inbox, rows'[k] \in Filtered,
                        m.placed[rows'[k]] # 0
                 PROVE  rows'[k] \in m.todo
      BY <1>8 DEF Files
    <3>1. k \in Used /\ rows'[k] = rows[k] /\ k[2] # n  BY <1>4
    <3>2. rows[k] \in mem[p].todo  BY <1>6, <1>7, <2>1, <3>1 DEF Files
    <3>3. k[2] = mem[p].placed[rows[k]]
      BY <1>6, <1>7, <2>1, <3>1 DEF Places, Fetching
    <3> QED BY <1>2, <1>7, <3>1, <3>2, <3>3
  <2>8. Begun(p)'  BY <1>8 DEF Begun
  <2> QED BY <2>3, <2>4, <2>6, <2>7, <2>8 DEF Watched
<1>10. p \in quiet' => Watched(p)'  BY <1>8, <1>9 DEF Watched
<1> QED BY <1>6, <1>8, <1>10, QuietStep

LEMMA QuietOrganizeDone ==
    ASSUME Inductive, QuietInv, NEW p \in Procs, OrganizeDone(p) PROVE QuietInv'
<1>1. pc[p] = "organize" /\ mem[p].todo = {} /\ Goto(p, "finish", mem[p])
      /\ UNCHANGED <<rows, maildrop, quiet>>
  BY DEF OrganizeDone, Reading, At, serverVars, dbVars
<1>2. pc'[p] = "finish" /\ mem'[p] = mem[p]  BY <1>1, GotoFacts DEF Inductive
<1>3. Target(p)' = Target(p)  BY <1>2 DEF Target
<1>4. p \in quiet => Watched(p)'
  BY <1>1, <1>2, <1>3, Reread
     DEF QuietInv, Watched, Begun, Has, Deletes, Places, Files, Fetching, Inserting
<1> QED BY <1>1, <1>4, QuietRead

LEMMA QuietReadUidl ==
    ASSUME Inductive, QuietInv, NEW p \in Procs, ReadUidl(p) PROVE QuietInv'
<1>1. PICK l, t : Goto(p, l, [mem[p] EXCEPT !.todo = t])  BY DEF ReadUidl
<1>2. mem[p] \in ProcMem /\ mem[p].cmd = "purge" /\ UNCHANGED <<rows, maildrop, quiet>>
  BY MemFacts DEF ReadUidl, Reading, At, Inductive, ProcInv, Role, PurgeLabels, serverVars, dbVars
<1>3. PICK m : m = [mem[p] EXCEPT !.todo = t]  OBVIOUS
<1>4. m.cmd = "purge" /\ Goto(p, l, m)  BY <1>1, <1>2, <1>3 DEF ProcMem
<1>5. mem'[p] = m  BY <1>4, GotoFacts DEF Inductive
<1>6. Watched(p)'  BY <1>4, <1>5 DEF Watched
<1> QED BY <1>2, <1>4, <1>6, QuietRead

LEMMA QuietEnd ==
    ASSUME Inductive, QuietInv, NEW p \in Procs, Finish(p) \/ OutOfNumbers(p) \/ Abort(p)
    PROVE  QuietInv'
<1>1. Goto(p, "idle", NoMem) /\ UNCHANGED <<rows, maildrop>> /\ quiet' = quiet \ {p}
  BY DEF Finish, OutOfNumbers, Abort, End, serverVars, dbVars
<1> QED BY <1>1, QuietRead

LEMMA StepQuiet ==
    ASSUME OneLock, Inductive, QuietInv, [Next]_vars
    PROVE  QuietInv'
<1>1. CASE UNCHANGED vars
  <2>1. UNCHANGED <<rows, maildrop, pc, mem, quiet>>  BY <1>1 DEF vars
  <2>2. CASE quiet' = {}  BY <2>2 DEF QuietInv
  <2>3. ASSUME NEW p \in quiet' PROVE QuietInv'
    <3>1. p \in Procs /\ Watched(p)  BY <2>1, <2>3 DEF Inductive, TypeOK, QuietInv
    <3>2. Target(p)' = Target(p)  BY <2>1 DEF Target
    <3>3. Watched(p)'
      BY <2>1, <3>1, <3>2, Reread DEF Watched, Begun, Has, Deletes, Places, Files
    <3> QED BY <2>1, <3>1, <3>3, QuietStep
  <2> QED BY <2>2, <2>3
<1>2. CASE quiet' = {}  BY <1>2 DEF QuietInv
<1>3. ASSUME NEW p \in Procs, SyncStep(p) PROVE QuietInv'
  BY <1>3, QuietReadKnown, QuietFetch, QuietReadNumber, QuietBumpNumber, QuietInsertRow,
     QuietInsertDone, QuietReadRows, QuietDeleteGone, QuietDeleteDone, QuietOrganize,
     QuietOrganizeDone DEF SyncStep, Insertion, Deletion
<1> QED BY <1>1, <1>2, <1>3, QuietStart, QuietReadUidl, QuietEnd
        DEF Next, ServerStep, Deliver, Expire, Run, PurgeStep, PurgeOnServer, PurgeRow

\* A sync that nobody disturbed and whose every RETR succeeded ends with all the mail on the
\* server, or with the last window of it if it began with none, with no row in INBOX that
\* the server has lost, and with no new mail in INBOX that a rule files elsewhere.
THEOREM UndisturbedIsComplete == ASSUME OneLock PROVE Spec => []SyncComplete
<1>1. Init => QuietInv  BY DEF Init, QuietInv
<1>2. Inductive /\ QuietInv /\ [Next]_vars => QuietInv'  BY StepQuiet
<1>3. Inductive /\ QuietInv => SyncComplete
  <2> SUFFICES ASSUME Inductive, QuietInv, NEW p \in quiet, pc[p] = "finish", mem[p].cmd = "sync"
               PROVE  /\ Gone(maildrop) = {}
                      /\ \A k \in Used : (k[1] = Inbox /\ rows[k] \in Filtered)
                                           => mem[p].placed[rows[k]] = 0
                      /\ IF mem[p].known = {} THEN Last(maildrop, InitialWindow) \subseteq Stored
                         ELSE maildrop \subseteq Stored
    BY DEF SyncComplete, At
  <2>1. Has(p) /\ Deletes(p) /\ Files(p)  BY DEF QuietInv, Watched
  <2> QED BY <2>1 DEF Has, Deletes, Files, Target, Fetching, Inserting
<1> QED BY <1>1, <1>2, <1>3, Always, PTL DEF Spec

(***************************************************************************)
(* Mail deleted for good.  The deletion of a folder is left out: it takes  *)
(* the row of a mail that another process is deleting and a sync may then  *)
(* have fetched once more, before the mail goes from the server.           *)
(***************************************************************************)
Deleting == {"dele", "purgeRow"}

\* The mail is not on the server, and no sync has it in hand.
Dead(m) ==
    /\ m \in 1 .. arrived /\ m \notin maildrop
    /\ \A p \in Procs : pc[p] \in Inserting => m \notin mem[p].todo

Settled(m) == m \in Stored \/ Dead(m)

Purging(p) ==
    /\ pc[p] = "uidl" => \E k \in Keys : mem[p].gone = {k}
    /\ pc[p] \in Deleting => \A m \in mem[p].todo : Settled(m)
    /\ pc[p] \in Deleting =>
         \A k \in mem[p].gone, l \in Used : l[2] = k[2] => rows[l] \in mem[p].todo
    /\ pc[p] = "purgeRow" => mem[p].todo \cap maildrop = {}

PurgeInv == (\A m \in purged : Settled(m)) /\ \A p \in Procs : Purging(p)

\* What every step does to the rows, the server and the mails that syncs have in hand.
LosesOnlyLost == \A m \in Stored : m \in Stored' \/ m \notin maildrop
NewWasInHand == \A m \in Stored' : m \in Stored \/ \E p \in Procs :
                    pc[p] \in Inserting /\ m \in mem[p].todo
FetchesWhatIsThere ==
    \A p \in Procs : pc'[p] \in Inserting => \A m \in mem'[p].todo :
        m \in maildrop \/ (pc[p] \in Inserting /\ m \in mem[p].todo)
NumbersStay ==
    \A p \in Procs : \A k \in mem[p].gone, l \in Used' : l[2] = k[2] =>
        \E j \in Used : j[2] = k[2] /\ rows[j] = rows'[l]
Shape == LosesOnlyLost /\ NewWasInHand /\ FetchesWhatIsThere /\ NumbersStay /\ ServerMoves

LEMMA ShrinksShape ==
    ASSUME Shrinks
    PROVE  NewWasInHand /\ NumbersStay
BY DEF Shrinks, NewWasInHand, NumbersStay, Stored

LEMMA KeptShape ==
    ASSUME UNCHANGED rows
    PROVE  LosesOnlyLost /\ NewWasInHand /\ NumbersStay
BY NoChangeShrinks, ShrinksShape DEF LosesOnlyLost, Stored, Used

\* A process that goes on has no mail in hand that it had not, unless it fetches.
LEMMA HandShape ==
    ASSUME NEW p \in Procs, \A q \in Procs : q # p => pc'[q] = pc[q] /\ mem'[q] = mem[q],
           pc'[p] \in Inserting => \A m \in mem'[p].todo :
                m \in maildrop \/ (pc[p] \in Inserting /\ m \in mem[p].todo)
    PROVE  FetchesWhatIsThere
BY DEF FetchesWhatIsThere

LEMMA SettledStays ==
    ASSUME Inductive, Shape, NEW m, Settled(m)
    PROVE  Settled(m)'
<1>1. /\ \A p \in Procs : pc[p] \in Inserting => mem[p].todo \cap Stored = {}
      /\ Stored \subseteq 1 .. arrived /\ arrived \in Nat
  BY PopAssumption DEF Inductive, ProcInv, Fetched, Arrived, TypeOK
<1>2. ASSUME m \notin Stored' PROVE Dead(m)
  <2>1. CASE m \in Stored
    BY <1>1, <1>2, <2>1 DEF Shape, LosesOnlyLost, Dead
  <2> QED BY <2>1 DEF Settled
<1>3. ASSUME Dead(m) PROVE Dead(m)'
  <2>1. m \notin maildrop' /\ m \in 1 .. arrived'
    <3>1. m \in 1 .. arrived /\ m \notin maildrop  BY <1>3 DEF Dead
    <3>2. CASE arrived' = arrived /\ maildrop' \subseteq maildrop  BY <3>1, <3>2
    <3>3. CASE arrived' = arrived + 1 /\ maildrop' = maildrop \cup {arrived + 1}
      <4>1. m # arrived + 1 /\ m \in 1 .. arrived'  BY <1>1, <3>1, <3>3
      <4> QED BY <3>1, <3>3, <4>1
    <3> QED BY <3>2, <3>3 DEF Shape, ServerMoves
  <2>2. \A p \in Procs : pc'[p] \in Inserting => m \notin mem'[p].todo
    BY <1>3 DEF Dead, Shape, FetchesWhatIsThere
  <2> QED BY <2>1, <2>2 DEF Dead
<1> QED BY <1>2, <1>3 DEF Settled

LEMMA PurgingStays ==
    ASSUME Inductive, PurgeInv, Shape, NEW q \in Procs, pc'[q] = pc[q], mem'[q] = mem[q]
    PROVE  Purging(q)'
<1>1. Purging(q)  BY DEF PurgeInv
<1>2. pc[q] \in Deleting => \A m \in mem[q].todo : Settled(m)'
  BY <1>1, SettledStays DEF Purging
<1>3. pc[q] \in Deleting =>
        \A k \in mem[q].gone, l \in Used' : l[2] = k[2] => rows'[l] \in mem[q].todo
  <2> SUFFICES ASSUME pc[q] \in Deleting, NEW k \in mem[q].gone, NEW l \in Used', l[2] = k[2]
               PROVE  rows'[l] \in mem[q].todo
    OBVIOUS
  <2>1. PICK j \in Used : j[2] = k[2] /\ rows[j] = rows'[l]  BY DEF Shape, NumbersStay
  <2> QED BY <1>1, <2>1 DEF Purging
<1>4. pc[q] = "purgeRow" => mem[q].todo \cap maildrop' = {}
  <2> SUFFICES ASSUME pc[q] = "purgeRow", NEW m \in mem[q].todo PROVE m \notin maildrop'
    OBVIOUS
  <2>1. m \notin maildrop /\ Settled(m)  BY <1>1 DEF Purging, Deleting
  <2>2. arrived \in Nat /\ Arrived  BY PopAssumption DEF Inductive, TypeOK
  <2>3. m \in 1 .. arrived  BY <2>1, <2>2 DEF Settled, Dead, Arrived
  <2>4. m # arrived + 1  BY <2>2, <2>3
  <2> QED BY <2>1, <2>4 DEF Shape, ServerMoves
<1> QED BY <1>1, <1>2, <1>3, <1>4 DEF Purging

LEMMA SyncShape ==
    ASSUME OneLock, Inductive, NEW p \in Procs, SyncStep(p)
    PROVE  /\ Shape /\ purged' = purged
           /\ \A q \in Procs : q # p => pc'[q] = pc[q] /\ mem'[q] = mem[q]
           /\ pc'[p] \notin PurgeLabels
<1>1. ServerMoves /\ purged' = purged
  BY DEF SyncStep, Insertion, Deletion, ReadKnown, Fetch, ReadNumber, BumpNumber, InsertRow,
       InsertDone, ReadRows, DeleteGone, DeleteDone, Organize, OrganizeDone, Reading, Writing,
       ServerMoves, serverVars
<1>2. LosesOnlyLost  BY SyncStepForgets DEF LosesOnlyLost, Stored
<1>3. NewWasInHand /\ NumbersStay
  <2>1. CASE InsertRow(p)
    <3>1. PICK key \in Keys, u \in mem[p].todo :
            /\ key = <<Inbox, mem[p].cur>>
            /\ Used' = Used \cup {key} /\ rows'[key] = u
            /\ \A l \in Used : l # key /\ rows'[l] = rows[l]
            /\ Stored' = Stored \cup {u}
      BY <2>1, InsertFacts
    <3>2. pc[p] = "upsert" /\ ProcInv(p)  BY <2>1 DEF InsertRow, At, Inductive
    <3>3. NewWasInHand  BY <3>1, <3>2 DEF NewWasInHand, Inserting
    <3>4. key[2] = mem[p].cur /\ mem[p].cur \in Nat /\ Above(mem[p].cur)
      BY <3>1, <3>2 DEF ProcInv, Numbering, Nums
    <3>5. ASSUME NEW q \in Procs, NEW k \in mem[q].gone PROVE k[2] # key[2]
      BY <3>4, <3>5 DEF Above
    <3>6. NumbersStay  BY <3>1, <3>5 DEF NumbersStay
    <3> QED BY <3>3, <3>6
  <2>2. CASE Organize(p)  BY <2>2, OrganizeFacts, ShrinksShape
  <2>3. CASE DeleteGone(p)
    <3>1. PICK j : rows' = [rows EXCEPT ![j] = 0]  BY <2>3 DEF DeleteGone
    <3> QED BY <3>1, DeletionShrinks, ShrinksShape
  <2>4. CASE UNCHANGED rows  BY <2>4, KeptShape
  <2> QED BY <2>1, <2>2, <2>3, <2>4 DEF SyncStep, Insertion, Deletion, ReadKnown, Fetch,
       ReadNumber, BumpNumber, InsertDone, ReadRows, DeleteDone, OrganizeDone, Reading, dbVars
<1>4. PICK l, m : Goto(p, l, m)
  BY DEF SyncStep, Insertion, Deletion, ReadKnown, Fetch, ReadNumber, BumpNumber, InsertRow,
       InsertDone, ReadRows, DeleteGone, DeleteDone, Organize, OrganizeDone
<1>5. /\ pc'[p] = l /\ mem'[p] = m
      /\ \A q \in Procs : q # p => pc'[q] = pc[q] /\ mem'[q] = mem[q]
  BY <1>4, GotoFacts DEF Inductive
<1>6. mem[p] \in ProcMem  BY MemFacts DEF Inductive
<1>7. pc'[p] \notin PurgeLabels /\
      (pc'[p] \in Inserting => \A u \in mem'[p].todo :
         u \in maildrop \/ (pc[p] \in Inserting /\ u \in mem[p].todo))
  <2>1. CASE Fetch(p)
    <3>1. PICK got \in SUBSET Wanted(p, maildrop \ mem[p].known) : \E n :
            Goto(p, "number", n) /\ n = [mem[p] EXCEPT !.all = maildrop, !.todo = got]
      BY <2>1 DEF Fetch
    <3>2. PICK n : Goto(p, "number", n) /\ n = [mem[p] EXCEPT !.all = maildrop, !.todo = got]
      BY <3>1
    <3>3. n.todo = got /\ got \subseteq maildrop
      BY <1>6, <3>2, WantedUnknown DEF ProcMem
    <3>4. pc'[p] = "number" /\ mem'[p] = n  BY <3>2, GotoFacts DEF Inductive
    <3> QED BY <3>3, <3>4 DEF PurgeLabels
  <2>2. CASE ReadNumber(p)
    <3>1. PICK n : Goto(p, "bump", n) /\ n = [mem[p] EXCEPT !.cur = nextNum]
      BY <2>2 DEF ReadNumber
    <3>2. n.todo = mem[p].todo /\ pc[p] = "number"
      BY <1>6, <2>2, <3>1 DEF ProcMem, ReadNumber, At
    <3>3. pc'[p] = "bump" /\ mem'[p] = n  BY <3>1, GotoFacts DEF Inductive
    <3> QED BY <3>2, <3>3 DEF PurgeLabels, Inserting
  <2>3. CASE BumpNumber(p)
    BY <2>3, GotoFacts DEF Inductive, BumpNumber, At, PurgeLabels, Inserting
  <2>4. CASE InsertRow(p)
    <3>1. PICK u \in mem[p].todo :
            Goto(p, "number", [mem[p] EXCEPT !.todo = @ \ {u}, !.placed[u] = mem[p].cur])
      BY <2>4 DEF InsertRow
    <3>2. PICK n : Goto(p, "number", n)
            /\ n = [mem[p] EXCEPT !.todo = @ \ {u}, !.placed[u] = mem[p].cur]
      BY <3>1
    <3>3. n.todo = mem[p].todo \ {u} /\ pc[p] = "upsert"
      BY <1>6, <2>4, <3>2 DEF ProcMem, InsertRow, At
    <3>4. pc'[p] = "number" /\ mem'[p] = n  BY <3>2, GotoFacts DEF Inductive
    <3> QED BY <3>3, <3>4 DEF PurgeLabels, Inserting
  <2>5. CASE \E n : \E t \in {"fetch", "rows", "finish", "delete", "organize"} : Goto(p, t, n)
    BY <2>5, GotoFacts DEF Inductive, PurgeLabels, Inserting
  <2> QED BY <2>1, <2>2, <2>3, <2>4, <2>5 DEF SyncStep, Insertion, Deletion, ReadKnown,
       InsertDone, ReadRows, DeleteGone, DeleteDone, Organize, OrganizeDone
<1>8. FetchesWhatIsThere  BY <1>5, <1>7, HandShape
<1> QED BY <1>1, <1>2, <1>3, <1>5, <1>7, <1>8 DEF Shape

LEMMA EndShape ==
    ASSUME Inductive, NEW p \in Procs, Finish(p) \/ OutOfNumbers(p) \/ Abort(p)
    PROVE  /\ Shape /\ purged' = purged
           /\ \A q \in Procs : q # p => pc'[q] = pc[q] /\ mem'[q] = mem[q]
           /\ pc'[p] \notin PurgeLabels
<1>1. Goto(p, "idle", NoMem) /\ UNCHANGED <<serverVars, dbVars, purged>>
  BY DEF Finish, OutOfNumbers, Abort, End
<1>2. /\ pc'[p] = "idle"
      /\ \A q \in Procs : q # p => pc'[q] = pc[q] /\ mem'[q] = mem[q]
  BY <1>1, GotoFacts DEF Inductive
<1>3. FetchesWhatIsThere  BY <1>2, HandShape DEF Inserting
<1>4. ServerMoves  BY <1>1 DEF ServerMoves, serverVars
<1> QED BY <1>1, <1>2, <1>3, <1>4, KeptShape DEF Shape, PurgeLabels, dbVars

\* Once the shape of the step is known, it is what p itself does that matters.
LEMMA PurgeInvStep ==
    ASSUME Inductive, PurgeInv, Shape, NEW p \in Procs, Purging(p)',
           \A q \in Procs : q # p => pc'[q] = pc[q] /\ mem'[q] = mem[q],
           \A m \in purged' \ purged : Settled(m)
    PROVE  PurgeInv'
<1>1. \A m \in purged' : Settled(m)'  BY SettledStays DEF PurgeInv
<1>2. \A q \in Procs : Purging(q)'  BY PurgingStays
<1> QED BY <1>1, <1>2 DEF PurgeInv

LEMMA AwayStays ==
    ASSUME Inductive, PurgeInv, NewWasInHand
    PROVE  StaysAway
BY DEF PurgeInv, Settled, Dead, NewWasInHand, StaysAway

LEMMA PurgeStartShape ==
    ASSUME Inductive, PurgeInv, NEW p \in Procs, NEW k \in Keys, PurgeStart(p, k)
    PROVE  Shape /\ PurgeInv'
<1>1. PICK m : m = [NoMem EXCEPT !.cmd = "purge", !.gone = {k}]  OBVIOUS
<1>2. m.gone = {k} /\ Goto(p, "uidl", m) /\ UNCHANGED <<serverVars, dbVars, purged>>
  <2>1. m.gone = {k}  BY <1>1 DEF NoMem
  <2>2. purged' = purged  BY DEF PurgeStart
  <2> QED BY <1>1, <2>1, <2>2 DEF PurgeStart
<1>3. /\ pc'[p] = "uidl" /\ mem'[p] = m
      /\ \A q \in Procs : q # p => pc'[q] = pc[q] /\ mem'[q] = mem[q]
  BY <1>2, GotoFacts DEF Inductive
<1>4. FetchesWhatIsThere  BY <1>3, HandShape DEF Inserting
<1>5. ServerMoves  BY <1>2 DEF ServerMoves, serverVars
<1>6. Shape  BY <1>2, <1>4, <1>5, KeptShape DEF Shape, dbVars
<1>7. Purging(p)'  BY <1>2, <1>3 DEF Purging, Deleting
<1> QED BY <1>2, <1>3, <1>6, <1>7, PurgeInvStep

LEMMA ReadUidlShape ==
    ASSUME Inductive, PurgeInv, NEW p \in Procs, ReadUidl(p)
    PROVE  Shape /\ PurgeInv'
<1>1. PICK k \in mem[p].gone :
        Goto(p, IF rows[k] = 0 THEN "finish" ELSE "dele",
             [mem[p] EXCEPT !.todo = {rows[k]} \ {0}])
  BY DEF ReadUidl
<1>2. PICK m : m = [mem[p] EXCEPT !.todo = {rows[k]} \ {0}]  OBVIOUS
<1>3. PICK l \in {"finish", "dele"} : l = IF rows[k] = 0 THEN "finish" ELSE "dele"  OBVIOUS
<1>4. mem[p] \in ProcMem /\ pc[p] = "uidl" /\ Goto(p, l, m) /\ Purging(p)
      /\ UNCHANGED <<serverVars, dbVars, purged>>
  BY <1>1, <1>2, <1>3, MemFacts DEF ReadUidl, Reading, At, Inductive, PurgeInv
<1>5. m.gone = mem[p].gone /\ m.todo = {rows[k]} \ {0}  BY <1>2, <1>4 DEF ProcMem
<1>6. /\ pc'[p] = l /\ mem'[p] = m
      /\ \A q \in Procs : q # p => pc'[q] = pc[q] /\ mem'[q] = mem[q]
  BY <1>4, GotoFacts DEF Inductive
<1>7. FetchesWhatIsThere  BY <1>6, HandShape DEF Inserting
<1>8. ServerMoves /\ rows' = rows /\ Used' = Used /\ Stored' = Stored
  BY <1>4 DEF ServerMoves, serverVars, dbVars, Used, Stored
<1>9. Shape  BY <1>7, <1>8, KeptShape DEF Shape
<1>10. Purging(p)'
  <2>1. CASE l = "finish"  BY <1>6, <2>1 DEF Purging, Deleting
  <2>2. CASE l = "dele"
    <3>1. rows[k] # 0 /\ mem[p].gone = {k} /\ k \in Keys
      BY <1>1, <1>3, <1>4, <2>2 DEF Purging
    <3>2. k \in Used /\ m.todo = {rows[k]}  BY <1>5, <3>1 DEF Used
    <3>3. Settled(rows[k])  BY <3>2 DEF Settled, Stored
    <3>4. \A u \in m.todo : Settled(u)'  BY <1>9, <3>2, <3>3, SettledStays
    <3>5. \A j \in m.gone, i \in Used : i[2] = j[2] => rows[i] \in m.todo
      BY <1>5, <3>1, <3>2 DEF Inductive, Distinct
    <3> QED BY <1>6, <1>8, <2>2, <3>4, <3>5 DEF Purging
  <2> QED BY <2>1, <2>2
<1> QED BY <1>4, <1>6, <1>9, <1>10, PurgeInvStep

LEMMA PurgeOnServerShape ==
    ASSUME "quit" \notin Events, Inductive, PurgeInv, NEW p \in Procs, PurgeOnServer(p)
    PROVE  Shape /\ PurgeInv'
<1>1. PICK l \in {"purgeRow", "finish"} :
        Goto(p, l, mem[p]) /\ (l = "purgeRow" => maildrop' = maildrop \ mem[p].todo)
  BY DEF PurgeOnServer
<1>2. pc[p] = "dele" /\ UNCHANGED <<dbVars, purged>> /\ Purging(p) /\ ServerMoves
      /\ arrived' = arrived
  BY DEF PurgeOnServer, At, PurgeInv, ServerMoves
<1>3. /\ pc'[p] = l /\ mem'[p] = mem[p]
      /\ \A q \in Procs : q # p => pc'[q] = pc[q] /\ mem'[q] = mem[q]
  BY <1>1, GotoFacts DEF Inductive
<1>4. FetchesWhatIsThere  BY <1>1, <1>3, HandShape DEF Inserting
<1>5. Shape  BY <1>2, <1>4, KeptShape DEF Shape, dbVars
<1>6. Purging(p)'
  <2>1. \A m \in mem[p].todo : Settled(m)'  BY <1>2, <1>5, SettledStays DEF Purging, Deleting
  <2>2. rows' = rows /\ Used' = Used  BY <1>2 DEF dbVars, Used
  <2>3. \A k \in mem[p].gone, i \in Used : i[2] = k[2] => rows[i] \in mem[p].todo
    BY <1>2 DEF Purging, Deleting
  <2> QED BY <1>1, <1>3, <2>1, <2>2, <2>3 DEF Purging, Deleting
<1> QED BY <1>2, <1>3, <1>5, <1>6, PurgeInvStep

LEMMA PurgeRowShape ==
    ASSUME Inductive, PurgeInv, NEW p \in Procs, PurgeRow(p)
    PROVE  Shape /\ PurgeInv'
<1>1. PICK k \in mem[p].gone : rows' = [rows EXCEPT ![k] = 0]  BY DEF PurgeRow
<1>2. pc[p] = "purgeRow" /\ Purging(p) /\ Goto(p, "finish", mem[p])
      /\ UNCHANGED serverVars /\ purged' = purged \cup mem[p].todo
  BY DEF PurgeRow, At, PurgeInv
<1>3. /\ pc'[p] = "finish" /\ mem'[p] = mem[p]
      /\ \A q \in Procs : q # p => pc'[q] = pc[q] /\ mem'[q] = mem[q]
  BY <1>2, GotoFacts DEF Inductive
<1>4. FetchesWhatIsThere  BY <1>3, HandShape DEF Inserting
<1>5. LosesOnlyLost
  <2>1. ASSUME NEW i \in Used, rows[i] \notin Stored' PROVE rows[i] \notin maildrop
    <3>1. i # k => i \in Used' /\ rows'[i] = rows[i]  BY <1>1 DEF Inductive, TypeOK, Used
    <3>2. i = k  BY <2>1, <3>1 DEF Stored
    <3>3. rows[i] \in mem[p].todo  BY <1>1, <1>2, <3>2 DEF Purging, Deleting
    <3> QED BY <1>2, <3>3 DEF Purging
  <2> QED BY <2>1 DEF LosesOnlyLost, Stored
<1>6. NewWasInHand /\ NumbersStay  BY <1>1, DeletionShrinks, ShrinksShape
<1>7. ServerMoves  BY <1>2 DEF ServerMoves, serverVars
<1>8. Shape  BY <1>4, <1>5, <1>6, <1>7 DEF Shape
<1>9. Purging(p)'  BY <1>3 DEF Purging, Deleting
<1>10. \A m \in purged' \ purged : Settled(m)  BY <1>2 DEF Purging, Deleting
<1> QED BY <1>3, <1>8, <1>9, <1>10, PurgeInvStep

LEMMA StepPurge ==
    ASSUME OneLock, "quit" \notin Events, "rmdir" \notin Commands, Inductive, PurgeInv, [Next]_vars
    PROVE  Shape /\ PurgeInv'
<1>1. ASSUME UNCHANGED <<pc, mem, purged>>, ServerMoves, LosesOnlyLost, NewWasInHand, NumbersStay
      PROVE  Shape /\ PurgeInv'
  <2>1. FetchesWhatIsThere  BY <1>1 DEF FetchesWhatIsThere
  <2>2. Shape  BY <1>1, <2>1 DEF Shape
  <2>3. \A m \in purged' : Settled(m)'  BY <1>1, <2>2, SettledStays DEF PurgeInv
  <2>4. \A q \in Procs : Purging(q)'  BY <1>1, <2>2, PurgingStays
  <2> QED BY <2>2, <2>3, <2>4 DEF PurgeInv
<1>2. CASE UNCHANGED vars
  <2>1. UNCHANGED <<pc, mem, purged, rows>> /\ ServerMoves  BY <1>2 DEF vars, ServerMoves
  <2> QED BY <1>1, <2>1, KeptShape
<1>3. CASE ServerStep
  <2>1. UNCHANGED <<pc, mem, purged, rows>> /\ ServerMoves
    BY <1>3 DEF ServerStep, Deliver, Expire, ServerMoves, dbVars
  <2> QED BY <1>1, <2>1, KeptShape
<1>4. ASSUME NEW p \in Procs, NEW k \in Keys, NEW to \in Folders, Move(p, k, to)
      PROVE  Shape /\ PurgeInv'
  <2>1. k[1] \in Folders /\ k[2] \in Nums /\ k[1] # to  BY <1>4, KeyFacts DEF Move
  <2>2. Shrinks /\ Stored' = Stored  BY <1>4, <2>1, RefileShrinks DEF Move
  <2>3. LosesOnlyLost  BY <2>2 DEF LosesOnlyLost
  <2>4. UNCHANGED <<pc, mem, purged>> /\ ServerMoves  BY <1>4 DEF Move, ServerMoves, serverVars
  <2> QED BY <1>1, <2>2, <2>3, <2>4, ShrinksShape
<1>5. ASSUME NEW p \in Procs, NEW cmd \in {"sync", "older"}, NEW f \in SyncFolders, Acquire(p, cmd, f)
      PROVE  Shape /\ PurgeInv'
  <2>1. PICK m : m = [NoMem EXCEPT !.cmd = cmd, !.folder = f]  OBVIOUS
  <2>2. m.todo = {} /\ Goto(p, "known", m) /\ UNCHANGED <<serverVars, dbVars, purged>>
    <3>1. m.todo = {}  BY <2>1 DEF NoMem
    <3> QED BY <1>5, <2>1, <3>1 DEF Acquire
  <2>3. /\ pc'[p] = "known"
        /\ \A q \in Procs : q # p => pc'[q] = pc[q] /\ mem'[q] = mem[q]
    BY <2>2, GotoFacts DEF Inductive
  <2>4. FetchesWhatIsThere  BY <2>3, HandShape DEF Inserting
  <2>5. ServerMoves  BY <2>2 DEF ServerMoves, serverVars
  <2>6. Shape  BY <2>2, <2>4, <2>5, KeptShape DEF Shape, dbVars
  <2>7. Purging(p)'  BY <2>3 DEF Purging, Deleting
  <2> QED BY <2>2, <2>3, <2>6, <2>7, PurgeInvStep
<1>6. ASSUME NEW p \in Procs, SyncStep(p) \/ Finish(p) \/ OutOfNumbers(p) \/ Abort(p)
      PROVE  Shape /\ PurgeInv'
  <2>1. /\ Shape /\ purged' = purged
        /\ \A q \in Procs : q # p => pc'[q] = pc[q] /\ mem'[q] = mem[q]
        /\ pc'[p] \notin PurgeLabels
    BY <1>6, SyncShape, EndShape
  <2>2. Purging(p)'  BY <2>1 DEF Purging, Deleting, PurgeLabels
  <2> QED BY <2>1, <2>2, PurgeInvStep
<1>7. ASSUME NEW p \in Procs, PurgeStep(p) PROVE Shape /\ PurgeInv'
  BY <1>7, ReadUidlShape, PurgeOnServerShape, PurgeRowShape DEF PurgeStep
<1>8. ASSUME NEW p \in Procs, Start(p) PROVE Shape /\ PurgeInv'
  BY <1>4, <1>5, <1>8, PurgeStartShape DEF Start, DeleteFolder
<1> QED BY <1>2, <1>3, <1>6, <1>7, <1>8 DEF Next, Run

\* core.rs:1051-1078: a mail that was deleted for good, and reported so, never comes back,
\* whatever syncs are in flight and wherever commands fail, as long as QUIT succeeds and no
\* folder is deleted meanwhile.
THEOREM DeletedStaysAway ==
    ASSUME OneLock, "quit" \notin Events, "rmdir" \notin Commands
    PROVE  Spec => NoResurrection
<1>1. Init => PurgeInv
  BY DEF Init, PurgeInv, Purging, Deleting
<1>2. Inductive /\ PurgeInv /\ [Next]_vars => PurgeInv' /\ [StaysAway]_vars
  BY StepPurge, AwayStays DEF Shape
<1> QED BY <1>1, <1>2, Always, PTL DEF Spec, NoResurrection
=============================================================================
