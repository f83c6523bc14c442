-------------------------- MODULE ConfigStoreProofs --------------------------
(***************************************************************************)
(* Proofs about ConfigStore, for any processes, tables and commands, any   *)
(* number of damaged files and any interleaving.                           *)
(***************************************************************************)
EXTENDS ConfigStore, TLAPS, WellFoundedInduction

ProcFields == {"pc", "cmd", "next", "run", "mem", "old"}
BeforeWrite == {"load", "loadTorn", "ready", "locked", "latest"}
Holding == {"locked", "lockedTorn", "latest"}

fileVars == <<disk, backups, abs, live, raced, damaged, unsaved>>

Saved(f) == UNION {ToSet(b.rows) : b \in {x \in backups : x.file = f}}
Exact(f) == f \notin damaged /\ (f \in Locked \/ f \notin raced)
RecoversFile(f) == (f \in Locked \/ f \notin raced) /\ (f \in Hard \/ f \notin unsaved)

\* A process has read the file of its command and not written it, and does not find it
\* damaged just now.
HasRead(q) ==
    /\ q.pc \in BeforeWrite
    /\ ~(q.pc = "loadTorn" /\ Files[q.next] = q.cmd.file)
    /\ \E i \in 1 .. Len(Files) :
          Files[i] = q.cmd.file /\ (i < q.next \/ q.pc \notin {"load", "loadTorn"})

(***************************************************************************)
(* What a process knows: a table that nobody has written since it was read *)
(* is the one of the file, and every row that is alive is in it or put     *)
(* aside; a process that is about to put a file aside has seen it damaged. *)
(***************************************************************************)
Knows(q) ==
    /\ q = [x \in ProcFields |-> q[x]]
    /\ q.pc # "gone" => q.cmd \in Commands
    /\ q.next \in 1 .. Len(Files)
    /\ q.pc \in Holding => q.cmd.file \in Locked
    /\ q.pc = "latest" => ~q.old
    /\ q.pc = "loadTorn" => Files[q.next] \in damaged
    /\ q.pc \in {"lockedTorn", "refreshTorn"} => q.cmd.file \in damaged
    /\ q.pc = "loadTorn" /\ Files[q.next] = q.cmd.file /\ ~q.old => disk[q.cmd.file].st # "ok"
    /\ HasRead(q) /\ ~q.old /\ q.cmd.file \notin damaged => q.mem = disk[q.cmd.file].rows
    /\ HasRead(q) /\ ~q.old /\ RecoversFile(q.cmd.file) =>
         live[q.cmd.file] \subseteq ToSet(q.mem) \cup Saved(q.cmd.file)

FileOK(f) ==
    /\ disk[f] = [st |-> disk[f].st, rows |-> disk[f].rows]
    /\ disk[f].st \in {"none", "ok", "torn"}
    /\ disk[f].st = "none" => disk[f].rows = <<>>
    /\ disk[f].st = "torn" => f \in damaged
    /\ Exact(f) => disk[f].rows = abs[f]
    /\ RecoversFile(f) => live[f] \subseteq ToSet(disk[f].rows) \cup Saved(f)

Shapes ==
    /\ disk = [f \in Tables |-> disk[f]] /\ procs = [p \in Clis |-> procs[p]]
    /\ abs = [f \in Tables |-> abs[f]] /\ live = [f \in Tables |-> live[f]]

LockInv == \A p \in Clis : accountsLock = p <=> procs[p].pc \in Holding

StoreInv ==
    /\ Shapes /\ LockInv
    /\ \A p \in Clis : Knows(procs[p])
    /\ \A f \in Tables : FileOK(f)

-----------------------------------------------------------------------------
LEMMA FirstFile == 1 \in 1 .. Len(Files) /\ Len(Files) \in Nat
<1>1. Files \in Seq(STRING) /\ "prefs" \in {Files[i] : i \in DOMAIN Files}
  BY ConfigAssumption DEF ConfigAssumption, Tables, ToSet
<1>2. Len(Files) \in Nat /\ DOMAIN Files = 1 .. Len(Files)  BY <1>1
<1> QED BY <1>1, <1>2

LEMMA CommandFile ==
    ASSUME NEW q, q.cmd \in Commands
    PROVE  q.cmd.file \in Tables /\ \E i \in 1 .. Len(Files) : Files[i] = q.cmd.file
<1>1. q.cmd.file \in Tables  BY ConfigAssumption DEF ConfigAssumption
<1>2. Tables = {Files[i] : i \in 1 .. Len(Files)}
  BY ConfigAssumption DEF ConfigAssumption, Tables, ToSet
<1> QED BY <1>1, <1>2

LEMMA FileOfIndex ==
    ASSUME NEW i \in 1 .. Len(Files)
    PROVE  Files[i] \in Tables
BY ConfigAssumption DEF ConfigAssumption, Tables, ToSet

LEMMA GoneKnows == Knows(Gone)
<1>1. Gone = [x \in ProcFields |-> Gone[x]] /\ Gone.pc = "gone" /\ Gone.next = 1
  BY DEF Gone, ProcFields
<1> QED BY <1>1, FirstFile DEF Knows, HasRead, BeforeWrite, Holding

LEMMA InitStore == ConfigInit => StoreInv
<1> SUFFICES ASSUME ConfigInit PROVE StoreInv  OBVIOUS
<1>1. \A p \in Clis : procs[p] = Gone  BY DEF ConfigInit
<1>2. LockInv
  <2>1. \A p \in Clis : accountsLock # p
    BY ConfigAssumption DEF ConfigAssumption, ConfigInit
  <2> QED BY <1>1, <2>1 DEF LockInv, Gone, Holding
<1>3. ASSUME NEW f \in Tables PROVE FileOK(f)
  <2>1. disk[f] = [st |-> "none", rows |-> <<>>] /\ abs[f] = <<>> /\ live[f] = {}
    BY DEF ConfigInit
  <2> QED BY <2>1 DEF FileOK
<1>4. Shapes  BY DEF ConfigInit, Shapes
<1> QED BY <1>1, <1>2, <1>3, <1>4, GoneKnows DEF StoreInv

\* A step of one process that touches no file.
LEMMA LocalStep ==
    ASSUME StoreInv, NEW p \in Clis, NEW v, procs' = [procs EXCEPT ![p] = v],
           UNCHANGED fileVars, Knows(v),
           \A r \in Clis : accountsLock' = r <=> IF r = p THEN v.pc \in Holding ELSE accountsLock = r
    PROVE  StoreInv'
<1>1. Shapes'  BY DEF StoreInv, Shapes, fileVars
<1>2. \A r \in Clis : procs'[r] = IF r = p THEN v ELSE procs[r]  BY DEF StoreInv, Shapes
<1>3. LockInv'  BY <1>2 DEF StoreInv, LockInv
<1>4. \A r \in Clis : Knows(procs[r])'
  <2> TAKE r \in Clis
  <2>1. Knows(procs'[r])  BY <1>2 DEF StoreInv
  <2> QED BY <2>1 DEF Knows, HasRead, RecoversFile, Saved, fileVars
<1>5. \A f \in Tables : FileOK(f)'
  BY DEF StoreInv, FileOK, Exact, RecoversFile, Saved, fileVars
<1> QED BY <1>1, <1>3, <1>4, <1>5 DEF StoreInv

\* A process leaves, and gives the lock back.
LEMMA LeaveStep ==
    ASSUME StoreInv, NEW p \in Clis, EndCli(p), UNCHANGED fileVars
    PROVE  StoreInv'
<1>1. procs' = [procs EXCEPT ![p] = Gone]  BY DEF EndCli
<1>2. \A r \in Clis : accountsLock' = r <=> IF r = p THEN Gone.pc \in Holding ELSE accountsLock = r
  <2>1. Gone.pc \notin Holding  BY DEF Gone, Holding
  <2>2. \A r \in Clis : NoCli # r  BY ConfigAssumption DEF ConfigAssumption
  <2> QED BY <2>1, <2>2 DEF EndCli
<1> QED BY <1>1, <1>2, GoneKnows, LocalStep

-----------------------------------------------------------------------------
(* What a process knows in its next state.                                 *)

LEMMA PlainKnows ==
    ASSUME NEW v, v = [x \in ProcFields |-> v[x]], v.cmd \in Commands, v.next \in 1 .. Len(Files),
           v.pc \in {"secrets", "done", "refresh", "assign"}
    PROVE  Knows(v)
BY DEF Knows, HasRead, BeforeWrite, Holding

\* The next file is read, be it the one of the command or another one.
LEMMA NextFileRead ==
    ASSUME NEW q, q.next \in 1 .. Len(Files), q.pc \in {"load", "loadTorn"},
           NEW v, v.cmd = q.cmd, v.pc \in {"load", "ready"},
           v.pc = "load" => v.next = q.next + 1,
           v.pc = "ready" => q.next = Len(Files),
           HasRead(v), Files[q.next] # q.cmd.file
    PROVE  HasRead(q)
<1>1. PICK i \in 1 .. Len(Files) :
        Files[i] = q.cmd.file /\ (i < v.next \/ v.pc \notin {"load", "loadTorn"})
  BY DEF HasRead
<1>2. i < q.next
  <2>1. i \in Nat /\ q.next \in Nat /\ Len(Files) \in Nat /\ i <= Len(Files)  BY FirstFile
  <2>2. i # q.next  BY <1>1
  <2>3. CASE v.pc = "load"  BY <1>1, <2>1, <2>2, <2>3
  <2>4. CASE v.pc = "ready"  BY <2>1, <2>2, <2>4
  <2> QED BY <2>3, <2>4
<1> QED BY <1>1, <1>2 DEF HasRead, BeforeWrite

LEMMA AfterLoadFields ==
    ASSUME NEW q, q = [x \in ProcFields |-> q[x]], q.next \in 1 .. Len(Files), q.pc = "load"
    PROVE  LET v == AfterLoad(q)
           IN  /\ v = [x \in ProcFields |-> v[x]]
               /\ v.cmd = q.cmd /\ v.mem = q.mem /\ v.old = q.old
               /\ v.next \in 1 .. Len(Files)
               /\ v.pc \in {"load", "ready"}
               /\ v.pc = "load" => v.next = q.next + 1
               /\ v.pc = "ready" => q.next = Len(Files)
<1>1. q.next \in Nat /\ 1 <= q.next /\ q.next <= Len(Files) /\ Len(Files) \in Nat
  BY FirstFile
<1>2. CASE q.next = Len(Files)
  <2>1. AfterLoad(q) = [q EXCEPT !.pc = "ready"]  BY <1>2 DEF AfterLoad
  <2> QED BY <1>1, <1>2, <2>1 DEF ProcFields
<1>3. CASE q.next # Len(Files)
  <2>1. AfterLoad(q) = [q EXCEPT !.next = q.next + 1]  BY <1>3 DEF AfterLoad
  <2>2. q.next + 1 \in 1 .. Len(Files)  BY <1>1, <1>3
  <2> QED BY <1>1, <2>1, <2>2 DEF ProcFields
<1> QED BY <1>2, <1>3

LEMMA ReadFields ==
    ASSUME NEW q, q = [x \in ProcFields |-> q[x]], NEW f, NEW table
    PROVE  LET u == Read(q, f, table)
           IN  /\ u = [x \in ProcFields |-> u[x]]
               /\ u.cmd = q.cmd /\ u.next = q.next /\ u.pc = q.pc
               /\ f = q.cmd.file => u.mem = table /\ ~u.old
               /\ f # q.cmd.file => u.mem = q.mem /\ u.old = q.old
BY DEF Read, ProcFields

LEMMA ReadFileKnows ==
    ASSUME StoreInv, NEW p \in Clis, ReadTable(p)
    PROVE  StoreInv'
<1> DEFINE q == procs[p]
           f == Files[q.next]
           u == Read(q, f, disk[f].rows)
           v == AfterLoad(u)
<1>1. q.pc = "load" /\ procs' = [procs EXCEPT ![p] = v] /\ accountsLock' = accountsLock /\ UNCHANGED fileVars
  BY DEF ReadTable, Reading, fileVars, diskVars, history
<1>2. Knows(q)  BY DEF StoreInv
<1>3. /\ q = [x \in ProcFields |-> q[x]] /\ q.cmd \in Commands /\ q.next \in 1 .. Len(Files)
  BY <1>1, <1>2 DEF Knows
<1>4. f \in Tables /\ FileOK(f)  BY <1>3, FileOfIndex DEF StoreInv
<1> HIDE DEF q, f
<1>5. /\ u = [x \in ProcFields |-> u[x]] /\ u.cmd = q.cmd /\ u.next = q.next /\ u.pc = "load"
      /\ f = q.cmd.file => u.mem = disk[f].rows /\ ~u.old
      /\ f # q.cmd.file => u.mem = q.mem /\ u.old = q.old
  BY <1>1, <1>3, ReadFields
<1> HIDE DEF u
<1>6. /\ v = [x \in ProcFields |-> v[x]] /\ v.cmd = q.cmd /\ v.mem = u.mem /\ v.old = u.old
      /\ v.next \in 1 .. Len(Files) /\ v.pc \in {"load", "ready"}
      /\ v.pc = "load" => v.next = q.next + 1
      /\ v.pc = "ready" => q.next = Len(Files)
  BY <1>3, <1>5, AfterLoadFields
<1> HIDE DEF v
<1>7. Knows(v)
  <2>1. CASE f = q.cmd.file
    <3>1. v.mem = disk[f].rows  BY <1>5, <1>6, <2>1
    <3>2. RecoversFile(f) => live[f] \subseteq ToSet(v.mem) \cup Saved(f)  BY <1>4, <3>1 DEF FileOK
    <3> QED BY <1>3, <1>6, <2>1, <3>1, <3>2 DEF Knows, Holding
  <2>2. CASE f # q.cmd.file
    <3>1. HasRead(v) => HasRead(q)  BY <1>1, <1>3, <1>6, <2>2, NextFileRead DEF f
    <3>2. v.mem = q.mem /\ v.old = q.old  BY <1>5, <1>6, <2>2
    <3> QED BY <1>2, <1>3, <1>6, <3>1, <3>2 DEF Knows, Holding
  <2> QED BY <2>1, <2>2
<1>8. \A r \in Clis : accountsLock' = r <=> IF r = p THEN v.pc \in Holding ELSE accountsLock = r
  BY <1>1, <1>6 DEF StoreInv, LockInv, Holding, q
<1> QED BY <1>1, <1>7, <1>8, LocalStep

LEMMA StartKnows ==
    ASSUME StoreInv, NEW p \in Clis, NEW cmd \in Commands, Start(p, cmd)
    PROVE  StoreInv'
<1> DEFINE v == [Gone EXCEPT !.pc = "load", !.cmd = cmd, !.run = runs + 1]
<1>1. /\ procs[p].pc = "gone" /\ procs' = [procs EXCEPT ![p] = v] /\ accountsLock' = accountsLock
      /\ UNCHANGED fileVars
  BY DEF Start, fileVars, diskVars, history
<1>2. /\ v = [x \in ProcFields |-> v[x]] /\ v.pc = "load" /\ v.cmd = cmd /\ v.next = 1
  BY DEF Gone, ProcFields
<1> HIDE DEF v
<1>3. ~HasRead(v)  BY <1>2, FirstFile DEF HasRead
<1>4. Knows(v)  BY <1>2, <1>3, FirstFile DEF Knows, Holding
<1>5. \A r \in Clis : accountsLock' = r <=> IF r = p THEN v.pc \in Holding ELSE accountsLock = r
  BY <1>1, <1>2 DEF StoreInv, LockInv, Holding
<1> QED BY <1>1, <1>4, <1>5, LocalStep

LEMMA ReadDamagedKnows ==
    ASSUME StoreInv, NEW p \in Clis, ReadDamaged(p)
    PROVE  StoreInv'
<1> DEFINE q == procs[p]
           f == Reading(p)
           label == CASE q.pc = "load"   -> "loadTorn"
                      [] q.pc = "locked" -> "lockedTorn"
                      [] OTHER           -> "refreshTorn"
           v == [q EXCEPT !.pc = label, !.old = @ /\ f # q.cmd.file]
<1>1. /\ q.pc \in {"load", "locked", "refresh"} /\ disk[f].st = "torn"
      /\ procs' = [procs EXCEPT ![p] = v] /\ accountsLock' = accountsLock /\ UNCHANGED fileVars
  BY DEF ReadDamaged, fileVars, diskVars, history, StoreInv, Shapes
<1>2. Knows(q)  BY DEF StoreInv
<1>3. /\ q = [x \in ProcFields |-> q[x]] /\ q.cmd \in Commands /\ q.next \in 1 .. Len(Files)
  BY <1>1, <1>2 DEF Knows
<1>4. /\ v = [x \in ProcFields |-> v[x]] /\ v.pc = label /\ v.cmd = q.cmd /\ v.next = q.next
      /\ v.mem = q.mem
      /\ f # q.cmd.file => (~v.old => ~q.old)
  BY <1>3 DEF ProcFields
<1>5. f = IF q.pc = "load" THEN Files[q.next] ELSE q.cmd.file  BY DEF Reading
<1> HIDE DEF q, f, v
<1>6. f \in Tables  BY <1>3, <1>5, FileOfIndex, CommandFile
<1>7. f \in damaged  BY <1>1, <1>6 DEF StoreInv, FileOK
<1>8. label = IF q.pc = "load" THEN "loadTorn"
              ELSE IF q.pc = "locked" THEN "lockedTorn" ELSE "refreshTorn"
  OBVIOUS
<1> HIDE DEF label
<1>9. HasRead(v) => HasRead(q) /\ f # q.cmd.file
  BY <1>1, <1>4, <1>5, <1>8 DEF HasRead, BeforeWrite
<1>10. v.pc \in Holding <=> q.pc \in Holding  BY <1>1, <1>4, <1>8 DEF Holding
<1>11. v.pc = "loadTorn" /\ Files[v.next] = v.cmd.file => disk[v.cmd.file].st # "ok"
  BY <1>1, <1>4, <1>5, <1>8
<1>12. v.pc = "loadTorn" => Files[v.next] \in damaged
  BY <1>1, <1>4, <1>5, <1>7, <1>8
<1>13. v.pc \in {"lockedTorn", "refreshTorn"} => v.cmd.file \in damaged
  BY <1>1, <1>4, <1>5, <1>7, <1>8
<1>14. v.pc # "latest"  BY <1>1, <1>4, <1>8
<1>15. v.pc \in Holding => v.cmd.file \in Locked  BY <1>2, <1>4, <1>10 DEF Knows
<1>16. HasRead(v) /\ ~v.old => HasRead(q) /\ ~q.old  BY <1>4, <1>9
<1>17. Knows(v)
  BY <1>2, <1>3, <1>4, <1>11, <1>12, <1>13, <1>14, <1>15, <1>16 DEF Knows
<1>18. \A r \in Clis : accountsLock' = r <=> IF r = p THEN v.pc \in Holding ELSE accountsLock = r
  BY <1>1, <1>10 DEF StoreInv, LockInv, q
<1> QED BY <1>1, <1>17, <1>18, LocalStep

LEMMA LockKnows ==
    ASSUME StoreInv, NEW p \in Clis, Lock(p)
    PROVE  StoreInv'
<1> DEFINE q == procs[p]
           v == [q EXCEPT !.pc = "locked"]
<1>1. /\ q.pc = "ready" /\ q.cmd.file \in Locked /\ accountsLock = NoCli /\ accountsLock' = p
      /\ procs' = [procs EXCEPT ![p] = v] /\ UNCHANGED fileVars
  BY DEF Lock, fileVars, diskVars, history, StoreInv, Shapes
<1>2. Knows(q)  BY DEF StoreInv
<1>3. /\ v = [x \in ProcFields |-> v[x]] /\ v.pc = "locked" /\ v.cmd = q.cmd
      /\ v.next = q.next /\ v.mem = q.mem /\ v.old = q.old
  BY <1>2 DEF Knows, ProcFields
<1> HIDE DEF q, v
<1>4. HasRead(v) => HasRead(q)  BY <1>1, <1>3 DEF HasRead, BeforeWrite
<1>5. Knows(v)  BY <1>1, <1>2, <1>3, <1>4 DEF Knows
<1>6. \A r \in Clis : accountsLock' = r <=> IF r = p THEN v.pc \in Holding ELSE accountsLock = r
  <2>1. \A r \in Clis : NoCli # r  BY ConfigAssumption DEF ConfigAssumption
  <2> QED BY <1>1, <1>3, <2>1 DEF Holding
<1> QED BY <1>1, <1>5, <1>6, LocalStep

LEMMA ReadLatestKnows ==
    ASSUME StoreInv, NEW p \in Clis, ReadLatest(p)
    PROVE  StoreInv'
<1> DEFINE q == procs[p]
           f == q.cmd.file
           u == Read(q, f, disk[f].rows)
           v == [u EXCEPT !.pc = "latest"]
<1>1. /\ q.pc = "locked" /\ accountsLock' = accountsLock /\ UNCHANGED fileVars
      /\ procs' = [procs EXCEPT ![p] = v]
  BY DEF ReadLatest, Reading, fileVars, diskVars, history
<1>2. Knows(q)  BY DEF StoreInv
<1>3. /\ q = [x \in ProcFields |-> q[x]] /\ q.cmd \in Commands /\ q.next \in 1 .. Len(Files)
      /\ q.cmd.file \in Locked
  BY <1>1, <1>2 DEF Knows, Holding
<1>4. f = q.cmd.file /\ FileOK(f)  BY <1>3, CommandFile DEF StoreInv
<1> HIDE DEF q, f
<1>5. /\ u = [x \in ProcFields |-> u[x]] /\ u.cmd = q.cmd /\ u.next = q.next
      /\ u.mem = disk[f].rows /\ ~u.old
  BY <1>3, <1>4, ReadFields
<1> HIDE DEF u
<1>6. /\ v = [x \in ProcFields |-> v[x]] /\ v.pc = "latest" /\ v.cmd = q.cmd
      /\ v.next = q.next /\ v.mem = disk[f].rows /\ ~v.old
  BY <1>5 DEF ProcFields
<1> HIDE DEF v
<1>7. RecoversFile(f) => live[f] \subseteq ToSet(v.mem) \cup Saved(f)  BY <1>4, <1>6 DEF FileOK
<1>8. Knows(v)  BY <1>3, <1>4, <1>6, <1>7 DEF Knows
<1>9. \A r \in Clis : accountsLock' = r <=> IF r = p THEN v.pc \in Holding ELSE accountsLock = r
  BY <1>1, <1>6 DEF StoreInv, LockInv, Holding, q
<1> QED BY <1>1, <1>8, <1>9, LocalStep

\* After the commit: the credentials, and what the window reads again.
LEMMA ReportKnows ==
    ASSUME StoreInv, NEW p \in Clis,
           \/ (\E ok \in BOOLEAN : SaveSecret(p, ok)) \/ Finish(p)
           \/ RefreshAccounts(p) \/ ReadPrefs(p) \/ AssignPrefs(p)
    PROVE  StoreInv'
<1> DEFINE q == procs[p]
<1>1. q.pc \in {"secrets", "done", "refresh", "assign"} /\ accountsLock' = accountsLock /\ UNCHANGED fileVars
  BY DEF SaveSecret, Finish, RefreshAccounts, ReadPrefs, AssignPrefs, fileVars, diskVars, history
<1>2. Knows(q)  BY DEF StoreInv
<1>3. /\ q = [x \in ProcFields |-> q[x]] /\ q.cmd \in Commands /\ q.next \in 1 .. Len(Files)
  BY <1>1, <1>2 DEF Knows
<1>4. PICK v \in {Gone, [q EXCEPT !.pc = "done"], [q EXCEPT !.pc = "refresh"],
                  [q EXCEPT !.pc = "assign", !.mem = disk["prefs"].rows]} :
        procs' = [procs EXCEPT ![p] = v]
  BY DEF SaveSecret, Finish, RefreshAccounts, ReadPrefs, AssignPrefs, StoreInv, Shapes
<1>5. Knows(v) /\ v.pc \notin Holding
  <2>1. CASE v = Gone  BY <2>1, GoneKnows DEF Gone, Holding
  <2>2. CASE v # Gone
    <3>1. /\ v = [x \in ProcFields |-> v[x]] /\ v.cmd = q.cmd /\ v.next = q.next
          /\ v.pc \in {"done", "refresh", "assign"}
      BY <1>3, <1>4, <2>2 DEF ProcFields
    <3> QED BY <1>3, <3>1, PlainKnows DEF Holding
  <2> QED BY <2>1, <2>2
<1>6. accountsLock # p  BY <1>1 DEF StoreInv, LockInv, Holding
<1>7. \A r \in Clis : accountsLock' = r <=> IF r = p THEN v.pc \in Holding ELSE accountsLock = r
  BY <1>1, <1>5, <1>6
<1> QED BY <1>1, <1>4, <1>5, <1>7, LocalStep

LEMMA GiveUpKnows ==
    ASSUME StoreInv, NEW p \in Clis, LockBusy(p) \/ Die(p)
    PROVE  StoreInv'
<1>1. EndCli(p) /\ UNCHANGED fileVars
  BY DEF LockBusy, Die, fileVars, diskVars, history
<1> QED BY <1>1, LeaveStep

-----------------------------------------------------------------------------
(* A damaged file is put aside, by whoever has seen it.                    *)

LEMMA TornFileDamaged ==
    ASSUME StoreInv, NEW p \in Clis, Torn(p)
    PROVE  TornFile(p) \in Tables /\ TornFile(p) \in damaged
<1> DEFINE q == procs[p]
<1>1. Knows(q)  BY DEF StoreInv
<1>2. q.cmd \in Commands /\ q.next \in 1 .. Len(Files)  BY <1>1 DEF Torn, Knows
<1>3. CASE q.pc = "loadTorn"
  BY <1>1, <1>2, <1>3, FileOfIndex DEF Knows, TornFile
<1>4. CASE q.pc \in {"lockedTorn", "refreshTorn"}
  BY <1>1, <1>2, <1>4, CommandFile DEF Knows, TornFile
<1> QED BY <1>3, <1>4 DEF Torn

LEMMA BackUpFacts ==
    ASSUME StoreInv, NEW p \in Clis, NEW renamed \in BOOLEAN, BackUp(p, renamed),
           NEW f, f = TornFile(p)
    PROVE  /\ f \in Tables /\ f \in damaged
           /\ \A g \in Tables : g # f => disk'[g] = disk[g]
           /\ renamed => /\ disk'[f] = [st |-> "none", rows |-> <<>>]
                         /\ ToSet(disk[f].rows) \subseteq Saved(f)'
           /\ ~renamed => /\ disk'[f] = disk[f]
                          /\ disk[f].st = "torn" => f \in unsaved'
           /\ disk' = [g \in Tables |-> disk'[g]]
           /\ UNCHANGED <<abs, live, raced, damaged>> /\ unsaved \subseteq unsaved'
           /\ \A g \in Tables : Saved(g) \subseteq Saved(g)'
<1>1. f \in Tables /\ f \in damaged  BY TornFileDamaged DEF BackUp
<1>2. /\ backups' = IF renamed THEN backups \cup {[file |-> f, rows |-> disk[f].rows]} ELSE backups
      /\ disk' = IF renamed THEN [disk EXCEPT ![f] = [st |-> "none", rows |-> <<>>]] ELSE disk
      /\ unsaved' = IF ~renamed /\ disk[f].st = "torn" THEN unsaved \cup {f} ELSE unsaved
      /\ UNCHANGED <<abs, live, raced, damaged>>
  BY DEF BackUp
<1>3. disk = [g \in Tables |-> disk[g]]  BY DEF StoreInv, Shapes
<1>4. \A g \in Tables : Saved(g) \subseteq Saved(g)'  BY <1>2 DEF Saved
<1>5. renamed => ToSet(disk[f].rows) \subseteq Saved(f)'
  <2> SUFFICES ASSUME renamed PROVE ToSet(disk[f].rows) \subseteq Saved(f)'  OBVIOUS
  <2>1. PICK b : b = [file |-> f, rows |-> disk[f].rows]  OBVIOUS
  <2>2. b \in {x \in backups' : x.file = f} /\ b.rows = disk[f].rows  BY <1>2, <2>1
  <2>3. ToSet(b.rows) \subseteq UNION {ToSet(c.rows) : c \in {x \in backups' : x.file = f}}
    BY <2>2
  <2> QED BY <2>2, <2>3 DEF Saved
<1>6. /\ \A g \in Tables : g # f => disk'[g] = disk[g]
      /\ renamed => disk'[f] = [st |-> "none", rows |-> <<>>]
      /\ ~renamed => disk'[f] = disk[f]
      /\ disk' = [g \in Tables |-> disk'[g]]
  BY <1>1, <1>2, <1>3
<1> QED BY <1>1, <1>2, <1>4, <1>5, <1>6

\* What is known stays known.
LEMMA BackUpKeepsKnown ==
    ASSUME StoreInv, NEW p \in Clis, NEW renamed \in BOOLEAN, BackUp(p, renamed),
           NEW w, Knows(w)
    PROVE  Knows(w)'
<1>0. PICK f : f = TornFile(p)  OBVIOUS
<1> DEFINE g == w.cmd.file
<1>1. /\ f \in damaged /\ \A h \in Tables : h # f => disk'[h] = disk[h]
      /\ disk'[f] = disk[f] \/ disk'[f] = [st |-> "none", rows |-> <<>>]
      /\ UNCHANGED <<live, raced, damaged>> /\ unsaved \subseteq unsaved'
      /\ \A h \in Tables : Saved(h) \subseteq Saved(h)'
  BY <1>0, BackUpFacts
<1>2. w.pc # "gone" => g \in Tables  BY CommandFile DEF Knows
<1>3. HasRead(w)' <=> HasRead(w)  BY DEF HasRead
<1>4. RecoversFile(g)' => RecoversFile(g)  BY <1>1 DEF RecoversFile
<1>5. HasRead(w) => w.pc # "gone"  BY DEF HasRead, BeforeWrite
<1>6. w.pc # "gone" /\ disk[g].st # "ok" => disk'[g].st # "ok"  BY <1>1, <1>2
<1>7. w.pc # "gone" /\ g \notin damaged => disk'[g] = disk[g]  BY <1>1, <1>2
<1>8. HasRead(w) => Saved(g) \subseteq Saved(g)'  BY <1>1, <1>2, <1>5
<1>9. HasRead(w) /\ ~w.old /\ g \notin damaged' => w.mem = disk'[g].rows
  BY <1>1, <1>5, <1>7 DEF Knows
<1>10. HasRead(w) /\ ~w.old /\ RecoversFile(g)' => live'[g] \subseteq ToSet(w.mem) \cup Saved(g)'
  BY <1>1, <1>4, <1>8 DEF Knows
<1>11. w.pc = "loadTorn" /\ Files[w.next] = g /\ ~w.old => disk'[g].st # "ok"
  BY <1>6 DEF Knows
<1> QED BY <1>1, <1>3, <1>9, <1>10, <1>11 DEF Knows

\* The process goes on with an empty table: it is the one of the file.
LEMMA RecoveredKnows ==
    ASSUME StoreInv, NEW p \in Clis, NEW renamed \in BOOLEAN, BackUp(p, renamed),
           NEW q, q = procs[p], q.pc = "loadTorn", NEW f, f = TornFile(p), f \notin Hard,
           NEW v, v = AfterLoad([q EXCEPT !.pc = "load"])
    PROVE  Knows(v)' /\ v.pc \in {"load", "ready"}
<1>1. /\ f \in Tables /\ f \in damaged
      /\ renamed => ToSet(disk[f].rows) \subseteq Saved(f)'
      /\ ~renamed /\ disk[f].st = "torn" => f \in unsaved'
      /\ UNCHANGED <<live, raced, damaged>> /\ unsaved \subseteq unsaved'
      /\ \A g \in Tables : Saved(g) \subseteq Saved(g)'
  BY BackUpFacts
<1>2. Knows(q)  BY DEF StoreInv
<1>3. /\ q = [x \in ProcFields |-> q[x]] /\ q.cmd \in Commands /\ q.next \in 1 .. Len(Files)
      /\ f = Files[q.next] /\ FileOK(f)
  BY <1>1, <1>2 DEF Knows, TornFile, StoreInv
<1>4. PICK u : u = [q EXCEPT !.pc = "load"]  OBVIOUS
<1>5. /\ u = [x \in ProcFields |-> u[x]] /\ u.pc = "load" /\ u.cmd = q.cmd
      /\ u.next = q.next /\ u.mem = q.mem /\ u.old = q.old
  BY <1>3, <1>4 DEF ProcFields
<1>6. /\ v = [x \in ProcFields |-> v[x]] /\ v.cmd = q.cmd /\ v.mem = q.mem /\ v.old = q.old
      /\ v.next \in 1 .. Len(Files) /\ v.pc \in {"load", "ready"}
      /\ v.pc = "load" => v.next = q.next + 1
      /\ v.pc = "ready" => q.next = Len(Files)
  <2>1. v = AfterLoad(u)  BY <1>4
  <2>2. u.next \in 1 .. Len(Files)  BY <1>3, <1>5
  <2>3. /\ v = [x \in ProcFields |-> v[x]] /\ v.cmd = u.cmd /\ v.mem = u.mem
        /\ v.old = u.old /\ v.next \in 1 .. Len(Files) /\ v.pc \in {"load", "ready"}
        /\ v.pc = "load" => v.next = u.next + 1
        /\ v.pc = "ready" => u.next = Len(Files)
    BY <1>5, <2>1, <2>2, AfterLoadFields, Zenon
  <2> QED BY <1>5, <2>3
<1>7. HasRead(v)' <=> HasRead(v)  BY DEF HasRead
<1>8. Knows(v)'
  <2>1. CASE f = q.cmd.file
    <3>1. ASSUME ~q.old, RecoversFile(f)' PROVE live'[f] \subseteq Saved(f)'
      <4>1. disk[f].st # "ok"  BY <1>2, <1>3, <2>1, <3>1 DEF Knows
      <4>2. RecoversFile(f) /\ f \notin unsaved'  BY <1>1, <3>1 DEF RecoversFile
      <4>3. live[f] \subseteq ToSet(disk[f].rows) \cup Saved(f)  BY <1>3, <4>2 DEF FileOK
      <4>4. CASE renamed  BY <1>1, <4>3, <4>4
      <4>5. CASE ~renamed
        <5>1. disk[f].st = "none"  BY <1>1, <1>3, <4>1, <4>2, <4>5 DEF FileOK
        <5>2. disk[f].rows = <<>>  BY <1>3, <5>1 DEF FileOK
        <5>3. ToSet(<<>>) = {}  BY DEF ToSet
        <5> QED BY <1>1, <4>3, <5>2, <5>3
      <4> QED BY <4>4, <4>5
    <3>2. v.cmd.file = f /\ (~v.old => ~q.old)  BY <1>6, <2>1
    <3>3. f \in damaged'  BY <1>1
    <3> QED BY <1>3, <1>6, <1>7, <3>1, <3>2, <3>3 DEF Knows, Holding
  <2>2. CASE f # q.cmd.file
    <3>1. HasRead(v) => HasRead(q)  BY <1>3, <1>6, <2>2, NextFileRead
    <3>2. Knows(q)'  BY <1>2, BackUpKeepsKnown
    <3>3. HasRead(q)' <=> HasRead(q)  BY DEF HasRead
    <3>4. v.mem = q.mem /\ (~v.old => ~q.old) /\ v.cmd = q.cmd  BY <1>6
    <3> QED BY <1>3, <1>6, <1>7, <3>1, <3>2, <3>3, <3>4 DEF Knows, Holding
  <2> QED BY <2>1, <2>2
<1> QED BY <1>6, <1>8

LEMMA BackUpKnows ==
    ASSUME StoreInv, NEW p \in Clis, NEW renamed \in BOOLEAN, BackUp(p, renamed)
    PROVE  StoreInv'
<1>1. PICK q : q = procs[p]  OBVIOUS
<1>2. PICK f : f = TornFile(p)  OBVIOUS
<1>3. PICK v : v = IF q.pc = "loadTorn" /\ f \notin Hard
                   THEN AfterLoad([q EXCEPT !.pc = "load"]) ELSE Gone
  OBVIOUS
<1>4. /\ f \in Tables /\ f \in damaged
      /\ \A g \in Tables : g # f => disk'[g] = disk[g]
      /\ renamed => /\ disk'[f] = [st |-> "none", rows |-> <<>>]
                    /\ ToSet(disk[f].rows) \subseteq Saved(f)'
      /\ ~renamed => disk'[f] = disk[f]
      /\ disk' = [g \in Tables |-> disk'[g]]
      /\ UNCHANGED <<abs, live, raced, damaged>> /\ unsaved \subseteq unsaved'
      /\ \A g \in Tables : Saved(g) \subseteq Saved(g)'
  BY <1>2, BackUpFacts
<1>5. Knows(v)' /\ v.pc \notin Holding
  <2>1. CASE q.pc = "loadTorn" /\ f \notin Hard
    <3>1. v = AfterLoad([q EXCEPT !.pc = "load"])  BY <1>3, <2>1
    <3>2. Knows(v)' /\ v.pc \in {"load", "ready"}
      BY <1>1, <1>2, <2>1, <3>1, RecoveredKnows
    <3> QED BY <3>2 DEF Holding
  <2>2. CASE ~(q.pc = "loadTorn" /\ f \notin Hard)
    <3>1. v = Gone  BY <1>3, <2>2
    <3>2. Knows(v)  BY <3>1, GoneKnows
    <3> QED BY <3>1, <3>2, BackUpKeepsKnown DEF Gone, Holding
  <2> QED BY <2>1, <2>2
<1>6. procs' = [procs EXCEPT ![p] = v]
  BY <1>1, <1>2, <1>3 DEF BackUp, EndCli
<1>7. \A r \in Clis : procs'[r] = IF r = p THEN v ELSE procs[r]
  BY <1>6 DEF StoreInv, Shapes
<1>8. LockInv'
  <2>1. accountsLock' = accountsLock \/ accountsLock' = IF accountsLock = p THEN NoCli ELSE accountsLock  BY DEF BackUp, EndCli
  <2>2. q.pc = "loadTorn" => accountsLock # p  BY <1>1 DEF StoreInv, LockInv, Holding
  <2>3. accountsLock' = accountsLock => q.pc = "loadTorn" \/ accountsLock # p
    <3>1. NoCli # p  BY ConfigAssumption DEF ConfigAssumption
    <3> QED BY <1>1, <3>1 DEF BackUp, EndCli
  <2>4. \A r \in Clis : NoCli # r  BY ConfigAssumption DEF ConfigAssumption
  <2>5. \A r \in Clis : accountsLock' = r <=> IF r = p THEN FALSE ELSE accountsLock = r
    BY <2>1, <2>2, <2>3, <2>4
  <2> QED BY <1>5, <1>7, <2>5 DEF StoreInv, LockInv
<1>9. \A r \in Clis : Knows(procs[r])'
  <2> TAKE r \in Clis
  <2>1. PICK w : w = procs'[r]  OBVIOUS
  <2>2. Knows(w)'
    <3>1. CASE r = p  BY <1>5, <1>7, <2>1, <3>1
    <3>2. CASE r # p
      <4>1. w = procs[r]  BY <1>7, <2>1, <3>2
      <4>2. Knows(w)  BY <4>1 DEF StoreInv
      <4> QED BY <4>2, BackUpKeepsKnown
    <3> QED BY <3>1, <3>2
  <2> QED BY <2>1, <2>2 DEF Knows, HasRead
<1>10. \A g \in Tables : FileOK(g)'
  <2> TAKE g \in Tables
  <2>1. FileOK(g)  BY DEF StoreInv
  <2>2. RecoversFile(g)' => RecoversFile(g)  BY <1>4 DEF RecoversFile
  <2>3. disk'[g].rows = disk[g].rows \/ (g = f /\ disk'[g].rows = <<>>)  BY <1>4
  <2>4. ToSet(disk[g].rows) \subseteq ToSet(disk'[g].rows) \cup Saved(g)'  BY <1>4
  <2>5. RecoversFile(g)' => live'[g] \subseteq ToSet(disk'[g].rows) \cup Saved(g)'
    BY <1>4, <2>1, <2>2, <2>4 DEF FileOK
  <2>6. Exact(g)' => disk'[g].rows = abs'[g]
    <3> SUFFICES ASSUME Exact(g)' PROVE disk'[g].rows = abs'[g]  OBVIOUS
    <3>1. g # f /\ Exact(g)  BY <1>4 DEF Exact
    <3> QED BY <1>4, <2>1, <3>1 DEF FileOK
  <2>7. /\ disk'[g] = [st |-> disk'[g].st, rows |-> disk'[g].rows]
        /\ disk'[g].st \in {"none", "ok", "torn"}
        /\ disk'[g].st = "none" => disk'[g].rows = <<>>
        /\ disk'[g].st = "torn" => g \in damaged'
    <3>1. CASE disk'[g] = disk[g]  BY <1>4, <2>1, <3>1 DEF FileOK
    <3>2. CASE disk'[g] = [st |-> "none", rows |-> <<>>]  BY <3>2
    <3> QED BY <1>4, <3>1, <3>2
  <2> QED BY <2>5, <2>6, <2>7 DEF FileOK
<1>11. Shapes'  BY <1>4, <1>6 DEF StoreInv, Shapes
<1> QED BY <1>8, <1>9, <1>10, <1>11 DEF StoreInv

-----------------------------------------------------------------------------
(* A process writes the file of its command.                               *)

LEMMA CommitFacts ==
    ASSUME StoreInv, NEW p \in Clis, Commit(p), NEW q, q = procs[p], NEW f, f = q.cmd.file
    PROVE  /\ q = [x \in ProcFields |-> q[x]] /\ q.cmd \in Commands
           /\ q.next \in 1 .. Len(Files) /\ f \in Tables /\ HasRead(q)
           /\ f \in Locked => accountsLock = p
           /\ (f \in Locked \/ f \notin raced') => ~q.old
           /\ raced \subseteq raced'
<1>1. q.pc \in {"latest", "ready"} /\ (f \in Locked => q.pc = "latest")  BY DEF Commit
<1>2. Knows(q)  BY DEF StoreInv
<1>3. /\ q = [x \in ProcFields |-> q[x]] /\ q.cmd \in Commands /\ q.next \in 1 .. Len(Files)
  BY <1>1, <1>2 DEF Knows
<1>4. f \in Tables /\ \E i \in 1 .. Len(Files) : Files[i] = f  BY <1>3, CommandFile
<1>5. HasRead(q)  BY <1>1, <1>4 DEF HasRead, BeforeWrite
<1>6. f \in Locked => accountsLock = p /\ ~q.old
  BY <1>1, <1>2 DEF Knows, StoreInv, LockInv, Holding
<1>7. raced' = IF q.old THEN raced \cup {f} ELSE raced  BY DEF Commit
<1> QED BY <1>3, <1>4, <1>5, <1>6, <1>7

LEMMA CommitFile ==
    ASSUME StoreInv, NEW p \in Clis, Commit(p), NEW g \in Tables
    PROVE  FileOK(g)'
<1>1. PICK q : q = procs[p]  OBVIOUS
<1>2. PICK f : f = q.cmd.file  OBVIOUS
<1>3. PICK table : table = Apply(q.mem, q.cmd, q.run)  OBVIOUS
<1>4. /\ f \in Tables /\ HasRead(q)
      /\ (f \in Locked \/ f \notin raced') => ~q.old
      /\ raced \subseteq raced'
  BY <1>1, <1>2, CommitFacts
<1>5. /\ disk' = [disk EXCEPT ![f] = [st |-> "ok", rows |-> table]]
      /\ abs' = [abs EXCEPT ![f] = Apply(@, q.cmd, q.run)]
      /\ live' = [live EXCEPT ![f] = (@ \ ToSet(q.mem)) \cup ToSet(table)]
      /\ UNCHANGED <<backups, damaged, unsaved>>
  BY <1>1, <1>2, <1>3 DEF Commit
<1>6. Shapes /\ FileOK(g) /\ Knows(q)  BY <1>1 DEF StoreInv
<1>7. Saved(g)' = Saved(g)  BY <1>5 DEF Saved
<1>8. CASE g # f
  <2>1. disk'[g] = disk[g] /\ abs'[g] = abs[g] /\ live'[g] = live[g]
    BY <1>5, <1>6, <1>8 DEF Shapes
  <2>2. (Exact(g)' => Exact(g)) /\ (RecoversFile(g)' => RecoversFile(g))
    BY <1>4, <1>5 DEF Exact, RecoversFile
  <2> QED BY <1>5, <1>6, <1>7, <2>1, <2>2 DEF FileOK
<1>9. CASE g = f
  <2>1. /\ disk'[f] = [st |-> "ok", rows |-> table]
        /\ abs'[f] = Apply(abs[f], q.cmd, q.run)
        /\ live'[f] = (live[f] \ ToSet(q.mem)) \cup ToSet(table)
    BY <1>4, <1>5, <1>6 DEF Shapes
  <2>2. disk'[f].st = "ok" /\ disk'[f].rows = table  BY <2>1
  <2>3. Exact(f)' => table = abs'[f]
    <3> SUFFICES ASSUME Exact(f)' PROVE table = abs'[f]  OBVIOUS
    <3>1. ~q.old /\ Exact(f)  BY <1>4, <1>5 DEF Exact
    <3>2. q.mem = disk[f].rows  BY <1>2, <1>4, <1>6, <3>1 DEF Knows, Exact
    <3>3. disk[f].rows = abs[f]  BY <1>6, <1>9, <3>1 DEF FileOK
    <3> QED BY <1>3, <2>1, <3>2, <3>3
  <2>4. RecoversFile(f)' => live'[f] \subseteq ToSet(table) \cup Saved(f)'
    <3> SUFFICES ASSUME RecoversFile(f)' PROVE live'[f] \subseteq ToSet(table) \cup Saved(f)'
      OBVIOUS
    <3>1. ~q.old /\ RecoversFile(f)  BY <1>4, <1>5 DEF RecoversFile
    <3>2. live[f] \subseteq ToSet(q.mem) \cup Saved(f)  BY <1>2, <1>4, <1>6, <3>1 DEF Knows
    <3> QED BY <1>7, <1>9, <2>1, <3>2
  <2> QED BY <1>9, <2>1, <2>2, <2>3, <2>4 DEF FileOK
<1> QED BY <1>8, <1>9

\* The process of the command is through; of the others, who has read the file knows
\* nothing of it any more, and nobody is about to write a file of the lock.
LEMMA CommitKnown ==
    ASSUME StoreInv, NEW p \in Clis, Commit(p), NEW r \in Clis, NEW w, w = procs'[r]
    PROVE  Knows(w)' /\ (r # p => w.pc = procs[r].pc) /\ (r = p => w.pc \notin Holding)
<1>1. PICK q : q = procs[p]  OBVIOUS
<1>2. PICK f : f = q.cmd.file  OBVIOUS
<1>3. PICK u : u = procs[r]  OBVIOUS
<1>4. /\ q = [x \in ProcFields |-> q[x]] /\ q.cmd \in Commands
      /\ q.next \in 1 .. Len(Files) /\ f \in Tables
      /\ f \in Locked => accountsLock = p
      /\ raced \subseteq raced'
  BY <1>1, <1>2, CommitFacts
<1>5. Shapes /\ LockInv /\ Knows(u)  BY <1>3 DEF StoreInv
<1>6. w = IF r = p THEN [q EXCEPT !.pc = IF f = "accounts" THEN "secrets" ELSE "done",
                                  !.mem = <<>>, !.old = FALSE]
          ELSE IF u.pc # "gone" /\ u.cmd.file = f THEN [u EXCEPT !.old = TRUE] ELSE u
  BY <1>1, <1>2, <1>3 DEF Commit
<1>7. CASE r = p
  <2>1. /\ w = [x \in ProcFields |-> w[x]] /\ w.cmd \in Commands
        /\ w.next \in 1 .. Len(Files) /\ w.pc \in {"secrets", "done"}
    BY <1>4, <1>6, <1>7 DEF ProcFields
  <2> QED BY <1>7, <2>1 DEF Knows, HasRead, BeforeWrite, Holding
<1>8. CASE r # p /\ u.pc # "gone" /\ u.cmd.file = f
  <2>1. u.pc # "latest"
    <3>1. u.pc = "latest" => f \in Locked /\ accountsLock = r
      BY <1>3, <1>5, <1>8 DEF Knows, LockInv, Holding
    <3> QED BY <1>4, <1>8, <3>1
  <2>2. /\ w = [x \in ProcFields |-> w[x]] /\ w.pc = u.pc /\ w.cmd = u.cmd
        /\ w.next = u.next /\ w.old
    BY <1>5, <1>6, <1>8 DEF Knows, ProcFields
  <2>3. damaged' = damaged  BY DEF Commit
  <2> QED BY <1>3, <1>5, <1>8, <2>1, <2>2, <2>3 DEF Knows
<1>9. CASE r # p /\ (u.pc = "gone" \/ u.cmd.file # f)
  <2>1. w = u  BY <1>6, <1>9
  <2>2. u.pc # "gone" => /\ disk'[u.cmd.file] = disk[u.cmd.file]
                         /\ live'[u.cmd.file] = live[u.cmd.file]
    BY <1>1, <1>2, <1>5, <1>9, CommandFile DEF Commit, Shapes, Knows
  <2>3. UNCHANGED <<damaged, unsaved, backups>>  BY DEF Commit
  <2>4. RecoversFile(u.cmd.file)' => RecoversFile(u.cmd.file)  BY <1>4, <2>3 DEF RecoversFile
  <2>5. (HasRead(u)' <=> HasRead(u)) /\ (HasRead(u) => u.pc # "gone")
    BY DEF HasRead, BeforeWrite
  <2>6. Saved(u.cmd.file)' = Saved(u.cmd.file)  BY <2>3 DEF Saved
  <2>7. Knows(u)'  BY <1>5, <2>2, <2>3, <2>4, <2>5, <2>6 DEF Knows
  <2> QED BY <1>3, <1>9, <2>1, <2>7
<1> QED BY <1>7, <1>8, <1>9

LEMMA CommitKnows ==
    ASSUME StoreInv, NEW p \in Clis, Commit(p)
    PROVE  StoreInv'
<1>1. \A r \in Clis : /\ Knows(procs[r])'
                      /\ r # p => procs'[r].pc = procs[r].pc
                      /\ r = p => procs'[r].pc \notin Holding
  <2> TAKE r \in Clis
  <2>1. PICK w : w = procs'[r]  OBVIOUS
  <2>2. Knows(w)' /\ (r # p => w.pc = procs[r].pc) /\ (r = p => w.pc \notin Holding)
    BY <2>1, CommitKnown
  <2>3. Knows(procs[r])'  BY <2>1, <2>2 DEF Knows, HasRead
  <2> QED BY <2>1, <2>2, <2>3
<1>2. LockInv'
  <2>1. accountsLock' = IF accountsLock = p THEN NoCli ELSE accountsLock  BY DEF Commit
  <2>2. \A r \in Clis : NoCli # r  BY ConfigAssumption DEF ConfigAssumption
  <2> QED BY <1>1, <2>1, <2>2 DEF StoreInv, LockInv
<1>3. \A g \in Tables : FileOK(g)'  BY CommitFile
<1>4. Shapes'  BY DEF StoreInv, Shapes, Commit
<1> QED BY <1>1, <1>2, <1>3, <1>4 DEF StoreInv

\* Damage takes no row, and is remembered.
LEMMA DamageKnows ==
    ASSUME StoreInv, NEW f \in Tables, Damage(f)
    PROVE  StoreInv'
<1>1. /\ disk[f].st = "ok" /\ disk' = [disk EXCEPT ![f].st = "torn"]
      /\ damaged' = damaged \cup {f}
      /\ UNCHANGED <<backups, accountsLock, procs, abs, live, raced, unsaved>>
  BY DEF Damage
<1>2. Shapes /\ \A g \in Tables : FileOK(g)  BY DEF StoreInv
<1>3. \A g \in Tables : /\ disk'[g] = [st |-> disk'[g].st, rows |-> disk'[g].rows]
                        /\ disk'[g].rows = disk[g].rows
                        /\ disk'[g].st = IF g = f THEN "torn" ELSE disk[g].st
  BY <1>1, <1>2 DEF Shapes, FileOK
<1>4. \A g : (Exact(g)' => Exact(g)) /\ (RecoversFile(g)' <=> RecoversFile(g)) /\ Saved(g)' = Saved(g)
  BY <1>1 DEF Exact, RecoversFile, Saved
<1>5. \A g \in Tables : FileOK(g)'
  <2> TAKE g \in Tables
  <2>1. FileOK(g)  BY <1>2
  <2>2. /\ disk'[g] = [st |-> disk'[g].st, rows |-> disk'[g].rows]
        /\ disk'[g].st \in {"none", "ok", "torn"}
        /\ disk'[g].st = "none" => disk'[g].rows = <<>>
        /\ disk'[g].st = "torn" => g \in damaged'
    BY <1>1, <1>3, <2>1 DEF FileOK
  <2>3. Exact(g)' => disk'[g].rows = abs'[g]  BY <1>1, <1>3, <1>4, <2>1 DEF FileOK
  <2>4. RecoversFile(g)' => live'[g] \subseteq ToSet(disk'[g].rows) \cup Saved(g)'
    BY <1>1, <1>3, <1>4, <2>1 DEF FileOK
  <2> QED BY <2>2, <2>3, <2>4 DEF FileOK
<1>6. \A r \in Clis : Knows(procs[r])'
  <2> TAKE r \in Clis
  <2>1. PICK w : w = procs[r]  OBVIOUS
  <2>2. Knows(w)  BY <2>1 DEF StoreInv
  <2>3. w.pc # "gone" => w.cmd.file \in Tables  BY <2>2, CommandFile DEF Knows
  <2>4. HasRead(w)' <=> HasRead(w)  BY DEF HasRead
  <2>5. HasRead(w) => w.pc # "gone"  BY DEF HasRead, BeforeWrite
  <2>6. Knows(w)'  BY <1>1, <1>3, <1>4, <2>2, <2>3, <2>4, <2>5 DEF Knows
  <2>7. w = procs'[r]  BY <1>1, <2>1
  <2> QED BY <2>6, <2>7 DEF Knows, HasRead
<1>7. Shapes' /\ LockInv'  BY <1>1, <1>2 DEF StoreInv, Shapes, LockInv
<1> QED BY <1>5, <1>6, <1>7 DEF StoreInv

-----------------------------------------------------------------------------
LEMMA StoreStep == StoreInv /\ [ConfigNext]_configVars => StoreInv'
<1> SUFFICES ASSUME StoreInv, [ConfigNext]_configVars PROVE StoreInv'  OBVIOUS
<1>1. ASSUME NEW p \in Clis, Process(p) PROVE StoreInv'
  <2>1. ASSUME NEW cmd \in Commands, Start(p, cmd) PROVE StoreInv'  BY <2>1, StartKnows
  <2>2. ASSUME ReadTable(p) \/ ReadDamaged(p) PROVE StoreInv'
    BY <2>2, ReadFileKnows, ReadDamagedKnows
  <2>3. ASSUME NEW b \in BOOLEAN, BackUp(p, b) PROVE StoreInv'  BY <2>3, BackUpKnows
  <2>4. ASSUME Lock(p) \/ ReadLatest(p) PROVE StoreInv'  BY <2>4, LockKnows, ReadLatestKnows
  <2>5. ASSUME Commit(p) PROVE StoreInv'  BY <2>5, CommitKnows
  <2>6. ASSUME LockBusy(p) \/ Die(p) PROVE StoreInv'  BY <2>6, GiveUpKnows
  <2>7. ASSUME \/ \E ok \in BOOLEAN : SaveSecret(p, ok)
               \/ Finish(p) \/ RefreshAccounts(p) \/ ReadPrefs(p) \/ AssignPrefs(p)
        PROVE  StoreInv'
    BY <2>7, ReportKnows
  <2> QED BY <1>1, <2>1, <2>2, <2>3, <2>4, <2>5, <2>6, <2>7 DEF Process
<1>2. ASSUME NEW f \in Tables, Damage(f) PROVE StoreInv'  BY <1>2, DamageKnows
<1>3. ASSUME UNCHANGED configVars PROVE StoreInv'
  <2>1. UNCHANGED fileVars /\ UNCHANGED <<accountsLock, procs>>
    BY <1>3 DEF configVars, diskVars, history, fileVars
  <2>2. Shapes' /\ LockInv'  BY <2>1 DEF StoreInv, Shapes, LockInv, fileVars
  <2>3. ASSUME NEW r \in Clis PROVE Knows(procs[r])'
    BY <2>1 DEF StoreInv, Knows, HasRead, RecoversFile, Saved, fileVars
  <2>4. \A f \in Tables : FileOK(f)'
    BY <2>1 DEF StoreInv, FileOK, Exact, RecoversFile, Saved, fileVars
  <2> QED BY <2>2, <2>3, <2>4 DEF StoreInv
<1> QED BY <1>1, <1>2, <1>3 DEF ConfigNext, NoMoreRuns

\* update_accounts_with: every change of accounts.json takes effect on the latest table,
\* for any number of processes, and so does one of another file that no process has
\* written from an older copy.
THEOREM ChangesOnLatest == ConfigSpec => []TablesExact
<1>1. StoreInv => TablesExact  BY DEF StoreInv, FileOK, Exact, TablesExact
<1> QED BY <1>1, InitStore, StoreStep, PTL DEF ConfigSpec

\* read_json: whichever processes find a file damaged and rename it, at whatever time, the
\* rows that nobody has replaced or removed are in the file or in a copy.
THEOREM DamageCostsNoRow == ConfigSpec => []DamageKeepsRows
<1>1. StoreInv => DamageKeepsRows
  BY DEF StoreInv, FileOK, RecoversFile, Saved, DamageKeepsRows
<1> QED BY <1>1, InitStore, StoreStep, PTL DEF ConfigSpec

-----------------------------------------------------------------------------
(* What retain keeps of a table, and in which order.                        *)

\* A set of natural numbers has a least one.
LEMMA LeastIndex ==
    ASSUME NEW S, S \subseteq Nat, S # {}
    PROVE  \E n \in S : \A m \in S : n <= m
<1>1. IsWellFoundedOn(OpToRel(<, Nat), Nat)  BY NatLessThanWellFounded
<1>2. PICK n \in S : \A m \in S : ~(<<m, n>> \in OpToRel(<, Nat))
  BY <1>1, WFMin, Zenon
<1>3. ASSUME NEW m \in S PROVE n <= m
  <2>1. m \in Nat /\ n \in Nat  OBVIOUS
  <2>2. <<m, n>> \notin OpToRel(<, Nat)  BY <1>2
  <2>3. ~(m < n)  BY <2>1, <2>2 DEF OpToRel
  <2> QED BY <2>1, <2>3
<1> QED BY <1>3

\* The first rows of a table without those of an id.
RowKeptIn(kept, table, id, m) ==
    kept = [n \in 0 .. m |->
              IF n = 0 THEN <<>>
              ELSE IF table[n].id = id THEN kept[n - 1] ELSE Append(kept[n - 1], table[n])]

LEMMA RowKeptExists ==
    ASSUME NEW table, NEW id, NEW m \in Nat
    PROVE  \E kept : RowKeptIn(kept, table, id, m)
<1> DEFINE Bad == {k \in Nat : ~ \E kept : RowKeptIn(kept, table, id, k)}
<1> SUFFICES ASSUME Bad # {} PROVE FALSE  OBVIOUS
<1>1. PICK k \in Bad : \A j \in Bad : k <= j
  <2> HIDE DEF Bad
  <2>1. Bad \subseteq Nat  BY DEF Bad
  <2> QED BY <2>1, LeastIndex
<1>2. k # 0
  <2>1. RowKeptIn([n \in 0 .. 0 |-> <<>>], table, id, 0)  BY DEF RowKeptIn
  <2> QED BY <1>1, <2>1
<1>3. PICK kept : RowKeptIn(kept, table, id, k - 1)
  <2>1. k - 1 \in Nat /\ ~(k <= k - 1)  BY <1>1, <1>2
  <2> QED BY <1>1, <2>1
<1>4. PICK row : row = IF table[k].id = id THEN kept[k - 1] ELSE Append(kept[k - 1], table[k])
  OBVIOUS
<1>5. PICK more : more = [n \in 0 .. k |-> IF n = k THEN row ELSE kept[n]]  OBVIOUS
<1>6. k \in Nat /\ k > 0  BY <1>1, <1>2
<1>7. \A n \in 0 .. k - 1 :
        kept[n] = IF n = 0 THEN <<>>
                  ELSE IF table[n].id = id THEN kept[n - 1] ELSE Append(kept[n - 1], table[n])
  BY <1>3 DEF RowKeptIn
<1>8. more[k] = row /\ \A n \in 0 .. k - 1 : more[n] = kept[n]  BY <1>5, <1>6
<1>9. ASSUME NEW n \in 0 .. k
      PROVE  more[n] = IF n = 0 THEN <<>>
                       ELSE IF table[n].id = id THEN more[n - 1]
                            ELSE Append(more[n - 1], table[n])
  <2>1. CASE n = k
    <3>1. more[n - 1] = kept[n - 1]  BY <1>6, <1>8, <2>1
    <3> QED BY <1>2, <1>4, <1>8, <2>1, <3>1
  <2>2. CASE n # k /\ n # 0
    <3>1. n \in 0 .. k - 1 /\ n - 1 \in 0 .. k - 1  BY <1>6, <2>2
    <3>2. more[n] = kept[n] /\ more[n - 1] = kept[n - 1]  BY <1>8, <3>1
    <3> QED BY <1>7, <2>2, <3>1, <3>2
  <2>3. CASE n # k /\ n = 0
    <3>1. n \in 0 .. k - 1  BY <1>6, <2>3
    <3> QED BY <1>7, <1>8, <2>3, <3>1
  <2> QED BY <2>1, <2>2, <2>3
<1>10. more = [n \in 0 .. k |-> more[n]]  BY <1>5
<1>11. RowKeptIn(more, table, id, k)  BY <1>9, <1>10 DEF RowKeptIn
<1> QED BY <1>1, <1>11

LEMMA WithoutIsKept ==
    ASSUME NEW table, NEW id, Len(table) \in Nat
    PROVE  \E kept : RowKeptIn(kept, table, id, Len(table)) /\ WithoutRow(table, id) = kept[Len(table)]
<1>1. \E kept : RowKeptIn(kept, table, id, Len(table))  BY RowKeptExists
<1> QED BY <1>1 DEF RowKeptIn, WithoutRow

\* The rows of u are rows of t, in the same order.
Picks(h, u, t) ==
    /\ \A k \in DOMAIN u : h[k] \in DOMAIN t /\ u[k] = t[h[k]]
    /\ \A k, l \in DOMAIN u : k < l => h[k] < h[l]

\* What a part of the recursion has kept of the first n rows.
Keeps(u, table, id, n) ==
    /\ \A k \in DOMAIN u : u[k].id # id
    /\ \E h : Picks(h, u, table) /\ \A k \in DOMAIN u : h[k] <= n

LEMMA KeepsMore ==
    ASSUME NEW S, NEW table \in Seq(S), NEW id, NEW n \in 1 .. Len(table),
           NEW u \in Seq(S), Keeps(u, table, id, n - 1), table[n].id # id
    PROVE  Keeps(Append(u, table[n]), table, id, n)
<1>1. PICK h : Picks(h, u, table) /\ \A k \in DOMAIN u : h[k] <= n - 1  BY DEF Keeps
<1>2. PICK v : v = Append(u, table[n])  OBVIOUS
<1>3. PICK g : g = [k \in DOMAIN v |-> IF k \in DOMAIN u THEN h[k] ELSE n]  OBVIOUS
<1>4. /\ Len(u) \in Nat /\ DOMAIN u = 1 .. Len(u) /\ DOMAIN v = 1 .. Len(u) + 1
      /\ \A k \in DOMAIN u : v[k] = u[k]
      /\ v[Len(u) + 1] = table[n]
      /\ DOMAIN table = 1 .. Len(table) /\ Len(table) \in Nat /\ n \in DOMAIN table
  BY <1>2
<1>5. \A k \in DOMAIN v : k \in DOMAIN u \/ k = Len(u) + 1  BY <1>4
<1>6. Len(u) + 1 \notin DOMAIN u  BY <1>4
<1>7. (\A k \in DOMAIN u : g[k] = h[k]) /\ g[Len(u) + 1] = n  BY <1>3, <1>4, <1>6
<1>8. \A k \in DOMAIN u : h[k] \in 1 .. n - 1 /\ v[k] = table[h[k]]
  BY <1>1, <1>4 DEF Picks
<1>9. \A k \in DOMAIN v : g[k] \in DOMAIN table /\ v[k] = table[g[k]] /\ g[k] <= n
  <2> TAKE k \in DOMAIN v
  <2>1. CASE k \in DOMAIN u  BY <1>4, <1>7, <1>8, <2>1
  <2>2. CASE k = Len(u) + 1  BY <1>4, <1>7, <2>2
  <2> QED BY <1>5, <2>1, <2>2
<1>10. \A k, l \in DOMAIN v : k < l => g[k] < g[l]
  <2> SUFFICES ASSUME NEW k \in DOMAIN v, NEW l \in DOMAIN v, k < l PROVE g[k] < g[l]
    OBVIOUS
  <2>1. k \in DOMAIN u  BY <1>4, <1>5
  <2>2. CASE l \in DOMAIN u  BY <1>1, <1>7, <2>1, <2>2 DEF Picks
  <2>3. CASE l = Len(u) + 1
    <3>1. h[k] \in 1 .. n - 1 /\ n \in Nat  BY <1>4, <1>8, <2>1
    <3> QED BY <1>7, <2>1, <2>3, <3>1
  <2> QED BY <1>5, <2>2, <2>3
<1>11. \A k \in DOMAIN v : v[k].id # id
  <2> TAKE k \in DOMAIN v
  <2>1. CASE k \in DOMAIN u  BY <1>4, <2>1 DEF Keeps
  <2>2. CASE k = Len(u) + 1  BY <1>4, <2>2
  <2> QED BY <1>5, <2>1, <2>2
<1>12. Keeps(v, table, id, n)  BY <1>9, <1>10, <1>11 DEF Keeps, Picks
<1> QED BY <1>2, <1>12

\* retain keeps the rows of the other ids, in their order.
LEMMA WithoutKeeps ==
    ASSUME NEW S, NEW table \in Seq(S), NEW id
    PROVE  WithoutRow(table, id) \in Seq(S) /\ Keeps(WithoutRow(table, id), table, id, Len(table))
<1>1. Len(table) \in Nat  OBVIOUS
<1>2. PICK kept : RowKeptIn(kept, table, id, Len(table)) /\ WithoutRow(table, id) = kept[Len(table)]
  BY <1>1, WithoutIsKept
<1> DEFINE Good(n) == kept[n] \in Seq(S) /\ Keeps(kept[n], table, id, n)
           Bad == {n \in 0 .. Len(table) : ~Good(n)}
<1> HIDE DEF Good
<1>3. Bad = {}
  <2> SUFFICES ASSUME Bad # {} PROVE FALSE  OBVIOUS
  <2>1. PICK n \in Bad : \A m \in Bad : n <= m
    <3> HIDE DEF Bad
    <3>1. Bad \subseteq Nat  BY DEF Bad
    <3> QED BY <3>1, LeastIndex
  <2>2. n \in 0 .. Len(table) /\ n \in Nat  OBVIOUS
  <2>3. CASE n = 0
    <3>1. kept[n] = <<>>  BY <1>2, <2>2, <2>3 DEF RowKeptIn
    <3>2. kept[n] \in Seq(S) /\ DOMAIN kept[n] = {}  BY <3>1
    <3>3. Keeps(kept[n], table, id, n)  BY <3>2 DEF Keeps, Picks
    <3> QED BY <3>2, <3>3 DEF Good
  <2>4. CASE n # 0
    <3>1. n \in 1 .. Len(table) /\ n - 1 \in 0 .. Len(table) /\ ~(n <= n - 1)  BY <2>2, <2>4
    <3>2. Good(n - 1)  BY <2>1, <3>1
    <3>3. kept[n - 1] \in Seq(S) /\ Keeps(kept[n - 1], table, id, n - 1)  BY <3>2 DEF Good
    <3>4. kept[n] = IF table[n].id = id THEN kept[n - 1] ELSE Append(kept[n - 1], table[n])
      BY <1>2, <2>2, <2>4 DEF RowKeptIn
    <3>5. CASE table[n].id = id
      <4>1. PICK h : Picks(h, kept[n - 1], table) /\ \A k \in DOMAIN kept[n - 1] : h[k] <= n - 1
        BY <3>3 DEF Keeps
      <4>2. \A k \in DOMAIN kept[n - 1] : h[k] \in DOMAIN table  BY <4>1 DEF Picks
      <4>3. \A k \in DOMAIN kept[n - 1] : h[k] <= n  BY <3>1, <4>1, <4>2
      <4>4. Keeps(kept[n], table, id, n)  BY <3>3, <3>4, <3>5, <4>1, <4>3 DEF Keeps
      <4> QED BY <3>3, <3>4, <3>5, <4>4 DEF Good
    <3>6. CASE table[n].id # id
      <4>1. table[n] \in S  BY <3>1
      <4>2. kept[n] \in Seq(S)  BY <3>3, <3>4, <3>6, <4>1
      <4>3. Keeps(kept[n], table, id, n)  BY <3>1, <3>3, <3>4, <3>6, KeepsMore
      <4> QED BY <4>2, <4>3 DEF Good
    <3> QED BY <3>5, <3>6
  <2> QED BY <2>3, <2>4
<1>4. Good(Len(table))  BY <1>1, <1>3
<1> QED BY <1>2, <1>4 DEF Good

-----------------------------------------------------------------------------
(* What a command does to a table.                                         *)

\* Two rows that stay keep their order.
RankKept(t, u) ==
    \A i, j \in DOMAIN t, k, l \in DOMAIN u :
        i < j /\ u[k].id = t[i].id /\ u[l].id = t[j].id => k < l

RowTable(t) == t \in Seq(ToSet(t)) /\ Distinct(t)

LEMMA SeqTable ==
    ASSUME NEW S, NEW t \in Seq(S)
    PROVE  t \in Seq(ToSet(t))
BY DEF ToSet

LEMMA PickedRows ==
    ASSUME NEW t, RowTable(t), NEW u, NEW h, Picks(h, u, t), DOMAIN u \subseteq Int
    PROVE  Distinct(u) /\ RankKept(t, u)
<1>1. DOMAIN t \subseteq Int  BY DEF RowTable
<1>2. \A k \in DOMAIN u : h[k] \in DOMAIN t /\ u[k].id = t[h[k]].id  BY DEF Picks
<1>3. ASSUME NEW i \in DOMAIN u, NEW j \in DOMAIN u, u[i].id = u[j].id PROVE i = j
  <2>1. h[i] = h[j]  BY <1>2, <1>3 DEF RowTable, Distinct
  <2>2. ~(i < j) /\ ~(j < i)  BY <1>1, <1>2, <2>1 DEF Picks
  <2> QED BY <2>2
<1>4. ASSUME NEW i \in DOMAIN t, NEW j \in DOMAIN t, NEW k \in DOMAIN u, NEW l \in DOMAIN u,
             i < j, u[k].id = t[i].id, u[l].id = t[j].id
      PROVE  k < l
  <2>1. h[k] = i /\ h[l] = j  BY <1>2, <1>4 DEF RowTable, Distinct
  <2>2. ~(l < k) /\ l # k  BY <1>1, <1>2, <1>4, <2>1 DEF Picks
  <2> QED BY <2>2
<1> QED BY <1>3, <1>4 DEF Distinct, RankKept

LEMMA WithoutTable ==
    ASSUME NEW t, RowTable(t), NEW id
    PROVE  LET u == WithoutRow(t, id)
           IN  RowTable(u) /\ RankKept(t, u) /\ \A k \in DOMAIN u : u[k].id # id
<1>1. PICK S : S = ToSet(t)  OBVIOUS
<1>2. PICK u : u = WithoutRow(t, id)  OBVIOUS
<1>3. u \in Seq(S) /\ Keeps(u, t, id, Len(t))  BY <1>1, <1>2, WithoutKeeps DEF RowTable
<1>4. PICK h : Picks(h, u, t)  BY <1>3 DEF Keeps
<1>5. Distinct(u) /\ RankKept(t, u)  BY <1>3, <1>4, PickedRows
<1>6. u \in Seq(ToSet(u))  BY <1>3, SeqTable
<1> QED BY <1>2, <1>3, <1>5, <1>6 DEF RowTable, Keeps

LEMMA AppendTable ==
    ASSUME NEW t, RowTable(t), NEW row, \A k \in DOMAIN t : t[k].id # row.id
    PROVE  RowTable(Append(t, row)) /\ RankKept(t, Append(t, row))
<1>1. PICK S : S = ToSet(t) \cup {row}  OBVIOUS
<1>2. PICK u : u = Append(t, row)  OBVIOUS
<1>3. t \in Seq(S)
  <2>1. t \in Seq(ToSet(t))  BY DEF RowTable
  <2> QED BY <1>1, <2>1
<1>4. /\ Len(t) \in Nat /\ DOMAIN t = 1 .. Len(t) /\ DOMAIN u = 1 .. Len(t) + 1
      /\ u \in Seq(S) /\ u[Len(t) + 1] = row /\ \A k \in DOMAIN t : u[k] = t[k]
  BY <1>1, <1>2, <1>3
<1>5. \A k \in DOMAIN u : k \in DOMAIN t \/ (k = Len(t) + 1 /\ u[k].id = row.id)  BY <1>4
<1>6. Distinct(u)  BY <1>4, <1>5 DEF RowTable, Distinct
<1>7. RankKept(t, u)
  <2> SUFFICES ASSUME NEW i \in DOMAIN t, NEW j \in DOMAIN t, NEW k \in DOMAIN u,
                      NEW l \in DOMAIN u, i < j, u[k].id = t[i].id, u[l].id = t[j].id
               PROVE  k < l
    BY DEF RankKept
  <2>1. k \in DOMAIN t /\ l \in DOMAIN t  BY <1>5
  <2>2. k = i /\ l = j  BY <1>4, <2>1 DEF RowTable, Distinct
  <2> QED BY <2>2
<1>8. u \in Seq(ToSet(u))  BY <1>4, SeqTable
<1> QED BY <1>2, <1>6, <1>7, <1>8 DEF RowTable

LEMMA InPlaceTable ==
    ASSUME NEW t, RowTable(t), NEW row
    PROVE  RowTable(InPlace(t, row)) /\ RankKept(t, InPlace(t, row))
<1>1. CASE \E i \in DOMAIN t : t[i].id = row.id
  <2>1. PICK u : u = InPlace(t, row)  OBVIOUS
  <2>2. u = [i \in DOMAIN t |-> IF t[i].id = row.id THEN row ELSE t[i]]
    BY <1>1, <2>1 DEF InPlace
  <2>3. PICK S : S = ToSet(t) \cup {row}  OBVIOUS
  <2>4. t \in Seq(S)
    <3>1. t \in Seq(ToSet(t))  BY DEF RowTable
    <3> QED BY <2>3, <3>1
  <2>5. Len(t) \in Nat /\ DOMAIN t = 1 .. Len(t) /\ \A i \in DOMAIN t : t[i] \in S  BY <2>4
  <2>6. u \in Seq(S)  BY <2>2, <2>3, <2>5
  <2>7. DOMAIN u = DOMAIN t /\ \A k \in DOMAIN u : u[k].id = t[k].id  BY <2>2
  <2>8. Distinct(u) /\ RankKept(t, u)  BY <2>7 DEF RowTable, Distinct, RankKept
  <2>9. u \in Seq(ToSet(u))  BY <2>6, SeqTable
  <2> QED BY <2>1, <2>8, <2>9 DEF RowTable
<1>2. CASE ~ \E i \in DOMAIN t : t[i].id = row.id
  <2>1. InPlace(t, row) = Append(t, row)  BY <1>2 DEF InPlace
  <2> QED BY <1>2, <2>1, AppendTable
<1> QED BY <1>1, <1>2

\* Every command leaves a table without two rows of one id; one on the rules or the
\* preferences, or that removes a row, leaves the others in their order.
LEMMA ApplyTable ==
    ASSUME NEW t, RowTable(t), NEW cmd, NEW fresh
    PROVE  /\ RowTable(Apply(t, cmd, fresh))
           /\ cmd.file = "filters" => RankKept(t, Apply(t, cmd, fresh))
<1>1. CASE cmd.op = "remove"
  <2>1. Apply(t, cmd, fresh) = WithoutRow(t, cmd.id)  BY <1>1 DEF Apply
  <2> QED BY <2>1, WithoutTable
<1>2. CASE cmd.op # "remove" /\ cmd.file = "filters"
  <2>1. PICK row : row = [id |-> RuleId(t, cmd, fresh), v |-> cmd.v]  OBVIOUS
  <2>2. Apply(t, cmd, fresh) = InPlace(t, row)  BY <1>2, <2>1 DEF Apply
  <2> QED BY <2>2, InPlaceTable
<1>3. CASE cmd.op # "remove" /\ cmd.file = "prefs"
  <2>1. PICK row : row = [id |-> cmd.id, v |-> cmd.v]  OBVIOUS
  <2>2. Apply(t, cmd, fresh) = InPlace(t, row)  BY <1>3, <2>1 DEF Apply
  <2> QED BY <1>3, <2>2, InPlaceTable
<1>4. CASE cmd.op # "remove" /\ cmd.file \notin {"filters", "prefs"}
  <2>1. PICK row : row = [id |-> cmd.id, v |-> cmd.v]  OBVIOUS
  <2>2. PICK u : u = WithoutRow(t, cmd.id)  OBVIOUS
  <2>3. Apply(t, cmd, fresh) = Append(u, row)  BY <1>4, <2>1, <2>2 DEF Apply
  <2>4. RowTable(u) /\ \A k \in DOMAIN u : u[k].id # row.id  BY <2>1, <2>2, WithoutTable
  <2> QED BY <1>4, <2>3, <2>4, AppendTable
<1> QED BY <1>1, <1>2, <1>3, <1>4

-----------------------------------------------------------------------------
(***************************************************************************)
(* The tables themselves: in the files, in the window and in a process     *)
(* that is about to write its command's.                                   *)
(***************************************************************************)
Unread(q) ==
    q.pc \in {"load", "loadTorn"} /\ \E i \in q.next .. Len(Files) : Files[i] = q.cmd.file

MemOK(q) ==
    /\ RowTable(q.mem)
    /\ Unread(q) => q.mem = <<>>
    /\ q.pc \in BeforeWrite /\ ~q.old =>
         q.mem = <<>> \/ disk[q.cmd.file].rows = <<>> \/ q.mem = disk[q.cmd.file].rows

TableInv ==
    /\ \A f \in Tables : RowTable(disk[f].rows) /\ RowTable(gui[f])
    /\ gui = [f \in Tables |-> gui[f]]
    /\ \A p \in Clis : MemOK(procs[p])
    /\ runs \in 0 .. MaxRuns /\ damages \in 0 .. MaxDamage

LEMMA FileOnce == \A i, j \in 1 .. Len(Files) : Files[i] = Files[j] => i = j
BY ConfigAssumption DEF ConfigAssumption, IsInjective

LEMMA EmptyTable == RowTable(<<>>)
<1>1. DOMAIN <<>> = {}  OBVIOUS
<1>2. <<>> \in Seq(ToSet(<<>>))  OBVIOUS
<1> QED BY <1>1, <1>2 DEF RowTable, Distinct

LEMMA GoneMem == MemOK(Gone)
BY EmptyTable DEF MemOK, Gone, BeforeWrite, Unread

LEMMA InitTables == ConfigInit => TableInv
<1> SUFFICES ASSUME ConfigInit PROVE TableInv  OBVIOUS
<1>1. \A p \in Clis : procs[p] = Gone  BY DEF ConfigInit
<1>2. \A f \in Tables : disk[f].rows = <<>> /\ gui[f] = <<>>  BY DEF ConfigInit
<1>3. gui = [f \in Tables |-> gui[f]] /\ runs \in 0 .. MaxRuns /\ damages \in 0 .. MaxDamage
  BY ConfigAssumption DEF ConfigInit, ConfigAssumption
<1> QED BY <1>1, <1>2, <1>3, GoneMem, EmptyTable DEF TableInv

\* A process moves on, and no file changes.
LEMMA MemStep ==
    ASSUME StoreInv, TableInv, NEW p \in Clis, NEW v, procs' = [procs EXCEPT ![p] = v],
           MemOK(v), disk' = disk
    PROVE  \A r \in Clis : MemOK(procs[r])'
<1>1. \A r \in Clis : procs'[r] = IF r = p THEN v ELSE procs[r]  BY DEF StoreInv, Shapes
<1>2. \A r \in Clis : MemOK(procs'[r])  BY <1>1 DEF TableInv
<1>3. \A r \in Clis : Unread(procs[r])' <=> Unread(procs'[r])  BY DEF Unread
<1> QED BY <1>2, <1>3 DEF MemOK

\* The table a process holds stays as it is, or goes.
SameTable(v, q) ==
    /\ v.mem = q.mem /\ v.cmd = q.cmd
    /\ Unread(v) => Unread(q)
    /\ v.pc \in BeforeWrite /\ ~v.old => q.pc \in BeforeWrite /\ ~q.old

LEMMA SameMem ==
    ASSUME TableInv, NEW p \in Clis, NEW v, SameTable(v, procs[p])
    PROVE  MemOK(v)
BY DEF TableInv, MemOK, SameTable

LEMMA QuietTables ==
    ASSUME TableInv, UNCHANGED <<disk, gui, runs, damages>>, \A r \in Clis : MemOK(procs[r])'
    PROVE  TableInv'
BY DEF TableInv

LEMMA StartTables ==
    ASSUME StoreInv, TableInv, NEW p \in Clis, NEW cmd \in Commands, Start(p, cmd)
    PROVE  TableInv'
<1>1. PICK v : v = [Gone EXCEPT !.pc = "load", !.cmd = cmd, !.run = runs + 1]  OBVIOUS
<1>2. procs' = [procs EXCEPT ![p] = v] /\ UNCHANGED <<disk, gui, damages>>
  BY <1>1 DEF Start, diskVars
<1>3. v.mem = <<>>  BY <1>1 DEF Gone
<1>4. v.old = FALSE /\ MemOK(v)  BY <1>1, <1>3, EmptyTable DEF MemOK, Gone
<1>6. \A r \in Clis : MemOK(procs[r])'  BY <1>2, <1>4, MemStep
<1>5. runs' \in 0 .. MaxRuns
  BY ConfigAssumption DEF Start, TableInv, ConfigAssumption
<1> QED BY <1>2, <1>6, <1>5 DEF TableInv

LEMMA ReadTables ==
    ASSUME StoreInv, TableInv, NEW p \in Clis, ReadTable(p) \/ ReadLatest(p)
    PROVE  TableInv'
<1>1. PICK q : q = procs[p]  OBVIOUS
<1>2. PICK f : f = Reading(p)  OBVIOUS
<1>3. PICK u : u = Read(q, f, disk[f].rows)  OBVIOUS
<1>4. PICK v : v = IF q.pc = "load" THEN AfterLoad(u) ELSE [u EXCEPT !.pc = "latest"]  OBVIOUS
<1>5. /\ q.pc \in {"load", "locked"} /\ UNCHANGED <<disk, gui, runs, damages>>
      /\ procs' = [procs EXCEPT ![p] = v]
  BY <1>1, <1>2, <1>3, <1>4 DEF ReadTable, ReadLatest, diskVars
<1>6. Knows(q) /\ MemOK(q)  BY <1>1 DEF StoreInv, TableInv
<1>7. q = [x \in ProcFields |-> q[x]] /\ q.cmd \in Commands /\ q.next \in 1 .. Len(Files)
  BY <1>5, <1>6 DEF Knows
<1>8. /\ u = [x \in ProcFields |-> u[x]] /\ u.cmd = q.cmd /\ u.next = q.next /\ u.pc = q.pc
      /\ f = q.cmd.file => u.mem = disk[f].rows /\ ~u.old
      /\ f # q.cmd.file => u.mem = q.mem /\ u.old = q.old
  BY <1>3, <1>7, ReadFields
<1>9. v.cmd = q.cmd /\ v.mem = u.mem /\ v.old = u.old
  <2>1. CASE q.pc = "load"
    <3>1. u.pc = "load" /\ u.next \in 1 .. Len(Files)  BY <1>7, <1>8, <2>1
    <3>2. v = AfterLoad(u)  BY <1>4, <2>1
    <3>3. v.cmd = u.cmd /\ v.mem = u.mem /\ v.old = u.old
      BY <1>8, <3>1, <3>2, AfterLoadFields
    <3> QED BY <1>8, <3>3
  <2>2. CASE q.pc = "locked"
    <3>1. v = [u EXCEPT !.pc = "latest"]  BY <1>4, <2>2
    <3> QED BY <1>8, <3>1 DEF ProcFields
  <2> QED BY <1>5, <2>1, <2>2
<1>10. MemOK(v)
  <2>1. CASE f = q.cmd.file
    <3>1. f \in Tables  BY <1>7, <2>1, CommandFile
    <3>2. v.mem = disk[f].rows /\ v.cmd.file = f  BY <1>8, <1>9, <2>1
    <3>3. ~Unread(v)
      <4>1. CASE q.pc = "load"
        <5>1. f = Files[q.next] /\ v = AfterLoad(u)  BY <1>1, <1>2, <1>4, <4>1 DEF Reading
        <5>2. v.pc = "load" => v.next = q.next + 1  BY <1>7, <1>8, <4>1, <5>1, AfterLoadFields
        <5>3. v.pc \in {"load", "ready"}  BY <1>7, <1>8, <4>1, <5>1, AfterLoadFields
        <5> QED BY <1>7, <1>9, <2>1, <5>1, <5>2, <5>3, FileOnce, FirstFile DEF Unread
      <4>2. CASE q.pc = "locked"
        <5>1. v.pc = "latest"  BY <1>4, <1>8, <4>2 DEF ProcFields
        <5> QED BY <5>1 DEF Unread
      <4> QED BY <1>5, <4>1, <4>2
    <3> QED BY <3>1, <3>2, <3>3 DEF MemOK, TableInv
  <2>2. CASE f # q.cmd.file
    <3>1. v.mem = q.mem /\ v.old = q.old  BY <1>8, <1>9, <2>2
    <3>2. q.pc \in BeforeWrite  BY <1>5 DEF BeforeWrite
    <3>3. q.pc = "load"  BY <1>1, <1>2, <1>5, <2>2 DEF Reading
    <3>4. v = AfterLoad(u)  BY <1>4, <3>3
    <3>5. v.pc = "load" => v.next = q.next + 1  BY <1>7, <1>8, <3>3, <3>4, AfterLoadFields
    <3>6. v.pc \in {"load", "ready"}  BY <1>7, <1>8, <3>3, <3>4, AfterLoadFields
    <3>7. Unread(v) => Unread(q)  BY <1>7, <1>9, <3>3, <3>5, <3>6, FirstFile DEF Unread
    <3>8. SameTable(v, q)  BY <1>9, <3>1, <3>2, <3>7 DEF SameTable
    <3> QED BY <1>1, <3>8, SameMem
  <2> QED BY <2>1, <2>2
<1>11. \A r \in Clis : MemOK(procs[r])'  BY <1>5, <1>10, MemStep
<1> QED BY <1>5, <1>11, QuietTables

\* A process sees damage, takes the lock, or goes on after its command.
LEMMA MovesTables ==
    ASSUME StoreInv, TableInv, NEW p \in Clis,
           ReadDamaged(p) \/ Lock(p) \/ (\E ok \in BOOLEAN : SaveSecret(p, ok)) \/ Finish(p)
    PROVE  TableInv'
<1>1. PICK q : q = procs[p]  OBVIOUS
<1>2. Knows(q)  BY <1>1 DEF StoreInv
<1>3. q.pc # "gone"
  BY <1>1 DEF ReadDamaged, Lock, SaveSecret, Finish
<1>4. q = [x \in ProcFields |-> q[x]]  BY <1>2 DEF Knows
<1>5. UNCHANGED <<disk, gui, runs, damages>>
  BY DEF ReadDamaged, Lock, SaveSecret, Finish, diskVars
<1>6. \E v : procs' = [procs EXCEPT ![p] = v] /\ MemOK(v)
  <2>1. CASE ReadDamaged(p)
    <3>1. PICK label : label = CASE q.pc = "load"   -> "loadTorn"
                                 [] q.pc = "locked" -> "lockedTorn"
                                 [] OTHER           -> "refreshTorn"
      OBVIOUS
    <3>2. PICK other \in BOOLEAN : other = (Reading(p) # q.cmd.file)  OBVIOUS
    <3>3. PICK v : v = [q EXCEPT !.pc = label, !.old = q.old /\ other]  OBVIOUS
    <3>4. procs' = [procs EXCEPT ![p] = v]
      BY <1>1, <2>1, <3>1, <3>2, <3>3 DEF ReadDamaged, StoreInv, Shapes
    <3>5. v.mem = q.mem /\ v.cmd = q.cmd /\ v.pc = label  BY <1>4, <3>3 DEF ProcFields
    <3>6. CASE q.pc = "load" /\ other
      <4>1. v.old = (q.old /\ other)  BY <1>4, <3>3 DEF ProcFields
      <4>2. SameTable(v, q)
        BY <1>4, <3>3, <3>5, <3>6, <4>1 DEF SameTable, BeforeWrite, Unread, ProcFields
      <4> QED BY <1>1, <3>4, <4>2, SameMem
    <3>7. CASE q.pc = "load" /\ ~other
      <4>1. Files[q.next] = q.cmd.file /\ q.next \in 1 .. Len(Files)
        BY <1>1, <1>2, <1>3, <3>2, <3>7 DEF Knows, Reading
      <4>2. Unread(q)  BY <3>7, <4>1, FirstFile DEF Unread
      <4>3. v.mem = <<>>  BY <1>1, <3>5, <4>2 DEF TableInv, MemOK
      <4> QED BY <3>4, <4>3, EmptyTable DEF MemOK
    <3>8. CASE q.pc # "load"
      <4>1. label \in {"lockedTorn", "refreshTorn"}  BY <3>1, <3>8
      <4>2. SameTable(v, q)  BY <3>5, <4>1 DEF SameTable, BeforeWrite, Unread
      <4> QED BY <1>1, <3>4, <4>2, SameMem
    <3> QED BY <3>6, <3>7, <3>8
  <2>2. CASE Lock(p)
    <3>1. PICK v : v = [q EXCEPT !.pc = "locked"]  OBVIOUS
    <3>2. procs' = [procs EXCEPT ![p] = v] /\ q.pc = "ready"
      BY <1>1, <2>2, <3>1 DEF Lock, StoreInv, Shapes
    <3>3. SameTable(v, q)  BY <1>4, <3>1, <3>2 DEF SameTable, BeforeWrite, ProcFields, Unread
    <3> QED BY <1>1, <3>2, <3>3, SameMem
  <2>3. CASE (\E ok \in BOOLEAN : SaveSecret(p, ok)) \/ Finish(p)
    <3>1. PICK v \in {Gone, [q EXCEPT !.pc = "done"], [q EXCEPT !.pc = "refresh"]} :
            procs' = [procs EXCEPT ![p] = v]
      BY <1>1, <2>3 DEF SaveSecret, Finish, StoreInv, Shapes
    <3>2. CASE v = Gone  BY <3>1, <3>2, GoneMem
    <3>3. CASE v # Gone
      <4>1. SameTable(v, q)  BY <1>4, <3>1, <3>3 DEF SameTable, BeforeWrite, ProcFields, Unread
      <4> QED BY <1>1, <3>1, <4>1, SameMem
    <3> QED BY <3>2, <3>3
  <2> QED BY <2>1, <2>2, <2>3
<1>7. \A r \in Clis : MemOK(procs[r])'  BY <1>5, <1>6, MemStep
<1> QED BY <1>5, <1>7, QuietTables

\* Rows go from a file, or stay.
LEMMA KeptMem ==
    ASSUME NEW w, MemOK(w), w.pc # "gone" => w.cmd \in Commands,
           \A g \in Tables : disk'[g].rows \in {disk[g].rows, <<>>}
    PROVE  MemOK(w)'
<1>1. w.pc \in BeforeWrite => w.cmd.file \in Tables  BY CommandFile DEF BeforeWrite
<1>2. Unread(w)' <=> Unread(w)  BY DEF Unread
<1> QED BY <1>1, <1>2 DEF MemOK

LEMMA KnownCommand ==
    ASSUME StoreInv, NEW p \in Clis
    PROVE  procs[p].pc # "gone" => procs[p].cmd \in Commands
BY DEF StoreInv, Knows

\* What a process does that changes the files, but adds no row to one.
LEMMA ShrinkTables ==
    ASSUME StoreInv, TableInv, NEW p \in Clis, NEW v, procs' = [procs EXCEPT ![p] = v], MemOK(v),
           v.pc # "gone" => v.cmd \in Commands,
           \A g \in Tables : disk'[g].rows \in {disk[g].rows, <<>>},
           UNCHANGED <<gui, runs>>, damages' \in 0 .. MaxDamage
    PROVE  TableInv'
<1>1. \A r \in Clis : procs'[r] = IF r = p THEN v ELSE procs[r]  BY DEF StoreInv, Shapes
<1>2. ASSUME NEW r \in Clis PROVE MemOK(procs[r])'
  <2>1. PICK w : w = procs'[r]  OBVIOUS
  <2>2. MemOK(w) /\ (w.pc # "gone" => w.cmd \in Commands)
    BY <1>1, <2>1, KnownCommand DEF TableInv
  <2>3. MemOK(w)'  BY <2>2, KeptMem
  <2> QED BY <2>1, <2>3 DEF MemOK, Unread
<1>3. \A f \in Tables : RowTable(disk'[f].rows)  BY EmptyTable DEF TableInv
<1> QED BY <1>2, <1>3 DEF TableInv

LEMMA LeaveTables ==
    ASSUME StoreInv, TableInv, NEW p \in Clis, LockBusy(p) \/ Die(p)
    PROVE  TableInv'
<1>1. procs' = [procs EXCEPT ![p] = Gone] /\ UNCHANGED <<disk, gui, runs, damages>>
  BY DEF LockBusy, Die, EndCli, diskVars
<1>2. \A r \in Clis : MemOK(procs[r])'  BY <1>1, GoneMem, MemStep
<1> QED BY <1>1, <1>2, QuietTables

LEMMA BackUpTables ==
    ASSUME StoreInv, TableInv, NEW p \in Clis, NEW renamed \in BOOLEAN, BackUp(p, renamed)
    PROVE  TableInv'
<1>1. PICK q : q = procs[p]  OBVIOUS
<1>2. PICK f : f = TornFile(p)  OBVIOUS
<1>3. PICK v : v = IF q.pc = "loadTorn" /\ f \notin Hard
                   THEN AfterLoad([q EXCEPT !.pc = "load"]) ELSE Gone
  OBVIOUS
<1>4. procs' = [procs EXCEPT ![p] = v]  BY <1>1, <1>2, <1>3 DEF BackUp, EndCli
<1>5. \A g \in Tables : disk'[g].rows \in {disk[g].rows, <<>>}
  <2>1. /\ \A g \in Tables : g # f => disk'[g] = disk[g]
        /\ disk'[f] = disk[f] \/ disk'[f] = [st |-> "none", rows |-> <<>>]
    BY <1>2, BackUpFacts
  <2> QED BY <2>1
<1>6. UNCHANGED <<gui, runs, damages>>  BY DEF BackUp
<1>7. MemOK(v) /\ (v.pc # "gone" => v.cmd \in Commands)
  <2>1. CASE q.pc = "loadTorn" /\ f \notin Hard
    <3>1. Knows(q)  BY <1>1 DEF StoreInv
    <3>2. /\ q = [x \in ProcFields |-> q[x]] /\ q.next \in 1 .. Len(Files)
          /\ q.cmd \in Commands
      BY <2>1, <3>1 DEF Knows
    <3>3. PICK u : u = [q EXCEPT !.pc = "load"]  OBVIOUS
    <3>4. /\ u = [x \in ProcFields |-> u[x]] /\ u.pc = "load" /\ u.cmd = q.cmd
          /\ u.next = q.next /\ u.mem = q.mem /\ u.old = q.old
      BY <3>2, <3>3 DEF ProcFields
    <3>5. v = AfterLoad(u) /\ u.next \in 1 .. Len(Files)  BY <1>3, <2>1, <3>2, <3>3, <3>4
    <3>6. /\ v.cmd = u.cmd /\ v.mem = u.mem /\ v.old = u.old
          /\ v.pc \in {"load", "ready"} /\ (v.pc = "load" => v.next = u.next + 1)
      BY <3>4, <3>5, AfterLoadFields, Zenon
    <3>7. Unread(v) => Unread(q)  BY <2>1, <3>2, <3>4, <3>6, FirstFile DEF Unread
    <3>8. SameTable(v, q)  BY <2>1, <3>4, <3>6, <3>7 DEF SameTable, BeforeWrite
    <3>9. MemOK(v)  BY <1>1, <3>8, SameMem
    <3> QED BY <3>2, <3>4, <3>6, <3>9
  <2>2. CASE ~(q.pc = "loadTorn" /\ f \notin Hard)
    BY <1>3, <2>2, GoneMem DEF Gone
  <2> QED BY <2>1, <2>2
<1>8. damages' \in 0 .. MaxDamage  BY <1>6 DEF TableInv
<1> QED BY <1>4, <1>5, <1>6, <1>7, <1>8, ShrinkTables

\* The window's process reads tables again, or takes over what it has read.
LEMMA WindowTables ==
    ASSUME StoreInv, TableInv, NEW p \in Clis,
           RefreshAccounts(p) \/ ReadPrefs(p) \/ AssignPrefs(p)
    PROVE  TableInv'
<1>1. PICK q : q = procs[p]  OBVIOUS
<1>2. Knows(q) /\ MemOK(q)  BY <1>1 DEF StoreInv, TableInv
<1>3. q.pc # "gone" /\ q = [x \in ProcFields |-> q[x]]
  BY <1>1, <1>2 DEF RefreshAccounts, ReadPrefs, AssignPrefs, Knows
<1>4. PICK v \in {Gone, [q EXCEPT !.pc = "assign", !.mem = disk["prefs"].rows]} :
        procs' = [procs EXCEPT ![p] = v]
  BY <1>1 DEF RefreshAccounts, ReadPrefs, AssignPrefs, StoreInv, Shapes
<1>5. {"accounts", "prefs"} \subseteq Tables  BY ConfigAssumption DEF ConfigAssumption
<1>6. MemOK(v)
  <2>1. CASE v = Gone  BY <2>1, GoneMem
  <2>2. CASE v # Gone
    <3>1. v.pc = "assign" /\ v.mem = disk["prefs"].rows  BY <1>3, <1>4, <2>2 DEF ProcFields
    <3>2. RowTable(v.mem)  BY <1>5, <3>1 DEF TableInv
    <3> QED BY <3>1, <3>2 DEF MemOK, Unread, BeforeWrite
  <2> QED BY <2>1, <2>2
<1>7. UNCHANGED <<disk, runs, damages>>
  BY DEF RefreshAccounts, ReadPrefs, AssignPrefs, diskVars
<1>8. \A r \in Clis : MemOK(procs[r])'  BY <1>4, <1>6, <1>7, MemStep
<1>9. gui' = [f \in Tables |-> gui'[f]] /\ \A f \in Tables : RowTable(gui'[f])
  <2>1. CASE RefreshAccounts(p)
    <3>1. gui' = [gui EXCEPT !["accounts"] = disk["accounts"].rows]
      BY <2>1 DEF RefreshAccounts
    <3>2. gui = [f \in Tables |-> gui[f]]  BY DEF TableInv
    <3>3. \A f \in Tables : gui'[f] \in {gui[f], disk[f].rows}  BY <3>1, <3>2
    <3>4. gui' = [f \in Tables |-> gui'[f]]  BY <3>1, <3>2
    <3> QED BY <3>3, <3>4 DEF TableInv
  <2>2. CASE ReadPrefs(p)  BY <2>2 DEF ReadPrefs, TableInv
  <2>3. CASE AssignPrefs(p)
    <3>1. gui' = [gui EXCEPT !["prefs"] = q.mem]  BY <1>1, <2>3 DEF AssignPrefs
    <3>2. gui = [f \in Tables |-> gui[f]]  BY DEF TableInv
    <3>3. \A f \in Tables : gui'[f] \in {gui[f], q.mem}  BY <3>1, <3>2
    <3>4. gui' = [f \in Tables |-> gui'[f]]  BY <3>1, <3>2
    <3> QED BY <1>2, <3>3, <3>4 DEF TableInv, MemOK
  <2> QED BY <2>1, <2>2, <2>3
<1> QED BY <1>7, <1>8, <1>9 DEF TableInv

LEMMA CommitTables ==
    ASSUME StoreInv, TableInv, NEW p \in Clis, Commit(p)
    PROVE  TableInv'
<1>1. PICK q : q = procs[p]  OBVIOUS
<1>2. PICK f : f = q.cmd.file  OBVIOUS
<1>3. PICK table : table = Apply(q.mem, q.cmd, q.run)  OBVIOUS
<1>4. q = [x \in ProcFields |-> q[x]] /\ f \in Tables /\ MemOK(q)
  BY <1>1, <1>2, CommitFacts DEF TableInv
<1>5. RowTable(table)  BY <1>3, <1>4, ApplyTable DEF MemOK
<1>6. /\ disk' = [disk EXCEPT ![f] = [st |-> "ok", rows |-> table]]
      /\ UNCHANGED <<gui, runs, damages>>
  BY <1>1, <1>2, <1>3 DEF Commit
<1>7. \A g \in Tables : disk'[g].rows = IF g = f THEN table ELSE disk[g].rows
  BY <1>4, <1>6 DEF StoreInv, Shapes
<1>8. ASSUME NEW r \in Clis PROVE MemOK(procs[r])'
  <2>1. PICK u : u = procs[r]  OBVIOUS
  <2>2. PICK w : w = procs'[r]  OBVIOUS
  <2>3. Knows(u) /\ MemOK(u)  BY <2>1 DEF StoreInv, TableInv
  <2>4. w = IF r = p THEN [q EXCEPT !.pc = IF f = "accounts" THEN "secrets" ELSE "done",
                                    !.mem = <<>>, !.old = FALSE]
            ELSE IF u.pc # "gone" /\ u.cmd.file = f THEN [u EXCEPT !.old = TRUE] ELSE u
    BY <1>1, <1>2, <2>1, <2>2 DEF Commit
  <2>5. MemOK(w)'
    <3>1. CASE r = p
      <4>1. w.mem = <<>> /\ w.pc \in {"secrets", "done"}  BY <1>4, <2>4, <3>1 DEF ProcFields
      <4> QED BY <4>1, EmptyTable DEF MemOK, Unread, BeforeWrite
    <3>2. CASE r # p /\ u.pc # "gone" /\ u.cmd.file = f
      <4>1. /\ w.mem = u.mem /\ w.old /\ w.pc = u.pc /\ w.next = u.next /\ w.cmd = u.cmd
        BY <2>3, <2>4, <3>2 DEF Knows, ProcFields
      <4> QED BY <2>3, <4>1 DEF MemOK, Unread
    <3>3. CASE r # p /\ (u.pc = "gone" \/ u.cmd.file # f)
      <4>1. w = u  BY <2>4, <3>3
      <4>2. u.pc \in BeforeWrite => u.cmd.file \in Tables /\ u.cmd.file # f
        BY <2>3, <3>3, CommandFile DEF Knows, BeforeWrite
      <4> QED BY <1>7, <2>3, <4>1, <4>2 DEF MemOK, Unread
    <3> QED BY <3>1, <3>2, <3>3
  <2> QED BY <2>2, <2>5 DEF MemOK, Unread
<1>9. \A g \in Tables : RowTable(disk'[g].rows)  BY <1>5, <1>7 DEF TableInv
<1> QED BY <1>6, <1>8, <1>9 DEF TableInv

LEMMA DamageTables ==
    ASSUME StoreInv, TableInv, NEW f \in Tables, Damage(f)
    PROVE  TableInv'
<1>1. /\ disk' = [disk EXCEPT ![f].st = "torn"] /\ UNCHANGED <<procs, gui, runs>>
      /\ damages' \in 0 .. MaxDamage
  BY ConfigAssumption DEF Damage, TableInv, ConfigAssumption
<1>2. \A g \in Tables : disk'[g].rows = disk[g].rows
  BY <1>1 DEF StoreInv, Shapes, FileOK
<1>3. ASSUME NEW r \in Clis PROVE MemOK(procs[r])'
  <2>1. PICK w : w = procs[r]  OBVIOUS
  <2>2. MemOK(w)'  BY <1>2, <2>1, KeptMem, KnownCommand DEF TableInv
  <2> QED BY <1>1, <2>1, <2>2 DEF MemOK, Unread
<1> QED BY <1>1, <1>2, <1>3 DEF TableInv

LEMMA TableStep == StoreInv /\ TableInv /\ [ConfigNext]_configVars => TableInv'
<1> SUFFICES ASSUME StoreInv, TableInv, [ConfigNext]_configVars PROVE TableInv'  OBVIOUS
<1>1. ASSUME NEW p \in Clis, Process(p) PROVE TableInv'
  <2>1. ASSUME NEW cmd \in Commands, Start(p, cmd) PROVE TableInv'  BY <2>1, StartTables
  <2>2. ASSUME ReadTable(p) \/ ReadLatest(p) PROVE TableInv'  BY <2>2, ReadTables
  <2>3. ASSUME NEW b \in BOOLEAN, BackUp(p, b) PROVE TableInv'  BY <2>3, BackUpTables
  <2>4. ASSUME ReadDamaged(p) \/ Lock(p) \/ (\E ok \in BOOLEAN : SaveSecret(p, ok)) \/ Finish(p)
        PROVE  TableInv'
    BY <2>4, MovesTables
  <2>5. ASSUME Commit(p) PROVE TableInv'  BY <2>5, CommitTables
  <2>6. ASSUME LockBusy(p) \/ Die(p) PROVE TableInv'  BY <2>6, LeaveTables
  <2>7. ASSUME RefreshAccounts(p) \/ ReadPrefs(p) \/ AssignPrefs(p) PROVE TableInv'
    BY <2>7, WindowTables
  <2> QED BY <1>1, <2>1, <2>2, <2>3, <2>4, <2>5, <2>6, <2>7 DEF Process
<1>2. ASSUME NEW f \in Tables, Damage(f) PROVE TableInv'  BY <1>2, DamageTables
<1>3. ASSUME UNCHANGED configVars PROVE TableInv'
  <2>1. UNCHANGED <<disk, gui, procs, runs, damages>>  BY <1>3 DEF configVars, diskVars
  <2> QED BY <2>1 DEF TableInv, MemOK, Unread
<1> QED BY <1>1, <1>2, <1>3 DEF ConfigNext, NoMoreRuns

-----------------------------------------------------------------------------
(* The order of the rules.                                                 *)

RulesStay ==
    ("filters" \in Locked \/ "filters" \notin raced') =>
        RankKept(disk["filters"].rows, disk'["filters"].rows)

LEMMA NoRank ==
    ASSUME NEW t, RowTable(t), NEW u
    PROVE  u = <<>> \/ u = t => RankKept(t, u)
BY DEF RowTable, Distinct, RankKept

\* A table that was empty, or of which one row at most is left.
LEMMA FromEmpty ==
    ASSUME NEW t, RowTable(t), NEW cmd, NEW fresh, cmd.file = "filters"
    PROVE  RankKept(t, Apply(<<>>, cmd, fresh))
<1>1. PICK u : u = Apply(<<>>, cmd, fresh)  OBVIOUS
<1>2. DOMAIN u \subseteq {1}
  <2>0. Len(<<>>) = 0 /\ DOMAIN <<>> = {}  OBVIOUS
  <2>1. CASE cmd.op = "remove"
    <3>1. PICK w : w = WithoutRow(<<>>, cmd.id)  OBVIOUS
    <3>2. w \in Seq({})
      <4>1. <<>> \in Seq({})  OBVIOUS
      <4> QED BY <3>1, <4>1, WithoutKeeps
    <3>3. DOMAIN w = {}  BY <3>2
    <3>4. u = w  BY <1>1, <2>1, <3>1 DEF Apply
    <3> QED BY <3>3, <3>4
  <2>2. CASE cmd.op # "remove"
    <3>1. PICK row : row = [id |-> RuleId(<<>>, cmd, fresh), v |-> cmd.v]  OBVIOUS
    <3>2. u = InPlace(<<>>, row)  BY <1>1, <2>2, <3>1 DEF Apply
    <3>3. u = Append(<<>>, row)  BY <2>0, <3>2 DEF InPlace
    <3>4. DOMAIN u = {1}  BY <3>3
    <3> QED BY <3>4
  <2> QED BY <2>1, <2>2
<1>3. ASSUME NEW i \in DOMAIN t, NEW j \in DOMAIN t, NEW k \in DOMAIN u, NEW l \in DOMAIN u,
             i < j, u[k].id = t[i].id, u[l].id = t[j].id
      PROVE  FALSE
  <2>1. k = l  BY <1>2
  <2>2. i = j  BY <1>3, <2>1 DEF RowTable, Distinct
  <2>3. i \in Int  BY DEF RowTable
  <2> QED BY <1>3, <2>2, <2>3
<1> QED BY <1>1, <1>3 DEF RankKept

LEMMA RulesStep == StoreInv /\ TableInv /\ [ConfigNext]_configVars => RulesStay
<1> SUFFICES ASSUME StoreInv, TableInv, [ConfigNext]_configVars, "filters" \in Locked \/ "filters" \notin raced'
             PROVE  RankKept(disk["filters"].rows, disk'["filters"].rows)
  BY DEF RulesStay
<1>1. PICK f : f = "filters"  OBVIOUS
<1>2. f \in Tables /\ RowTable(disk[f].rows)
  BY <1>1, ConfigAssumption DEF ConfigAssumption, TableInv
<1>3. ASSUME disk'[f].rows \in {disk[f].rows, <<>>} PROVE RankKept(disk[f].rows, disk'[f].rows)
  BY <1>2, <1>3, NoRank
<1>4. ASSUME NEW p \in Clis, Commit(p) PROVE RankKept(disk[f].rows, disk'[f].rows)
  <2>1. PICK q : q = procs[p]  OBVIOUS
  <2>2. PICK table : table = Apply(q.mem, q.cmd, q.run)  OBVIOUS
  <2>3. disk' = [disk EXCEPT ![q.cmd.file] = [st |-> "ok", rows |-> table]]
    BY <1>4, <2>1, <2>2 DEF Commit
  <2>4. CASE q.cmd.file = f
    <3>1. disk'[f].rows = table  BY <1>2, <2>3, <2>4 DEF StoreInv, Shapes
    <3>2. ~q.old /\ q.pc \in BeforeWrite
      <4>1. ~q.old  BY <1>1, <1>4, <2>1, <2>4, CommitFacts
      <4> QED BY <1>4, <2>1, <4>1 DEF Commit, BeforeWrite
    <3>3. q.mem = <<>> \/ disk[f].rows = <<>> \/ q.mem = disk[f].rows
      BY <2>1, <2>4, <3>2 DEF TableInv, MemOK
    <3>4. CASE q.mem = <<>>  BY <1>1, <1>2, <2>2, <2>4, <3>1, <3>4, FromEmpty
    <3>5. CASE disk[f].rows = <<>>  BY <3>5 DEF RankKept
    <3>6. CASE q.mem = disk[f].rows  BY <1>1, <1>2, <2>2, <2>4, <3>1, <3>6, ApplyTable
    <3> QED BY <3>3, <3>4, <3>5, <3>6
  <2>5. CASE q.cmd.file # f
    <3>1. disk'[f] = disk[f]  BY <1>2, <2>3, <2>5
    <3> QED BY <1>3, <3>1
  <2> QED BY <2>4, <2>5
<1>5. ASSUME NEW p \in Clis, Process(p), ~Commit(p) PROVE disk'[f].rows \in {disk[f].rows, <<>>}
  <2>1. ASSUME NEW b \in BOOLEAN, BackUp(p, b) PROVE disk'[f].rows \in {disk[f].rows, <<>>}
    <3>1. PICK g : g = TornFile(p)  OBVIOUS
    <3>2. /\ \A h \in Tables : h # g => disk'[h] = disk[h]
          /\ disk'[g] = disk[g] \/ disk'[g] = [st |-> "none", rows |-> <<>>]
      BY <2>1, <3>1, BackUpFacts
    <3> QED BY <1>2, <3>2
  <2>2. ASSUME ~ \E b \in BOOLEAN : BackUp(p, b) PROVE disk' = disk
    BY <1>5, <2>2 DEF Process, Start, ReadTable, ReadDamaged, SaveSecret, Lock, LockBusy,
       ReadLatest, Die, Finish, RefreshAccounts, ReadPrefs, AssignPrefs, diskVars
  <2> QED BY <2>1, <2>2
<1>6. ASSUME NEW g \in Tables, Damage(g) PROVE disk'[f].rows \in {disk[f].rows, <<>>}
  <2>1. disk' = [disk EXCEPT ![g].st = "torn"]  BY <1>6 DEF Damage
  <2> QED BY <1>2, <2>1 DEF StoreInv, Shapes, FileOK
<1>7. ASSUME UNCHANGED configVars PROVE disk'[f].rows \in {disk[f].rows, <<>>}
  BY <1>7 DEF configVars, diskVars
<1> QED BY <1>1, <1>3, <1>4, <1>5, <1>6, <1>7 DEF ConfigNext, NoMoreRuns

-----------------------------------------------------------------------------
(* The accounts of the window.                                             *)

\* A command of the window has changed the accounts and is still to be reported.
Pending ==
    \E p \in Clis : /\ procs[p].pc \in {"secrets", "done", "refresh"}
                    /\ procs[p].cmd.file = "accounts" /\ procs[p].cmd.window

WindowInv ==
    \/ "accounts" \in damaged \cup behind
    \/ gui["accounts"] = disk["accounts"].rows
    \/ Pending

LEMMA WindowStep == StoreInv /\ TableInv /\ WindowInv /\ [ConfigNext]_configVars => WindowInv'
<1> SUFFICES ASSUME StoreInv, TableInv, WindowInv, [ConfigNext]_configVars PROVE WindowInv'  OBVIOUS
<1>1. "accounts" \in Tables  BY ConfigAssumption DEF ConfigAssumption
<1>2. ASSUME UNCHANGED <<disk, damaged, behind>>, gui'["accounts"] = gui["accounts"],
             NEW p \in Clis, NEW v, procs' = [procs EXCEPT ![p] = v],
             procs[p].pc \in {"secrets", "done", "refresh"} /\ procs[p].cmd.file = "accounts"
               /\ procs[p].cmd.window =>
                 v.pc \in {"secrets", "done", "refresh"} /\ v.cmd = procs[p].cmd
      PROVE  WindowInv'
  <2>1. \A r \in Clis : procs'[r] = IF r = p THEN v ELSE procs[r]
    BY <1>2 DEF StoreInv, Shapes
  <2>2. Pending => Pending'  BY <1>2, <2>1 DEF Pending
  <2> QED BY <1>2, <2>2 DEF WindowInv
<1>3. ASSUME NEW p \in Clis, Process(p) PROVE WindowInv'
  <2>1. Knows(procs[p])  BY DEF StoreInv
  <2>2. ASSUME NEW cmd \in Commands, Start(p, cmd) PROVE WindowInv'
    BY <1>2, <2>2 DEF Start, diskVars, history
  <2>3. ASSUME ReadTable(p) PROVE WindowInv'
    BY <1>2, <2>3 DEF ReadTable, diskVars, history
  <2>4. ASSUME ReadDamaged(p) PROVE WindowInv'
    <3>1. CASE procs[p].pc = "refresh" /\ procs[p].cmd.file = "accounts"
      <4>1. disk["accounts"].st = "torn"  BY <2>4, <3>1 DEF ReadDamaged, Reading
      <4>2. "accounts" \in damaged  BY <1>1, <4>1 DEF StoreInv, FileOK
      <4>3. damaged' = damaged  BY <2>4 DEF ReadDamaged, history
      <4> QED BY <4>2, <4>3 DEF WindowInv
    <3>2. CASE ~(procs[p].pc = "refresh" /\ procs[p].cmd.file = "accounts")
      <4>1. \E v : procs' = [procs EXCEPT ![p] = v]
        BY <2>4 DEF ReadDamaged, StoreInv, Shapes
      <4>2. UNCHANGED <<disk, damaged, behind, gui>>  BY <2>4 DEF ReadDamaged, diskVars, history
      <4>3. procs[p].pc \in {"load", "locked", "refresh"}  BY <2>4 DEF ReadDamaged
      <4> QED BY <1>2, <3>2, <4>1, <4>2, <4>3
    <3> QED BY <3>1, <3>2
  <2>5. ASSUME NEW b \in BOOLEAN, BackUp(p, b) PROVE WindowInv'
    <3>1. PICK f : f = TornFile(p)  OBVIOUS
    <3>2. /\ f \in damaged /\ \A g \in Tables : g # f => disk'[g] = disk[g]
          /\ damaged' = damaged
      BY <2>5, <3>1, BackUpFacts
    <3>3. gui' = gui /\ behind' = behind  BY <2>5 DEF BackUp
    <3>4. CASE f = "accounts"  BY <3>2, <3>4 DEF WindowInv
    <3>5. CASE f # "accounts"
      <4>1. disk'["accounts"] = disk["accounts"]  BY <1>1, <3>2, <3>5
      <4>2. PICK v : procs' = [procs EXCEPT ![p] = v]  BY <2>5 DEF BackUp, EndCli
      <4>3. procs[p].pc \notin {"secrets", "done", "refresh"}  BY <2>5 DEF BackUp, Torn
      <4>4. \A r \in Clis : r # p => procs'[r] = procs[r]
        BY <4>2 DEF StoreInv, Shapes
      <4>5. Pending => Pending'  BY <4>3, <4>4 DEF Pending
      <4> QED BY <3>2, <3>3, <4>1, <4>5 DEF WindowInv
    <3> QED BY <3>4, <3>5
  <2>6. ASSUME LockBusy(p) \/ Die(p) PROVE WindowInv'
    BY <1>2, <2>6 DEF LockBusy, Die, EndCli, diskVars, history
  <2>7. ASSUME Lock(p) PROVE WindowInv'
    <3>1. procs' = [procs EXCEPT ![p] = [procs[p] EXCEPT !.pc = "locked"]]
      BY <2>7 DEF Lock, StoreInv, Shapes
    <3> QED BY <1>2, <2>7, <3>1 DEF Lock, diskVars, history
  <2>8. ASSUME ReadLatest(p) PROVE WindowInv'
    BY <1>2, <2>8 DEF ReadLatest, diskVars, history
  <2>9. ASSUME Commit(p) PROVE WindowInv'
    <3>1. PICK q : q = procs[p]  OBVIOUS
    <3>2. PICK f : f = q.cmd.file  OBVIOUS
    <3>3. q = [x \in ProcFields |-> q[x]]  BY <2>9, <3>1, CommitFacts
    <3>4. /\ disk' = [disk EXCEPT ![f] = [st |-> "ok", rows |-> Apply(q.mem, q.cmd, q.run)]]
          /\ UNCHANGED <<gui, damaged>>
          /\ behind' = IF q.cmd.window THEN behind ELSE behind \cup {f}
      BY <2>9, <3>1, <3>2 DEF Commit
    <3>5. procs' = [r \in Clis |->
                IF r = p THEN [q EXCEPT !.pc = IF f = "accounts" THEN "secrets" ELSE "done",
                                        !.mem = <<>>, !.old = FALSE]
                ELSE IF procs[r].pc # "gone" /\ procs[r].cmd.file = f
                THEN [procs[r] EXCEPT !.old = TRUE] ELSE procs[r]]
      BY <2>9, <3>1, <3>2 DEF Commit
    <3>6. CASE f = "accounts" /\ q.cmd.window
      <4>1. PICK w : w = procs'[p]  OBVIOUS
      <4>2. w = [q EXCEPT !.pc = "secrets", !.mem = <<>>, !.old = FALSE]  BY <3>5, <3>6, <4>1
      <4>3. w.pc = "secrets" /\ w.cmd = q.cmd  BY <3>3, <4>2 DEF ProcFields
      <4> QED BY <3>2, <3>6, <4>1, <4>3 DEF WindowInv, Pending
    <3>7. CASE f = "accounts" /\ ~q.cmd.window  BY <3>4, <3>7 DEF WindowInv
    <3>8. CASE f # "accounts"
      <4>1. disk'["accounts"] = disk["accounts"]  BY <1>1, <3>4, <3>8
      <4>2. ASSUME NEW r \in Clis, procs[r].pc \in {"secrets", "done", "refresh"},
                   procs[r].cmd.file = "accounts"
            PROVE  procs'[r] = procs[r]
        BY <2>9, <3>1, <3>2, <3>5, <3>8, <4>2
      <4>3. Pending => Pending'  BY <4>2 DEF Pending
      <4> QED BY <3>4, <4>1, <4>3 DEF WindowInv
    <3> QED BY <3>6, <3>7, <3>8
  <2>10. ASSUME NEW ok \in BOOLEAN, SaveSecret(p, ok) PROVE WindowInv'
    <3>1. CASE ok
      <4>1. procs' = [procs EXCEPT ![p] = [procs[p] EXCEPT !.pc = "done"]]
            /\ UNCHANGED <<disk, gui, damaged, behind>> /\ procs[p].pc = "secrets"
        BY <2>10, <3>1 DEF SaveSecret, diskVars, StoreInv, Shapes
      <4>2. procs[p] = [x \in ProcFields |-> procs[p][x]]  BY <2>1 DEF Knows
      <4>3. PICK v : v = [procs[p] EXCEPT !.pc = "done"]  OBVIOUS
      <4>4. v.pc = "done" /\ v.cmd = procs[p].cmd  BY <4>2, <4>3 DEF ProcFields
      <4> QED BY <1>2, <4>1, <4>3, <4>4
    <3>2. CASE ~ok
      <4>1. "accounts" \in behind'  BY <2>10, <3>2 DEF SaveSecret
      <4> QED BY <4>1 DEF WindowInv
    <3> QED BY <3>1, <3>2
  <2>11. ASSUME Finish(p) PROVE WindowInv'
    <3>1. procs[p] = [x \in ProcFields |-> procs[p][x]]
      BY <2>1 DEF Knows
    <3>2. PICK v : v = IF procs[p].cmd.window /\ procs[p].cmd.file \in {"prefs", "accounts"}
                       THEN [procs[p] EXCEPT !.pc = "refresh"] ELSE Gone
      OBVIOUS
    <3>3. procs' = [procs EXCEPT ![p] = v] /\ UNCHANGED <<disk, gui, damaged, behind>>
      BY <2>11, <3>2 DEF Finish, diskVars, history, StoreInv, Shapes
    <3>4. procs[p].cmd.window /\ procs[p].cmd.file = "accounts"
            => v.pc = "refresh" /\ v.cmd = procs[p].cmd
      BY <3>1, <3>2 DEF ProcFields
    <3> QED BY <1>2, <3>3, <3>4
  <2>12. ASSUME RefreshAccounts(p) PROVE WindowInv'
    <3>1. gui' = [gui EXCEPT !["accounts"] = disk["accounts"].rows] /\ disk' = disk
      BY <2>12 DEF RefreshAccounts, diskVars
    <3>2. gui'["accounts"] = disk'["accounts"].rows  BY <1>1, <3>1 DEF TableInv
    <3> QED BY <3>2 DEF WindowInv
  <2>13. ASSUME ReadPrefs(p) PROVE WindowInv'
    <3>1. \E v : procs' = [procs EXCEPT ![p] = v]  BY <2>13 DEF ReadPrefs, StoreInv, Shapes
    <3>2. procs[p].cmd.file = "prefs" /\ UNCHANGED <<disk, gui, damaged, behind>>
      BY <2>13 DEF ReadPrefs, diskVars, history
    <3> QED BY <1>2, <3>1, <3>2
  <2>14. ASSUME AssignPrefs(p) PROVE WindowInv'
    <3>1. gui'["accounts"] = gui["accounts"]  BY <1>1, <2>14 DEF AssignPrefs, TableInv
    <3>2. procs[p].pc = "assign" /\ UNCHANGED <<disk, damaged, behind>>
          /\ procs' = [procs EXCEPT ![p] = Gone]
      BY <2>14 DEF AssignPrefs, diskVars, history
    <3> QED BY <1>2, <3>1, <3>2
  <2> QED BY <1>3, <2>2, <2>3, <2>4, <2>5, <2>6, <2>7, <2>8, <2>9, <2>10, <2>11, <2>12,
             <2>13, <2>14
      DEF Process
<1>4. ASSUME NEW f \in Tables, Damage(f) PROVE WindowInv'
  <2>1. /\ disk' = [disk EXCEPT ![f].st = "torn"] /\ damaged' = damaged \cup {f}
        /\ UNCHANGED <<procs, gui, behind>>
    BY <1>4 DEF Damage
  <2>2. disk'["accounts"].rows = disk["accounts"].rows
    BY <1>1, <2>1 DEF StoreInv, Shapes, FileOK
  <2> QED BY <2>1, <2>2 DEF WindowInv, Pending
<1>5. ASSUME UNCHANGED configVars PROVE WindowInv'
  BY <1>5 DEF configVars, diskVars, history, WindowInv, Pending
<1> QED BY <1>3, <1>4, <1>5 DEF ConfigNext, NoMoreRuns

\* No table has two rows of one id, whatever the commands, a file that is gone is empty,
\* and only the process that changes the accounts has the lock.
THEOREM ConfigTypes == ConfigSpec => []ConfigTypeOK
<1>1. StoreInv /\ TableInv => ConfigTypeOK
  BY DEF StoreInv, TableInv, RowTable, FileOK, LockInv, Holding, ConfigTypeOK
<1> QED BY <1>1, InitStore, StoreStep, InitTables, TableStep, PTL DEF ConfigSpec

\* save_filter: the rules that stay keep their order in every command, although files are
\* damaged and put aside in between.
THEOREM RulesInOrder == ConfigSpec => RulesKeepRank
<1>1. RulesStay =>
        [("filters" \in Locked \/ "filters" \notin raced') =>
           \A i, j \in DOMAIN disk["filters"].rows, k, l \in DOMAIN disk'["filters"].rows :
              /\ i < j
              /\ disk'["filters"].rows[k].id = disk["filters"].rows[i].id
              /\ disk'["filters"].rows[l].id = disk["filters"].rows[j].id
              => k < l]_disk
  BY DEF RulesStay, RankKept
<1> QED BY <1>1, InitStore, StoreStep, InitTables, TableStep, RulesStep, PTL
    DEF ConfigSpec, RulesKeepRank

\* refresh_accounts_in_memory: when no command of the window is on its way, the window has
\* the accounts of the file, unless it was damaged or someone else changed it.
THEOREM WindowKnowsAccounts == ConfigSpec => []AccountsInWindow
<1>1. ConfigInit => WindowInv
  <2>1. "accounts" \in Tables  BY ConfigAssumption DEF ConfigAssumption
  <2> QED BY <2>1 DEF ConfigInit, WindowInv
<1>2. WindowInv => AccountsInWindow
  BY DEF WindowInv, Pending, AccountsInWindow, SeenByWindow, Told
<1> QED BY <1>1, <1>2, InitStore, StoreStep, InitTables, TableStep, WindowStep, PTL DEF ConfigSpec
=============================================================================
