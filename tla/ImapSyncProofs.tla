--------------------------- MODULE ImapSyncProofs ---------------------------
(***************************************************************************)
(* Proofs about ImapSync, for every number of processes, UIDs and          *)
(* UIDVALIDITY values and every size of the windows.                       *)
(***************************************************************************)
EXTENDS ImapSync, TLAPS, FiniteSetTheorems, WellFoundedInduction

USE DEF Uids, Epochs

(***************************************************************************)
(* Type correctness.                                                       *)
(***************************************************************************)

\* What a server FETCH returns has the type of a map from UIDs to flags.
LEMMA FetchedType == ASSUME TypeOK, NEW S PROVE Fetched(S) \in [Uids -> Flag]
BY DEF TypeOK, Fetched, Flag

LEMMA NoMemType == ConstantsAssumption => NoMem \in ProcMem
BY DEF NoMem, ProcMem, Nothing, Flag, AllCommands, ConstantsAssumption

\* No row is a row of epoch 0.
LEMMA NoRowType == NoRow \in Row
BY ConstantsAssumption DEF ConstantsAssumption, NoRow, Row

\* A step that goes to a label with a well-typed memory keeps pc and mem typed.
LEMMA GotoType ==
    ASSUME TypeOK, NEW p \in Procs, NEW l \in Labels, NEW m \in ProcMem, Goto(p, l, m)
    PROVE  pc' \in [Procs -> Labels] /\ mem' \in [Procs -> ProcMem]
BY DEF TypeOK, Goto

LEMMA EndType ==
    ASSUME TypeOK, NEW p \in Procs, End(p), ConstantsAssumption
    PROVE  pc' \in [Procs -> Labels] /\ mem' \in [Procs -> ProcMem]
             /\ lock' \in Procs \cup {NoProc}
<1>1. NoMem \in ProcMem  BY NoMemType
<1>2. pc' \in [Procs -> Labels] /\ mem' \in [Procs -> ProcMem]
  BY <1>1, GotoType DEF End, Labels
<1>3. lock' \in Procs \cup {NoProc}  BY DEF End, TypeOK
<1> QED BY <1>2, <1>3

\* A mailbox of n - 1 unread messages is a map from UIDs to flags.
LEMMA MailboxType == ASSUME NEW n PROVE Mailbox(n) \in [Uids -> Flag]
BY DEF Mailbox, Flag

LEMMA InitType == Init => TypeOK
<1>1. ConstantsAssumption => 1 \in 1 .. MaxEpoch  BY DEF ConstantsAssumption
<1> QED BY <1>1, ConstantsAssumption, NoMemType, MailboxType, NoRowType
        DEF Init, TypeOK, ConstantsAssumption, Labels

LEMMA ServerStepType == TypeOK /\ ServerStep => TypeOK'
<1> SUFFICES ASSUME TypeOK, ServerStep PROVE TypeOK'  OBVIOUS
<1> USE ConstantsAssumption DEF ConstantsAssumption
<1>1. CASE Deliver
  BY <1>1 DEF Deliver, TypeOK, Flag
<1>2. ASSUME NEW u \in Uids, Expunge(u) \/ ChangeFlag(u) PROVE TypeOK'
  BY <1>2 DEF Expunge, ChangeFlag, TypeOK, Flag
<1>3. ASSUME NEW n \in 1 .. MaxUid + 1, NewValidity(n) PROVE TypeOK'
  BY <1>3, MailboxType DEF NewValidity, TypeOK
<1> QED BY <1>1, <1>2, <1>3 DEF ServerStep

LEMMA StartType == ASSUME TypeOK, NEW p \in Procs, Start(p) PROVE TypeOK'
<1> USE ConstantsAssumption DEF ConstantsAssumption
<1>0. mem[p] \in ProcMem /\ NoMem \in ProcMem  BY NoMemType DEF TypeOK
<1>1. ASSUME NEW cmd \in {"sync", "older"}, Acquire(p, cmd) PROVE TypeOK'
  <2>1. [NoMem EXCEPT !.cmd = cmd] \in ProcMem  BY <1>0 DEF ProcMem, AllCommands
  <2>2. pc' \in [Procs -> Labels] /\ mem' \in [Procs -> ProcMem]
    BY <1>1, <2>1, GotoType DEF Acquire, Labels
  <2> QED BY <1>1, <2>2 DEF Acquire, TypeOK, serverVars, dbVars
<1>2. CASE StartDaily(p)
  <2>1. [NoMem EXCEPT !.cmd = "daily"] \in ProcMem  BY <1>0 DEF ProcMem, AllCommands
  <2>2. pc' \in [Procs -> Labels] /\ mem' \in [Procs -> ProcMem]
    BY <1>2, <2>1, GotoType DEF StartDaily, Labels
  <2> QED BY <1>2, <2>2 DEF StartDaily, TypeOK, serverVars, dbVars
<1>3. ASSUME NEW u \in Uids, MoveOnServer(p, u) PROVE TypeOK'
  <2>1. [NoMem EXCEPT !.cmd = "move", !.todo = {u}] \in ProcMem
    BY <1>0 DEF ProcMem, AllCommands
  <2>2. pc' \in [Procs -> Labels] /\ mem' \in [Procs -> ProcMem]
    BY <1>3, <2>1, GotoType DEF MoveOnServer, Labels
  <2> QED BY <1>3, <2>2 DEF MoveOnServer, TypeOK, dbVars, Flag
<1>4. ASSUME NEW u \in Uids, NEW flag \in {"read", "unread"}, SetReadOnServer(p, u, flag)
      PROVE TypeOK'
  <2>1. [NoMem EXCEPT !.cmd = "read", !.todo = {u}, !.fresh = [Nothing EXCEPT ![u] = flag]]
          \in ProcMem
    BY <1>0 DEF ProcMem, AllCommands, Nothing, Flag
  <2>2. pc' \in [Procs -> Labels] /\ mem' \in [Procs -> ProcMem]
    BY <1>4, <2>1, GotoType DEF SetReadOnServer, Labels
  <2>3. srv' \in [Uids -> Flag]  BY <1>4 DEF SetReadOnServer, TypeOK, Flag
  <2> QED BY <1>4, <2>2, <2>3 DEF SetReadOnServer, TypeOK, dbVars
<1> QED BY <1>1, <1>2, <1>3, <1>4 DEF Start

\* The row that a fetched message becomes.
LEMMA RowType ==
    ASSUME TypeOK, NEW p \in Procs, NEW u \in Uids
    PROVE  RowOf(p, u) \in Row
BY DEF RowOf, TypeOK, ProcMem, Row

\* A step that only reads keeps the types when the memory it writes is typed.
LEMMA ReadingType ==
    ASSUME TypeOK, NEW p \in Procs, NEW l \in Labels, NEW m \in ProcMem,
           Goto(p, l, m), Reading(p)
    PROVE  TypeOK'
<1>1. pc' \in [Procs -> Labels] /\ mem' \in [Procs -> ProcMem]  BY GotoType
<1> QED BY <1>1 DEF Reading, TypeOK, serverVars, dbVars

\* So does a step that writes typed rows.
LEMMA WritingType ==
    ASSUME TypeOK, NEW p \in Procs, NEW l \in Labels, NEW m \in ProcMem,
           Goto(p, l, m), UNCHANGED <<serverVars, lock>>,
           validity' \in 0 .. MaxEpoch,
           rows' \in [Uids -> Row],
           quiet' \in SUBSET Procs
    PROVE  TypeOK'
<1>1. pc' \in [Procs -> Labels] /\ mem' \in [Procs -> ProcMem]  BY GotoType
<1> QED BY <1>1 DEF TypeOK, serverVars

LEMMA EndingType ==
    ASSUME TypeOK, NEW p \in Procs, End(p), UNCHANGED <<serverVars, dbVars>>,
           quiet' \in SUBSET Procs
    PROVE  TypeOK'
<1>1. pc' \in [Procs -> Labels] /\ mem' \in [Procs -> ProcMem]
        /\ lock' \in Procs \cup {NoProc}
  BY EndType, ConstantsAssumption
<1> QED BY <1>1 DEF TypeOK, serverVars, dbVars

\* Deleting a row and changing its flag keep the table typed.
LEMMA ChangedRowType ==
    ASSUME TypeOK, NEW u \in Uids, NEW b \in BOOLEAN
    PROVE  /\ [rows EXCEPT ![u] = NoRow] \in [Uids -> Row]
           /\ [rows EXCEPT ![u].unread = b] \in [Uids -> Row]
<1>1. rows \in [Uids -> Row]  BY DEF TypeOK
<1>2. [rows[u] EXCEPT !.unread = b] \in Row  BY <1>1 DEF Row
<1>3. [rows EXCEPT ![u].unread = b] = [rows EXCEPT ![u] = [rows[u] EXCEPT !.unread = b]]
  OBVIOUS
<1> QED BY <1>1, <1>2, <1>3, NoRowType

LEMMA SyncStepType == ASSUME TypeOK, NEW p \in Procs, SyncStep(p) PROVE TypeOK'
<1> USE ConstantsAssumption DEF ConstantsAssumption
<1>0. mem[p] \in ProcMem  BY DEF TypeOK
<1>1. CASE ReadValidity(p)
  <2>1. [mem[p] EXCEPT !.stored = validity] \in ProcMem  BY <1>0 DEF ProcMem, TypeOK
  <2> QED BY <1>1, <2>1, ReadingType DEF ReadValidity, Labels
<1>2. CASE ReadMax(p)
  <2>1. PICK m \in 0 .. MaxUid : Goto(p, "low", [mem[p] EXCEPT !.known = m])
    BY <1>2 DEF ReadMax
  <2>2. [mem[p] EXCEPT !.known = m] \in ProcMem  BY <1>0 DEF ProcMem
  <2> QED BY <1>2, <2>1, <2>2, ReadingType DEF ReadMax, Labels
<1>3. CASE ReadLow(p)
  <2>1. PICK m \in 1 .. MaxUid + 1 : Goto(p, "select", [mem[p] EXCEPT !.low = m])
    BY <1>3 DEF ReadLow
  <2>2. [mem[p] EXCEPT !.low = m] \in ProcMem  BY <1>0 DEF ProcMem
  <2> QED BY <1>3, <2>1, <2>2, ReadingType DEF ReadLow, Labels
<1>4. CASE Select(p)
  <2> DEFINE seen == IF NeedsReset(p) THEN Newest(Present, InitialWindow) ELSE {}
             l == IF NeedsReset(p) THEN "fetch" ELSE "search"
             m == [mem[p] EXCEPT !.epoch = srvEpoch, !.reset = NeedsReset(p), !.seen = seen]
  <2>1. NeedsReset(p) \in BOOLEAN /\ seen \in SUBSET Uids
    BY DEF NeedsReset, Newest, Present
  <2>2. srvEpoch \in 0 .. MaxEpoch  BY DEF TypeOK
  <2>3. m \in ProcMem  BY <1>0, <2>1, <2>2 DEF ProcMem
  <2>4. Goto(p, l, m) /\ Reading(p) /\ l \in Labels  BY <1>4 DEF Select, Labels
  <2> HIDE DEF l, m
  <2> QED BY <2>3, <2>4, ReadingType
<1>5. CASE Search(p)
  <2> DEFINE hits == {u \in Present : u > mem[p].known} \cup Newest(Present, 1)
             seen == {u \in hits : u > mem[p].known}
             m == [mem[p] EXCEPT !.seen = seen]
  <2>1. seen \in SUBSET Uids  BY DEF Newest, Present
  <2>2. m \in ProcMem  BY <1>0, <2>1 DEF ProcMem
  <2>3. Goto(p, "fetch", m) /\ Reading(p)  BY <1>5 DEF Search
  <2> HIDE DEF m
  <2> QED BY <2>2, <2>3, ReadingType DEF Labels
<1>6. CASE Fetch(p)
  <2> DEFINE got == Fetched(mem[p].seen)
             l == IF mem[p].cmd = "older" THEN "insert"
                  ELSE IF mem[p].reset THEN "clear" ELSE "scan"
             todo == IF mem[p].cmd = "older" THEN Has(got) ELSE {}
             m == [mem[p] EXCEPT !.fresh = got, !.todo = todo]
  <2>1. got \in [Uids -> Flag]  BY FetchedType
  <2>2. todo \in SUBSET Uids  BY DEF Has
  <2> HIDE DEF got, todo
  <2>3. m \in ProcMem  BY <1>0, <2>1, <2>2 DEF ProcMem
  <2>4. Goto(p, l, m) /\ Reading(p) /\ l \in Labels  BY <1>6 DEF Fetch, Labels, got, todo
  <2> HIDE DEF l, m
  <2> QED BY <2>3, <2>4, ReadingType
<1>7. CASE Scan(p)
  <2> DEFINE scan == Fetched({u \in Present : mem[p].low <= u} \cup Newest(Present, 1))
             m == [mem[p] EXCEPT !.scan = scan]
  <2>1. scan \in [Uids -> Flag]  BY FetchedType
  <2>2. Goto(p, "stamp", m) /\ Reading(p)  BY <1>7 DEF Scan
  <2> HIDE DEF scan
  <2>3. m \in ProcMem  BY <1>0, <2>1 DEF ProcMem
  <2> HIDE DEF m
  <2> QED BY <2>2, <2>3, ReadingType DEF Labels
<1>8. CASE ClearFolder(p)
  BY <1>0, <1>8, WritingType, NoRowType DEF ClearFolder, Labels, TypeOK
<1>9. CASE SetValidity(p)
  <2>1. validity' \in 0 .. MaxEpoch  BY <1>0, <1>9 DEF SetValidity, ProcMem
  <2>2. quiet' \in SUBSET Procs /\ rows' \in [Uids -> Row]
    BY <1>9 DEF SetValidity, TypeOK
  <2>3. [mem[p] EXCEPT !.todo = Has(mem[p].fresh)] \in ProcMem  BY <1>0 DEF ProcMem, Has
  <2> QED BY <1>0, <1>9, <2>1, <2>2, <2>3, WritingType DEF SetValidity, Labels
<1>10. CASE Commit(p)
  <2>1. rows' \in [Uids -> Row]
    BY <1>10, RowType DEF Commit, TypeOK
  <2> QED BY <1>0, <1>10, <2>1, WritingType DEF Commit, Labels, TypeOK
<1>11. CASE ListWindow(p)
  <2>1. [mem[p] EXCEPT !.todo = {u \in Cached : mem[p].low <= u}] \in ProcMem
    BY <1>0 DEF ProcMem, Cached
  <2> QED BY <1>11, <2>1, ReadingType DEF ListWindow, Labels
<1>12. CASE FlagRow(p)
  <2>1. PICK u \in mem[p].todo : FlagRow(p)!2!(u)  BY <1>12 DEF FlagRow
  <2>2. u \in Uids  BY <1>0 DEF ProcMem
  <2>3. rows' \in [Uids -> Row]
    BY <2>1, <2>2, ChangedRowType DEF TypeOK
  <2>4. [mem[p] EXCEPT !.todo = @ \ {u}] \in ProcMem  BY <1>0 DEF ProcMem
  <2> QED BY <1>12, <2>1, <2>3, <2>4, WritingType DEF FlagRow, Labels, TypeOK
<1>13. CASE FlagsDone(p)
  BY <1>0, <1>13, ReadingType DEF FlagsDone, Labels
<1>14. CASE PlanMoves(p)
  <2>1. [mem[p] EXCEPT !.todo = Matched(p)] \in ProcMem  BY <1>0 DEF ProcMem, Matched, Has
  <2> QED BY <1>14, <2>1, ReadingType DEF PlanMoves, Labels
<1>15. CASE OrganizeOnServer(p)
  <2>1. PICK u \in mem[p].todo : OrganizeOnServer(p)!2!(u)  BY <1>15 DEF OrganizeOnServer
  <2> DEFINE rest == mem[p].todo \ {u}
             m == [mem[p] EXCEPT !.todo = IF rest = {} THEN Matched(p) ELSE rest]
  <2>2. m \in ProcMem  BY <1>0 DEF ProcMem, Matched, Has
  <2>3. Goto(p, IF rest = {} THEN "orgDelete" ELSE "orgMove", m)  BY <2>1
  <2> HIDE DEF m
  <2>4. pc' \in [Procs -> Labels] /\ mem' \in [Procs -> ProcMem]
    BY <2>2, <2>3, GotoType DEF Labels
  <2>5. srv' \in [Uids -> Flag]  BY <2>1 DEF TypeOK, Flag
  <2> QED BY <1>15, <2>4, <2>5 DEF OrganizeOnServer, TypeOK, dbVars
<1>16. CASE OrganizeRow(p)
  <2>1. PICK u \in mem[p].todo : OrganizeRow(p)!2!(u)  BY <1>16 DEF OrganizeRow
  <2> DEFINE rest == mem[p].todo \ {u}
  <2>2. [mem[p] EXCEPT !.todo = rest] \in ProcMem  BY <1>0 DEF ProcMem
  <2>3. rows' \in [Uids -> Row]
    BY <1>0, <2>1, ChangedRowType DEF ProcMem
  <2> QED BY <1>16, <2>1, <2>2, <2>3, WritingType DEF OrganizeRow, Labels, TypeOK
<1> QED BY <1>1, <1>2, <1>3, <1>4, <1>5, <1>6, <1>7, <1>8, <1>9, <1>10, <1>11, <1>12,
           <1>13, <1>14, <1>15, <1>16 DEF SyncStep

LEMMA OlderStepType == ASSUME TypeOK, NEW p \in Procs, OlderStep(p) PROVE TypeOK'
<1> USE ConstantsAssumption DEF ConstantsAssumption
<1>0. mem[p] \in ProcMem  BY DEF TypeOK
<1>1. CASE ReadMin(p)
  <2>1. PICK m \in 0 .. MaxUid :
          Goto(p, IF m <= 1 THEN "finish" ELSE "older", [mem[p] EXCEPT !.known = m])
    BY <1>1 DEF ReadMin
  <2>2. [mem[p] EXCEPT !.known = m] \in ProcMem  BY <1>0 DEF ProcMem
  <2> QED BY <1>1, <2>1, <2>2, ReadingType DEF ReadMin, Labels
<1>2. CASE SelectOlder(p)
  <2> DEFINE seen == Newest({u \in Present : u < mem[p].known}, OlderWindow)
             m == [mem[p] EXCEPT !.epoch = srvEpoch, !.seen = seen]
  <2>1. seen \in SUBSET Uids  BY DEF Newest, Present
  <2>2. srvEpoch \in 0 .. MaxEpoch  BY DEF TypeOK
  <2>3. m \in ProcMem  BY <1>0, <2>1, <2>2 DEF ProcMem
  <2>4. Goto(p, "fetch", m) /\ Reading(p)  BY <1>2 DEF SelectOlder
  <2> HIDE DEF m
  <2> QED BY <2>3, <2>4, ReadingType DEF Labels
<1>3. CASE InsertRow(p)
  <2>1. PICK u \in mem[p].todo :
          /\ rows' = [rows EXCEPT ![u] = RowOf(p, u)]
          /\ Goto(p, "insert", [mem[p] EXCEPT !.todo = mem[p].todo \ {u}])
    BY <1>3 DEF InsertRow
  <2>2. u \in Uids  BY <1>0 DEF ProcMem
  <2>3. rows' \in [Uids -> Row]  BY <2>1, <2>2, RowType DEF TypeOK
  <2>4. [mem[p] EXCEPT !.todo = mem[p].todo \ {u}] \in ProcMem  BY <1>0 DEF ProcMem
  <2> QED BY <1>3, <2>1, <2>3, <2>4, WritingType DEF InsertRow, Labels, TypeOK
<1>4. CASE InsertDone(p)
  <2>1. [mem[p] EXCEPT !.todo = Has(mem[p].scan)] \in ProcMem  BY <1>0 DEF ProcMem, Has
  <2> QED BY <1>0, <1>4, <2>1, ReadingType DEF InsertDone, Labels
<1> QED BY <1>1, <1>2, <1>3, <1>4 DEF OlderStep

LEMMA UserStepType == ASSUME TypeOK, NEW p \in Procs, UserStep(p) PROVE TypeOK'
<1>0. mem[p] \in ProcMem  BY DEF TypeOK
<1>1. CASE SetReadRow(p)
  <2>1. PICK u \in mem[p].todo :
          rows' = IF rows[u] = NoRow THEN rows
                  ELSE [rows EXCEPT ![u].unread = mem[p].fresh[u] = "unread"]
    BY <1>1 DEF SetReadRow
  <2>2. u \in Uids  BY <1>0 DEF ProcMem
  <2>3. rows' \in [Uids -> Row]  BY <2>1, <2>2, ChangedRowType DEF TypeOK
  <2> QED BY <1>0, <1>1, <2>3, WritingType DEF SetReadRow, Labels, TypeOK
<1>2. CASE MoveRow(p)
  <2>1. PICK u \in mem[p].todo : rows' = [rows EXCEPT ![u] = NoRow]
    BY <1>2 DEF MoveRow
  <2>2. u \in Uids  BY <1>0 DEF ProcMem
  <2>3. rows' \in [Uids -> Row]  BY <2>1, <2>2, ChangedRowType
  <2> QED BY <1>0, <1>2, <2>3, WritingType DEF MoveRow, Labels, TypeOK
<1> QED BY <1>1, <1>2 DEF UserStep

LEMMA EndStepType ==
    ASSUME TypeOK, NEW p \in Procs, Finish(p) \/ SessionLost(p) \/ Abort(p) PROVE TypeOK'
<1>1. End(p) /\ UNCHANGED <<serverVars, dbVars>> /\ quiet' = quiet \ {p}
  BY DEF Finish, SessionLost, Abort
<1>2. quiet' \in SUBSET Procs  BY <1>1 DEF TypeOK
<1> QED BY <1>1, <1>2, EndingType

LEMMA NextType == TypeOK /\ [Next]_vars => TypeOK'
<1> SUFFICES ASSUME TypeOK, [Next]_vars PROVE TypeOK'  OBVIOUS
<1>1. CASE ServerStep  BY <1>1, ServerStepType
<1>2. ASSUME NEW p \in Procs, Start(p) PROVE TypeOK'  BY <1>2, StartType
<1>3. ASSUME NEW p \in Procs, Run(p) \/ Abort(p) PROVE TypeOK'
  BY <1>3, SyncStepType, OlderStepType, UserStepType, EndStepType DEF Run
<1>4. CASE UNCHANGED vars  BY <1>4 DEF vars, TypeOK
<1> QED BY <1>1, <1>2, <1>3, <1>4 DEF Next

\* The variables have their types in every reachable state.
THEOREM TypeCorrect == Spec => []TypeOK
BY InitType, NextType, PTL DEF Spec

(***************************************************************************)
(* The inductive invariant.                                                *)
(***************************************************************************)

\* What happens around a process that does not move: the server goes on, and
\* rows disappear or change their flags.
ServerMoves ==
    /\ srvEpoch <= srvEpoch'
    /\ srvEpoch' = srvEpoch =>
          /\ uidNext <= uidNext'
          /\ \A u \in Uids : srv'[u] # "none" => srv[u] # "none" \/ uidNext <= u
RowsShrink ==
    \A u \in Uids : \/ rows'[u] = NoRow
                    \/ rows[u] # NoRow /\ rows'[u].epoch = rows[u].epoch

\* A process that does not move keeps what it knows.
LEMMA CalmLocal ==
    ASSUME Inductive, TypeOK', NEW q \in Procs, pc'[q] = pc[q], mem'[q] = mem[q],
           ServerMoves, RowsShrink, validity' = validity
    PROVE  Local(q)'
<1> USE ConstantsAssumption DEF ConstantsAssumption
<1>0. /\ mem[q] \in ProcMem
      /\ srvEpoch \in Nat /\ srvEpoch' \in Nat /\ validity \in Nat
      /\ uidNext \in Nat /\ uidNext' \in Nat
      /\ mem[q].epoch \in Nat /\ mem[q].known \in Nat
      /\ Has(mem[q].fresh) \subseteq Uids
  <2>1. mem[q] \in ProcMem  BY DEF Inductive, TypeOK
  <2>2. srvEpoch \in Nat /\ validity \in Nat /\ uidNext \in Nat
    BY DEF Inductive, TypeOK
  <2>3. srvEpoch' \in Nat /\ uidNext' \in Nat  BY DEF TypeOK
  <2> QED BY <2>1, <2>2, <2>3 DEF ProcMem, Has
<1>1. Local(q) /\ Bounded  BY DEF Inductive
<1>2. Cached' \subseteq Cached /\ \A u \in Cached' : rows'[u].epoch = rows[u].epoch
  BY DEF Cached, RowsShrink
<1>3. BeforeSelect(q)'
  BY <1>0, <1>1 DEF Local, BeforeSelect, Bounded, ServerMoves
<1>4. InSync(q)' = InSync(q) /\ InBackfill(q)' = InBackfill(q)
  BY DEF InSync, InBackfill
<1>5. /\ pc[q] \in {"scan", "clear", "stamp", "commit", "list", "flags"} => InSync(q)
      /\ pc[q] = "insert" => InBackfill(q)
  BY DEF Inductive, Owner, SyncLabels, OlderLabels, InSync, InBackfill
<1>6. AfterSelect(q)'
  BY <1>0, <1>1, <1>2, <1>4, <1>5 DEF Local, AfterSelect, Bounded, ServerMoves
<1>7. ScanSound(q)'
  BY <1>0, <1>1, <1>5 DEF Local, ScanSound, AfterSelect, Bounded, ServerMoves
<1> QED BY <1>3, <1>6, <1>7 DEF Local

\* A process that does not hold the lock has nothing to know.
LEMMA UnlockedLocal ==
    ASSUME Inductive, NEW q \in Procs, pc'[q] = pc[q], mem'[q] = mem[q], lock # q
    PROVE  Local(q)'
<1>1. mem[q].cmd \notin {"sync", "older"} /\ pc[q] \notin SyncLabels \cup OlderLabels \cup {"fetch"}
  BY DEF Inductive, Owner
<1> QED BY <1>1 DEF Local, BeforeSelect, AfterSelect, ScanSound, InSync, InBackfill,
               SyncLabels, OlderLabels

\* A step of p that adds nothing to the table preserves the invariant when it
\* leaves p where it should be.
LEMMA CalmStep ==
    ASSUME Inductive, TypeOK', NEW p \in Procs, NEW l, NEW m, Goto(p, l, m),
           srvEpoch' = srvEpoch, uidNext' = uidNext,
           \A u \in Uids : srv'[u] # "none" => srv[u] # "none",
           validity' = validity, RowsShrink, lock' = lock,
           Owner(p)', Local(p)'
    PROVE  Inductive'
<1> USE ConstantsAssumption DEF ConstantsAssumption
<1>0. srvEpoch \in Nat \ {0} /\ uidNext \in Nat  BY DEF Inductive, TypeOK
<1>1. ServerMoves  BY <1>0 DEF ServerMoves
<1>2. ASSUME NEW q \in Procs, q # p PROVE Owner(q)' /\ Local(q)'
  <2>1. pc'[q] = pc[q] /\ mem'[q] = mem[q]  BY <1>2 DEF Goto, Inductive, TypeOK
  <2>2. Local(q)'  BY <1>1, <2>1, CalmLocal
  <2>3. Owner(q)'  BY <2>1 DEF Inductive, Owner
  <2> QED BY <2>2, <2>3
<1>3. Bounded'
  BY <1>0 DEF Inductive, Bounded, RowsShrink, NoRow
<1>4. RowsTrustworthy'
  BY DEF Inductive, RowsTrustworthy, Cached, RowsShrink
<1> QED BY <1>2, <1>3, <1>4 DEF Inductive

\* A step of the holder of the lock may also add rows and stamp the folder.
LEMMA LockedStep ==
    ASSUME Inductive, TypeOK', NEW p \in Procs, NEW l, NEW m, Goto(p, l, m),
           lock = p, lock' = lock, Bounded', RowsTrustworthy', Owner(p)', Local(p)'
    PROVE  Inductive'
<1>1. ASSUME NEW q \in Procs, q # p PROVE Owner(q)' /\ Local(q)'
  <2>1. pc'[q] = pc[q] /\ mem'[q] = mem[q]  BY <1>1 DEF Goto, Inductive, TypeOK
  <2>2. Local(q)'  BY <1>1, <2>1, UnlockedLocal
  <2>3. Owner(q)'  BY <2>1 DEF Inductive, Owner
  <2> QED BY <2>2, <2>3
<1> QED BY <1>1 DEF Inductive

LEMMA InductiveInit == ASSUME Init PROVE Inductive
<1> USE ConstantsAssumption DEF ConstantsAssumption
<1>1. TypeOK  BY InitType
<1>2. Bounded  BY DEF Init, Bounded, Mailbox, NoRow
<1>3. RowsTrustworthy  BY DEF Init, RowsTrustworthy
<1>4. ASSUME NEW p \in Procs PROVE Owner(p) /\ Local(p)
  <2>1. pc[p] = "idle" /\ mem[p] = NoMem  BY DEF Init
  <2> QED BY <2>1 DEF Owner, Local, BeforeSelect, AfterSelect, ScanSound, InSync,
                      InBackfill, SyncLabels, OlderLabels, NoMem
<1> QED BY <1>1, <1>2, <1>3, <1>4 DEF Inductive

\* The server's own steps.
LEMMA InductiveServer == ASSUME Inductive, ServerStep PROVE Inductive'
<1> USE ConstantsAssumption DEF ConstantsAssumption
<1>0. TypeOK /\ TypeOK'  BY ServerStepType DEF Inductive
<1>1. /\ UNCHANGED <<validity, rows, lock, pc, mem>>
      /\ ServerMoves
      /\ srvEpoch' = srvEpoch \/ srvEpoch' = srvEpoch + 1
      /\ \A u \in Uids : srv'[u] # "none" => u < uidNext'
  <2>1. CASE Deliver
    BY <1>0, <2>1 DEF Deliver, ServerMoves, Inductive, Bounded, TypeOK
  <2>2. ASSUME NEW u \in Uids, Expunge(u) \/ ChangeFlag(u)
        PROVE  /\ UNCHANGED <<srvEpoch, uidNext, validity, rows, lock, pc, mem>>
               /\ \A v \in Uids : srv'[v] # "none" => srv[v] # "none"
    BY <1>0, <2>2 DEF Expunge, ChangeFlag, TypeOK
  <2>3. ASSUME NEW n \in 1 .. MaxUid + 1, NewValidity(n)
        PROVE  /\ UNCHANGED <<validity, rows, lock, pc, mem>>
               /\ srvEpoch' = srvEpoch + 1 /\ uidNext' = n /\ srv' = Mailbox(n)
    BY <2>3 DEF NewValidity
  <2> QED BY <1>0, <2>1, <2>2, <2>3 DEF ServerStep, ServerMoves, Inductive, Bounded,
                                       TypeOK, Mailbox
<1>2. RowsShrink  BY <1>1 DEF RowsShrink
<1>3. ASSUME NEW q \in Procs PROVE Owner(q)' /\ Local(q)'
  <2>1. Local(q)'  BY <1>0, <1>1, <1>2, CalmLocal
  <2>2. Owner(q)'  BY <1>1 DEF Inductive, Owner
  <2> QED BY <2>1, <2>2
<1>4. Bounded'
  <2>1. srvEpoch \in Nat /\ uidNext \in Nat /\ uidNext' \in Nat /\ validity \in Nat
    BY <1>0 DEF TypeOK
  <2>2. \A u \in Uids : rows[u].epoch \in Nat  BY <1>0 DEF TypeOK, Row
  <2> QED BY <1>1, <2>1, <2>2 DEF Inductive, Bounded, ServerMoves
<1>5. RowsTrustworthy'
  <2>1. srvEpoch \in Nat /\ validity \in Nat /\ validity <= srvEpoch
    BY <1>0 DEF TypeOK, Inductive, Bounded
  <2> QED BY <1>1, <2>1 DEF Inductive, RowsTrustworthy, Cached
<1> QED BY <1>0, <1>3, <1>4, <1>5 DEF Inductive

LEMMA GotoSelf ==
    ASSUME TypeOK, NEW p \in Procs, NEW l, NEW m, Goto(p, l, m)
    PROVE  pc'[p] = l /\ mem'[p] = m
BY DEF Goto, TypeOK

\* A process that is idle, at the end or in a user's command knows nothing.
LEMMA IdleLocal ==
    ASSUME NEW p \in Procs, pc[p] \in {"idle", "finish", "local"}
    PROVE  Local(p)
BY DEF Local, BeforeSelect, AfterSelect, ScanSound, InSync, InBackfill

\* The end of a command, whichever way it ends.
LEMMA InductiveEnd ==
    ASSUME Inductive, TypeOK', NEW p \in Procs, End(p), UNCHANGED <<serverVars, dbVars>>
    PROVE  Inductive'
<1>0. TypeOK  BY DEF Inductive
<1>1. pc'[p] = "idle" /\ mem'[p] = NoMem  BY <1>0, GotoSelf DEF End
<1>2. ServerMoves /\ RowsShrink /\ validity' = validity
  BY <1>0, ConstantsAssumption
     DEF ServerMoves, RowsShrink, serverVars, dbVars, TypeOK, ConstantsAssumption
<1>3. Owner(p)'
  BY <1>1 DEF Owner, NoMem, SyncLabels, OlderLabels
<1>4. Local(p)'
  BY <1>1 DEF Local, BeforeSelect, AfterSelect, ScanSound, InSync, InBackfill
<1>5. ASSUME NEW q \in Procs, q # p PROVE Owner(q)' /\ Local(q)'
  <2>1. pc'[q] = pc[q] /\ mem'[q] = mem[q]  BY <1>0, <1>5 DEF End, Goto, TypeOK
  <2>2. Local(q)'  BY <1>2, <2>1, CalmLocal
  <2>3. Owner(q)'  BY <1>5, <2>1 DEF Inductive, Owner, End
  <2> QED BY <2>2, <2>3
<1>6. Bounded' /\ RowsTrustworthy'
  BY DEF Inductive, Bounded, RowsTrustworthy, Cached, serverVars, dbVars
<1> QED BY <1>3, <1>4, <1>5, <1>6 DEF Inductive

\* The start of a command.
LEMMA InductiveStart ==
    ASSUME Inductive, "daily" \notin Commands, NEW p \in Procs, Start(p)
    PROVE  Inductive'
<1>0. TypeOK /\ TypeOK'  BY StartType DEF Inductive
<1>1. ASSUME NEW cmd \in {"sync", "older"}, Acquire(p, cmd) PROVE Inductive'
  <2>1. /\ pc'[p] = IF cmd = "sync" THEN "validity" ELSE "min"
        /\ mem'[p] = [NoMem EXCEPT !.cmd = cmd]
    BY <1>0, <1>1, GotoSelf DEF Acquire
  <2>2. mem'[p].cmd = cmd  BY <2>1 DEF NoMem
  <2>3. Owner(p)'  BY <1>1, <2>1, <2>2 DEF Owner, SyncLabels, OlderLabels, Acquire
  <2>4. Local(p)'
    BY <2>1 DEF Local, BeforeSelect, AfterSelect, ScanSound, InSync, InBackfill
  <2>5. ServerMoves /\ RowsShrink /\ validity' = validity
    BY <1>0, <1>1, ConstantsAssumption
       DEF Acquire, ServerMoves, RowsShrink, serverVars, dbVars, TypeOK, ConstantsAssumption
  <2>6. ASSUME NEW q \in Procs, q # p PROVE Owner(q)' /\ Local(q)'
    <3>1. pc'[q] = pc[q] /\ mem'[q] = mem[q]  BY <1>0, <1>1, <2>6 DEF Acquire, Goto, TypeOK
    <3>2. Local(q)'  BY <1>0, <2>5, <3>1, CalmLocal
    <3>3. lock # q  BY <1>1, ConstantsAssumption DEF Acquire, ConstantsAssumption
    <3>4. Owner(q)'  BY <3>1, <3>3 DEF Inductive, Owner
    <3> QED BY <3>2, <3>4
  <2>7. Bounded' /\ RowsTrustworthy'
    BY <1>1 DEF Acquire, Inductive, Bounded, RowsTrustworthy, Cached, serverVars, dbVars
  <2> QED BY <1>0, <2>3, <2>4, <2>6, <2>7 DEF Inductive
<1>2. ASSUME StartDaily(p) PROVE FALSE  BY <1>2 DEF StartDaily
<1>3. ASSUME NEW u \in Uids, NEW cmd \in {"move", "read"}, NEW m, m.cmd = cmd,
             Goto(p, "local", m), UNCHANGED <<srvEpoch, uidNext, dbVars, lock>>,
             \A v \in Uids : srv'[v] # "none" => srv[v] # "none"
      PROVE  Inductive'
  <2>1. pc'[p] = "local" /\ mem'[p] = m  BY <1>0, <1>3, GotoSelf
  <2>2. Owner(p)'  BY <1>3, <2>1 DEF Owner, SyncLabels, OlderLabels
  <2>3. Local(p)'
    BY <2>1 DEF Local, BeforeSelect, AfterSelect, ScanSound, InSync, InBackfill
  <2>4. RowsShrink  BY <1>3 DEF RowsShrink, dbVars
  <2> QED BY <1>0, <1>3, <2>2, <2>3, <2>4, CalmStep DEF dbVars
<1>4. ASSUME NEW u \in Uids, MoveOnServer(p, u) PROVE Inductive'
  <2>1. [NoMem EXCEPT !.cmd = "move", !.todo = {u}].cmd = "move"  BY DEF NoMem
  <2>2. \A v \in Uids : srv'[v] # "none" => srv[v] # "none"
    BY <1>0, <1>4 DEF MoveOnServer, TypeOK
  <2> QED BY <1>3, <1>4, <2>1, <2>2 DEF MoveOnServer
<1>5. ASSUME NEW u \in Uids, NEW flag \in {"read", "unread"}, SetReadOnServer(p, u, flag)
      PROVE Inductive'
  <2>1. [NoMem EXCEPT !.cmd = "read", !.todo = {u},
                      !.fresh = [Nothing EXCEPT ![u] = flag]].cmd = "read"  BY DEF NoMem
  <2>2. \A v \in Uids : srv'[v] # "none" => srv[v] # "none"
    BY <1>0, <1>5 DEF SetReadOnServer, TypeOK
  <2> QED BY <1>3, <1>5, <2>1, <2>2 DEF SetReadOnServer
<1> QED BY <1>1, <1>2, <1>4, <1>5 DEF Start

\* A step that only reads, in the form in which the actions cite CalmStep.
LEMMA ReadingStep ==
    ASSUME Inductive, TypeOK', NEW p \in Procs, NEW l, NEW m, Goto(p, l, m), Reading(p),
           Owner(p)', Local(p)'
    PROVE  Inductive'
<1>1. RowsShrink  BY DEF RowsShrink, Reading, dbVars
<1> QED BY <1>1, CalmStep DEF Reading, serverVars, dbVars

\* The steps of a sync up to SELECT.
LEMMA InductiveBeforeSelect ==
    ASSUME Inductive, TypeOK', NEW p \in Procs,
           ReadValidity(p) \/ ReadMax(p) \/ ReadLow(p)
    PROVE  Inductive'
<1> USE ConstantsAssumption DEF ConstantsAssumption
<1>0. TypeOK /\ Owner(p) /\ Local(p) /\ mem[p] \in ProcMem
  BY DEF Inductive, TypeOK
<1>1. CASE ReadValidity(p)
  <2> DEFINE m == [mem[p] EXCEPT !.stored = validity]
  <2>1. Goto(p, "max", m) /\ Reading(p)  BY <1>1 DEF ReadValidity
  <2>2. pc'[p] = "max" /\ mem'[p] = m  BY <1>0, <2>1, GotoSelf
  <2>3. m.cmd = "sync" /\ m.stored = validity
    BY <1>0, <1>1 DEF Owner, SyncLabels, ReadValidity, At, ProcMem
  <2>4. Owner(p)'
    BY <1>0, <1>1, <2>1, <2>2, <2>3
       DEF Owner, SyncLabels, OlderLabels, Reading, ReadValidity, At
  <2>5. Local(p)'
    BY <2>1, <2>2, <2>3 DEF Local, BeforeSelect, AfterSelect, ScanSound, InSync,
                            InBackfill, Reading, dbVars
  <2> HIDE DEF m
  <2> QED BY <2>1, <2>4, <2>5, ReadingStep
<1>2. CASE ReadMax(p)
  <2>1. PICK k \in 0 .. MaxUid :
          /\ IF Cached = {} THEN k = 0 ELSE IsHighest(k, Cached)
          /\ Goto(p, "low", [mem[p] EXCEPT !.known = k])
    BY <1>2 DEF ReadMax
  <2> DEFINE m == [mem[p] EXCEPT !.known = k]
  <2>2. Goto(p, "low", m) /\ Reading(p) /\ pc[p] = "max"  BY <1>2, <2>1 DEF ReadMax, At
  <2>3. pc'[p] = "low" /\ mem'[p] = m  BY <1>0, <2>2, GotoSelf
  <2>4. m.cmd = "sync" /\ m.stored = validity /\ m.known = k
    BY <1>0, <2>2 DEF Owner, SyncLabels, ProcMem, Local, BeforeSelect
  <2>5. validity = srvEpoch => k < uidNext
    <3>1. uidNext \in Nat \ {0}  BY <1>0 DEF TypeOK
    <3>2. k = 0 \/ k \in Cached  BY <2>1 DEF IsHighest
    <3> QED BY <3>1, <3>2 DEF Inductive, RowsTrustworthy, Bounded, Cached
  <2>6. Owner(p)'
    BY <1>0, <2>2, <2>3, <2>4 DEF Owner, SyncLabels, OlderLabels, Reading
  <2>7. Local(p)'
    BY <2>2, <2>3, <2>4, <2>5 DEF Local, BeforeSelect, AfterSelect, ScanSound, InSync,
                                  InBackfill, Reading, dbVars, serverVars
  <2> HIDE DEF m
  <2> QED BY <2>2, <2>6, <2>7, ReadingStep
<1>3. CASE ReadLow(p)
  <2>1. PICK k \in 1 .. MaxUid + 1 : Goto(p, "select", [mem[p] EXCEPT !.low = k])
    BY <1>3 DEF ReadLow
  <2> DEFINE m == [mem[p] EXCEPT !.low = k]
  <2>2. Goto(p, "select", m) /\ Reading(p) /\ pc[p] = "low"  BY <1>3, <2>1 DEF ReadLow, At
  <2>3. pc'[p] = "select" /\ mem'[p] = m  BY <1>0, <2>2, GotoSelf
  <2>4. m.cmd = "sync" /\ m.stored = mem[p].stored /\ m.known = mem[p].known
    BY <1>0, <2>2 DEF Owner, SyncLabels, ProcMem
  <2>5. Owner(p)'
    BY <1>0, <2>2, <2>3, <2>4 DEF Owner, SyncLabels, OlderLabels, Reading
  <2>6. Local(p)'
    BY <1>0, <2>2, <2>3, <2>4 DEF Local, BeforeSelect, AfterSelect, ScanSound, InSync,
                                  InBackfill, Reading, dbVars, serverVars
  <2> HIDE DEF m
  <2> QED BY <2>2, <2>5, <2>6, ReadingStep
<1> QED BY <1>1, <1>2, <1>3

\* SELECT: a session that is not a rebuild finds every row of its UIDVALIDITY.
LEMMA InductiveSelect ==
    ASSUME Inductive, TypeOK', NEW p \in Procs, Select(p)
    PROVE  Inductive'
<1> USE ConstantsAssumption DEF ConstantsAssumption
<1>0. TypeOK /\ Owner(p) /\ Local(p) /\ mem[p] \in ProcMem
  BY DEF Inductive, TypeOK
<1> DEFINE seen == IF NeedsReset(p) THEN Newest(Present, InitialWindow) ELSE {}
           l == IF NeedsReset(p) THEN "fetch" ELSE "search"
           m == [mem[p] EXCEPT !.epoch = srvEpoch, !.reset = NeedsReset(p), !.seen = seen]
<1>1. Goto(p, l, m) /\ Reading(p) /\ pc[p] = "select"  BY DEF Select, At
<1>2. pc'[p] = l /\ mem'[p] = m  BY <1>0, <1>1, GotoSelf
<1>3. /\ m.cmd = "sync" /\ m.epoch = srvEpoch /\ m.reset = NeedsReset(p)
      /\ m.known = mem[p].known /\ m.stored = mem[p].stored /\ m.fresh = mem[p].fresh
  BY <1>0, <1>1 DEF Owner, SyncLabels, ProcMem
<1>4. ~NeedsReset(p) => /\ validity = srvEpoch
                        /\ \A u \in Cached : rows[u].epoch = srvEpoch
                        /\ mem[p].known < uidNext
  BY <1>0, <1>1 DEF NeedsReset, Local, BeforeSelect, Inductive, RowsTrustworthy
<1>5. Owner(p)'
  BY <1>0, <1>1, <1>2, <1>3 DEF Owner, SyncLabels, OlderLabels, Reading
<1>6. Local(p)'
  <2>1. 1 <= srvEpoch /\ srvEpoch <= srvEpoch  BY <1>0 DEF TypeOK
  <2>2. l \in {"fetch", "search"} /\ (l = "search" => ~NeedsReset(p))  OBVIOUS
  <2> HIDE DEF l, m
  <2> QED BY <1>1, <1>2, <1>3, <1>4, <2>1, <2>2
          DEF Local, BeforeSelect, AfterSelect, ScanSound, InSync, InBackfill, Reading,
              dbVars, serverVars, Cached
<1> HIDE DEF l, m
<1> QED BY <1>1, <1>5, <1>6, ReadingStep

\* The commands of an open session.
LEMMA InductiveSession ==
    ASSUME Inductive, TypeOK', NEW p \in Procs, Search(p) \/ Fetch(p) \/ Scan(p)
    PROVE  Inductive'
<1> USE ConstantsAssumption DEF ConstantsAssumption
<1>0. TypeOK /\ Owner(p) /\ Local(p) /\ mem[p] \in ProcMem
  BY DEF Inductive, TypeOK
<1>1. CASE Search(p)
  <2> DEFINE hits == {u \in Present : u > mem[p].known} \cup Newest(Present, 1)
             m == [mem[p] EXCEPT !.seen = {u \in hits : u > mem[p].known}]
  <2>1. Goto(p, "fetch", m) /\ Reading(p) /\ pc[p] = "search"  BY <1>1 DEF Search, At
  <2>2. pc'[p] = "fetch" /\ mem'[p] = m  BY <1>0, <2>1, GotoSelf
  <2>3. /\ m.cmd = "sync" /\ m.epoch = mem[p].epoch /\ m.reset = mem[p].reset
        /\ m.known = mem[p].known
    BY <1>0, <2>1 DEF Owner, SyncLabels, ProcMem
  <2> HIDE DEF m
  <2>4. Owner(p)'
    BY <1>0, <2>1, <2>2, <2>3 DEF Owner, SyncLabels, OlderLabels, Reading
  <2>5. mem[p].cmd = "sync"  BY <1>0, <2>1 DEF Owner, SyncLabels
  <2>6. Local(p)'
    BY <1>0, <2>1, <2>2, <2>3, <2>5
       DEF Local, BeforeSelect, AfterSelect, ScanSound, InSync, InBackfill, Reading,
           dbVars, serverVars, Cached
  <2> QED BY <2>1, <2>4, <2>6, ReadingStep
<1>2. CASE Fetch(p)
  <2> DEFINE got == Fetched(mem[p].seen)
             l == IF mem[p].cmd = "older" THEN "insert"
                  ELSE IF mem[p].reset THEN "clear" ELSE "scan"
             m == [mem[p] EXCEPT !.fresh = got,
                                 !.todo = IF mem[p].cmd = "older" THEN Has(got) ELSE {}]
  <2>1. Goto(p, l, m) /\ Reading(p) /\ pc[p] = "fetch"  BY <1>2 DEF Fetch, At
  <2>2. pc'[p] = l /\ mem'[p] = m  BY <1>0, <2>1, GotoSelf
  <2>3. /\ m.cmd = mem[p].cmd /\ m.epoch = mem[p].epoch /\ m.reset = mem[p].reset
        /\ m.known = mem[p].known /\ m.fresh = got
        /\ mem[p].cmd = "older" => m.todo = Has(got)
    BY <1>0 DEF ProcMem
  <2>4. \A u \in Has(got) : u < uidNext
    BY DEF Has, Fetched, Inductive, Bounded
  <2>5. mem[p].cmd \in {"sync", "older"}  BY <1>0, <2>1 DEF Owner
  <2>6. /\ l \in {"insert", "clear", "scan"}
        /\ l = "insert" <=> mem[p].cmd = "older"
        /\ l = "clear" => mem[p].reset
        /\ l = "scan" => ~mem[p].reset
    OBVIOUS
  <2> HIDE DEF got, l, m
  <2>7. Owner(p)'
    BY <1>0, <2>1, <2>2, <2>3, <2>5, <2>6 DEF Owner, SyncLabels, OlderLabels, Reading
  <2>8. Local(p)'
    BY <1>0, <2>1, <2>2, <2>3, <2>4, <2>5, <2>6
       DEF Local, BeforeSelect, AfterSelect, ScanSound, InSync, InBackfill, Reading,
           dbVars, serverVars, Cached
  <2> QED BY <2>1, <2>7, <2>8, ReadingStep
<1>3. CASE Scan(p)
  <2> DEFINE scan == Fetched({u \in Present : mem[p].low <= u} \cup Newest(Present, 1))
             m == [mem[p] EXCEPT !.scan = scan]
  <2>1. Goto(p, "stamp", m) /\ Reading(p) /\ pc[p] = "scan"  BY <1>3 DEF Scan, At
  <2>2. pc'[p] = "stamp" /\ mem'[p] = m  BY <1>0, <2>1, GotoSelf
  <2>3. /\ m.cmd = "sync" /\ m.epoch = mem[p].epoch /\ m.reset = mem[p].reset
        /\ m.known = mem[p].known /\ m.fresh = mem[p].fresh /\ m.scan = scan
        /\ m.low = mem[p].low /\ mem[p].cmd = "sync"
    BY <1>0, <2>1 DEF Owner, SyncLabels, ProcMem
  <2>4. \A u \in Uids : (mem[p].low <= u /\ scan[u] = "none") => srv[u] = "none"
    BY DEF Fetched, Present
  <2> HIDE DEF scan, m
  <2>5. Owner(p)'
    BY <1>0, <2>1, <2>2, <2>3 DEF Owner, SyncLabels, OlderLabels, Reading
  <2>6. Local(p)'
    BY <1>0, <2>1, <2>2, <2>3, <2>4
       DEF Local, BeforeSelect, AfterSelect, ScanSound, InSync, InBackfill, Reading,
           dbVars, serverVars, Cached
  <2> QED BY <2>1, <2>5, <2>6, ReadingStep
<1> QED BY <1>1, <1>2, <1>3

\* The steps of a sync that write: clear, set_uidvalidity, the transaction.
LEMMA InductiveWrite ==
    ASSUME Inductive, TypeOK', NEW p \in Procs,
           ClearFolder(p) \/ SetValidity(p) \/ Commit(p)
    PROVE  Inductive'
<1> USE ConstantsAssumption DEF ConstantsAssumption
<1>0. TypeOK /\ Owner(p) /\ Local(p) /\ mem[p] \in ProcMem
  BY DEF Inductive, TypeOK
<1>1. CASE ClearFolder(p)
  <2>1. Goto(p, "stamp", mem[p]) /\ pc[p] = "clear"  BY <1>1 DEF ClearFolder, At
  <2>2. pc'[p] = "stamp" /\ mem'[p] = mem[p]  BY <1>0, <2>1, GotoSelf
  <2>3. RowsShrink /\ Cached' = {}  BY <1>1 DEF ClearFolder, RowsShrink, Cached
  <2>4. mem[p].cmd = "sync" /\ mem[p].reset
    BY <1>0, <2>1 DEF Owner, SyncLabels, Local, AfterSelect
  <2>5. Owner(p)'
    BY <1>0, <1>1, <2>2, <2>4 DEF Owner, SyncLabels, OlderLabels, ClearFolder
  <2>6. Local(p)'
    BY <1>0, <1>1, <2>1, <2>2, <2>3, <2>4
       DEF Local, BeforeSelect, AfterSelect, ScanSound, InSync, InBackfill, ClearFolder,
           serverVars
  <2> QED BY <1>1, <2>1, <2>3, <2>5, <2>6, CalmStep DEF ClearFolder, serverVars
<1>2. CASE SetValidity(p)
  <2>1. pc[p] = "stamp"  BY <1>2 DEF SetValidity, At
  <2>2. mem[p].cmd = "sync" /\ lock = p  BY <1>0, <2>1 DEF Owner, SyncLabels
  <2>3. Goto(p, "commit", mem[p])  BY <1>2, <2>2 DEF SetValidity
  <2>4. pc'[p] = "commit" /\ mem'[p] = mem[p]  BY <1>0, <2>3, GotoSelf
  <2>5. /\ 1 <= mem[p].epoch /\ mem[p].epoch <= srvEpoch
        /\ mem[p].reset => Cached = {}
        /\ ~mem[p].reset => \A u \in Cached : rows[u].epoch = mem[p].epoch
    BY <1>0, <2>1, <2>2 DEF Local, AfterSelect, InSync
  <2>6. Cached' = Cached  BY <1>2 DEF SetValidity, Cached
  <2>7. Bounded'  BY <1>2, <2>5 DEF SetValidity, Inductive, Bounded, serverVars
  <2>8. RowsTrustworthy'
    BY <1>2, <2>5, <2>6 DEF SetValidity, RowsTrustworthy, serverVars
  <2>9. Owner(p)'
    BY <1>0, <1>2, <2>2, <2>4 DEF Owner, SyncLabels, OlderLabels, SetValidity
  <2>10. Local(p)'
    BY <1>0, <1>2, <2>1, <2>2, <2>4, <2>5, <2>6
       DEF Local, BeforeSelect, AfterSelect, ScanSound, InSync, InBackfill, SetValidity,
           serverVars
  <2> QED BY <1>2, <2>2, <2>3, <2>7, <2>8, <2>9, <2>10, LockedStep DEF SetValidity
<1>3. CASE Commit(p)
  <2> DEFINE l == IF mem[p].reset THEN "organize" ELSE "list"
  <2>1. pc[p] = "commit" /\ Goto(p, l, mem[p])  BY <1>3 DEF Commit, At
  <2>2. mem[p].cmd = "sync" /\ lock = p  BY <1>0, <2>1 DEF Owner, SyncLabels
  <2>3. pc'[p] = l /\ mem'[p] = mem[p]  BY <1>0, <2>1, GotoSelf
  <2>4. /\ 1 <= mem[p].epoch /\ mem[p].epoch <= srvEpoch /\ validity = mem[p].epoch
        /\ \A u \in Cached : rows[u].epoch = mem[p].epoch
        /\ mem[p].epoch = srvEpoch => \A u \in Has(mem[p].fresh) : u < uidNext
    BY <1>0, <2>1, <2>2 DEF Local, AfterSelect, InSync
  <2>5. \A u \in Uids : \/ rows'[u] = rows[u]
                        \/ u \in Has(mem[p].fresh) /\ rows'[u].epoch = mem[p].epoch
    BY <1>3 DEF Commit, RowOf
  <2>6. \A u \in Cached' : rows'[u].epoch = mem[p].epoch
    BY <2>4, <2>5 DEF Cached
  <2>7. Bounded'
    <3>1. srvEpoch \in Nat /\ mem[p].epoch \in Nat  BY <1>0 DEF TypeOK, ProcMem
    <3> QED BY <1>3, <2>4, <2>5, <3>1 DEF Commit, Inductive, Bounded, serverVars
  <2>8. RowsTrustworthy'  BY <1>3, <2>4, <2>6 DEF Commit, RowsTrustworthy, serverVars
  <2>9. Owner(p)'
    BY <1>0, <1>3, <2>2, <2>3 DEF Owner, SyncLabels, OlderLabels, Commit
  <2>10. Local(p)'
    BY <1>0, <1>3, <2>1, <2>2, <2>3, <2>4, <2>6
       DEF Local, BeforeSelect, AfterSelect, ScanSound, InSync, InBackfill, Commit,
           serverVars
  <2> HIDE DEF l
  <2>11. lock' = lock  BY <1>3 DEF Commit
  <2> QED BY <2>1, <2>2, <2>7, <2>8, <2>9, <2>10, <2>11, LockedStep
<1> QED BY <1>1, <1>2, <1>3

\* The pass over the window after the transaction.
LEMMA InductiveFlags ==
    ASSUME Inductive, TypeOK', NEW p \in Procs,
           ListWindow(p) \/ FlagRow(p) \/ FlagsDone(p)
    PROVE  Inductive'
<1> USE ConstantsAssumption DEF ConstantsAssumption
<1>0. TypeOK /\ Owner(p) /\ Local(p) /\ mem[p] \in ProcMem
  BY DEF Inductive, TypeOK
<1>1. CASE ListWindow(p)
  <2> DEFINE todo == {u \in Cached : mem[p].low <= u}
             m == [mem[p] EXCEPT !.todo = todo]
  <2>1. Goto(p, "flags", m) /\ Reading(p) /\ pc[p] = "list"  BY <1>1 DEF ListWindow, At
  <2>2. pc'[p] = "flags" /\ mem'[p] = m  BY <1>0, <2>1, GotoSelf
  <2>3. /\ m.cmd = "sync" /\ m.epoch = mem[p].epoch /\ m.reset = mem[p].reset
        /\ m.known = mem[p].known /\ m.scan = mem[p].scan /\ m.low = mem[p].low
        /\ m.todo = todo /\ mem[p].cmd = "sync"
    BY <1>0, <2>1 DEF Owner, SyncLabels, ProcMem
  <2>4. \A u \in todo : mem[p].low <= u  OBVIOUS
  <2> HIDE DEF todo, m
  <2>5. Owner(p)'
    BY <1>0, <2>1, <2>2, <2>3 DEF Owner, SyncLabels, OlderLabels, Reading
  <2>6. Local(p)'
    BY <1>0, <2>1, <2>2, <2>3, <2>4
       DEF Local, BeforeSelect, AfterSelect, ScanSound, InSync, InBackfill, Reading,
           dbVars, serverVars, Cached
  <2> QED BY <2>1, <2>5, <2>6, ReadingStep
<1>2. CASE FlagRow(p)
  <2>1. PICK u \in mem[p].todo :
          /\ rows' = IF rows[u] = NoRow THEN rows
                     ELSE IF mem[p].scan[u] # "none"
                          THEN [rows EXCEPT ![u].unread = mem[p].scan[u] = "unread"]
                     ELSE IF mem[p].cmd = "sync" /\ ShouldDeleteMissing(p, u)
                          THEN [rows EXCEPT ![u] = NoRow]
                     ELSE rows
          /\ Goto(p, "flags", [mem[p] EXCEPT !.todo = mem[p].todo \ {u}])
    BY <1>2 DEF FlagRow
  <2> DEFINE m == [mem[p] EXCEPT !.todo = mem[p].todo \ {u}]
  <2>2. Goto(p, "flags", m) /\ pc[p] = "flags"  BY <1>2, <2>1 DEF FlagRow, At
  <2>3. pc'[p] = "flags" /\ mem'[p] = m  BY <1>0, <2>2, GotoSelf
  <2>4. /\ m.cmd = "sync" /\ m.epoch = mem[p].epoch /\ m.reset = mem[p].reset
        /\ m.known = mem[p].known /\ m.scan = mem[p].scan /\ m.low = mem[p].low
        /\ m.todo \subseteq mem[p].todo /\ mem[p].cmd = "sync"
    BY <1>0, <2>2 DEF Owner, SyncLabels, ProcMem
  <2>5. RowsShrink
    <3>1. u \in Uids /\ rows \in [Uids -> Row]  BY <1>0 DEF ProcMem, TypeOK
    <3>2. \A v \in Uids : rows'[v] = NoRow \/ rows'[v] = rows[v]
                            \/ (v = u /\ rows[u] # NoRow
                                /\ rows'[u] = [rows[u] EXCEPT
                                                  !.unread = mem[p].scan[u] = "unread"])
      BY <2>1, <3>1
    <3> QED BY <3>1, <3>2 DEF RowsShrink, Row
  <2> HIDE DEF m
  <2>6. Cached' \subseteq Cached /\ \A v \in Cached' : rows'[v].epoch = rows[v].epoch
    BY <2>5 DEF Cached, RowsShrink
  <2>7. Owner(p)'
    BY <1>0, <1>2, <2>2, <2>3, <2>4 DEF Owner, SyncLabels, OlderLabels, FlagRow
  <2>8. Local(p)'
    BY <1>0, <1>2, <2>2, <2>3, <2>4, <2>6
       DEF Local, BeforeSelect, AfterSelect, ScanSound, InSync, InBackfill, FlagRow,
           serverVars
  <2> QED BY <1>2, <2>2, <2>5, <2>7, <2>8, CalmStep DEF FlagRow, serverVars
<1>3. CASE FlagsDone(p)
  <2>1. mem[p].cmd = "sync"  BY <1>0, <1>3 DEF FlagsDone, At, Owner, SyncLabels
  <2>2. Goto(p, "organize", mem[p]) /\ Reading(p)  BY <1>3, <2>1 DEF FlagsDone
  <2>3. pc'[p] = "organize" /\ mem'[p] = mem[p]  BY <1>0, <2>2, GotoSelf
  <2>4. Owner(p)'
    BY <1>0, <2>1, <2>2, <2>3 DEF Owner, SyncLabels, OlderLabels, Reading
  <2>5. ~InSync(p)' /\ ~InBackfill(p)'  BY <2>3 DEF InSync, InBackfill
  <2>6. Local(p)'
    BY <2>3, <2>5 DEF Local, BeforeSelect, AfterSelect, ScanSound
  <2> QED BY <2>2, <2>4, <2>6, ReadingStep
<1> QED BY <1>1, <1>2, <1>3

\* A step that leaves p at a statement where it has nothing to know, adds
\* nothing to the table and takes nothing but messages from the server.
LEMMA QuietStep ==
    ASSUME Inductive, TypeOK', NEW p \in Procs, NEW l, NEW m, Goto(p, l, m),
           srvEpoch' = srvEpoch, uidNext' = uidNext,
           \A u \in Uids : srv'[u] # "none" => srv[u] # "none",
           validity' = validity, RowsShrink, lock' = lock, Owner(p)',
           l \in {"organize", "orgMove", "orgDelete", "min", "older", "local", "finish"}
    PROVE  Inductive'
<1>1. pc'[p] = l  BY GotoSelf DEF Inductive
<1>2. ~InSync(p)' /\ ~InBackfill(p)'  BY <1>1 DEF InSync, InBackfill
<1>3. Local(p)'  BY <1>1, <1>2 DEF Local, BeforeSelect, AfterSelect, ScanSound
<1> QED BY <1>3, CalmStep

LEMMA InductiveOrganize ==
    ASSUME Inductive, TypeOK', NEW p \in Procs,
           PlanMoves(p) \/ OrganizeOnServer(p) \/ OrganizeRow(p)
    PROVE  Inductive'
<1>0. TypeOK /\ Owner(p) /\ mem[p] \in ProcMem
  BY DEF Inductive, TypeOK
<1>1. pc[p] \in {"organize", "orgMove", "orgDelete"}
  BY DEF PlanMoves, OrganizeOnServer, OrganizeRow, At
<1>2. mem[p].cmd = "sync" /\ lock = p  BY <1>0, <1>1 DEF Owner, SyncLabels
<1>3. PICK l \in {"finish", "orgMove", "orgDelete"}, t \in SUBSET Uids :
        Goto(p, l, [mem[p] EXCEPT !.todo = t])
  <2>1. CASE PlanMoves(p)
    <3>1. Matched(p) \in SUBSET Uids  BY DEF Matched, Has
    <3> QED BY <2>1, <3>1 DEF PlanMoves
  <2>2. CASE OrganizeOnServer(p)
    <3>1. PICK u \in mem[p].todo :
            LET rest == mem[p].todo \ {u}
            IN  Goto(p, IF rest = {} THEN "orgDelete" ELSE "orgMove",
                     [mem[p] EXCEPT !.todo = IF rest = {} THEN Matched(p) ELSE rest])
      BY <2>2 DEF OrganizeOnServer
    <3>2. Matched(p) \in SUBSET Uids /\ mem[p].todo \ {u} \in SUBSET Uids
      BY <1>0 DEF Matched, Has, ProcMem
    <3> QED BY <3>1, <3>2
  <2>3. CASE OrganizeRow(p)
    <3>1. PICK u \in mem[p].todo :
            LET rest == mem[p].todo \ {u}
            IN  Goto(p, IF rest = {} THEN "finish" ELSE "orgDelete",
                     [mem[p] EXCEPT !.todo = rest])
      BY <2>3 DEF OrganizeRow
    <3>2. mem[p].todo \ {u} \in SUBSET Uids  BY <1>0 DEF ProcMem
    <3> QED BY <3>1, <3>2
  <2> QED BY <2>1, <2>2, <2>3
<1> DEFINE m == [mem[p] EXCEPT !.todo = t]
<1>4. pc'[p] = l /\ mem'[p] = m  BY <1>0, <1>3, GotoSelf
<1>5. m.cmd = "sync"  BY <1>0, <1>2 DEF ProcMem
<1>6. /\ srvEpoch' = srvEpoch /\ uidNext' = uidNext /\ validity' = validity /\ lock' = lock
      /\ \A u \in Uids : srv'[u] # "none" => srv[u] # "none"
      /\ RowsShrink
  BY <1>0 DEF PlanMoves, OrganizeOnServer, OrganizeRow, Reading, RowsShrink, serverVars,
              dbVars, TypeOK
<1>7. Owner(p)'  BY <1>2, <1>4, <1>5, <1>6 DEF Owner, SyncLabels, OlderLabels
<1> HIDE DEF m
<1> QED BY <1>3, <1>6, <1>7, QuietStep DEF m

LEMMA InductiveOlder == ASSUME Inductive, TypeOK', NEW p \in Procs, OlderStep(p) PROVE Inductive'
<1> USE ConstantsAssumption DEF ConstantsAssumption
<1>0. TypeOK /\ Owner(p) /\ Local(p) /\ mem[p] \in ProcMem
  BY DEF Inductive, TypeOK
<1>1. pc[p] \in {"min", "older", "insert"}
  BY DEF OlderStep, ReadMin, SelectOlder, InsertRow, InsertDone, At
<1>2. mem[p].cmd = "older" /\ lock = p  BY <1>0, <1>1 DEF Owner, OlderLabels
<1>3. CASE ReadMin(p)
  <2>1. PICK k \in 0 .. MaxUid :
          Goto(p, IF k <= 1 THEN "finish" ELSE "older", [mem[p] EXCEPT !.known = k])
    BY <1>3 DEF ReadMin
  <2> DEFINE l == IF k <= 1 THEN "finish" ELSE "older"
             m == [mem[p] EXCEPT !.known = k]
  <2>2. pc'[p] = l /\ mem'[p] = m  BY <1>0, <2>1, GotoSelf
  <2>3. m.cmd = "older"  BY <1>0, <1>2 DEF ProcMem
  <2>4. Owner(p)'
    BY <1>2, <1>3, <2>2, <2>3 DEF Owner, SyncLabels, OlderLabels, ReadMin, Reading
  <2>5. RowsShrink  BY <1>3 DEF ReadMin, Reading, RowsShrink, dbVars
  <2> QED BY <1>3, <2>1, <2>4, <2>5, QuietStep DEF ReadMin, Reading, serverVars, dbVars
<1>4. CASE SelectOlder(p)
  <2> DEFINE m == [mem[p] EXCEPT !.epoch = srvEpoch,
                     !.seen = Newest({u \in Present : u < mem[p].known}, OlderWindow)]
  <2>1. Goto(p, "fetch", m) /\ Reading(p)  BY <1>4 DEF SelectOlder
  <2>2. pc'[p] = "fetch" /\ mem'[p] = m  BY <1>0, <2>1, GotoSelf
  <2>3. m.cmd = "older" /\ m.epoch = srvEpoch  BY <1>0, <1>2 DEF ProcMem
  <2> HIDE DEF m
  <2>4. Owner(p)'
    BY <1>2, <2>1, <2>2, <2>3 DEF Owner, SyncLabels, OlderLabels, Reading
  <2>5. 1 <= srvEpoch /\ validity <= srvEpoch
    BY <1>0 DEF TypeOK, Inductive, Bounded
  <2>6. Local(p)'
    BY <1>0, <2>1, <2>2, <2>3, <2>5
       DEF Local, BeforeSelect, AfterSelect, ScanSound, InSync, InBackfill, Reading,
           dbVars, serverVars, TypeOK
  <2> QED BY <2>1, <2>4, <2>6, ReadingStep
<1>5. CASE InsertRow(p)
  <2>1. PICK u \in mem[p].todo :
          /\ rows' = [rows EXCEPT ![u] = RowOf(p, u)]
          /\ Goto(p, "insert", [mem[p] EXCEPT !.todo = mem[p].todo \ {u}])
    BY <1>5 DEF InsertRow
  <2> DEFINE m == [mem[p] EXCEPT !.todo = mem[p].todo \ {u}]
  <2>2. Goto(p, "insert", m) /\ pc[p] = "insert"  BY <1>5, <2>1 DEF InsertRow, At
  <2>3. pc'[p] = "insert" /\ mem'[p] = m  BY <1>0, <2>2, GotoSelf
  <2>4. /\ m.cmd = "older" /\ m.epoch = mem[p].epoch /\ m.fresh = mem[p].fresh
    BY <1>0, <1>2 DEF ProcMem
  <2>5. /\ 1 <= mem[p].epoch /\ mem[p].epoch <= srvEpoch /\ validity <= mem[p].epoch
        /\ mem[p].epoch = srvEpoch => \A v \in Has(mem[p].fresh) : v < uidNext
    BY <1>0, <1>2, <2>2 DEF Local, AfterSelect, InBackfill
  <2>6. \A v \in Uids : rows'[v] = rows[v] \/ (v = u /\ rows'[v].epoch = mem[p].epoch)
    BY <1>0, <2>1 DEF TypeOK, RowOf
  <2>7. u \in Uids  BY <1>0 DEF ProcMem
  <2>8. u \in Has(mem[p].fresh) /\ m.todo \subseteq Has(m.fresh)
    BY <1>0, <2>2 DEF Local, AfterSelect, ProcMem
  <2> HIDE DEF m
  <2>9. srvEpoch \in Nat /\ validity \in Nat /\ mem[p].epoch \in Nat
    BY <1>0 DEF TypeOK, ProcMem
  <2>10. Bounded'
    BY <1>5, <2>5, <2>6, <2>8, <2>9 DEF InsertRow, Inductive, Bounded, serverVars
  <2>11. RowsTrustworthy'
    BY <1>5, <2>5, <2>6, <2>9
       DEF InsertRow, Inductive, RowsTrustworthy, Cached, serverVars
  <2>12. Owner(p)'
    BY <1>2, <1>5, <2>3, <2>4 DEF Owner, SyncLabels, OlderLabels, InsertRow
  <2>13. Local(p)'
    BY <1>5, <2>3, <2>4, <2>5, <2>8
       DEF Local, BeforeSelect, AfterSelect, ScanSound, InSync, InBackfill, InsertRow,
           serverVars
  <2>14. lock' = lock  BY <1>5 DEF InsertRow
  <2> QED BY <1>2, <2>2, <2>10, <2>11, <2>12, <2>13, <2>14, LockedStep
<1>6. CASE InsertDone(p)
  <2>1. Goto(p, "finish", mem[p]) /\ Reading(p)  BY <1>2, <1>6 DEF InsertDone
  <2>2. pc'[p] = "finish" /\ mem'[p] = mem[p]  BY <1>0, <2>1, GotoSelf
  <2>3. Owner(p)'  BY <1>2, <2>1, <2>2 DEF Owner, SyncLabels, OlderLabels, Reading
  <2>4. RowsShrink  BY <2>1 DEF Reading, RowsShrink, dbVars
  <2> QED BY <2>1, <2>3, <2>4, QuietStep DEF Reading, serverVars, dbVars
<1> QED BY <1>3, <1>4, <1>5, <1>6 DEF OlderStep

\* The row of a message the user moved or marked.
LEMMA InductiveUser == ASSUME Inductive, TypeOK', NEW p \in Procs, UserStep(p) PROVE Inductive'
<1>0. TypeOK /\ Owner(p) /\ mem[p] \in ProcMem
  BY DEF Inductive, TypeOK
<1>1. /\ Goto(p, "finish", mem[p]) /\ pc[p] = "local"
      /\ UNCHANGED <<serverVars, validity, lock>>
  BY DEF UserStep, SetReadRow, MoveRow, At
<1>2. pc'[p] = "finish" /\ mem'[p] = mem[p]  BY <1>0, <1>1, GotoSelf
<1>3. Owner(p)'  BY <1>0, <1>1, <1>2 DEF Owner, SyncLabels, OlderLabels
<1>4. RowsShrink
  <2>1. CASE SetReadRow(p)
    <3>1. PICK u \in mem[p].todo :
            rows' = IF rows[u] = NoRow THEN rows
                    ELSE [rows EXCEPT ![u].unread = mem[p].fresh[u] = "unread"]
      BY <2>1 DEF SetReadRow
    <3>2. u \in Uids /\ rows \in [Uids -> Row]  BY <1>0 DEF ProcMem, TypeOK
    <3>3. \A v \in Uids : rows'[v] = rows[v]
                            \/ (v = u /\ rows[u] # NoRow
                                /\ rows'[u] = [rows[u] EXCEPT
                                                  !.unread = mem[p].fresh[u] = "unread"])
      BY <3>1, <3>2
    <3> QED BY <3>2, <3>3 DEF RowsShrink, Row
  <2>2. CASE MoveRow(p)
    BY <1>0, <2>2 DEF MoveRow, RowsShrink, TypeOK
  <2> QED BY <2>1, <2>2 DEF UserStep
<1> QED BY <1>1, <1>3, <1>4, QuietStep DEF serverVars

LEMMA InductiveNext ==
    ASSUME Inductive, "daily" \notin Commands, [Next]_vars PROVE Inductive'
<1>0. TypeOK /\ TypeOK'  BY NextType DEF Inductive
<1>1. CASE ServerStep  BY <1>1, InductiveServer
<1>2. ASSUME NEW p \in Procs, Start(p) PROVE Inductive'  BY <1>2, InductiveStart
<1>3. ASSUME NEW p \in Procs, SyncStep(p) PROVE Inductive'
  BY <1>0, <1>3, InductiveBeforeSelect, InductiveSelect, InductiveSession, InductiveWrite,
     InductiveFlags, InductiveOrganize DEF SyncStep
<1>4. ASSUME NEW p \in Procs, OlderStep(p) \/ UserStep(p) PROVE Inductive'
  BY <1>0, <1>4, InductiveOlder, InductiveUser
<1>5. ASSUME NEW p \in Procs, Finish(p) \/ SessionLost(p) \/ Abort(p) PROVE Inductive'
  BY <1>0, <1>5, InductiveEnd DEF Finish, SessionLost, Abort
<1>6. ASSUME UNCHANGED vars PROVE Inductive'
  BY <1>0, <1>6
     DEF vars, Inductive, Bounded, RowsTrustworthy, Cached, Owner, Local, BeforeSelect,
         AfterSelect, ScanSound, InSync, InBackfill
<1> QED BY <1>1, <1>2, <1>3, <1>4, <1>5, <1>6 DEF Next, Run

(***************************************************************************)
(* The theorems.  They are about the commands that take the folder's lock  *)
(* and those of the user: the unlocked test flow breaks both.              *)
(***************************************************************************)
THEOREM InductiveInvariant ==
    ASSUME "daily" \notin Commands PROVE Spec => []Inductive
BY InductiveInit, InductiveNext, PTL DEF Spec

\* However the commands interleave and wherever they are cut short, a cache
\* stamped with the server's UIDVALIDITY holds only messages of it.
THEOREM Trustworthy ==
    ASSUME "daily" \notin Commands PROVE Spec => []RowsTrustworthy
<1>1. Inductive => RowsTrustworthy  BY DEF Inductive
<1> QED BY <1>1, InductiveInvariant, PTL

\* A row that the delete detection removes is of a message the server has lost.
LEMMA FlagRowSound ==
    ASSUME Inductive, NEW p \in Procs, NEW u \in Uids, FlagRow(p),
           rows[u] # NoRow, rows'[u] = NoRow
    PROVE  ~(rows[u].epoch = srvEpoch /\ srv[u] # "none")
<1> USE ConstantsAssumption DEF ConstantsAssumption
<1>0. TypeOK /\ Owner(p) /\ Local(p) /\ mem[p] \in ProcMem /\ pc[p] = "flags"
  BY DEF Inductive, TypeOK, FlagRow, At
<1>1. PICK v \in mem[p].todo :
        rows' = IF rows[v] = NoRow THEN rows
                ELSE IF mem[p].scan[v] # "none"
                     THEN [rows EXCEPT ![v].unread = mem[p].scan[v] = "unread"]
                ELSE IF mem[p].cmd = "sync" /\ ShouldDeleteMissing(p, v)
                     THEN [rows EXCEPT ![v] = NoRow]
                ELSE rows
  BY DEF FlagRow
<1>2. /\ \A w \in Cached : rows[w].epoch = mem[p].epoch
      /\ 1 <= mem[p].epoch
      /\ mem[p].epoch = srvEpoch =>
            \A w \in Uids : (/\ mem[p].low <= w /\ w <= mem[p].known
                             /\ mem[p].scan[w] = "none") => srv[w] = "none"
      /\ mem[p].low <= v
  BY <1>0 DEF Local, AfterSelect, ScanSound, InSync, Owner, SyncLabels
<1>3. u \in Cached /\ v \in Uids /\ rows \in [Uids -> Row]
  BY <1>0 DEF Cached, ProcMem, TypeOK
<1>4. rows'[u].epoch = 0  BY DEF NoRow
<1>5. rows[u].epoch # 0  BY <1>2, <1>3
<1>6. u = v /\ mem[p].scan[v] = "none" /\ ShouldDeleteMissing(p, v)
  <2>1. CASE u # v  BY <1>1, <1>3, <2>1
  <2>2. CASE u = v /\ mem[p].scan[v] # "none"
    <3>1. rows'[u] = [rows[u] EXCEPT !.unread = mem[p].scan[v] = "unread"]
      BY <1>1, <1>3, <2>2
    <3>2. rows'[u].epoch = rows[u].epoch  BY <1>3, <3>1 DEF Row
    <3> QED BY <1>4, <1>5, <3>2
  <2> QED BY <1>1, <1>3, <2>1, <2>2
<1>7. v <= mem[p].known  BY <1>6 DEF ShouldDeleteMissing
<1> QED BY <1>2, <1>3, <1>6, <1>7

THEOREM DeletesOnlyLostMail ==
    ASSUME "daily" \notin Commands PROVE Spec => DeleteSound
<1>1. Inductive /\ [Next]_vars => [DeletesOnlyLost]_vars
  BY FlagRowSound DEF DeletesOnlyLost
<1> QED BY <1>1, InductiveInvariant, PTL DEF Spec, DeleteSound

(***************************************************************************)
(* The delete detection beside the flow that takes no lock.  A daily flow  *)
(* in the middle of a sync breaks what the sync knows of the table, but    *)
(* not what it knows of the server: as long as the mailbox is not rebuilt, *)
(* a UID that was given out and is not there will never be there again.    *)
(***************************************************************************)

\* What a command has read of the table and of the server are UIDs given out.
GivenOut(p) ==
    /\ mem[p].known < uidNext
    /\ \A u \in Has(mem[p].fresh) : u < uidNext
    /\ pc[p] = "insert" => mem[p].todo \subseteq Has(mem[p].fresh)

\* What the scan of flags of a sync did not see is gone for good.
ScanHolds(p) ==
    /\ pc[p] = "clear" => mem[p].reset
    /\ pc[p] \in {"scan", "list"} => ~mem[p].reset
    /\ (pc[p] = "flags" /\ mem[p].cmd = "sync") =>
          ~mem[p].reset /\ \A u \in mem[p].todo : mem[p].low <= u
    /\ (pc[p] \in {"stamp", "commit", "list", "flags"} /\ mem[p].cmd = "sync" /\ ~mem[p].reset)
          => \A u \in Uids : (/\ mem[p].low <= u /\ u <= mem[p].known
                              /\ mem[p].scan[u] = "none") => srv[u] = "none"

Lasting ==
    /\ TypeOK
    /\ \A u \in Uids : srv[u] # "none" => u < uidNext
    /\ \A u \in Cached : u < uidNext
    /\ \A p \in Procs : GivenOut(p) /\ ScanHolds(p)

\* No label but these says anything about a process.
TellingLabels == {"insert", "clear", "scan", "list", "flags", "stamp", "commit"}

LEMMA LastingInit == ASSUME Init PROVE Lasting
<1> USE ConstantsAssumption DEF ConstantsAssumption
<1>1. TypeOK  BY InitType
<1>2. \A u \in Uids : srv[u] # "none" => u < uidNext  BY DEF Init, Mailbox
<1>3. Cached = {}  BY DEF Init, Cached
<1>4. ASSUME NEW p \in Procs PROVE GivenOut(p) /\ ScanHolds(p)
  <2>1. pc[p] = "idle" /\ mem[p] = NoMem /\ uidNext \in 1 .. MaxUid + 1  BY DEF Init
  <2>2. Has(mem[p].fresh) = {} /\ mem[p].known = 0  BY <2>1 DEF NoMem, Has, Nothing
  <2> QED BY <2>1, <2>2 DEF GivenOut, ScanHolds
<1> QED BY <1>1, <1>2, <1>3, <1>4 DEF Lasting

\* A process that does not move keeps what it knows, whatever the others do.
LEMMA LastingAround ==
    ASSUME Lasting, NEW q \in Procs, pc'[q] = pc[q], mem'[q] = mem[q],
           uidNext' \in Nat, uidNext <= uidNext',
           \A u \in Uids : srv'[u] # "none" => srv[u] # "none" \/ uidNext <= u
    PROVE  GivenOut(q)' /\ ScanHolds(q)'
<1> USE ConstantsAssumption DEF ConstantsAssumption
<1>0. /\ GivenOut(q) /\ ScanHolds(q) /\ mem[q] \in ProcMem /\ uidNext \in Nat
  BY DEF Lasting, TypeOK
<1>1. mem[q].known \in Nat /\ mem[q].todo \subseteq Uids  BY <1>0 DEF ProcMem
<1>2. GivenOut(q)'
  <2>1. mem'[q].known < uidNext'  BY <1>0, <1>1 DEF GivenOut
  <2>2. \A u \in Has(mem'[q].fresh) : u < uidNext'
    BY <1>0 DEF GivenOut, Has
  <2> QED BY <1>0, <2>1, <2>2 DEF GivenOut, Has
<1>3. ASSUME NEW u \in Uids, u <= mem[q].known, srv[u] = "none" PROVE srv'[u] = "none"
  BY <1>0, <1>1, <1>3 DEF GivenOut
<1>4. ScanHolds(q)'  BY <1>0, <1>3 DEF ScanHolds
<1> QED BY <1>2, <1>4

LEMMA LastingServer ==
    ASSUME Lasting, "newvalidity" \notin Events, ServerStep PROVE Lasting'
<1> USE ConstantsAssumption DEF ConstantsAssumption
<1>0. TypeOK /\ TypeOK' /\ srv \in [Uids -> Flag]  BY ServerStepType DEF Lasting, TypeOK
<1>1. UNCHANGED <<rows, pc, mem>>
  BY DEF ServerStep, Deliver, Expunge, ChangeFlag, NewValidity
<1>2. uidNext \in Nat /\ uidNext' \in Nat  BY <1>0 DEF TypeOK
<1>3. /\ uidNext <= uidNext'
      /\ \A u \in Uids : srv'[u] # "none" => \/ srv[u] # "none"
                                             \/ uidNext <= u /\ u < uidNext'
  <2>1. CASE Deliver  BY <1>0, <1>2, <2>1 DEF Deliver
  <2>2. ASSUME NEW u \in Uids, Expunge(u) \/ ChangeFlag(u)
        PROVE  /\ uidNext' = uidNext
               /\ \A w \in Uids : srv'[w] # "none" => srv[w] # "none"
    BY <1>0, <2>2 DEF Expunge, ChangeFlag
  <2>3. \A n \in 1 .. MaxUid + 1 : ~NewValidity(n)  BY DEF NewValidity
  <2> QED BY <1>2, <2>1, <2>2, <2>3 DEF ServerStep
<1>4. \A u \in Uids : srv'[u] # "none" => u < uidNext'  BY <1>2, <1>3 DEF Lasting
<1>5. \A u \in Cached' : u < uidNext'  BY <1>1, <1>2, <1>3 DEF Lasting, Cached
<1>6. \A q \in Procs : GivenOut(q)' /\ ScanHolds(q)'  BY <1>1, <1>2, <1>3, LastingAround
<1> QED BY <1>0, <1>4, <1>5, <1>6 DEF Lasting

\* A step of a process: only its own knowledge and the new rows need an argument.
LEMMA LastingStep ==
    ASSUME Lasting, TypeOK', NEW p \in Procs, NEW l, NEW m, Goto(p, l, m),
           uidNext' = uidNext, \A u \in Uids : srv'[u] # "none" => srv[u] # "none",
           \A u \in Cached' : u < uidNext,
           GivenOut(p)', ScanHolds(p)'
    PROVE  Lasting'
<1>1. ASSUME NEW q \in Procs PROVE GivenOut(q)' /\ ScanHolds(q)'
  <2>1. CASE q = p  BY <2>1
  <2>2. CASE q # p
    <3>1. pc'[q] = pc[q] /\ mem'[q] = mem[q]  BY <2>2 DEF Goto, Lasting, TypeOK
    <3>2. uidNext' \in Nat /\ uidNext <= uidNext'  BY DEF TypeOK
    <3> QED BY <3>1, <3>2, LastingAround
  <2> QED BY <2>1, <2>2
<1> QED BY <1>1 DEF Lasting

\* A step to a label that says nothing, with UIDs that were given out.
LEMMA LastingRest ==
    ASSUME Lasting, TypeOK', NEW p \in Procs, NEW l, NEW m, Goto(p, l, m),
           l \notin TellingLabels,
           m.known < uidNext, \A u \in Has(m.fresh) : u < uidNext,
           uidNext' = uidNext, \A u \in Uids : srv'[u] # "none" => srv[u] # "none",
           \A u \in Uids : rows'[u] # NoRow => rows[u] # NoRow
    PROVE  Lasting'
<1>1. pc'[p] = l /\ mem'[p] = m  BY GotoSelf DEF Lasting
<1>2. GivenOut(p)' /\ ScanHolds(p)'  BY <1>1 DEF GivenOut, ScanHolds, TellingLabels, Has
<1>3. \A u \in Cached' : u < uidNext  BY DEF Cached, Lasting
<1> QED BY <1>2, <1>3, LastingStep

\* The same for a step that only reads.
LEMMA LastingReading ==
    ASSUME Lasting, TypeOK', NEW p \in Procs, NEW l, NEW m, Goto(p, l, m), Reading(p),
           GivenOut(p)', ScanHolds(p)'
    PROVE  Lasting'
<1>1. uidNext' = uidNext /\ srv' = srv /\ Cached' = Cached
  BY DEF Reading, serverVars, dbVars, Cached
<1> QED BY <1>1, LastingStep DEF Lasting

LEMMA LastingEnd ==
    ASSUME Lasting, TypeOK', NEW p \in Procs, Finish(p) \/ SessionLost(p) \/ Abort(p)
    PROVE  Lasting'
<1>1. Goto(p, "idle", NoMem) /\ UNCHANGED <<srv, uidNext, rows>>
  BY DEF Finish, SessionLost, Abort, End, serverVars, dbVars
<1>2. NoMem.known = 0 /\ Has(NoMem.fresh) = {}  BY DEF NoMem, Nothing, Has
<1>3. 0 < uidNext  BY DEF Lasting, TypeOK
<1> QED BY <1>1, <1>2, <1>3, LastingRest DEF TellingLabels

LEMMA LastingStart ==
    ASSUME Lasting, TypeOK', NEW p \in Procs, Start(p) PROVE Lasting'
<1> USE ConstantsAssumption DEF ConstantsAssumption
<1>0. TypeOK /\ 0 < uidNext /\ NoMem.known = 0 /\ NoMem.fresh = Nothing
  BY DEF Lasting, TypeOK, NoMem
<1>1. Has(Nothing) = {}  BY DEF Has, Nothing
<1>2. ASSUME NEW cmd, Acquire(p, cmd), cmd \in {"sync", "older"} PROVE Lasting'
  <2> DEFINE m == [NoMem EXCEPT !.cmd = cmd]
             l == IF cmd = "sync" THEN "validity" ELSE "min"
  <2>1. Goto(p, l, m) /\ UNCHANGED <<srv, uidNext, rows>>
    BY <1>2 DEF Acquire, serverVars, dbVars
  <2>2. m.known = 0 /\ m.fresh = Nothing  BY DEF NoMem
  <2>3. l \notin TellingLabels  BY DEF TellingLabels
  <2> HIDE DEF m, l
  <2> QED BY <1>0, <1>1, <2>1, <2>2, <2>3, LastingRest
<1>3. CASE StartDaily(p)
  <2> DEFINE m == [NoMem EXCEPT !.cmd = "daily"]
  <2>1. Goto(p, "validity", m) /\ UNCHANGED <<srv, uidNext, rows>>
    BY <1>3 DEF StartDaily, serverVars, dbVars
  <2>2. m.known = 0 /\ m.fresh = Nothing  BY DEF NoMem
  <2> HIDE DEF m
  <2> QED BY <1>0, <1>1, <2>1, <2>2, LastingRest DEF TellingLabels
<1>4. ASSUME NEW u \in Uids, MoveOnServer(p, u) PROVE Lasting'
  <2> DEFINE m == [NoMem EXCEPT !.cmd = "move", !.todo = {u}]
  <2>1. Goto(p, "local", m) /\ UNCHANGED <<uidNext, rows>>
    BY <1>4 DEF MoveOnServer, dbVars
  <2>2. m.known = 0 /\ m.fresh = Nothing  BY DEF NoMem
  <2>3. \A w \in Uids : srv'[w] # "none" => srv[w] # "none"
    BY <1>0, <1>4 DEF MoveOnServer, TypeOK
  <2> HIDE DEF m
  <2> QED BY <1>0, <1>1, <2>1, <2>2, <2>3, LastingRest DEF TellingLabels
<1>5. ASSUME NEW u \in Uids, NEW flag \in {"read", "unread"}, SetReadOnServer(p, u, flag)
      PROVE  Lasting'
  <2> DEFINE f == [Nothing EXCEPT ![u] = flag]
             m == [NoMem EXCEPT !.cmd = "read", !.todo = {u}, !.fresh = f]
  <2>1. Goto(p, "local", m) /\ UNCHANGED <<uidNext, rows>> /\ u \in Cached
    BY <1>5 DEF SetReadOnServer, dbVars
  <2>2. m.known = 0 /\ m.fresh = f  BY DEF NoMem
  <2>3. \A w \in Has(f) : w = u  BY DEF Has, Nothing
  <2>4. \A w \in Uids : srv'[w] # "none" => srv[w] # "none"
    BY <1>0, <1>5 DEF SetReadOnServer, TypeOK
  <2>5. u < uidNext  BY <2>1 DEF Lasting
  <2> HIDE DEF m, f
  <2> QED BY <1>0, <2>1, <2>2, <2>3, <2>4, <2>5, LastingRest DEF TellingLabels
<1> QED BY <1>2, <1>3, <1>4, <1>5 DEF Start

\* Steps that leave the memory and the label as telling as they were are the rest.
LEMMA LastingFacts ==
    ASSUME Lasting, NEW p \in Procs
    PROVE  /\ TypeOK /\ GivenOut(p) /\ ScanHolds(p) /\ mem[p] \in ProcMem
           /\ mem[p].known < uidNext /\ \A u \in Has(mem[p].fresh) : u < uidNext
BY DEF Lasting, TypeOK, GivenOut

LEMMA LastingBeforeFetch ==
    ASSUME Lasting, TypeOK', NEW p \in Procs,
           ReadValidity(p) \/ ReadMax(p) \/ ReadLow(p) \/ Select(p) \/ Search(p)
    PROVE  Lasting'
<1> USE ConstantsAssumption DEF ConstantsAssumption
<1>0. /\ GivenOut(p) /\ mem[p] \in ProcMem /\ TypeOK /\ 0 < uidNext
      /\ mem[p].known < uidNext /\ \A u \in Has(mem[p].fresh) : u < uidNext
  BY LastingFacts DEF TypeOK
<1>1. Reading(p) /\ UNCHANGED <<srv, uidNext, rows>>
  BY DEF ReadValidity, ReadMax, ReadLow, Select, Search, Reading, serverVars, dbVars
<1>2. CASE ReadValidity(p)
  <2> DEFINE m == [mem[p] EXCEPT !.stored = validity]
  <2>1. Goto(p, "max", m)  BY <1>2 DEF ReadValidity
  <2>2. m.known = mem[p].known /\ m.fresh = mem[p].fresh  BY <1>0 DEF ProcMem
  <2> HIDE DEF m
  <2> QED BY <1>0, <1>1, <2>1, <2>2, LastingRest DEF TellingLabels
<1>3. CASE ReadMax(p)
  <2>1. PICK k \in 0 .. MaxUid : /\ k = 0 \/ k \in Cached
                                 /\ Goto(p, "low", [mem[p] EXCEPT !.known = k])
    BY <1>3 DEF ReadMax, IsHighest
  <2> DEFINE m == [mem[p] EXCEPT !.known = k]
  <2>2. m.known = k /\ m.fresh = mem[p].fresh  BY <1>0 DEF ProcMem
  <2>3. k < uidNext  BY <1>0, <2>1 DEF Lasting
  <2>4. Goto(p, "low", m)  BY <2>1
  <2> HIDE DEF m
  <2> QED BY <1>0, <1>1, <2>2, <2>3, <2>4, LastingRest DEF TellingLabels
<1>4. CASE ReadLow(p)
  <2>1. PICK k \in 1 .. MaxUid + 1 : Goto(p, "select", [mem[p] EXCEPT !.low = k])
    BY <1>4 DEF ReadLow
  <2> DEFINE m == [mem[p] EXCEPT !.low = k]
  <2>2. m.known = mem[p].known /\ m.fresh = mem[p].fresh  BY <1>0 DEF ProcMem
  <2>3. Goto(p, "select", m)  BY <2>1
  <2> HIDE DEF m
  <2> QED BY <1>0, <1>1, <2>2, <2>3, LastingRest DEF TellingLabels
<1>5. CASE Select(p)
  <2> DEFINE seen == IF NeedsReset(p) THEN Newest(Present, InitialWindow) ELSE {}
             l == IF NeedsReset(p) THEN "fetch" ELSE "search"
             m == [mem[p] EXCEPT !.epoch = srvEpoch, !.reset = NeedsReset(p), !.seen = seen]
  <2>1. Goto(p, l, m)  BY <1>5 DEF Select
  <2>2. m.known = mem[p].known /\ m.fresh = mem[p].fresh  BY <1>0 DEF ProcMem
  <2>3. l \notin TellingLabels  BY DEF TellingLabels
  <2> HIDE DEF m, l
  <2> QED BY <1>0, <1>1, <2>1, <2>2, <2>3, LastingRest
<1>6. CASE Search(p)
  <2> DEFINE hits == {u \in Present : u > mem[p].known} \cup Newest(Present, 1)
             seen == {u \in hits : u > mem[p].known}
             m == [mem[p] EXCEPT !.seen = seen]
  <2>1. Goto(p, "fetch", m)  BY <1>6 DEF Search
  <2> HIDE DEF seen
  <2>2. m.known = mem[p].known /\ m.fresh = mem[p].fresh  BY <1>0 DEF ProcMem
  <2> HIDE DEF m
  <2> QED BY <1>0, <1>1, <2>1, <2>2, LastingRest DEF TellingLabels
<1> QED BY <1>2, <1>3, <1>4, <1>5, <1>6

\* What a FETCH brings are UIDs given out.
LEMMA FetchedGiven ==
    ASSUME Lasting, NEW S \in SUBSET Uids, NEW u \in Has(Fetched(S))
    PROVE  u < uidNext
BY DEF Lasting, Has, Fetched

LEMMA LastingFetch == ASSUME Lasting, TypeOK', NEW p \in Procs, Fetch(p) PROVE Lasting'
<1>0. /\ mem[p] \in ProcMem /\ TypeOK /\ mem[p].known < uidNext
  BY LastingFacts
<1> DEFINE got == Fetched(mem[p].seen)
           l == IF mem[p].cmd = "older" THEN "insert"
                ELSE IF mem[p].reset THEN "clear" ELSE "scan"
           todo == IF mem[p].cmd = "older" THEN Has(got) ELSE {}
           m == [mem[p] EXCEPT !.fresh = got, !.todo = todo]
<1>1. Goto(p, l, m) /\ Reading(p) /\ uidNext' = uidNext
  BY DEF Fetch, Reading, serverVars
<1>2. \A u \in Has(got) : u < uidNext  BY <1>0, FetchedGiven DEF ProcMem
<1>3. l = "insert" => todo = Has(got)  OBVIOUS
<1>4. /\ l \in {"insert", "clear", "scan"}
      /\ l = "clear" => mem[p].reset
      /\ l = "scan" => ~mem[p].reset
  OBVIOUS
<1> HIDE DEF got, todo, l
<1>5. m.known = mem[p].known /\ m.fresh = got /\ m.todo = todo /\ m.reset = mem[p].reset
  BY <1>0 DEF ProcMem
<1> HIDE DEF m
<1>6. pc'[p] = l /\ mem'[p] = m  BY <1>0, <1>1, GotoSelf
<1>7. GivenOut(p)'  BY <1>0, <1>1, <1>2, <1>3, <1>5, <1>6 DEF GivenOut, Has
<1>8. ScanHolds(p)'  BY <1>4, <1>5, <1>6 DEF ScanHolds
<1> QED BY <1>1, <1>7, <1>8, LastingReading

LEMMA LastingScan == ASSUME Lasting, TypeOK', NEW p \in Procs, Scan(p) PROVE Lasting'
<1>0. /\ mem[p] \in ProcMem /\ TypeOK /\ GivenOut(p) /\ At(p, "scan")
  BY LastingFacts DEF Scan
<1> DEFINE scan == Fetched({u \in Present : mem[p].low <= u} \cup Newest(Present, 1))
           m == [mem[p] EXCEPT !.scan = scan]
<1>1. Goto(p, "stamp", m) /\ Reading(p) /\ UNCHANGED <<uidNext, srv>>
  BY DEF Scan, Reading, serverVars
<1>2. \A u \in Uids : (mem[p].low <= u /\ scan[u] = "none") => srv[u] = "none"
  BY DEF Fetched, Present
<1> HIDE DEF scan
<1>3. m.known = mem[p].known /\ m.fresh = mem[p].fresh /\ m.low = mem[p].low /\ m.scan = scan
  BY <1>0 DEF ProcMem
<1> HIDE DEF m
<1>4. pc'[p] = "stamp" /\ mem'[p] = m  BY <1>0, <1>1, GotoSelf
<1>5. GivenOut(p)'  BY <1>0, <1>1, <1>3, <1>4 DEF GivenOut, Has
<1>6. ScanHolds(p)'  BY <1>1, <1>2, <1>3, <1>4 DEF ScanHolds
<1> QED BY <1>1, <1>5, <1>6, LastingReading

LEMMA LastingWrite ==
    ASSUME Lasting, TypeOK', NEW p \in Procs,
           ClearFolder(p) \/ SetValidity(p) \/ Commit(p)
    PROVE  Lasting'
<1>0. /\ mem[p] \in ProcMem /\ TypeOK /\ GivenOut(p) /\ ScanHolds(p)
      /\ \A u \in Has(mem[p].fresh) : u < uidNext
  BY LastingFacts
<1>1. UNCHANGED <<srv, uidNext>>  BY DEF ClearFolder, SetValidity, Commit, serverVars
<1>2. CASE ClearFolder(p)
  <2>1. /\ Goto(p, "stamp", mem[p]) /\ At(p, "clear") /\ Cached' = {}
    BY <1>2 DEF ClearFolder, Cached
  <2>2. pc'[p] = "stamp" /\ mem'[p] = mem[p]  BY <1>0, <2>1, GotoSelf
  <2>3. GivenOut(p)' /\ ScanHolds(p)'
    BY <1>0, <1>1, <2>1, <2>2 DEF GivenOut, ScanHolds, Has, At
  <2> QED BY <1>1, <2>1, <2>3, LastingStep
<1>3. CASE SetValidity(p) /\ mem[p].cmd = "daily"
  <2> DEFINE m == [mem[p] EXCEPT !.todo = Has(mem[p].fresh)]
  <2>1. Goto(p, "insert", m) /\ Cached' = Cached  BY <1>3 DEF SetValidity, Cached
  <2>2. m.known = mem[p].known /\ m.fresh = mem[p].fresh /\ m.todo = Has(mem[p].fresh)
    BY <1>0 DEF ProcMem
  <2> HIDE DEF m
  <2>3. pc'[p] = "insert" /\ mem'[p] = m  BY <1>0, <2>1, GotoSelf
  <2>4. GivenOut(p)' /\ ScanHolds(p)'
    BY <1>0, <1>1, <2>2, <2>3 DEF GivenOut, ScanHolds, Has
  <2> QED BY <1>1, <2>1, <2>4, LastingStep DEF Lasting
<1>4. CASE SetValidity(p) /\ mem[p].cmd # "daily"
  <2>1. Goto(p, "commit", mem[p]) /\ At(p, "stamp") /\ Cached' = Cached
    BY <1>4 DEF SetValidity, Cached
  <2>2. pc'[p] = "commit" /\ mem'[p] = mem[p]  BY <1>0, <2>1, GotoSelf
  <2>3. GivenOut(p)' /\ ScanHolds(p)'
    BY <1>0, <1>1, <2>1, <2>2 DEF GivenOut, ScanHolds, Has, At
  <2> QED BY <1>1, <2>1, <2>3, LastingStep DEF Lasting
<1>5. CASE Commit(p)
  <2> DEFINE l == IF mem[p].reset THEN "organize" ELSE "list"
  <2>1. Goto(p, l, mem[p]) /\ At(p, "commit")  BY <1>5 DEF Commit
  <2>2. pc'[p] = l /\ mem'[p] = mem[p]  BY <1>0, <2>1, GotoSelf
  <2>3. GivenOut(p)' /\ ScanHolds(p)'
    BY <1>0, <1>1, <2>1, <2>2 DEF GivenOut, ScanHolds, Has, At
  <2>4. \A u \in Cached' : u < uidNext
    BY <1>0, <1>5 DEF Commit, Cached, Lasting
  <2> HIDE DEF l
  <2> QED BY <1>1, <2>1, <2>3, <2>4, LastingStep
<1> QED BY <1>2, <1>3, <1>4, <1>5

LEMMA LastingFlags ==
    ASSUME Lasting, TypeOK', NEW p \in Procs,
           ListWindow(p) \/ FlagRow(p) \/ FlagsDone(p)
    PROVE  Lasting'
<1>0. /\ mem[p] \in ProcMem /\ TypeOK /\ GivenOut(p) /\ ScanHolds(p)
      /\ mem[p].known < uidNext /\ \A u \in Has(mem[p].fresh) : u < uidNext
  BY LastingFacts
<1>1. UNCHANGED <<srv, uidNext>>
  BY DEF ListWindow, FlagRow, FlagsDone, Reading, serverVars
<1>2. CASE ListWindow(p)
  <2> DEFINE todo == {u \in Cached : mem[p].low <= u}
             m == [mem[p] EXCEPT !.todo = todo]
  <2>1. Goto(p, "flags", m) /\ Reading(p) /\ At(p, "list")  BY <1>2 DEF ListWindow
  <2>2. \A u \in todo : mem[p].low <= u  OBVIOUS
  <2> HIDE DEF todo
  <2>3. /\ m.known = mem[p].known /\ m.fresh = mem[p].fresh /\ m.low = mem[p].low
        /\ m.scan = mem[p].scan /\ m.reset = mem[p].reset /\ m.cmd = mem[p].cmd
        /\ m.todo = todo
    BY <1>0 DEF ProcMem
  <2> HIDE DEF m
  <2>4. pc'[p] = "flags" /\ mem'[p] = m  BY <1>0, <2>1, GotoSelf
  <2>5. GivenOut(p)'  BY <1>0, <1>1, <2>3, <2>4 DEF GivenOut, Has
  <2>6. ScanHolds(p)'  BY <1>0, <1>1, <2>1, <2>2, <2>3, <2>4 DEF ScanHolds, At
  <2> QED BY <2>1, <2>5, <2>6, LastingReading
<1>3. CASE FlagRow(p)
  <2>1. PICK v \in mem[p].todo : FlagRow(p)!2!(v)  BY <1>3 DEF FlagRow
  <2> DEFINE m == [mem[p] EXCEPT !.todo = mem[p].todo \ {v}]
  <2>2. Goto(p, "flags", m) /\ At(p, "flags")  BY <1>3, <2>1 DEF FlagRow
  <2>3. /\ m.known = mem[p].known /\ m.fresh = mem[p].fresh /\ m.low = mem[p].low
        /\ m.scan = mem[p].scan /\ m.reset = mem[p].reset /\ m.cmd = mem[p].cmd
        /\ m.todo = mem[p].todo \ {v}
    BY <1>0 DEF ProcMem
  <2> HIDE DEF m
  <2>4. pc'[p] = "flags" /\ mem'[p] = m  BY <1>0, <2>2, GotoSelf
  <2>5. GivenOut(p)'  BY <1>0, <1>1, <2>3, <2>4 DEF GivenOut, Has
  <2>6. ScanHolds(p)'  BY <1>0, <1>1, <2>2, <2>3, <2>4 DEF ScanHolds, At
  <2>7. \A u \in Uids : rows'[u] # NoRow => rows[u] # NoRow
    <3>1. rows \in [Uids -> Row]  BY <1>0 DEF TypeOK
    <3> QED BY <2>1, <3>1
  <2>8. \A u \in Cached' : u < uidNext  BY <2>7 DEF Cached, Lasting
  <2> QED BY <1>1, <2>2, <2>5, <2>6, <2>8, LastingStep
<1>4. CASE FlagsDone(p)
  <2> DEFINE l == IF mem[p].cmd = "sync" THEN "organize" ELSE "finish"
  <2>1. Goto(p, l, mem[p]) /\ rows' = rows  BY <1>4 DEF FlagsDone, Reading, dbVars
  <2>2. l \notin TellingLabels  BY DEF TellingLabels
  <2> HIDE DEF l
  <2> QED BY <1>0, <1>1, <2>1, <2>2, LastingRest
<1> QED BY <1>2, <1>3, <1>4

LEMMA LastingOrganize ==
    ASSUME Lasting, TypeOK', NEW p \in Procs,
           PlanMoves(p) \/ OrganizeOnServer(p) \/ OrganizeRow(p)
    PROVE  Lasting'
<1>0. /\ mem[p] \in ProcMem /\ TypeOK
      /\ mem[p].known < uidNext /\ \A u \in Has(mem[p].fresh) : u < uidNext
  BY LastingFacts
<1> DEFINE Going(l, todo) == /\ l \in {"finish", "orgMove", "orgDelete"}
                             /\ Goto(p, l, [mem[p] EXCEPT !.todo = todo])
<1>1. \E l, todo : Going(l, todo)
  <2>1. CASE PlanMoves(p)
    <3> DEFINE l == IF Matched(p) = {} THEN "finish" ELSE "orgMove"
    <3>1. Going(l, Matched(p))  BY <2>1 DEF PlanMoves
    <3> HIDE DEF Going, l
    <3> QED BY <3>1
  <2>2. CASE OrganizeOnServer(p)
    <3>1. PICK u \in mem[p].todo : OrganizeOnServer(p)!2!(u)  BY <2>2 DEF OrganizeOnServer
    <3> DEFINE rest == mem[p].todo \ {u}
               l == IF rest = {} THEN "orgDelete" ELSE "orgMove"
               todo == IF rest = {} THEN Matched(p) ELSE rest
    <3>2. Going(l, todo)  BY <3>1
    <3> HIDE DEF Going, l, todo
    <3> QED BY <3>2
  <2>3. CASE OrganizeRow(p)
    <3>1. PICK u \in mem[p].todo : OrganizeRow(p)!2!(u)  BY <2>3 DEF OrganizeRow
    <3> DEFINE rest == mem[p].todo \ {u}
               l == IF rest = {} THEN "finish" ELSE "orgDelete"
    <3>2. Going(l, rest)  BY <3>1
    <3> HIDE DEF Going, l, rest
    <3> QED BY <3>2
  <2> QED BY <2>1, <2>2, <2>3
<1> PICK l, todo : Going(l, todo)  BY <1>1
<1> DEFINE m == [mem[p] EXCEPT !.todo = todo]
<1>2. m.known = mem[p].known /\ m.fresh = mem[p].fresh  BY <1>0 DEF ProcMem
<1>3. Goto(p, l, m) /\ l \notin TellingLabels  BY DEF TellingLabels
<1> HIDE DEF m
<1>4. uidNext' = uidNext
  BY DEF PlanMoves, OrganizeOnServer, OrganizeRow, Reading, serverVars
<1>5. \A u \in Uids : srv'[u] # "none" => srv[u] # "none"
  <2>1. srv \in [Uids -> Flag]  BY <1>0 DEF TypeOK
  <2> QED BY <2>1 DEF PlanMoves, OrganizeOnServer, OrganizeRow, Reading, serverVars
<1>6. \A u \in Uids : rows'[u] # NoRow => rows[u] # NoRow
  <2>1. rows \in [Uids -> Row]  BY <1>0 DEF TypeOK
  <2> QED BY <2>1 DEF PlanMoves, OrganizeOnServer, OrganizeRow, Reading, dbVars
<1> QED BY <1>0, <1>2, <1>3, <1>4, <1>5, <1>6, LastingRest

LEMMA LastingOlder == ASSUME Lasting, TypeOK', NEW p \in Procs, OlderStep(p) PROVE Lasting'
<1> USE ConstantsAssumption DEF ConstantsAssumption
<1>0. /\ mem[p] \in ProcMem /\ TypeOK /\ GivenOut(p) /\ 0 < uidNext
      /\ mem[p].known < uidNext /\ \A u \in Has(mem[p].fresh) : u < uidNext
  BY LastingFacts DEF TypeOK
<1>1. UNCHANGED <<srv, uidNext>>
  BY DEF OlderStep, ReadMin, SelectOlder, InsertRow, InsertDone, Reading, serverVars
<1>2. CASE ReadMin(p)
  <2>1. PICK k \in 0 .. MaxUid :
          /\ k = 0 \/ k \in Cached
          /\ Goto(p, IF k <= 1 THEN "finish" ELSE "older", [mem[p] EXCEPT !.known = k])
    BY <1>2 DEF ReadMin, IsLowest
  <2> DEFINE m == [mem[p] EXCEPT !.known = k]
             l == IF k <= 1 THEN "finish" ELSE "older"
  <2>2. m.known = k /\ m.fresh = mem[p].fresh  BY <1>0 DEF ProcMem
  <2>3. k < uidNext  BY <1>0, <2>1 DEF Lasting
  <2>4. Goto(p, l, m) /\ l \notin TellingLabels  BY <2>1 DEF TellingLabels
  <2>5. rows' = rows  BY <1>2 DEF ReadMin, Reading, dbVars
  <2> HIDE DEF m, l
  <2> QED BY <1>0, <1>1, <2>2, <2>3, <2>4, <2>5, LastingRest
<1>3. CASE SelectOlder(p)
  <2> DEFINE seen == Newest({u \in Present : u < mem[p].known}, OlderWindow)
             m == [mem[p] EXCEPT !.epoch = srvEpoch, !.seen = seen]
  <2>1. Goto(p, "fetch", m) /\ rows' = rows  BY <1>3 DEF SelectOlder, Reading, dbVars
  <2> HIDE DEF seen
  <2>2. m.known = mem[p].known /\ m.fresh = mem[p].fresh  BY <1>0 DEF ProcMem
  <2> HIDE DEF m
  <2> QED BY <1>0, <1>1, <2>1, <2>2, LastingRest DEF TellingLabels
<1>4. CASE InsertRow(p)
  <2>1. PICK v \in mem[p].todo :
          /\ rows' = [rows EXCEPT ![v] = RowOf(p, v)]
          /\ Goto(p, "insert", [mem[p] EXCEPT !.todo = mem[p].todo \ {v}])
    BY <1>4 DEF InsertRow
  <2> DEFINE m == [mem[p] EXCEPT !.todo = mem[p].todo \ {v}]
  <2>2. /\ m.known = mem[p].known /\ m.fresh = mem[p].fresh /\ m.todo = mem[p].todo \ {v}
    BY <1>0 DEF ProcMem
  <2>3. Goto(p, "insert", m) /\ At(p, "insert")  BY <1>4, <2>1 DEF InsertRow
  <2> HIDE DEF m
  <2>4. pc'[p] = "insert" /\ mem'[p] = m  BY <1>0, <2>3, GotoSelf
  <2>5. GivenOut(p)'  BY <1>0, <1>1, <2>2, <2>3, <2>4 DEF GivenOut, Has, At
  <2>6. ScanHolds(p)'  BY <2>4 DEF ScanHolds
  <2>7. v < uidNext  BY <1>0, <2>3 DEF GivenOut, At
  <2>8. \A u \in Cached' : u = v \/ u \in Cached
    BY <1>0, <2>1 DEF Cached, TypeOK
  <2> QED BY <1>1, <2>3, <2>5, <2>6, <2>7, <2>8, LastingStep DEF Lasting
<1>5. CASE InsertDone(p)
  <2> DEFINE m == IF mem[p].cmd = "daily" THEN [mem[p] EXCEPT !.todo = Has(mem[p].scan)]
                  ELSE mem[p]
             l == IF mem[p].cmd = "daily" THEN "flags" ELSE "finish"
  <2>1. Goto(p, l, m) /\ Reading(p)  BY <1>5 DEF InsertDone
  <2>2. m.known = mem[p].known /\ m.fresh = mem[p].fresh /\ m.cmd = mem[p].cmd
    BY <1>0 DEF ProcMem
  <2>3. l \in {"flags", "finish"} /\ (l = "flags" => mem[p].cmd = "daily")  OBVIOUS
  <2> HIDE DEF m, l
  <2>4. pc'[p] = l /\ mem'[p] = m  BY <1>0, <2>1, GotoSelf
  <2>5. GivenOut(p)'  BY <1>0, <1>1, <2>2, <2>3, <2>4 DEF GivenOut, Has
  <2>6. ScanHolds(p)'  BY <2>2, <2>3, <2>4 DEF ScanHolds
  <2> QED BY <2>1, <2>5, <2>6, LastingReading
<1> QED BY <1>2, <1>3, <1>4, <1>5 DEF OlderStep

LEMMA LastingUser == ASSUME Lasting, TypeOK', NEW p \in Procs, UserStep(p) PROVE Lasting'
<1>0. /\ TypeOK /\ rows \in [Uids -> Row]
      /\ mem[p].known < uidNext /\ \A u \in Has(mem[p].fresh) : u < uidNext
  BY LastingFacts DEF TypeOK
<1>1. Goto(p, "finish", mem[p]) /\ UNCHANGED <<srv, uidNext>>
  BY DEF UserStep, SetReadRow, MoveRow, serverVars
<1>2. \A u \in Uids : rows'[u] # NoRow => rows[u] # NoRow
  BY <1>0 DEF UserStep, SetReadRow, MoveRow
<1> QED BY <1>0, <1>1, <1>2, LastingRest DEF TellingLabels

LEMMA LastingNext ==
    ASSUME Lasting, "newvalidity" \notin Events, [Next]_vars PROVE Lasting'
<1>0. TypeOK'  BY NextType DEF Lasting
<1>1. CASE ServerStep  BY <1>1, LastingServer
<1>2. ASSUME NEW p \in Procs, Start(p) PROVE Lasting'  BY <1>0, <1>2, LastingStart
<1>3. ASSUME NEW p \in Procs, SyncStep(p) PROVE Lasting'
  BY <1>0, <1>3, LastingBeforeFetch, LastingFetch, LastingScan, LastingWrite, LastingFlags,
     LastingOrganize DEF SyncStep
<1>4. ASSUME NEW p \in Procs, OlderStep(p) \/ UserStep(p) PROVE Lasting'
  BY <1>0, <1>4, LastingOlder, LastingUser
<1>5. ASSUME NEW p \in Procs, Finish(p) \/ SessionLost(p) \/ Abort(p) PROVE Lasting'
  BY <1>0, <1>5, LastingEnd
<1>6. CASE UNCHANGED vars
  BY <1>0, <1>6 DEF vars, Lasting, Cached, GivenOut, ScanHolds, Has
<1> QED BY <1>1, <1>2, <1>3, <1>4, <1>5, <1>6 DEF Next, Run

\* A row that the delete detection removes is of a message the server has lost.
LEMMA LastingFlagRow ==
    ASSUME Lasting, NEW p \in Procs, NEW u \in Uids, FlagRow(p),
           rows[u] # NoRow, rows'[u] = NoRow, rows[u].epoch # 0
    PROVE  srv[u] = "none"
<1>0. /\ mem[p] \in ProcMem /\ ScanHolds(p) /\ pc[p] = "flags" /\ rows \in [Uids -> Row]
  BY LastingFacts DEF FlagRow, At, TypeOK
<1>1. PICK v \in mem[p].todo :
        rows' = IF rows[v] = NoRow THEN rows
                ELSE IF mem[p].scan[v] # "none"
                     THEN [rows EXCEPT ![v].unread = mem[p].scan[v] = "unread"]
                ELSE IF mem[p].cmd = "sync" /\ ShouldDeleteMissing(p, v)
                     THEN [rows EXCEPT ![v] = NoRow]
                ELSE rows
  BY DEF FlagRow
<1>2. v \in Uids  BY <1>0 DEF ProcMem
<1>3. u = v /\ mem[p].scan[v] = "none" /\ mem[p].cmd = "sync" /\ ShouldDeleteMissing(p, v)
  <2>1. CASE u # v  BY <1>0, <1>1, <1>2, <2>1
  <2>2. CASE u = v /\ mem[p].scan[v] # "none"
    <3>1. rows'[u] = [rows[u] EXCEPT !.unread = mem[p].scan[v] = "unread"]
      BY <1>0, <1>1, <1>2, <2>2
    <3>2. rows'[u].epoch = rows[u].epoch  BY <1>0, <3>1 DEF Row
    <3> QED BY <3>2 DEF NoRow
  <2> QED BY <1>1, <2>1, <2>2
<1>4. mem[p].low <= u /\ u <= mem[p].known /\ mem[p].scan[u] = "none"
  BY <1>0, <1>3 DEF ScanHolds, ShouldDeleteMissing
<1> QED BY <1>0, <1>3, <1>4 DEF ScanHolds

\* While the mailbox keeps its UIDVALIDITY, the delete detection removes only
\* lost mail beside the daily flow too, which changes the table under it.
THEOREM DeletesOnlyLostMailBesideDaily ==
    ASSUME "newvalidity" \notin Events PROVE Spec => DeleteSound
<1>1. Init => Lasting  BY LastingInit
<1>2. Lasting /\ [Next]_vars => Lasting'  BY LastingNext
<1>3. Lasting /\ [Next]_vars => [DeletesOnlyLost]_vars
  <2> SUFFICES ASSUME Lasting, NEW p \in Procs, NEW u \in Uids, FlagRow(p),
                      rows[u] # NoRow, rows'[u] = NoRow, rows[u].epoch = srvEpoch
               PROVE  srv[u] = "none"
    BY DEF DeletesOnlyLost
  <2>1. rows[u].epoch # 0  BY ConstantsAssumption DEF Lasting, TypeOK, ConstantsAssumption
  <2> QED BY <2>1, LastingFlagRow
<1> QED BY <1>1, <1>2, <1>3, PTL DEF Spec, DeleteSound

(***************************************************************************)
(* The contract.  What a command does to the cache is allowed by MailCache *)
(* for reasons that reach back some steps: the batch of a backfill meets   *)
(* no row because it lies below the lowest one read before, a folder is    *)
(* cleared because its stamp was out of date or it was empty already, a    *)
(* rule or the user deletes rows of mail that they moved before.           *)
(***************************************************************************)

\* A row is of a UIDVALIDITY the server has had, and there is only one when
\* the mailbox is never rebuilt.
RowsReal ==
    /\ \A u \in Cached : 1 <= rows[u].epoch
    /\ "newvalidity" \notin Events => srvEpoch = 1

\* The server does not have, and will never have again, the message of u's row.
Gone(u) == rows[u].epoch = srvEpoch => srv[u] = "none"

Fit(p) ==
    /\ (pc[p] \in {"low", "select"} /\ mem[p].known = 0) => Cached = {}
    /\ (pc[p] \in {"fetch", "clear"} /\ mem[p].cmd = "sync" /\ mem[p].reset)
          => validity < mem[p].epoch \/ Cached = {}
    /\ pc[p] = "orgMove" => \A u \in Matched(p) \ mem[p].todo : Gone(u)
    /\ pc[p] = "orgDelete" => \A u \in mem[p].todo : Gone(u)
    /\ pc[p] = "older" => \A u \in Cached : mem[p].known <= u
    /\ (pc[p] = "fetch" /\ mem[p].cmd = "older") => mem[p].seen \cap Cached = {}
    /\ pc[p] = "insert" => mem[p].todo \cap Cached = {}
    /\ (pc[p] = "local" /\ mem[p].cmd = "move") =>
          /\ "newvalidity" \notin Events
          /\ \A u \in mem[p].todo : srv[u] = "none" /\ u < uidNext

Implementing == Inductive /\ RowsReal /\ \A p \in Procs : Fit(p)

\* A step that MailCache allows, or that it does not see.
Allowed == [Contract!Next]_(Contract!vars)

\* The user's moves and a mailbox that is rebuilt do not go together: a move
\* deletes the row of a UID, whichever message that UID names by now.
NoMoveAcrossRebuild == "move" \notin Commands \/ "newvalidity" \notin Events

LEMMA GoneForGood ==
    ASSUME Inductive, TypeOK', ServerMoves, RowsShrink, NEW u \in Uids, Gone(u)
    PROVE  Gone(u)'
<1> USE ConstantsAssumption DEF ConstantsAssumption
<1>1. srvEpoch \in Nat \ {0} /\ srvEpoch' \in Nat \ {0} /\ uidNext \in Nat
  BY DEF Inductive, TypeOK
<1>2. rows[u].epoch \in Nat /\ rows[u].epoch <= srvEpoch
      /\ (rows[u].epoch = srvEpoch => u < uidNext)
  BY DEF Inductive, TypeOK, Row, Bounded
<1>3. CASE rows'[u] = NoRow  BY <1>1, <1>3 DEF NoRow, Gone
<1>4. CASE rows'[u].epoch = rows[u].epoch
  BY <1>1, <1>2, <1>4 DEF Gone, ServerMoves
<1> QED BY <1>3, <1>4 DEF RowsShrink

\* What a process that does not move knows, after a step that adds no row.
LEMMA CalmFit ==
    ASSUME Implementing, TypeOK', RowsReal', NEW q \in Procs, pc'[q] = pc[q],
           mem'[q] = mem[q], ServerMoves, RowsShrink, validity' = validity
    PROVE  Fit(q)'
<1> USE ConstantsAssumption DEF ConstantsAssumption
<1>1. Inductive /\ Fit(q) /\ RowsReal /\ mem[q] \in ProcMem
  BY DEF Implementing, Inductive, TypeOK
<1>2. Cached' \subseteq Cached  BY DEF Cached, RowsShrink
<1>3. Matched(q) \subseteq Uids /\ Matched(q)' = Matched(q) /\ mem[q].todo \subseteq Uids
  BY <1>1 DEF Matched, Has, ProcMem
<1>4. \A u \in Uids : Gone(u) => Gone(u)'
  BY <1>1, GoneForGood
<1>5. (pc[q] = "local" /\ mem[q].cmd = "move") =>
         \A u \in mem[q].todo : srv'[u] = "none" /\ u < uidNext'
  <2> SUFFICES ASSUME pc[q] = "local", mem[q].cmd = "move", NEW u \in mem[q].todo
               PROVE srv'[u] = "none" /\ u < uidNext'
    OBVIOUS
  <2>1. srvEpoch' = srvEpoch /\ srv[u] = "none" /\ u < uidNext
    BY <1>1 DEF Fit, RowsReal
  <2>2. uidNext \in Nat /\ uidNext' \in Nat /\ u \in Uids
    BY <1>1, <1>3 DEF Inductive, TypeOK
  <2> QED BY <2>1, <2>2 DEF ServerMoves
<1> QED BY <1>1, <1>2, <1>3, <1>4, <1>5 DEF Fit

\* And after one of the holder of the lock, when it does not hold it.
LEMMA UnlockedFit ==
    ASSUME Implementing, RowsReal', NEW q \in Procs, pc'[q] = pc[q], mem'[q] = mem[q],
           lock # q, UNCHANGED serverVars
    PROVE  Fit(q)'
<1>1. pc[q] \notin SyncLabels \cup OlderLabels \cup {"fetch"} /\ Fit(q)
  BY DEF Implementing, Inductive, Owner
<1> QED BY <1>1 DEF Fit, SyncLabels, OlderLabels, serverVars

\* At the other statements a process has nothing to know.
LEMMA NothingFits ==
    ASSUME NEW p \in Procs,
           pc[p] \notin {"low", "select", "fetch", "clear", "orgMove", "orgDelete",
                         "older", "insert", "local"}
    PROVE  Fit(p)
BY DEF Fit

LEMMA RealRows ==
    ASSUME RowsReal, RowsShrink, srvEpoch' = srvEpoch
    PROVE  RowsReal'
BY DEF RowsReal, RowsShrink, Cached

\* A step of p that adds no row, once p's own part is there.
LEMMA CalmImplementing ==
    ASSUME Implementing, Inductive', NEW p \in Procs, NEW l, NEW m, Goto(p, l, m),
           srvEpoch' = srvEpoch, uidNext' = uidNext,
           \A u \in Uids : srv'[u] # "none" => srv[u] # "none",
           validity' = validity, RowsShrink, Fit(p)'
    PROVE  Implementing'
<1>1. ServerMoves
  BY ConstantsAssumption DEF ConstantsAssumption, Implementing, Inductive, TypeOK, ServerMoves
<1>2. RowsReal'  BY RealRows DEF Implementing
<1>3. ASSUME NEW q \in Procs, q # p PROVE Fit(q)'
  <2>1. pc'[q] = pc[q] /\ mem'[q] = mem[q]
    BY <1>3 DEF Goto, Implementing, Inductive, TypeOK
  <2> QED BY <1>1, <1>2, <2>1, CalmFit DEF Inductive
<1> QED BY <1>2, <1>3 DEF Implementing

LEMMA LockedImplementing ==
    ASSUME Implementing, Inductive', NEW p \in Procs, NEW l, NEW m, Goto(p, l, m),
           lock = p, UNCHANGED serverVars, RowsReal', Fit(p)'
    PROVE  Implementing'
<1>1. ASSUME NEW q \in Procs, q # p PROVE Fit(q)'
  <2>1. pc'[q] = pc[q] /\ mem'[q] = mem[q]
    BY <1>1 DEF Goto, Implementing, Inductive, TypeOK
  <2> QED BY <1>1, <2>1, UnlockedFit
<1> QED BY <1>1 DEF Implementing

(***************************************************************************)
(* The steps of the contract.                                              *)
(***************************************************************************)
LEMMA Unseen ==
    ASSUME UNCHANGED <<srvEpoch, uidNext, validity>>, Present' = Present, Cached' = Cached,
           \A u \in Cached : rows'[u].epoch = rows[u].epoch
    PROVE  Allowed
<1>1. UNCHANGED Contract!vars  BY DEF Contract!vars
<1> QED BY <1>1 DEF Allowed

LEMMA UnseenReading ==
    ASSUME UNCHANGED <<serverVars, dbVars>> PROVE Allowed
<1>1. Present' = Present /\ Cached' = Cached  BY DEF Present, Cached, serverVars, dbVars
<1> QED BY <1>1, Unseen DEF serverVars, dbVars

\* A message leaves the server.
LEMMA LoseStep ==
    ASSUME TypeOK, NEW u \in Uids, srv' = [srv EXCEPT ![u] = "none"],
           UNCHANGED <<srvEpoch, uidNext, dbVars>>
    PROVE  Allowed
<1>1. Present' = Present \ {u} /\ Cached' = Cached  BY DEF Present, Cached, TypeOK, dbVars
<1>2. CASE u \notin Present  BY <1>1, <1>2, Unseen DEF dbVars
<1>3. CASE u \in Present
  <2> DEFINE server == {<<srvEpoch, v>> : v \in Present}
             gone == <<srvEpoch, u>>
  <2>2. gone \in server  BY <1>3
  <2>3. {<<srvEpoch', v>> : v \in Present'} = server \ {gone}  BY <1>1
  <2>4. UNCHANGED <<srvEpoch, uidNext, validity, {<<rows[v].epoch, v>> : v \in Cached}>>
    BY <1>1 DEF dbVars
  <2>1. Contract!Lose  BY <2>2, <2>3, <2>4 DEF Contract!Lose
  <2> QED BY <2>1 DEF Allowed, Contract!Next
<1> QED BY <1>2, <1>3

\* A row of a message that the server has lost goes.
LEMMA ForgetStep ==
    ASSUME TypeOK, NEW u \in Uids, Gone(u), rows' = [rows EXCEPT ![u] = NoRow],
           UNCHANGED <<serverVars, validity>>
    PROVE  Allowed
<1>1. Present' = Present /\ Cached' = Cached \ {u}
  BY DEF Present, Cached, TypeOK, serverVars
<1>2. \A v \in Cached' : rows'[v] = rows[v]  BY <1>1 DEF Cached, TypeOK
<1>3. CASE u \notin Cached  BY <1>1, <1>2, <1>3, Unseen DEF serverVars
<1>4. CASE u \in Cached
  <2> DEFINE cache == {<<rows[v].epoch, v>> : v \in Cached}
             gone == <<rows[u].epoch, u>>
  <2>1. gone \in cache  BY <1>4
  <2>2. gone \notin {<<srvEpoch, v>> : v \in Present}  BY DEF Present, Gone
  <2>3. {<<rows'[v].epoch, v>> : v \in Cached'} = cache \ {gone}  BY <1>1, <1>2
  <2>4. Contract!Forget
    BY <1>1, <2>1, <2>2, <2>3 DEF Contract!Forget, serverVars
  <2> QED BY <2>4 DEF Allowed, Contract!Next
<1> QED BY <1>3, <1>4

\* Rows of messages the server has or had join those that are there.
LEMMA LearnStep ==
    ASSUME Inductive, Inductive', NEW new \in SUBSET Uids, NEW e \in Epochs, e <= srvEpoch,
           e = srvEpoch => \A u \in new : u < uidNext,
           \A u \in Uids : IF u \in new THEN rows'[u] # NoRow /\ rows'[u].epoch = e
                                        ELSE rows'[u] = rows[u],
           \A u \in new \cap Cached : rows[u].epoch = e,
           UNCHANGED <<serverVars, validity>>
    PROVE  Allowed
<1> USE ConstantsAssumption DEF ConstantsAssumption
<1> DEFINE cache == {<<rows[v].epoch, v>> : v \in Cached}
           more == {<<e, v>> : v \in new}
<1>1. Present' = Present /\ Cached' = Cached \cup new
  BY DEF Present, Cached, serverVars
<1>2. {<<rows'[v].epoch, v>> : v \in Cached'} = cache \cup more
  <2>1. \A v \in Cached : <<rows[v].epoch, v>> = <<rows'[v].epoch, v>>  BY DEF Cached
  <2>2. \A v \in new : <<e, v>> = <<rows'[v].epoch, v>>  OBVIOUS
  <2> QED BY <1>1, <2>1, <2>2
<1>3. more \in SUBSET Contract!Known
  <2>1. srvEpoch \in Nat /\ uidNext \in Nat  BY DEF Inductive, TypeOK
  <2> QED BY <2>1 DEF Contract!Known, Contract!Messages
<1>4. Contract!Trustworthy'
  <2>1. validity' = srvEpoch' => \A u \in Cached' : rows'[u].epoch = srvEpoch'
    BY DEF Inductive, RowsTrustworthy
  <2> QED BY <2>1 DEF Contract!Trustworthy
<1> HIDE DEF cache, more
<1>5. Contract!Learn
  BY <1>1, <1>2, <1>3, <1>4 DEF Contract!Learn, serverVars, cache
<1> QED BY <1>5 DEF Allowed, Contract!Next

(***************************************************************************)
(* One lemma per action or group of actions: it keeps the invariant and    *)
(* does what the contract allows.                                          *)
(***************************************************************************)

\* A step that only reads and leaves p with what it should know.
LEMMA ReadingImplements ==
    ASSUME Implementing, Inductive', NEW p \in Procs, NEW l, NEW m, Goto(p, l, m), Reading(p),
           Fit(p)'
    PROVE  Implementing' /\ Allowed
<1>1. RowsShrink  BY DEF RowsShrink, Reading, dbVars
<1>2. Implementing'  BY <1>1, CalmImplementing DEF Reading, serverVars, dbVars
<1>3. Allowed  BY UnseenReading DEF Reading
<1> QED BY <1>2, <1>3

\* A step to a statement where p has nothing to know.
LEMMA FitAtRest ==
    ASSUME Inductive, NEW p \in Procs, NEW l, NEW m, Goto(p, l, m),
           l \notin {"low", "select", "fetch", "clear", "orgMove", "orgDelete",
                     "older", "insert", "local"}
    PROVE  Fit(p)'
<1>1. pc'[p] = l  BY GotoSelf DEF Inductive
<1> QED BY <1>1 DEF Fit

LEMMA ServerImplements ==
    ASSUME Implementing, Inductive', ServerStep PROVE Implementing' /\ Allowed
<1> USE ConstantsAssumption DEF ConstantsAssumption
<1>0. TypeOK /\ TypeOK' /\ Inductive /\ RowsReal /\ uidNext \in Nat /\ srvEpoch \in Nat
  BY DEF Implementing, Inductive, TypeOK
<1>1. UNCHANGED <<validity, rows, lock, pc, mem>>
  BY DEF ServerStep, Deliver, Expunge, ChangeFlag, NewValidity
<1>2. ServerMoves /\ RowsReal'
  <2>1. CASE Deliver
    BY <1>0, <2>1 DEF Deliver, ServerMoves, RowsReal, Cached, TypeOK
  <2>2. ASSUME NEW u \in Uids, Expunge(u) \/ ChangeFlag(u) PROVE ServerMoves /\ RowsReal'
    BY <1>0, <2>2 DEF Expunge, ChangeFlag, ServerMoves, RowsReal, Cached, TypeOK
  <2>3. ASSUME NEW n \in 1 .. MaxUid + 1, NewValidity(n) PROVE ServerMoves /\ RowsReal'
    BY <1>0, <2>3 DEF NewValidity, ServerMoves, RowsReal, Cached
  <2> QED BY <2>1, <2>2, <2>3 DEF ServerStep
<1>3. RowsShrink  BY <1>1 DEF RowsShrink
<1>4. ASSUME NEW q \in Procs PROVE Fit(q)'  BY <1>0, <1>1, <1>2, <1>3, CalmFit
<1>5. Implementing'  BY <1>2, <1>4 DEF Implementing
<1>6. Cached' = Cached  BY <1>1 DEF Cached
<1>7. Allowed
  <2>1. CASE Deliver
    <3>1. Present' = Present \cup {uidNext}
      BY <1>0, <2>1 DEF Deliver, Present, TypeOK
    <3>2. {<<srvEpoch', v>> : v \in Present'}
            = {<<srvEpoch, v>> : v \in Present} \cup {<<srvEpoch, uidNext>>}
      BY <2>1, <3>1 DEF Deliver
    <3>3. UNCHANGED <<srvEpoch, validity, {<<rows[v].epoch, v>> : v \in Cached}>>
      BY <1>1, <1>6, <2>1 DEF Deliver
    <3>4. Contract!Receive  BY <2>1, <3>2, <3>3 DEF Deliver, Contract!Receive
    <3> QED BY <3>4 DEF Allowed, Contract!Next
  <2>2. ASSUME NEW u \in Uids, Expunge(u) PROVE Allowed
    BY <1>0, <2>2, LoseStep DEF Expunge, dbVars
  <2>3. ASSUME NEW u \in Uids, ChangeFlag(u) PROVE Allowed
    <3>1. Present' = Present  BY <1>0, <2>3 DEF ChangeFlag, Present, TypeOK
    <3> QED BY <1>1, <1>6, <2>3, <3>1, Unseen DEF ChangeFlag
  <2>4. ASSUME NEW n \in 1 .. MaxUid + 1, NewValidity(n) PROVE Allowed
    <3>1. Present' = 1 .. n - 1
      BY <2>4 DEF NewValidity, Present, Mailbox
    <3>2. {<<srvEpoch', v>> : v \in Present'} = {<<srvEpoch', v>> : v \in 1 .. uidNext' - 1}
      BY <2>4, <3>1 DEF NewValidity
    <3>3. UNCHANGED <<validity, {<<rows[v].epoch, v>> : v \in Cached}>>
      BY <1>1, <1>6
    <3>4. Contract!Renumber  BY <2>4, <3>2, <3>3 DEF NewValidity, Contract!Renumber
    <3> QED BY <3>4 DEF Allowed, Contract!Next
  <2> QED BY <2>1, <2>2, <2>3, <2>4 DEF ServerStep
<1> QED BY <1>5, <1>7

\* The end of a command, whichever way it ends.
LEMMA EndImplements ==
    ASSUME Implementing, Inductive', NEW p \in Procs, End(p), UNCHANGED <<serverVars, dbVars>>
    PROVE  Implementing' /\ Allowed
<1>1. Fit(p)'  BY FitAtRest DEF End, Implementing
<1>2. RowsShrink  BY DEF RowsShrink, dbVars
<1>3. Implementing'
  BY <1>1, <1>2, CalmImplementing DEF End, serverVars, dbVars
<1> QED BY <1>3, UnseenReading

LEMMA StartImplements ==
    ASSUME Implementing, Inductive', "daily" \notin Commands, NoMoveAcrossRebuild,
           NEW p \in Procs, Start(p)
    PROVE  Implementing' /\ Allowed
<1> USE ConstantsAssumption DEF ConstantsAssumption
<1>0. Inductive /\ TypeOK /\ RowsReal /\ uidNext \in Nat /\ srvEpoch \in Nat
  BY DEF Implementing, Inductive, TypeOK
<1>1. ASSUME NEW cmd \in {"sync", "older"}, Acquire(p, cmd) PROVE Implementing' /\ Allowed
  <2> DEFINE l == IF cmd = "sync" THEN "validity" ELSE "min"
  <2>1. Goto(p, l, [NoMem EXCEPT !.cmd = cmd]) /\ UNCHANGED <<serverVars, dbVars>>
    BY <1>1 DEF Acquire
  <2>2. Fit(p)'  BY <1>0, <2>1, FitAtRest
  <2>3. RowsShrink  BY <2>1 DEF RowsShrink, dbVars
  <2> HIDE DEF l
  <2>4. Implementing'
    BY <2>1, <2>2, <2>3, CalmImplementing DEF serverVars, dbVars
  <2> QED BY <2>1, <2>4, UnseenReading
<1>2. ASSUME StartDaily(p) PROVE FALSE  BY <1>2 DEF StartDaily
<1>3. ASSUME NEW u \in Uids, MoveOnServer(p, u) PROVE Implementing' /\ Allowed
  <2> DEFINE m == [NoMem EXCEPT !.cmd = "move", !.todo = {u}]
  <2>1. Goto(p, "local", m) /\ srv' = [srv EXCEPT ![u] = "none"] /\ u \in Cached
        /\ "newvalidity" \notin Events /\ UNCHANGED <<srvEpoch, uidNext, dbVars>>
    BY <1>3 DEF MoveOnServer, NoMoveAcrossRebuild
  <2>2. pc'[p] = "local" /\ mem'[p] = m /\ m.todo = {u}
    BY <1>0, <2>1, GotoSelf DEF NoMem
  <2>3. rows[u].epoch = srvEpoch
    <3>1. rows[u].epoch \in Nat /\ rows[u].epoch <= srvEpoch /\ 1 <= rows[u].epoch
      BY <1>0, <2>1 DEF Inductive, Bounded, RowsReal, TypeOK, Row
    <3> QED BY <1>0, <2>1, <3>1 DEF RowsReal
  <2>4. srv'[u] = "none" /\ u < uidNext
    BY <1>0, <2>1, <2>3 DEF Inductive, Bounded, TypeOK
  <2> HIDE DEF m
  <2>5. Fit(p)'  BY <2>1, <2>2, <2>4 DEF Fit
  <2>6. RowsShrink /\ \A v \in Uids : srv'[v] # "none" => srv[v] # "none"
    BY <1>0, <2>1 DEF RowsShrink, dbVars, TypeOK
  <2>7. Implementing'  BY <2>1, <2>5, <2>6, CalmImplementing DEF dbVars
  <2> QED BY <1>0, <2>1, <2>7, LoseStep
<1>4. ASSUME NEW u \in Uids, NEW flag \in {"read", "unread"}, SetReadOnServer(p, u, flag)
      PROVE  Implementing' /\ Allowed
  <2> DEFINE m == [NoMem EXCEPT !.cmd = "read", !.todo = {u},
                                !.fresh = [Nothing EXCEPT ![u] = flag]]
  <2>1. Goto(p, "local", m) /\ UNCHANGED <<srvEpoch, uidNext, dbVars>>
        /\ srv' = [srv EXCEPT ![u] = IF srv[u] = "none" THEN srv[u] ELSE flag]
    BY <1>4 DEF SetReadOnServer
  <2>2. pc'[p] = "local" /\ mem'[p] = m /\ m.cmd = "read"
    BY <1>0, <2>1, GotoSelf DEF NoMem
  <2> HIDE DEF m
  <2>3. Fit(p)'  BY <2>2 DEF Fit
  <2>4. RowsShrink /\ Cached' = Cached  BY <2>1 DEF RowsShrink, dbVars, Cached
  <2>5. \A v \in Uids : srv'[v] # "none" <=> srv[v] # "none"
    BY <1>0, <2>1 DEF TypeOK
  <2>6. Implementing'  BY <2>1, <2>3, <2>4, <2>5, CalmImplementing DEF dbVars
  <2>7. Present' = Present  BY <2>5 DEF Present
  <2> QED BY <2>1, <2>4, <2>6, <2>7, Unseen DEF dbVars
<1> QED BY <1>1, <1>2, <1>3, <1>4 DEF Start

\* What the invariant says of one process.
LEMMA ImplementingFacts ==
    ASSUME Implementing, NEW p \in Procs
    PROVE  /\ Inductive /\ TypeOK /\ RowsReal /\ Owner(p) /\ Local(p) /\ Fit(p)
           /\ mem[p] \in ProcMem
           /\ srvEpoch \in Nat /\ validity \in Nat /\ validity <= srvEpoch
           /\ mem[p].epoch \in Nat
<1> USE ConstantsAssumption DEF ConstantsAssumption
<1>1. Inductive /\ RowsReal /\ Fit(p)  BY DEF Implementing
<1>2. TypeOK /\ Bounded /\ Owner(p) /\ Local(p)  BY <1>1 DEF Inductive
<1>3. mem[p] \in ProcMem /\ srvEpoch \in Nat /\ validity \in Nat  BY <1>2 DEF TypeOK
<1>4. mem[p].epoch \in Nat  BY <1>3 DEF ProcMem
<1> QED BY <1>1, <1>2, <1>3, <1>4 DEF Bounded

\* The statements of a sync that only read.
LEMMA SyncReadImplements ==
    ASSUME Implementing, Inductive', NEW p \in Procs,
           \/ ReadValidity(p) \/ ReadMax(p) \/ ReadLow(p) \/ Select(p) \/ Search(p)
           \/ Scan(p) \/ ListWindow(p) \/ FlagsDone(p) \/ PlanMoves(p)
    PROVE  Implementing' /\ Allowed
<1> USE ConstantsAssumption DEF ConstantsAssumption
<1>0. /\ Inductive /\ TypeOK /\ Owner(p) /\ Local(p) /\ Fit(p) /\ mem[p] \in ProcMem
      /\ srvEpoch \in Nat /\ validity \in Nat /\ validity <= srvEpoch
  BY ImplementingFacts
<1>1. CASE ReadValidity(p)
  <2>1. Goto(p, "max", [mem[p] EXCEPT !.stored = validity]) /\ Reading(p)
    BY <1>1 DEF ReadValidity
  <2>2. Fit(p)'  BY <1>0, <2>1, FitAtRest
  <2> QED BY <2>1, <2>2, ReadingImplements
<1>2. CASE ReadMax(p)
  <2>1. PICK k \in 0 .. MaxUid :
          /\ IF Cached = {} THEN k = 0 ELSE IsHighest(k, Cached)
          /\ Goto(p, "low", [mem[p] EXCEPT !.known = k])
    BY <1>2 DEF ReadMax
  <2> DEFINE m == [mem[p] EXCEPT !.known = k]
  <2>2. pc'[p] = "low" /\ mem'[p] = m /\ m.known = k
    BY <1>0, <2>1, GotoSelf DEF ProcMem
  <2>3. k = 0 => Cached = {}  BY <2>1 DEF IsHighest, Cached
  <2>4. Reading(p) /\ Cached' = Cached  BY <1>2 DEF ReadMax, Reading, dbVars, Cached
  <2> HIDE DEF m
  <2>5. Fit(p)'  BY <2>2, <2>3, <2>4 DEF Fit
  <2> QED BY <2>1, <2>4, <2>5, ReadingImplements DEF m
<1>3. CASE ReadLow(p)
  <2>1. PICK k \in 1 .. MaxUid + 1 : Goto(p, "select", [mem[p] EXCEPT !.low = k])
    BY <1>3 DEF ReadLow
  <2> DEFINE m == [mem[p] EXCEPT !.low = k]
  <2>2. pc'[p] = "select" /\ mem'[p] = m /\ m.known = mem[p].known
    BY <1>0, <2>1, GotoSelf DEF ProcMem
  <2>3. pc[p] = "low" /\ Reading(p) /\ Cached' = Cached
    BY <1>3 DEF ReadLow, At, Reading, dbVars, Cached
  <2> HIDE DEF m
  <2>4. Fit(p)'  BY <1>0, <2>2, <2>3 DEF Fit
  <2> QED BY <2>1, <2>3, <2>4, ReadingImplements DEF m
<1>4. CASE Select(p)
  <2> DEFINE seen == IF NeedsReset(p) THEN Newest(Present, InitialWindow) ELSE {}
             l == IF NeedsReset(p) THEN "fetch" ELSE "search"
             m == [mem[p] EXCEPT !.epoch = srvEpoch, !.reset = NeedsReset(p), !.seen = seen]
  <2>1. Goto(p, l, m) /\ Reading(p) /\ pc[p] = "select"  BY <1>4 DEF Select, At
  <2>2. pc'[p] = l /\ mem'[p] = m  BY <1>0, <2>1, GotoSelf
  <2>3. m.cmd = mem[p].cmd /\ m.epoch = srvEpoch /\ m.reset = NeedsReset(p)
    BY <1>0 DEF ProcMem
  <2>4. NeedsReset(p) => validity < srvEpoch \/ Cached = {}
    BY <1>0, <2>1 DEF NeedsReset, Fit, Local, BeforeSelect
  <2>5. mem[p].cmd = "sync"  BY <1>0, <2>1 DEF Owner, SyncLabels
  <2>6. Cached' = Cached /\ validity' = validity
    BY <2>1 DEF Reading, dbVars, Cached
  <2>7. l \in {"fetch", "search"}  OBVIOUS
  <2> HIDE DEF l, m
  <2>8. Fit(p)'  BY <2>2, <2>3, <2>4, <2>5, <2>6, <2>7 DEF Fit
  <2> QED BY <2>1, <2>8, ReadingImplements
<1>5. CASE Search(p)
  <2> DEFINE hits == {u \in Present : u > mem[p].known} \cup Newest(Present, 1)
             m == [mem[p] EXCEPT !.seen = {u \in hits : u > mem[p].known}]
  <2>1. Goto(p, "fetch", m) /\ Reading(p) /\ pc[p] = "search"  BY <1>5 DEF Search, At
  <2>2. pc'[p] = "fetch" /\ mem'[p] = m  BY <1>0, <2>1, GotoSelf
  <2>3. m.cmd = mem[p].cmd /\ m.reset = mem[p].reset  BY <1>0 DEF ProcMem
  <2>4. mem[p].cmd = "sync" /\ ~mem[p].reset
    BY <1>0, <2>1 DEF Owner, SyncLabels, Local, AfterSelect
  <2> HIDE DEF m
  <2>5. Fit(p)'  BY <2>2, <2>3, <2>4 DEF Fit
  <2> QED BY <2>1, <2>5, ReadingImplements
<1>6. CASE Scan(p)
  <2> DEFINE m == [mem[p] EXCEPT !.scan = Fetched({u \in Present : mem[p].low <= u}
                                                     \cup Newest(Present, 1))]
  <2>1. Goto(p, "stamp", m) /\ Reading(p)  BY <1>6 DEF Scan
  <2> HIDE DEF m
  <2>2. Fit(p)'  BY <1>0, <2>1, FitAtRest
  <2> QED BY <2>1, <2>2, ReadingImplements
<1>7. CASE ListWindow(p)
  <2> DEFINE m == [mem[p] EXCEPT !.todo = {u \in Cached : mem[p].low <= u}]
  <2>1. Goto(p, "flags", m) /\ Reading(p)  BY <1>7 DEF ListWindow
  <2> HIDE DEF m
  <2>2. Fit(p)'  BY <1>0, <2>1, FitAtRest
  <2> QED BY <2>1, <2>2, ReadingImplements
<1>8. CASE FlagsDone(p)
  <2> DEFINE l == IF mem[p].cmd = "sync" THEN "organize" ELSE "finish"
  <2>1. Goto(p, l, mem[p]) /\ Reading(p)  BY <1>8 DEF FlagsDone
  <2>2. Fit(p)'  BY <1>0, <2>1, FitAtRest
  <2> HIDE DEF l
  <2> QED BY <2>1, <2>2, ReadingImplements
<1>9. CASE PlanMoves(p)
  <2> DEFINE l == IF Matched(p) = {} THEN "finish" ELSE "orgMove"
             m == [mem[p] EXCEPT !.todo = Matched(p)]
  <2>1. Goto(p, l, m) /\ Reading(p)  BY <1>9 DEF PlanMoves
  <2>2. pc'[p] = l /\ mem'[p] = m  BY <1>0, <2>1, GotoSelf
  <2>3. m.todo = Matched(p) /\ m.fresh = mem[p].fresh  BY <1>0 DEF ProcMem
  <2>4. Matched(p)' = Matched(p)  BY <2>2, <2>3 DEF Matched
  <2>5. l \in {"finish", "orgMove"}  OBVIOUS
  <2> HIDE DEF l, m
  <2>6. Fit(p)'  BY <2>2, <2>3, <2>4, <2>5 DEF Fit
  <2> QED BY <2>1, <2>6, ReadingImplements
<1> QED BY <1>1, <1>2, <1>3, <1>4, <1>5, <1>6, <1>7, <1>8, <1>9

\* The FETCH of a sync or of a backfill.
LEMMA FetchImplements ==
    ASSUME Implementing, Inductive', NEW p \in Procs, Fetch(p)
    PROVE  Implementing' /\ Allowed
<1>0. Inductive /\ TypeOK /\ Owner(p) /\ Fit(p) /\ mem[p] \in ProcMem
  BY DEF Implementing, Inductive, TypeOK
<1> DEFINE got == Fetched(mem[p].seen)
           l == IF mem[p].cmd = "older" THEN "insert"
                ELSE IF mem[p].reset THEN "clear" ELSE "scan"
           m == [mem[p] EXCEPT !.fresh = got,
                               !.todo = IF mem[p].cmd = "older" THEN Has(got) ELSE {}]
<1>1. Goto(p, l, m) /\ Reading(p) /\ pc[p] = "fetch"  BY DEF Fetch, At
<1>2. pc'[p] = l /\ mem'[p] = m  BY <1>0, <1>1, GotoSelf
<1>3. /\ m.cmd = mem[p].cmd /\ m.epoch = mem[p].epoch /\ m.reset = mem[p].reset
      /\ mem[p].cmd = "older" => m.todo = Has(got)
  BY <1>0 DEF ProcMem
<1>4. Has(got) \subseteq mem[p].seen  BY DEF Has, Fetched
<1>5. /\ l \in {"insert", "clear", "scan"}
      /\ l = "insert" <=> mem[p].cmd = "older"
      /\ l = "clear" => mem[p].reset
  OBVIOUS
<1>6. mem[p].cmd \in {"sync", "older"}  BY <1>0, <1>1 DEF Owner
<1>7. Cached' = Cached /\ validity' = validity  BY <1>1 DEF Reading, dbVars, Cached
<1> HIDE DEF l, m, got
<1>8. Fit(p)'  BY <1>0, <1>1, <1>2, <1>3, <1>4, <1>5, <1>6, <1>7 DEF Fit
<1> QED BY <1>1, <1>8, ReadingImplements

\* clear_folder: what it throws away was out of date already.
LEMMA ClearImplements ==
    ASSUME Implementing, Inductive', NEW p \in Procs, ClearFolder(p)
    PROVE  Implementing' /\ Allowed
<1>0. /\ Inductive /\ TypeOK /\ Owner(p) /\ Local(p) /\ Fit(p)
      /\ srvEpoch \in Nat /\ validity \in Nat /\ mem[p].epoch \in Nat
  BY ImplementingFacts
<1>1. Goto(p, "stamp", mem[p]) /\ pc[p] = "clear" /\ UNCHANGED <<serverVars, validity>>
  BY DEF ClearFolder, At
<1>2. RowsShrink /\ Cached' = {}  BY DEF ClearFolder, RowsShrink, Cached
<1>3. Fit(p)'  BY <1>0, <1>1, FitAtRest
<1>4. Implementing'  BY <1>1, <1>2, <1>3, CalmImplementing DEF serverVars
<1>5. validity # srvEpoch \/ Cached = {}
  <2>1. mem[p].cmd = "sync" /\ mem[p].reset /\ mem[p].epoch <= srvEpoch
    BY <1>0, <1>1 DEF Owner, SyncLabels, Local, AfterSelect, InSync
  <2> QED BY <1>0, <1>1, <2>1 DEF Fit
<1>6. Present' = Present  BY <1>1 DEF Present, serverVars
<1>7. Allowed
  <2>1. CASE Cached = {}  BY <1>1, <1>2, <1>6, <2>1, Unseen DEF serverVars
  <2>2. CASE validity # srvEpoch
    <3>1. {<<rows'[v].epoch, v>> : v \in Cached'} = {}  BY <1>2
    <3>2. Contract!Discard  BY <1>1, <1>6, <2>2, <3>1 DEF Contract!Discard, serverVars
    <3> QED BY <3>2 DEF Allowed, Contract!Next
  <2> QED BY <1>5, <2>1, <2>2
<1> QED BY <1>4, <1>7

LEMMA StampImplements ==
    ASSUME Implementing, Inductive', NEW p \in Procs, SetValidity(p)
    PROVE  Implementing' /\ Allowed
<1>0. /\ Inductive /\ TypeOK /\ Owner(p) /\ Local(p) /\ RowsReal
      /\ srvEpoch \in Nat /\ mem[p].epoch \in Nat
  BY ImplementingFacts
<1>1. pc[p] = "stamp" /\ UNCHANGED <<serverVars, rows>> /\ validity' = mem[p].epoch
  BY DEF SetValidity, At
<1>2. mem[p].cmd = "sync" /\ lock = p /\ 1 <= mem[p].epoch /\ mem[p].epoch <= srvEpoch
  BY <1>0, <1>1 DEF Owner, SyncLabels, Local, AfterSelect, InSync
<1>3. Goto(p, "commit", mem[p])  BY <1>2 DEF SetValidity
<1>4. Fit(p)'  BY <1>0, <1>3, FitAtRest
<1>5. Cached' = Cached /\ Present' = Present  BY <1>1 DEF Cached, Present, serverVars
<1>6. RowsReal'  BY <1>0, <1>1, <1>5 DEF RowsReal, serverVars
<1>7. Implementing'  BY <1>1, <1>2, <1>3, <1>4, <1>6, LockedImplementing
<1>8. Contract!Trustworthy'
  <2>1. validity' = srvEpoch' => \A u \in Cached' : rows'[u].epoch = srvEpoch'
    BY DEF Inductive, RowsTrustworthy
  <2> QED BY <2>1 DEF Contract!Trustworthy
<1>9. {<<rows'[v].epoch, v>> : v \in Cached'} = {<<rows[v].epoch, v>> : v \in Cached}
  BY <1>1, <1>5
<1>10. {<<srvEpoch', v>> : v \in Present'} = {<<srvEpoch, v>> : v \in Present}
  BY <1>1, <1>5 DEF serverVars
<1>11. Contract!Stamp
  BY <1>0, <1>1, <1>2, <1>8, <1>9, <1>10 DEF Contract!Stamp, serverVars
<1> QED BY <1>7, <1>11 DEF Allowed, Contract!Next

\* The transaction.
LEMMA CommitImplements ==
    ASSUME Implementing, Inductive', NEW p \in Procs, Commit(p)
    PROVE  Implementing' /\ Allowed
<1>0. /\ Inductive /\ TypeOK /\ Owner(p) /\ Local(p) /\ RowsReal
      /\ srvEpoch \in Nat /\ mem[p].epoch \in Nat /\ mem[p] \in ProcMem
  BY ImplementingFacts
<1> DEFINE l == IF mem[p].reset THEN "organize" ELSE "list"
           new == Has(mem[p].fresh)
<1>1. /\ pc[p] = "commit" /\ Goto(p, l, mem[p]) /\ UNCHANGED <<serverVars, validity>>
      /\ rows' = [u \in Uids |-> IF u \in new THEN RowOf(p, u) ELSE rows[u]]
  BY DEF Commit, At
<1>2. mem[p].cmd = "sync" /\ lock = p /\ 1 <= mem[p].epoch /\ mem[p].epoch <= srvEpoch
  BY <1>0, <1>1 DEF Owner, SyncLabels, Local, AfterSelect, InSync
<1>3. /\ mem[p].epoch = srvEpoch => \A u \in new : u < uidNext
      /\ \A u \in Cached : rows[u].epoch = mem[p].epoch
  BY <1>0, <1>1, <1>2 DEF Local, AfterSelect, InSync
<1>4. new \in SUBSET Uids  BY DEF Has
<1> HIDE DEF new
<1>5. Fit(p)'  BY <1>0, <1>1, FitAtRest
<1>6. \A u \in Uids : IF u \in new THEN rows'[u] # NoRow /\ rows'[u].epoch = mem[p].epoch
                                   ELSE rows'[u] = rows[u]
  BY <1>1, <1>2 DEF RowOf, NoRow
<1>7. RowsReal'
  BY <1>0, <1>1, <1>2, <1>6 DEF RowsReal, Cached, serverVars
<1>8. mem[p].epoch \in Epochs  BY <1>0, <1>2 DEF ProcMem
<1> HIDE DEF l
<1>9. Implementing'  BY <1>1, <1>2, <1>5, <1>7, LockedImplementing
<1>10. Allowed  BY <1>0, <1>1, <1>2, <1>3, <1>4, <1>6, <1>8, LearnStep
<1> QED BY <1>9, <1>10

\* The pass over the flags: a row that goes is of a message that is lost.
LEMMA FlagImplements ==
    ASSUME Implementing, Inductive', NEW p \in Procs, FlagRow(p)
    PROVE  Implementing' /\ Allowed
<1>0. Inductive /\ TypeOK /\ RowsReal /\ mem[p] \in ProcMem /\ rows \in [Uids -> Row]
  BY DEF Implementing, Inductive, TypeOK
<1>1. PICK u \in mem[p].todo :
        /\ rows' = IF rows[u] = NoRow THEN rows
                   ELSE IF mem[p].scan[u] # "none"
                        THEN [rows EXCEPT ![u].unread = mem[p].scan[u] = "unread"]
                   ELSE IF mem[p].cmd = "sync" /\ ShouldDeleteMissing(p, u)
                        THEN [rows EXCEPT ![u] = NoRow]
                   ELSE rows
        /\ Goto(p, "flags", [mem[p] EXCEPT !.todo = mem[p].todo \ {u}])
  BY DEF FlagRow
<1>2. UNCHANGED <<serverVars, validity>> /\ u \in Uids
  BY <1>0 DEF FlagRow, ProcMem
<1>3. Fit(p)'  BY <1>0, <1>1, FitAtRest
<1>4. Present' = Present  BY <1>2 DEF Present, serverVars
<1>5. CASE rows[u] # NoRow /\ rows' = [rows EXCEPT ![u] = NoRow]
  <2>1. Gone(u)
    <3>1. rows'[u] = NoRow  BY <1>0, <1>2, <1>5
    <3> QED BY <1>0, <1>2, <1>5, <3>1, FlagRowSound DEF Gone
  <2>2. RowsShrink  BY <1>0, <1>2, <1>5 DEF RowsShrink
  <2>3. Implementing'  BY <1>1, <1>2, <1>3, <2>2, CalmImplementing DEF serverVars
  <2> QED BY <1>0, <1>2, <1>5, <2>1, <2>3, ForgetStep
<1>6. CASE \/ rows' = rows
           \/ rows[u] # NoRow /\ rows' = [rows EXCEPT ![u].unread = mem[p].scan[u] = "unread"]
  <2>1. \A v \in Uids : /\ rows'[v].epoch = rows[v].epoch
                        /\ (v # u \/ rows' = rows) => rows'[v] = rows[v]
    <3>1. CASE rows' = rows  BY <3>1
    <3>2. CASE rows' = [rows EXCEPT ![u].unread = mem[p].scan[u] = "unread"]
      <4>1. rows'[u] = [rows[u] EXCEPT !.unread = mem[p].scan[u] = "unread"]
            /\ \A v \in Uids : v # u => rows'[v] = rows[v]
        BY <1>0, <1>2, <3>2
      <4>2. rows'[u].epoch = rows[u].epoch  BY <1>0, <1>2, <4>1 DEF Row
      <4> QED BY <4>1, <4>2
    <3> QED BY <1>6, <3>1, <3>2
  <2>2. Cached' = Cached /\ RowsShrink
    <3>1. CASE rows' = rows  BY <3>1 DEF Cached, RowsShrink
    <3>2. CASE rows[u] # NoRow
      <4>1. 1 <= rows[u].epoch  BY <1>0, <1>2, <3>2 DEF RowsReal, Cached
      <4>2. rows'[u] # NoRow  BY <1>2, <2>1, <4>1 DEF NoRow
      <4>3. \A v \in Uids : rows'[v] = NoRow <=> rows[v] = NoRow
        BY <2>1, <3>2, <4>2
      <4> QED BY <2>1, <4>3 DEF Cached, RowsShrink
    <3> QED BY <1>6, <3>1, <3>2
  <2>3. Implementing'  BY <1>1, <1>2, <1>3, <2>2, CalmImplementing DEF serverVars
  <2>4. \A v \in Cached : rows'[v].epoch = rows[v].epoch  BY <2>1 DEF Cached
  <2> QED BY <1>2, <1>4, <2>2, <2>3, <2>4, Unseen DEF serverVars
<1> QED BY <1>1, <1>5, <1>6

\* A rule's mail leaves the server first, its rows go afterwards.
LEMMA OrganizeImplements ==
    ASSUME Implementing, Inductive', NEW p \in Procs,
           OrganizeOnServer(p) \/ OrganizeRow(p)
    PROVE  Implementing' /\ Allowed
<1>0. Inductive /\ TypeOK /\ RowsReal /\ Fit(p) /\ mem[p] \in ProcMem
  BY ImplementingFacts
<1>00. TypeOK' /\ mem[p].todo \subseteq Uids /\ Matched(p) \subseteq Uids
  BY <1>0 DEF Inductive, ProcMem, Matched, Has
<1>1. CASE OrganizeOnServer(p)
  <2>1. PICK u \in mem[p].todo :
          /\ srv' = [srv EXCEPT ![u] = "none"]
          /\ LET rest == mem[p].todo \ {u}
             IN  Goto(p, IF rest = {} THEN "orgDelete" ELSE "orgMove",
                      [mem[p] EXCEPT !.todo = IF rest = {} THEN Matched(p) ELSE rest])
    BY <1>1 DEF OrganizeOnServer
  <2> DEFINE rest == mem[p].todo \ {u}
             l == IF rest = {} THEN "orgDelete" ELSE "orgMove"
             m == [mem[p] EXCEPT !.todo = IF rest = {} THEN Matched(p) ELSE rest]
  <2>2. Goto(p, l, m) /\ pc[p] = "orgMove" /\ UNCHANGED <<srvEpoch, uidNext, dbVars>>
    BY <1>1, <2>1 DEF OrganizeOnServer, At
  <2>3. pc'[p] = l /\ mem'[p] = m  BY <1>0, <2>2, GotoSelf
  <2>4. m.todo = (IF rest = {} THEN Matched(p) ELSE rest) /\ m.fresh = mem[p].fresh
    BY <1>0 DEF ProcMem
  <2>5. Matched(p)' = Matched(p)  BY <2>3, <2>4 DEF Matched
  <2>6. u \in Uids /\ \A v \in Uids : srv'[v] # "none" => srv[v] # "none"
    BY <1>0, <1>00, <2>1 DEF TypeOK
  <2>7. \A v \in Matched(p) \ rest : Gone(v)'
    <3> SUFFICES ASSUME NEW v \in Matched(p) \ rest PROVE Gone(v)'  OBVIOUS
    <3>1. v = u \/ v \in Matched(p) \ mem[p].todo  OBVIOUS
    <3>2. CASE v = u
      <4>1. srv'[u] = "none"  BY <1>0, <2>1, <2>6 DEF TypeOK
      <4> QED BY <3>2, <4>1 DEF Gone
    <3>3. CASE v \in Matched(p) \ mem[p].todo
      <4>1. Gone(v) /\ v \in Uids  BY <1>0, <1>00, <2>2, <3>3 DEF Fit
      <4>2. rows' = rows /\ srvEpoch' = srvEpoch  BY <2>2 DEF dbVars
      <4>3. srv[v] = "none" => srv'[v] = "none"  BY <2>6, <4>1
      <4> QED BY <4>1, <4>2, <4>3 DEF Gone
    <3> QED BY <3>1, <3>2, <3>3
  <2>8. \/ rest = {} /\ l = "orgDelete" /\ m.todo = Matched(p)
        \/ rest # {} /\ l = "orgMove" /\ m.todo = rest
    BY <2>4
  <2> HIDE DEF l, m, rest
  <2>9. Fit(p)'
    <3>1. CASE rest = {} /\ l = "orgDelete" /\ m.todo = Matched(p)
      BY <2>3, <2>7, <3>1 DEF Fit
    <3>2. CASE rest # {} /\ l = "orgMove" /\ m.todo = rest
      BY <2>3, <2>5, <2>7, <3>2 DEF Fit
    <3> QED BY <2>8, <3>1, <3>2
  <2>10. RowsShrink  BY <2>2 DEF RowsShrink, dbVars
  <2>11. Implementing'  BY <2>2, <2>6, <2>9, <2>10, CalmImplementing DEF dbVars
  <2> QED BY <1>0, <2>1, <2>2, <2>6, <2>11, LoseStep
<1>2. CASE OrganizeRow(p)
  <2>1. PICK u \in mem[p].todo :
          /\ rows' = [rows EXCEPT ![u] = NoRow]
          /\ LET rest == mem[p].todo \ {u}
             IN  Goto(p, IF rest = {} THEN "finish" ELSE "orgDelete",
                      [mem[p] EXCEPT !.todo = rest])
    BY <1>2 DEF OrganizeRow
  <2> DEFINE rest == mem[p].todo \ {u}
             l == IF rest = {} THEN "finish" ELSE "orgDelete"
             m == [mem[p] EXCEPT !.todo = rest]
  <2>2. Goto(p, l, m) /\ pc[p] = "orgDelete" /\ UNCHANGED <<serverVars, validity>>
    BY <1>2, <2>1 DEF OrganizeRow, At
  <2>3. pc'[p] = l /\ mem'[p] = m /\ m.todo = rest
    BY <1>0, <2>2, GotoSelf DEF ProcMem
  <2>4. u \in Uids /\ Gone(u)  BY <1>0, <1>00, <2>2 DEF Fit
  <2>5. RowsShrink  BY <1>0, <2>1 DEF RowsShrink, TypeOK
  <2>6. ServerMoves
    BY <1>0, <2>2, ConstantsAssumption
       DEF ServerMoves, serverVars, TypeOK, ConstantsAssumption
  <2>7. \A v \in rest : Gone(v)'
    BY <1>0, <1>00, <2>2, <2>5, <2>6, GoneForGood DEF Fit
  <2>8. l \in {"finish", "orgDelete"}  OBVIOUS
  <2> HIDE DEF l, m, rest
  <2>9. Fit(p)'  BY <2>3, <2>7, <2>8 DEF Fit
  <2>10. Implementing'  BY <2>2, <2>5, <2>9, CalmImplementing DEF serverVars
  <2> QED BY <1>0, <2>1, <2>2, <2>4, <2>10, ForgetStep
<1> QED BY <1>1, <1>2

\* A backfill: the batch lies below every row.
LEMMA OlderImplements ==
    ASSUME Implementing, Inductive', NEW p \in Procs, OlderStep(p)
    PROVE  Implementing' /\ Allowed
<1> USE ConstantsAssumption DEF ConstantsAssumption
<1>0. /\ Inductive /\ TypeOK /\ RowsReal /\ Owner(p) /\ Local(p) /\ Fit(p)
      /\ mem[p] \in ProcMem /\ srvEpoch \in Nat /\ mem[p].epoch \in Nat
  BY ImplementingFacts
<1>1. CASE ReadMin(p)
  <2>1. PICK k \in 0 .. MaxUid :
          /\ IF Cached = {} THEN k = 0 ELSE IsLowest(k, Cached)
          /\ Goto(p, IF k <= 1 THEN "finish" ELSE "older", [mem[p] EXCEPT !.known = k])
    BY <1>1 DEF ReadMin
  <2> DEFINE l == IF k <= 1 THEN "finish" ELSE "older"
             m == [mem[p] EXCEPT !.known = k]
  <2>2. Goto(p, l, m) /\ Reading(p)  BY <1>1, <2>1 DEF ReadMin
  <2>3. pc'[p] = l /\ mem'[p] = m /\ m.known = k
    BY <1>0, <2>2, GotoSelf DEF ProcMem
  <2>4. Cached' = Cached /\ \A u \in Cached : k <= u
    BY <2>1, <2>2 DEF Reading, dbVars, Cached, IsLowest
  <2>5. l \in {"finish", "older"}  OBVIOUS
  <2> HIDE DEF l, m
  <2>6. Fit(p)'  BY <2>3, <2>4, <2>5 DEF Fit
  <2> QED BY <2>2, <2>6, ReadingImplements
<1>2. CASE SelectOlder(p)
  <2> DEFINE seen == Newest({u \in Present : u < mem[p].known}, OlderWindow)
             m == [mem[p] EXCEPT !.epoch = srvEpoch, !.seen = seen]
  <2>1. Goto(p, "fetch", m) /\ Reading(p) /\ pc[p] = "older"
    BY <1>2 DEF SelectOlder, At
  <2>2. pc'[p] = "fetch" /\ mem'[p] = m /\ m.seen = seen /\ m.cmd = mem[p].cmd
    BY <1>0, <2>1, GotoSelf DEF ProcMem
  <2>3. Cached' = Cached /\ mem[p].known \in Nat
    BY <1>0, <2>1 DEF Reading, dbVars, Cached, ProcMem
  <2>4. seen \cap Cached = {}
    BY <1>0, <2>1, <2>3 DEF Fit, Newest, Present, Cached
  <2>5. mem[p].cmd = "older"  BY <1>0, <2>1 DEF Owner, OlderLabels
  <2> HIDE DEF m, seen
  <2>6. Fit(p)'  BY <2>2, <2>3, <2>4, <2>5 DEF Fit
  <2> QED BY <2>1, <2>6, ReadingImplements
<1>3. CASE InsertRow(p)
  <2>1. PICK u \in mem[p].todo :
          /\ rows' = [rows EXCEPT ![u] = RowOf(p, u)]
          /\ Goto(p, "insert", [mem[p] EXCEPT !.todo = mem[p].todo \ {u}])
    BY <1>3 DEF InsertRow
  <2> DEFINE m == [mem[p] EXCEPT !.todo = mem[p].todo \ {u}]
  <2>2. pc[p] = "insert" /\ UNCHANGED <<serverVars, validity>>
    BY <1>3 DEF InsertRow, At
  <2>3. pc'[p] = "insert" /\ mem'[p] = m /\ m.todo = mem[p].todo \ {u}
    BY <1>0, <2>1, GotoSelf DEF ProcMem
  <2>4. /\ mem[p].cmd = "older" /\ lock = p
        /\ 1 <= mem[p].epoch /\ mem[p].epoch <= srvEpoch
        /\ mem[p].epoch = srvEpoch => \A v \in Has(mem[p].fresh) : v < uidNext
        /\ mem[p].todo \subseteq Has(mem[p].fresh)
    BY <1>0, <2>2 DEF Owner, OlderLabels, Local, AfterSelect, InBackfill
  <2>5. u \in Uids  BY <1>0 DEF ProcMem
  <2>6. \A v \in Uids : IF v \in {u} THEN rows'[v] # NoRow /\ rows'[v].epoch = mem[p].epoch
                                     ELSE rows'[v] = rows[v]
    BY <1>0, <2>1, <2>4 DEF TypeOK, RowOf, NoRow
  <2> HIDE DEF m
  <2>7. Cached' = Cached \cup {u}  BY <2>5, <2>6 DEF Cached
  <2>8. Fit(p)'
    <3>1. mem[p].todo \cap Cached = {}  BY <1>0, <2>2 DEF Fit
    <3>2. m.todo \cap Cached' = {}  BY <2>3, <2>7, <3>1
    <3> QED BY <2>3, <3>2 DEF Fit
  <2>9. RowsReal'  BY <1>0, <2>2, <2>4, <2>6 DEF RowsReal, Cached, serverVars
  <2>10. Implementing'  BY <2>1, <2>2, <2>4, <2>8, <2>9, LockedImplementing
  <2>11. mem[p].epoch \in Epochs /\ {u} \in SUBSET Uids
    BY <1>0, <2>4, <2>5 DEF ProcMem
  <2>12. \A v \in {u} \cap Cached : rows[v].epoch = mem[p].epoch
    BY <1>0, <2>2 DEF Fit
  <2>13. Allowed
    BY <1>0, <2>2, <2>4, <2>6, <2>11, <2>12, LearnStep
  <2> QED BY <2>10, <2>13
<1>4. CASE InsertDone(p)
  <2>1. mem[p].cmd # "daily"  BY <1>0 DEF Owner
  <2>2. Goto(p, "finish", mem[p]) /\ Reading(p)  BY <1>4, <2>1 DEF InsertDone
  <2>3. Fit(p)'  BY <1>0, <2>2, FitAtRest
  <2> QED BY <2>2, <2>3, ReadingImplements
<1> QED BY <1>1, <1>2, <1>3, <1>4 DEF OlderStep

\* The row of a message the user moved or marked.
LEMMA UserImplements ==
    ASSUME Implementing, Inductive', NEW p \in Procs, UserStep(p)
    PROVE  Implementing' /\ Allowed
<1>0. /\ Inductive /\ TypeOK /\ RowsReal /\ Fit(p) /\ mem[p] \in ProcMem
      /\ rows \in [Uids -> Row] /\ mem[p].todo \subseteq Uids
  BY ImplementingFacts DEF TypeOK, ProcMem
<1>1. Goto(p, "finish", mem[p]) /\ pc[p] = "local" /\ UNCHANGED <<serverVars, validity>>
  BY DEF UserStep, SetReadRow, MoveRow, At
<1>2. Fit(p)'  BY <1>0, <1>1, FitAtRest
<1>3. Present' = Present  BY <1>1 DEF Present, serverVars
<1>4. CASE SetReadRow(p)
  <2>1. PICK u \in mem[p].todo :
          rows' = IF rows[u] = NoRow THEN rows
                  ELSE [rows EXCEPT ![u].unread = mem[p].fresh[u] = "unread"]
    BY <1>4 DEF SetReadRow
  <2>2. \A v \in Uids : \/ rows'[v] = rows[v]
                        \/ /\ v = u /\ rows[u] # NoRow
                           /\ rows'[u] = [rows[u] EXCEPT
                                             !.unread = mem[p].fresh[u] = "unread"]
    BY <1>0, <2>1
  <2>3. \A v \in Uids : /\ rows'[v].epoch = rows[v].epoch
                        /\ rows'[v] = NoRow <=> rows[v] = NoRow
    <3> SUFFICES ASSUME NEW v \in Uids, v = u, rows[u] # NoRow,
                        rows'[u] = [rows[u] EXCEPT !.unread = mem[p].fresh[u] = "unread"]
                 PROVE  rows'[u].epoch = rows[u].epoch /\ rows'[u] # NoRow
      BY <2>2
    <3>1. rows'[u].epoch = rows[u].epoch  BY <1>0 DEF Row
    <3>2. 1 <= rows[u].epoch  BY <1>0 DEF RowsReal, Cached
    <3> QED BY <3>1, <3>2 DEF NoRow
  <2>4. Cached' = Cached /\ RowsShrink  BY <2>3 DEF Cached, RowsShrink
  <2>5. Implementing'  BY <1>1, <1>2, <2>4, CalmImplementing DEF serverVars
  <2>6. \A v \in Cached : rows'[v].epoch = rows[v].epoch  BY <2>3 DEF Cached
  <2> QED BY <1>1, <1>3, <2>4, <2>5, <2>6, Unseen DEF serverVars
<1>5. CASE MoveRow(p)
  <2>1. PICK u \in mem[p].todo : rows' = [rows EXCEPT ![u] = NoRow]
    BY <1>5 DEF MoveRow
  <2>2. u \in Uids /\ Gone(u)
    BY <1>0, <1>1, <1>5 DEF Fit, MoveRow, Gone
  <2>3. RowsShrink  BY <1>0, <2>1 DEF RowsShrink
  <2>4. Implementing'  BY <1>1, <1>2, <2>3, CalmImplementing DEF serverVars
  <2> QED BY <1>0, <1>1, <2>1, <2>2, <2>4, ForgetStep
<1> QED BY <1>4, <1>5 DEF UserStep

LEMMA StepImplements ==
    ASSUME Implementing, "daily" \notin Commands, NoMoveAcrossRebuild, [Next]_vars
    PROVE  Implementing' /\ Allowed
<1>0. Inductive /\ Inductive'  BY InductiveNext DEF Implementing
<1>1. CASE ServerStep  BY <1>0, <1>1, ServerImplements
<1>2. ASSUME NEW p \in Procs, Start(p) PROVE Implementing' /\ Allowed
  BY <1>0, <1>2, StartImplements
<1>3. ASSUME NEW p \in Procs, SyncStep(p) PROVE Implementing' /\ Allowed
  BY <1>0, <1>3, SyncReadImplements, FetchImplements, ClearImplements, StampImplements,
     CommitImplements, FlagImplements, OrganizeImplements DEF SyncStep
<1>4. ASSUME NEW p \in Procs, OlderStep(p) \/ UserStep(p) PROVE Implementing' /\ Allowed
  BY <1>0, <1>4, OlderImplements, UserImplements
<1>5. ASSUME NEW p \in Procs, Finish(p) \/ SessionLost(p) \/ Abort(p)
      PROVE  Implementing' /\ Allowed
  BY <1>0, <1>5, EndImplements DEF Finish, SessionLost, Abort
<1>6. ASSUME UNCHANGED vars PROVE Implementing' /\ Allowed
  <2>1. Allowed  BY <1>6, UnseenReading DEF vars, serverVars, dbVars
  <2>2. RowsReal' /\ \A p \in Procs : Fit(p)'
    BY <1>6 DEF vars, Implementing, RowsReal, Fit, Cached, Gone, Matched
  <2> QED BY <1>0, <2>1, <2>2 DEF Implementing
<1> QED BY <1>1, <1>2, <1>3, <1>4, <1>5, <1>6 DEF Next, Run

LEMMA ImplementingInit == ASSUME Init PROVE Implementing
<1> USE ConstantsAssumption DEF ConstantsAssumption
<1>1. Inductive  BY InductiveInit
<1>2. RowsReal  BY DEF Init, RowsReal, Cached
<1>3. ASSUME NEW p \in Procs PROVE Fit(p)
  <2>1. pc[p] = "idle"  BY DEF Init
  <2> QED BY <2>1 DEF Fit
<1> QED BY <1>1, <1>2, <1>3 DEF Implementing

LEMMA ContractInit == ASSUME Init PROVE Contract!Init
<1> USE ConstantsAssumption DEF ConstantsAssumption
<1>1. Present = 1 .. uidNext - 1
  BY DEF Init, Present, Mailbox
<1>2. Cached = {}  BY DEF Init, Cached
<1> QED BY <1>1, <1>2 DEF Init, Contract!Init

\* Every behaviour of the commands, with any interleaving and any command cut
\* short anywhere, is one of MailCache.
THEOREM ImplementsContract ==
    ASSUME "daily" \notin Commands, NoMoveAcrossRebuild PROVE Spec => KeepsContract
<1>1. Init => Implementing /\ Contract!Init  BY ImplementingInit, ContractInit
<1>2. Implementing /\ [Next]_vars => Implementing' /\ Allowed  BY StepImplements
<1> QED BY <1>1, <1>2, PTL DEF Spec, KeepsContract, Contract!Spec, Allowed

(***************************************************************************)
(* Nothing is missing in the middle.  A sync adds what lies above the      *)
(* highest row it read before, a backfill what lies below the lowest; each *)
(* knows that the server has nothing between its new rows and the old ones *)
(* that it leaves out.  The server may go on meanwhile: what it receives   *)
(* lies above everything, and the rows that go are of mail it has lost.    *)
(***************************************************************************)
HoleFree ==
    \A v, w \in Cached : \A u \in Present : (v < u /\ u < w) => u \in Cached

\* No message is missing above a row up to k, and from k on below a row.
UpTo(k) == \A v \in Cached : \A u \in Present : (v < u /\ u <= k) => u \in Cached
From(k) == \A w \in Cached : \A u \in Present : (k <= u /\ u < w) => u \in Cached

\* S leaves out no message between two of its own, between k and one of its
\* own, between one of its own and k.
Between(S) == \A v, w \in S : \A u \in Present : (v < u /\ u < w) => u \in S
Above(k, S) == \A w \in S : \A u \in Present : (k < u /\ u < w) => u \in S
Below(k, S) == \A v \in S : \A u \in Present : (v < u /\ u < k) => u \in S

\* What a sync is about to add to the rows it found.
Whole(p, S) ==
    /\ \A u \in S : u < uidNext
    /\ mem[p].reset => Between(S)
    /\ ~mem[p].reset => /\ \A u \in S : mem[p].known < u
                        /\ Above(mem[p].known, S)

Growing(p) == /\ pc[p] \in {"search", "fetch", "scan", "stamp", "commit"}
              /\ mem[p].cmd = "sync" /\ ~mem[p].reset

Filling(p) ==
    /\ (pc[p] \in {"low", "select"} \/ Growing(p)) => \A u \in Cached : u <= mem[p].known
    /\ (pc[p] \in {"low", "select"} /\ validity = srvEpoch) => UpTo(mem[p].known)
    /\ (Growing(p) /\ mem[p].epoch = srvEpoch) => UpTo(mem[p].known)
    /\ (pc[p] = "fetch" /\ mem[p].cmd = "sync" /\ mem[p].epoch = srvEpoch)
          => Whole(p, mem[p].seen)
    /\ (pc[p] \in {"scan", "clear", "stamp", "commit"} /\ mem[p].epoch = srvEpoch)
          => Whole(p, Has(mem[p].fresh))

Backfilling(p) ==
    /\ (pc[p] \in {"older", "fetch", "insert"} /\ mem[p].cmd = "older" /\ validity = srvEpoch)
          => mem[p].known < uidNext /\ From(mem[p].known)
    /\ (pc[p] = "fetch" /\ mem[p].cmd = "older" /\ validity = srvEpoch) =>
          /\ \A u \in mem[p].seen : u < mem[p].known
          /\ Below(mem[p].known, mem[p].seen)
          /\ \A u \in Cached : mem[p].known <= u
    /\ (pc[p] = "insert" /\ validity = srvEpoch) =>
          /\ \A u \in Has(mem[p].fresh) : u < mem[p].known
          /\ Below(mem[p].known, Has(mem[p].fresh))
          /\ \A u \in Cached : mem[p].known <= u \/ u \in Has(mem[p].fresh)
          /\ \A u \in Has(mem[p].fresh) \cap Present : u \in mem[p].todo \/ u \in Cached

\* While a batch is being inserted there is a hole: it goes in lowest first.
Settled == (validity = srvEpoch /\ \A p \in Procs : pc[p] # "insert") => HoleFree

HoleInv ==
    /\ Implementing
    /\ Settled
    /\ \A p \in Procs : Filling(p) /\ Backfilling(p)

\* The higher of two messages is among the newest when the lower is.
LEMMA NewestIsUpper ==
    ASSUME NEW S \in SUBSET Uids, NEW n \in Nat, NEW v \in Newest(S, n), NEW u \in S, v <= u
    PROVE  u \in Newest(S, n)
<1> DEFINE A == {w \in S : u <= w}
           B == {w \in S : v <= w}
<1> USE ConstantsAssumption DEF ConstantsAssumption
<1>1. IsFiniteSet(Uids)
  <2>1. 1 \in Int /\ MaxUid \in Int  OBVIOUS
  <2> QED BY <2>1, FS_Interval
<1>2. A \subseteq B /\ B \subseteq Uids
  <2>1. v \in Int /\ u \in Int /\ \A w \in S : w \in Int  BY DEF Newest
  <2>2. \A w \in S : u <= w => v <= w  BY <2>1
  <2> QED BY <2>2
<1>3. IsFiniteSet(B)  BY <1>1, <1>2, FS_Subset
<1>4. IsFiniteSet(A) /\ Cardinality(A) <= Cardinality(B)  BY <1>2, <1>3, FS_Subset
<1>5. Cardinality(A) \in Nat /\ Cardinality(B) \in Nat  BY <1>3, <1>4, FS_CardinalityType
<1>6. Cardinality(B) <= n  BY DEF Newest
<1> HIDE DEF B
<1>7. Cardinality(A) <= n  BY <1>4, <1>5, <1>6
<1> QED BY <1>7 DEF Newest

\* A row whose message the server has stays, while the stamp is up to date.
LEMMA AllowedKeeps ==
    ASSUME Inductive, Allowed, validity = srvEpoch
    PROVE  \A u \in Cached : u \in Cached' \/ u \notin Present
<1> SUFFICES ASSUME NEW u \in Cached, u \in Present PROVE u \in Cached'
  OBVIOUS
<1> DEFINE cache == {<<rows[v].epoch, v>> : v \in Cached}
           server == {<<srvEpoch, v>> : v \in Present}
           msg == <<srvEpoch, u>>
           later == {<<rows'[v].epoch, v>> : v \in Cached'}
<1>1. rows[u].epoch = srvEpoch  BY DEF Inductive, RowsTrustworthy
<1>2. msg \in cache /\ msg \in server  BY <1>1
<1>3. msg \in later => u \in Cached'  OBVIOUS
<1>4. \/ later = cache
      \/ \E new \in SUBSET Contract!Known : later = cache \cup new
      \/ \E m \in cache \ server : later = cache \ {m}
      \/ validity # srvEpoch
  BY DEF Allowed, Contract!Next, Contract!vars, Contract!Receive, Contract!Lose,
         Contract!Renumber, Contract!Learn, Contract!Forget, Contract!Discard,
         Contract!Stamp
<1> HIDE DEF cache, server, msg, later
<1>5. msg \in later  BY <1>2, <1>4
<1> QED BY <1>3, <1>5

\* What stays true around those who wait while a step adds no row.
SteadyStep ==
    /\ ServerMoves
    /\ Cached' \subseteq Cached
    /\ validity' = validity
    /\ validity = srvEpoch => \A u \in Cached : u \in Cached' \/ u \notin Present

LEMMA SteadySets ==
    ASSUME Implementing, TypeOK', SteadyStep, srvEpoch' = srvEpoch
    PROVE  /\ uidNext \in Nat /\ uidNext' \in Nat /\ uidNext <= uidNext'
           /\ \A u \in Present' : u \in Present \/ uidNext <= u
           /\ validity = srvEpoch =>
                 /\ \A u \in Cached : u < uidNext
                 /\ HoleFree => HoleFree'
                 /\ \A k \in Nat : (UpTo(k) /\ k < uidNext) => UpTo(k)'
                 /\ \A k \in Nat : From(k) => From(k)'
           /\ \A S \in SUBSET Uids : (Between(S) /\ \A u \in S : u < uidNext) => Between(S)'
           /\ \A k \in Nat : \A S \in SUBSET Uids :
                 (Above(k, S) /\ \A u \in S : u < uidNext) => Above(k, S)'
           /\ \A k \in Nat : \A S \in SUBSET Uids :
                 (Below(k, S) /\ k < uidNext) => Below(k, S)'
<1> USE ConstantsAssumption DEF ConstantsAssumption
<1>0. Inductive /\ TypeOK  BY DEF Implementing, Inductive
<1>1. uidNext \in Nat /\ uidNext' \in Nat /\ uidNext <= uidNext'
  BY <1>0 DEF TypeOK, SteadyStep, ServerMoves
<1>2. \A u \in Present' : u \in Present \/ uidNext <= u
  BY DEF Present, SteadyStep, ServerMoves
<1>3. Present \subseteq Uids /\ Present' \subseteq Uids /\ Cached \subseteq Uids
  BY DEF Present, Cached
<1>4. ASSUME validity = srvEpoch
      PROVE  /\ \A u \in Cached : u < uidNext
             /\ HoleFree => HoleFree'
             /\ \A k \in Nat : (UpTo(k) /\ k < uidNext) => UpTo(k)'
             /\ \A k \in Nat : From(k) => From(k)'
  <2>1. \A u \in Cached : u < uidNext
    BY <1>0, <1>4 DEF Inductive, RowsTrustworthy, Bounded, Cached
  <2>2. Cached' \subseteq Cached /\ \A u \in Cached : u \in Cached' \/ u \notin Present
    BY <1>4 DEF SteadyStep
  <2>3. HoleFree => HoleFree'  BY <1>1, <1>2, <1>3, <2>1, <2>2 DEF HoleFree
  <2>4. \A k \in Nat : (UpTo(k) /\ k < uidNext) => UpTo(k)'
    BY <1>1, <1>2, <1>3, <2>1, <2>2 DEF UpTo
  <2>5. \A k \in Nat : From(k) => From(k)'
    BY <1>1, <1>2, <1>3, <2>1, <2>2 DEF From
  <2> QED BY <2>1, <2>3, <2>4, <2>5
<1>5. \A S \in SUBSET Uids : (Between(S) /\ \A u \in S : u < uidNext) => Between(S)'
  BY <1>1, <1>2, <1>3 DEF Between
<1>6. \A k \in Nat : \A S \in SUBSET Uids :
         (Above(k, S) /\ \A u \in S : u < uidNext) => Above(k, S)'
  BY <1>1, <1>2, <1>3 DEF Above
<1>7. \A k \in Nat : \A S \in SUBSET Uids : (Below(k, S) /\ k < uidNext) => Below(k, S)'
  BY <1>1, <1>2, <1>3 DEF Below
<1> QED BY <1>1, <1>2, <1>4, <1>5, <1>6, <1>7

\* The part of a process that does not move, after a step that adds no row.
LEMMA SteadyFilling ==
    ASSUME HoleInv, TypeOK', SteadyStep, NEW q \in Procs, pc'[q] = pc[q], mem'[q] = mem[q]
    PROVE  Filling(q)' /\ Backfilling(q)'
<1> USE ConstantsAssumption DEF ConstantsAssumption
<1>0. /\ Implementing /\ Inductive /\ Owner(q) /\ Local(q) /\ TypeOK /\ mem[q] \in ProcMem
      /\ srvEpoch \in Nat /\ validity \in Nat /\ validity <= srvEpoch /\ mem[q].epoch \in Nat
  BY ImplementingFacts DEF HoleInv
<1>1. /\ Filling(q) /\ Backfilling(q)
      /\ mem[q].known \in Nat /\ mem[q].seen \in SUBSET Uids
      /\ Has(mem[q].fresh) \in SUBSET Uids /\ mem[q].todo \in SUBSET Uids
      /\ srvEpoch' \in Nat /\ srvEpoch <= srvEpoch' /\ validity' = validity
      /\ Cached' \subseteq Cached
  <2>1. Filling(q) /\ Backfilling(q)  BY DEF HoleInv
  <2>2. mem[q].known \in Nat /\ mem[q].seen \in SUBSET Uids /\ mem[q].todo \in SUBSET Uids
    BY <1>0 DEF ProcMem
  <2>3. Has(mem[q].fresh) \in SUBSET Uids  BY DEF Has
  <2>4. srvEpoch' \in Nat  BY DEF TypeOK
  <2> QED BY <2>1, <2>2, <2>3, <2>4 DEF SteadyStep, ServerMoves
<1>2. Growing(q)' = Growing(q)  BY DEF Growing
<1>3. /\ (pc[q] \in {"low", "select"} \/ Growing(q))'
            => \A u \in Cached' : u <= mem'[q].known
  BY <1>1, <1>2 DEF Filling
<1>4. (Growing(q) \/ (pc[q] \in {"fetch", "scan", "clear", "stamp", "commit"} /\ mem[q].cmd = "sync"))
         => mem[q].epoch <= srvEpoch
  BY <1>0 DEF Growing, Local, AfterSelect, InSync
<1>5. pc[q] \in {"scan", "clear", "stamp", "commit"} => mem[q].cmd = "sync"
  BY <1>0 DEF Owner, SyncLabels
<1>6. CASE srvEpoch' # srvEpoch
  <2>1. validity # srvEpoch'  BY <1>0, <1>1, <1>6
  <2>2. mem[q].epoch <= srvEpoch => mem[q].epoch # srvEpoch'  BY <1>0, <1>1, <1>6
  <2>3. Filling(q)'  BY <1>1, <1>2, <1>3, <1>4, <1>5, <2>1, <2>2 DEF Filling
  <2>4. Backfilling(q)'  BY <1>1, <2>1 DEF Backfilling
  <2> QED BY <2>3, <2>4
<1>7. CASE srvEpoch' = srvEpoch
  <2>0. uidNext \in Nat /\ uidNext' \in Nat /\ uidNext <= uidNext'
    BY <1>0, <1>7, SteadySets
  <2>1. ASSUME NEW S \in SUBSET Uids, Whole(q, S) PROVE Whole(q, S)'
    <3>1. \A u \in S : u < uidNext  BY <2>1 DEF Whole
    <3>2. \A u \in S : u < uidNext'  BY <2>0, <3>1
    <3>3. Between(S) => Between(S)'  BY <1>0, <1>7, <3>1, SteadySets
    <3>4. Above(mem[q].known, S) => Above(mem[q].known, S)'
      <4>1. PICK k \in Nat : k = mem[q].known  BY <1>1
      <4>2. Above(k, S) => Above(k, S)'  BY <1>0, <1>7, <3>1, SteadySets
      <4>3. k = mem'[q].known  BY <4>1
      <4> QED BY <4>1, <4>2, <4>3 DEF Above
    <3> QED BY <2>1, <3>2, <3>3, <3>4 DEF Whole
  <2>2. ASSUME validity = srvEpoch, mem[q].known < uidNext, UpTo(mem[q].known)
        PROVE  UpTo(mem[q].known)'
    <3>1. PICK k \in Nat : k = mem[q].known  BY <1>1
    <3>2. UpTo(k)'  BY <1>0, <1>7, <2>2, <3>1, SteadySets
    <3> QED BY <3>1, <3>2 DEF UpTo
  <2>3. Filling(q)'
    <3>1. (pc[q] \in {"low", "select"} /\ validity = srvEpoch) => UpTo(mem[q].known)'
      BY <1>0, <1>1, <2>2 DEF Filling, Local, BeforeSelect
    <3>2. (Growing(q) /\ mem[q].epoch = srvEpoch) => UpTo(mem[q].known)'
      <4>1. Growing(q) => /\ validity = mem[q].epoch
                          /\ mem[q].epoch = srvEpoch => mem[q].known < uidNext
        BY <1>0 DEF Growing, Local, AfterSelect, InSync
      <4> QED BY <1>1, <2>2, <4>1 DEF Filling
    <3>3. (pc[q] = "fetch" /\ mem[q].cmd = "sync" /\ mem[q].epoch = srvEpoch)
             => Whole(q, mem[q].seen)'
      <4>1. PICK S \in SUBSET Uids : S = mem[q].seen  BY <1>1
      <4>2. Whole(q, S) => Whole(q, S)'  BY <2>1
      <4>3. S = (mem[q].seen)'  BY <4>1
      <4> QED BY <1>1, <4>1, <4>2, <4>3 DEF Filling
    <3>4. (pc[q] \in {"scan", "clear", "stamp", "commit"} /\ mem[q].epoch = srvEpoch)
             => Whole(q, Has(mem[q].fresh))'
      <4>1. PICK S \in SUBSET Uids : S = Has(mem[q].fresh)  BY <1>1
      <4>2. Whole(q, S) => Whole(q, S)'  BY <2>1
      <4>3. S = Has(mem[q].fresh)'  BY <4>1 DEF Has
      <4> QED BY <1>1, <4>1, <4>2, <4>3 DEF Filling
    <3> QED BY <1>1, <1>2, <1>3, <1>7, <3>1, <3>2, <3>3, <3>4 DEF Filling
  <2>4. Backfilling(q)'
    <3> SUFFICES ASSUME validity = srvEpoch, mem[q].cmd = "older" \/ pc[q] = "insert",
                        pc[q] \in {"older", "fetch", "insert"}
                 PROVE  Backfilling(q)'
      BY <1>1, <1>7 DEF Backfilling
    <3>1. PICK k \in Nat : k = mem[q].known  BY <1>1
    <3>2. PICK H \in SUBSET Uids : H = Has(mem[q].fresh)  BY <1>1
    <3>3. PICK S \in SUBSET Uids : S = mem[q].seen  BY <1>1
    <3>4. mem[q].cmd = "older"  BY <1>0 DEF Owner, OlderLabels
    <3>5. k < uidNext /\ From(k)  BY <1>1, <3>1, <3>4 DEF Backfilling
    <3>6. From(k)' /\ (Below(k, S) => Below(k, S)') /\ (Below(k, H) => Below(k, H)')
      BY <1>0, <1>7, <3>5, SteadySets
    <3>7. k = mem'[q].known /\ H = Has(mem'[q].fresh) /\ S = mem'[q].seen
      BY <3>1, <3>2, <3>3
    <3>8. k < uidNext'  BY <2>0, <3>5
    <3>9. \A u \in Cached : u \in Cached' \/ u \notin Present  BY DEF SteadyStep
    <3>10. pc[q] = "insert" =>
             \A u \in H \cap Present' : u \in mem[q].todo \/ u \in Cached'
      <4> SUFFICES ASSUME pc[q] = "insert", NEW u \in H, u \in Present'
                   PROVE  u \in mem[q].todo \/ u \in Cached'
        OBVIOUS
      <4>1. u < k  BY <1>1, <3>1, <3>2 DEF Backfilling
      <4>2. u \in Present
        <5>1. u \in Present \/ uidNext <= u  BY <1>0, <1>7, SteadySets
        <5>2. u \in Nat  BY <3>2
        <5> QED BY <2>0, <3>5, <4>1, <5>1, <5>2
      <4> QED BY <1>1, <3>2, <3>9, <4>2 DEF Backfilling
    <3> QED BY <1>1, <3>1, <3>2, <3>3, <3>5, <3>6, <3>7, <3>8, <3>10
            DEF Backfilling, From, Below
  <2> QED BY <2>3, <2>4
<1> QED BY <1>6, <1>7

\* The statements at which a process has nothing to add.
RestLabels == {"idle", "validity", "max", "list", "flags", "organize", "orgMove",
               "orgDelete", "min", "local", "finish"}

LEMMA NothingToAdd ==
    ASSUME NEW p \in Procs, pc[p] \in RestLabels PROVE Filling(p) /\ Backfilling(p)
BY DEF RestLabels, Filling, Backfilling, Growing

\* A step that adds no row.
LEMMA SteadyHole ==
    ASSUME HoleInv, Implementing', SteadyStep, NEW p \in Procs, NEW l, NEW m, Goto(p, l, m),
           Filling(p)' /\ Backfilling(p)',
           (pc[p] = "insert" /\ l # "insert" /\ validity = srvEpoch) => HoleFree
    PROVE  HoleInv'
<1>0. /\ Implementing /\ Inductive /\ TypeOK /\ TypeOK' /\ pc'[p] = l
      /\ srvEpoch \in Nat /\ srvEpoch' \in Nat /\ validity \in Nat /\ validity <= srvEpoch
  <2>1. Implementing /\ Inductive /\ TypeOK /\ TypeOK'
    BY DEF HoleInv, Implementing, Inductive
  <2>2. srvEpoch \in Nat /\ validity \in Nat /\ validity <= srvEpoch
    BY <2>1, ImplementingFacts
  <2>3. srvEpoch' \in Nat
    BY <2>1, ConstantsAssumption DEF TypeOK, ConstantsAssumption
  <2> QED BY <2>1, <2>2, <2>3, GotoSelf
<1>1. ASSUME NEW q \in Procs, q # p
      PROVE  pc'[q] = pc[q] /\ Filling(q)' /\ Backfilling(q)'
  <2>1. pc'[q] = pc[q] /\ mem'[q] = mem[q]  BY <1>0, <1>1 DEF Goto, TypeOK
  <2> QED BY <1>0, <2>1, SteadyFilling
<1>2. Settled'
  <2> SUFFICES ASSUME validity' = srvEpoch', \A q \in Procs : pc'[q] # "insert"
               PROVE  HoleFree'
    BY DEF Settled
  <2>1. validity = srvEpoch /\ srvEpoch' = srvEpoch
    BY <1>0 DEF SteadyStep, ServerMoves
  <2>2. HoleFree
    <3>1. CASE pc[p] = "insert"  BY <1>0, <2>1, <3>1
    <3>2. CASE pc[p] # "insert"
      <4>1. \A q \in Procs : pc[q] # "insert"  BY <1>1, <3>2
      <4> QED BY <2>1, <4>1 DEF HoleInv, Settled
    <3> QED BY <3>1, <3>2
  <2> QED BY <1>0, <2>1, <2>2, SteadySets
<1> QED BY <1>1, <1>2 DEF HoleInv

\* A step of the holder of the lock that may add rows.
LEMMA LockedHole ==
    ASSUME HoleInv, Implementing', NEW p \in Procs, NEW l, NEW m, Goto(p, l, m), lock = p,
           Filling(p)' /\ Backfilling(p)', Settled'
    PROVE  HoleInv'
<1>0. Inductive /\ TypeOK  BY DEF HoleInv, Implementing, Inductive
<1>1. ASSUME NEW q \in Procs, q # p PROVE Filling(q)' /\ Backfilling(q)'
  <2>1. pc'[q] = pc[q] /\ mem'[q] = mem[q]  BY <1>0, <1>1 DEF Goto, TypeOK
  <2>2. mem[q].cmd \notin {"sync", "older"}
        /\ pc[q] \notin SyncLabels \cup OlderLabels \cup {"fetch"}
    BY <1>0, <1>1 DEF Inductive, Owner
  <2> QED BY <2>1, <2>2 DEF Filling, Backfilling, Growing, SyncLabels, OlderLabels
<1> QED BY <1>1 DEF HoleInv

\* What the invariant says of the process that makes a step.
LEMMA HoleFacts ==
    ASSUME HoleInv, NEW p \in Procs
    PROVE  /\ Implementing /\ Inductive /\ TypeOK /\ Owner(p) /\ Local(p) /\ Fit(p)
           /\ Filling(p) /\ Backfilling(p) /\ mem[p] \in ProcMem
           /\ srvEpoch \in Nat /\ validity \in Nat /\ validity <= srvEpoch
           /\ mem[p].epoch \in Nat /\ mem[p].known \in Nat /\ mem[p].seen \in SUBSET Uids
           /\ mem[p].todo \in SUBSET Uids /\ Has(mem[p].fresh) \in SUBSET Uids
           /\ uidNext \in Nat
           /\ validity = srvEpoch => \A u \in Cached : u < uidNext
           /\ \A u \in Present : u < uidNext
<1>1. Implementing /\ Filling(p) /\ Backfilling(p)  BY DEF HoleInv
<1>2. /\ Inductive /\ TypeOK /\ Owner(p) /\ Local(p) /\ Fit(p)
      /\ mem[p] \in ProcMem
      /\ srvEpoch \in Nat /\ validity \in Nat /\ validity <= srvEpoch
      /\ mem[p].epoch \in Nat
  BY <1>1, ImplementingFacts
<1>3. mem[p].known \in Nat /\ mem[p].seen \in SUBSET Uids /\ mem[p].todo \in SUBSET Uids
  BY <1>2 DEF ProcMem
<1>4. Has(mem[p].fresh) \in SUBSET Uids  BY DEF Has
<1>5. uidNext \in Nat  BY <1>2, ConstantsAssumption DEF TypeOK, ConstantsAssumption
<1>6. \A u \in Present : u < uidNext  BY <1>2 DEF Inductive, Bounded, Present
<1>7. validity = srvEpoch => \A u \in Cached : u < uidNext
  BY <1>2 DEF Inductive, RowsTrustworthy, Bounded, Cached
<1> QED BY <1>1, <1>2, <1>3, <1>4, <1>5, <1>6, <1>7

\* Whoever holds the lock is the only one who may be inserting.
LEMMA HolderInserts ==
    ASSUME HoleInv, NEW p \in Procs, lock = p, pc[p] # "insert", validity = srvEpoch
    PROVE  HoleFree
<1>1. ASSUME NEW q \in Procs PROVE pc[q] # "insert"
  <2>1. Owner(q)  BY DEF HoleInv, Implementing, Inductive
  <2> QED BY <2>1 DEF Owner, OlderLabels
<1> QED BY <1>1 DEF HoleInv, Settled

\* A step that only reads, once p's own part is there.
LEMMA ReadingHole ==
    ASSUME HoleInv, Implementing', NEW p \in Procs, NEW l, NEW m, Goto(p, l, m), Reading(p),
           Filling(p)' /\ Backfilling(p)', pc[p] # "insert"
    PROVE  HoleInv'
<1>1. Cached' = Cached /\ validity' = validity /\ srv' = srv
      /\ srvEpoch' = srvEpoch /\ uidNext' = uidNext
  BY DEF Reading, dbVars, serverVars, Cached
<1>2. srvEpoch \in Nat /\ uidNext \in Nat  BY HoleFacts
<1>3. SteadyStep  BY <1>1, <1>2 DEF SteadyStep, ServerMoves
<1> QED BY <1>3, SteadyHole

\* The sets of the invariant, when neither the server nor the table moves.
LEMMA ReadingSets ==
    ASSUME NEW p, Reading(p)
    PROVE  /\ Present' = Present /\ Cached' = Cached /\ validity' = validity
           /\ srvEpoch' = srvEpoch /\ uidNext' = uidNext /\ rows' = rows /\ srv' = srv
           /\ \A k : UpTo(k)' = UpTo(k)
           /\ \A k : From(k)' = From(k)
           /\ \A S : Between(S)' = Between(S)
           /\ \A k, S : Above(k, S)' = Above(k, S)
           /\ \A k, S : Below(k, S)' = Below(k, S)
<1>1. /\ Present' = Present /\ Cached' = Cached /\ validity' = validity
      /\ srvEpoch' = srvEpoch /\ uidNext' = uidNext /\ rows' = rows /\ srv' = srv
  BY DEF Reading, serverVars, dbVars, Present, Cached
<1> QED BY <1>1 DEF UpTo, From, Between, Above, Below

LEMMA HoleReadMax ==
    ASSUME HoleInv, Implementing', NEW p \in Procs, ReadMax(p) \/ ReadLow(p)
    PROVE  HoleInv'
<1>0. /\ Inductive /\ TypeOK /\ Owner(p) /\ Local(p) /\ Filling(p) /\ mem[p] \in ProcMem
      /\ mem[p].known \in Nat
  BY HoleFacts
<1>1. CASE ReadMax(p)
  <2>1. PICK k \in 0 .. MaxUid :
          /\ IF Cached = {} THEN k = 0 ELSE IsHighest(k, Cached)
          /\ Goto(p, "low", [mem[p] EXCEPT !.known = k])
    BY <1>1 DEF ReadMax
  <2> DEFINE m == [mem[p] EXCEPT !.known = k]
  <2>2. Goto(p, "low", m) /\ Reading(p) /\ pc[p] = "max"  BY <1>1, <2>1 DEF ReadMax, At
  <2>3. pc'[p] = "low" /\ mem'[p] = m /\ m.known = k
    BY <1>0, <2>2, GotoSelf DEF ProcMem
  <2>4. lock = p  BY <1>0, <2>2 DEF Owner, SyncLabels
  <2>5. \A u \in Cached : u <= k  BY <2>1 DEF IsHighest
  <2>6. validity = srvEpoch => UpTo(k)
    <3> SUFFICES ASSUME validity = srvEpoch, NEW v \in Cached, NEW u \in Present, v < u, u <= k
                 PROVE  u \in Cached
      BY DEF UpTo
    <3>1. HoleFree  BY <2>2, <2>4, HolderInserts
    <3>2. k \in Cached  BY <2>1 DEF IsHighest
    <3>3. u \in Int /\ k \in Int  BY DEF Present
    <3>4. u = k \/ u < k  BY <3>3
    <3> QED BY <3>1, <3>2, <3>4 DEF HoleFree
  <2> HIDE DEF m
  <2>7. Filling(p)'
    BY <2>2, <2>3, <2>5, <2>6, ReadingSets DEF Filling, Growing, UpTo
  <2>8. Backfilling(p)'  BY <2>3 DEF Backfilling
  <2> QED BY <2>2, <2>7, <2>8, ReadingHole
<1>2. CASE ReadLow(p)
  <2>1. PICK k \in 1 .. MaxUid + 1 : Goto(p, "select", [mem[p] EXCEPT !.low = k])
    BY <1>2 DEF ReadLow
  <2> DEFINE m == [mem[p] EXCEPT !.low = k]
  <2>2. Goto(p, "select", m) /\ Reading(p) /\ pc[p] = "low"  BY <1>2, <2>1 DEF ReadLow, At
  <2>3. pc'[p] = "select" /\ mem'[p] = m /\ m.known = mem[p].known
    BY <1>0, <2>2, GotoSelf DEF ProcMem
  <2> HIDE DEF m
  <2>4. Filling(p)'
    BY <1>0, <2>2, <2>3, ReadingSets DEF Filling, Growing, UpTo
  <2>5. Backfilling(p)'  BY <2>3 DEF Backfilling
  <2> QED BY <2>2, <2>4, <2>5, ReadingHole
<1> QED BY <1>1, <1>2

LEMMA HoleSelect ==
    ASSUME HoleInv, Implementing', NEW p \in Procs, Select(p) PROVE HoleInv'
<1>0. /\ Inductive /\ TypeOK /\ Owner(p) /\ Local(p) /\ Filling(p) /\ mem[p] \in ProcMem
      /\ mem[p].known \in Nat /\ \A u \in Present : u < uidNext
  BY HoleFacts
<1> DEFINE seen == IF NeedsReset(p) THEN Newest(Present, InitialWindow) ELSE {}
           l == IF NeedsReset(p) THEN "fetch" ELSE "search"
           m == [mem[p] EXCEPT !.epoch = srvEpoch, !.reset = NeedsReset(p), !.seen = seen]
<1>1. Goto(p, l, m) /\ Reading(p) /\ pc[p] = "select"  BY DEF Select, At
<1>2. pc'[p] = l /\ mem'[p] = m  BY <1>0, <1>1, GotoSelf
<1>3. /\ m.cmd = mem[p].cmd /\ m.epoch = srvEpoch /\ m.reset = NeedsReset(p)
      /\ m.known = mem[p].known /\ m.seen = seen /\ mem[p].cmd = "sync"
  BY <1>0, <1>1 DEF ProcMem, Owner, SyncLabels
<1>4. ~NeedsReset(p) => validity = srvEpoch
  BY <1>0, <1>1 DEF NeedsReset, Local, BeforeSelect
<1>5. NeedsReset(p) => Between(seen) /\ \A u \in seen : u < uidNext
  <2> SUFFICES ASSUME NeedsReset(p)
               PROVE  Between(Newest(Present, InitialWindow))
                      /\ \A u \in Newest(Present, InitialWindow) : u < uidNext
    OBVIOUS
  <2>1. Present \in SUBSET Uids /\ InitialWindow \in Nat
    BY ConstantsAssumption DEF Present, ConstantsAssumption
  <2>2. ASSUME NEW v \in Newest(Present, InitialWindow), NEW u \in Present, v < u
        PROVE  u \in Newest(Present, InitialWindow)
    <3>1. v \in Int /\ u \in Int  BY <2>1 DEF Newest
    <3>2. v <= u  BY <2>2, <3>1
    <3> QED BY <2>1, <3>2, NewestIsUpper
  <2>3. Between(Newest(Present, InitialWindow))  BY <2>2 DEF Between
  <2> QED BY <1>0, <2>3 DEF Newest
<1>6. \/ NeedsReset(p) /\ l = "fetch"
      \/ ~NeedsReset(p) /\ l = "search"
  OBVIOUS
<1>7. NeedsReset(p) = m.reset  BY <1>3
<1> HIDE DEF l, m, seen, NeedsReset
<1>8. Filling(p)'
  <2>1. CASE NeedsReset(p) /\ l = "fetch"
    <3>1. Whole(p, mem[p].seen)'
      BY <1>1, <1>2, <1>3, <1>5, <2>1, ReadingSets DEF Whole, Between
    <3> QED BY <1>1, <1>2, <1>3, <2>1, <3>1 DEF Filling, Growing
  <2>2. CASE ~NeedsReset(p) /\ l = "search"
    BY <1>0, <1>1, <1>2, <1>3, <1>4, <2>2, ReadingSets DEF Filling, Growing, UpTo
  <2> QED BY <1>6, <2>1, <2>2
<1>9. Backfilling(p)'  BY <1>2, <1>3, <1>6 DEF Backfilling
<1> QED BY <1>1, <1>8, <1>9, ReadingHole

LEMMA HoleSearch ==
    ASSUME HoleInv, Implementing', NEW p \in Procs, Search(p) PROVE HoleInv'
<1>0. /\ Inductive /\ TypeOK /\ Owner(p) /\ Local(p) /\ Filling(p) /\ mem[p] \in ProcMem
      /\ mem[p].known \in Nat /\ \A u \in Present : u < uidNext
  BY HoleFacts
<1> DEFINE hits == {u \in Present : u > mem[p].known} \cup Newest(Present, 1)
           seen == {u \in hits : u > mem[p].known}
           m == [mem[p] EXCEPT !.seen = seen]
<1>1. Goto(p, "fetch", m) /\ Reading(p) /\ pc[p] = "search"  BY DEF Search, At
<1>2. pc'[p] = "fetch" /\ mem'[p] = m  BY <1>0, <1>1, GotoSelf
<1>3. /\ m.cmd = "sync" /\ m.epoch = mem[p].epoch /\ ~m.reset
      /\ m.known = mem[p].known /\ m.seen = seen /\ Growing(p)
  BY <1>0, <1>1 DEF ProcMem, Owner, SyncLabels, Local, AfterSelect, Growing
<1>4. seen = {u \in Present : mem[p].known < u}
  <2>1. Newest(Present, 1) \subseteq Present /\ Present \subseteq Int
    BY DEF Newest, Present
  <2> QED BY <1>0, <2>1
<1> HIDE DEF m, seen
<1>5. Above(mem[p].known, seen) /\ \A u \in seen : u < uidNext /\ mem[p].known < u
  BY <1>0, <1>4 DEF Above
<1>6. Whole(p, mem[p].seen)'
  BY <1>1, <1>2, <1>3, <1>5, ReadingSets DEF Whole, Above
<1>7. Filling(p)'
  BY <1>0, <1>1, <1>2, <1>3, <1>6, ReadingSets DEF Filling, Growing, UpTo
<1>8. Backfilling(p)'  BY <1>2, <1>3 DEF Backfilling
<1> QED BY <1>1, <1>7, <1>8, ReadingHole

\* What FETCH returns of a set: those of its messages that are still there.
LEMMA FetchedIsPresent ==
    ASSUME NEW S \in SUBSET Uids PROVE Has(Fetched(S)) = S \cap Present
BY DEF Has, Fetched, Present

LEMMA WholeKept ==
    ASSUME NEW p, NEW S, Whole(p, S), Present' = Present, uidNext' = uidNext,
           mem'[p].reset = mem[p].reset, mem'[p].known = mem[p].known
    PROVE  Whole(p, S)'
BY DEF Whole, Between, Above

LEMMA HoleFetch ==
    ASSUME HoleInv, Implementing', NEW p \in Procs, Fetch(p) PROVE HoleInv'
<1>0. /\ Inductive /\ TypeOK /\ Owner(p) /\ Local(p) /\ Filling(p) /\ Backfilling(p)
      /\ mem[p] \in ProcMem /\ mem[p].known \in Nat /\ mem[p].seen \in SUBSET Uids
  BY HoleFacts
<1> DEFINE got == Fetched(mem[p].seen)
           l == IF mem[p].cmd = "older" THEN "insert"
                ELSE IF mem[p].reset THEN "clear" ELSE "scan"
           m == [mem[p] EXCEPT !.fresh = got,
                               !.todo = IF mem[p].cmd = "older" THEN Has(got) ELSE {}]
<1>1. Goto(p, l, m) /\ Reading(p) /\ pc[p] = "fetch"  BY DEF Fetch, At
<1>2. pc'[p] = l /\ mem'[p] = m  BY <1>0, <1>1, GotoSelf
<1>3. /\ m.cmd = mem[p].cmd /\ m.epoch = mem[p].epoch /\ m.reset = mem[p].reset
      /\ m.known = mem[p].known /\ m.fresh = got
      /\ mem[p].cmd = "older" => m.todo = Has(got)
  BY <1>0 DEF ProcMem
<1>4. Has(got) = mem[p].seen \cap Present  BY <1>0, FetchedIsPresent
<1>5. /\ l \in {"insert", "clear", "scan"}
      /\ l = "insert" <=> mem[p].cmd = "older"
      /\ l = "clear" => mem[p].reset
      /\ l = "scan" => ~mem[p].reset
  OBVIOUS
<1>6. mem[p].cmd \in {"sync", "older"}  BY <1>0, <1>1 DEF Owner
<1> HIDE DEF l, m, got
<1>7. CASE mem[p].cmd = "sync"
  <2>1. mem[p].epoch = srvEpoch => Whole(p, mem[p].seen)
    BY <1>0, <1>1, <1>7 DEF Filling
  <2>2. mem[p].epoch = srvEpoch => Whole(p, Has(mem[p].fresh))'
    <3> SUFFICES ASSUME Whole(p, mem[p].seen) PROVE Whole(p, Has(mem[p].fresh))'
      BY <2>1
    <3>1. \A u \in Has(got) : u \in mem[p].seen  BY <1>4
    <3>2. Between(mem[p].seen) => Between(Has(got))  BY <1>4 DEF Between
    <3>3. Above(mem[p].known, mem[p].seen) => Above(mem[p].known, Has(got))
      BY <1>4 DEF Above
    <3>4. PICK H : H = Has(got)  OBVIOUS
    <3>5. Whole(p, H)  BY <3>1, <3>2, <3>3, <3>4 DEF Whole
    <3>6. Whole(p, H)'  BY <1>1, <1>2, <1>3, <3>5, ReadingSets, WholeKept
    <3>7. H = Has(mem[p].fresh)'  BY <1>2, <1>3, <3>4 DEF Has
    <3> QED BY <3>6, <3>7
  <2>3. Growing(p)' => Growing(p)  BY <1>1, <1>2, <1>3, <1>5, <1>7 DEF Growing
  <2>4. Filling(p)'
    BY <1>0, <1>1, <1>2, <1>3, <1>5, <1>7, <2>2, <2>3, ReadingSets DEF Filling, UpTo
  <2>5. Backfilling(p)'  BY <1>2, <1>3, <1>5, <1>7 DEF Backfilling
  <2> QED BY <1>1, <2>4, <2>5, ReadingHole
<1>8. CASE mem[p].cmd = "older"
  <2>1. Filling(p)'  BY <1>2, <1>3, <1>5, <1>8 DEF Filling, Growing
  <2>2. Backfilling(p)'
    <3>1. validity = srvEpoch =>
            /\ mem[p].known < uidNext /\ From(mem[p].known)
            /\ \A u \in mem[p].seen : u < mem[p].known
            /\ Below(mem[p].known, mem[p].seen)
            /\ \A u \in Cached : mem[p].known <= u
      BY <1>0, <1>1, <1>8 DEF Backfilling
    <3>2. Below(mem[p].known, mem[p].seen) => Below(mem[p].known, Has(got))
      BY <1>4 DEF Below
    <3>3. pc'[p] = "insert"  BY <1>2, <1>5, <1>8
    <3>4. validity = srvEpoch =>
            /\ \A u \in Has(got) : u < mem[p].known
            /\ Below(mem[p].known, Has(got))
      BY <1>4, <3>1, <3>2
    <3>5. m.todo = Has(got)  BY <1>3, <1>8
    <3> QED BY <1>1, <1>2, <1>3, <3>1, <3>3, <3>4, <3>5, ReadingSets
            DEF Backfilling, From, Below
  <2> QED BY <1>1, <2>1, <2>2, ReadingHole
<1> QED BY <1>6, <1>7, <1>8

LEMMA HoleScan ==
    ASSUME HoleInv, Implementing', NEW p \in Procs, Scan(p) PROVE HoleInv'
<1>0. Inductive /\ TypeOK /\ Owner(p) /\ Local(p) /\ Filling(p) /\ mem[p] \in ProcMem
  BY HoleFacts
<1> DEFINE m == [mem[p] EXCEPT !.scan = Fetched({u \in Present : mem[p].low <= u}
                                                   \cup Newest(Present, 1))]
<1>1. Goto(p, "stamp", m) /\ Reading(p) /\ pc[p] = "scan"  BY DEF Scan, At
<1>2. pc'[p] = "stamp" /\ mem'[p] = m  BY <1>0, <1>1, GotoSelf
<1>3. /\ m.cmd = "sync" /\ m.epoch = mem[p].epoch /\ m.reset = mem[p].reset /\ ~mem[p].reset
      /\ m.known = mem[p].known /\ m.fresh = mem[p].fresh /\ Growing(p)
  BY <1>0, <1>1 DEF ProcMem, Owner, SyncLabels, Local, AfterSelect, Growing
<1> HIDE DEF m
<1>4. mem[p].epoch = srvEpoch => Whole(p, Has(mem[p].fresh))'
  <2>1. PICK H : H = Has(mem[p].fresh)  OBVIOUS
  <2>2. mem[p].epoch = srvEpoch => Whole(p, H)  BY <1>0, <1>1, <2>1 DEF Filling
  <2>3. mem[p].epoch = srvEpoch => Whole(p, H)'
    BY <1>1, <1>2, <1>3, <2>2, ReadingSets, WholeKept
  <2>4. H = Has(mem[p].fresh)'  BY <1>2, <1>3, <2>1 DEF Has
  <2> QED BY <2>3, <2>4
<1>5. Filling(p)'
  BY <1>0, <1>1, <1>2, <1>3, <1>4, ReadingSets DEF Filling, Growing, UpTo
<1>6. Backfilling(p)'  BY <1>2, <1>3 DEF Backfilling
<1> QED BY <1>1, <1>5, <1>6, ReadingHole

LEMMA HoleClear ==
    ASSUME HoleInv, Implementing', Allowed, NEW p \in Procs, ClearFolder(p) PROVE HoleInv'
<1>0. /\ Inductive /\ TypeOK /\ Owner(p) /\ Local(p) /\ Filling(p) /\ mem[p] \in ProcMem
      /\ srvEpoch \in Nat /\ uidNext \in Nat
  BY HoleFacts
<1>1. Goto(p, "stamp", mem[p]) /\ pc[p] = "clear" /\ UNCHANGED <<serverVars, validity>>
      /\ Cached' = {} /\ Present' = Present
  BY DEF ClearFolder, At, serverVars, Cached, Present
<1>2. pc'[p] = "stamp" /\ mem'[p] = mem[p]  BY <1>0, <1>1, GotoSelf
<1>3. SteadyStep
  <2>1. ServerMoves  BY <1>0, <1>1 DEF ServerMoves, serverVars
  <2>2. validity = srvEpoch => \A u \in Cached : u \in Cached' \/ u \notin Present
    BY <1>0, AllowedKeeps
  <2> QED BY <1>1, <2>1, <2>2 DEF SteadyStep
<1>4. mem[p].reset /\ mem[p].cmd = "sync"
  BY <1>0, <1>1 DEF Local, AfterSelect, Owner, SyncLabels
<1>5. mem[p].epoch = srvEpoch => Whole(p, Has(mem[p].fresh))'
  BY <1>0, <1>1, <1>2 DEF Filling, Whole, Between, Above, serverVars
<1>6. Filling(p)'
  BY <1>1, <1>2, <1>4, <1>5 DEF Filling, Growing, serverVars
<1>7. Backfilling(p)'  BY <1>2 DEF Backfilling
<1> QED BY <1>1, <1>3, <1>6, <1>7, SteadyHole

\* set_uidvalidity: a folder that starts from nothing is empty by now.
LEMMA HoleStamp ==
    ASSUME HoleInv, Implementing', NEW p \in Procs, SetValidity(p) PROVE HoleInv'
<1>0. /\ Inductive /\ TypeOK /\ Owner(p) /\ Local(p) /\ Filling(p) /\ mem[p] \in ProcMem
  BY HoleFacts
<1>1. pc[p] = "stamp" /\ UNCHANGED <<serverVars, rows>> /\ validity' = mem[p].epoch
      /\ Cached' = Cached /\ Present' = Present
  BY DEF SetValidity, At, serverVars, Cached, Present
<1>2. mem[p].cmd = "sync" /\ lock = p  BY <1>0, <1>1 DEF Owner, SyncLabels
<1>3. Goto(p, "commit", mem[p])  BY <1>2 DEF SetValidity
<1>4. pc'[p] = "commit" /\ mem'[p] = mem[p]  BY <1>0, <1>3, GotoSelf
<1>5. Settled'
  <2> SUFFICES ASSUME validity' = srvEpoch' PROVE HoleFree'  BY DEF Settled
  <2>1. CASE mem[p].reset
    <3>1. Cached = {}  BY <1>0, <1>1, <2>1 DEF Local, AfterSelect
    <3> QED BY <1>1, <3>1 DEF HoleFree
  <2>2. CASE ~mem[p].reset
    <3>1. validity = srvEpoch
      BY <1>0, <1>1, <1>2, <2>2 DEF Local, AfterSelect, InSync, serverVars
    <3>2. HoleFree  BY <1>1, <1>2, <3>1, HolderInserts
    <3> QED BY <1>1, <3>2 DEF HoleFree
  <2> QED BY <2>1, <2>2
<1>6. mem[p].epoch = srvEpoch => Whole(p, Has(mem[p].fresh))'
  BY <1>0, <1>1, <1>4 DEF Filling, Whole, Between, Above, serverVars
<1>7. Filling(p)'
  BY <1>0, <1>1, <1>2, <1>4, <1>6 DEF Filling, Growing, UpTo, serverVars
<1>8. Backfilling(p)'  BY <1>4 DEF Backfilling
<1> QED BY <1>2, <1>3, <1>5, <1>7, <1>8, LockedHole

\* The transaction: what it adds lies above the rows, and nothing in between.
LEMMA HoleCommit ==
    ASSUME HoleInv, Implementing', NEW p \in Procs, Commit(p) PROVE HoleInv'
<1>0. /\ Inductive /\ TypeOK /\ Owner(p) /\ Local(p) /\ RowsReal /\ Filling(p)
      /\ mem[p] \in ProcMem /\ mem[p].known \in Nat
      /\ Has(mem[p].fresh) \in SUBSET Uids
  BY HoleFacts DEF Implementing
<1> DEFINE l == IF mem[p].reset THEN "organize" ELSE "list"
           new == Has(mem[p].fresh)
<1>1. /\ pc[p] = "commit" /\ Goto(p, l, mem[p]) /\ UNCHANGED <<serverVars, validity>>
      /\ rows' = [u \in Uids |-> IF u \in new THEN RowOf(p, u) ELSE rows[u]]
      /\ Present' = Present
  BY DEF Commit, At, serverVars, Present
<1>2. /\ mem[p].cmd = "sync" /\ lock = p /\ 1 <= mem[p].epoch /\ validity = mem[p].epoch
      /\ mem[p].reset => Cached = {}
  BY <1>0, <1>1 DEF Owner, SyncLabels, Local, AfterSelect, InSync
<1>3. pc'[p] = l /\ l \in RestLabels  BY <1>0, <1>1, GotoSelf DEF RestLabels
<1>4. Filling(p)' /\ Backfilling(p)'
  BY <1>3 DEF RestLabels, Filling, Backfilling, Growing
<1>5. Cached' = Cached \cup new
  BY <1>0, <1>1, <1>2 DEF Cached, RowOf, NoRow
<1>6. Settled'
  <2> SUFFICES ASSUME validity' = srvEpoch' PROVE HoleFree'  BY DEF Settled
  <2>1. mem[p].epoch = srvEpoch /\ Whole(p, new)
    BY <1>0, <1>1, <1>2 DEF serverVars, Filling
  <2>2. Cached \subseteq Int /\ new \subseteq Int /\ Present \subseteq Int
    BY <1>0 DEF Cached, Present
  <2>3. CASE mem[p].reset
    BY <1>1, <1>2, <1>5, <2>1, <2>3 DEF HoleFree, Whole, Between
  <2>4. CASE ~mem[p].reset
    <3> DEFINE k == mem[p].known
    <3>1. /\ k \in Int
          /\ \A u \in Cached : u <= k
          /\ \A v \in Cached : \A u \in Present : (v < u /\ u <= k) => u \in Cached
          /\ \A u \in new : k < u
          /\ \A w \in new : \A u \in Present : (k < u /\ u < w) => u \in new
      <4>1. UpTo(k) /\ \A u \in Cached : u <= k
        BY <1>0, <1>1, <1>2, <2>1, <2>4 DEF Filling, Growing
      <4> QED BY <1>0, <2>1, <2>4, <4>1 DEF Whole, UpTo, Above
    <3> HIDE DEF k, new
    <3>2. ASSUME NEW v \in Cached \cup new, NEW w \in Cached \cup new, NEW u \in Present,
                 v < u, u < w
          PROVE  u \in Cached \cup new
      <4>0. v \in Int /\ w \in Int /\ u \in Int  BY <2>2
      <4>1. CASE u <= k
        <5>1. v \notin new  BY <3>1, <3>2, <4>0, <4>1
        <5> QED BY <3>1, <3>2, <4>1, <5>1
      <4>2. CASE k < u
        <5>1. w \notin Cached  BY <3>1, <3>2, <4>0, <4>2
        <5> QED BY <3>1, <3>2, <4>2, <5>1
      <4> QED BY <3>1, <4>0, <4>1, <4>2
    <3> QED BY <1>1, <1>5, <3>2 DEF HoleFree
  <2> QED BY <2>3, <2>4
<1> HIDE DEF l
<1> QED BY <1>1, <1>2, <1>4, <1>6, LockedHole

\* The backfill.
LEMMA HoleReadMin ==
    ASSUME HoleInv, Implementing', NEW p \in Procs, ReadMin(p) PROVE HoleInv'
<1>0. /\ Inductive /\ TypeOK /\ Owner(p) /\ Local(p) /\ mem[p] \in ProcMem
      /\ validity = srvEpoch => \A u \in Cached : u < uidNext
  BY HoleFacts
<1>1. PICK k \in 0 .. MaxUid :
        /\ IF Cached = {} THEN k = 0 ELSE IsLowest(k, Cached)
        /\ Goto(p, IF k <= 1 THEN "finish" ELSE "older", [mem[p] EXCEPT !.known = k])
  BY DEF ReadMin
<1> DEFINE l == IF k <= 1 THEN "finish" ELSE "older"
           m == [mem[p] EXCEPT !.known = k]
<1>2. Goto(p, l, m) /\ Reading(p) /\ pc[p] = "min"  BY <1>1 DEF ReadMin, At
<1>3. pc'[p] = l /\ mem'[p] = m /\ m.known = k
  BY <1>0, <1>2, GotoSelf DEF ProcMem
<1>4. lock = p  BY <1>0, <1>2 DEF Owner, OlderLabels
<1>5. l = "older" => k \in Cached
  <2>1. l = "older" => k # 0  BY <1>1
  <2> QED BY <1>1, <2>1 DEF IsLowest
<1>6. (l = "older" /\ validity = srvEpoch) => k < uidNext /\ From(k)
  <2> SUFFICES ASSUME l = "older", validity = srvEpoch PROVE k < uidNext /\ From(k)
    OBVIOUS
  <2>1. HoleFree  BY <1>2, <1>4, HolderInserts
  <2>2. ASSUME NEW w \in Cached, NEW u \in Present, k <= u, u < w PROVE u \in Cached
    <3>1. k \in Int /\ u \in Int  BY DEF Present
    <3>2. u = k \/ k < u  BY <2>2, <3>1
    <3> QED BY <1>5, <2>1, <2>2, <3>2 DEF HoleFree
  <2> QED BY <1>0, <1>5, <2>2 DEF From
<1>7. l \in {"finish", "older"}  OBVIOUS
<1> HIDE DEF l, m
<1>8. Filling(p)'  BY <1>3, <1>7 DEF Filling, Growing
<1>9. Backfilling(p)'
  BY <1>2, <1>3, <1>6, <1>7, ReadingSets DEF Backfilling, From
<1> QED BY <1>2, <1>8, <1>9, ReadingHole

LEMMA HoleSelectOlder ==
    ASSUME HoleInv, Implementing', NEW p \in Procs, SelectOlder(p) PROVE HoleInv'
<1>0. /\ Inductive /\ TypeOK /\ Owner(p) /\ Local(p) /\ Fit(p) /\ Backfilling(p)
      /\ mem[p] \in ProcMem /\ mem[p].known \in Nat
  BY HoleFacts
<1> DEFINE S == {u \in Present : u < mem[p].known}
           seen == Newest(S, OlderWindow)
           m == [mem[p] EXCEPT !.epoch = srvEpoch, !.seen = seen]
<1>1. Goto(p, "fetch", m) /\ Reading(p) /\ pc[p] = "older"  BY DEF SelectOlder, At
<1>2. pc'[p] = "fetch" /\ mem'[p] = m  BY <1>0, <1>1, GotoSelf
<1>3. m.cmd = "older" /\ m.known = mem[p].known /\ m.seen = seen /\ mem[p].cmd = "older"
  BY <1>0, <1>1 DEF ProcMem, Owner, OlderLabels
<1>4. \A u \in seen : u < mem[p].known  BY DEF Newest
<1>5. Below(mem[p].known, seen)
  <2>1. S \in SUBSET Uids /\ OlderWindow \in Nat
    BY ConstantsAssumption DEF Present, ConstantsAssumption
  <2>2. ASSUME NEW v \in seen, NEW u \in Present, v < u, u < mem[p].known
        PROVE  u \in seen
    <3>1. v \in Int /\ u \in Int  BY <2>1 DEF Newest, Present
    <3>2. v <= u /\ u \in S  BY <2>2, <3>1
    <3> QED BY <2>1, <3>2, NewestIsUpper
  <2> QED BY <2>2 DEF Below
<1> HIDE DEF m, S, seen
<1>6. \A u \in Cached : mem[p].known <= u  BY <1>0, <1>1 DEF Fit
<1>7. Filling(p)'  BY <1>2, <1>3 DEF Filling, Growing
<1>8. Backfilling(p)'
  BY <1>0, <1>1, <1>2, <1>3, <1>4, <1>5, <1>6, ReadingSets DEF Backfilling, From, Below
<1> QED BY <1>1, <1>7, <1>8, ReadingHole

LEMMA HoleInsert ==
    ASSUME HoleInv, Implementing', NEW p \in Procs, InsertRow(p) PROVE HoleInv'
<1>0. /\ Inductive /\ TypeOK /\ Owner(p) /\ Local(p) /\ Backfilling(p)
      /\ mem[p] \in ProcMem /\ mem[p].known \in Nat
      /\ mem[p].todo \in SUBSET Uids /\ Has(mem[p].fresh) \in SUBSET Uids
  BY HoleFacts
<1>1. PICK x \in mem[p].todo :
        /\ rows' = [rows EXCEPT ![x] = RowOf(p, x)]
        /\ Goto(p, "insert", [mem[p] EXCEPT !.todo = mem[p].todo \ {x}])
  BY DEF InsertRow
<1> DEFINE m == [mem[p] EXCEPT !.todo = mem[p].todo \ {x}]
           H == Has(mem[p].fresh)
           k == mem[p].known
<1>2. pc[p] = "insert" /\ UNCHANGED <<serverVars, validity>> /\ Present' = Present
  BY DEF InsertRow, At, serverVars, Present
<1>3. /\ pc'[p] = "insert" /\ mem'[p] = m /\ m.todo = mem[p].todo \ {x}
      /\ m.fresh = mem[p].fresh /\ m.known = k /\ m.cmd = "older"
  BY <1>0, <1>1, <1>2, GotoSelf DEF ProcMem, Owner, OlderLabels
<1>4. mem[p].cmd = "older" /\ lock = p /\ 1 <= mem[p].epoch /\ x \in H
  BY <1>0, <1>2 DEF Owner, OlderLabels, Local, AfterSelect, InBackfill
<1>5. Cached' = Cached \cup {x}
  BY <1>0, <1>1, <1>4 DEF TypeOK, Cached, RowOf, NoRow
<1>6. Has(mem'[p].fresh) = H /\ mem'[p].known = k  BY <1>3
<1>7. validity = srvEpoch =>
        /\ k < uidNext /\ \A w \in Cached : \A u \in Present : (k <= u /\ u < w) => u \in Cached
        /\ \A u \in H : u < k
        /\ \A v \in H : \A u \in Present : (v < u /\ u < k) => u \in H
        /\ \A u \in Cached : k <= u \/ u \in H
        /\ \A u \in H \cap Present : u \in mem[p].todo \/ u \in Cached
  BY <1>0, <1>2, <1>4 DEF Backfilling, From, Below
<1>8. Settled'  BY <1>3 DEF Settled
<1>9. Filling(p)'  BY <1>3 DEF Filling, Growing
<1> HIDE DEF m, H
<1>10. k \in Int /\ x \in Int /\ Present \subseteq Int  BY <1>0 DEF Present
<1> HIDE DEF k
<1>11. validity = srvEpoch =>
        /\ \A w \in Cached' : \A u \in Present : (k <= u /\ u < w) => u \in Cached'
        /\ \A u \in Cached' : k <= u \/ u \in H
        /\ \A u \in H \cap Present : u \in m.todo \/ u \in Cached'
  <2> SUFFICES ASSUME validity = srvEpoch
               PROVE  /\ \A w \in Cached' : \A u \in Present :
                            (k <= u /\ u < w) => u \in Cached'
                      /\ \A u \in Cached' : k <= u \/ u \in H
                      /\ \A u \in H \cap Present : u \in m.todo \/ u \in Cached'
    OBVIOUS
  <2>1. \A u \in Present : ~(k <= u /\ u < x)
    <3>1. x < k  BY <1>4, <1>7
    <3> SUFFICES ASSUME NEW u \in Present PROVE ~(k <= u /\ u < x)  OBVIOUS
    <3>2. u \in Int  BY <1>10
    <3> QED BY <1>10, <3>1, <3>2
  <2> QED BY <1>3, <1>4, <1>5, <1>7, <2>1
<1>12. Backfilling(p)'
  BY <1>2, <1>3, <1>6, <1>7, <1>11 DEF Backfilling, From, Below, serverVars
<1> QED BY <1>1, <1>4, <1>8, <1>9, <1>12, LockedHole DEF m

LEMMA HoleInsertDone ==
    ASSUME HoleInv, Implementing', Allowed, NEW p \in Procs, InsertDone(p) PROVE HoleInv'
<1>0. /\ Inductive /\ TypeOK /\ Owner(p) /\ Local(p) /\ Backfilling(p)
      /\ mem[p] \in ProcMem /\ mem[p].known \in Nat
      /\ srvEpoch \in Nat /\ uidNext \in Nat
  BY HoleFacts
<1>1. mem[p].cmd = "older" /\ pc[p] = "insert" /\ mem[p].todo = {}
  BY <1>0 DEF InsertDone, At, Owner, OlderLabels
<1>2. Goto(p, "finish", mem[p]) /\ Reading(p)  BY <1>1 DEF InsertDone
<1>3. pc'[p] = "finish"  BY <1>0, <1>2, GotoSelf
<1>4. Filling(p)' /\ Backfilling(p)'  BY <1>3 DEF Filling, Backfilling, Growing
<1>5. validity = srvEpoch => HoleFree
  <2> SUFFICES ASSUME validity = srvEpoch, NEW v \in Cached, NEW w \in Cached,
                      NEW u \in Present, v < u, u < w
               PROVE  u \in Cached
    BY DEF HoleFree
  <2> DEFINE k == mem[p].known
             H == Has(mem[p].fresh)
  <2>1. /\ \A y \in Present : (k <= y /\ y < w) => y \in Cached
        /\ \A y \in Present : (v \in H /\ v < y /\ y < k) => y \in H
        /\ k <= v \/ v \in H
        /\ \A y \in H \cap Present : y \in Cached
    BY <1>0, <1>1 DEF Backfilling, From, Below
  <2>2. u \in Int /\ v \in Int /\ k \in Int  BY <1>0 DEF Present, Cached
  <2> HIDE DEF k, H
  <2>3. CASE k <= u  BY <2>1, <2>3
  <2>4. CASE u < k
    <3>1. v \in H  BY <2>1, <2>2, <2>4
    <3> QED BY <2>1, <2>4, <3>1
  <2> QED BY <2>2, <2>3, <2>4
<1>6. SteadyStep
  <2>1. Cached' = Cached /\ validity' = validity /\ srv' = srv /\ srvEpoch' = srvEpoch
        /\ uidNext' = uidNext
    BY <1>2, ReadingSets
  <2> QED BY <1>0, <2>1 DEF SteadyStep, ServerMoves
<1> QED BY <1>2, <1>4, <1>5, <1>6, SteadyHole

\* The other steps leave p where it has nothing to add.
LEMMA RestingHole ==
    ASSUME HoleInv, Implementing', Allowed, NEW p \in Procs, NEW l \in RestLabels, NEW m,
           Goto(p, l, m), srvEpoch' = srvEpoch, uidNext' = uidNext,
           \A u \in Uids : srv'[u] # "none" => srv[u] # "none",
           validity' = validity, Cached' \subseteq Cached, pc[p] # "insert"
    PROVE  HoleInv'
<1>1. Inductive /\ TypeOK /\ srvEpoch \in Nat /\ uidNext \in Nat  BY HoleFacts
<1>2. ServerMoves  BY <1>1 DEF ServerMoves
<1>3. SteadyStep  BY <1>1, <1>2, AllowedKeeps DEF SteadyStep
<1>4. pc'[p] = l  BY <1>1, GotoSelf
<1>5. Filling(p)' /\ Backfilling(p)'
  BY <1>4 DEF RestLabels, Filling, Backfilling, Growing
<1> QED BY <1>3, <1>5, SteadyHole

\* The same, said of a step that neither adds nor receives anything.
LEMMA RestingReads ==
    ASSUME HoleInv, Implementing', Allowed, NEW p \in Procs, NEW l \in RestLabels, NEW m,
           Goto(p, l, m), UNCHANGED <<serverVars, validity>>, Cached' \subseteq Cached,
           pc[p] # "insert"
    PROVE  HoleInv'
BY RestingHole DEF serverVars

LEMMA HoleStart ==
    ASSUME HoleInv, Implementing', Allowed, "daily" \notin Commands, NEW p \in Procs, Start(p)
    PROVE  HoleInv'
<1>0. Inductive /\ TypeOK  BY HoleFacts
<1>1. ASSUME NEW cmd \in {"sync", "older"}, Acquire(p, cmd) PROVE HoleInv'
  <2> DEFINE l == IF cmd = "sync" THEN "validity" ELSE "min"
  <2>1. Goto(p, l, [NoMem EXCEPT !.cmd = cmd]) /\ pc[p] = "idle"
        /\ UNCHANGED <<serverVars, dbVars>>
    BY <1>1 DEF Acquire, At
  <2>2. l \in RestLabels /\ Cached' = Cached  BY <2>1 DEF RestLabels, Cached, dbVars
  <2> HIDE DEF l
  <2> QED BY <2>1, <2>2, RestingReads DEF dbVars
<1>2. ASSUME NEW u \in Uids, MoveOnServer(p, u) PROVE HoleInv'
  <2>1. Goto(p, "local", [NoMem EXCEPT !.cmd = "move", !.todo = {u}]) /\ pc[p] = "idle"
        /\ UNCHANGED <<srvEpoch, uidNext, dbVars>> /\ srv' = [srv EXCEPT ![u] = "none"]
    BY <1>2 DEF MoveOnServer, At
  <2>2. /\ Cached' = Cached /\ "local" \in RestLabels
        /\ \A v \in Uids : srv'[v] # "none" => srv[v] # "none"
    BY <1>0, <2>1 DEF RestLabels, Cached, dbVars, TypeOK
  <2> QED BY <2>1, <2>2, RestingHole DEF dbVars
<1>3. ASSUME NEW u \in Uids, NEW flag \in {"read", "unread"}, SetReadOnServer(p, u, flag)
      PROVE  HoleInv'
  <2>1. Goto(p, "local", [NoMem EXCEPT !.cmd = "read", !.todo = {u},
                                       !.fresh = [Nothing EXCEPT ![u] = flag]])
        /\ pc[p] = "idle" /\ UNCHANGED <<srvEpoch, uidNext, dbVars>>
        /\ srv' = [srv EXCEPT ![u] = IF @ = "none" THEN @ ELSE flag]
    BY <1>3 DEF SetReadOnServer, At
  <2>2. /\ Cached' = Cached /\ "local" \in RestLabels
        /\ \A v \in Uids : srv'[v] # "none" => srv[v] # "none"
    BY <1>0, <2>1 DEF RestLabels, Cached, dbVars, TypeOK
  <2> QED BY <2>1, <2>2, RestingHole DEF dbVars
<1>4. ~StartDaily(p)  BY DEF StartDaily
<1> QED BY <1>1, <1>2, <1>3, <1>4 DEF Start

LEMMA HoleRest ==
    ASSUME HoleInv, Implementing', Allowed, NEW p \in Procs,
           ReadValidity(p) \/ ListWindow(p) \/ FlagsDone(p) \/ PlanMoves(p)
    PROVE  HoleInv'
<1>0. Inductive /\ TypeOK /\ Owner(p)  BY HoleFacts
<1>1. Reading(p) => Cached' = Cached /\ UNCHANGED <<serverVars, validity>>
  BY DEF Reading, serverVars, dbVars, Cached
<1>2. {"max", "flags", "organize", "finish", "orgMove"} \subseteq RestLabels
  BY DEF RestLabels
<1>3. CASE ReadValidity(p)
  BY <1>1, <1>2, <1>3, RestingReads DEF ReadValidity, At
<1>4. CASE ListWindow(p)
  BY <1>1, <1>2, <1>4, RestingReads DEF ListWindow, At
<1>5. CASE FlagsDone(p)
  <2>1. \E l \in RestLabels : Goto(p, l, mem[p])  BY <1>2, <1>5 DEF FlagsDone
  <2> QED BY <1>1, <1>5, <2>1, RestingReads DEF FlagsDone, At
<1>6. CASE PlanMoves(p)
  <2>1. \E l \in RestLabels : Goto(p, l, [mem[p] EXCEPT !.todo = Matched(p)])
    BY <1>2, <1>6 DEF PlanMoves
  <2> QED BY <1>1, <1>6, <2>1, RestingReads DEF PlanMoves, At
<1> QED BY <1>3, <1>4, <1>5, <1>6

\* Rows that go, or that change their flag.
LEMMA HoleWrites ==
    ASSUME HoleInv, Implementing', Allowed, NEW p \in Procs,
           FlagRow(p) \/ OrganizeOnServer(p) \/ OrganizeRow(p) \/ SetReadRow(p) \/ MoveRow(p)
    PROVE  HoleInv'
<1>0. Inductive /\ TypeOK /\ rows \in [Uids -> Row] /\ mem[p].todo \in SUBSET Uids
  BY HoleFacts DEF TypeOK
<1>1. {"flags", "orgMove", "orgDelete", "finish"} \subseteq RestLabels  BY DEF RestLabels
<1>2. CASE FlagRow(p)
  <2>1. PICK u \in mem[p].todo :
          /\ rows' = IF rows[u] = NoRow THEN rows
                     ELSE IF mem[p].scan[u] # "none"
                          THEN [rows EXCEPT ![u].unread = mem[p].scan[u] = "unread"]
                     ELSE IF mem[p].cmd = "sync" /\ ShouldDeleteMissing(p, u)
                          THEN [rows EXCEPT ![u] = NoRow]
                     ELSE rows
          /\ Goto(p, "flags", [mem[p] EXCEPT !.todo = mem[p].todo \ {u}])
    BY <1>2 DEF FlagRow
  <2>2. \A v \in Uids : rows[v] = NoRow => rows'[v] = NoRow  BY <1>0, <2>1
  <2>3. Cached' \subseteq Cached  BY <2>2 DEF Cached
  <2> QED BY <1>1, <1>2, <2>1, <2>3, RestingReads DEF FlagRow, At
<1>3. CASE OrganizeOnServer(p)
  <2>1. PICK u \in mem[p].todo :
          /\ srv' = [srv EXCEPT ![u] = "none"]
          /\ \E l \in RestLabels : \E m : Goto(p, l, m)
    BY <1>1, <1>3 DEF OrganizeOnServer
  <2>2. /\ Cached' = Cached /\ UNCHANGED <<srvEpoch, uidNext, validity>> /\ pc[p] = "orgMove"
        /\ \A v \in Uids : srv'[v] # "none" => srv[v] # "none"
    BY <1>0, <1>3, <2>1 DEF OrganizeOnServer, At, Cached, dbVars, TypeOK
  <2> QED BY <2>1, <2>2, RestingHole
<1>4. CASE OrganizeRow(p)
  <2>1. PICK u \in mem[p].todo :
          /\ rows' = [rows EXCEPT ![u] = NoRow]
          /\ \E l \in RestLabels : \E m : Goto(p, l, m)
    BY <1>1, <1>4 DEF OrganizeRow
  <2>2. Cached' \subseteq Cached  BY <1>0, <2>1 DEF Cached
  <2> QED BY <1>4, <2>1, <2>2, RestingReads DEF OrganizeRow, At
<1>5. CASE SetReadRow(p)
  <2>1. PICK u \in mem[p].todo :
          rows' = IF rows[u] = NoRow THEN rows
                  ELSE [rows EXCEPT ![u].unread = mem[p].fresh[u] = "unread"]
    BY <1>5 DEF SetReadRow
  <2>2. \A v \in Uids : rows[v] = NoRow => rows'[v] = NoRow  BY <1>0, <2>1
  <2>3. Cached' \subseteq Cached  BY <2>2 DEF Cached
  <2> QED BY <1>1, <1>5, <2>3, RestingReads DEF SetReadRow, At
<1>6. CASE MoveRow(p)
  <2>1. PICK u \in mem[p].todo : rows' = [rows EXCEPT ![u] = NoRow]
    BY <1>6 DEF MoveRow
  <2>2. Cached' \subseteq Cached  BY <1>0, <2>1 DEF Cached
  <2> QED BY <1>1, <1>6, <2>2, RestingReads DEF MoveRow, At
<1> QED BY <1>2, <1>3, <1>4, <1>5, <1>6

\* However a command ends, it is not in the middle of a batch.
LEMMA HoleEnd ==
    ASSUME HoleInv, Implementing', Allowed, "insert" \notin AbortAt, NEW p \in Procs,
           Finish(p) \/ SessionLost(p) \/ Abort(p)
    PROVE  HoleInv'
<1>1. Goto(p, "idle", NoMem) /\ UNCHANGED <<serverVars, dbVars>> /\ pc[p] # "insert"
  BY DEF Finish, SessionLost, Abort, End, At
<1>2. Cached' = Cached /\ "idle" \in RestLabels  BY <1>1 DEF Cached, dbVars, RestLabels
<1> QED BY <1>1, <1>2, RestingReads DEF dbVars

LEMMA HoleServer ==
    ASSUME HoleInv, Implementing', Allowed, ServerStep PROVE HoleInv'
<1> USE ConstantsAssumption DEF ConstantsAssumption
<1>0. /\ Implementing /\ Inductive /\ TypeOK /\ TypeOK' /\ uidNext \in Nat
      /\ srvEpoch \in Nat /\ validity \in Nat /\ validity <= srvEpoch
  BY DEF HoleInv, Implementing, Inductive, Bounded, TypeOK
<1>1. UNCHANGED <<validity, rows, lock, pc, mem>>
  BY DEF ServerStep, Deliver, Expunge, ChangeFlag, NewValidity
<1>2. ServerMoves /\ (srvEpoch' = srvEpoch \/ srvEpoch' = srvEpoch + 1)
  <2>1. CASE Deliver  BY <1>0, <2>1 DEF Deliver, ServerMoves, TypeOK
  <2>2. ASSUME NEW u \in Uids, Expunge(u) \/ ChangeFlag(u)
        PROVE  ServerMoves /\ srvEpoch' = srvEpoch
    BY <1>0, <2>2 DEF Expunge, ChangeFlag, ServerMoves, TypeOK
  <2>3. ASSUME NEW n \in 1 .. MaxUid + 1, NewValidity(n)
        PROVE  ServerMoves /\ srvEpoch' = srvEpoch + 1
    BY <1>0, <2>3 DEF NewValidity, ServerMoves
  <2> QED BY <2>1, <2>2, <2>3 DEF ServerStep
<1>3. Cached' = Cached  BY <1>1 DEF Cached
<1>4. SteadyStep  BY <1>1, <1>2, <1>3 DEF SteadyStep
<1>5. ASSUME NEW q \in Procs PROVE Filling(q)' /\ Backfilling(q)'
  BY <1>0, <1>1, <1>4, SteadyFilling
<1>6. Settled'
  <2> SUFFICES ASSUME validity' = srvEpoch', \A q \in Procs : pc'[q] # "insert"
               PROVE  HoleFree'
    BY DEF Settled
  <2>1. srvEpoch' = srvEpoch /\ validity = srvEpoch  BY <1>0, <1>1, <1>2
  <2>2. HoleFree  BY <1>1, <2>1 DEF HoleInv, Settled
  <2> QED BY <1>0, <1>4, <2>1, <2>2, SteadySets
<1> QED BY <1>5, <1>6 DEF HoleInv

LEMMA HoleInit == ASSUME Init PROVE HoleInv
<1>1. Implementing  BY ImplementingInit
<1>2. Settled  BY DEF Init, Settled, HoleFree, Cached
<1>3. ASSUME NEW p \in Procs PROVE Filling(p) /\ Backfilling(p)
  <2>1. pc[p] = "idle"  BY DEF Init
  <2> QED BY <2>1 DEF Filling, Backfilling, Growing
<1> QED BY <1>1, <1>2, <1>3 DEF HoleInv

LEMMA HoleNext ==
    ASSUME HoleInv, "daily" \notin Commands, NoMoveAcrossRebuild, "insert" \notin AbortAt,
           [Next]_vars
    PROVE  HoleInv'
<1>0. Implementing' /\ Allowed  BY StepImplements DEF HoleInv
<1>1. CASE ServerStep  BY <1>0, <1>1, HoleServer
<1>2. ASSUME NEW p \in Procs, Start(p) PROVE HoleInv'  BY <1>0, <1>2, HoleStart
<1>3. ASSUME NEW p \in Procs, SyncStep(p) PROVE HoleInv'
  BY <1>0, <1>3, HoleRest, HoleReadMax, HoleSelect, HoleSearch, HoleFetch, HoleScan,
     HoleClear, HoleStamp, HoleCommit, HoleWrites DEF SyncStep
<1>4. ASSUME NEW p \in Procs, OlderStep(p) PROVE HoleInv'
  BY <1>0, <1>4, HoleReadMin, HoleSelectOlder, HoleInsert, HoleInsertDone DEF OlderStep
<1>5. ASSUME NEW p \in Procs, UserStep(p) PROVE HoleInv'
  BY <1>0, <1>5, HoleWrites DEF UserStep
<1>6. ASSUME NEW p \in Procs, Finish(p) \/ SessionLost(p) \/ Abort(p) PROVE HoleInv'
  BY <1>0, <1>6, HoleEnd
<1>7. CASE UNCHANGED vars
  <2>1. Settled'  BY <1>7 DEF vars, HoleInv, Settled, HoleFree, Cached, Present
  <2>2. ASSUME NEW p \in Procs PROVE Filling(p)' /\ Backfilling(p)'
    <3>1. Filling(p) /\ Backfilling(p)  BY DEF HoleInv
    <3>2. Filling(p)'
      BY <1>7, <3>1 DEF vars, Filling, Growing, UpTo, Whole, Between, Above, Has, Cached, Present
    <3>3. Backfilling(p)'
      BY <1>7, <3>1 DEF vars, Backfilling, From, Below, Has, Cached, Present
    <3> QED BY <3>2, <3>3
  <2> QED BY <1>0, <2>1, <2>2 DEF HoleInv
<1> QED BY <1>1, <1>2, <1>3, <1>4, <1>5, <1>6, <1>7 DEF Next, Run

\* However syncs, backfills and the user's commands interleave and end, and
\* whatever the server does meanwhile, the cache misses nothing between its
\* lowest and its highest row when no command runs - unless a backfill is cut
\* short in the middle of its batch.
THEOREM NothingMissingInside ==
    ASSUME "daily" \notin Commands, NoMoveAcrossRebuild, "insert" \notin AbortAt
    PROVE  Spec => []NoHole
<1>1. HoleInv => NoHole
  <2> SUFFICES ASSUME HoleInv, lock = NoProc, validity = srvEpoch PROVE HoleFree
    BY DEF NoHole, HoleFree
  <2>1. ASSUME NEW p \in Procs PROVE pc[p] # "insert"
    <3>1. Owner(p)  BY HoleFacts
    <3> QED BY <3>1, ConstantsAssumption DEF Owner, OlderLabels, ConstantsAssumption
  <2> QED BY <2>1 DEF HoleInv, Settled
<1>2. Init => HoleInv  BY HoleInit
<1>3. HoleInv /\ [Next]_vars => HoleInv'  BY HoleNext
<1> QED BY <1>1, <1>2, <1>3, PTL DEF Spec

(***************************************************************************)
(* What a sync leaves behind when nobody else acts.  From one statement to *)
(* the next it knows what the server has: which messages it seeks, their   *)
(* flags, the rows that are still to be brought up to date, those that a   *)
(* rule has moved and that are still to go.                                *)
(***************************************************************************)

\* The row of a message is as it should be.
Right(u) == rows[u] = IF srv[u] = "none" THEN NoRow
                      ELSE [epoch |-> srvEpoch, unread |-> srv[u] = "unread"]

\* The messages a sync is about to fetch are those it answers for.
Sought(p) ==
    /\ mem[p].seen \subseteq Present
    /\ IF mem[p].reset THEN \A u \in Covered(p) \cap Present : u \in mem[p].seen
                       ELSE \A u \in Present : u \in mem[p].seen <=> mem[p].known < u

\* The rows below the highest one miss nothing of what the sync answers for.
NothingBelow(p) ==
    \A u \in Present : (mem[p].low <= u /\ u <= mem[p].known) => u \in Cached

SelectedLabels == {"search", "fetch", "scan", "clear", "stamp", "commit", "list", "flags"}

Exact(p) ==
    /\ pc[p] = "low" => IF Cached = {} THEN mem[p].known = 0
                                       ELSE IsHighest(mem[p].known, Cached)
    /\ pc[p] \in SelectedLabels => mem[p].epoch = srvEpoch
    /\ (pc[p] = "select" /\ validity = srvEpoch) \/ Growing(p) => NothingBelow(p)
    /\ pc[p] \in {"fetch", "scan", "clear", "stamp", "commit"} => Sought(p)
    /\ pc[p] \in {"scan", "clear", "stamp", "commit"} => mem[p].fresh = Fetched(mem[p].seen)
    /\ (pc[p] \in {"stamp", "commit", "list", "flags"} /\ ~mem[p].reset) =>
          \A u \in Uids : mem[p].low <= u => mem[p].scan[u] = srv[u]
    /\ pc[p] \in {"list", "flags"} => \A u \in Covered(p) :
          /\ srv[u] # "none" => u \in Cached
          /\ mem[p].known < u => Right(u)
          /\ pc[p] = "flags" => Right(u) \/ u \in mem[p].todo
    /\ pc[p] \in {"organize", "finish"} => \A u \in Covered(p) : Right(u)
    /\ pc[p] = "orgMove" =>
          /\ mem[p].todo \subseteq Matched(p)
          /\ \A u \in Covered(p) :
                Right(u) \/ (srv[u] = "none" /\ u \in Matched(p) \ mem[p].todo)
    /\ pc[p] = "orgDelete" => \A u \in Covered(p) :
          Right(u) \/ (srv[u] = "none" /\ u \in mem[p].todo)

ExactInv == /\ HoleInv
            /\ \A p \in quiet : lock = p /\ (mem[p].cmd = "sync" => Exact(p))

\* A set of numbers up to k has a highest one.
LEMMA HighestExists ==
    ASSUME NEW k \in Nat, NEW S \in SUBSET (1 .. k), S # {}
    PROVE  \E m \in S : \A v \in S : v <= m
<1> DEFINE T == {k - v : v \in S}
           R == OpToRel(<, Nat)
<1>1. T \subseteq Nat /\ T # {}
  <2>1. \A v \in S : v \in 1 .. k  OBVIOUS
  <2>2. \A v \in 1 .. k : k - v \in Nat  OBVIOUS
  <2>3. PICK v \in S : TRUE  OBVIOUS
  <2>4. k - v \in T  OBVIOUS
  <2> QED BY <2>1, <2>2, <2>4
<1>2. IsWellFoundedOn(R, Nat)  BY NatLessThanWellFounded
<1>3. PICK t \in T : \A y \in T : ~(<<y, t>> \in R)
  <2> HIDE DEF T, R
  <2> QED BY <1>1, <1>2, WFMin
<1>4. \A y \in T : ~(y < t)  BY <1>1, <1>3 DEF OpToRel
<1>5. PICK m \in S : t = k - m  OBVIOUS
<1>6. \A v \in S : ~(k - v < k - m)  BY <1>4, <1>5
<1> QED BY <1>6

\* The newest messages of a mailbox that is not empty.
LEMMA NewestNotEmpty ==
    ASSUME NEW S \in SUBSET Uids, S # {}, NEW n \in Nat \ {0} PROVE Newest(S, n) # {}
<1> USE ConstantsAssumption DEF ConstantsAssumption
<1>1. PICK m \in S : \A v \in S : v <= m  BY HighestExists
<1>2. {v \in S : m <= v} = {m}
  <2>1. \A v \in S : v \in Int /\ v <= m  BY <1>1
  <2>2. \A v \in S : m <= v <=> v = m  BY <2>1
  <2> QED BY <2>2
<1>3. Cardinality({m}) = 1  BY FS_Singleton
<1>4. m \in Newest(S, n)  BY <1>2, <1>3 DEF Newest
<1> QED BY <1>4

\* The process that may be quiet is the one that holds the lock.
LEMMA ExactStep ==
    ASSUME ExactInv, HoleInv', NEW p \in Procs, lock = p, lock' = lock, quiet' \subseteq quiet,
           p \in quiet => (mem'[p].cmd = "sync" => Exact(p)')
    PROVE  ExactInv'
BY DEF ExactInv

\* Nothing that it knows changes.
LEMMA ExactKept ==
    ASSUME NEW p, Exact(p), pc'[p] = pc[p], mem'[p] = mem[p], UNCHANGED <<serverVars, dbVars>>
    PROVE  Exact(p)'
<1>1. Present' = Present /\ Cached' = Cached  BY DEF Present, Cached, serverVars, dbVars
<1>2. Covered(p)' = Covered(p) /\ Matched(p)' = Matched(p) /\ (Growing(p)' <=> Growing(p))
  BY DEF Covered, Matched, Has, Growing
<1>3. Fetched(mem[p].seen)' = Fetched(mem[p].seen)  BY DEF Fetched, serverVars
<1>4. \A u : Right(u)' <=> Right(u)  BY DEF Right, serverVars, dbVars
<1>5. (Sought(p)' <=> Sought(p)) /\ (NothingBelow(p)' <=> NothingBelow(p))
  BY <1>1, <1>2 DEF Sought, NothingBelow
<1> QED BY <1>1, <1>2, <1>3, <1>4, <1>5 DEF Exact, serverVars, dbVars

\* What is known of the process that makes a step.
LEMMA ExactFacts ==
    ASSUME ExactInv, NEW p \in quiet, mem[p].cmd = "sync"
    PROVE  /\ p \in Procs /\ lock = p /\ Exact(p) /\ HoleInv
           /\ Inductive /\ TypeOK /\ Owner(p) /\ Local(p) /\ Fit(p) /\ Filling(p)
           /\ mem[p] \in ProcMem /\ mem[p].known \in Nat /\ mem[p].low \in Nat
           /\ mem[p].seen \in SUBSET Uids /\ mem[p].todo \in SUBSET Uids
           /\ mem[p].scan \in [Uids -> Flag] /\ mem[p].fresh \in [Uids -> Flag]
           /\ Present \in SUBSET Uids /\ Cached \in SUBSET Uids /\ Uids \subseteq Nat
           /\ srv \in [Uids -> Flag] /\ rows \in [Uids -> Row]
<1> USE ConstantsAssumption DEF ConstantsAssumption
<1>1. HoleInv /\ lock = p /\ Exact(p)  BY DEF ExactInv
<1>2. TypeOK  BY <1>1 DEF HoleInv, Implementing, Inductive
<1>3. p \in Procs /\ srv \in [Uids -> Flag] /\ rows \in [Uids -> Row]  BY <1>2 DEF TypeOK
<1>4. /\ Inductive /\ Owner(p) /\ Local(p) /\ Fit(p) /\ Filling(p) /\ mem[p] \in ProcMem
      /\ mem[p].known \in Nat /\ mem[p].seen \in SUBSET Uids /\ mem[p].todo \in SUBSET Uids
  BY <1>1, <1>3, HoleFacts
<1>5. mem[p].low \in Nat /\ mem[p].scan \in [Uids -> Flag] /\ mem[p].fresh \in [Uids -> Flag]
  BY <1>4 DEF ProcMem
<1>6. Present \in SUBSET Uids /\ Cached \in SUBSET Uids /\ Uids \subseteq Nat
  BY DEF Present, Cached
<1> QED BY <1>1, <1>2, <1>3, <1>4, <1>5, <1>6

\* Before SELECT.
LEMMA ExactBeforeSelect ==
    ASSUME ExactInv, NEW p \in quiet, mem[p].cmd = "sync",
           ReadValidity(p) \/ ReadMax(p) \/ ReadLow(p)
    PROVE  Exact(p)'
<1>0. /\ p \in Procs /\ lock = p /\ Exact(p) /\ HoleInv /\ TypeOK /\ mem[p] \in ProcMem
      /\ mem[p].known \in Nat /\ mem[p].low \in Nat /\ Present \in SUBSET Uids
      /\ Cached \in SUBSET Uids /\ Uids \subseteq Nat
  BY ExactFacts
<1>1. Reading(p)  BY DEF ReadValidity, ReadMax, ReadLow
<1>2. Cached' = Cached /\ Present' = Present /\ srvEpoch' = srvEpoch /\ validity' = validity
  BY <1>1, ReadingSets
<1>3. CASE ReadValidity(p)
  <2>1. pc'[p] = "max"  BY <1>0, <1>3, GotoSelf DEF ReadValidity
  <2> QED BY <2>1 DEF Exact, SelectedLabels, Growing
<1>4. CASE ReadMax(p)
  <2>1. PICK k \in 0 .. MaxUid :
          /\ IF Cached = {} THEN k = 0 ELSE IsHighest(k, Cached)
          /\ Goto(p, "low", [mem[p] EXCEPT !.known = k])
    BY <1>4 DEF ReadMax
  <2>2. pc'[p] = "low" /\ mem'[p].known = k  BY <1>0, <2>1, GotoSelf DEF ProcMem
  <2>3. IF Cached' = {} THEN mem'[p].known = 0 ELSE IsHighest(mem'[p].known, Cached')
    BY <1>2, <2>1, <2>2
  <2> QED BY <2>2, <2>3 DEF Exact, SelectedLabels, Growing, IsHighest
<1>5. CASE ReadLow(p)
  <2>1. PICK k \in 1 .. MaxUid + 1 :
          /\ IF Cached = {} THEN k = 1 ELSE IsLowest(k, Newest(Cached, FlagWindow))
          /\ Goto(p, "select", [mem[p] EXCEPT !.low = k])
    BY <1>5 DEF ReadLow
  <2>2. pc'[p] = "select" /\ mem'[p].low = k /\ mem'[p].known = mem[p].known /\ pc[p] = "low"
    BY <1>0, <1>5, <2>1, GotoSelf DEF ProcMem, ReadLow, At
  <2>3. validity = srvEpoch =>
          \A u \in Present : (k <= u /\ u <= mem[p].known) => u \in Cached
    <3> SUFFICES ASSUME validity = srvEpoch, NEW u \in Present, k <= u, u <= mem[p].known
                 PROVE  u \in Cached
      OBVIOUS
    <3>0. u \in Nat /\ k \in Nat  BY <1>0
    <3>1. CASE Cached = {}
      <4>1. k = 1 /\ mem[p].known = 0  BY <1>0, <2>1, <2>2, <3>1 DEF Exact
      <4> QED BY <3>0, <4>1
    <3>2. CASE Cached # {}
      <4>1. k \in Cached  BY <2>1, <3>2 DEF IsLowest, Newest
      <4>2. mem[p].known \in Cached  BY <1>0, <2>2, <3>2 DEF Exact, IsHighest
      <4>3. HoleFree  BY <1>0, <2>2, HolderInserts
      <4>4. u = k \/ u = mem[p].known \/ (k < u /\ u < mem[p].known)  BY <1>0, <3>0
      <4> QED BY <4>1, <4>2, <4>3, <4>4 DEF HoleFree
    <3> QED BY <3>1, <3>2
  <2>4. validity' = srvEpoch' => NothingBelow(p)'
    BY <1>2, <2>2, <2>3 DEF NothingBelow
  <2> QED BY <2>2, <2>4 DEF Exact, SelectedLabels, Growing
<1> QED BY <1>3, <1>4, <1>5

LEMMA ExactSelect ==
    ASSUME ExactInv, NEW p \in quiet, mem[p].cmd = "sync", Select(p) PROVE Exact(p)'
<1>0. /\ p \in Procs /\ Exact(p) /\ TypeOK /\ mem[p] \in ProcMem /\ Local(p)
      /\ mem[p].known \in Nat /\ Present \in SUBSET Uids /\ Uids \subseteq Nat
  BY ExactFacts
<1> DEFINE seen == IF NeedsReset(p) THEN Newest(Present, InitialWindow) ELSE {}
           l == IF NeedsReset(p) THEN "fetch" ELSE "search"
           m == [mem[p] EXCEPT !.epoch = srvEpoch, !.reset = NeedsReset(p), !.seen = seen]
<1>1. Goto(p, l, m) /\ Reading(p) /\ pc[p] = "select"  BY DEF Select, At
<1>2. pc'[p] = l /\ mem'[p] = m  BY <1>0, <1>1, GotoSelf
<1>3. /\ m.epoch = srvEpoch /\ m.reset = NeedsReset(p) /\ m.known = mem[p].known
      /\ m.seen = seen /\ m.low = mem[p].low
  BY <1>0 DEF ProcMem
<1>4. ~NeedsReset(p) => validity = srvEpoch
  BY <1>0, <1>1 DEF NeedsReset, Local, BeforeSelect
<1>5. Present' = Present /\ Cached' = Cached /\ srvEpoch' = srvEpoch  BY <1>1, ReadingSets
<1>6. CASE ~NeedsReset(p)
  <2>1. pc'[p] = "search" /\ ~mem'[p].reset  BY <1>2, <1>3, <1>6
  <2>2. NothingBelow(p)  BY <1>0, <1>1, <1>4, <1>6 DEF Exact
  <2>3. NothingBelow(p)'
    <3> HIDE DEF m
    <3> QED BY <1>2, <1>3, <1>5, <2>2 DEF NothingBelow
  <2>4. mem'[p].epoch = srvEpoch'  BY <1>2, <1>3, <1>5
  <2> QED BY <2>1, <2>3, <2>4 DEF Exact
<1>7. CASE NeedsReset(p)
  <2> DEFINE S == Newest(Present, InitialWindow)
  <2>1. pc'[p] = "fetch" /\ mem'[p].reset /\ mem'[p].seen = S  BY <1>2, <1>3, <1>7
  <2>2. InitialWindow \in Nat \ {0} /\ S \subseteq Present
    BY ConstantsAssumption DEF ConstantsAssumption, Newest
  <2>3. ASSUME NEW u \in Present, S = {} \/ \E v \in S : v <= u PROVE u \in S
    <3>1. S # {}  BY <1>0, <2>2, NewestNotEmpty
    <3>2. PICK v \in S : v <= u  BY <2>3, <3>1
    <3> HIDE DEF S
    <3> QED BY <1>0, <2>2, <3>2, NewestIsUpper DEF S
  <2> HIDE DEF S
  <2>4. Sought(p)'  BY <1>5, <2>1, <2>2, <2>3 DEF Sought, Covered
  <2>5. mem'[p].epoch = srvEpoch'  BY <1>2, <1>3, <1>5
  <2> QED BY <2>1, <2>4, <2>5 DEF Exact, Growing
<1> QED BY <1>6, <1>7

\* The session.
LEMMA ExactSession ==
    ASSUME ExactInv, NEW p \in quiet, mem[p].cmd = "sync", Search(p) \/ Fetch(p) \/ Scan(p)
    PROVE  Exact(p)'
<1>0. /\ p \in Procs /\ Exact(p) /\ TypeOK /\ mem[p] \in ProcMem /\ Local(p)
      /\ mem[p].known \in Nat /\ mem[p].low \in Nat /\ mem[p].seen \in SUBSET Uids
      /\ Present \in SUBSET Uids /\ Uids \subseteq Nat
  BY ExactFacts
<1>1. Reading(p)  BY DEF Search, Fetch, Scan
<1>2. Present' = Present /\ Cached' = Cached /\ srvEpoch' = srvEpoch /\ srv' = srv
  BY <1>1, ReadingSets
<1>3. CASE Search(p)
  <2> DEFINE hits == {u \in Present : u > mem[p].known} \cup Newest(Present, 1)
             seen == {u \in hits : u > mem[p].known}
             m == [mem[p] EXCEPT !.seen = seen]
  <2>1. Goto(p, "fetch", m) /\ pc[p] = "search"  BY <1>3 DEF Search, At
  <2>2. pc'[p] = "fetch" /\ mem'[p] = m  BY <1>0, <2>1, GotoSelf
  <2>3. /\ m.epoch = mem[p].epoch /\ m.reset = mem[p].reset /\ ~mem[p].reset
        /\ m.known = mem[p].known /\ m.seen = seen /\ m.low = mem[p].low /\ Growing(p)
    BY <1>0, <2>1 DEF ProcMem, Local, AfterSelect, Growing
  <2>4. seen = {u \in Present : mem[p].known < u}
    <3>1. Newest(Present, 1) \subseteq Present /\ Present \subseteq Int
      BY DEF Newest, Present
    <3> QED BY <1>0, <3>1
  <2> HIDE DEF m, seen
  <2>5. mem[p].epoch = srvEpoch /\ NothingBelow(p)
    BY <1>0, <2>1, <2>3 DEF Exact, SelectedLabels
  <2>6. NothingBelow(p)' /\ mem'[p].epoch = srvEpoch'
    BY <1>2, <2>2, <2>3, <2>5 DEF NothingBelow
  <2>7. Sought(p)'  BY <1>2, <2>2, <2>3, <2>4 DEF Sought
  <2> QED BY <2>2, <2>6, <2>7 DEF Exact
<1>4. CASE Fetch(p)
  <2> DEFINE got == Fetched(mem[p].seen)
             l == IF mem[p].reset THEN "clear" ELSE "scan"
  <2>1. PICK m : /\ m = [mem[p] EXCEPT !.fresh = got, !.todo = {}]
                 /\ Goto(p, l, m) /\ pc[p] = "fetch"
    BY <1>4 DEF Fetch, At
  <2>2. pc'[p] = l /\ mem'[p] = m  BY <1>0, <2>1, GotoSelf
  <2>3. /\ m.epoch = mem[p].epoch /\ m.reset = mem[p].reset /\ m.cmd = mem[p].cmd
        /\ m.known = mem[p].known /\ m.seen = mem[p].seen /\ m.low = mem[p].low /\ m.fresh = got
    BY <1>0, <2>1 DEF ProcMem
  <2>4. mem[p].epoch = srvEpoch /\ Sought(p) /\ (~mem[p].reset => NothingBelow(p))
    BY <1>0, <2>1 DEF Exact, SelectedLabels, Growing
  <2>5. (~mem[p].reset => NothingBelow(p)') /\ mem'[p].epoch = srvEpoch'
    BY <1>2, <2>2, <2>3, <2>4 DEF NothingBelow
  <2>6. Covered(p)' = Covered(p)  BY <2>2, <2>3 DEF Covered
  <2>7. Sought(p)'  BY <1>2, <2>2, <2>3, <2>4, <2>6 DEF Sought
  <2>8. mem'[p].fresh = Fetched(mem[p].seen)'  BY <1>2, <2>2, <2>3 DEF Fetched
  <2>9. pc'[p] \in {"clear", "scan"} /\ (pc'[p] = "scan" => ~mem[p].reset)  BY <2>2
  <2> QED BY <2>2, <2>3, <2>5, <2>7, <2>8, <2>9 DEF Exact, Growing
<1>5. CASE Scan(p)
  <2> DEFINE S == {u \in Present : mem[p].low <= u} \cup Newest(Present, 1)
             m == [mem[p] EXCEPT !.scan = Fetched(S)]
  <2>1. Goto(p, "stamp", m) /\ pc[p] = "scan"  BY <1>5 DEF Scan, At
  <2>2. pc'[p] = "stamp" /\ mem'[p] = m  BY <1>0, <2>1, GotoSelf
  <2>3. /\ m.epoch = mem[p].epoch /\ m.reset = mem[p].reset /\ ~mem[p].reset /\ Growing(p)
        /\ m.known = mem[p].known /\ m.seen = mem[p].seen /\ m.low = mem[p].low
        /\ m.fresh = mem[p].fresh /\ m.scan = Fetched(S)
    BY <1>0, <2>1 DEF ProcMem, Local, AfterSelect, Growing
  <2>4. \A u \in Uids : mem[p].low <= u => Fetched(S)[u] = srv[u]
    BY DEF Fetched, Present
  <2> HIDE DEF S, m
  <2>5. /\ mem[p].epoch = srvEpoch /\ Sought(p) /\ NothingBelow(p)
        /\ mem[p].fresh = Fetched(mem[p].seen)
    BY <1>0, <2>1, <2>3 DEF Exact, SelectedLabels
  <2>6. NothingBelow(p)' /\ mem'[p].epoch = srvEpoch'
    BY <1>2, <2>2, <2>3, <2>5 DEF NothingBelow
  <2>7. Covered(p)' = Covered(p)  BY <2>2, <2>3 DEF Covered
  <2>8. Sought(p)'  BY <1>2, <2>2, <2>3, <2>5, <2>7 DEF Sought
  <2>9. mem'[p].fresh = Fetched(mem[p].seen)'  BY <1>2, <2>2, <2>3, <2>5 DEF Fetched
  <2>10. \A u \in Uids : mem'[p].low <= u => mem'[p].scan[u] = srv'[u]
    BY <1>2, <2>2, <2>3, <2>4
  <2> QED BY <2>2, <2>3, <2>6, <2>8, <2>9, <2>10 DEF Exact
<1> QED BY <1>3, <1>4, <1>5

\* clear and set_uidvalidity leave everything the sync knows as it is.
LEMMA ExactStamp ==
    ASSUME ExactInv, NEW p \in quiet, mem[p].cmd = "sync", ClearFolder(p) \/ SetValidity(p)
    PROVE  Exact(p)'
<1>0. p \in Procs /\ Exact(p) /\ TypeOK /\ Local(p)  BY ExactFacts
<1>1. /\ UNCHANGED serverVars
      /\ \/ pc[p] = "clear" /\ Goto(p, "stamp", mem[p])
         \/ pc[p] = "stamp" /\ Goto(p, "commit", mem[p]) /\ Cached' = Cached
  BY DEF ClearFolder, SetValidity, At, Cached
<1>2. mem'[p] = mem[p] /\ (\/ pc[p] = "clear" /\ pc'[p] = "stamp"
                           \/ pc[p] = "stamp" /\ pc'[p] = "commit" /\ Cached' = Cached)
  BY <1>0, <1>1, GotoSelf
<1>3. /\ mem[p].epoch = srvEpoch /\ Sought(p) /\ mem[p].fresh = Fetched(mem[p].seen)
      /\ pc[p] = "clear" => mem[p].reset
      /\ ~mem[p].reset => NothingBelow(p) /\ Cached' = Cached
                          /\ \A u \in Uids : mem[p].low <= u => mem[p].scan[u] = srv[u]
  BY <1>0, <1>2 DEF Exact, SelectedLabels, Growing, Local, AfterSelect
<1>4. Present' = Present  BY <1>1 DEF Present, serverVars
<1>5. Sought(p)' /\ (~mem[p].reset => NothingBelow(p)')
  BY <1>2, <1>3, <1>4 DEF Sought, Covered, NothingBelow
<1>6. mem'[p].fresh = Fetched(mem[p].seen)'  BY <1>1, <1>2, <1>3 DEF Fetched, serverVars
<1>7. ~mem'[p].reset => \A u \in Uids : mem'[p].low <= u => mem'[p].scan[u] = srv'[u]
  BY <1>1, <1>2, <1>3 DEF serverVars
<1> QED BY <1>1, <1>2, <1>3, <1>5, <1>6, <1>7 DEF Exact, Growing, serverVars

LEMMA ExactCommit ==
    ASSUME ExactInv, NEW p \in quiet, mem[p].cmd = "sync", Commit(p) PROVE Exact(p)'
<1>0. /\ p \in Procs /\ Exact(p) /\ TypeOK /\ Local(p) /\ Filling(p) /\ RowsReal
      /\ mem[p] \in ProcMem /\ mem[p].known \in Nat /\ mem[p].low \in Nat
      /\ mem[p].seen \in SUBSET Uids /\ Uids \subseteq Nat
  BY ExactFacts DEF HoleInv, Implementing
<1> DEFINE l == IF mem[p].reset THEN "organize" ELSE "list"
           new == Has(mem[p].fresh)
<1>1. /\ pc[p] = "commit" /\ Goto(p, l, mem[p]) /\ UNCHANGED serverVars
      /\ rows' = [u \in Uids |-> IF u \in new THEN RowOf(p, u) ELSE rows[u]]
  BY DEF Commit, At
<1>2. pc'[p] = l /\ mem'[p] = mem[p]  BY <1>0, <1>1, GotoSelf
<1>3. /\ mem[p].epoch = srvEpoch /\ Sought(p) /\ mem[p].fresh = Fetched(mem[p].seen)
      /\ ~mem[p].reset => NothingBelow(p)
  BY <1>0, <1>1 DEF Exact, SelectedLabels, Growing
<1>4. new = mem[p].seen
  BY <1>0, <1>3, FetchedIsPresent DEF Sought
<1>5. /\ mem[p].reset => Cached = {}
      /\ ~mem[p].reset => \A u \in Cached : u <= mem[p].known
  BY <1>0, <1>1 DEF Local, AfterSelect, Filling, Growing
<1>6. \A u \in new : Right(u)'
  <2> SUFFICES ASSUME NEW u \in new PROVE Right(u)'  OBVIOUS
  <2>1. u \in Uids /\ srv[u] # "none" /\ mem[p].fresh[u] = srv[u]
    BY <1>0, <1>3, <1>4 DEF Sought, Present, Fetched
  <2>2. rows'[u] = [epoch |-> srvEpoch, unread |-> srv[u] = "unread"]
    BY <1>1, <1>3, <2>1 DEF RowOf
  <2> QED BY <1>1, <2>1, <2>2 DEF Right, serverVars
<1>7. \A u \in Uids : (u \notin new /\ u \notin Cached /\ u \notin Present) => Right(u)'
  BY <1>1 DEF Right, Cached, Present, serverVars
<1>8. Covered(p)' = Covered(p) /\ Covered(p) \subseteq Uids  BY <1>2 DEF Covered
<1>9. srvEpoch' = srvEpoch /\ srv' = srv  BY <1>1 DEF serverVars
<1>10. CASE mem[p].reset
  <2>1. \A u \in Covered(p) : Right(u)'
    BY <1>3, <1>4, <1>5, <1>6, <1>7, <1>8, <1>10 DEF Sought
  <2>2. pc'[p] = "organize"  BY <1>2, <1>10
  <2>3. \A u \in Covered(p)' : Right(u)'  BY <1>8, <2>1
  <2> QED BY <2>2, <2>3 DEF Exact, SelectedLabels, Growing
<1>11. CASE ~mem[p].reset
  <2>1. pc'[p] = "list"  BY <1>2, <1>11
  <2>2. ASSUME NEW u \in Covered(p), srv[u] # "none" PROVE u \in Cached'
    <3>1. u \in Uids /\ u \in Present /\ mem[p].low <= u
      BY <1>8, <1>11, <2>2 DEF Covered, Present
    <3>2. CASE mem[p].known < u
      <4>1. Right(u)'  BY <1>3, <1>4, <1>6, <1>11, <3>1, <3>2 DEF Sought
      <4>2. rows'[u].epoch = srvEpoch  BY <1>9, <2>2, <4>1 DEF Right
      <4>3. srvEpoch # 0
        BY <1>0, ConstantsAssumption DEF TypeOK, ConstantsAssumption
      <4> QED BY <3>1, <4>2, <4>3 DEF Cached, NoRow
    <3>3. CASE u <= mem[p].known
      <4>1. u \in Cached  BY <1>3, <1>11, <3>1, <3>3 DEF NothingBelow
      <4>2. u \notin new  BY <1>0, <1>3, <1>4, <1>11, <3>1, <3>3 DEF Sought
      <4> QED BY <1>1, <4>1, <4>2 DEF Cached
    <3> QED BY <1>0, <3>1, <3>2, <3>3
  <2>3. ASSUME NEW u \in Covered(p), mem[p].known < u PROVE Right(u)'
    <3>1. u \in Uids /\ u \notin Cached  BY <1>0, <1>5, <1>8, <1>11, <2>3
    <3>2. u \in Present => u \in new  BY <1>3, <1>4, <1>11, <2>3 DEF Sought
    <3> QED BY <1>6, <1>7, <3>1, <3>2
  <2>4. \A u \in Covered(p)' : /\ srv'[u] # "none" => u \in Cached'
                               /\ mem'[p].known < u => Right(u)'
    BY <1>2, <1>8, <1>9, <2>2, <2>3
  <2>5. \A u \in Uids : mem'[p].low <= u => mem'[p].scan[u] = srv'[u]
    BY <1>0, <1>1, <1>2, <1>9, <1>11 DEF Exact
  <2>6. mem'[p].epoch = srvEpoch'  BY <1>2, <1>3, <1>9
  <2> QED BY <2>1, <2>4, <2>5, <2>6 DEF Exact, Growing
<1> QED BY <1>10, <1>11

\* The flags of the window, row by row.
LEMMA ExactList ==
    ASSUME ExactInv, NEW p \in quiet, mem[p].cmd = "sync", ListWindow(p) \/ FlagsDone(p)
    PROVE  Exact(p)'
<1>0. /\ p \in Procs /\ Exact(p) /\ TypeOK /\ Local(p) /\ mem[p] \in ProcMem
  BY ExactFacts
<1>1. Reading(p)  BY DEF ListWindow, FlagsDone
<1>2. /\ Present' = Present /\ Cached' = Cached /\ srvEpoch' = srvEpoch /\ srv' = srv
      /\ rows' = rows
  BY <1>1, ReadingSets
<1>3. \A u : Right(u)' <=> Right(u)  BY <1>2 DEF Right
<1>4. CASE ListWindow(p)
  <2>1. PICK m : /\ m = [mem[p] EXCEPT !.todo = {u \in Cached : mem[p].low <= u}]
                 /\ Goto(p, "flags", m) /\ pc[p] = "list"
    BY <1>4 DEF ListWindow, At
  <2>2. pc'[p] = "flags" /\ mem'[p] = m  BY <1>0, <2>1, GotoSelf
  <2>3. /\ m.epoch = mem[p].epoch /\ m.reset = mem[p].reset /\ m.known = mem[p].known
        /\ m.seen = mem[p].seen /\ m.low = mem[p].low /\ m.scan = mem[p].scan
        /\ m.todo = {u \in Cached : mem[p].low <= u} /\ ~mem[p].reset
    BY <1>0, <2>1 DEF ProcMem, Local, AfterSelect
  <2>4. /\ mem[p].epoch = srvEpoch
        /\ \A u \in Uids : mem[p].low <= u => mem[p].scan[u] = srv[u]
        /\ \A u \in Covered(p) : /\ srv[u] # "none" => u \in Cached
                                 /\ mem[p].known < u => Right(u)
    BY <1>0, <2>1, <2>3 DEF Exact, SelectedLabels
  <2>5. Covered(p)' = Covered(p)  BY <2>2, <2>3 DEF Covered
  <2>6. ASSUME NEW u \in Covered(p), u \notin m.todo PROVE Right(u)
    <3>1. u \in Uids /\ mem[p].low <= u /\ u \notin Cached  BY <2>3, <2>6 DEF Covered
    <3> QED BY <2>4, <3>1 DEF Right, Cached
  <2>7. \A u \in Covered(p)' : /\ srv'[u] # "none" => u \in Cached'
                               /\ mem'[p].known < u => Right(u)'
                               /\ Right(u)' \/ u \in mem'[p].todo
    BY <1>2, <1>3, <2>2, <2>3, <2>4, <2>5, <2>6
  <2>8. \A u \in Uids : mem'[p].low <= u => mem'[p].scan[u] = srv'[u]
    BY <1>2, <2>2, <2>3, <2>4
  <2>9. mem'[p].epoch = srvEpoch'  BY <1>2, <2>2, <2>3, <2>4
  <2> QED BY <2>2, <2>7, <2>8, <2>9 DEF Exact, Growing
<1>5. CASE FlagsDone(p)
  <2>1. Goto(p, "organize", mem[p]) /\ pc[p] = "flags" /\ mem[p].todo = {}
    BY <1>5 DEF FlagsDone, At
  <2>2. pc'[p] = "organize" /\ mem'[p] = mem[p]  BY <1>0, <2>1, GotoSelf
  <2>3. \A u \in Covered(p) : Right(u)  BY <1>0, <2>1 DEF Exact
  <2>4. \A u \in Covered(p)' : Right(u)'  BY <1>3, <2>2, <2>3 DEF Covered
  <2> QED BY <2>2, <2>4 DEF Exact, SelectedLabels, Growing
<1> QED BY <1>4, <1>5

LEMMA ExactFlag ==
    ASSUME ExactInv, NEW p \in quiet, mem[p].cmd = "sync", FlagRow(p) PROVE Exact(p)'
<1>0. /\ p \in Procs /\ Exact(p) /\ TypeOK /\ Local(p) /\ mem[p] \in ProcMem
      /\ mem[p].known \in Nat /\ mem[p].low \in Nat /\ mem[p].todo \in SUBSET Uids
      /\ Uids \subseteq Nat /\ rows \in [Uids -> Row]
  BY ExactFacts
<1>1. PICK x \in mem[p].todo :
        /\ rows' = IF rows[x] = NoRow THEN rows
                   ELSE IF mem[p].scan[x] # "none"
                        THEN [rows EXCEPT ![x].unread = mem[p].scan[x] = "unread"]
                   ELSE IF mem[p].cmd = "sync" /\ ShouldDeleteMissing(p, x)
                        THEN [rows EXCEPT ![x] = NoRow]
                   ELSE rows
        /\ Goto(p, "flags", [mem[p] EXCEPT !.todo = mem[p].todo \ {x}])
  BY DEF FlagRow
<1>2. PICK m : /\ m = [mem[p] EXCEPT !.todo = mem[p].todo \ {x}]
               /\ Goto(p, "flags", m) /\ pc[p] = "flags" /\ UNCHANGED serverVars
  BY <1>1 DEF FlagRow, At
<1>3. pc'[p] = "flags" /\ mem'[p] = m  BY <1>0, <1>2, GotoSelf
<1>4. /\ m.epoch = mem[p].epoch /\ m.reset = mem[p].reset /\ m.known = mem[p].known
      /\ m.seen = mem[p].seen /\ m.low = mem[p].low /\ m.scan = mem[p].scan
      /\ m.todo = mem[p].todo \ {x} /\ ~mem[p].reset
  BY <1>0, <1>2 DEF ProcMem, Local, AfterSelect
<1>5. /\ mem[p].epoch = srvEpoch
      /\ \A u \in Uids : mem[p].low <= u => mem[p].scan[u] = srv[u]
      /\ \A u \in Covered(p) : /\ srv[u] # "none" => u \in Cached
                               /\ mem[p].known < u => Right(u)
                               /\ Right(u) \/ u \in mem[p].todo
  BY <1>0, <1>2, <1>4 DEF Exact, SelectedLabels
<1>6. srvEpoch' = srvEpoch /\ srv' = srv  BY <1>2 DEF serverVars
<1>7. Covered(p)' = Covered(p) /\ Covered(p) \subseteq Uids  BY <1>3, <1>4 DEF Covered
<1>8. x \in Uids /\ x \in Covered(p) /\ mem[p].scan[x] = srv[x]
  BY <1>0, <1>2, <1>4, <1>5 DEF Local, ScanSound, Covered
<1>9. \A u \in Uids : u # x => rows'[u] = rows[u]  BY <1>0, <1>1
<1>10. Right(x)'
  <2>1. CASE rows[x] = NoRow
    <3>1. rows' = rows /\ x \notin Cached  BY <1>1, <2>1 DEF Cached
    <3>2. srv[x] = "none"  BY <1>5, <1>8, <3>1
    <3> QED BY <1>6, <2>1, <3>1, <3>2 DEF Right
  <2>2. CASE rows[x] # NoRow /\ srv[x] # "none"
    <3>1. rows[x].epoch = srvEpoch /\ rows[x] \in Row
      <4>1. x \in Cached  BY <1>8, <2>2 DEF Cached
      <4>2. rows[x].epoch = mem[p].epoch
        BY <1>0, <1>2, <1>4, <4>1 DEF Local, AfterSelect, InSync
      <4> QED BY <1>0, <1>5, <1>8, <4>2
    <3>2. rows'[x] = [rows[x] EXCEPT !.unread = srv[x] = "unread"]
      BY <1>0, <1>1, <1>8, <2>2
    <3>3. rows'[x] = [epoch |-> srvEpoch, unread |-> srv[x] = "unread"]
      BY <3>1, <3>2 DEF Row
    <3> QED BY <1>6, <2>2, <3>3 DEF Right
  <2>3. CASE rows[x] # NoRow /\ srv[x] = "none"
    <3>1. CASE x <= mem[p].known
      <4>1. rows'[x] = NoRow
        BY <1>0, <1>1, <1>8, <2>3, <3>1 DEF ShouldDeleteMissing
      <4> QED BY <1>6, <2>3, <4>1 DEF Right
    <3>2. CASE mem[p].known < x
      <4>1. Right(x)  BY <1>5, <1>8, <3>2
      <4> QED BY <2>3, <4>1 DEF Right
    <3> QED BY <1>0, <1>8, <3>1, <3>2
  <2> QED BY <2>1, <2>2, <2>3
<1>11. \A u \in Uids : u # x => (Right(u)' <=> Right(u))  BY <1>6, <1>9 DEF Right
<1>12. \A u \in Uids : u # x => (u \in Cached' <=> u \in Cached)  BY <1>9 DEF Cached
<1>13. srv[x] # "none" => x \in Cached'
  <2> SUFFICES ASSUME srv[x] # "none" PROVE x \in Cached'  OBVIOUS
  <2>1. rows'[x].epoch = srvEpoch  BY <1>6, <1>10 DEF Right
  <2>2. srvEpoch # 0  BY <1>0, ConstantsAssumption DEF TypeOK, ConstantsAssumption
  <2> QED BY <1>8, <2>1, <2>2 DEF Cached, NoRow
<1>14. \A u \in Covered(p)' : /\ srv'[u] # "none" => u \in Cached'
                              /\ mem'[p].known < u => Right(u)'
                              /\ Right(u)' \/ u \in mem'[p].todo
  <2> SUFFICES ASSUME NEW u \in Covered(p)
               PROVE  /\ srv[u] # "none" => u \in Cached'
                      /\ mem[p].known < u => Right(u)'
                      /\ Right(u)' \/ u \in mem[p].todo \ {x}
    BY <1>3, <1>4, <1>6, <1>7
  <2>1. CASE u = x  BY <1>10, <1>13, <2>1
  <2>2. CASE u # x  BY <1>5, <1>7, <1>11, <1>12, <2>2
  <2> QED BY <2>1, <2>2
<1>15. \A u \in Uids : mem'[p].low <= u => mem'[p].scan[u] = srv'[u]
  BY <1>3, <1>4, <1>5, <1>6
<1>16. mem'[p].epoch = srvEpoch'  BY <1>3, <1>4, <1>5, <1>6
<1> QED BY <1>3, <1>14, <1>15, <1>16 DEF Exact, Growing

\* The rules: what is moved on the server is gone there before its row is.
LEMMA ExactOrganize ==
    ASSUME ExactInv, NEW p \in quiet, mem[p].cmd = "sync",
           PlanMoves(p) \/ OrganizeOnServer(p) \/ OrganizeRow(p)
    PROVE  Exact(p)'
<1>0. /\ p \in Procs /\ Exact(p) /\ TypeOK /\ Fit(p) /\ mem[p] \in ProcMem
      /\ mem[p].todo \in SUBSET Uids /\ rows \in [Uids -> Row] /\ srv \in [Uids -> Flag]
  BY ExactFacts
<1>1. Matched(p) \subseteq Uids /\ Covered(p) \subseteq Uids  BY DEF Matched, Has, Covered
<1>2. CASE PlanMoves(p)
  <2>1. PICK m : /\ m = [mem[p] EXCEPT !.todo = Matched(p)]
                 /\ Goto(p, IF Matched(p) = {} THEN "finish" ELSE "orgMove", m)
                 /\ pc[p] = "organize" /\ Reading(p)
    BY <1>2 DEF PlanMoves, At
  <2>2. pc'[p] \in {"finish", "orgMove"} /\ mem'[p] = m  BY <1>0, <2>1, GotoSelf
  <2>3. /\ m.reset = mem[p].reset /\ m.seen = mem[p].seen /\ m.low = mem[p].low
        /\ m.fresh = mem[p].fresh /\ m.todo = Matched(p)
    BY <1>0, <2>1 DEF ProcMem
  <2>4. Covered(p)' = Covered(p) /\ Matched(p)' = Matched(p)
    BY <2>2, <2>3 DEF Covered, Matched, Has
  <2>5. \A u : Right(u)' <=> Right(u)  BY <2>1, ReadingSets DEF Right
  <2>6. \A u \in Covered(p)' : Right(u)'  BY <1>0, <2>1, <2>4, <2>5 DEF Exact
  <2>7. mem'[p].todo \subseteq Matched(p)'  BY <2>2, <2>3, <2>4
  <2> QED BY <2>2, <2>6, <2>7 DEF Exact, SelectedLabels, Growing
<1>3. CASE OrganizeOnServer(p)
  <2>1. PICK x \in mem[p].todo :
          /\ srv' = [srv EXCEPT ![x] = "none"]
          /\ LET rest == mem[p].todo \ {x}
             IN  Goto(p, IF rest = {} THEN "orgDelete" ELSE "orgMove",
                      [mem[p] EXCEPT !.todo = IF rest = {} THEN Matched(p) ELSE rest])
    BY <1>3 DEF OrganizeOnServer
  <2> DEFINE rest == mem[p].todo \ {x}
  <2>2. PICK m : m = [mem[p] EXCEPT !.todo = IF rest = {} THEN Matched(p) ELSE rest]
    OBVIOUS
  <2>3. pc[p] = "orgMove" /\ UNCHANGED <<srvEpoch, dbVars>>
    BY <1>3 DEF OrganizeOnServer, At
  <2>4. pc'[p] = (IF rest = {} THEN "orgDelete" ELSE "orgMove") /\ mem'[p] = m
    BY <1>0, <2>1, <2>2, GotoSelf
  <2>5. /\ m.reset = mem[p].reset /\ m.seen = mem[p].seen /\ m.low = mem[p].low
        /\ m.fresh = mem[p].fresh /\ m.todo = IF rest = {} THEN Matched(p) ELSE rest
    BY <1>0, <2>2 DEF ProcMem
  <2>6. Covered(p)' = Covered(p) /\ Matched(p)' = Matched(p)
    BY <2>4, <2>5 DEF Covered, Matched, Has
  <2>7. /\ mem[p].todo \subseteq Matched(p)
        /\ \A u \in Covered(p) :
              Right(u) \/ (srv[u] = "none" /\ u \in Matched(p) \ mem[p].todo)
    BY <1>0, <2>3 DEF Exact
  <2>8. ASSUME NEW u \in Uids, u # x PROVE (Right(u)' <=> Right(u)) /\ srv'[u] = srv[u]
    BY <1>0, <2>1, <2>3, <2>8 DEF Right, dbVars
  <2>9. srv'[x] = "none" /\ x \in Matched(p)  BY <1>0, <2>1, <2>7
  <2>10. \A u \in Covered(p) :
           Right(u)' \/ (srv'[u] = "none" /\ u \in Matched(p) \ rest)
    <3> SUFFICES ASSUME NEW u \in Covered(p)
                 PROVE  Right(u)' \/ (srv'[u] = "none" /\ u \in Matched(p) \ rest)
      OBVIOUS
    <3>1. CASE u = x  BY <2>9, <3>1
    <3>2. CASE u # x  BY <1>1, <2>7, <2>8, <3>2
    <3> QED BY <3>1, <3>2
  <2>11. CASE rest = {}
    <3>1. pc'[p] = "orgDelete" /\ mem'[p].todo = Matched(p)  BY <2>4, <2>5, <2>11
    <3>2. \A u \in Covered(p)' : Right(u)' \/ (srv'[u] = "none" /\ u \in mem'[p].todo)
      BY <2>6, <2>10, <3>1
    <3> QED BY <3>1, <3>2 DEF Exact, SelectedLabels, Growing
  <2>12. CASE rest # {}
    <3>1. pc'[p] = "orgMove" /\ mem'[p].todo = rest  BY <2>4, <2>5, <2>12
    <3>2. \A u \in Covered(p)' :
            Right(u)' \/ (srv'[u] = "none" /\ u \in Matched(p)' \ mem'[p].todo)
      BY <2>6, <2>10, <3>1
    <3>3. mem'[p].todo \subseteq Matched(p)'  BY <2>6, <2>7, <3>1
    <3> HIDE DEF rest
    <3> QED BY <3>1, <3>2, <3>3 DEF Exact, SelectedLabels, Growing
  <2> QED BY <2>11, <2>12
<1>4. CASE OrganizeRow(p)
  <2>1. PICK x \in mem[p].todo :
          /\ rows' = [rows EXCEPT ![x] = NoRow]
          /\ LET rest == mem[p].todo \ {x}
             IN  Goto(p, IF rest = {} THEN "finish" ELSE "orgDelete",
                      [mem[p] EXCEPT !.todo = rest])
    BY <1>4 DEF OrganizeRow
  <2> DEFINE rest == mem[p].todo \ {x}
  <2>2. PICK m : m = [mem[p] EXCEPT !.todo = rest]  OBVIOUS
  <2>3. pc[p] = "orgDelete" /\ UNCHANGED serverVars
    BY <1>4 DEF OrganizeRow, At
  <2>4. pc'[p] = (IF rest = {} THEN "finish" ELSE "orgDelete") /\ mem'[p] = m
    BY <1>0, <2>1, <2>2, GotoSelf
  <2>5. /\ m.reset = mem[p].reset /\ m.seen = mem[p].seen /\ m.low = mem[p].low
        /\ m.todo = rest
    BY <1>0, <2>2 DEF ProcMem
  <2>6. Covered(p)' = Covered(p)  BY <2>4, <2>5 DEF Covered
  <2>7. \A u \in Covered(p) : Right(u) \/ (srv[u] = "none" /\ u \in mem[p].todo)
    BY <1>0, <2>3 DEF Exact
  <2>8. ASSUME NEW u \in Uids, u # x PROVE Right(u)' <=> Right(u)
    BY <1>0, <2>1, <2>3, <2>8 DEF Right, serverVars
  <2>9. x \in Uids /\ rows'[x] = NoRow /\ Gone(x)  BY <1>0, <2>1, <2>3 DEF Fit
  <2>10. x \in Covered(p) => Right(x)'
    <3> SUFFICES ASSUME x \in Covered(p) PROVE srv[x] = "none"
      BY <2>3, <2>9 DEF Right, serverVars
    <3>1. Right(x) \/ srv[x] = "none"  BY <2>7
    <3> QED BY <2>9, <3>1 DEF Right, Gone
  <2>11. \A u \in Covered(p) : Right(u)' \/ (srv'[u] = "none" /\ u \in rest)
    <3> SUFFICES ASSUME NEW u \in Covered(p), u # x
                 PROVE  Right(u)' \/ (srv'[u] = "none" /\ u \in rest)
      BY <2>10
    <3>1. Right(u)' <=> Right(u)  BY <1>1, <2>8
    <3> QED BY <2>3, <2>7, <3>1 DEF serverVars
  <2>12. CASE rest = {}
    <3>1. pc'[p] = "finish"  BY <2>4, <2>12
    <3>2. \A u \in Covered(p)' : Right(u)'  BY <2>6, <2>11, <2>12
    <3> QED BY <3>1, <3>2 DEF Exact, SelectedLabels, Growing
  <2>13. CASE rest # {}
    <3>1. pc'[p] = "orgDelete" /\ mem'[p].todo = rest  BY <2>4, <2>5, <2>13
    <3>2. \A u \in Covered(p)' : Right(u)' \/ (srv'[u] = "none" /\ u \in mem'[p].todo)
      BY <2>6, <2>11, <3>1
    <3> HIDE DEF rest
    <3> QED BY <3>1, <3>2 DEF Exact, SelectedLabels, Growing
  <2> QED BY <2>12, <2>13
<1> QED BY <1>2, <1>3, <1>4

LEMMA ExactSyncStep ==
    ASSUME ExactInv, HoleInv', NEW p \in Procs, SyncStep(p) PROVE ExactInv'
<1>0. TypeOK /\ Owner(p) /\ mem[p] \in ProcMem  BY HoleFacts DEF ExactInv
<1>1. mem[p].cmd \in {"sync", "older"} /\ lock = p
  <2>1. pc[p] \in SyncLabels \cup {"fetch"}
    BY DEF SyncStep, SyncLabels, At, ReadValidity, ReadMax, ReadLow, Select, Search, Fetch,
       Scan, ClearFolder, SetValidity, Commit, ListWindow, FlagRow, FlagsDone, PlanMoves,
       OrganizeOnServer, OrganizeRow
  <2> QED BY <1>0, <2>1 DEF Owner
<1>2. lock' = lock
  BY DEF SyncStep, Reading, ReadValidity, ReadMax, ReadLow, Select, Search, Fetch,
       Scan, ClearFolder, SetValidity, Commit, ListWindow, FlagRow, FlagsDone, PlanMoves,
       OrganizeOnServer, OrganizeRow
<1>3. quiet' \subseteq quiet
  BY <1>1 DEF SyncStep, Reading, ReadValidity, ReadMax, ReadLow, Select, Search, Fetch,
       Scan, ClearFolder, SetValidity, Commit, ListWindow, FlagRow, FlagsDone, PlanMoves,
       OrganizeOnServer, OrganizeRow
<1>4. CASE mem[p].cmd = "sync"
  <2>1. p \in quiet => Exact(p)'
    BY <1>4, ExactBeforeSelect, ExactSelect, ExactSession, ExactStamp, ExactCommit,
       ExactList, ExactFlag, ExactOrganize DEF SyncStep
  <2> QED BY <1>1, <1>2, <1>3, <2>1, ExactStep
<1>5. CASE mem[p].cmd = "older"
  <2>1. Fetch(p)
    <3>1. pc[p] \notin SyncLabels  BY <1>0, <1>5 DEF Owner
    <3> QED BY <3>1 DEF SyncStep, SyncLabels, At, ReadValidity, ReadMax, ReadLow, Select,
          Search, Scan, ClearFolder, SetValidity, Commit, ListWindow, FlagRow, FlagsDone,
          PlanMoves, OrganizeOnServer, OrganizeRow
  <2>2. PICK m : /\ m = [mem[p] EXCEPT !.fresh = Fetched(mem[p].seen),
                                       !.todo = Has(Fetched(mem[p].seen))]
                 /\ Goto(p, "insert", m)
    BY <1>5, <2>1 DEF Fetch
  <2>3. mem'[p].cmd = "older"  BY <1>0, <1>5, <2>2, GotoSelf DEF ProcMem
  <2> QED BY <1>1, <1>2, <1>3, <2>3, ExactStep
<1> QED BY <1>1, <1>4, <1>5

LEMMA ExactOlderStep ==
    ASSUME ExactInv, HoleInv', NEW p \in Procs, OlderStep(p) PROVE ExactInv'
<1>0. TypeOK /\ Owner(p) /\ mem[p] \in ProcMem  BY HoleFacts DEF ExactInv
<1>1. mem[p].cmd = "older" /\ lock = p
  BY <1>0 DEF OlderStep, ReadMin, SelectOlder, InsertRow, InsertDone, At, Owner, OlderLabels
<1>2. lock' = lock /\ quiet' \subseteq quiet
  BY <1>1 DEF OlderStep, ReadMin, SelectOlder, InsertRow, InsertDone, Reading
<1>3. mem'[p].cmd = "older"
  <2>1. CASE ReadMin(p)
    <3>1. PICK k \in 0 .. MaxUid :
            Goto(p, IF k <= 1 THEN "finish" ELSE "older", [mem[p] EXCEPT !.known = k])
      BY <2>1 DEF ReadMin
    <3> QED BY <1>0, <1>1, <3>1, GotoSelf DEF ProcMem
  <2>2. CASE SelectOlder(p)
    <3>1. Goto(p, "fetch", [mem[p] EXCEPT !.epoch = srvEpoch,
                !.seen = Newest({u \in Present : u < mem[p].known}, OlderWindow)])
      BY <2>2 DEF SelectOlder
    <3> QED BY <1>0, <1>1, <3>1, GotoSelf DEF ProcMem
  <2>3. CASE InsertRow(p)
    <3>1. PICK x \in mem[p].todo :
            Goto(p, "insert", [mem[p] EXCEPT !.todo = mem[p].todo \ {x}])
      BY <2>3 DEF InsertRow
    <3> QED BY <1>0, <1>1, <3>1, GotoSelf DEF ProcMem
  <2>4. CASE InsertDone(p)
    <3>1. Goto(p, "finish", mem[p])  BY <1>1, <2>4 DEF InsertDone
    <3> QED BY <1>0, <1>1, <3>1, GotoSelf
  <2> QED BY <2>1, <2>2, <2>3, <2>4 DEF OlderStep
<1> QED BY <1>1, <1>2, <1>3, ExactStep

LEMMA ExactStart ==
    ASSUME ExactInv, HoleInv', NEW p \in Procs, Start(p) PROVE ExactInv'
<1>0. TypeOK  BY DEF ExactInv, HoleInv, Implementing, Inductive
<1>1. ASSUME NEW cmd \in {"sync", "older"}, Acquire(p, cmd) PROVE ExactInv'
  <2>1. quiet = {}
    BY <1>0, <1>1, ConstantsAssumption
       DEF Acquire, ExactInv, TypeOK, ConstantsAssumption
  <2>2. quiet' = {p} /\ lock' = p  BY <1>1, <2>1 DEF Acquire
  <2>3. pc'[p] \in {"validity", "min"}  BY <1>0, <1>1, GotoSelf DEF Acquire
  <2>4. Exact(p)'  BY <2>3 DEF Exact, SelectedLabels, Growing
  <2> QED BY <2>2, <2>4 DEF ExactInv
<1>2. ASSUME NEW u \in Uids, MoveOnServer(p, u) PROVE quiet' = {}
  BY <1>2 DEF MoveOnServer
<1>3. ASSUME NEW u \in Uids, NEW flag \in {"read", "unread"}, SetReadOnServer(p, u, flag)
      PROVE  quiet' = {}
  BY <1>3 DEF SetReadOnServer
<1>4. StartDaily(p) => quiet' = {}  BY DEF StartDaily
<1>5. quiet' = {} => ExactInv'  BY DEF ExactInv
<1> QED BY <1>1, <1>2, <1>3, <1>4, <1>5 DEF Start

LEMMA ExactEnd ==
    ASSUME ExactInv, HoleInv', NEW p \in Procs, Finish(p) \/ SessionLost(p) \/ Abort(p)
    PROVE  ExactInv'
<1>0. TypeOK  BY DEF ExactInv, HoleInv, Implementing, Inductive
<1>1. End(p) /\ quiet' = quiet \ {p} /\ UNCHANGED <<serverVars, dbVars>>
  BY DEF Finish, SessionLost, Abort
<1>2. ASSUME NEW q \in quiet' PROVE lock' = q /\ (mem'[q].cmd = "sync" => Exact(q)')
  <2>1. q \in quiet /\ q # p /\ q \in Procs /\ lock = q  BY <1>0, <1>1 DEF ExactInv, TypeOK
  <2>2. pc'[q] = pc[q] /\ mem'[q] = mem[q] /\ lock' = lock
    BY <1>0, <1>1, <2>1 DEF End, Goto, TypeOK
  <2> QED BY <1>1, <2>1, <2>2, ExactKept DEF ExactInv
<1> QED BY <1>2 DEF ExactInv

LEMMA ExactNext ==
    ASSUME ExactInv, "daily" \notin Commands, NoMoveAcrossRebuild, "insert" \notin AbortAt,
           [Next]_vars
    PROVE  ExactInv'
<1>0. HoleInv'  BY HoleNext DEF ExactInv
<1>1. quiet' = {} => ExactInv'  BY <1>0 DEF ExactInv
<1>2. CASE ServerStep
  <2>1. quiet' = {}  BY <1>2 DEF ServerStep, Deliver, Expunge, ChangeFlag, NewValidity
  <2> QED BY <1>1, <2>1
<1>3. ASSUME NEW p \in Procs, Start(p) PROVE ExactInv'  BY <1>0, <1>3, ExactStart
<1>4. ASSUME NEW p \in Procs, SyncStep(p) PROVE ExactInv'  BY <1>0, <1>4, ExactSyncStep
<1>5. ASSUME NEW p \in Procs, OlderStep(p) PROVE ExactInv'  BY <1>0, <1>5, ExactOlderStep
<1>6. ASSUME NEW p \in Procs, UserStep(p) PROVE ExactInv'
  BY <1>1, <1>6 DEF UserStep, SetReadRow, MoveRow
<1>7. ASSUME NEW p \in Procs, Finish(p) \/ SessionLost(p) \/ Abort(p) PROVE ExactInv'
  BY <1>0, <1>7, ExactEnd
<1>8. CASE UNCHANGED vars
  <2>1. ASSUME NEW q \in quiet, mem[q].cmd = "sync" PROVE Exact(q)'
    BY <1>8, <2>1, ExactKept DEF ExactInv, vars, serverVars, dbVars
  <2> QED BY <1>0, <1>8, <2>1 DEF ExactInv, vars
<1> QED BY <1>2, <1>3, <1>4, <1>5, <1>6, <1>7, <1>8 DEF Next, Run

\* A sync during which nobody else acted leaves the part of the folder it
\* answers for exactly as the server has it, whatever the cache held before
\* and whatever earlier commands, complete or cut short, left in it - unless
\* a backfill was cut short in the middle of its batch.
THEOREM UndisturbedSyncIsExact ==
    ASSUME "daily" \notin Commands, NoMoveAcrossRebuild, "insert" \notin AbortAt
    PROVE  Spec => []SyncExact
<1>1. ExactInv => SyncExact  BY DEF ExactInv, Exact, SyncExact, Right, At
<1>2. Init => ExactInv  BY HoleInit DEF ExactInv, Init
<1>3. ExactInv /\ [Next]_vars => ExactInv'  BY ExactNext
<1> QED BY <1>1, <1>2, <1>3, PTL DEF Spec

(***************************************************************************)
(* The rules.  A sync that holds the lock has the rows of its new mail to  *)
(* itself, but for rows that others take away: what a rule matches is      *)
(* deleted before the sync is over, and nobody puts it back.               *)
(***************************************************************************)
Filed(p) ==
    /\ pc[p] = "orgDelete" => Matched(p) \cap Cached \subseteq mem[p].todo
    /\ (pc[p] = "finish" /\ mem[p].cmd = "sync") => Matched(p) \cap Cached = {}

FiledInv == Inductive /\ \A p \in Procs : Filed(p)

\* Nobody adds a row while another process has the lock.
LEMMA FiledStep ==
    ASSUME FiledInv, NEW p \in Procs, NEW l, NEW m, Goto(p, l, m), Filed(p)',
           lock = p \/ Cached' \subseteq Cached
    PROVE  \A q \in Procs : Filed(q)'
<1> SUFFICES ASSUME NEW q \in Procs, q # p PROVE Filed(q)'  OBVIOUS
<1>1. pc'[q] = pc[q] /\ mem'[q] = mem[q]  BY DEF Goto, FiledInv, Inductive, TypeOK
<1>2. CASE Cached' \subseteq Cached  BY <1>1, <1>2 DEF FiledInv, Filed, Matched
<1>3. CASE lock = p
  <2>1. Owner(q) /\ lock # q  BY <1>3 DEF FiledInv, Inductive
  <2>2. pc[q] # "orgDelete" /\ mem[q].cmd # "sync"  BY <2>1 DEF Owner, SyncLabels
  <2> QED BY <1>1, <2>2 DEF Filed
<1> QED BY <1>2, <1>3

\* A step to a statement at which nothing is filed yet.
LEMMA UnfiledStep ==
    ASSUME FiledInv, NEW p \in Procs, NEW l, NEW m, Goto(p, l, m),
           l # "orgDelete", l = "finish" => m.cmd # "sync",
           lock = p \/ Cached' \subseteq Cached
    PROVE  \A q \in Procs : Filed(q)'
<1>1. pc'[p] = l /\ mem'[p] = m  BY GotoSelf DEF FiledInv, Inductive
<1>2. Filed(p)'  BY <1>1 DEF Filed
<1> QED BY <1>2, FiledStep

LEMMA FiledSync ==
    ASSUME FiledInv, NEW p \in Procs, SyncStep(p)
    PROVE  \A q \in Procs : Filed(q)'
<1>0. TypeOK /\ Owner(p) /\ mem[p] \in ProcMem  BY DEF FiledInv, Inductive, TypeOK
<1>1. pc[p] \in SyncLabels \cup {"fetch"}
  BY DEF SyncStep, ReadValidity, ReadMax, ReadLow, Select, Search, Fetch, Scan, ClearFolder,
         SetValidity, Commit, ListWindow, FlagRow, FlagsDone, PlanMoves, OrganizeOnServer,
         OrganizeRow, At, SyncLabels
<1>2. lock = p /\ (pc[p] # "fetch" => mem[p].cmd = "sync")
  BY <1>0, <1>1 DEF Owner, SyncLabels
<1>3. CASE PlanMoves(p)
  <2>1. PICK l \in {"finish", "orgMove"} :
          Goto(p, l, [mem[p] EXCEPT !.todo = Matched(p)]) /\ (l = "finish" => Matched(p) = {})
    BY <1>3 DEF PlanMoves
  <2>2. PICK m : m = [mem[p] EXCEPT !.todo = Matched(p)]  OBVIOUS
  <2>3. pc'[p] = l /\ mem'[p] = m /\ m.fresh = mem[p].fresh
    BY <1>0, <2>1, <2>2, GotoSelf DEF ProcMem
  <2>4. Filed(p)'  BY <2>1, <2>3 DEF Filed, Matched
  <2> QED BY <1>2, <2>1, <2>4, FiledStep
<1>4. CASE OrganizeOnServer(p)
  <2>1. PICK u \in mem[p].todo :
          LET rest == mem[p].todo \ {u}
          IN  Goto(p, IF rest = {} THEN "orgDelete" ELSE "orgMove",
                   [mem[p] EXCEPT !.todo = IF rest = {} THEN Matched(p) ELSE rest])
    BY <1>4 DEF OrganizeOnServer
  <2>2. PICK l, m : /\ m = [mem[p] EXCEPT !.todo = IF l = "orgDelete" THEN Matched(p)
                                                   ELSE mem[p].todo \ {u}]
                    /\ l \in {"orgDelete", "orgMove"} /\ Goto(p, l, m)
    BY <2>1
  <2>3. /\ pc'[p] = l /\ mem'[p] = m /\ m.fresh = mem[p].fresh
        /\ l = "orgDelete" => m.todo = Matched(p)
    BY <1>0, <2>2, GotoSelf DEF ProcMem
  <2>4. Filed(p)'  BY <2>2, <2>3 DEF Filed, Matched
  <2> QED BY <1>2, <2>2, <2>4, FiledStep
<1>5. CASE OrganizeRow(p)
  <2>1. PICK u \in mem[p].todo :
          /\ rows' = [rows EXCEPT ![u] = NoRow]
          /\ LET rest == mem[p].todo \ {u}
             IN  Goto(p, IF rest = {} THEN "finish" ELSE "orgDelete",
                      [mem[p] EXCEPT !.todo = rest])
    BY <1>5 DEF OrganizeRow
  <2>2. PICK l, m : /\ m = [mem[p] EXCEPT !.todo = mem[p].todo \ {u}] /\ Goto(p, l, m)
                    /\ l \in {"finish", "orgDelete"}
                    /\ l = "finish" => mem[p].todo \ {u} = {}
    BY <2>1
  <2>3. pc'[p] = l /\ mem'[p] = m /\ m.fresh = mem[p].fresh /\ m.todo = mem[p].todo \ {u}
    BY <1>0, <2>2, GotoSelf DEF ProcMem
  <2>4. Cached' \subseteq Cached \ {u}  BY <1>0, <2>1 DEF Cached, TypeOK
  <2>5. Matched(p) \cap Cached \subseteq mem[p].todo
    BY <1>5 DEF FiledInv, Filed, OrganizeRow, At
  <2>6. Matched(p)' = Matched(p)  BY <2>3 DEF Matched
  <2>7. Filed(p)'  BY <2>2, <2>3, <2>4, <2>5, <2>6 DEF Filed
  <2> QED BY <1>2, <2>2, <2>7, FiledStep
<1>6. CASE ~PlanMoves(p) /\ ~OrganizeOnServer(p) /\ ~OrganizeRow(p)
  <2>1. CASE pc[p] # "fetch"
    <3>1. mem[p].cmd = "sync"  BY <1>2, <2>1
    <3> DEFINE Goes == \E l, m : Goto(p, l, m) /\ l \notin {"orgDelete", "finish"}
    <3>2. ReadValidity(p) \/ ReadMax(p) \/ ReadLow(p) => Goes
      <4>1. ReadValidity(p) => \E m : Goto(p, "max", m)  BY DEF ReadValidity
      <4>2. ReadMax(p) => \E m : Goto(p, "low", m)  BY DEF ReadMax
      <4>3. ReadLow(p) => \E m : Goto(p, "select", m)  BY DEF ReadLow
      <4> QED BY <4>1, <4>2, <4>3
    <3>3. Select(p) \/ Search(p) \/ Scan(p) => Goes  BY DEF Select, Search, Scan
    <3>4. ClearFolder(p) \/ SetValidity(p) \/ Commit(p) => Goes
      BY <3>1 DEF ClearFolder, SetValidity, Commit
    <3>5. ListWindow(p) \/ FlagRow(p) \/ FlagsDone(p) => Goes
      <4>1. ListWindow(p) \/ FlagRow(p) => \E m : Goto(p, "flags", m)
        BY DEF ListWindow, FlagRow
      <4>2. FlagsDone(p) => Goto(p, "organize", mem[p])  BY <3>1 DEF FlagsDone
      <4> QED BY <4>1, <4>2
    <3>6. ~Fetch(p)  BY <2>1 DEF Fetch, At
    <3>7. Goes  BY <1>6, <3>2, <3>3, <3>4, <3>5, <3>6 DEF SyncStep
    <3> QED BY <1>2, <3>7, UnfiledStep
  <2>2. CASE pc[p] = "fetch"
    <3>1. Fetch(p)
      BY <2>2, <1>6
         DEF SyncStep, ReadValidity, ReadMax, ReadLow, Select, Search, Scan, ClearFolder,
             SetValidity, Commit, ListWindow, FlagRow, FlagsDone, At
    <3>2. \E l, m : Goto(p, l, m) /\ l \notin {"orgDelete", "finish"}  BY <3>1 DEF Fetch
    <3> QED BY <1>2, <3>2, UnfiledStep
  <2> QED BY <2>1, <2>2
<1> QED BY <1>3, <1>4, <1>5, <1>6

LEMMA FiledOlder ==
    ASSUME FiledInv, NEW p \in Procs, OlderStep(p)
    PROVE  \A q \in Procs : Filed(q)'
<1>0. TypeOK /\ Owner(p) /\ mem[p] \in ProcMem  BY DEF FiledInv, Inductive, TypeOK
<1>1. lock = p /\ mem[p].cmd = "older"
  BY <1>0 DEF OlderStep, ReadMin, SelectOlder, InsertRow, InsertDone, At, Owner, OlderLabels
<1> DEFINE Goes == \E l, m : Goto(p, l, m) /\ m.cmd = mem[p].cmd /\ l # "orgDelete"
<1>2. ReadMin(p) \/ SelectOlder(p) => Goes  BY <1>0 DEF ReadMin, SelectOlder, ProcMem
<1>3. InsertRow(p) \/ InsertDone(p) => Goes
  BY <1>0, <1>1 DEF InsertRow, InsertDone, ProcMem
<1>4. Goes  BY <1>2, <1>3 DEF OlderStep
<1> QED BY <1>1, <1>4, UnfiledStep

LEMMA FiledUser ==
    ASSUME FiledInv, NEW p \in Procs, UserStep(p)
    PROVE  \A q \in Procs : Filed(q)'
<1>0. TypeOK /\ Owner(p) /\ mem[p].todo \in SUBSET Uids
  BY DEF FiledInv, Inductive, TypeOK, ProcMem
<1>1. Goto(p, "finish", mem[p]) /\ mem[p].cmd # "sync"
  BY DEF UserStep, SetReadRow, MoveRow
<1>2. Cached' \subseteq Cached
  <2>1. CASE SetReadRow(p)
    <3>1. PICK u \in mem[p].todo :
            rows' = IF rows[u] = NoRow THEN rows
                    ELSE [rows EXCEPT ![u].unread = mem[p].fresh[u] = "unread"]
      BY <2>1 DEF SetReadRow
    <3>2. \A v \in Uids : rows[v] = NoRow => rows'[v] = NoRow  BY <1>0, <3>1 DEF TypeOK
    <3> QED BY <3>2 DEF Cached
  <2>2. CASE MoveRow(p)  BY <1>0, <2>2 DEF MoveRow, Cached, TypeOK
  <2> QED BY <2>1, <2>2 DEF UserStep
<1> QED BY <1>1, <1>2, UnfiledStep

LEMMA FiledNext ==
    ASSUME FiledInv, "daily" \notin Commands, [Next]_vars PROVE FiledInv'
<1>0. Inductive' /\ TypeOK  BY InductiveNext DEF FiledInv, Inductive
<1>1. CASE ServerStep
  <2>1. UNCHANGED <<rows, pc, mem>>
    BY <1>1 DEF ServerStep, Deliver, Expunge, ChangeFlag, NewValidity
  <2> QED BY <1>0, <2>1 DEF FiledInv, Filed, Matched, Cached
<1>2. ASSUME NEW p \in Procs, Start(p) PROVE FiledInv'
  <2>1. rows' = rows
    BY <1>2 DEF Start, Acquire, StartDaily, MoveOnServer, SetReadOnServer, dbVars
  <2>2. \E l, m : Goto(p, l, m) /\ l \notin {"orgDelete", "finish"}
    <3>1. ASSUME NEW cmd, Acquire(p, cmd) PROVE \E l \in {"validity", "min"} : \E m : Goto(p, l, m)
      BY <3>1 DEF Acquire
    <3>2. StartDaily(p) => \E m : Goto(p, "validity", m)  BY DEF StartDaily
    <3>3. ASSUME NEW u, MoveOnServer(p, u) PROVE \E m : Goto(p, "local", m)
      BY <3>3 DEF MoveOnServer
    <3>4. ASSUME NEW u, NEW flag, SetReadOnServer(p, u, flag) PROVE \E m : Goto(p, "local", m)
      BY <3>4 DEF SetReadOnServer
    <3> QED BY <1>2, <3>1, <3>2, <3>3, <3>4 DEF Start
  <2>3. Cached' \subseteq Cached  BY <2>1 DEF Cached
  <2> QED BY <1>0, <2>2, <2>3, UnfiledStep DEF FiledInv
<1>3. ASSUME NEW p \in Procs, SyncStep(p) PROVE FiledInv'
  BY <1>0, <1>3, FiledSync DEF FiledInv
<1>4. ASSUME NEW p \in Procs, OlderStep(p) PROVE FiledInv'
  BY <1>0, <1>4, FiledOlder DEF FiledInv
<1>5. ASSUME NEW p \in Procs, UserStep(p) PROVE FiledInv'
  BY <1>0, <1>5, FiledUser DEF FiledInv
<1>6. ASSUME NEW p \in Procs, Finish(p) \/ SessionLost(p) \/ Abort(p) PROVE FiledInv'
  <2>1. Goto(p, "idle", NoMem) /\ rows' = rows
    BY <1>6 DEF Finish, SessionLost, Abort, End, dbVars
  <2>2. Cached' \subseteq Cached  BY <2>1 DEF Cached
  <2> QED BY <1>0, <2>1, <2>2, UnfiledStep DEF FiledInv
<1>7. CASE UNCHANGED vars
  BY <1>0, <1>7 DEF vars, FiledInv, Filed, Matched, Cached
<1> QED BY <1>1, <1>2, <1>3, <1>4, <1>5, <1>6, <1>7 DEF Next, Run

\* core.rs:686: none of the new mail that a rule matches is left in the inbox when a sync is
\* over, whatever the user moves or marks meanwhile and however other commands end.
THEOREM RulesEmptyInbox ==
    ASSUME "daily" \notin Commands PROVE Spec => []FilteredLeaveInbox
<1>1. Init => FiledInv
  <2> SUFFICES ASSUME Init PROVE FiledInv  OBVIOUS
  <2>1. \A p \in Procs : pc[p] = "idle"  BY DEF Init
  <2> QED BY <2>1, InductiveInit DEF FiledInv, Filed
<1>2. FiledInv => FilteredLeaveInbox  BY DEF FiledInv, Filed, FilteredLeaveInbox, At
<1>3. FiledInv /\ [Next]_vars => FiledInv'  BY FiledNext
<1> QED BY <1>1, <1>2, <1>3, PTL DEF Spec
=============================================================================
