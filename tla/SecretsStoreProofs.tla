-------------------------- MODULE SecretsStoreProofs --------------------------
(***************************************************************************)
(* The secrets store implements SecretMap for any processes, accounts,     *)
(* failing accesses and crashes.                                           *)
(***************************************************************************)
EXTENDS SecretsStore, TLAPS

USE SecretsAssumption DEF SecretsAssumption

LEMMA EmptyType == Empty \in Table
BY DEF Empty, Table

LEMMA NoMemType == NoMem \in ProcMem
BY EmptyType DEF NoMem, ProcMem

LEMMA AuthorityType == TypeOK => Authority \in Table
BY DEF TypeOK, Authority, FileState, Entry

LEMMA InitInductive == Init => Inductive
BY EmptyType, NoMemType
   DEF Init, Inductive, TypeOK, MarkerHasEntry, NoEntryNoTable, Holder, FileState, Entry,
       NoMem, Labels, Updating

(***************************************************************************)
(* A step of p: what is left to show once its new state is named.          *)
(***************************************************************************)

\* What the lock protects does not change under the one who holds it.
LEMMA OthersKept ==
    ASSUME NEW p \in Procs, NEW q \in Procs, Holder(q),
           pc'[q] = pc[q], mem'[q] = mem[q], lock' = q <=> lock = q,
           UNCHANGED <<file, keychain, clock>> \/ lock # q
    PROVE  Holder(q)'
<1>1. CASE lock # q
  <2>1. lock' # q /\ mem'[q].op \notin {"put", "remove"}  BY <1>1 DEF Holder
  <2>2. pc'[q] \notin Updating  BY <2>1 DEF Holder
  <2> QED BY <2>1, <2>2 DEF Holder, Updating
<1>2. CASE UNCHANGED <<file, keychain, clock>>
  <2>1. Authority' = Authority /\ Empty' = Empty  BY <1>2 DEF Authority, Empty
  <2>2. Based(mem[q].table.of) => Based(mem[q].table.of)'  BY <1>2, <2>1 DEF Based
  <2>3. Ahead(q) => Ahead(q)'  BY <1>2, <2>1 DEF Ahead
  <2> QED BY <1>2, <2>2, <2>3 DEF Holder, Updating
<1> QED BY <1>1, <1>2

LEMMA StepKeeps ==
    ASSUME Inductive, NEW p \in Procs, NEW l \in Labels, NEW m \in ProcMem, Goto(p, l, m),
           file' \in FileState, keychain' \in Entry, lock' \in Procs \cup {NoProc},
           clock' \in 0 .. MaxTag,
           MarkerHasEntry', NoEntryNoTable', Holder(p)',
           lock' = lock \/ lock' = p \/ lock = p,
           lock = NoProc \/ lock = p \/ lock' = lock,
           lock' \in {lock, p, NoProc},
           UNCHANGED <<file, keychain, clock>> \/ lock = p
    PROVE  Inductive'
<1>1. TypeOK'
  BY DEF Inductive, TypeOK, Goto
<1>2. ASSUME NEW q \in Procs PROVE Holder(q)'
  <2>1. CASE q = p  BY <2>1
  <2>2. CASE q # p
    <3>1. pc'[q] = pc[q] /\ mem'[q] = mem[q]  BY <2>2 DEF Goto, Inductive, TypeOK
    <3>2. lock' = q <=> lock = q  BY <2>2
    <3>3. Holder(q)  BY DEF Inductive
    <3> QED BY <2>2, <3>1, <3>2, <3>3, OthersKept
  <2> QED BY <2>1, <2>2
<1> QED BY <1>1, <1>2 DEF Inductive

\* The same for a step that writes neither the file nor the keychain.
LEMMA LocalStepKeeps ==
    ASSUME Inductive, NEW p \in Procs, NEW l \in Labels, NEW m \in ProcMem, Goto(p, l, m),
           UNCHANGED storeVars, Holder(p)'
    PROVE  Inductive'
<1>1. MarkerHasEntry' /\ NoEntryNoTable'
  BY DEF Inductive, MarkerHasEntry, NoEntryNoTable, storeVars
<1> QED BY <1>1, StepKeeps DEF Inductive, TypeOK, storeVars

\* A command that ends, or crashes, holds nothing and leaves the files alone.
LEMMA EndKeeps ==
    ASSUME Inductive, NEW p \in Procs, End(p), UNCHANGED <<file, keychain, clock>>
    PROVE  Inductive'
<1>1. Goto(p, "idle", NoMem) /\ NoMem \in ProcMem /\ "idle" \in Labels
  BY NoMemType DEF End, Labels
<1>2. pc'[p] = "idle" /\ mem'[p] = NoMem  BY <1>1 DEF Goto, Inductive, TypeOK
<1>3. lock' # p  BY DEF End
<1>4. Holder(p)'  BY <1>2, <1>3 DEF Holder, NoMem, Updating
<1>5. MarkerHasEntry' /\ NoEntryNoTable'
  BY DEF Inductive, MarkerHasEntry, NoEntryNoTable
<1>6. /\ file' \in FileState /\ keychain' \in Entry /\ clock' \in 0 .. MaxTag
      /\ lock' \in Procs \cup {NoProc}
      /\ lock' \in {lock, NoProc} /\ (lock' = lock \/ lock = p)
  BY DEF Inductive, TypeOK, End
<1> QED BY <1>1, <1>4, <1>5, <1>6, StepKeeps

(***************************************************************************)
(* One lemma per step.                                                     *)
(***************************************************************************)
LEMMA StartUpdateKeeps ==
    ASSUME Inductive, NEW p \in Procs, NEW a \in Accounts, NEW op \in {"put", "remove"},
           StartUpdate(p, a, op)
    PROVE  Inductive'
<1> DEFINE m == [NoMem EXCEPT !.op = op, !.accounts = {a}]
<1>1. m \in ProcMem /\ m.op = op  BY NoMemType DEF ProcMem
<1>2. Goto(p, "file", m) /\ "file" \in Labels  BY DEF StartUpdate, Labels
<1>3. pc'[p] = "file" /\ mem'[p] = m  BY <1>2 DEF Goto, Inductive, TypeOK
<1>4. lock = NoProc /\ lock' = p /\ clock < MaxTag /\ UNCHANGED <<file, keychain, clock>>
  BY DEF StartUpdate
<1>5. Holder(p)'  BY <1>1, <1>3, <1>4 DEF Holder, Updating
<1>6. MarkerHasEntry' /\ NoEntryNoTable'
  BY <1>4 DEF Inductive, MarkerHasEntry, NoEntryNoTable
<1>7. file' \in FileState /\ keychain' \in Entry /\ clock' \in 0 .. MaxTag
  BY <1>4 DEF Inductive, TypeOK
<1> HIDE DEF m
<1> QED BY <1>1, <1>2, <1>4, <1>5, <1>6, <1>7, StepKeeps

LEMMA StartLoadKeeps ==
    ASSUME Inductive, NEW p \in Procs, StartLoad(p)
    PROVE  Inductive'
<1> DEFINE m == [NoMem EXCEPT !.op = "load", !.start = Authority.tag]
<1>1. Authority.tag \in 0 .. MaxTag  BY AuthorityType DEF Inductive, Table
<1>2. m \in ProcMem /\ m.op = "load"  BY <1>1, NoMemType DEF ProcMem
<1>3. Goto(p, "file", m) /\ "file" \in Labels  BY DEF StartLoad, Labels
<1>4. pc'[p] = "file" /\ mem'[p] = m  BY <1>3 DEF Goto, Inductive, TypeOK
<1>5. lock # p  BY DEF StartLoad, At, Inductive, Holder
<1>6. UNCHANGED storeVars  BY DEF StartLoad
<1>7. Holder(p)'  BY <1>2, <1>4, <1>5, <1>6 DEF Holder, Updating, storeVars
<1> HIDE DEF m
<1> QED BY <1>2, <1>3, <1>6, <1>7, LocalStepKeeps

\* The two ways a load ends with a table in hand.
LEMMA TableReadKeeps ==
    ASSUME Inductive, NEW p \in Procs, NEW t \in Table,
           pc[p] \in {"file", "keychain"},
           Goto(p, Loaded(p), [mem[p] EXCEPT !.table = t]),
           UNCHANGED storeVars,
           lock = p => Based(t.of)
    PROVE  Inductive'
<1> DEFINE m == [mem[p] EXCEPT !.table = t]
<1>1. m \in ProcMem /\ m.op = mem[p].op /\ m.table = t
  BY DEF Inductive, TypeOK, ProcMem
<1>2. Loaded(p) \in Labels  BY DEF Loaded, Labels
<1>3. pc'[p] = Loaded(p) /\ mem'[p] = m  BY DEF Goto, Inductive, TypeOK
<1>4. Authority' = Authority /\ Empty' = Empty  BY DEF Authority, Empty, storeVars
<1>5. Holder(p)  BY DEF Inductive
<1>6. mem[p].op \in {"load", "put", "remove"}
  BY <1>5 DEF Holder, Inductive, TypeOK, ProcMem
<1>7. Holder(p)'
  BY <1>1, <1>3, <1>4, <1>5, <1>6 DEF Holder, Based, Updating, Loaded, storeVars
<1> HIDE DEF m
<1> QED BY <1>1, <1>2, <1>7, LocalStepKeeps DEF m

LEMMA ReadFileKeeps ==
    ASSUME Inductive, NEW p \in Procs, ReadFile(p)
    PROVE  Inductive'
<1>1. UNCHANGED storeVars /\ pc[p] = "file"  BY DEF ReadFile, At
<1>2. CASE file.kind = "map"
  <2>1. file.table \in Table  BY DEF Inductive, TypeOK, FileState
  <2> QED BY <1>1, <1>2, <2>1, TableReadKeeps DEF ReadFile, Authority, Based
<1>3. CASE file.kind # "map"
  <2> DEFINE m == [mem[p] EXCEPT !.kind = file.kind]
  <2>1. m \in ProcMem /\ m.op = mem[p].op /\ m.kind = file.kind
    BY <1>3 DEF Inductive, TypeOK, ProcMem, FileState
  <2>2. Goto(p, "keychain", m) /\ "keychain" \in Labels  BY <1>3 DEF ReadFile, Labels
  <2>3. pc'[p] = "keychain" /\ mem'[p] = m  BY <2>2 DEF Goto, Inductive, TypeOK
  <2>4. Holder(p)'
    BY <1>1, <2>1, <2>3 DEF Inductive, Holder, Updating, storeVars
  <2> HIDE DEF m
  <2> QED BY <1>1, <2>1, <2>2, <2>4, LocalStepKeeps
<1> QED BY <1>2, <1>3

LEMMA ReadKeychainKeeps ==
    ASSUME Inductive, NEW p \in Procs, ReadKeychain(p)
    PROVE  Inductive'
<1>1. UNCHANGED storeVars /\ pc[p] = "keychain"  BY DEF ReadKeychain, At
<1>2. lock = p => Authority = keychain.table
  <2>1. lock = p => file.kind = mem[p].kind  BY <1>1 DEF Inductive, Holder
  <2>2. mem[p].kind # "map"  BY DEF Inductive, TypeOK, ProcMem
  <2> QED BY <2>1, <2>2 DEF Authority
<1>3. CASE keychain.has /\ Goto(p, Loaded(p), [mem[p] EXCEPT !.table = keychain.table])
  <2>1. keychain.table \in Table  BY DEF Inductive, TypeOK, Entry
  <2> QED BY <1>1, <1>2, <1>3, <2>1, TableReadKeeps DEF Based
<1>4. CASE mem[p].kind = "missing" /\ Goto(p, Loaded(p), [mem[p] EXCEPT !.table = Empty])
  <2>1. lock = p => Based(Empty.of)  BY <1>1, <1>4 DEF Inductive, Holder, Based
  <2> QED BY <1>1, <1>4, <2>1, EmptyType, TableReadKeeps
<1> QED BY <1>3, <1>4 DEF ReadKeychain

\* Mutate changes the table of the one account the command names.
LEMMA MutateKeeps ==
    ASSUME Inductive, NEW p \in Procs, Mutate(p)
    PROVE  Inductive'
<1>1. PICK a \in mem[p].accounts :
         Goto(p, "write", [mem[p] EXCEPT !.table.tag = clock',
                              !.table.of[a] = IF mem[p].op = "put" THEN clock' ELSE 0])
  BY DEF Mutate
<1>2. /\ pc[p] = "mutate" /\ clock' = clock + 1 /\ UNCHANGED <<file, keychain, lock>>
      /\ mem[p] \in ProcMem /\ Holder(p) /\ clock \in 0 .. MaxTag
  BY DEF Mutate, At, Inductive, TypeOK
<1>3. lock = p /\ clock < MaxTag  BY <1>2 DEF Holder, Updating
<1>4. clock' \in 0 .. MaxTag  BY <1>2, <1>3
<1> DEFINE x == IF mem[p].op = "put" THEN clock' ELSE 0
           of == [mem[p].table.of EXCEPT ![a] = x]
           t == [tag |-> clock', of |-> of]
           m == [mem[p] EXCEPT !.table = t]
<1>5. mem[p].table \in Table /\ a \in Accounts  BY <1>2 DEF ProcMem
<1>6. of \in [Accounts -> 0 .. MaxTag] /\ t \in Table  BY <1>4, <1>5 DEF Table
<1>7. m = [mem[p] EXCEPT !.table.tag = clock', !.table.of[a] = x]
  BY <1>2, <1>5 DEF ProcMem, Table
<1>8. m \in ProcMem /\ m.op = mem[p].op /\ m.table = t /\ m.accounts = mem[p].accounts
  BY <1>2, <1>6 DEF ProcMem
<1>9. Goto(p, "write", m) /\ "write" \in Labels  BY <1>1, <1>7 DEF Labels
<1>10. pc'[p] = "write" /\ mem'[p] = m  BY <1>9 DEF Goto, Inductive, TypeOK
<1>11. Authority' = Authority  BY <1>2 DEF Authority
<1>12. Based(mem[p].table.of)  BY <1>2 DEF Holder
<1>13. Ahead(p)'
  <2>1. of[a] = x  BY <1>5 DEF Table
  <2>2. \/ of = [Authority.of EXCEPT ![a] = of[a]]
        \/ file.kind = "missing" /\ of = [Empty.of EXCEPT ![a] = of[a]]
    BY <2>1, <1>12 DEF Based
  <2>3. mem'[p].table.of = of /\ a \in mem'[p].accounts  BY <1>8, <1>10
  <2>4. Empty' = Empty /\ file' = file  BY <1>2 DEF Empty
  <2> HIDE DEF of
  <2> QED BY <2>2, <2>3, <2>4, <1>11 DEF Ahead
<1>14. Holder(p)'  BY <1>2, <1>3, <1>8, <1>10, <1>13 DEF Holder, Updating
<1>15. MarkerHasEntry' /\ NoEntryNoTable'
  BY <1>2 DEF Inductive, MarkerHasEntry, NoEntryNoTable
<1>16. /\ file' \in FileState /\ keychain' \in Entry /\ lock' \in Procs \cup {NoProc}
       /\ lock' = lock
  BY <1>2 DEF Inductive, TypeOK
<1> HIDE DEF m
<1> QED BY <1>3, <1>4, <1>8, <1>9, <1>14, <1>15, <1>16, StepKeeps

LEMMA WriteKeychainKeeps ==
    ASSUME Inductive, NEW p \in Procs, WriteKeychain(p)
    PROVE  Inductive'
<1>1. /\ pc[p] = "write" /\ UNCHANGED <<file, lock, clock>>
      /\ mem[p] \in ProcMem /\ mem[p].table \in Table /\ Holder(p)
  BY DEF WriteKeychain, At, Inductive, TypeOK, ProcMem
<1>2. lock = p  BY <1>1 DEF Holder, Updating
<1>3. /\ file' \in FileState /\ clock' \in 0 .. MaxTag
      /\ lock' \in Procs \cup {NoProc} /\ lock' = lock
  BY <1>1 DEF Inductive, TypeOK
<1>4. CASE keychain' = [has |-> TRUE, table |-> mem[p].table] /\ Goto(p, "marker", mem[p])
  <2>1. keychain' \in Entry /\ keychain'.has /\ "marker" \in Labels
    BY <1>1, <1>4 DEF Entry, Labels
  <2>2. pc'[p] = "marker" /\ mem'[p] = mem[p]  BY <1>4 DEF Goto, Inductive, TypeOK
  <2>3. PICK a \in mem[p].accounts :
          \/ mem[p].table.of = [Authority.of EXCEPT ![a] = mem[p].table.of[a]]
          \/ /\ file.kind = "missing"
             /\ mem[p].table.of = [Empty.of EXCEPT ![a] = mem[p].table.of[a]]
    BY <1>1 DEF Holder, Ahead
  <2>4. mem[p].table.of = [Authority'.of EXCEPT ![a] = mem[p].table.of[a]]
    <3>1. CASE file.kind = "map"  BY <1>1, <2>3, <3>1 DEF Authority
    <3>2. CASE file.kind # "map"
      <4>1. Authority' = mem[p].table  BY <1>1, <1>4, <3>2 DEF Authority
      <4>2. mem[p].table.of = [mem[p].table.of EXCEPT ![a] = mem[p].table.of[a]]
        BY <1>1 DEF Table
      <4> QED BY <4>1, <4>2
    <3> QED BY <3>1, <3>2
  <2>5. Ahead(p)'  BY <2>2, <2>4 DEF Ahead
  <2>6. Holder(p)'  BY <1>1, <1>2, <1>4, <2>2, <2>5 DEF Holder, Updating
  <2>7. MarkerHasEntry' /\ NoEntryNoTable'  BY <2>1 DEF MarkerHasEntry, NoEntryNoTable
  <2> QED BY <1>1, <1>2, <1>3, <1>4, <2>1, <2>6, <2>7, StepKeeps
<1>5. CASE keychain' = keychain /\ Goto(p, "plain", mem[p])
  <2>1. pc'[p] = "plain" /\ mem'[p] = mem[p] /\ "plain" \in Labels
    BY <1>5 DEF Goto, Inductive, TypeOK, Labels
  <2>2. UNCHANGED storeVars  BY <1>1, <1>5 DEF storeVars
  <2>3. Ahead(p)'  BY <1>1, <2>1, <2>2 DEF Holder, Ahead, Authority, storeVars
  <2>4. Holder(p)'  BY <1>1, <1>2, <2>1, <2>2, <2>3 DEF Holder, Updating, storeVars
  <2> QED BY <1>1, <1>5, <2>1, <2>2, <2>4, LocalStepKeeps
<1> QED BY <1>4, <1>5 DEF WriteKeychain

LEMMA WriteMarkerKeeps ==
    ASSUME Inductive, NEW p \in Procs, WriteMarker(p)
    PROVE  Inductive'
<1>1. /\ pc[p] = "marker" /\ UNCHANGED <<keychain, lock, clock>>
      /\ mem[p] \in ProcMem /\ mem[p].table \in Table /\ Holder(p)
  BY DEF WriteMarker, At, Inductive, TypeOK, ProcMem
<1>2. lock = p /\ keychain = [has |-> TRUE, table |-> mem[p].table]
  BY <1>1 DEF Holder, Updating
<1>3. keychain' \in Entry /\ keychain'.has /\ clock' \in 0 .. MaxTag /\ lock' = lock
      /\ lock' \in Procs \cup {NoProc}
  BY <1>1, <1>2 DEF Inductive, TypeOK
<1>4. MarkerHasEntry' /\ NoEntryNoTable'  BY <1>3 DEF MarkerHasEntry, NoEntryNoTable
<1>5. CASE file' = Marker /\ Goto(p, "saved", mem[p])
  <2>1. file' \in FileState  BY <1>5, EmptyType DEF FileState, Marker
  <2>2. pc'[p] = "saved" /\ mem'[p] = mem[p] /\ "saved" \in Labels
    BY <1>5 DEF Goto, Inductive, TypeOK, Labels
  <2>3. Holder(p)'  BY <1>1, <1>2, <2>2 DEF Holder, Updating
  <2> QED BY <1>1, <1>2, <1>3, <1>4, <1>5, <2>1, <2>2, <2>3, StepKeeps
<1>6. CASE file' = file /\ Goto(p, "plain", mem[p])
  <2>1. pc'[p] = "plain" /\ mem'[p] = mem[p] /\ "plain" \in Labels
    BY <1>6 DEF Goto, Inductive, TypeOK, Labels
  <2>2. UNCHANGED storeVars  BY <1>1, <1>6 DEF storeVars
  <2>3. Ahead(p)'  BY <1>1, <2>1, <2>2 DEF Holder, Ahead, Authority, storeVars
  <2>4. Holder(p)'  BY <1>1, <1>2, <2>1, <2>2, <2>3 DEF Holder, Updating, storeVars
  <2> QED BY <1>1, <1>6, <2>1, <2>2, <2>4, LocalStepKeeps
<1> QED BY <1>5, <1>6 DEF WriteMarker

LEMMA WritePlainKeeps ==
    ASSUME Inductive, NEW p \in Procs, WritePlain(p)
    PROVE  Inductive'
<1>1. /\ pc[p] = "plain" /\ UNCHANGED <<keychain, lock, clock>>
      /\ mem[p] \in ProcMem /\ mem[p].table \in Table /\ Holder(p)
      /\ file' = [kind |-> "map", table |-> mem[p].table] /\ Goto(p, "saved", mem[p])
  BY DEF WritePlain, At, Inductive, TypeOK, ProcMem
<1>2. lock = p  BY <1>1 DEF Holder, Updating
<1>3. keychain' \in Entry /\ file' \in FileState /\ clock' \in 0 .. MaxTag /\ lock' = lock
      /\ lock' \in Procs \cup {NoProc}
  BY <1>1 DEF Inductive, TypeOK, FileState
<1>4. MarkerHasEntry' /\ NoEntryNoTable'
  BY <1>1 DEF Inductive, MarkerHasEntry, NoEntryNoTable
<1>5. pc'[p] = "saved" /\ mem'[p] = mem[p] /\ "saved" \in Labels
  BY <1>1 DEF Goto, Inductive, TypeOK, Labels
<1>6. Holder(p)'  BY <1>1, <1>2, <1>5 DEF Holder, Updating
<1> QED BY <1>1, <1>2, <1>3, <1>4, <1>5, <1>6, StepKeeps

LEMMA StepInductive ==
    ASSUME Inductive, [Next]_vars
    PROVE  Inductive'
<1>1. CASE UNCHANGED vars
  <2>1. ASSUME NEW q \in Procs PROVE Holder(q)'
    BY <1>1, OthersKept DEF vars, Inductive
  <2> QED BY <1>1, <2>1 DEF vars, Inductive, TypeOK, MarkerHasEntry, NoEntryNoTable
<1>2. CASE Next
  <2>1. PICK p \in Procs :
          \/ \E a \in Accounts, op \in {"put", "remove"} : StartUpdate(p, a, op)
          \/ StartLoad(p) \/ Load(p) \/ Mutate(p) \/ Save(p) \/ Return(p) \/ Crash(p)
    BY <1>2 DEF Next
  <2>2. CASE \E a \in Accounts, op \in {"put", "remove"} : StartUpdate(p, a, op)
    BY <2>2, StartUpdateKeeps
  <2>3. CASE StartLoad(p)  BY <2>3, StartLoadKeeps
  <2>4. CASE ReadFile(p)  BY <2>4, ReadFileKeeps
  <2>5. CASE ReadKeychain(p)  BY <2>5, ReadKeychainKeeps
  <2>6. CASE ReadKeychainFails(p)  BY <2>6, EndKeeps DEF ReadKeychainFails
  <2>7. CASE Mutate(p)  BY <2>7, MutateKeeps
  <2>8. CASE WriteKeychain(p)  BY <2>8, WriteKeychainKeeps
  <2>9. CASE WriteMarker(p)  BY <2>9, WriteMarkerKeeps
  <2>10. CASE WritePlain(p)  BY <2>10, WritePlainKeeps
  <2>11. CASE WritePlainFails(p)  BY <2>11, EndKeeps DEF WritePlainFails
  <2>12. CASE Return(p)  BY <2>12, EndKeeps DEF Return
  <2>13. CASE Crash(p)  BY <2>13, EndKeeps DEF Crash
  <2> QED BY <2>1, <2>2, <2>3, <2>4, <2>5, <2>6, <2>7, <2>8, <2>9, <2>10, <2>11, <2>12, <2>13
          DEF Load, Save
<1> QED BY <1>1, <1>2

(***************************************************************************)
(* The theorems.                                                           *)
(***************************************************************************)

\* The inductive invariant holds in every reachable state, whatever accesses
\* fail and wherever the processes crash: among its parts, a marker always
\* points to a keychain entry (MarkerHasEntry).
THEOREM InductiveInvariant == Spec => []Inductive
<1>1. Inductive /\ [Next]_vars => Inductive'  BY StepInductive
<1> QED BY <1>1, InitInductive, PTL DEF Spec

\* TypeOK for any processes, accounts and faults: only the holder of the lock counts an
\* update, so that the numbers of the updates stay within their bound.
THEOREM TypeCorrect == Spec => []TypeOK
<1>1. Inductive => TypeOK  BY DEF Inductive
<1> QED BY <1>1, InductiveInvariant, PTL

\* A marker in secrets.json always points to a keychain entry, so the program
\* can always load its credentials once the keychain answers.
THEOREM MarkerPointsToEntry == Spec => []MarkerHasEntry
<1>1. Inductive => MarkerHasEntry  BY DEF Inductive
<1> QED BY <1>1, InductiveInvariant, PTL

\* A table the lock holder is ahead with becomes the table in force by a step
\* of SecretMap on one account.
LEMMA AheadIsMapStep ==
    ASSUME Inductive, NEW p \in Procs, Ahead(p), Authority' = mem[p].table,
           file'.kind # "missing" \/ file'.kind = file.kind
    PROVE  Map!Next
<1>1. PICK a \in mem[p].accounts :
        \/ mem[p].table.of = [Authority.of EXCEPT ![a] = mem[p].table.of[a]]
        \/ /\ file.kind = "missing"
           /\ mem[p].table.of = [Empty.of EXCEPT ![a] = mem[p].table.of[a]]
  BY DEF Ahead
<1>2. a \in Accounts /\ mem[p].table.of[a] \in 0 .. MaxTag
  BY <1>1 DEF Inductive, TypeOK, ProcMem, Table
<1>3. (file.kind # "missing")' \in {file.kind # "missing", TRUE}  OBVIOUS
<1>4. Map!Put(a) \/ Map!Remove(a) \/ Map!StartOver(a)
  <2>1. CASE mem[p].table.of = [Authority.of EXCEPT ![a] = mem[p].table.of[a]]
    <3>1. CASE mem[p].table.of[a] = 0  BY <2>1, <3>1 DEF Map!Remove
    <3>2. CASE mem[p].table.of[a] # 0
      <4>1. mem[p].table.of[a] \in 1 .. MaxTag  BY <1>2, <3>2
      <4> QED BY <2>1, <4>1 DEF Map!Put
    <3> QED BY <3>1, <3>2
  <2>2. CASE /\ file.kind = "missing"
             /\ mem[p].table.of = [Empty.of EXCEPT ![a] = mem[p].table.of[a]]
    BY <1>2, <2>2 DEF Map!StartOver, Map!Nobody, Empty
  <2> QED BY <1>1, <2>1, <2>2
<1> QED BY <1>2, <1>3, <1>4 DEF Map!Next

LEMMA StepIsMapStep ==
    ASSUME Inductive, [Next]_vars
    PROVE  [Map!Next]_<<Authority.of, file.kind # "missing">>
<1>1. CASE UNCHANGED <<file, keychain>>  BY <1>1 DEF Authority
<1>2. ASSUME NEW p \in Procs, WriteKeychain(p), keychain' # keychain
      PROVE  [Map!Next]_<<Authority.of, file.kind # "missing">>
  <2>1. keychain' = [has |-> TRUE, table |-> mem[p].table] /\ file' = file /\ pc[p] = "write"
    BY <1>2 DEF WriteKeychain, At
  <2>2. CASE file.kind = "map"  BY <2>1, <2>2 DEF Authority
  <2>3. CASE file.kind # "map"
    <3>1. Authority' = mem[p].table  BY <2>1, <2>3 DEF Authority
    <3>2. Ahead(p)  BY <2>1 DEF Inductive, Holder
    <3> QED BY <2>1, <3>1, <3>2, AheadIsMapStep
  <2> QED BY <2>2, <2>3
<1>3. ASSUME NEW p \in Procs, WriteMarker(p), file' # file
      PROVE  [Map!Next]_<<Authority.of, file.kind # "missing">>
  <2>1. file' = Marker /\ keychain' = keychain /\ pc[p] = "marker"
    BY <1>3 DEF WriteMarker, At
  <2>2. keychain.table = mem[p].table /\ Ahead(p)  BY <2>1 DEF Inductive, Holder
  <2>3. Authority' = mem[p].table /\ file'.kind # "missing"
    BY <2>1, <2>2 DEF Authority, Marker
  <2> QED BY <2>2, <2>3, AheadIsMapStep
<1>4. ASSUME NEW p \in Procs, WritePlain(p)
      PROVE  [Map!Next]_<<Authority.of, file.kind # "missing">>
  <2>1. file' = [kind |-> "map", table |-> mem[p].table] /\ pc[p] = "plain"
    BY <1>4 DEF WritePlain, At
  <2>2. Ahead(p) /\ Authority' = mem[p].table /\ file'.kind # "missing"
    BY <2>1 DEF Inductive, Holder, Authority
  <2> QED BY <2>2, AheadIsMapStep
<1>5. CASE Next /\ ~UNCHANGED <<file, keychain>>
  <2>1. PICK p \in Procs : WriteKeychain(p) \/ WriteMarker(p) \/ WritePlain(p)
    BY <1>5 DEF Next, Load, Save, StartUpdate, StartLoad, ReadFile, ReadKeychain,
         ReadKeychainFails, Mutate, WritePlainFails, Return, Crash, storeVars
  <2>2. WriteKeychain(p) => file' = file  BY DEF WriteKeychain
  <2>3. WriteMarker(p) => keychain' = keychain  BY DEF WriteMarker
  <2> QED BY <1>2, <1>3, <1>4, <1>5, <2>1, <2>2, <2>3
<1> QED BY <1>1, <1>5 DEF vars

\* update_account_with changes the credentials of the account it is called for
\* and of no other, whatever fails in the keychain or on the disk and wherever
\* the process crashes, once any update has succeeded: the store implements
\* SecretMap.
THEOREM Implementation == Spec => ImplementsMap
<1>1. Init => Map!Init  BY DEF Init, Map!Init, Map!Nobody, Authority, Empty
<1>2. Inductive /\ [Next]_vars => [Map!Next]_(Map!vars)
  BY StepIsMapStep DEF Map!vars
<1> QED BY <1>1, <1>2, InductiveInvariant, PTL DEF Spec, ImplementsMap, Map!Spec

(***************************************************************************)
(* How old a table is.  The tag of a table is the number of the update     *)
(* that wrote it; the table in force only ever gets a higher one, because  *)
(* the holder of the lock writes the table of the last update there was.   *)
(***************************************************************************)
FreshMem(p) ==
    /\ mem[p].start <= clock
    /\ pc[p] = "file" => mem[p].start <= Authority.tag
    /\ pc[p] = "keychain" => mem[p].start <= keychain.table.tag
    /\ pc[p] = "loaded" => \/ mem[p].start <= mem[p].table.tag
                           \/ mem[p].kind = "missing" /\ mem[p].table = Empty
    /\ pc[p] \in {"write", "marker", "plain"} => mem[p].table.tag = clock
    /\ pc[p] = "saved" => Authority = mem[p].table

NoneNewer == file.table.tag <= clock /\ keychain.table.tag <= clock

FreshInv == NoneNewer /\ \A p \in Procs : FreshMem(p)

Grows ==
    /\ clock <= clock' /\ Authority.tag <= Authority'.tag
    /\ keychain.table.tag <= keychain'.table.tag

LEMMA Numbers ==
    ASSUME TypeOK
    PROVE  /\ clock \in Nat /\ Authority.tag \in Nat
           /\ file.table.tag \in Nat /\ keychain.table.tag \in Nat
           /\ \A p \in Procs : mem[p].start \in Nat /\ mem[p].table.tag \in Nat
BY AuthorityType DEF TypeOK, FileState, Entry, Table, ProcMem

LEMMA NumbersNext ==
    ASSUME TypeOK'
    PROVE  /\ clock' \in Nat /\ Authority'.tag \in Nat
           /\ keychain'.table.tag \in Nat
<1>1. file' \in FileState /\ keychain' \in Entry /\ clock' \in 0 .. MaxTag
  BY DEF TypeOK, FileState, Entry, Table
<1>2. file'.table \in Table /\ keychain'.table \in Table  BY <1>1 DEF FileState, Entry
<1>3. Authority' \in {file'.table, keychain'.table}  BY DEF Authority
<1> QED BY <1>1, <1>2, <1>3, SecretsAssumption DEF Table

LEMMA InitFresh == Init => FreshInv
BY DEF Init, FreshInv, NoneNewer, FreshMem, NoMem, Empty

\* A step of p, once it is known what it does to p and to the tags.
LEMMA FreshStep ==
    ASSUME Inductive, Inductive', FreshInv, NEW p \in Procs, NEW l, NEW m, Goto(p, l, m),
           NoneNewer', Grows, UNCHANGED <<file, keychain, clock>> \/ lock = p, FreshMem(p)'
    PROVE  FreshInv'
<1>1. ASSUME NEW q \in Procs, q # p PROVE FreshMem(q)'
  <2>1. pc'[q] = pc[q] /\ mem'[q] = mem[q]  BY <1>1 DEF Goto, Inductive, TypeOK
  <2>2. FreshMem(q) /\ Holder(q)  BY DEF FreshInv, Inductive
  <2>3. pc[q] \in {"write", "marker", "plain", "saved"} => lock = q
    BY <2>2 DEF Holder, Updating
  <2>4. pc[q] \in {"write", "marker", "plain", "saved"} => clock' = clock /\ Authority' = Authority
    BY <1>1, <2>3 DEF Authority
  <2>5. TypeOK /\ TypeOK'  BY DEF Inductive
  <2>6. /\ clock \in Nat /\ clock' \in Nat /\ Authority.tag \in Nat /\ Authority'.tag \in Nat
        /\ keychain.table.tag \in Nat /\ keychain'.table.tag \in Nat
        /\ mem[q].start \in Nat
    BY <2>5, Numbers, NumbersNext
  <2>7. Empty' = Empty  BY DEF Empty
  <2> QED BY <2>1, <2>2, <2>4, <2>6, <2>7 DEF FreshMem, Grows
<1> QED BY <1>1 DEF FreshInv

\* The files, and with them the tags, stay as they are.
LEMMA StillFresh ==
    ASSUME Inductive, Inductive', FreshInv, NEW p \in Procs, NEW l, NEW m, Goto(p, l, m),
           UNCHANGED <<file, keychain, clock>>, FreshMem(p)'
    PROVE  FreshInv'
<1>1. Authority' = Authority  BY DEF Authority
<1>2. NoneNewer' /\ Grows  BY <1>1, Numbers DEF FreshInv, NoneNewer, Grows, Inductive
<1> QED BY <1>2, FreshStep

LEMMA EndFresh ==
    ASSUME Inductive, Inductive', FreshInv, NEW p \in Procs, End(p),
           UNCHANGED <<file, keychain, clock>>
    PROVE  FreshInv'
<1>1. Goto(p, "idle", NoMem)  BY DEF End
<1>2. pc'[p] = "idle" /\ mem'[p].start = 0
  BY <1>1 DEF Goto, Inductive, TypeOK, NoMem
<1>3. FreshMem(p)'  BY <1>2, Numbers DEF FreshMem, Inductive
<1> QED BY <1>1, <1>3, StillFresh

LEMMA StartFresh ==
    ASSUME Inductive, Inductive', FreshInv, NEW p \in Procs,
           StartLoad(p) \/ \E a \in Accounts, op \in {"put", "remove"} : StartUpdate(p, a, op)
    PROVE  FreshInv'
<1>1. UNCHANGED <<file, keychain, clock>>  BY DEF StartLoad, StartUpdate, storeVars
<1>2. Authority' = Authority  BY <1>1 DEF Authority
<1>3. Authority.tag <= clock /\ 0 <= Authority.tag /\ 0 <= clock
  <2>1. NoneNewer /\ TypeOK  BY DEF FreshInv, Inductive
  <2>2. Authority.tag \in {file.table.tag, keychain.table.tag}  BY DEF Authority
  <2> QED BY <2>1, <2>2, Numbers DEF NoneNewer
<1>4. PICK m : Goto(p, "file", m) /\ m.start \in {0, Authority.tag}
  <2>1. CASE StartLoad(p)
    <3>1. PICK m : m = [NoMem EXCEPT !.op = "load", !.start = Authority.tag]  OBVIOUS
    <3>2. m.start = Authority.tag  BY <3>1 DEF NoMem
    <3>3. Goto(p, "file", m)  BY <2>1, <3>1 DEF StartLoad
    <3> QED BY <3>2, <3>3
  <2>2. ASSUME NEW a \in Accounts, NEW op \in {"put", "remove"}, StartUpdate(p, a, op)
        PROVE  \E m : Goto(p, "file", m) /\ m.start \in {0, Authority.tag}
    <3>1. PICK m : m = [NoMem EXCEPT !.op = op, !.accounts = {a}]  OBVIOUS
    <3>2. m.start = 0  BY <3>1 DEF NoMem
    <3>3. Goto(p, "file", m)  BY <2>2, <3>1 DEF StartUpdate
    <3> QED BY <3>2, <3>3
  <2> QED BY <2>1, <2>2
<1>5. pc'[p] = "file" /\ mem'[p] = m  BY <1>4 DEF Goto, Inductive, TypeOK
<1>6. FreshMem(p)'
  <2>1. clock \in Nat /\ Authority.tag \in Nat  BY Numbers DEF Inductive
  <2>2. m.start <= clock /\ m.start <= Authority.tag  BY <1>3, <1>4, <2>1
  <2> QED BY <1>1, <1>2, <1>5, <2>2 DEF FreshMem
<1> QED BY <1>1, <1>4, <1>6, StillFresh

\* What is read is no older than what was in force at the start.
LEMMA ReadFresh ==
    ASSUME Inductive, Inductive', FreshInv, NEW p \in Procs, ReadFile(p) \/ ReadKeychain(p)
    PROVE  FreshInv'
<1>1. UNCHANGED <<file, keychain, clock>>
  BY DEF ReadFile, ReadKeychain, storeVars
<1>2. mem[p] \in ProcMem /\ FreshMem(p)  BY DEF Inductive, TypeOK, FreshInv
<1>3. PICK m : /\ m \in {[mem[p] EXCEPT !.table = file.table], [mem[p] EXCEPT !.kind = file.kind],
                         [mem[p] EXCEPT !.table = keychain.table], [mem[p] EXCEPT !.table = Empty]}
               /\ \/ /\ pc[p] = "file" /\ file.kind = "map"
                     /\ Goto(p, Loaded(p), m) /\ m.table = file.table
                  \/ /\ pc[p] = "file" /\ file.kind # "map" /\ Goto(p, "keychain", m)
                  \/ /\ pc[p] = "keychain" /\ Goto(p, Loaded(p), m)
                     /\ \/ m.table = keychain.table
                        \/ m.kind = "missing" /\ m.table = Empty
  BY <1>2 DEF ReadFile, ReadKeychain, At, ProcMem
<1>4. m.start = mem[p].start  BY <1>2, <1>3 DEF ProcMem
<1>5. PICK l : Goto(p, l, m)  BY <1>3
<1>6. pc'[p] = l /\ mem'[p] = m  BY <1>5 DEF Goto, Inductive, TypeOK
<1>7. Empty' = Empty  BY DEF Empty
<1>8. FreshMem(p)'
  <2>1. Loaded(p) \in {"loaded", "mutate"}  BY DEF Loaded
  <2>2. CASE pc[p] = "file" /\ file.kind = "map" /\ Goto(p, Loaded(p), m) /\ m.table = file.table
    <3>1. m.start <= m.table.tag  BY <1>2, <1>4, <2>2 DEF FreshMem, Authority
    <3>2. pc'[p] \in {"loaded", "mutate"}  BY <2>1, <2>2 DEF Goto, Inductive, TypeOK
    <3> QED BY <1>1, <1>2, <1>4, <1>6, <3>1, <3>2 DEF FreshMem
  <2>3. CASE pc[p] = "file" /\ file.kind # "map" /\ Goto(p, "keychain", m)
    <3>1. m.start <= keychain.table.tag  BY <1>2, <1>4, <2>3 DEF FreshMem, Authority
    <3>2. pc'[p] = "keychain"  BY <2>3 DEF Goto, Inductive, TypeOK
    <3> QED BY <1>1, <1>2, <1>4, <1>6, <3>1, <3>2 DEF FreshMem
  <2>4. CASE /\ pc[p] = "keychain" /\ Goto(p, Loaded(p), m)
             /\ m.table = keychain.table \/ (m.kind = "missing" /\ m.table = Empty)
    <3>1. m.start <= m.table.tag \/ (m.kind = "missing" /\ m.table = Empty)
      BY <1>2, <1>4, <2>4 DEF FreshMem
    <3>2. pc'[p] \in {"loaded", "mutate"}  BY <2>1, <2>4 DEF Goto, Inductive, TypeOK
    <3> QED BY <1>1, <1>2, <1>4, <1>6, <1>7, <3>1, <3>2 DEF FreshMem
  <2> QED BY <1>3, <2>2, <2>3, <2>4
<1> QED BY <1>1, <1>5, <1>8, StillFresh

LEMMA MutateFresh ==
    ASSUME Inductive, Inductive', FreshInv, NEW p \in Procs, Mutate(p)
    PROVE  FreshInv'
<1>1. PICK a \in mem[p].accounts :
         Goto(p, "write", [mem[p] EXCEPT !.table.tag = clock',
                              !.table.of[a] = IF mem[p].op = "put" THEN clock' ELSE 0])
  BY DEF Mutate
<1>2. /\ pc[p] = "mutate" /\ clock' = clock + 1 /\ UNCHANGED <<file, keychain>>
      /\ mem[p] \in ProcMem /\ lock = p
  BY DEF Mutate, At, Inductive, TypeOK, Holder, Updating
<1>3. PICK m : m = [mem[p] EXCEPT !.table.tag = clock',
                        !.table.of[a] = IF mem[p].op = "put" THEN clock' ELSE 0]
  OBVIOUS
<1>4. m.start = mem[p].start /\ m.table.tag = clock'  BY <1>2, <1>3 DEF ProcMem, Table
<1>5. Goto(p, "write", m)  BY <1>1, <1>3
<1>6. pc'[p] = "write" /\ mem'[p] = m  BY <1>5 DEF Goto, Inductive, TypeOK
<1>7. Authority' = Authority  BY <1>2 DEF Authority
<1>8. /\ clock \in Nat /\ Authority.tag \in Nat /\ mem[p].start \in Nat
      /\ file.table.tag \in Nat /\ keychain.table.tag \in Nat
  BY Numbers DEF Inductive
<1>9. FreshMem(p)'  BY <1>2, <1>4, <1>6, <1>8 DEF FreshMem, FreshInv
<1>10. NoneNewer' /\ Grows  BY <1>2, <1>7, <1>8 DEF FreshInv, NoneNewer, Grows
<1> QED BY <1>2, <1>5, <1>9, <1>10, FreshStep

LEMMA SaveFresh ==
    ASSUME Inductive, Inductive', FreshInv, NEW p \in Procs,
           WriteKeychain(p) \/ WriteMarker(p) \/ WritePlain(p)
    PROVE  FreshInv'
<1>1. /\ pc[p] \in {"write", "marker", "plain"} /\ clock' = clock
      /\ mem[p].table.tag = clock /\ FreshMem(p) /\ Holder(p)
  BY DEF WriteKeychain, WriteMarker, WritePlain, At, FreshInv, FreshMem, Inductive
<1>2. lock = p  BY <1>1 DEF Holder, Updating
<1>3. PICK l : l \in {"marker", "plain", "saved"} /\ Goto(p, l, mem[p])
  BY DEF WriteKeychain, WriteMarker, WritePlain
<1>4. pc'[p] = l /\ mem'[p] = mem[p]  BY <1>3 DEF Goto, Inductive, TypeOK
<1>5. /\ clock \in Nat /\ Authority.tag \in Nat /\ mem[p].start \in Nat
      /\ file.table.tag \in Nat /\ keychain.table.tag \in Nat
  BY Numbers DEF Inductive
<1>6. /\ keychain' = keychain \/ keychain'.table = mem[p].table
      /\ file' = file \/ file'.table \in {Empty, mem[p].table}
  BY DEF WriteKeychain, WriteMarker, WritePlain, Marker
<1>7. Empty.tag = 0  BY DEF Empty
<1>8. NoneNewer'  BY <1>1, <1>5, <1>6, <1>7 DEF FreshInv, NoneNewer
<1>9. Authority' \in {Authority, mem[p].table} /\ (l = "saved" => Authority' = mem[p].table)
  <2>1. CASE WriteKeychain(p)
    <3>1. file' = file /\ (keychain' = keychain \/ keychain'.table = mem[p].table)
      BY <2>1 DEF WriteKeychain
    <3>2. l # "saved"
      <4>1. Goto(p, "marker", mem[p]) \/ Goto(p, "plain", mem[p])  BY <2>1 DEF WriteKeychain
      <4> QED BY <1>4, <4>1 DEF Goto, Inductive, TypeOK
    <3> QED BY <3>1, <3>2 DEF Authority
  <2>2. CASE WriteMarker(p)
    <3>1. keychain' = keychain /\ keychain.table = mem[p].table
      BY <1>1, <2>2 DEF WriteMarker, At, Holder
    <3>2. CASE file' = Marker  BY <3>1, <3>2 DEF Authority, Marker
    <3>3. CASE file' = file /\ Goto(p, "plain", mem[p])
      <4>1. l = "plain"  BY <1>4, <3>3 DEF Goto, Inductive, TypeOK
      <4> QED BY <3>1, <3>3, <4>1 DEF Authority
    <3> QED BY <2>2, <3>2, <3>3 DEF WriteMarker
  <2>3. CASE WritePlain(p)  BY <2>3 DEF WritePlain, Authority
  <2> QED BY <2>1, <2>2, <2>3
<1>10. Authority.tag <= clock  BY DEF FreshInv, NoneNewer, Authority
<1>11. Grows  BY <1>1, <1>5, <1>6, <1>9, <1>10 DEF Grows, FreshInv, NoneNewer
<1>12. FreshMem(p)'  BY <1>1, <1>3, <1>4, <1>9 DEF FreshMem
<1> QED BY <1>2, <1>3, <1>8, <1>11, <1>12, FreshStep

LEMMA StepFresh ==
    ASSUME Inductive, Inductive', FreshInv, [Next]_vars
    PROVE  FreshInv'
<1>1. CASE UNCHANGED vars
  <2>1. Authority' = Authority /\ Empty' = Empty  BY <1>1 DEF vars, Authority, Empty
  <2> QED BY <1>1, <2>1 DEF vars, FreshInv, NoneNewer, FreshMem
<1>2. CASE Next
  <2>1. PICK p \in Procs :
          \/ \E a \in Accounts, op \in {"put", "remove"} : StartUpdate(p, a, op)
          \/ StartLoad(p) \/ Load(p) \/ Mutate(p) \/ Save(p) \/ Return(p) \/ Crash(p)
    BY <1>2 DEF Next
  <2>2. CASE ReadKeychainFails(p) \/ WritePlainFails(p) \/ Return(p) \/ Crash(p)
    BY <2>2, EndFresh DEF ReadKeychainFails, WritePlainFails, Return, Crash
  <2>3. CASE ReadFile(p) \/ ReadKeychain(p)  BY <2>3, ReadFresh
  <2>4. CASE WriteKeychain(p) \/ WriteMarker(p) \/ WritePlain(p)  BY <2>4, SaveFresh
  <2> QED BY <2>1, <2>2, <2>3, <2>4, StartFresh, MutateFresh DEF Load, Save
<1> QED BY <1>1, <1>2

LEMMA AlwaysFresh == Spec => []FreshInv
<1>1. Inductive /\ Inductive' /\ FreshInv /\ [Next]_vars => FreshInv'  BY StepFresh
<1> QED BY <1>1, InitFresh, InductiveInvariant, PTL DEF Spec

\* An update that has returned Ok is in force until the process that made it goes on,
\* whichever of the keychain, the marker and the plain file it was saved by.
THEOREM UpdatesLast == Spec => []UpdateTakesEffect
<1>1. FreshInv => UpdateTakesEffect  BY DEF FreshInv, FreshMem, UpdateTakesEffect, At
<1> QED BY <1>1, AlwaysFresh, PTL

\* secrets_store.rs:9-10: a load takes no lock and reads two files one after the other, and
\* still returns no table older than the one in force at its start.
THEOREM LoadsAreFresh == Spec => []LoadFresh
<1>1. FreshInv => LoadFresh  BY DEF FreshInv, FreshMem, LoadFresh, At
<1> QED BY <1>1, AlwaysFresh, PTL
=============================================================================
