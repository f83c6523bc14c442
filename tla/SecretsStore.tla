----------------------------- MODULE SecretsStore -----------------------------
(***************************************************************************)
(* secrets_store.rs: the credentials of all accounts are one table, kept   *)
(* in the system keychain, or in secrets.json when the keychain cannot be  *)
(* written.  secrets.json says which: it is absent, a marker that points   *)
(* to the keychain, or the table itself.  The GUI and any number of CLI    *)
(* processes load the table, without a lock, and update one account of it, *)
(* under secrets.lock.  Each access to the keychain or the file is a step; *)
(* it may fail, and the process may crash before the next.                 *)
(***************************************************************************)
EXTENDS Naturals

CONSTANTS
    Procs,      \* processes
    NoProc,     \* nobody holds secrets.lock
    Accounts,
    MaxTag,     \* bound: how many updates are made
    Faults,     \* the accesses that may fail in this instance
    CrashAt     \* the steps before which a process may crash

AllFaults == {"read", "write", "marker", "plain", "absent"}

ASSUME SecretsAssumption ==
    /\ NoProc \notin Procs
    /\ MaxTag \in Nat

VARIABLES
    file,       \* secrets.json
    keychain,   \* the keychain's entry for this configuration directory
    lock,       \* who holds secrets.lock
    clock,      \* how many updates have been made
    pc,         \* the step each process is about to take
    mem         \* the local variables of each process

vars == <<file, keychain, lock, clock, pc, mem>>
storeVars == <<file, keychain, lock, clock>>

\* A table: what each account has, and which update wrote the whole.
Table == [tag : 0 .. MaxTag, of : [Accounts -> 0 .. MaxTag]]
Empty == [tag |-> 0, of |-> [a \in Accounts |-> 0]]
FileState == [kind : {"missing", "marker", "map"}, table : Table]
Entry == [has : BOOLEAN, table : Table]
Marker == [kind |-> "marker", table |-> Empty]

NoMem == [op |-> "none", accounts |-> {}, kind |-> "missing", table |-> Empty, start |-> 0]
Labels == {"idle", "file", "keychain", "loaded", "mutate", "write", "marker", "plain", "saved"}

\* The table the files stand for: a plain table in the file comes first.
Authority == IF file.kind = "map" THEN file.table ELSE keychain.table

(***************************************************************************)
(* Steps.                                                                  *)
(***************************************************************************)
At(p, label) == pc[p] = label

Goto(p, label, m) ==
    /\ pc' = [pc EXCEPT ![p] = label]
    /\ mem' = [mem EXCEPT ![p] = m]

\* A return, Ok or Err, or a crash: the lock goes.
End(p) ==
    /\ Goto(p, "idle", NoMem)
    /\ lock' = IF lock = p THEN NoProc ELSE lock

\* update_account_with; a lock that stays taken for ten seconds is an error
\* that leaves no trace.
StartUpdate(p, a, op) ==
    /\ At(p, "idle")
    /\ lock = NoProc /\ clock < MaxTag
    /\ lock' = p
    /\ Goto(p, "file", [NoMem EXCEPT !.op = op, !.accounts = {a}])
    /\ UNCHANGED <<file, keychain, clock>>

StartLoad(p) ==
    /\ At(p, "idle")
    /\ Goto(p, "file", [NoMem EXCEPT !.op = "load", !.start = Authority.tag])
    /\ UNCHANGED storeVars

Loaded(p) == IF mem[p].op = "load" THEN "loaded" ELSE "mutate"

\* Mutant: the keychain is asked first, whatever the file is.
ReadFileOnlyIfMarker(p) ==
    /\ At(p, "file")
    /\ IF file.kind = "map" /\ ~keychain.has
       THEN Goto(p, Loaded(p), [mem[p] EXCEPT !.table = file.table])
       ELSE Goto(p, "keychain", [mem[p] EXCEPT !.kind = file.kind])
    /\ UNCHANGED storeVars

ReadFile(p) ==
    /\ At(p, "file")
    /\ IF file.kind = "map"
       THEN Goto(p, Loaded(p), [mem[p] EXCEPT !.table = file.table])
       ELSE Goto(p, "keychain", [mem[p] EXCEPT !.kind = file.kind])
    /\ UNCHANGED storeVars

\* Mutant: a keychain that cannot be read counts as an empty one.
ReadKeychainOrEmpty(p) ==
    /\ At(p, "keychain")
    /\ \/ Goto(p, Loaded(p), [mem[p] EXCEPT !.table = keychain.table])
       \/ "read" \in Faults /\ Goto(p, Loaded(p), [mem[p] EXCEPT !.table = Empty])
    /\ UNCHANGED storeVars

\* The table of the entry; without an entry, the empty table when there is no
\* file either.  "absent" is a keychain service that does not answer and is
\* taken for a system without one (keychain_storage_absent, on Linux).
ReadKeychain(p) ==
    /\ At(p, "keychain")
    /\ \/ /\ keychain.has
          /\ Goto(p, Loaded(p), [mem[p] EXCEPT !.table = keychain.table])
       \/ /\ ~keychain.has \/ "absent" \in Faults
          /\ mem[p].kind = "missing"
          /\ Goto(p, Loaded(p), [mem[p] EXCEPT !.table = Empty])
    /\ UNCHANGED storeVars

\* The keychain cannot be read, or the marker points to nothing: an error.
ReadKeychainFails(p) ==
    /\ At(p, "keychain")
    /\ "read" \in Faults \/ (~keychain.has /\ mem[p].kind = "marker")
    /\ End(p)
    /\ UNCHANGED <<file, keychain, clock>>

Mutate(p) ==
    /\ At(p, "mutate")
    /\ clock' = clock + 1
    /\ \E a \in mem[p].accounts :
        Goto(p, "write",
             [mem[p] EXCEPT !.table.tag = clock',
                 !.table.of[a] = IF mem[p].op = "put" THEN clock' ELSE 0])
    /\ UNCHANGED <<file, keychain, lock>>

WriteKeychain(p) ==
    /\ At(p, "write")
    /\ \/ /\ keychain' = [has |-> TRUE, table |-> mem[p].table]
          /\ Goto(p, "marker", mem[p])
       \/ /\ "write" \in Faults
          /\ keychain' = keychain
          /\ Goto(p, "plain", mem[p])
    /\ UNCHANGED <<file, lock, clock>>

\* Mutant: when the marker cannot be written, the file is left as it was.
WriteMarkerOrNothing(p) ==
    /\ At(p, "marker")
    /\ \/ file' = Marker
       \/ "marker" \in Faults /\ file' = file
    /\ Goto(p, "saved", mem[p])
    /\ UNCHANGED <<keychain, lock, clock>>

WriteMarker(p) ==
    /\ At(p, "marker")
    /\ \/ /\ file' = Marker
          /\ Goto(p, "saved", mem[p])
       \/ /\ "marker" \in Faults
          /\ file' = file
          /\ Goto(p, "plain", mem[p])
    /\ UNCHANGED <<keychain, lock, clock>>

WritePlain(p) ==
    /\ At(p, "plain")
    /\ file' = [kind |-> "map", table |-> mem[p].table]
    /\ Goto(p, "saved", mem[p])
    /\ UNCHANGED <<keychain, lock, clock>>

WritePlainFails(p) ==
    /\ At(p, "plain") /\ "plain" \in Faults
    /\ End(p)
    /\ UNCHANGED <<file, keychain, clock>>

Return(p) ==
    /\ pc[p] \in {"saved", "loaded"}
    /\ End(p)
    /\ UNCHANGED <<file, keychain, clock>>

Crash(p) ==
    /\ pc[p] \in CrashAt \ {"idle"}
    /\ End(p)
    /\ UNCHANGED <<file, keychain, clock>>

Init ==
    /\ file = [kind |-> "missing", table |-> Empty]
    /\ keychain = [has |-> FALSE, table |-> Empty]
    /\ lock = NoProc
    /\ clock = 0
    /\ pc = [p \in Procs |-> "idle"]
    /\ mem = [p \in Procs |-> NoMem]

Load(p) == ReadFile(p) \/ ReadKeychain(p) \/ ReadKeychainFails(p)
Save(p) == WriteKeychain(p) \/ WriteMarker(p) \/ WritePlain(p) \/ WritePlainFails(p)

Next ==
    \E p \in Procs :
        \/ \E a \in Accounts, op \in {"put", "remove"} : StartUpdate(p, a, op)
        \/ StartLoad(p) \/ Load(p) \/ Mutate(p) \/ Save(p) \/ Return(p) \/ Crash(p)

Spec == Init /\ [][Next]_vars

(***************************************************************************)
(* Properties.                                                             *)
(***************************************************************************)
ProcMem == [op : {"none", "load", "put", "remove"}, accounts : SUBSET Accounts,
            kind : {"missing", "marker"}, table : Table, start : 0 .. MaxTag]

\* The types of the variables.
TypeOK ==
    /\ file \in FileState
    /\ keychain \in Entry
    /\ lock \in Procs \cup {NoProc}
    /\ clock \in 0 .. MaxTag
    /\ pc \in [Procs -> Labels]
    /\ mem \in [Procs -> ProcMem]

\* A marker always points to an entry: no order of failures and crashes leaves
\* the program unable to load its credentials once the keychain answers.
MarkerHasEntry == file.kind = "marker" => keychain.has

\* An update that returned Ok is what the next load finds, by whichever of the
\* three ways it was saved.
UpdateTakesEffect ==
    \A p \in Procs : At(p, "saved") => Authority = mem[p].table

\* secrets_store.rs:9-10: a load, which takes no lock and reads the file and the
\* keychain one after the other, never returns a table older than the one that
\* was in force when it began, unless it finds no file and takes a silent keychain
\* for a missing one.
LoadFresh ==
    \A p \in Procs : At(p, "loaded") =>
        \/ mem[p].start <= mem[p].table.tag
        \/ mem[p].kind = "missing" /\ mem[p].table = Empty

\* The store implements SecretMap: every step changes one account at most.  A
\* keychain that comes and goes, and is then taken for a system without one,
\* costs another account its secret only while there is no file.
Map == INSTANCE SecretMap WITH table <- Authority.of, founded <- (file.kind # "missing")
ImplementsMap == Map!Spec

(***************************************************************************)
(* The inductive invariant behind ImplementsMap.                           *)
(***************************************************************************)
Updating == {"mutate", "write", "marker", "plain", "saved"}

\* What an update starts from: the table in force, or, with no file and a
\* keychain taken for a missing one, the empty table.
Based(t) == t = Authority.of \/ (file.kind = "missing" /\ t = Empty.of)

\* The holder of the lock has changed one account of what it started from.
Ahead(p) == \E a \in mem[p].accounts :
    \/ mem[p].table.of = [Authority.of EXCEPT ![a] = mem[p].table.of[a]]
    \/ /\ file.kind = "missing"
       /\ mem[p].table.of = [Empty.of EXCEPT ![a] = mem[p].table.of[a]]

Holder(p) ==
    /\ mem[p].op \in {"put", "remove"} <=> lock = p
    /\ pc[p] = "idle" <=> mem[p].op = "none"
    /\ pc[p] \in Updating => mem[p].op \in {"put", "remove"}
    /\ pc[p] \in {"file", "keychain", "mutate"} /\ lock = p => clock < MaxTag
    /\ pc[p] = "mutate" => Based(mem[p].table.of)
    /\ pc[p] \in {"write", "marker", "plain"} => Ahead(p)
    /\ pc[p] = "keychain" /\ mem[p].op \in {"put", "remove"} => file.kind = mem[p].kind
    /\ pc[p] = "marker" => keychain = [has |-> TRUE, table |-> mem[p].table]

NoEntryNoTable == ~keychain.has => keychain.table = Empty

Inductive ==
    /\ TypeOK
    /\ MarkerHasEntry
    /\ NoEntryNoTable
    /\ \A p \in Procs : Holder(p)
=============================================================================
