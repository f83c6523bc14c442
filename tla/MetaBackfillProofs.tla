-------------------------- MODULE MetaBackfillProofs --------------------------
(***************************************************************************)
(* Proofs about MetaBackfill, for any number of workers, callers and CLI   *)
(* processes, any rows and any number of restarts; and about MCLive, which *)
(* puts it beside the synchronisation of a folder.                         *)
(***************************************************************************)
EXTENDS MCLive, ImapSyncProofs, SequenceTheorems

Flags ==
    /\ step \in [Workers -> Steps]
    /\ caller \in [Callers -> {"idle", "dirty", "cas"}]
    /\ running \in BOOLEAN /\ dirty \in BOOLEAN /\ owed \in BOOLEAN

FlagInv == Flags /\ OneScanner /\ NoLostWakeup

LEMMA GotoFlags ==
    ASSUME Flags, NEW w \in Workers, NEW l \in Steps, StepTo(w, l)
    PROVE  /\ step' \in [Workers -> Steps]
           /\ step'[w] = l
           /\ \A v \in Workers : v # w => step'[v] = step[v]
BY DEF Flags, StepTo

\* A step that moves no worker, no caller and no flag.
LEMMA Aside ==
    ASSUME FlagInv, UNCHANGED <<step, caller, running, dirty, owed>>
    PROVE  FlagInv'
BY DEF FlagInv, Flags, OneScanner, NoLostWakeup

\* A step of a worker that keeps scanning, and does not clear DIRTY unless it goes
\* on to scan.
LEMMA KeepsScanning ==
    ASSUME FlagInv, NEW w \in Workers, step[w] \in Scanning,
           NEW l \in Scanning, StepTo(w, l),
           UNCHANGED <<caller, running>>, dirty' \in BOOLEAN,
           owed' \in BOOLEAN,
           owed' => owed /\ (l \in {"clear", "targets"}
                               \/ (step[w] \notin {"clear", "targets"} /\ dirty' = dirty))
    PROVE  FlagInv'
<1>1. l \in Steps  BY DEF Scanning, Steps
<1>2. /\ step' \in [Workers -> Steps]
      /\ step'[w] = l
      /\ \A v \in Workers : v # w => step'[v] = step[v]
  BY <1>1, GotoFlags DEF FlagInv
<1>3. Flags'  BY <1>2 DEF FlagInv, Flags
<1>4. OneScanner'  BY <1>2 DEF FlagInv, OneScanner
<1>5. NoLostWakeup'
  <2> SUFFICES ASSUME owed' PROVE NoLostWakeup'  BY DEF NoLostWakeup
  <2>1. CASE l \in {"clear", "targets"}  BY <2>1, <1>2 DEF NoLostWakeup
  <2>2. CASE step[w] \notin {"clear", "targets"} /\ dirty' = dirty
    <3>1. owed /\ running  BY DEF FlagInv, OneScanner
    <3>2. ASSUME NEW v \in Workers, step[v] \in {"clear", "targets"}
          PROVE  step'[v] = step[v]
      BY <2>2, <3>2, <1>2
    <3> QED BY <2>2, <3>1, <3>2 DEF FlagInv, NoLostWakeup
  <2> QED BY <2>1, <2>2
<1> QED BY <1>3, <1>4, <1>5 DEF FlagInv

LEMMA WorkKeeps == ASSUME FlagInv, NEW w \in Workers, Work(w) PROVE FlagInv'
<1> USE DEF FlagInv
<1>1. CASE ClearDirty(w)
  <2>1. /\ step[w] \in Scanning /\ "targets" \in Scanning /\ StepTo(w, "targets")
        /\ UNCHANGED <<caller, running>> /\ dirty' \in BOOLEAN /\ owed' = owed
    BY <1>1 DEF ClearDirty, Scanning
  <2>2. /\ owed' \in BOOLEAN
        /\ owed' => owed /\ ("targets" \in {"clear", "targets"}
                               \/ (step[w] \notin {"clear", "targets"} /\ dirty' = dirty))
    BY <2>1 DEF Flags
  <2> QED BY <2>1, <2>2, KeepsScanning
<1>2. CASE ReadTargets(w)
  BY <1>2, KeepsScanning DEF ReadTargets, Scanning, flagVars, Flags
<1>3. CASE FillBatch(w)
  BY <1>3, Aside DEF FillBatch, flagVars
<1>4. CASE FolderDone(w) \/ FolderFails(w)
  BY <1>4, KeepsScanning DEF FolderDone, FolderFails, NextFolder, Batching, Scanning, flagVars, Flags
<1>5. CASE SwapDirty(w)
  <2>1. step[w] = "swap"  BY <1>5 DEF SwapDirty
  <2>2. CASE dirty
    <3>1. /\ "swap" \in Scanning /\ "clear" \in Scanning /\ StepTo(w, "clear")
          /\ UNCHANGED <<caller, running>> /\ dirty' \in BOOLEAN /\ owed' = owed
      BY <1>5, <2>2 DEF SwapDirty, Scanning
    <3>2. /\ owed' \in BOOLEAN
          /\ owed' => owed /\ ("clear" \in {"clear", "targets"}
                                 \/ (step[w] \notin {"clear", "targets"} /\ dirty' = dirty))
      BY <3>1 DEF Flags
    <3> QED BY <2>1, <3>1, <3>2, KeepsScanning
  <2>3. CASE ~dirty
    BY <1>5, <2>1, <2>3, KeepsScanning DEF SwapDirty, Scanning, Flags
  <2> QED BY <2>2, <2>3
<1>6. CASE Stop(w)
  <2>1. /\ step' \in [Workers -> Steps]
        /\ step'[w] = "recheck"
        /\ \A v \in Workers : v # w => step'[v] = step[v]
    BY <1>6, GotoFlags DEF Stop, Steps
  <2>2. step[w] = "stop" /\ ~running' /\ UNCHANGED <<caller, dirty, owed>>  BY <1>6 DEF Stop
  <2>3. Flags'  BY <1>6, <2>1, <2>2 DEF Flags, Stop
  <2>4. OneScanner'  BY <2>1, <2>2 DEF OneScanner, Scanning
  <2>5. NoLostWakeup'  BY <2>1, <2>2 DEF NoLostWakeup
  <2> QED BY <2>3, <2>4, <2>5
<1>7. CASE Recheck(w)
  <2> DEFINE l == IF dirty THEN "retake" ELSE "off"
  <2>1. /\ step' \in [Workers -> Steps]
        /\ step'[w] = l
        /\ \A v \in Workers : v # w => step'[v] = step[v]
    BY <1>7, GotoFlags DEF Recheck, Steps
  <2>2. step[w] = "recheck" /\ UNCHANGED <<caller, dirty, running, owed>>
    BY <1>7 DEF Recheck, flagVars
  <2>3. Flags'  BY <2>1, <2>2 DEF Flags
  <2>4. OneScanner'  BY <2>1, <2>2 DEF OneScanner, Scanning
  <2>5. NoLostWakeup'  BY <2>1, <2>2 DEF NoLostWakeup
  <2> QED BY <2>3, <2>4, <2>5
<1>8. CASE Retake(w)
  <2> DEFINE l == IF running THEN "off" ELSE "clear"
  <2>1. /\ step' \in [Workers -> Steps]
        /\ step'[w] = l
        /\ \A v \in Workers : v # w => step'[v] = step[v]
    BY <1>8, GotoFlags DEF Retake, Steps
  <2>2. step[w] = "retake" /\ running' = TRUE /\ UNCHANGED <<caller, dirty, owed>>
    BY <1>8 DEF Retake
  <2>3. Flags'  BY <2>1, <2>2 DEF Flags
  <2>4. OneScanner'  BY <2>1, <2>2 DEF OneScanner, Scanning
  <2>5. NoLostWakeup'  BY <2>1, <2>2 DEF NoLostWakeup
  <2> QED BY <2>3, <2>4, <2>5
<1> QED BY <1>1, <1>2, <1>3, <1>4, <1>5, <1>6, <1>7, <1>8 DEF Work

LEMMA WakeKeeps == ASSUME FlagInv, NEW g \in Callers, Wake(g) PROVE FlagInv'
<1> USE DEF FlagInv
<1>1. CASE MarkDirty(g)
  <2>1. caller' = [caller EXCEPT ![g] = "cas"] /\ dirty' /\ UNCHANGED <<step, running>>
    BY <1>1 DEF MarkDirty
  <2>2. Flags'  BY <1>1, <2>1 DEF Flags, MarkDirty
  <2>3. OneScanner'  BY <2>1 DEF OneScanner
  <2>4. NoLostWakeup'  BY <2>1 DEF NoLostWakeup, Flags
  <2> QED BY <2>2, <2>3, <2>4
<1>2. CASE Spawn(g)
  <2>1. /\ caller' = [caller EXCEPT ![g] = "idle"]
        /\ running' = TRUE /\ UNCHANGED <<dirty, owed>>
    BY <1>2 DEF Spawn
  <2>2. \A h \in Callers : caller[h] = "dirty" => caller'[h] = "dirty"
    BY <1>2, <2>1 DEF Spawn, Flags
  <2>3. CASE running /\ step' = step
    <3>1. Flags'  BY <2>1, <2>3 DEF Flags
    <3>2. OneScanner'  BY <2>1, <2>3 DEF OneScanner
    <3>3. NoLostWakeup'  BY <2>1, <2>2, <2>3 DEF NoLostWakeup
    <3> QED BY <3>1, <3>2, <3>3
  <2>4. ASSUME ~running, NEW w \in Workers, step[w] = "off", step' = [step EXCEPT ![w] = "clear"]
        PROVE  FlagInv'
    <3>1. Flags'  BY <2>1, <2>4 DEF Flags, Steps
    <3>2. step'[w] = "clear" /\ \A v \in Workers : v # w => step'[v] = step[v]
      BY <2>4 DEF Flags
    <3>3. OneScanner'  BY <2>1, <2>4, <3>2 DEF OneScanner, Scanning
    <3>4. NoLostWakeup'  BY <3>2 DEF NoLostWakeup
    <3> QED BY <3>1, <3>3, <3>4
  <2> QED BY <1>2, <2>3, <2>4 DEF Spawn
<1> QED BY <1>1, <1>2 DEF Wake

LEMMA CommandKeeps == ASSUME FlagInv, Command PROVE FlagInv'
<1> USE DEF FlagInv
<1>1. ASSUME NEW g \in Callers, GuiTrust(g) \/ \E f \in Folders : GuiList(g, f)
      PROVE  FlagInv'
  <2>1. /\ caller' = [caller EXCEPT ![g] = "dirty"]
        /\ UNCHANGED <<step, dirty, running, owed>>
    BY <1>1 DEF GuiTrust, GuiList, workerVars
  <2>2. Flags'  BY <2>1 DEF Flags
  <2>3. OneScanner'  BY <2>1 DEF OneScanner
  <2>4. caller'[g] = "dirty"  BY <2>1 DEF Flags
  <2> QED BY <2>2, <2>3, <2>4 DEF NoLostWakeup
<1>2. ASSUME NEW g \in Callers, Restart(g) PROVE FlagInv'
  <2>1. /\ caller' = [h \in Callers |-> IF h = g THEN "dirty" ELSE "idle"]
        /\ step' = [w \in Workers |-> "off"] /\ ~dirty' /\ ~running'
        /\ dirty' \in BOOLEAN /\ running' \in BOOLEAN /\ owed' \in BOOLEAN
    BY <1>2 DEF Restart, Flags
  <2>2. Flags'  BY <2>1 DEF Flags, Steps
  <2>3. OneScanner'  BY <2>1 DEF OneScanner, Scanning
  <2> QED BY <2>1, <2>2, <2>3 DEF NoLostWakeup
<1>3. CASE \/ \E r \in Rows : GuiOpen(r)
           \/ \E c \in Clis :
                \/ CliStart(c) \/ CliTrust(c)
                \/ \E f \in Folders : CliList(c, f)
                \/ \E r \in Rows : CliOpen(c, r)
  BY <1>3, Aside DEF GuiOpen, CliStart, CliTrust, CliList, CliOpen, workerVars
<1> QED BY <1>1, <1>2, <1>3 DEF Command

LEMMA FlagsInvariant == MetaSpec => []FlagInv
<1>1. MetaInit => FlagInv
  <2> SUFFICES ASSUME MetaInit PROVE FlagInv  OBVIOUS
  <2>1. Flags  BY DEF MetaInit, Flags, Steps
  <2>2. \A w \in Workers : step[w] \notin Scanning  BY DEF MetaInit, Scanning
  <2>3. OneScanner  BY <2>2 DEF MetaInit, OneScanner
  <2>4. NoLostWakeup  BY DEF MetaInit, NoLostWakeup
  <2> QED BY <2>1, <2>3, <2>4 DEF FlagInv
<1>2. FlagInv /\ [MetaNext]_metaVars => FlagInv'
  <2> SUFFICES ASSUME FlagInv, [MetaNext]_metaVars PROVE FlagInv'  OBVIOUS
  <2>1. CASE UNCHANGED metaVars  BY <2>1, Aside DEF metaVars
  <2> QED BY <2>1, WorkKeeps, WakeKeeps, CommandKeeps DEF MetaNext
<1> QED BY <1>1, <1>2, PTL DEF MetaSpec

\* lib.rs:40-145: at most one backfill worker scans at a time, and
\* META_BACKFILL_RUNNING says whether there is one.
THEOREM SingleScanner == MetaSpec => []OneScanner
<1>1. FlagInv => OneScanner  BY DEF FlagInv
<1> QED BY <1>1, FlagsInvariant, PTL

\* lib.rs:40-145: no call of spawn_meta_backfill is lost between the two flags.
THEOREM WakeupsKept == MetaSpec => []NoLostWakeup
<1>1. FlagInv => NoLostWakeup  BY DEF FlagInv
<1> QED BY <1>1, FlagsInvariant, PTL

-----------------------------------------------------------------------------
(* Types, and that a worker with a batch to fill has a folder.             *)

Metas == {"none", "garbled", "current", "old"}
Trusts == {"current", "old"}
Memory == [todo : Seq(Folders), cursor : Nat]

\* What the rows, the contacts and the counters hold.
Contents ==
    /\ meta \in [Rows -> Metas] /\ gui \in Trusts /\ cli \in [Clis -> Trusts \cup {"off"}]
    /\ restarts \in 0 .. MaxRestarts /\ failed \in BOOLEAN

\* What the workers hold.
Busy(label, v) == v \in Memory /\ (label = "batch" => v.todo # <<>>)
Memories ==
    /\ task = [w \in Workers |-> task[w]]
    /\ \A w \in Workers : Busy(step[w], task[w])

LEMMA ContentsStay == ASSUME Contents, MetaNext PROVE Contents'
<1>1. \A f : Listed(f) \in [Rows -> Metas]  BY DEF Listed, Contents, Metas
<1>2. Invalidate => meta' \in [Rows -> Metas] /\ failed' \in BOOLEAN
  BY DEF Invalidate, Contents, Metas
<1>3. \A c \in Clis : Outdated(c) \in Trusts \cup {"off"}  BY DEF Outdated, Contents, Trusts
<1>4. Trusts \subseteq Metas  BY DEF Trusts, Metas
<1>5. ASSUME NEW w \in Workers, Work(w) PROVE Contents'
  <2>1. UNCHANGED <<gui, cli, restarts>>
    BY <1>5 DEF Work, ClearDirty, ReadTargets, FillBatch, FolderDone, FolderFails, SwapDirty, Stop,
                Recheck, Retake, trustVars
  <2>2. failed' \in BOOLEAN
    BY <1>5 DEF Work, ClearDirty, ReadTargets, FillBatch, FolderDone, FolderFails, SwapDirty, Stop,
                Recheck, Retake, Contents
  <2>3. CASE FillBatch(w)
    <3>1. PICK done : meta' = [r \in Rows |-> IF r \in done THEN gui ELSE meta[r]]
      BY <2>3 DEF FillBatch
    <3>2. meta' \in [Rows -> Metas]  BY <1>4, <3>1 DEF Contents
    <3> QED BY <2>1, <2>2, <3>2 DEF Contents
  <2>4. CASE ~FillBatch(w)
    <3>1. meta' = meta
      BY <1>5, <2>4 DEF Work, ClearDirty, ReadTargets, FolderDone, FolderFails, SwapDirty, Stop,
                        Recheck, Retake
    <3> QED BY <2>1, <2>2, <3>1 DEF Contents
  <2> QED BY <2>3, <2>4
<1>6. ASSUME NEW g \in Callers, Wake(g) PROVE Contents'
  BY <1>6 DEF Wake, MarkDirty, Spawn, trustVars, Contents
<1>7. ASSUME NEW g \in Callers, GuiTrust(g) PROVE Contents'
  <2>1. cli' \in [Clis -> Trusts \cup {"off"}]  BY <1>3, <1>7 DEF GuiTrust
  <2>2. Invalidate /\ gui' = "current" /\ restarts' = restarts  BY <1>7 DEF GuiTrust
  <2> QED BY <1>2, <2>1, <2>2 DEF Contents, Trusts
<1>8. ASSUME NEW g \in Callers, Restart(g) PROVE Contents'
  BY <1>8, RowsAssumption DEF Restart, Contents, Trusts
<1>9. ASSUME NEW g \in Callers, NEW f, GuiList(g, f) PROVE Contents'
  BY <1>1, <1>9 DEF GuiList, trustVars, Contents
<1>10. ASSUME NEW r \in Rows, GuiOpen(r) PROVE Contents'
  BY <1>4, <1>10 DEF GuiOpen, trustVars, Contents
<1>11. ASSUME NEW c \in Clis, CliStart(c) PROVE Contents'
  BY <1>11 DEF CliStart, Contents, Trusts
<1>12. ASSUME NEW c \in Clis, CliTrust(c) PROVE Contents'
  <2>1. cli' \in [Clis -> Trusts \cup {"off"}]  BY <1>3, <1>12 DEF CliTrust
  <2>2. Invalidate /\ gui' = "old" /\ restarts' = restarts  BY <1>12 DEF CliTrust
  <2> QED BY <1>2, <2>1, <2>2 DEF Contents, Trusts
<1>13. ASSUME NEW c \in Clis, NEW f, CliList(c, f) PROVE Contents'
  BY <1>1, <1>13 DEF CliList, CliEnds, Contents
<1>14. ASSUME NEW c \in Clis, NEW r \in Rows, CliOpen(c, r) PROVE Contents'
  <2>1. cli[c] \in Metas  BY <1>4, <1>14 DEF CliOpen, CliEnds, Contents
  <2> QED BY <1>14, <2>1 DEF CliOpen, CliEnds, Contents
<1> QED BY <1>5, <1>6, <1>7, <1>8, <1>9, <1>10, <1>11, <1>12, <1>13, <1>14 DEF MetaNext, Command

-----------------------------------------------------------------------------
\* A step of one worker.
LEMMA MemoryStep ==
    ASSUME Flags, Memories, NEW w \in Workers, NEW l, NEW v,
           StepTo(w, l), task' = [task EXCEPT ![w] = v], Busy(l, v)
    PROVE  Memories'
<1>1. \A x \in Workers : /\ step'[x] = IF x = w THEN l ELSE step[x]
                        /\ task'[x] = IF x = w THEN v ELSE task[x]
  BY DEF StepTo, Flags, Memories
<1> QED BY <1>1 DEF Memories

\* missing_meta_targets names folders.
LEMMA TargetsType ==
    ASSUME NEW targets,
           targets \in SetToSeqs({r[1] : r \in Missing}) \cup {<<>>}
    PROVE  targets \in Seq(Folders)
<1>1. PICK found : found = {r[1] : r \in Missing}  OBVIOUS
<1>2. found \subseteq Folders /\ Missing \subseteq Rows  BY <1>1 DEF Missing, Folders
<1>3. IsFiniteSet(found)
  <2>1. IsFiniteSet(Missing)  BY <1>2, RowsAssumption, FS_Subset
  <2>2. PICK name : name = [r \in Missing |-> r[1]]  OBVIOUS
  <2>3. name \in Surjection(Missing, found)
    <3>1. name \in [Missing -> found]  BY <1>1, <2>2
    <3>2. \A f \in found : \E r \in Missing : name[r] = f  BY <1>1, <2>2
    <3> QED BY <3>1, <3>2 DEF Surjection
  <2> QED BY <2>1, <2>3, FS_Surjection
<1>4. Cardinality(found) \in Nat  BY <1>3, FS_CardinalityType
<1>5. CASE targets = <<>>  BY <1>5
<1>6. CASE targets \in SetToSeqs(found)
  <2>1. targets \in [1 .. Cardinality(found) -> found]  BY <1>6 DEF SetToSeqs
  <2>2. targets \in Seq(found)  BY <1>4, <2>1
  <2> QED BY <1>2, <2>2, SeqMonotonic
<1> QED BY <1>1, <1>5, <1>6

LEMMA WorkRemembers == ASSUME Flags, Memories, NEW w \in Workers, Work(w) PROVE Memories'
<1>1. task[w] \in Memory /\ (step[w] = "batch" => task[w].todo # <<>>)  BY DEF Memories, Busy
<1>2. PICK t, k : t = task[w].todo /\ k = task[w].cursor  OBVIOUS
<1>3. t \in Seq(Folders) /\ k \in Nat /\ task[w] = [todo |-> t, cursor |-> k]
  BY <1>1, <1>2 DEF Memory
<1>4. ASSUME NEW l, l # "batch", StepTo(w, l), task' = task PROVE Memories'
  <2>1. task' = [task EXCEPT ![w] = task[w]]  BY <1>4 DEF Memories
  <2>2. Busy(l, task[w])  BY <1>1, <1>4 DEF Busy
  <2> QED BY <1>4, <2>1, <2>2, MemoryStep
<1>5. CASE ClearDirty(w)  BY <1>4, <1>5 DEF ClearDirty
<1>6. CASE ReadTargets(w)
  <2>1. PICK targets \in SetToSeqs({r[1] : r \in Missing}) \cup {<<>>} :
          /\ task' = [task EXCEPT ![w].todo = targets]
          /\ StepTo(w, IF targets = <<>> THEN "swap" ELSE "batch")
    BY <1>6 DEF ReadTargets
  <2>2. PICK v : v = [todo |-> targets, cursor |-> k]  OBVIOUS
  <2>3. task' = [task EXCEPT ![w] = v]
    <3>1. [task[w] EXCEPT !.todo = targets] = v  BY <1>3, <2>2
    <3> QED BY <2>1, <3>1
  <2>4. targets \in Seq(Folders)  BY TargetsType
  <2>5. Busy(IF targets = <<>> THEN "swap" ELSE "batch", v)
    BY <1>3, <2>2, <2>4 DEF Busy, Memory
  <2> QED BY <2>1, <2>3, <2>5, MemoryStep
<1>7. CASE FillBatch(w)
  <2>1. PICK batch : /\ batch \subseteq Rows
                     /\ \E r \in batch : task' = [task EXCEPT ![w].cursor = r[2]]
                     /\ step' = step
    <3>1. PICK b : b = Batch(Head(task[w].todo), task[w].cursor)  OBVIOUS
    <3>2. b \subseteq Rows  BY <3>1 DEF Batch, Missing
    <3> QED BY <1>7, <3>1, <3>2 DEF FillBatch
  <2>2. PICK u \in Nat : task' = [task EXCEPT ![w].cursor = u]  BY <2>1, RowsAssumption
  <2>3. PICK v : v = [todo |-> t, cursor |-> u]  OBVIOUS
  <2>4. task' = [task EXCEPT ![w] = v]
    <3>1. [task[w] EXCEPT !.cursor = u] = v  BY <1>3, <2>3
    <3> QED BY <2>2, <3>1
  <2>5. StepTo(w, step[w])  BY <2>1 DEF StepTo, Flags
  <2>6. Busy(step[w], v)  BY <1>1, <1>2, <1>3, <2>3 DEF Busy, Memory
  <2> QED BY <2>4, <2>5, <2>6, MemoryStep
<1>8. CASE FolderDone(w) \/ FolderFails(w)
  <2>1. PICK v : v = [todo |-> Tail(t), cursor |-> 0]  OBVIOUS
  <2>2. PICK l : l = IF Len(t) = 1 THEN "swap" ELSE "batch"  OBVIOUS
  <2>3. task' = [task EXCEPT ![w] = v] /\ StepTo(w, l) /\ step[w] = "batch"
    BY <1>2, <1>8, <2>1, <2>2 DEF FolderDone, FolderFails, NextFolder, Batching
  <2>4. t # <<>> /\ Len(t) \in Nat  BY <1>1, <1>2, <1>3, <2>3
  <2>5. Tail(t) \in Seq(Folders) /\ Len(Tail(t)) = Len(t) - 1  BY <1>3, <2>4, HeadTailProperties
  <2>6. l = "batch" => Tail(t) # <<>>
    <3> SUFFICES ASSUME Len(t) # 1, Tail(t) = <<>> PROVE FALSE  BY <2>2
    <3>1. PICK u : u = Tail(t)  OBVIOUS
    <3>2. u \in Seq(Folders) /\ u = <<>>  BY <2>5, <3>1
    <3>3. Len(u) = 0  BY <3>2, EmptySeq
    <3> QED BY <2>4, <2>5, <3>1, <3>3
  <2>7. Busy(l, v)  BY <2>1, <2>5, <2>6 DEF Busy, Memory
  <2> QED BY <2>3, <2>7, MemoryStep
<1>9. CASE SwapDirty(w)  BY <1>4, <1>9 DEF SwapDirty
<1>10. CASE Stop(w)  BY <1>4, <1>10 DEF Stop
<1>11. CASE Recheck(w)  BY <1>4, <1>11 DEF Recheck
<1>12. CASE Retake(w)  BY <1>4, <1>12 DEF Retake
<1> QED BY <1>5, <1>6, <1>7, <1>8, <1>9, <1>10, <1>11, <1>12 DEF Work

LEMMA OthersRemember ==
    ASSUME Flags, Memories, (\E g \in Callers : Wake(g)) \/ Command
    PROVE  Memories'
<1>1. CASE \E g \in Callers : Restart(g)
  <2>1. /\ step' = [w \in Workers |-> "off"] /\ task' = [w \in Workers |-> NoTask]
    BY <1>1 DEF Restart
  <2>2. NoTask \in Memory  BY DEF NoTask, Memory
  <2> QED BY <2>1, <2>2 DEF Memories, Busy
<1>2. CASE \E g \in Callers : Spawn(g)
  <2>1. task' = task /\ \A w \in Workers : step'[w] = step[w] \/ step'[w] = "clear"
    BY <1>2 DEF Spawn, Flags
  <2> QED BY <2>1 DEF Memories, Busy
<1>3. CASE UNCHANGED <<step, task>>  BY <1>3 DEF Memories
<1> QED BY <1>1, <1>2, <1>3 DEF Wake, MarkDirty, Command, GuiTrust, GuiList, GuiOpen, CliStart, CliTrust,
                                CliList, CliOpen, workerVars

\* The types of the variables; a worker that fills a batch has a folder to do so for.
THEOREM MetaTypes == MetaSpec => []MetaTypeOK
<1> DEFINE IInv == FlagInv /\ Contents /\ Memories
<1>1. MetaInit => Contents /\ Memories
  <2> SUFFICES ASSUME MetaInit PROVE Contents /\ Memories  OBVIOUS
  <2>1. Contents
    <3>1. meta \in [Rows -> Metas]
      <4>1. meta \in [Rows -> {"none", "garbled"}]  BY DEF MetaInit
      <4>2. {"none", "garbled"} \subseteq Metas  BY DEF Metas
      <4> QED BY <4>1, <4>2
    <3>2. gui \in Trusts  BY DEF MetaInit, Trusts
    <3>3. cli \in [Clis -> Trusts \cup {"off"}]  BY DEF MetaInit
    <3>4. restarts = 0 /\ failed = FALSE  BY DEF MetaInit
    <3>5. restarts \in 0 .. MaxRestarts
      <4>1. MaxRestarts \in Nat  BY RowsAssumption
      <4> QED BY <3>4, <4>1
    <3> QED BY <3>1, <3>2, <3>3, <3>4, <3>5 DEF Contents
  <2>2. NoTask \in Memory  BY DEF NoTask, Memory
  <2> QED BY <2>1, <2>2 DEF MetaInit, Memories, Busy
<1>2. FlagInv /\ Contents /\ Memories /\ [MetaNext]_metaVars => (Contents /\ Memories)'
  <2> SUFFICES ASSUME FlagInv, Contents, Memories, [MetaNext]_metaVars PROVE (Contents /\ Memories)'  OBVIOUS
  <2>1. CASE UNCHANGED metaVars  BY <2>1 DEF metaVars, Contents, Memories
  <2>2. CASE MetaNext
    <3>1. Contents'  BY <2>2, ContentsStay
    <3>2. Memories'  BY <2>2, WorkRemembers, OthersRemember DEF MetaNext, FlagInv
    <3> QED BY <3>1, <3>2
  <2> QED BY <2>1, <2>2
<1>3. FlagInv /\ Contents /\ Memories => MetaTypeOK
  <2> SUFFICES ASSUME FlagInv, Contents, Memories PROVE MetaTypeOK  OBVIOUS
  <2>1. task \in [Workers -> Memory]  BY DEF Memories, Busy
  <2>2. \A w \in Workers : step[w] = "batch" => task[w].todo # <<>>  BY DEF Memories, Busy
  <2> QED BY <2>1, <2>2 DEF FlagInv, Flags, Contents, Metas, Trusts, Memory, MetaTypeOK
<1> QED BY <1>1, <1>2, <1>3, FlagsInvariant, PTL DEF MetaSpec

-----------------------------------------------------------------------------
(* The two specifications side by side, as the run of MCLive takes them.   *)

\* In a behaviour of MCLive each part is a behaviour of its own specification.
THEOREM LiveKeepsSpecs == LiveSpec => Spec /\ MetaSpec
<1>1. LiveInit => Init /\ MetaInit  BY DEF LiveInit
<1>2. [LiveNext]_<<part, vars, metaVars>> => [Next]_vars /\ [MetaNext]_metaVars
  BY DEF LiveNext
<1> QED BY <1>1, <1>2, PTL DEF LiveSpec, Spec, MetaSpec

\* So what the run checks besides liveness holds of it for any constants, if the mailbox
\* keeps its UIDVALIDITY: one scanner, no lost wake-up, and a delete detection that
\* removes only lost mail although the daily flow takes no lock.
THEOREM LiveSafety ==
    ASSUME "newvalidity" \notin Events
    PROVE  LiveSpec => []OneScanner /\ []NoLostWakeup /\ DeleteSound
BY LiveKeepsSpecs, SingleScanner, WakeupsKept, DeletesOnlyLostMailBesideDaily
=============================================================================
