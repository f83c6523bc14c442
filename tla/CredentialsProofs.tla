-------------------------- MODULE CredentialsProofs --------------------------
(***************************************************************************)
(* Proofs about Credentials, for any accounts, threads and CLI processes,  *)
(* any number of tokens and any faults.                                    *)
(***************************************************************************)
EXTENDS Credentials, FiniteSetTheorems, TLAPS

(***************************************************************************)
(* Type correctness.  The lock of the state is a part of it: a step of the *)
(* one who holds it gives it back, and nobody else moves its holder.       *)
(***************************************************************************)
Data ==
    /\ accounts \subseteq Accounts
    /\ secrets \in [Accounts -> Secret]
    /\ gui \in [accounts : SUBSET Accounts, secrets : [Accounts -> Secret]]
    /\ running \subseteq Accounts
    /\ live \subseteq 1 .. issued /\ issued \in 0 .. MaxToken
    /\ lost \subseteq Accounts

ThreadsTyped == thread \in [Threads -> ThreadState]
ClisTyped == cli \in [Clis -> CliState]
LockTyped ==
    \/ guiLock = Nobody
    \/ guiLock \in Threads /\ ThreadAt(guiLock, "secrets")
    \/ guiLock \in Clis /\ CliAt(guiLock, "rereadSecrets")

\* A busy thread or process has an account; those of the window may have none.
Busy ==
    /\ \A w \in Threads : thread[w].step # "off" => thread[w].account \in Accounts
    /\ \A c \in Clis : cli[c].step \in {"refresh", "op", "write", "account", "secret"}
                         => cli[c].account \in Accounts
    /\ \A w \in Threads : thread[w].step = "off" => thread[w] = IdleThread

Typed == Data /\ ThreadsTyped /\ ClisTyped /\ LockTyped /\ Busy

LEMMA TypedIsTypeOK == Typed => TypeOK
BY DEF Typed, TypeOK, Data, ThreadsTyped, ClisTyped, LockTyped

LEMMA IdleTyped == IdleThread \in ThreadState /\ IdleCli \in CliState
BY DEF IdleThread, IdleCli, ThreadState, CliState, ThreadSteps, CliSteps, Secret, NoToken

LEMMA TokenTyped == ASSUME Typed, issued < MaxToken PROVE issued + 1 \in Secret
BY CredentialsAssumption DEF CredentialsAssumption, Typed, Data, Secret, Tokens

LEMMA RefreshTyped ==
    ASSUME Typed, NEW t, Refresh(t)
    PROVE  issued + 1 \in Secret /\ live' \subseteq 1 .. issued' /\ issued' \in 0 .. MaxToken
BY TokenTyped, CredentialsAssumption DEF CredentialsAssumption, Typed, Data, Refresh

\* A thread that does not hold the lock moves on.
LEMMA ThreadMoves ==
    ASSUME Typed, NEW w \in Threads, NEW r \in ThreadState, thread' = [thread EXCEPT ![w] = r],
           r.step # "off" => r.account \in Accounts, r.step = "off" => r = IdleThread,
           guiLock' = guiLock, guiLock = w => FALSE, cli' = cli
    PROVE  ThreadsTyped' /\ ClisTyped' /\ LockTyped' /\ Busy'
BY DEF Typed, ThreadsTyped, ClisTyped, LockTyped, Busy, ThreadAt, CliAt

LEMMA CliMoves ==
    ASSUME Typed, NEW c \in Clis, NEW r \in CliState, cli' = [cli EXCEPT ![c] = r],
           r.step \in {"refresh", "op", "write", "account", "secret"} => r.account \in Accounts,
           guiLock' = guiLock, guiLock = c => FALSE, thread' = thread
    PROVE  ThreadsTyped' /\ ClisTyped' /\ LockTyped' /\ Busy'
BY DEF Typed, ThreadsTyped, ClisTyped, LockTyped, Busy, ThreadAt, CliAt

\* Who is at another step does not hold the lock.
LEMMA NotHolder ==
    ASSUME Typed
    PROVE  /\ \A w \in Threads : thread[w].step # "secrets" => guiLock # w
           /\ \A c \in Clis : cli[c].step # "rereadSecrets" => guiLock # c
BY CredentialsAssumption DEF CredentialsAssumption, Typed, LockTyped, ThreadAt, CliAt

\* What the steps of a watcher have in common: it goes on with its account.
GoesOn(w) ==
    \E r \in ThreadState :
        /\ r.step # "off" /\ r.account = thread[w].account
        /\ thread' = [thread EXCEPT ![w] = r]

LEMMA GoesOnTyped ==
    ASSUME Typed, NEW w \in Threads, GoesOn(w), thread[w].step \notin {"off", "secrets"},
           guiLock' = guiLock, cli' = cli
    PROVE  ThreadsTyped' /\ ClisTyped' /\ LockTyped' /\ Busy'
<1>1. PICK r \in ThreadState :
        /\ r.step # "off" /\ r.account = thread[w].account
        /\ thread' = [thread EXCEPT ![w] = r]
  BY DEF GoesOn
<1>2. r.account \in Accounts  BY <1>1 DEF Typed, Busy
<1>3. guiLock # w  BY NotHolder
<1> QED BY <1>1, <1>2, <1>3, ThreadMoves

\* Every step of a watcher but the last.
LEMMA WatchingGoesOn ==
    ASSUME Typed, NEW w \in Threads, Watching(w), ~Leave(w)
    PROVE  GoesOn(w) /\ thread[w].step # "off" /\ running' = running
<1> USE DEF SetThread, ThreadGoto, ThreadAt, ThreadState, ThreadSteps, memory
<1>1. thread[w] \in ThreadState  BY DEF Typed, ThreadsTyped
<1>2. NoToken \in Secret  BY DEF Secret
<1>3. CASE CredsGone(w)
  <2>1. [thread[w] EXCEPT !.step = "leaving"] \in ThreadState  BY <1>1
  <2> QED BY <1>1, <1>3, <2>1 DEF CredsGone, GoesOn
<1>4. CASE CredsDue(w)
  <2> DEFINE r == [thread[w] EXCEPT !.step = "refresh", !.token = gui.secrets[thread[w].account]]
  <2>1. gui.secrets[thread[w].account] \in Secret  BY <1>4 DEF Typed, Busy, Data, CredsDue
  <2>2. r \in ThreadState /\ r.step = "refresh" /\ r.account = thread[w].account  BY <1>1, <2>1
  <2> QED BY <1>4, <2>2 DEF CredsDue, GoesOn
<1>5. CASE CredsReady(w)
  <2>1. [thread[w] EXCEPT !.step = "session", !.again = FALSE] \in ThreadState  BY <1>1
  <2> QED BY <1>1, <1>5, <2>1 DEF CredsReady, GoesOn
<1>6. CASE WatchRefresh(w)
  <2> DEFINE r == [thread[w] EXCEPT !.step = "write", !.token = issued + 1]
  <2>1. r \in ThreadState /\ r.step = "write" /\ r.account = thread[w].account
    BY <1>1, <1>6, RefreshTyped DEF WatchRefresh
  <2> QED BY <1>6, <2>1 DEF WatchRefresh, GoesOn
<1>7. ASSUME Failed(w) PROVE GoesOn(w)
  <2> DEFINE r == [thread[w] EXCEPT !.step = IF thread[w].again THEN "creds" ELSE "accounts",
                                    !.token = NoToken, !.again = FALSE]
  <2>1. r \in ThreadState /\ r.step # "off" /\ r.account = thread[w].account  BY <1>1, <1>2
  <2> QED BY <1>7, <2>1 DEF Failed, GoesOn
<1>8. CASE WatchRefused(w)
  BY <1>7, <1>8 DEF WatchRefused
<1>9. CASE WatchFallsBack(w)
  <2> DEFINE r == [thread[w] EXCEPT !.step = "session", !.token = NoToken, !.again = FALSE]
  <2>1. r \in ThreadState /\ r.step = "session" /\ r.account = thread[w].account  BY <1>1, <1>2
  <2> QED BY <1>9, <2>1 DEF WatchFallsBack, GoesOn
<1>10. CASE WatchWrite(w)
  <2> DEFINE r == [thread[w] EXCEPT !.step = "session", !.token = NoToken,
                                    !.forced = FALSE, !.again = FALSE]
             s == [thread[w] EXCEPT !.step = "leaving"]
  <2>1. r \in ThreadState /\ r.step = "session" /\ r.account = thread[w].account  BY <1>1, <1>2
  <2>2. s \in ThreadState /\ s.step = "leaving" /\ s.account = thread[w].account  BY <1>1
  <2>3. Failed(w) \/ thread' = [thread EXCEPT ![w] = r] \/ thread' = [thread EXCEPT ![w] = s]
    BY <1>10 DEF WatchWrite
  <2>4. GoesOn(w)  BY <1>7, <2>1, <2>2, <2>3 DEF GoesOn
  <2> QED BY <1>10, <2>4 DEF WatchWrite
<1>11. CASE WatchRereads(w)
  <2>1. [thread[w] EXCEPT !.step = "secrets"] \in ThreadState  BY <1>1
  <2> QED BY <1>1, <1>11, <2>1 DEF WatchRereads, GoesOn
<1>12. CASE WatchRereadsSecrets(w)
  <2>1. [thread[w] EXCEPT !.step = "creds", !.again = TRUE] \in ThreadState  BY <1>1
  <2> QED BY <1>1, <1>12, <2>1 DEF WatchRereadsSecrets, GoesOn
<1>13. CASE WatchRereadFails(w)
  <2>1. [thread[w] EXCEPT !.step = "creds"] \in ThreadState  BY <1>1
  <2> QED BY <1>1, <1>13, <2>1 DEF WatchRereadFails, GoesOn
<1>14. CASE SessionEnds(w)
  <2>1. PICK rejected \in BOOLEAN :
          thread' = [thread EXCEPT ![w] = [thread[w] EXCEPT !.step = "creds", !.forced = rejected]]
    BY <1>14 DEF SessionEnds
  <2> DEFINE r == [thread[w] EXCEPT !.step = "creds", !.forced = rejected]
  <2>2. r \in ThreadState /\ r.step = "creds" /\ r.account = thread[w].account  BY <1>1
  <2>3. GoesOn(w)  BY <2>1, <2>2 DEF GoesOn
  <2> QED BY <1>14, <2>3 DEF SessionEnds
<1> QED BY <1>3, <1>4, <1>5, <1>6, <1>8, <1>9, <1>10, <1>11, <1>12, <1>13, <1>14 DEF Watching

\* Nobody can read the state again while another one does.
LEMMA GoesOnUnlocked ==
    ASSUME Typed, NEW w \in Threads, GoesOn(w), thread[w].step # "off", cli' = cli,
           \/ guiLock' = Nobody
           \/ guiLock' = w /\ thread'[w].step = "secrets"
    PROVE  ThreadsTyped' /\ ClisTyped' /\ LockTyped' /\ Busy'
<1>1. PICK r \in ThreadState :
        /\ r.step # "off" /\ r.account = thread[w].account
        /\ thread' = [thread EXCEPT ![w] = r]
  BY DEF GoesOn
<1>2. r.account \in Accounts  BY <1>1 DEF Typed, Busy
<1>3. ThreadsTyped' /\ ClisTyped'  BY <1>1 DEF Typed, ThreadsTyped, ClisTyped
<1>4. LockTyped'  BY DEF LockTyped, ThreadAt
<1>5. Busy'  BY <1>1, <1>2 DEF Typed, Busy, ThreadsTyped
<1> QED BY <1>3, <1>4, <1>5

\* The steps of a watcher, and the data they write.
LEMMA WatchingData ==
    ASSUME Typed, NEW w \in Threads, Watching(w), ~Leave(w)
    PROVE  Data'
<1> USE DEF disk, memory, provider
<1>1. Data /\ thread[w].account \in Accounts
  BY WatchingGoesOn DEF Typed, Busy
<1>2. thread[w].token \in Secret  BY DEF Typed, ThreadsTyped, ThreadState
<1>3. CASE CredsGone(w) \/ CredsDue(w) \/ CredsReady(w) \/ SessionEnds(w) \/ WatchRereadFails(w)
  BY <1>1, <1>3 DEF CredsGone, CredsDue, CredsReady, SessionEnds, WatchRereadFails, Data
<1>4. CASE WatchRefresh(w)
  BY <1>1, <1>4, RefreshTyped DEF WatchRefresh, Data
<1>5. CASE WatchRefused(w) \/ WatchFallsBack(w)
  BY <1>1, <1>5 DEF WatchRefused, WatchFallsBack, Refused, Data
<1>6. CASE WatchWrite(w)
  <2>1. lost' \subseteq Accounts  BY <1>1, <1>6 DEF WatchWrite, Dropped, Data
  <2>2. /\ secrets' \in [Accounts -> Secret]
        /\ gui' \in [accounts : SUBSET Accounts, secrets : [Accounts -> Secret]]
    BY <1>1, <1>2, <1>6 DEF WatchWrite, Data
  <2> QED BY <1>1, <1>6, <2>1, <2>2 DEF WatchWrite, Data
<1>7. CASE WatchRereads(w) \/ WatchRereadsSecrets(w)
  BY <1>1, <1>7 DEF WatchRereads, WatchRereadsSecrets, Data
<1> QED BY <1>3, <1>4, <1>5, <1>6, <1>7 DEF Watching

LEMMA LeaveTyped ==
    ASSUME Typed, NEW w \in Threads, Leave(w)
    PROVE  Typed'
<1>1. guiLock # w  BY NotHolder DEF Leave, ThreadAt
<1>2. IdleThread.step = "off"  BY DEF IdleThread
<1>3. ThreadsTyped' /\ ClisTyped' /\ LockTyped' /\ Busy'
  BY <1>1, <1>2, IdleTyped, ThreadMoves DEF Leave, SetThread
<1>4. Data'  BY DEF Typed, Data, Leave, disk, provider
<1> QED BY <1>3, <1>4 DEF Typed

LEMMA WatchingTyped ==
    ASSUME Typed, NEW w \in Threads, Watching(w)
    PROVE  Typed'
<1>1. CASE Leave(w)
  BY <1>1, LeaveTyped
<1>2. ASSUME ~Leave(w) PROVE Typed'
  <2>1. GoesOn(w) /\ thread[w].step # "off" /\ Data'  BY <1>2, WatchingGoesOn, WatchingData
  <2>2. cli' = cli
    BY <1>2 DEF Watching, CredsGone, CredsDue, CredsReady, WatchRefresh, WatchRefused,
       WatchFallsBack, WatchWrite, WatchRereads, WatchRereadsSecrets, WatchRereadFails, SessionEnds
  <2>3. CASE WatchRereads(w)
    <3>1. thread'[w].step = "secrets"
      BY <2>3 DEF WatchRereads, ThreadGoto, SetThread, Typed, ThreadsTyped, ThreadState
    <3> QED BY <2>1, <2>2, <2>3, <3>1, GoesOnUnlocked DEF WatchRereads, Typed
  <2>4. CASE WatchRereadsSecrets(w) \/ WatchRereadFails(w)
    <3>1. guiLock' = Nobody  BY <2>4 DEF WatchRereadsSecrets, WatchRereadFails
    <3> QED BY <2>1, <2>2, <3>1, GoesOnUnlocked DEF Typed
  <2>5. ASSUME ~WatchRereads(w), ~WatchRereadsSecrets(w), ~WatchRereadFails(w)
        PROVE  thread[w].step # "secrets" /\ guiLock' = guiLock
    BY <1>2, <2>5 DEF Watching, CredsGone, CredsDue, CredsReady, WatchRefresh, WatchRefused,
       WatchFallsBack, WatchWrite, SessionEnds, ThreadAt, memory
  <2> QED BY <2>1, <2>2, <2>3, <2>4, <2>5, GoesOnTyped DEF Typed
<1> QED BY <1>1, <1>2

\* What the steps of a CLI process and of its window do to it: it ends, or goes on
\* with an account.
CliSteady(c) ==
    \E r \in CliState :
        /\ r.step \in {"refresh", "op", "write", "account", "secret"} => r.account \in Accounts
        /\ cli' = [cli EXCEPT ![c] = r]

LEMMA CliEndSteady ==
    ASSUME NEW c, CliEnd(c) PROVE CliSteady(c)
<1>1. IdleCli.step = "off"  BY DEF IdleCli
<1> QED BY <1>1, IdleTyped DEF CliEnd, SetCli, CliSteady

\* A process with an account goes on to any step.
LEMMA CliGotoSteady ==
    ASSUME Typed, NEW c \in Clis, NEW step \in CliSteps, CliGoto(c, step),
           cli[c].account \in Accounts \/ step \in {"reread", "rereadSecrets", "ensure", "done"}
    PROVE  CliSteady(c)
<1> DEFINE r == [cli[c] EXCEPT !.step = step]
<1>1. cli[c] \in CliState  BY DEF Typed, ClisTyped
<1>2. r \in CliState /\ r.step = step /\ r.account = cli[c].account  BY <1>1 DEF CliState
<1> QED BY <1>2 DEF CliGoto, SetCli, CliSteady

LEMMA StartTyped ==
    ASSUME Typed, NEW c \in Clis, NEW a \in Accounts, Start(c, a)
    PROVE  Typed'
<1> USE DEF disk, memory, provider
<1>1. guiLock # c  BY NotHolder DEF Start, StartAdd, StartRemove, StartUse, Idle, IdleCli
<1>2. CASE StartAdd(c, a)
  <2> DEFINE r == [IdleCli EXCEPT !.step = "account", !.cmd = "add", !.account = a,
                                  !.token = issued + 1]
  <2>1. issued + 1 \in Secret  BY <1>2, TokenTyped DEF StartAdd
  <2>2. r \in CliState /\ r.account = a
    BY <2>1 DEF IdleCli, CliState, CliSteps
  <2>3. Data'
    BY <1>2, <2>1, CredentialsAssumption
    DEF StartAdd, Typed, Data, Secret, Tokens, CredentialsAssumption
  <2>4. cli' = [cli EXCEPT ![c] = r]  BY <1>2 DEF StartAdd, SetCli
  <2> QED BY <1>1, <1>2, <2>2, <2>3, <2>4, CliMoves DEF StartAdd, Typed
<1>3. CASE StartRemove(c, a)
  <2> DEFINE r == [IdleCli EXCEPT !.step = "account", !.cmd = "remove", !.account = a]
  <2>1. r \in CliState /\ r.account = a
    BY DEF IdleCli, CliState, CliSteps, Secret, NoToken
  <2>2. cli' = [cli EXCEPT ![c] = r]  BY <1>3 DEF StartRemove, SetCli
  <2>3. Data'  BY <1>3 DEF StartRemove, Typed, Data
  <2> QED BY <1>1, <1>3, <2>1, <2>2, <2>3, CliMoves DEF StartRemove, Typed
<1>4. CASE StartUse(c, a)
  <2>1. PICK step \in {"refresh", "op"} :
          cli' = [cli EXCEPT ![c] = [IdleCli EXCEPT !.step = step, !.cmd = "use",
                                                    !.account = a, !.token = secrets[a]]]
    BY <1>4 DEF StartUse, SetCli
  <2> DEFINE r == [IdleCli EXCEPT !.step = step, !.cmd = "use", !.account = a,
                                  !.token = secrets[a]]
  <2>2. secrets[a] \in Secret  BY DEF Typed, Data
  <2>3. r \in CliState /\ r.account = a
    BY <2>2 DEF IdleCli, CliState, CliSteps
  <2>4. Data'  BY <1>4 DEF StartUse, Typed, Data
  <2> QED BY <1>1, <1>4, <2>1, <2>3, <2>4, CliMoves DEF StartUse, Typed
<1> QED BY <1>2, <1>3, <1>4 DEF Start

LEMMA CliStepTyped ==
    ASSUME Typed, NEW c \in Clis, CliStep(c)
    PROVE  Typed'
<1> USE DEF disk, memory, provider
<1>0. cli[c] \in CliState /\ cli[c].token \in Secret  BY DEF Typed, ClisTyped, CliState
<1>1. guiLock # c /\ guiLock' = guiLock /\ thread' = thread
  BY NotHolder DEF CliStep, SaveAccount, SaveSecret, UseRejected, CliRefresh, CliRefused, CliFallsBack,
     CliWrite, CliEnds, CliFails, Terminal, CliAt
<1>2. cli[c].step # "done" => cli[c].account \in Accounts
  BY DEF CliStep, SaveAccount, SaveSecret, UseRejected, CliRefresh, CliRefused, CliFallsBack,
     CliWrite, CliEnds, CliFails, Terminal, CliAt, Typed, Busy
<1>3. {"secret", "done", "refresh", "op", "write"} \subseteq CliSteps  BY DEF CliSteps
<1>4. ASSUME CliSteady(c), Data' PROVE Typed'
  BY <1>1, <1>4, CliMoves DEF CliSteady, Typed
<1>5. CASE SaveAccount(c)
  <2>1. CliSteady(c)  BY <1>2, <1>3, <1>5, CliGotoSteady DEF SaveAccount, CliAt
  <2>2. Data'  BY <1>2, <1>5 DEF SaveAccount, CliAt, Typed, Data
  <2> QED BY <1>4, <2>1, <2>2
<1>6. CASE SaveSecret(c)
  <2>1. CliSteady(c)  BY <1>2, <1>3, <1>6, CliGotoSteady DEF SaveSecret, CliAt
  <2>2. Data'  BY <1>0, <1>2, <1>6 DEF SaveSecret, CliAt, Typed, Data
  <2> QED BY <1>4, <2>1, <2>2
<1>7. CASE UseRejected(c)
  <2> DEFINE r == [cli[c] EXCEPT !.step = "refresh", !.cmd = "retry"]
  <2>1. r \in CliState /\ r.account = cli[c].account  BY <1>0 DEF CliState, CliSteps
  <2>2. CliSteady(c)  BY <1>2, <1>7, <2>1 DEF UseRejected, CliAt, SetCli, CliSteady
  <2>3. Data'  BY <1>7 DEF UseRejected, Typed, Data
  <2> QED BY <1>4, <2>2, <2>3
<1>8. CASE CliRefresh(c)
  <2> DEFINE r == [cli[c] EXCEPT !.step = "write", !.token = issued + 1]
  <2>1. issued + 1 \in Secret /\ live' \subseteq 1 .. issued' /\ issued' \in 0 .. MaxToken
    BY <1>8, RefreshTyped DEF CliRefresh
  <2>2. r \in CliState /\ r.account = cli[c].account
    BY <1>0, <2>1 DEF CliState, CliSteps
  <2>3. CliSteady(c)  BY <1>2, <1>8, <2>2 DEF CliRefresh, CliAt, SetCli, CliSteady
  <2>4. Data'  BY <1>8, <2>1 DEF CliRefresh, Typed, Data
  <2> QED BY <1>4, <2>3, <2>4
<1>9. CASE CliRefused(c) \/ CliEnds(c) \/ Terminal(c)
  <2>1. CliSteady(c)  BY <1>9, CliEndSteady DEF CliRefused, CliEnds, Terminal
  <2>2. Data'  BY <1>9 DEF CliRefused, Refused, CliEnds, Terminal, Typed, Data
  <2> QED BY <1>4, <2>1, <2>2
<1>10. CASE CliWrite(c)
  <2>1. CliSteady(c)  BY <1>2, <1>3, <1>10, CliGotoSteady DEF CliWrite, CliAt
  <2>2. Data'  BY <1>0, <1>2, <1>10 DEF CliWrite, CliAt, Typed, Data
  <2> QED BY <1>4, <2>1, <2>2
<1>11. CASE CliFails(c)
  <2>1. CliSteady(c)  BY <1>11, CliEndSteady DEF CliFails
  <2>2. Data'  BY <1>2, <1>11 DEF CliFails, Dropped, Typed, Data
  <2> QED BY <1>4, <2>1, <2>2
<1>12. CASE CliFallsBack(c)
  <2>1. CliSteady(c)  BY <1>2, <1>3, <1>12, CliGotoSteady DEF CliFallsBack, CliAt
  <2>2. Data'  BY <1>12 DEF CliFallsBack, Refused, Typed, Data
  <2> QED BY <1>4, <2>1, <2>2
<1> QED BY <1>5, <1>6, <1>7, <1>8, <1>9, <1>10, <1>11, <1>12 DEF CliStep

\* The window takes the lock or gives it back.
LEMMA CliUnlocked ==
    ASSUME Typed, NEW c \in Clis, CliSteady(c), thread' = thread,
           \/ guiLock' = Nobody
           \/ guiLock' = c /\ cli'[c].step = "rereadSecrets"
    PROVE  ThreadsTyped' /\ ClisTyped' /\ LockTyped' /\ Busy'
<1>1. ThreadsTyped' /\ ClisTyped'  BY DEF CliSteady, Typed, ThreadsTyped, ClisTyped
<1>2. LockTyped'  BY DEF LockTyped, CliAt
<1>3. Busy'  BY DEF CliSteady, Typed, Busy, ClisTyped
<1> QED BY <1>1, <1>2, <1>3

LEMMA RereadTyped ==
    ASSUME Typed, NEW c \in Clis, Reread(c) \/ RereadSecrets(c)
    PROVE  Typed'
<1> USE DEF disk, memory, provider
<1>1. {"reread", "rereadSecrets"} \subseteq CliSteps  BY DEF CliSteps
<1>2. Data'  BY DEF Reread, RereadSecrets, Typed, Data
<1>3. CliSteady(c)
  BY <1>1, CliEndSteady, CliGotoSteady DEF Reread, RereadSecrets
<1>4. CASE RereadSecrets(c)
  BY <1>2, <1>3, <1>4, CliUnlocked DEF RereadSecrets, Typed
<1>5. CASE Reread(c)
  <2>1. guiLock' = c => cli'[c].step = "rereadSecrets"
    BY <1>5, CredentialsAssumption
    DEF Reread, CliGoto, SetCli, Typed, ClisTyped, CliState, CredentialsAssumption
  <2>2. guiLock' = c \/ guiLock' = Nobody  BY <1>5 DEF Reread
  <2> QED BY <1>2, <1>3, <1>5, <2>1, <2>2, CliUnlocked DEF Reread, Typed
<1> QED BY <1>4, <1>5

LEMMA EnsureTyped ==
    ASSUME Typed, NEW c \in Clis, EnsureWatchers(c) \/ Ensured(c)
    PROVE  Typed'
<1> USE DEF disk, memory, provider
<1>1. guiLock # c /\ guiLock' = guiLock /\ thread' = thread
  BY NotHolder DEF EnsureWatchers, Ensured, CliAt
<1>2. Data'  BY DEF EnsureWatchers, Ensured, Typed, Data
<1>3. CliSteady(c)
  <2>1. CASE Ensured(c)  BY <2>1, CliEndSteady DEF Ensured
  <2>2. CASE EnsureWatchers(c)
    <3> DEFINE r == [cli[c] EXCEPT !.step = "ensure", !.todo = gui.accounts]
    <3>1. cli[c] \in CliState /\ gui.accounts \in SUBSET Accounts
      BY DEF Typed, ClisTyped, Data
    <3>2. r \in CliState /\ r.step = "ensure"  BY <3>1 DEF CliState, CliSteps
    <3> QED BY <2>2, <3>2 DEF EnsureWatchers, SetCli, CliSteady
  <2> QED BY <2>1, <2>2
<1> QED BY <1>1, <1>2, <1>3, CliMoves DEF CliSteady, Typed

\* The thread that begins to watch was free.
LEMMA WatchTyped ==
    ASSUME Typed, NEW a \in Accounts, Watch(a)
    PROVE  \E w \in Threads, r \in ThreadState :
             /\ thread[w].step = "off" /\ r.step = "creds" /\ r.account = a
             /\ thread' = [thread EXCEPT ![w] = r]
<1>1. PICK w \in Threads :
        Free(w) /\ thread' = [thread EXCEPT ![w] = [IdleThread EXCEPT !.step = "creds", !.account = a]]
  BY DEF Watch, SetThread
<1> DEFINE r == [IdleThread EXCEPT !.step = "creds", !.account = a]
<1>2. r \in ThreadState /\ r.step = "creds" /\ r.account = a
  BY DEF IdleThread, ThreadState, ThreadSteps, Secret, NoToken
<1>3. thread[w].step = "off"  BY <1>1 DEF Free, IdleThread
<1> QED BY <1>1, <1>2, <1>3

LEMMA EnsureOneTyped ==
    ASSUME Typed, NEW c \in Clis, NEW a \in Accounts, EnsureOne(c, a)
    PROVE  Typed'
<1> USE DEF disk, provider
<1>1. guiLock # c /\ guiLock' = guiLock  BY NotHolder DEF EnsureOne, CliAt
<1>2. Data'  BY DEF EnsureOne, Typed, Data
<1> DEFINE r == [cli[c] EXCEPT !.todo = @ \ {a}]
<1>3. r \in CliState /\ r.step = "ensure" /\ cli' = [cli EXCEPT ![c] = r]
  BY DEF EnsureOne, CliAt, SetCli, Typed, ClisTyped, CliState
<1>4. ThreadsTyped' /\ Busy' /\ \A w \in Threads : thread[w].step = "secrets" => thread'[w] = thread[w]
  <2>1. CASE a \in running
    BY <1>3, <2>1 DEF EnsureOne, Typed, ThreadsTyped, ClisTyped, Busy
  <2>2. CASE Watch(a)
    <3>1. PICK w \in Threads, s \in ThreadState :
             /\ thread[w].step = "off" /\ s.step = "creds" /\ s.account = a
             /\ thread' = [thread EXCEPT ![w] = s]
      BY <2>2, WatchTyped
    <3> QED BY <1>3, <3>1 DEF Typed, ThreadsTyped, ClisTyped, Busy
  <2> QED BY <2>1, <2>2 DEF EnsureOne
<1>5. ClisTyped' /\ LockTyped'
  BY <1>1, <1>3, <1>4 DEF Typed, ClisTyped, LockTyped, ThreadAt, CliAt
<1> QED BY <1>2, <1>4, <1>5 DEF Typed

LEMMA NextTyped == Typed /\ [Next]_vars => Typed'
<1> SUFFICES ASSUME Typed, [Next]_vars PROVE Typed'
  OBVIOUS
<1>1. CASE UNCHANGED vars
  BY <1>1 DEF vars, Typed, Data, ThreadsTyped, ClisTyped, LockTyped, Busy, ThreadAt, CliAt
<1>2. ASSUME NEW c \in Clis, CliStep(c) \/ WindowStep(c) \/ \E a \in Accounts : Start(c, a)
      PROVE  Typed'
  BY <1>2, CliStepTyped, StartTyped, RereadTyped, EnsureTyped, EnsureOneTyped DEF WindowStep
<1>3. ASSUME NEW w \in Threads, Watching(w) PROVE Typed'
  BY <1>3, WatchingTyped
<1> QED BY <1>1, <1>2, <1>3 DEF Next

\* Every account of the installation has a token.
LEMMA InitTyped == Init => Typed
<1> SUFFICES ASSUME Init PROVE Typed
  OBVIOUS
<1>0. issued \in 0 .. MaxToken
  <2>1. accounts \in SUBSET Accounts /\ issued = Cardinality(accounts)  BY DEF Init
  <2>2. Cardinality(accounts) \in Nat /\ Cardinality(accounts) <= Cardinality(Accounts)
    BY <2>1, CredentialsAssumption, FS_Subset, FS_CardinalityType DEF CredentialsAssumption
  <2>3. Cardinality(Accounts) \in Nat
    BY CredentialsAssumption, FS_CardinalityType DEF CredentialsAssumption
  <2> QED BY <2>1, <2>2, <2>3, CredentialsAssumption DEF CredentialsAssumption
<1>1. Data
  BY <1>0, CredentialsAssumption DEF CredentialsAssumption, Init, Data, Secret, Tokens, NoToken
<1>2. ThreadsTyped  BY IdleTyped DEF Init, ThreadsTyped
<1>3. PICK c \in Clis :
        cli = [d \in Clis |-> IF d = c THEN [IdleCli EXCEPT !.step = "reread"] ELSE IdleCli]
  BY DEF Init
<1>4. [IdleCli EXCEPT !.step = "reread"] \in CliState /\ IdleCli \in CliState
  BY IdleTyped DEF IdleCli, CliState, CliSteps
<1>5. ClisTyped  BY <1>3, <1>4 DEF ClisTyped
<1>6. LockTyped  BY DEF Init, LockTyped
<1>7. [IdleCli EXCEPT !.step = "reread"].step = "reread" /\ IdleCli.step = "off"
      /\ IdleThread.step = "off"
  BY DEF IdleCli, IdleThread
<1>8. Busy  BY <1>3, <1>7 DEF Init, Busy
<1> QED BY <1>1, <1>2, <1>5, <1>6, <1>8 DEF Typed

\* The variables keep their types, and the state of the application is locked only
\* by a thread or a window that is reading the files again.
THEOREM TypeCorrect == Spec => []TypeOK
<1>1. Init => Typed  BY InitTyped
<1>2. Typed /\ [Next]_vars => Typed'  BY NextTyped
<1>3. Typed => TypeOK  BY TypedIsTypeOK
<1> QED BY <1>1, <1>2, <1>3, PTL DEF Spec

(***************************************************************************)
(* One watcher for each account.  RUNNING is what the threads have claimed *)
(* and not yet given back, so that an account that is not in it has none.  *)
(***************************************************************************)
Watched == Typed /\ OneWatcher

LEMMA SameWatchers ==
    ASSUME OneWatcher, thread' = thread, running' = running
    PROVE  OneWatcher'
BY DEF OneWatcher, Free

LEMMA GoesOnOneWatcher ==
    ASSUME Watched, NEW w \in Threads, GoesOn(w), thread[w].step # "off", running' = running
    PROVE  OneWatcher'
<1>1. PICK r \in ThreadState :
        /\ r.step # "off" /\ r.account = thread[w].account
        /\ thread' = [thread EXCEPT ![w] = r]
  BY DEF GoesOn
<1>2. \A v \in Threads : thread'[v].account = thread[v].account
  BY <1>1 DEF Watched, Typed, ThreadsTyped
<1>3. \A v \in Threads : Free(v)' <=> Free(v)
  <2>1. IdleThread.step = "off"  BY DEF IdleThread
  <2> QED BY <1>1, <2>1 DEF Free, Watched, Typed, ThreadsTyped
<1>4. {v \in Threads : ~Free(v)'} = {v \in Threads : ~Free(v)}  BY <1>3
<1> QED BY <1>2, <1>3, <1>4 DEF OneWatcher, Watched

LEMMA LeaveOneWatcher ==
    ASSUME Watched, NEW w \in Threads, Leave(w)
    PROVE  OneWatcher'
<1>1. /\ thread' = [thread EXCEPT ![w] = IdleThread]
      /\ running' = running \ {thread[w].account} /\ thread[w].step # "off"
  BY DEF Leave, SetThread, ThreadAt
<1>2. ~Free(w) /\ IdleThread.account = NoAccount  BY <1>1 DEF Free, IdleThread
<1>3. \A v \in Threads : thread'[v] = IF v = w THEN IdleThread ELSE thread[v]
  BY <1>1 DEF Watched, Typed, ThreadsTyped
<1>4. \A v \in Threads : ~Free(v)' <=> (~Free(v) /\ v # w)  BY <1>3 DEF Free
<1>5. \A v \in Threads : ~Free(v) => thread[v].account \in Accounts
  BY DEF Free, Watched, Typed, Busy
<1>6. \A v, u \in Threads :
        (thread'[v].account = thread'[u].account /\ ~Free(v)') => v = u
  BY <1>2, <1>3, <1>4, <1>5, CredentialsAssumption
  DEF Watched, OneWatcher, CredentialsAssumption
<1>7. running' = {thread'[v].account : v \in {u \in Threads : ~Free(u)'}}
  BY <1>1, <1>2, <1>3, <1>4 DEF Watched, OneWatcher
<1> QED BY <1>6, <1>7 DEF OneWatcher

LEMMA EnsureOneWatcher ==
    ASSUME Watched, NEW c \in Clis, NEW a \in Accounts, EnsureOne(c, a)
    PROVE  OneWatcher'
<1>1. CASE a \in running
  BY <1>1, SameWatchers DEF EnsureOne, Watched
<1>2. CASE a \notin running
  <2>1. PICK w \in Threads, r \in ThreadState :
          /\ thread[w].step = "off" /\ r.step = "creds" /\ r.account = a
          /\ thread' = [thread EXCEPT ![w] = r]
    BY <1>2, WatchTyped DEF EnsureOne, Watched
  <2>2. running' = running \cup {a}  BY DEF EnsureOne
  <2>3. \A v \in Threads : thread'[v] = IF v = w THEN r ELSE thread[v]
    BY <2>1 DEF Watched, Typed, ThreadsTyped
  <2>4. Free(w) /\ r # IdleThread  BY <2>1 DEF Free, Watched, Typed, Busy, IdleThread
  <2>5. \A v \in Threads : ~Free(v)' <=> (~Free(v) \/ v = w)  BY <2>3, <2>4 DEF Free
  <2>6. \A v \in Threads : Free(v) => thread[v].account = NoAccount  BY DEF Free, IdleThread
  <2>7. \A v \in Threads : thread[v].account # a
    BY <1>2, <2>6, CredentialsAssumption DEF Watched, OneWatcher, CredentialsAssumption
  <2>8. \A v, u \in Threads :
          (thread'[v].account = thread'[u].account /\ ~Free(v)') => v = u
    BY <2>1, <2>3, <2>5, <2>7 DEF Watched, OneWatcher
  <2>9. running' = {thread'[v].account : v \in {u \in Threads : ~Free(u)'}}
    BY <2>1, <2>2, <2>3, <2>4, <2>5 DEF Watched, OneWatcher
  <2> QED BY <2>8, <2>9 DEF OneWatcher
<1> QED BY <1>1, <1>2

LEMMA NextWatched == Watched /\ [Next]_vars => Watched'
<1> SUFFICES ASSUME Watched, [Next]_vars PROVE OneWatcher'
  BY NextTyped DEF Watched
<1> USE DEF memory
<1>1. CASE UNCHANGED vars
  BY <1>1, SameWatchers DEF vars, Watched
<1>2. ASSUME NEW c \in Clis, CliStep(c) PROVE OneWatcher'
  BY <1>2, SameWatchers DEF Watched, CliStep, SaveAccount, SaveSecret, UseRejected, CliRefresh,
     CliRefused, CliFallsBack, CliWrite, CliEnds, CliFails, Terminal
<1>3. ASSUME NEW c \in Clis, NEW a \in Accounts, Start(c, a) PROVE OneWatcher'
  BY <1>3, SameWatchers DEF Watched, Start, StartAdd, StartRemove, StartUse
<1>4. ASSUME NEW c \in Clis, WindowStep(c) PROVE OneWatcher'
  BY <1>4, SameWatchers, EnsureOneWatcher
  DEF Watched, WindowStep, Reread, RereadSecrets, EnsureWatchers, Ensured
<1>5. ASSUME NEW w \in Threads, Watching(w) PROVE OneWatcher'
  BY <1>5, LeaveOneWatcher, WatchingGoesOn, GoesOnOneWatcher DEF Watched
<1> QED BY <1>1, <1>2, <1>3, <1>4, <1>5 DEF Next

LEMMA InitWatched == Init => Watched
<1> SUFFICES ASSUME Init PROVE OneWatcher
  BY InitTyped DEF Watched
<1>1. \A w \in Threads : Free(w)  BY DEF Init, Free
<1>2. running = {}  BY DEF Init
<1> QED BY <1>1, <1>2 DEF OneWatcher

\* An account never has two watchers, however often accounts are added and removed
\* and however late a thread leaves.
THEOREM OneWatcherEver == Spec => []OneWatcher
<1>1. Watched => OneWatcher  BY DEF Watched
<1> QED BY <1>1, InitWatched, NextWatched, PTL DEF Spec

(***************************************************************************)
(* Tokens.  A token that a process or a thread has just got is in nobody   *)
(* else's hands until it is stored, and a token is only ever one account's.*)
(***************************************************************************)
Actors == Clis \cup Threads
State(x) == IF x \in Clis THEN cli[x] ELSE thread[x]
Account(x) == State(x).account
Token(x) == State(x).token
Writes(x) == State(x).step = "write"
Adds(c) == cli[c].step \in {"account", "secret"} /\ cli[c].cmd = "add"
Fresh(x) == Writes(x) \/ (x \in Clis /\ Adds(x))

\* The tokens of an account that somebody has.
TokensOf(a) ==
    {secrets[a], gui.secrets[a]} \cup {Token(x) : x \in {y \in Actors : Account(y) = a}}

Owned ==
    /\ \A a \in Accounts : TokensOf(a) \subseteq 0 .. issued
    /\ \A a, b \in Accounts : \A t \in TokensOf(a) \cap TokensOf(b) : a = b \/ t = NoToken

FreshOK ==
    \A x \in Actors : Fresh(x) =>
        /\ Account(x) \in Accounts /\ Token(x) \in live
        /\ Token(x) \notin {secrets[Account(x)], gui.secrets[Account(x)]}
        /\ \A y \in Actors : y # x /\ Account(y) = Account(x) => Token(y) # Token(x)

\* A process that removes an account has no token to store.
Removing(x) == x \in Clis /\ cli[x].step \in {"account", "secret"} /\ ~Adds(x)
Removes == \A x \in Actors : Removing(x) => Token(x) = NoToken

TokenInv == Owned /\ FreshOK /\ Removes /\ StoredTokenLive

Accounted == Typed /\ TokenInv

\* To the rest of the tokens an actor is as before.
SameActor(y) ==
    /\ Account(y)' = Account(y) /\ Token(y)' = Token(y)
    /\ Writes(y)' <=> Writes(y)
    /\ Fresh(y)' <=> Fresh(y)
    /\ Removing(y)' <=> Removing(y)

Others(x) == \A y \in Actors : y # x => SameActor(y)

\* A step that issues no token: what an actor has then it had before or takes from the
\* stored tokens, and what it stores nobody had.
Moves(x) ==
    /\ Others(x)
    /\ UNCHANGED <<live, issued>>
    /\ \/ Account(x)' = Account(x) /\ Token(x)' = Token(x)
       \/ Token(x)' = NoToken
       \/ Token(x)' \in {secrets[Account(x)'], gui.secrets[Account(x)']}
    /\ \A a \in Accounts : gui'.secrets[a] \in {gui.secrets[a], secrets[a], secrets'[a]}
    /\ \A a \in Accounts :
        \/ secrets'[a] = Token(x) /\ Account(x) = a /\ (Fresh(x) \/ Token(x) = NoToken)
        \/ /\ secrets'[a] = secrets[a]
           /\ a \in lost => a \in lost'
           /\ Writes(x) /\ Account(x) = a => a \in lost' \/ (Writes(x)' /\ Account(x)' = a)
    /\ Fresh(x)' => /\ Fresh(x) /\ Account(x)' = Account(x) /\ Token(x)' = Token(x)
                    /\ \A a \in Accounts : secrets'[a] = secrets[a] /\ gui'.secrets[a] = gui.secrets[a]
    /\ Removing(x)' => Token(x)' = NoToken

\* A step that issues one, for a token that is nobody's newest, or for none.
Issues(x) ==
    /\ Others(x)
    /\ issued' = issued + 1
    /\ live' = (live \ {Token(x)}) \cup {issued + 1}
    /\ Token(x)' = issued + 1 /\ Account(x)' \in Accounts
    /\ ~Fresh(x) /\ ~Removing(x)'
    /\ Token(x) = NoToken \/ (Account(x)' = Account(x) /\ Writes(x)')
    /\ UNCHANGED <<secrets, gui, lost>>

LEMMA InHandActor ==
    ASSUME NEW a
    PROVE  InHand(a) <=> \E x \in Actors : Writes(x) /\ Account(x) = a
<1>1. \A w \in Threads : w \notin Clis  BY CredentialsAssumption DEF CredentialsAssumption
<1> QED BY <1>1 DEF InHand, Actors, Writes, Account, State, CliAt, ThreadAt

LEMMA InHandActorNext ==
    ASSUME NEW a
    PROVE  InHand(a)' <=> \E x \in Actors : Writes(x)' /\ Account(x)' = a
<1>1. \A w \in Threads : w \notin Clis  BY CredentialsAssumption DEF CredentialsAssumption
<1> QED BY <1>1 DEF InHand, Actors, Writes, Account, State, CliAt, ThreadAt

LEMMA LiveRange ==
    ASSUME Accounted
    PROVE  issued \in Nat /\ live \subseteq 1 .. issued /\ NoToken \notin live
BY CredentialsAssumption DEF CredentialsAssumption, Accounted, Typed, Data, NoToken

\* What somebody has for an account.
LEMMA Had ==
    ASSUME NEW a \in Accounts
    PROVE  /\ secrets[a] \in TokensOf(a) /\ gui.secrets[a] \in TokensOf(a)
           /\ \A x \in Actors : Account(x) = a => Token(x) \in TokensOf(a)
BY DEF TokensOf

LEMMA MovesOwned ==
    ASSUME Accounted, NEW x \in Actors, Moves(x)
    PROVE  Owned'
<1>1. ASSUME NEW a \in Accounts PROVE TokensOf(a)' \subseteq TokensOf(a) \cup {NoToken}
  <2>1. secrets'[a] \in TokensOf(a) \cup {NoToken}  BY Had DEF Moves
  <2>2. gui'.secrets[a] \in TokensOf(a) \cup {NoToken}  BY <2>1, Had DEF Moves
  <2>3. ASSUME NEW y \in Actors, Account(y)' = a PROVE Token(y)' \in TokensOf(a) \cup {NoToken}
    <3>1. CASE y # x  BY <2>3, <3>1, Had DEF Moves, Others, SameActor
    <3>2. CASE y = x  BY <2>3, <3>2, Had DEF Moves
    <3> QED BY <3>1, <3>2
  <2> QED BY <2>1, <2>2, <2>3 DEF TokensOf
<1>2. issued' = issued /\ NoToken \in 0 .. issued
  BY LiveRange DEF Moves, NoToken
<1> QED BY <1>1, <1>2 DEF Accounted, TokenInv, Owned

LEMMA FreshUnique ==
    ASSUME Accounted, NEW y \in Actors, Fresh(y)
    PROVE  /\ Account(y) \in Accounts /\ Token(y) \in live /\ Token(y) # NoToken
           /\ Token(y) \notin {secrets[Account(y)], gui.secrets[Account(y)]}
           /\ \A x \in Actors : x # y /\ Account(x) = Account(y) => Token(x) # Token(y)
BY LiveRange DEF Accounted, TokenInv, FreshOK

LEMMA MovesFresh ==
    ASSUME Accounted, NEW x \in Actors, Moves(x)
    PROVE  FreshOK'
<1> SUFFICES ASSUME NEW y \in Actors, Fresh(y)'
             PROVE  /\ Account(y)' \in Accounts /\ Token(y)' \in live'
                    /\ Token(y)' \notin {secrets'[Account(y)'], gui'.secrets[Account(y)']}
                    /\ \A z \in Actors : z # y /\ Account(z)' = Account(y)'
                                           => Token(z)' # Token(y)'
  BY DEF FreshOK
<1>1. Fresh(y) /\ Account(y)' = Account(y) /\ Token(y)' = Token(y) /\ live' = live
  BY DEF Moves, Others, SameActor
<1>2. PICK a : a = Account(y)  OBVIOUS
<1>3. PICK t : t = Token(y)  OBVIOUS
<1>4. /\ a \in Accounts /\ t \in live /\ t # NoToken /\ t # secrets[a] /\ t # gui.secrets[a]
      /\ \A z \in Actors : z # y /\ Account(z) = a => Token(z) # t
  BY <1>1, <1>2, <1>3, FreshUnique
<1>5. secrets'[a] # t
  <2>1. CASE y = x  BY <1>4, <2>1 DEF Moves
  <2>2. CASE y # x  BY <1>4, <2>2 DEF Moves
  <2> QED BY <2>1, <2>2
<1>6. gui'.secrets[a] # t  BY <1>4, <1>5 DEF Moves
<1>7. ASSUME NEW z \in Actors, z # y, Account(z)' = a PROVE Token(z)' # t
  <2>1. CASE z # x  BY <1>4, <1>7, <2>1 DEF Moves, Others, SameActor
  <2>2. CASE z = x  BY <1>4, <1>7, <2>2 DEF Moves
  <2> QED BY <2>1, <2>2
<1> QED BY <1>1, <1>2, <1>3, <1>4, <1>5, <1>6, <1>7

LEMMA MovesLive ==
    ASSUME Accounted, NEW x \in Actors, Moves(x)
    PROVE  StoredTokenLive'
<1> SUFFICES ASSUME NEW a \in Accounts, secrets'[a] # NoToken, a \notin lost', ~InHand(a)'
             PROVE  secrets'[a] \in live
  BY DEF StoredTokenLive, Moves
<1>1. CASE secrets'[a] = Token(x) /\ (Fresh(x) \/ Token(x) = NoToken)
  BY <1>1, FreshUnique
<1>2. CASE /\ secrets'[a] = secrets[a] /\ (a \in lost => a \in lost')
           /\ Writes(x) /\ Account(x) = a => a \in lost' \/ (Writes(x)' /\ Account(x)' = a)
  <2>1. ASSUME NEW y \in Actors, Writes(y), Account(y) = a PROVE FALSE
    <3>1. ~(Writes(y)' /\ Account(y)' = a)  BY InHandActorNext
    <3>2. CASE y = x  BY <1>2, <2>1, <3>1, <3>2
    <3>3. CASE y # x  BY <2>1, <3>1, <3>3 DEF Moves, Others, SameActor
    <3> QED BY <3>2, <3>3
  <2>2. ~InHand(a)  BY <2>1, InHandActor
  <2> QED BY <1>2, <2>2 DEF Accounted, TokenInv, StoredTokenLive
<1> QED BY <1>1, <1>2 DEF Moves

LEMMA MovesTokens ==
    ASSUME Accounted, NEW x \in Actors, Moves(x)
    PROVE  TokenInv'
<1>1. Removes'  BY DEF Accounted, TokenInv, Removes, Moves, Others, SameActor
<1> QED BY <1>1, MovesOwned, MovesFresh, MovesLive DEF TokenInv

LEMMA IssuesTokens ==
    ASSUME Accounted, NEW x \in Actors, Issues(x)
    PROVE  TokenInv'
<1>1. PICK n : n = issued + 1  OBVIOUS
<1>2. /\ issued \in Nat /\ live \subseteq 1 .. issued /\ NoToken \notin live
  BY LiveRange
<1>3. \A a \in Accounts : TokensOf(a) \subseteq 0 .. issued  BY DEF Accounted, TokenInv, Owned
<1>4. \A a \in Accounts : n \notin TokensOf(a)  BY <1>1, <1>2, <1>3
<1>5. ASSUME NEW a \in Accounts
      PROVE  TokensOf(a)' \subseteq TokensOf(a) \cup {n} /\ (n \in TokensOf(a)' => a = Account(x)')
  <2>1. secrets'[a] \in TokensOf(a) /\ gui'.secrets[a] \in TokensOf(a)
    BY Had DEF Issues
  <2>2. ASSUME NEW y \in Actors, Account(y)' = a
        PROVE  Token(y)' \in TokensOf(a) \/ (y = x /\ Token(y)' = n)
    <3>1. CASE y # x  BY <2>2, <3>1, Had DEF Issues, Others, SameActor
    <3>2. CASE y = x  BY <1>1, <3>2 DEF Issues
    <3> QED BY <3>1, <3>2
  <2>3. ASSUME NEW t \in TokensOf(a)' PROVE t \in TokensOf(a) \/ (t = n /\ a = Account(x)')
    <3>1. CASE t \in {secrets'[a], gui'.secrets[a]}  BY <2>1, <3>1
    <3>2. CASE \E y \in Actors : Account(y)' = a /\ t = Token(y)'
      <4>1. PICK y \in Actors : Account(y)' = a /\ t = Token(y)'  BY <3>2
      <4> QED BY <2>2, <4>1
    <3> QED BY <2>3, <3>1, <3>2 DEF TokensOf
  <2> QED BY <1>4, <2>3
<1>6. Owned'
  <2>1. \A a \in Accounts : TokensOf(a)' \subseteq 0 .. issued'
    <3>1. issued' = issued + 1 /\ n \in 0 .. issued + 1 /\ 0 .. issued \subseteq 0 .. issued + 1
      BY <1>1, <1>2 DEF Issues
    <3> QED BY <1>3, <1>5, <3>1
  <2>2. ASSUME NEW a \in Accounts, NEW b \in Accounts, NEW t \in TokensOf(a)' \cap TokensOf(b)'
        PROVE  a = b \/ t = NoToken
    <3>1. CASE t = n  BY <1>5, <2>2, <3>1
    <3>2. CASE t # n
      <4>1. t \in TokensOf(a) \cap TokensOf(b)  BY <1>5, <2>2, <3>2
      <4> QED BY <4>1 DEF Accounted, TokenInv, Owned
    <3> QED BY <3>1, <3>2
  <2> QED BY <2>1, <2>2 DEF Owned
<1>7. \A y \in Actors : y # x => SameActor(y)  BY DEF Issues, Others
<1>8. Token(x)' = n /\ Account(x)' \in Accounts /\ live' = (live \ {Token(x)}) \cup {n}
      /\ secrets' = secrets /\ gui' = gui
  BY <1>1 DEF Issues
\* The token that is refreshed is not the newest of anybody.
<1>9. ASSUME NEW a \in Accounts, NEW t \in TokensOf(a), t \in live, t = Token(x)
      PROVE  Account(x)' = a /\ Account(x) = a /\ Writes(x)'
  <2>1. Token(x) # NoToken  BY <1>2, <1>9
  <2>2. Account(x)' = Account(x) /\ Writes(x)' /\ Account(x) \in Accounts
    BY <2>1 DEF Issues
  <2>3. t \in TokensOf(Account(x))  BY <1>9, <2>2, Had
  <2>4. a = Account(x)
    BY <1>9, <2>1, <2>2, <2>3 DEF Accounted, TokenInv, Owned
  <2> QED BY <2>2, <2>4
<1>10. FreshOK'
  <2> SUFFICES ASSUME NEW y \in Actors, Fresh(y)'
               PROVE  /\ Account(y)' \in Accounts /\ Token(y)' \in live'
                      /\ Token(y)' \notin {secrets'[Account(y)'], gui'.secrets[Account(y)']}
                      /\ \A z \in Actors : z # y /\ Account(z)' = Account(y)'
                                             => Token(z)' # Token(y)'
    BY DEF FreshOK
  <2>1. CASE y = x
    <3>1. PICK a : a = Account(x)'  OBVIOUS
    <3>2. a \in Accounts /\ n \notin {secrets[a], gui.secrets[a]}  BY <1>4, <1>8, <3>1, Had
    <3>3. ASSUME NEW z \in Actors, z # x, Account(z)' = a PROVE Token(z)' # n
      BY <1>4, <1>7, <3>2, <3>3, Had DEF SameActor
    <3> QED BY <1>8, <2>1, <3>1, <3>2, <3>3
  <2>2. CASE y # x
    <3>1. Fresh(y) /\ Account(y)' = Account(y) /\ Token(y)' = Token(y)
      BY <1>7, <2>2 DEF SameActor
    <3>2. PICK a : a = Account(y)  OBVIOUS
    <3>3. PICK t : t = Token(y)  OBVIOUS
    <3>4. /\ a \in Accounts /\ t \in live /\ t # NoToken /\ t # secrets[a] /\ t # gui.secrets[a]
          /\ \A z \in Actors : z # y /\ Account(z) = a => Token(z) # t
      BY <3>1, <3>2, <3>3, FreshUnique
    <3>5. t \in TokensOf(a)  BY <3>2, <3>3, <3>4, Had
    <3>6. t # Token(x)  BY <1>9, <2>2, <3>4, <3>5
    <3>7. ASSUME NEW z \in Actors, z # y, Account(z)' = a PROVE Token(z)' # t
      <4>1. CASE z # x  BY <1>7, <3>4, <3>7, <4>1 DEF SameActor
      <4>2. CASE z = x  BY <1>4, <1>8, <3>4, <3>5, <4>2
      <4> QED BY <4>1, <4>2
    <3> QED BY <1>8, <3>1, <3>2, <3>3, <3>4, <3>6, <3>7
  <2> QED BY <2>1, <2>2
<1>11. StoredTokenLive'
  <2> SUFFICES ASSUME NEW a \in Accounts, secrets'[a] # NoToken, a \notin lost', ~InHand(a)'
               PROVE  secrets'[a] \in live'
    BY DEF StoredTokenLive
  <2>1. ~InHand(a)
    <3> SUFFICES ASSUME NEW y \in Actors, Writes(y), Account(y) = a PROVE FALSE
      BY InHandActor
    <3>1. y # x  BY DEF Issues, Fresh
    <3>2. Writes(y)' /\ Account(y)' = a  BY <1>7, <3>1 DEF SameActor
    <3> QED BY <3>2, InHandActorNext
  <2>2. secrets[a] \in live
    BY <1>8, <2>1 DEF Accounted, TokenInv, StoredTokenLive, Issues
  <2>3. secrets[a] # Token(x)
    <3> SUFFICES ASSUME secrets[a] = Token(x) PROVE FALSE  OBVIOUS
    <3>1. Account(x)' = a /\ Writes(x)'  BY <1>9, <2>2, Had
    <3> QED BY <3>1, InHandActorNext
  <2> QED BY <1>8, <2>2, <2>3
<1>12. Removes'
  BY <1>7 DEF Accounted, TokenInv, Removes, SameActor, Issues
<1> QED BY <1>6, <1>10, <1>11, <1>12 DEF TokenInv

LEMMA CliActs ==
    ASSUME Typed, NEW c \in Clis, NEW r, cli' = [cli EXCEPT ![c] = r], thread' = thread
    PROVE  /\ Others(c) /\ State(c) = cli[c] /\ State(c)' = r /\ c \in Actors
<1>1. \A d \in Clis : cli'[d] = IF d = c THEN r ELSE cli[d]  BY DEF Typed, ClisTyped
<1>2. ASSUME NEW y \in Actors, y # c PROVE SameActor(y)
  <2>1. State(y)' = State(y)  BY <1>1, <1>2 DEF State, Actors
  <2>2. y \in Clis => cli'[y] = cli[y]  BY <1>1, <1>2
  <2> QED BY <2>1, <2>2 DEF SameActor, Account, Token, Writes, Fresh, Adds, Removing
<1> QED BY <1>1, <1>2 DEF Others, State, Actors

LEMMA ThreadActs ==
    ASSUME Typed, NEW w \in Threads, NEW r, thread' = [thread EXCEPT ![w] = r]
    PROVE  /\ w \in Actors /\ State(w) = thread[w] /\ State(w)' = r /\ w \notin Clis
           /\ cli' = cli => Others(w)
<1>1. \A v \in Threads : thread'[v] = IF v = w THEN r ELSE thread[v]
  BY DEF Typed, ThreadsTyped
<1>2. w \notin Clis  BY CredentialsAssumption DEF CredentialsAssumption
<1>3. ASSUME NEW y \in Actors, y # w, cli' = cli PROVE SameActor(y)
  <2>1. State(y)' = State(y)  BY <1>1, <1>3 DEF State, Actors
  <2> QED BY <1>3, <2>1 DEF SameActor, Account, Token, Writes, Fresh, Adds, Removing
<1> QED BY <1>1, <1>2, <1>3 DEF Others, State, Actors

\* What an actor has next: what it has now, nothing, or what is stored.
Takes(x, r) ==
    \/ r.account = Account(x) /\ r.token = Token(x)
    \/ r.token = NoToken
    \/ r.token \in {secrets[r.account], gui.secrets[r.account]}

\* A step that stores no token.
StoresNone(x) ==
    /\ UNCHANGED <<live, issued, secrets>> /\ lost \subseteq lost'
    /\ \A a \in Accounts : gui'.secrets[a] \in {gui.secrets[a], secrets[a]}
    /\ Writes(x) => Account(x) \in lost'

LEMMA CliMovesTokens ==
    ASSUME Accounted, NEW c \in Clis, NEW r, cli' = [cli EXCEPT ![c] = r], thread' = thread,
           StoresNone(c), Takes(c, r), r.step # "write",
           r.step \in {"account", "secret"} => r.cmd # "add" /\ r.token = NoToken
    PROVE  TokenInv'
<1>1. Others(c) /\ State(c) = cli[c] /\ State(c)' = r /\ cli'[c] = r /\ c \in Actors
  BY CliActs DEF Accounted, Typed, ClisTyped
<1>2. ~Fresh(c)'  BY <1>1 DEF Fresh, Writes, Adds
<1>3. Removing(c)' => Token(c)' = NoToken  BY <1>1 DEF Removing, Token
<1>4. Account(c)' = r.account /\ Token(c)' = r.token  BY <1>1 DEF Account, Token
<1>5. Moves(c)  BY <1>1, <1>2, <1>3, <1>4 DEF Moves, StoresNone, Takes
<1> QED BY <1>1, <1>5, MovesTokens

LEMMA ThreadMovesTokens ==
    ASSUME Accounted, NEW w \in Threads, NEW r, thread' = [thread EXCEPT ![w] = r],
           Others(w), StoresNone(w), Takes(w, r), r.step # "write"
    PROVE  TokenInv'
<1>1. w \in Actors /\ State(w) = thread[w] /\ State(w)' = r /\ w \notin Clis
  BY ThreadActs DEF Accounted
<1>2. ~Fresh(w)' /\ ~Removing(w)'  BY <1>1 DEF Fresh, Writes, Removing
<1>3. Account(w)' = r.account /\ Token(w)' = r.token  BY <1>1 DEF Account, Token
<1>4. Moves(w)  BY <1>1, <1>2, <1>3 DEF Moves, StoresNone, Takes
<1> QED BY <1>1, <1>4, MovesTokens

-----------------------------------------------------------------------------
LEMMA StartTokens ==
    ASSUME Accounted, NEW c \in Clis, NEW a \in Accounts, Start(c, a)
    PROVE  TokenInv'
<1>0. State(c) = cli[c] /\ c \in Actors  BY DEF State, Actors
<1>1. cli[c] = IdleCli  BY DEF Start, StartAdd, StartRemove, StartUse, Idle
<1>2. ~Writes(c) /\ ~Fresh(c) /\ Token(c) = NoToken
  BY <1>0, <1>1 DEF Writes, Fresh, Adds, Token, IdleCli
<1>3. CASE StartAdd(c, a)
  <2>1. PICK r : r = [IdleCli EXCEPT !.step = "account", !.cmd = "add", !.account = a,
                                     !.token = issued + 1]
    OBVIOUS
  <2>2. cli' = [cli EXCEPT ![c] = r] /\ thread' = thread  BY <1>3, <2>1 DEF StartAdd, SetCli
  <2>3. r.step = "account" /\ r.cmd = "add" /\ r.account = a /\ r.token = issued + 1
    BY <2>1 DEF IdleCli
  <2>4. Others(c) /\ State(c)' = r /\ cli'[c] = r
    BY <2>2, CliActs DEF Accounted, Typed, ClisTyped
  <2>5. Account(c)' = a /\ Token(c)' = issued + 1  BY <2>3, <2>4 DEF Account, Token
  <2>6. ~Removing(c)'  BY <2>3, <2>4 DEF Removing, Adds
  <2>7. live' = (live \ {Token(c)}) \cup {issued + 1}
    BY <1>2, <1>3, LiveRange DEF StartAdd
  <2>8. Issues(c)
    BY <1>2, <1>3, <2>4, <2>5, <2>6, <2>7 DEF Issues, StartAdd, disk, memory
  <2> QED BY <1>0, <2>8, IssuesTokens
<1>4. CASE StartRemove(c, a)
  <2>1. PICK r : r = [IdleCli EXCEPT !.step = "account", !.cmd = "remove", !.account = a]
    OBVIOUS
  <2>2. cli' = [cli EXCEPT ![c] = r] /\ thread' = thread  BY <1>4, <2>1 DEF StartRemove, SetCli
  <2>3. r.step = "account" /\ r.cmd = "remove" /\ r.token = NoToken
    BY <2>1 DEF IdleCli
  <2>4. StoresNone(c)  BY <1>2, <1>4 DEF StoresNone, StartRemove, disk, memory, provider
  <2> QED BY <2>2, <2>3, <2>4, CliMovesTokens DEF Takes
<1>5. CASE StartUse(c, a)
  <2>1. PICK step \in {"refresh", "op"} :
          cli' = [cli EXCEPT ![c] = [IdleCli EXCEPT !.step = step, !.cmd = "use",
                                                    !.account = a, !.token = secrets[a]]]
    BY <1>5 DEF StartUse, SetCli
  <2>2. PICK r : r = [IdleCli EXCEPT !.step = step, !.cmd = "use", !.account = a,
                                     !.token = secrets[a]]
    OBVIOUS
  <2>3. r.step \in {"refresh", "op"} /\ r.account = a /\ r.token = secrets[a]
    BY <2>2 DEF IdleCli
  <2>4. StoresNone(c) /\ thread' = thread
    BY <1>2, <1>5 DEF StoresNone, StartUse, disk, memory, provider
  <2> QED BY <2>1, <2>2, <2>3, <2>4, CliMovesTokens DEF Takes
<1> QED BY <1>3, <1>4, <1>5 DEF Start

\* A process ends, or goes on with what it has, and stores no token.
LEMMA CliOn ==
    ASSUME Accounted, NEW c \in Clis, StoresNone(c), thread' = thread,
           CliEnd(c) \/ (\E step : CliGoto(c, step) /\ step \notin {"write", "account", "secret"})
    PROVE  TokenInv'
<1>0. State(c) = cli[c]  BY DEF State
<1>1. CASE CliEnd(c)
  <2>1. IdleCli.step = "off" /\ IdleCli.token = NoToken  BY DEF IdleCli
  <2> QED BY <1>1, <2>1, CliMovesTokens DEF CliEnd, SetCli, Takes
<1>2. ASSUME NEW step, CliGoto(c, step), step \notin {"write", "account", "secret"}
      PROVE  TokenInv'
  <2>1. PICK r : r = [cli[c] EXCEPT !.step = step]  OBVIOUS
  <2>2. cli' = [cli EXCEPT ![c] = r]  BY <1>2, <2>1 DEF CliGoto, SetCli
  <2>3. r.step = step /\ r.account = cli[c].account /\ r.token = cli[c].token
    BY <2>1 DEF Accounted, Typed, ClisTyped, CliState
  <2> QED BY <1>0, <1>2, <2>2, <2>3, CliMovesTokens DEF Takes, Account, Token
<1> QED BY <1>1, <1>2

\* SaveSecret, CliWrite: what is stored nobody else has.
LEMMA CliStores ==
    ASSUME Accounted, NEW c \in Clis, thread' = thread,
           Fresh(c) \/ Token(c) = NoToken,
           secrets' = [secrets EXCEPT ![cli[c].account] = cli[c].token],
           lost' = lost \ {cli[c].account}, UNCHANGED <<gui, live, issued>>,
           cli[c].account \in Accounts,
           NEW step \in {"done", "op"}, CliGoto(c, step)
    PROVE  TokenInv'
<1>1. PICK r : r = [cli[c] EXCEPT !.step = step]  OBVIOUS
<1>2. cli' = [cli EXCEPT ![c] = r]  BY <1>1 DEF CliGoto, SetCli
<1>3. r.step = step /\ r.account = cli[c].account /\ r.token = cli[c].token
  BY <1>1 DEF Accounted, Typed, ClisTyped, CliState
<1>4. Others(c) /\ State(c) = cli[c] /\ State(c)' = r /\ cli'[c] = r /\ c \in Actors
  BY <1>2, CliActs DEF Accounted, Typed, ClisTyped
<1>5. /\ Account(c) = cli[c].account /\ Token(c) = cli[c].token
      /\ Account(c)' = Account(c) /\ Token(c)' = Token(c)
  BY <1>3, <1>4 DEF Account, Token
<1>6. ~Fresh(c)' /\ ~Removing(c)'  BY <1>3, <1>4 DEF Fresh, Writes, Adds, Removing
<1>7. \A a \in Accounts : secrets'[a] = IF a = Account(c) THEN Token(c) ELSE secrets[a]
  BY <1>5 DEF Accounted, Typed, Data
<1>8. Moves(c)  BY <1>4, <1>5, <1>6, <1>7 DEF Moves
<1> QED BY <1>4, <1>8, MovesTokens

LEMMA CliStepTokens ==
    ASSUME Accounted, NEW c \in Clis, CliStep(c)
    PROVE  TokenInv'
<1> USE DEF disk, memory, provider, CliAt
<1>0. State(c) = cli[c] /\ c \in Actors /\ Typed  BY DEF State, Actors, Accounted
<1>1. Account(c) = cli[c].account /\ Token(c) = cli[c].token  BY <1>0 DEF Account, Token
<1>2. cli[c].step = "write" <=> Writes(c)  BY <1>0 DEF Writes
<1>3. thread' = thread
  BY DEF CliStep, SaveAccount, SaveSecret, UseRejected, CliRefresh, CliRefused, CliFallsBack,
     CliWrite, CliEnds, CliFails, Terminal
<1>4. CASE SaveAccount(c)
  <2>1. PICK r : r = [cli[c] EXCEPT !.step = "secret"]  OBVIOUS
  <2>2. cli' = [cli EXCEPT ![c] = r]  BY <1>4, <2>1 DEF SaveAccount, CliGoto, SetCli
  <2>3. /\ r.step = "secret" /\ r.account = cli[c].account /\ r.token = cli[c].token
        /\ r.cmd = cli[c].cmd
    BY <1>0, <2>1 DEF Typed, ClisTyped, CliState
  <2>4. Others(c) /\ State(c)' = r /\ cli'[c] = r
    BY <1>0, <1>3, <2>2, CliActs DEF Typed, ClisTyped
  <2>5. Account(c)' = Account(c) /\ Token(c)' = Token(c)
    BY <1>1, <2>3, <2>4 DEF Account, Token
  <2>6. cli[c].step = "account"  BY <1>4 DEF SaveAccount
  <2>7. Fresh(c)' => Fresh(c)  BY <2>3, <2>4, <2>6 DEF Fresh, Writes, Adds
  <2>8. Removing(c)' => Removing(c)  BY <2>3, <2>4, <2>6 DEF Removing, Adds
  <2>9. Removing(c)' => Token(c)' = NoToken
    BY <1>0, <2>5, <2>8 DEF Accounted, TokenInv, Removes
  <2>10. ~Writes(c)  BY <1>2, <2>6
  <2>11. Moves(c)
    BY <1>4, <2>4, <2>5, <2>7, <2>9, <2>10 DEF Moves, SaveAccount
  <2> QED BY <1>0, <2>11, MovesTokens
<1>5. CASE SaveSecret(c)
  <2>1. Fresh(c) \/ Token(c) = NoToken
    BY <1>0, <1>5 DEF SaveSecret, Fresh, Removing, Accounted, TokenInv, Removes
  <2>2. cli[c].account \in Accounts  BY <1>0, <1>5 DEF SaveSecret, Typed, Busy
  <2> QED BY <1>3, <1>5, <2>1, <2>2, CliStores DEF SaveSecret
<1>6. CASE CliWrite(c)
  <2>1. Fresh(c)  BY <1>2, <1>6 DEF CliWrite, Fresh
  <2>2. cli[c].account \in Accounts  BY <1>0, <1>6 DEF CliWrite, Typed, Busy
  <2> QED BY <1>3, <1>6, <2>1, <2>2, CliStores DEF CliWrite
<1>7. CASE UseRejected(c)
  <2>1. PICK r : r = [cli[c] EXCEPT !.step = "refresh", !.cmd = "retry"]  OBVIOUS
  <2>2. cli' = [cli EXCEPT ![c] = r]  BY <1>7, <2>1 DEF UseRejected, SetCli
  <2>3. r.step = "refresh" /\ r.account = cli[c].account /\ r.token = cli[c].token
    BY <1>0, <2>1 DEF Typed, ClisTyped, CliState
  <2>4. StoresNone(c)  BY <1>2, <1>7 DEF UseRejected, StoresNone
  <2> QED BY <1>1, <1>3, <2>2, <2>3, <2>4, CliMovesTokens DEF Takes
<1>8. CASE CliRefresh(c)
  <2>1. PICK r : r = [cli[c] EXCEPT !.step = "write", !.token = issued + 1]  OBVIOUS
  <2>2. cli' = [cli EXCEPT ![c] = r]  BY <1>8, <2>1 DEF CliRefresh, SetCli
  <2>3. r.step = "write" /\ r.account = cli[c].account /\ r.token = issued + 1
    BY <1>0, <2>1 DEF Typed, ClisTyped, CliState
  <2>4. Others(c) /\ State(c)' = r  BY <1>0, <1>3, <2>2, CliActs
  <2>5. Account(c)' = Account(c) /\ Token(c)' = issued + 1 /\ Writes(c)' /\ ~Removing(c)'
    <3>1. cli'[c] = r  BY <1>0, <2>2 DEF Typed, ClisTyped
    <3> QED BY <1>1, <2>3, <2>4, <3>1 DEF Account, Token, Writes, Removing
  <2>6. Account(c) \in Accounts /\ ~Fresh(c)
    BY <1>0, <1>1, <1>8 DEF CliRefresh, Typed, Busy, Fresh, Writes, Adds
  <2>7. Issues(c)
    BY <1>1, <1>8, <2>4, <2>5, <2>6 DEF Issues, CliRefresh, Refresh
  <2> QED BY <1>0, <2>7, IssuesTokens
<1>9. CASE CliRefused(c) \/ CliFallsBack(c) \/ CliEnds(c) \/ Terminal(c)
  <2>1. StoresNone(c)
    BY <1>2, <1>9 DEF CliRefused, CliFallsBack, CliEnds, Terminal, Refused, StoresNone
  <2>2. CliEnd(c) \/ CliGoto(c, "op")
    BY <1>9 DEF CliRefused, CliFallsBack, CliEnds, Terminal
  <2> QED BY <1>3, <2>1, <2>2, CliOn
<1>10. CASE CliFails(c)
  <2>1. lost \subseteq lost' /\ (Writes(c) => Account(c) \in lost')
    BY <1>1, <1>2, <1>10 DEF CliFails, Dropped
  <2>2. StoresNone(c)  BY <1>10, <2>1 DEF CliFails, StoresNone
  <2>3. CliEnd(c)  BY <1>10 DEF CliFails
  <2> QED BY <1>3, <2>2, <2>3, CliOn
<1> QED BY <1>4, <1>5, <1>6, <1>7, <1>8, <1>9, <1>10 DEF CliStep

LEMMA WindowTokens ==
    ASSUME Accounted, NEW c \in Clis, WindowStep(c)
    PROVE  TokenInv'
<1> USE DEF disk, memory, provider, CliAt
<1>0. State(c) = cli[c] /\ c \in Actors /\ Typed  BY DEF State, Actors, Accounted
<1>1. ~Writes(c)
  BY <1>0 DEF WindowStep, Reread, RereadSecrets, EnsureWatchers, Ensured, EnsureOne, Writes
<1>2. Account(c) = cli[c].account /\ Token(c) = cli[c].token  BY <1>0 DEF Account, Token
<1>3. CASE Reread(c) \/ RereadSecrets(c) \/ Ensured(c)
  <2>1. gui \in [accounts : SUBSET Accounts, secrets : [Accounts -> Secret]]
    BY <1>0 DEF Typed, Data
  <2>2. \A a \in Accounts : gui'.secrets[a] \in {gui.secrets[a], secrets[a]}
    BY <1>3, <2>1 DEF Reread, RereadSecrets, Ensured
  <2>3. StoresNone(c) /\ thread' = thread
    BY <1>1, <1>3, <2>2 DEF Reread, RereadSecrets, Ensured, StoresNone
  <2>4. CliEnd(c) \/ CliGoto(c, "rereadSecrets") \/ CliGoto(c, "reread")
    BY <1>3 DEF Reread, RereadSecrets, Ensured
  <2> QED BY <2>3, <2>4, CliOn
<1>4. CASE EnsureWatchers(c)
  <2>1. PICK r : r = [cli[c] EXCEPT !.step = "ensure", !.todo = gui.accounts]  OBVIOUS
  <2>2. cli' = [cli EXCEPT ![c] = r]  BY <1>4, <2>1 DEF EnsureWatchers, SetCli
  <2>3. r.step = "ensure" /\ r.account = cli[c].account /\ r.token = cli[c].token
    BY <1>0, <2>1 DEF Typed, ClisTyped, CliState
  <2>4. StoresNone(c) /\ thread' = thread  BY <1>1, <1>4 DEF EnsureWatchers, StoresNone
  <2> QED BY <1>2, <2>2, <2>3, <2>4, CliMovesTokens DEF Takes
<1>5. ASSUME NEW a \in Accounts, EnsureOne(c, a) PROVE TokenInv'
  <2>1. PICK r : r = [cli[c] EXCEPT !.todo = @ \ {a}]  OBVIOUS
  <2>2. cli' = [cli EXCEPT ![c] = r] /\ UNCHANGED <<secrets, gui, live, issued, lost>>
    BY <1>5, <2>1 DEF EnsureOne, SetCli
  <2>3. r.step = "ensure" /\ r.account = cli[c].account /\ r.token = cli[c].token
    BY <1>0, <1>5, <2>1 DEF EnsureOne, Typed, ClisTyped, CliState
  <2>4. CASE thread' = thread
    <3>1. StoresNone(c)  BY <1>1, <2>2 DEF StoresNone
    <3> QED BY <1>2, <2>2, <2>3, <2>4, <3>1, CliMovesTokens DEF Takes
  <2>5. CASE Watch(a)
    <3>1. PICK w \in Threads : thread[w] = IdleThread /\
            thread' = [thread EXCEPT ![w] = [IdleThread EXCEPT !.step = "creds", !.account = a]]
      BY <2>5 DEF Watch, SetThread, Free
    <3>2. PICK s : s = [IdleThread EXCEPT !.step = "creds", !.account = a]  OBVIOUS
    <3>3. s.step = "creds" /\ s.token = NoToken  BY <3>2 DEF IdleThread
    <3>4. thread' = [thread EXCEPT ![w] = s]  BY <3>1, <3>2
    <3>5. w \in Actors /\ State(w) = thread[w] /\ w \notin Clis
      BY <1>0, <3>4, ThreadActs
    <3>6. ~Writes(w)  BY <3>1, <3>5 DEF Writes, IdleThread
    <3>7. StoresNone(w)  BY <2>2, <3>6 DEF StoresNone
    <3>8. Others(w)
      <4> SUFFICES ASSUME NEW y \in Actors, y # w PROVE SameActor(y)  BY DEF Others
      <4>1. CASE y \in Threads
        <5>1. y \notin Clis /\ thread'[y] = thread[y]
          BY <1>0, <3>4, <4>1, CredentialsAssumption
          DEF CredentialsAssumption, Typed, ThreadsTyped
        <5> QED BY <5>1 DEF SameActor, Account, Token, Writes, Fresh, Adds, Removing, State
      <4>2. CASE y \in Clis /\ y # c
        <5>1. cli'[y] = cli[y]  BY <2>2, <4>2
        <5> QED BY <4>2, <5>1 DEF SameActor, Account, Token, Writes, Fresh, Adds, Removing, State
      <4>3. CASE y = c
        <5>1. cli'[c] = r /\ cli[c].step = "ensure"
          BY <1>0, <1>5, <2>2 DEF Typed, ClisTyped, EnsureOne
        <5> QED BY <2>3, <4>3, <5>1
            DEF SameActor, Account, Token, Writes, Fresh, Adds, Removing, State
      <4> QED BY <4>1, <4>2, <4>3 DEF Actors
    <3> QED BY <3>3, <3>4, <3>7, <3>8, ThreadMovesTokens DEF Takes
  <2> QED BY <1>5, <2>4, <2>5 DEF EnsureOne
<1> QED BY <1>3, <1>4, <1>5 DEF WindowStep

\* A thread goes on, and stores no token: it keeps the one it has, drops it or takes the
\* one in memory.
LEMMA ThreadOn ==
    ASSUME Accounted, NEW w \in Threads, NEW r, thread' = [thread EXCEPT ![w] = r],
           cli' = cli, StoresNone(w), r.step # "write", r.account = thread[w].account,
           r.token \in {NoToken, thread[w].token, gui.secrets[thread[w].account]}
    PROVE  TokenInv'
<1>1. Others(w) /\ State(w) = thread[w]  BY ThreadActs DEF Accounted
<1>2. Takes(w, r)  BY <1>1 DEF Takes, Account, Token
<1> QED BY <1>1, <1>2, ThreadMovesTokens

LEMMA WatchingTokens ==
    ASSUME Accounted, NEW w \in Threads, Watching(w)
    PROVE  TokenInv'
<1> USE DEF disk, memory, provider, ThreadAt, SetThread, ThreadGoto
<1>0. State(w) = thread[w] /\ w \in Actors /\ Typed /\ w \notin Clis
  BY CredentialsAssumption DEF CredentialsAssumption, State, Actors, Accounted
<1>1. Account(w) = thread[w].account /\ Token(w) = thread[w].token
  BY <1>0 DEF Account, Token
<1>2. thread[w].step = "write" <=> Writes(w)  BY <1>0 DEF Writes
<1>3. PICK q : q = thread[w]  OBVIOUS
<1>4. q \in ThreadState /\ (q.step # "off" => q.account \in Accounts)
  BY <1>0, <1>3 DEF Typed, ThreadsTyped, Busy
<1>5. cli' = cli
  BY DEF Watching, CredsGone, CredsDue, CredsReady, WatchRefresh, WatchRefused, WatchFallsBack,
     WatchWrite, WatchRereads, WatchRereadsSecrets, WatchRereadFails, SessionEnds, Leave
<1>6. gui \in [accounts : SUBSET Accounts, secrets : [Accounts -> Secret]]
  BY <1>0 DEF Typed, Data
<1>7. CASE CredsGone(w) \/ CredsDue(w) \/ CredsReady(w) \/ SessionEnds(w)
  <2>1. StoresNone(w)
    BY <1>2, <1>7 DEF CredsGone, CredsDue, CredsReady, SessionEnds, StoresNone
  <2>2. \E r : /\ thread' = [thread EXCEPT ![w] = r] /\ r.step # "write"
               /\ r.account = q.account /\ r.token \in {q.token, gui.secrets[q.account]}
    <3>1. PICK r : /\ thread' = [thread EXCEPT ![w] = r]
                   /\ \/ r = [q EXCEPT !.step = "leaving"]
                      \/ r = [q EXCEPT !.step = "refresh", !.token = gui.secrets[q.account]]
                      \/ r = [q EXCEPT !.step = "session", !.again = FALSE]
                      \/ \E b \in BOOLEAN : r = [q EXCEPT !.step = "creds", !.forced = b]
      BY <1>3, <1>7 DEF CredsGone, CredsDue, CredsReady, SessionEnds
    <3>2. /\ r.step # "write" /\ r.account = q.account
          /\ r.token \in {q.token, gui.secrets[q.account]}
      BY <1>4, <3>1 DEF ThreadState
    <3> QED BY <3>1, <3>2
  <2> QED BY <1>3, <1>5, <2>1, <2>2, ThreadOn
<1>8. CASE WatchRereads(w) \/ WatchRereadsSecrets(w) \/ WatchRereadFails(w)
  <2>1. \A a \in Accounts : gui'.secrets[a] \in {gui.secrets[a], secrets[a]}
    BY <1>6, <1>8 DEF WatchRereads, WatchRereadsSecrets, WatchRereadFails
  <2>2. StoresNone(w)
    BY <1>2, <1>8, <2>1 DEF WatchRereads, WatchRereadsSecrets, WatchRereadFails, StoresNone
  <2>3. \E r : /\ thread' = [thread EXCEPT ![w] = r] /\ r.step # "write"
               /\ r.account = q.account /\ r.token = q.token
    <3>1. PICK r : /\ thread' = [thread EXCEPT ![w] = r]
                   /\ \/ r = [q EXCEPT !.step = "secrets"]
                      \/ r = [q EXCEPT !.step = "creds", !.again = TRUE]
                      \/ r = [q EXCEPT !.step = "creds"]
      BY <1>3, <1>8 DEF WatchRereads, WatchRereadsSecrets, WatchRereadFails
    <3>2. r.step # "write" /\ r.account = q.account /\ r.token = q.token
      BY <1>4, <3>1 DEF ThreadState
    <3> QED BY <3>1, <3>2
  <2> QED BY <1>3, <1>5, <2>2, <2>3, ThreadOn
<1>9. ASSUME Failed(w)
      PROVE  \E r : /\ thread' = [thread EXCEPT ![w] = r] /\ r.step # "write"
                    /\ r.account = q.account /\ r.token = NoToken
  <2>1. PICK r : r = [q EXCEPT !.step = IF q.again THEN "creds" ELSE "accounts",
                               !.token = NoToken, !.again = FALSE]
    OBVIOUS
  <2>2. r.step # "write" /\ r.account = q.account /\ r.token = NoToken
    BY <1>4, <2>1 DEF ThreadState
  <2>3. thread' = [thread EXCEPT ![w] = r]  BY <1>3, <1>9, <2>1 DEF Failed
  <2> QED BY <2>2, <2>3
<1>10. CASE WatchRefused(w)
  <2>1. StoresNone(w)  BY <1>2, <1>10 DEF WatchRefused, Refused, StoresNone
  <2> QED BY <1>3, <1>5, <1>9, <1>10, <2>1, ThreadOn DEF WatchRefused
<1>11. CASE WatchFallsBack(w)
  <2>1. StoresNone(w)  BY <1>2, <1>11 DEF WatchFallsBack, Refused, StoresNone
  <2>2. PICK r : r = [q EXCEPT !.step = "session", !.token = NoToken, !.again = FALSE]
    OBVIOUS
  <2>3. r.step # "write" /\ r.account = q.account /\ r.token = NoToken
    BY <1>4, <2>2 DEF ThreadState
  <2>4. thread' = [thread EXCEPT ![w] = r]  BY <1>3, <1>11, <2>2 DEF WatchFallsBack
  <2> QED BY <1>3, <1>5, <2>1, <2>3, <2>4, ThreadOn
<1>12. CASE WatchRefresh(w)
  <2>1. PICK r : r = [q EXCEPT !.step = "write", !.token = issued + 1]  OBVIOUS
  <2>2. r.step = "write" /\ r.account = q.account /\ r.token = issued + 1
    BY <1>4, <2>1 DEF ThreadState
  <2>3. thread' = [thread EXCEPT ![w] = r]  BY <1>3, <1>12, <2>1 DEF WatchRefresh
  <2>4. Others(w) /\ State(w)' = r  BY <1>0, <1>5, <2>3, ThreadActs
  <2>5. Account(w)' = Account(w) /\ Token(w)' = issued + 1 /\ Writes(w)' /\ ~Removing(w)'
    BY <1>0, <1>1, <1>3, <2>2, <2>4 DEF Account, Token, Writes, Removing
  <2>6. Account(w) \in Accounts /\ ~Fresh(w)
    BY <1>0, <1>1, <1>2, <1>3, <1>4, <1>12 DEF WatchRefresh, Fresh
  <2>7. Issues(w)
    BY <1>1, <1>12, <2>4, <2>5, <2>6 DEF Issues, WatchRefresh, Refresh
  <2> QED BY <1>0, <2>7, IssuesTokens
<1>13. CASE WatchWrite(w)
  <2>0. PICK a : a = q.account  OBVIOUS
  <2>1. a \in Accounts /\ Account(w) = a /\ Writes(w) /\ Fresh(w)
    BY <1>1, <1>2, <1>3, <1>4, <1>13, <2>0 DEF WatchWrite, Fresh
  <2>2. CASE secrets' = [secrets EXCEPT ![a] = q.token] /\ gui' = [gui EXCEPT !.secrets = secrets']
             /\ lost' = lost \ {a}
             /\ SetThread(w, [q EXCEPT !.step = "session", !.token = NoToken, !.forced = FALSE,
                                       !.again = FALSE])
    <3>1. PICK r : r = [q EXCEPT !.step = "session", !.token = NoToken, !.forced = FALSE,
                                 !.again = FALSE]
      OBVIOUS
    <3>2. r.step = "session" /\ r.account = q.account /\ r.token = NoToken
      BY <1>4, <3>1 DEF ThreadState
    <3>3. thread' = [thread EXCEPT ![w] = r]  BY <2>2, <3>1
    <3>4. Others(w) /\ State(w)' = r  BY <1>0, <1>5, <3>3, ThreadActs
    <3>5. Token(w)' = NoToken /\ ~Fresh(w)' /\ ~Removing(w)'
      BY <1>0, <3>2, <3>4 DEF Token, Fresh, Writes, Removing
    <3>6. \A b \in Accounts : secrets'[b] = IF b = a THEN Token(w) ELSE secrets[b]
      BY <1>0, <1>1, <1>3, <2>2 DEF Typed, Data
    <3>7. \A b \in Accounts : gui'.secrets[b] = secrets'[b]  BY <1>6, <2>2
    <3>8. UNCHANGED <<live, issued>>  BY <1>13 DEF WatchWrite
    <3>9. Moves(w)
      BY <2>1, <2>2, <3>4, <3>5, <3>6, <3>7, <3>8 DEF Moves
    <3> QED BY <1>0, <3>9, MovesTokens
  <2>3. CASE UNCHANGED <<secrets, gui>> /\ Dropped("write", a)
             /\ (ThreadGoto(w, "leaving") \/ Failed(w))
    <3>1. StoresNone(w)
      BY <1>13, <2>1, <2>3 DEF WatchWrite, Dropped, StoresNone
    <3>2. CASE Failed(w)  BY <1>3, <1>5, <1>9, <3>1, <3>2, ThreadOn
    <3>3. CASE ThreadGoto(w, "leaving")
      <4>1. PICK r : r = [q EXCEPT !.step = "leaving"]  OBVIOUS
      <4>2. r.step # "write" /\ r.account = q.account /\ r.token = q.token
        BY <1>4, <4>1 DEF ThreadState
      <4>3. thread' = [thread EXCEPT ![w] = r]  BY <1>3, <3>3, <4>1
      <4> QED BY <1>3, <1>5, <3>1, <4>2, <4>3, ThreadOn
    <3> QED BY <2>3, <3>2, <3>3
  <2> QED BY <1>3, <1>13, <2>0, <2>2, <2>3 DEF WatchWrite
<1>14. CASE Leave(w)
  <2>1. StoresNone(w)  BY <1>2, <1>14 DEF Leave, StoresNone
  <2>2. thread' = [thread EXCEPT ![w] = IdleThread]  BY <1>14 DEF Leave
  <2>3. IdleThread.step = "off" /\ IdleThread.token = NoToken  BY DEF IdleThread
  <2>4. Others(w)  BY <1>0, <1>5, <2>2, ThreadActs
  <2> QED BY <2>1, <2>2, <2>3, <2>4, ThreadMovesTokens DEF Takes
<1> QED BY <1>7, <1>8, <1>10, <1>11, <1>12, <1>13, <1>14 DEF Watching

LEMMA InitTokens == Init => TokenInv
<1> SUFFICES ASSUME Init PROVE TokenInv  OBVIOUS
<1>1. PICK c \in Clis :
        cli = [d \in Clis |-> IF d = c THEN [IdleCli EXCEPT !.step = "reread"] ELSE IdleCli]
  BY DEF Init
<1>2. \A x \in Actors : Account(x) = NoAccount /\ Token(x) = NoToken
                        /\ State(x).step \in {"off", "reread"}
  BY <1>1 DEF Init, Actors, Account, Token, State, IdleCli, IdleThread
<1>3. \A x \in Actors : ~Fresh(x) /\ ~Removing(x)
  BY <1>2 DEF Fresh, Adds, Removing, State, Writes
<1>4. \A a \in Accounts : TokensOf(a) = {secrets[a]}
  BY <1>2, CredentialsAssumption DEF CredentialsAssumption, Init, TokensOf
<1>5. issued \in Nat
  BY InitTyped, CredentialsAssumption DEF Typed, Data, CredentialsAssumption
<1>6. \A a \in Accounts : secrets[a] \in IF a \in accounts THEN 1 .. issued ELSE {NoToken}
  BY DEF Init
<1>7. Owned
  <2>1. \A a \in Accounts : TokensOf(a) \subseteq 0 .. issued  BY <1>4, <1>5, <1>6 DEF NoToken
  <2>2. ASSUME NEW a \in Accounts, NEW b \in Accounts, NEW t \in TokensOf(a) \cap TokensOf(b)
        PROVE  a = b \/ t = NoToken
    BY <1>4, <1>6, <2>2 DEF Init
  <2> QED BY <2>1, <2>2 DEF Owned
<1>8. StoredTokenLive  BY <1>6 DEF Init, StoredTokenLive
<1> QED BY <1>3, <1>7, <1>8 DEF TokenInv, FreshOK, Removes

LEMMA NextTokens == Accounted /\ [Next]_vars => Accounted'
<1> SUFFICES ASSUME Accounted, [Next]_vars PROVE TokenInv'
  BY NextTyped DEF Accounted
<1>1. CASE UNCHANGED vars
  BY <1>1 DEF vars, Accounted, TokenInv, Owned, TokensOf, FreshOK, Removes, StoredTokenLive,
     InHand, Fresh, Writes, Adds, Removing, Account, Token, State, CliAt, ThreadAt
<1>2. ASSUME NEW c \in Clis, CliStep(c) \/ WindowStep(c) \/ \E a \in Accounts : Start(c, a)
      PROVE  TokenInv'
  BY <1>2, CliStepTokens, WindowTokens, StartTokens
<1>3. ASSUME NEW w \in Threads, Watching(w) PROVE TokenInv'
  BY <1>3, WatchingTokens
<1> QED BY <1>1, <1>2, <1>3 DEF Next

\* However many processes and threads refresh, add and remove at a time, the token on
\* disk is one the provider accepts, unless who has the newer one is about to store it
\* or failed to.
THEOREM StoredTokenIsLive == Spec => []StoredTokenLive
<1>1. Accounted => StoredTokenLive  BY DEF Accounted, TokenInv
<1>2. Init => Accounted  BY InitTyped, InitTokens DEF Accounted
<1> QED BY <1>1, <1>2, NextTokens, PTL DEF Spec
=============================================================================
