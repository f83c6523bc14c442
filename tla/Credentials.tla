----------------------------- MODULE Credentials -----------------------------
(***************************************************************************)
(* Who holds the credentials of an account.  accounts.json and the secrets *)
(* are written by CLI processes and by the watcher threads of the desktop  *)
(* application, which works on a copy of both in memory and reads it again *)
(* when a CLI process of its window has added or removed an account, or    *)
(* when a thread cannot get a token.  An OAuth refresh consumes the token  *)
(* it is made with: whoever has an older one is turned away.               *)
(*                                                                         *)
(* One update of the secrets is one step here (SecretsStore shows that it  *)
(* behaves so), and so is one update of accounts.json, which runs under a  *)
(* lock of its own.                                                        *)
(***************************************************************************)
EXTENDS Naturals, FiniteSets

CONSTANTS
    Accounts,       \* account ids
    Threads,        \* threads that may be watchers
    Clis,           \* CLI processes, each with the window that started it
    Nobody,         \* the application's state is not locked
    MaxToken,       \* bound: how many refresh tokens are ever issued
    Faults          \* "network", "write", "read", "crash": what may fail

NoAccount == "none"

ASSUME CredentialsAssumption ==
    /\ NoAccount \notin Accounts
    /\ Nobody \notin Threads \cup Clis /\ Threads \cap Clis = {}
    /\ IsFiniteSet(Accounts)
    /\ MaxToken \in Nat /\ Cardinality(Accounts) <= MaxToken
    /\ Faults \subseteq {"network", "write", "read", "crash"}

VARIABLES
    accounts,       \* accounts.json
    secrets,        \* the stored refresh token of each account, or NoToken
    gui,            \* the copy the application holds of the two
    guiLock,        \* who is in the middle of reading that copy again
    running,        \* RUNNING: the accounts that have a watcher
    thread,         \* what each thread is doing
    cli,            \* what each CLI process is doing
    live,           \* the refresh tokens the provider accepts
    issued,         \* how many it has issued
    lost            \* observed: accounts whose newest token was never stored

vars == <<accounts, secrets, gui, guiLock, running, thread, cli, live, issued, lost>>
disk == <<accounts, secrets>>
memory == <<gui, guiLock, running>>
provider == <<live, issued>>

NoToken == 0
Tokens == 1 .. MaxToken
Secret == Tokens \cup {NoToken}

ThreadSteps == {"off", "creds", "refresh", "write", "accounts", "secrets", "session", "leaving"}
CliSteps == {"off", "refresh", "op", "write", "account", "secret", "done",
             "reread", "rereadSecrets", "ensure"}

\* What a thread knows: its account, the token it refreshes, the one it got,
\* whether the last session was rejected, and whether it has read the disk again.
IdleThread == [step |-> "off", account |-> NoAccount, token |-> NoToken,
               forced |-> FALSE, again |-> FALSE]
IdleCli == [step |-> "off", cmd |-> "none", account |-> NoAccount, token |-> NoToken,
            todo |-> {}]

ThreadState == [step : ThreadSteps, account : Accounts \cup {NoAccount},
                token : Secret, forced : BOOLEAN, again : BOOLEAN]
CliState == [step : CliSteps, cmd : {"none", "add", "remove", "use", "retry"},
             account : Accounts \cup {NoAccount}, token : Secret, todo : SUBSET Accounts]

Idle(c) == cli[c] = IdleCli
CliAt(c, step) == cli[c].step = step
SetCli(c, state) == cli' = [cli EXCEPT ![c] = state]
CliGoto(c, step) == SetCli(c, [cli[c] EXCEPT !.step = step])
CliEnd(c) == SetCli(c, IdleCli)

ThreadAt(w, step) == thread[w].step = step
SetThread(w, state) == thread' = [thread EXCEPT ![w] = state]
ThreadGoto(w, step) == SetThread(w, [thread[w] EXCEPT !.step = step])

(***************************************************************************)
(* The provider.                                                           *)
(***************************************************************************)

\* A refresh with a token that was refreshed before is refused.
Refresh(token) ==
    /\ token \in live /\ issued < MaxToken
    /\ issued' = issued + 1
    /\ live' = (live \ {token}) \cup {issued + 1}

\* The request fails: the token is dead, or the network is (or the bound is
\* reached).
Refused(token) ==
    /\ token \notin live \/ issued = MaxToken \/ "network" \in Faults
    /\ UNCHANGED provider

(***************************************************************************)
(* CLI processes: account add, account remove, and any command that talks  *)
(* to the server.                                                          *)
(***************************************************************************)

\* The user has authorised the account in a browser: a new token, and
\* test_connection succeeded.
StartAdd(c, a) ==
    /\ Idle(c)
    /\ issued < MaxToken
    /\ issued' = issued + 1
    /\ live' = live \cup {issued + 1}
    /\ SetCli(c, [IdleCli EXCEPT !.step = "account", !.cmd = "add", !.account = a,
                                 !.token = issued + 1])
    /\ UNCHANGED <<disk, memory, thread, lost>>

StartRemove(c, a) ==
    /\ Idle(c)
    /\ SetCli(c, [IdleCli EXCEPT !.step = "account", !.cmd = "remove", !.account = a])
    /\ UNCHANGED <<disk, memory, thread, provider, lost>>

\* accounts.json first ...
SaveAccount(c) ==
    /\ CliAt(c, "account")
    /\ accounts' = IF cli[c].cmd = "add" THEN accounts \cup {cli[c].account}
                   ELSE accounts \ {cli[c].account}
    /\ CliGoto(c, "secret")
    /\ UNCHANGED <<secrets, memory, thread, provider, lost>>

\* ... then the secret.
SaveSecret(c) ==
    /\ CliAt(c, "secret")
    /\ secrets' = [secrets EXCEPT ![cli[c].account] = cli[c].token]
    /\ lost' = lost \ {cli[c].account}
    /\ CliGoto(c, "done")
    /\ UNCHANGED <<accounts, memory, thread, provider>>

\* StoreData::load, and account_secret: a command refreshes a token that is
\* about to expire, or goes on to the server with it.
StartUse(c, a) ==
    /\ Idle(c)
    /\ secrets[a] # NoToken
    /\ \E step \in {"refresh", "op"} :
        SetCli(c, [IdleCli EXCEPT !.step = step, !.cmd = "use", !.account = a,
                                  !.token = secrets[a]])
    /\ UNCHANGED <<disk, memory, thread, provider, lost>>

\* with_oauth_retry: the server rejects the login, and the token is refreshed
\* whatever its date says, once in a command.
UseRejected(c) ==
    /\ CliAt(c, "op") /\ cli[c].cmd = "use"
    /\ SetCli(c, [cli[c] EXCEPT !.step = "refresh", !.cmd = "retry"])
    /\ UNCHANGED <<disk, memory, thread, provider, lost>>

CliRefresh(c) ==
    /\ CliAt(c, "refresh")
    /\ Refresh(cli[c].token)
    /\ SetCli(c, [cli[c] EXCEPT !.step = "write", !.token = issued + 1])
    /\ UNCHANGED <<disk, memory, thread, lost>>

\* The command fails: the token was rejected, or has expired.
CliRefused(c) ==
    /\ CliAt(c, "refresh")
    /\ Refused(cli[c].token)
    /\ CliEnd(c)
    /\ UNCHANGED <<disk, memory, thread, lost>>

\* Mutant: the token that is used once more is also written.
CliFallsBackWritten(c) ==
    /\ CliAt(c, "refresh") /\ cli[c].cmd = "use"
    /\ Refused(cli[c].token)
    /\ CliGoto(c, "write")
    /\ UNCHANGED <<disk, memory, thread, lost>>

\* resolve_proactive_refresh: it has not expired yet, and is used as it is; it is
\* not written.
CliFallsBack(c) ==
    /\ CliAt(c, "refresh") /\ cli[c].cmd = "use"
    /\ Refused(cli[c].token)
    /\ CliGoto(c, "op")
    /\ UNCHANGED <<disk, memory, thread, lost>>

CliWrite(c) ==
    /\ CliAt(c, "write")
    /\ secrets' = [secrets EXCEPT ![cli[c].account] = cli[c].token]
    /\ lost' = lost \ {cli[c].account}
    /\ CliGoto(c, "op")
    /\ UNCHANGED <<accounts, memory, thread, provider>>

CliEnds(c) ==
    /\ CliAt(c, "op")
    /\ CliEnd(c)
    /\ UNCHANGED <<disk, memory, thread, provider, lost>>

\* The token a process holds in its hands when it fails or crashes is gone.
Dropped(step, account) == lost' = IF step = "write" THEN lost \cup {account} ELSE lost

\* A write fails, or the process is killed.
CliFails(c) ==
    /\ "crash" \in Faults \/ ("write" \in Faults /\ cli[c].step \in {"account", "secret", "write"})
    /\ cli[c].step \in {"refresh", "op", "write", "account", "secret"}
    /\ Dropped(cli[c].step, cli[c].account)
    /\ CliEnd(c)
    /\ UNCHANGED <<disk, memory, thread, provider>>

(***************************************************************************)
(* The application after account add or remove succeeded.                  *)
(***************************************************************************)

\* Of a command typed in a terminal the application does not learn.
Terminal(c) ==
    /\ CliAt(c, "done")
    /\ CliEnd(c)
    /\ UNCHANGED <<disk, memory, thread, provider, lost>>

\* refresh_accounts_in_memory: accounts.json and then the secrets, under the
\* lock of the state; a file that cannot be read ends it.
Reread(c) ==
    /\ CliAt(c, "done")
    /\ guiLock = Nobody
    /\ \/ /\ guiLock' = c
          /\ gui' = [gui EXCEPT !.accounts = accounts]
          /\ CliGoto(c, "rereadSecrets")
       \/ "read" \in Faults /\ CliEnd(c) /\ UNCHANGED <<gui, guiLock>>
    /\ UNCHANGED <<disk, running, thread, provider, lost>>

\* Mutant: the lock of the state is kept.
RereadSecretsLocked(c) ==
    /\ CliAt(c, "rereadSecrets")
    /\ gui' = [gui EXCEPT !.secrets = secrets]
    /\ CliGoto(c, "reread")
    /\ UNCHANGED <<disk, guiLock, running, thread, provider, lost>>

\* Then ensure_watchers takes the accounts it finds in memory.
RereadSecrets(c) ==
    /\ CliAt(c, "rereadSecrets")
    /\ guiLock' = Nobody
    /\ \/ /\ gui' = [gui EXCEPT !.secrets = secrets]
          /\ CliGoto(c, "reread")
       \/ "read" \in Faults /\ CliEnd(c) /\ UNCHANGED gui
    /\ UNCHANGED <<disk, running, thread, provider, lost>>

EnsureWatchers(c) ==
    /\ CliAt(c, "reread")
    /\ guiLock = Nobody
    /\ SetCli(c, [cli[c] EXCEPT !.step = "ensure", !.todo = gui.accounts])
    /\ UNCHANGED <<disk, memory, thread, provider, lost>>

Free(w) == thread[w] = IdleThread
Watch(a) ==
    \E w \in Threads :
        Free(w) /\ SetThread(w, [IdleThread EXCEPT !.step = "creds", !.account = a])

\* Mutant: whether the account has a watcher is looked up and not claimed.
EnsureOneUnclaimed(c, a) ==
    /\ CliAt(c, "ensure") /\ a \in cli[c].todo
    /\ SetCli(c, [cli[c] EXCEPT !.todo = @ \ {a}])
    /\ IF \E w \in Threads : thread[w].account = a /\ ThreadAt(w, "session")
       THEN UNCHANGED thread ELSE Watch(a)
    /\ running' = running \cup {a}
    /\ UNCHANGED <<disk, gui, guiLock, provider, lost>>

\* The next account: insert says whether it has a watcher already.
EnsureOne(c, a) ==
    /\ CliAt(c, "ensure") /\ a \in cli[c].todo
    /\ SetCli(c, [cli[c] EXCEPT !.todo = @ \ {a}])
    /\ IF a \in running THEN UNCHANGED thread ELSE Watch(a)
    /\ running' = running \cup {a}
    /\ UNCHANGED <<disk, gui, guiLock, provider, lost>>

Ensured(c) ==
    /\ CliAt(c, "ensure") /\ cli[c].todo = {}
    /\ CliEnd(c)
    /\ UNCHANGED <<disk, memory, thread, provider, lost>>

(***************************************************************************)
(* A watcher.                                                              *)
(***************************************************************************)

\* Mutant: an account that is gone is not noticed while its secret is there.
CredsGoneIfSecretGone(w) ==
    /\ ThreadAt(w, "creds")
    /\ guiLock = Nobody
    /\ thread[w].account \notin gui.accounts /\ gui.secrets[thread[w].account] = NoToken
    /\ ThreadGoto(w, "leaving")
    /\ UNCHANGED <<disk, memory, cli, provider, lost>>

\* creds_once: without the account or its secret in memory the watcher ends.
Known(a) == a \in gui.accounts /\ gui.secrets[a] # NoToken
CredsGone(w) ==
    /\ ThreadAt(w, "creds")
    /\ guiLock = Nobody
    /\ ~Known(thread[w].account)
    /\ ThreadGoto(w, "leaving")
    /\ UNCHANGED <<disk, memory, cli, provider, lost>>

\* A token that is about to expire, or was rejected, is refreshed.
CredsDue(w) ==
    /\ ThreadAt(w, "creds")
    /\ guiLock = Nobody
    /\ Known(thread[w].account)
    /\ SetThread(w, [thread[w] EXCEPT !.step = "refresh",
                                      !.token = gui.secrets[thread[w].account]])
    /\ UNCHANGED <<disk, memory, cli, provider, lost>>

CredsReady(w) ==
    /\ ThreadAt(w, "creds")
    /\ guiLock = Nobody
    /\ Known(thread[w].account)
    /\ ~thread[w].forced
    /\ SetThread(w, [thread[w] EXCEPT !.step = "session", !.again = FALSE])
    /\ UNCHANGED <<disk, memory, cli, provider, lost>>

WatchRefresh(w) ==
    /\ ThreadAt(w, "refresh")
    /\ Refresh(thread[w].token)
    /\ SetThread(w, [thread[w] EXCEPT !.step = "write", !.token = issued + 1])
    /\ UNCHANGED <<disk, memory, cli, lost>>

\* An error of the first attempt reads the disk again, one of the second waits.
Failed(w) ==
    SetThread(w, [thread[w] EXCEPT !.step = IF thread[w].again THEN "creds" ELSE "accounts",
                                   !.token = NoToken, !.again = FALSE])

\* The token has expired, or was rejected.
WatchRefused(w) ==
    /\ ThreadAt(w, "refresh")
    /\ Refused(thread[w].token)
    /\ Failed(w)
    /\ UNCHANGED <<disk, memory, cli, lost>>

\* It has not expired yet: it is used once more.
WatchFallsBack(w) ==
    /\ ThreadAt(w, "refresh")
    /\ ~thread[w].forced
    /\ Refused(thread[w].token)
    /\ SetThread(w, [thread[w] EXCEPT !.step = "session", !.token = NoToken, !.again = FALSE])
    /\ UNCHANGED <<disk, memory, cli, lost>>

\* update_secret, under the lock of the state, for an account that still has a
\* secret in memory; the whole table comes back with it.
WatchWrite(w) ==
    /\ ThreadAt(w, "write")
    /\ guiLock = Nobody
    /\ LET a == thread[w].account
       IN  \/ /\ gui.secrets[a] # NoToken
              /\ secrets' = [secrets EXCEPT ![a] = thread[w].token]
              /\ gui' = [gui EXCEPT !.secrets = secrets']
              /\ lost' = lost \ {a}
              /\ SetThread(w, [thread[w] EXCEPT !.step = "session", !.token = NoToken,
                                                !.forced = FALSE, !.again = FALSE])
           \/ /\ gui.secrets[a] = NoToken
              /\ Dropped("write", a)
              /\ ThreadGoto(w, "leaving")
              /\ UNCHANGED <<secrets, gui>>
           \/ /\ "write" \in Faults
              /\ gui.secrets[a] # NoToken
              /\ Dropped("write", a)
              /\ Failed(w)
              /\ UNCHANGED <<secrets, gui>>
    /\ UNCHANGED <<accounts, guiLock, running, cli, provider>>

WatchRereads(w) ==
    /\ ThreadAt(w, "accounts")
    /\ guiLock = Nobody
    /\ guiLock' = w
    /\ gui' = [gui EXCEPT !.accounts = accounts]
    /\ ThreadGoto(w, "secrets")
    /\ UNCHANGED <<disk, running, cli, provider, lost>>

WatchRereadsSecrets(w) ==
    /\ ThreadAt(w, "secrets")
    /\ guiLock' = Nobody
    /\ gui' = [gui EXCEPT !.secrets = secrets]
    /\ SetThread(w, [thread[w] EXCEPT !.step = "creds", !.again = TRUE])
    /\ UNCHANGED <<disk, running, cli, provider, lost>>

\* A file cannot be read: what was read before it stays.
WatchRereadFails(w) ==
    /\ "read" \in Faults
    /\ \/ ThreadAt(w, "accounts") /\ guiLock = Nobody
       \/ ThreadAt(w, "secrets")
    /\ guiLock' = Nobody
    /\ ThreadGoto(w, "creds")
    /\ UNCHANGED <<disk, gui, running, cli, provider, lost>>

\* idle_session ends: the account is gone or its rounds are over, the connection
\* broke, or the server rejected the token.
SessionEnds(w) ==
    /\ ThreadAt(w, "session")
    /\ \E rejected \in BOOLEAN :
        SetThread(w, [thread[w] EXCEPT !.step = "creds", !.forced = rejected])
    /\ UNCHANGED <<disk, memory, cli, provider, lost>>

\* The guard of the thread takes the account out of RUNNING.
Leave(w) ==
    /\ ThreadAt(w, "leaving")
    /\ running' = running \ {thread[w].account}
    /\ SetThread(w, IdleThread)
    /\ UNCHANGED <<disk, gui, guiLock, cli, provider, lost>>

(***************************************************************************)
(* The specification.                                                      *)
(***************************************************************************)

\* The application has loaded the accounts, each with a token of its own, and
\* setup is about to call ensure_watchers, in the place of a CLI process.
Init ==
    /\ accounts \in SUBSET Accounts
    /\ issued = Cardinality(accounts)
    /\ secrets \in [Accounts -> Secret]
    /\ \A a \in Accounts : secrets[a] \in IF a \in accounts THEN 1 .. issued ELSE {NoToken}
    /\ \A a, b \in accounts : secrets[a] = secrets[b] => a = b
    /\ live = 1 .. issued
    /\ gui = [accounts |-> accounts, secrets |-> secrets]
    /\ guiLock = Nobody
    /\ running = {}
    /\ thread = [w \in Threads |-> IdleThread]
    /\ \E c \in Clis :
        cli = [d \in Clis |-> IF d = c THEN [IdleCli EXCEPT !.step = "reread"] ELSE IdleCli]
    /\ lost = {}

CliStep(c) ==
    \/ SaveAccount(c) \/ SaveSecret(c) \/ UseRejected(c) \/ CliRefresh(c) \/ CliRefused(c)
    \/ CliFallsBack(c) \/ CliWrite(c) \/ CliEnds(c) \/ CliFails(c) \/ Terminal(c)

WindowStep(c) ==
    \/ Reread(c) \/ RereadSecrets(c) \/ EnsureWatchers(c) \/ Ensured(c)
    \/ \E a \in Accounts : EnsureOne(c, a)

Watching(w) ==
    \/ CredsGone(w) \/ CredsDue(w) \/ CredsReady(w)
    \/ WatchRefresh(w) \/ WatchRefused(w) \/ WatchFallsBack(w) \/ WatchWrite(w)
    \/ WatchRereads(w) \/ WatchRereadsSecrets(w) \/ WatchRereadFails(w)
    \/ SessionEnds(w) \/ Leave(w)

Start(c, a) == StartAdd(c, a) \/ StartRemove(c, a) \/ StartUse(c, a)

Next ==
    \/ \E c \in Clis : CliStep(c) \/ WindowStep(c) \/ \E a \in Accounts : Start(c, a)
    \/ \E w \in Threads : Watching(w)

Spec == Init /\ [][Next]_vars

\* The operating system schedules the threads of the application, every wait of
\* theirs is bounded (an IDLE round by four minutes, a request by its timeout), and
\* a thread that waits for the lock of the state gets it in the end.
FairSpec ==
    /\ Spec
    /\ \A w \in Threads : SF_vars(Watching(w))
    /\ \A c \in Clis : WF_vars(WindowStep(c))

(***************************************************************************)
(* Properties.                                                             *)
(***************************************************************************)

\* The types of the variables; the state is locked by whoever reads it again.
TypeOK ==
    /\ accounts \subseteq Accounts
    /\ secrets \in [Accounts -> Secret]
    /\ gui \in [accounts : SUBSET Accounts, secrets : [Accounts -> Secret]]
    /\ running \subseteq Accounts
    /\ thread \in [Threads -> ThreadState]
    /\ cli \in [Clis -> CliState]
    /\ live \subseteq 1 .. issued /\ issued \in 0 .. MaxToken
    /\ lost \subseteq Accounts
    /\ \/ guiLock = Nobody
       \/ guiLock \in Threads /\ ThreadAt(guiLock, "secrets")
       \/ guiLock \in Clis /\ CliAt(guiLock, "rereadSecrets")

\* watcher.rs:1 "每个账户一个后台线程" (one background thread for each account):
\* never two, although accounts come and go and threads leave late; and RUNNING
\* names exactly the accounts that have one.
OneWatcher ==
    /\ \A v, w \in Threads :
        (thread[v].account = thread[w].account /\ ~Free(v)) => v = w
    /\ running = {thread[w].account : w \in {v \in Threads : ~Free(v)}}

\* The token on disk is one the provider accepts, unless the process that has a
\* newer one is about to store it or failed to: nobody overwrites it with one
\* that was refreshed before (watcher.rs:404-405, cli.rs:180-181).
InHand(a) ==
    \/ \E c \in Clis : CliAt(c, "write") /\ cli[c].account = a
    \/ \E w \in Threads : ThreadAt(w, "write") /\ thread[w].account = a
StoredTokenLive ==
    \A a \in Accounts :
        (secrets[a] # NoToken /\ a \notin lost /\ ~InHand(a)) => secrets[a] \in live

\* store.rs:308-309: an account that is gone from memory is not watched for ever
\* with its old credentials.
RemovedNotWatched ==
    \A a \in Accounts : (a \notin gui.accounts) ~> (a \notin running \/ a \in gui.accounts)

\* App.tsx:1677 "将从本机移除账户…的配置和登录凭据" (removes the configuration and
\* the credentials of the account from this machine), and the test
\* account_remove_deletes_account_and_secret: while nobody adds or removes an
\* account, only accounts have credentials.
NoOrphan ==
    (\A c \in Clis : cli[c].step \notin {"account", "secret"})
        => \A a \in Accounts : secrets[a] # NoToken => a \in accounts
=============================================================================
