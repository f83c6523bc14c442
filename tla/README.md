# Formal models of SealMail

TLA+ models of the mail client in `src/`: a Rust core (`src/src-tauri/src`), shared by
a command-line program and a Tauri desktop application, with a React front end
(`src/src`).  Every definition is translated from the source; `PROJECT.json` maps each
one to the lines it stands for.  Source paths below are relative to
`src/src-tauri/src` unless they start with `src/`.

## 1. The system

### Processes

The desktop application does not read mail itself: for nearly every operation the
front end invokes `cli_json`, which starts a **CLI process** (`lib.rs`, `cli.rs`).
Several such processes run at the same time: the startup sync, the sync a new-mail
notification triggers, the backfill of older mail, and the user's own commands.  They
share nothing but the files on disk and the server.  The GUI process itself runs one
**watcher thread** per account and one **metadata backfill thread**.

### Components

| component | state it keeps | operations |
|---|---|---|
| IMAP folder synchronisation (`core.rs`, `imap_client.rs`, `db.rs`) | tables `messages` and `folder_state` of `mail.db`; the server's mailbox | `sync_messages`, `sync_older_messages`, `sync_imap_folder`, `move_message`, `archive_message`, `delete_message`, `set_read`, `set_flagged`, `organize_by_filters` |
| Folder sync lock (`sync_lock.rs`) | one `flock`ed file per account and folder | `try_acquire`, release by `Drop` or by the kernel |
| POP3 synchronisation (`core.rs`, `pop3_client.rs`, `db.rs`) | rows with a UIDL, table `pop_state`; the maildrop | `sync_messages`, `sync_older_messages`, local move, archive, delete |
| Mail database (`db.rs`, `store.rs`) | the rows; the cache of parsed mails above them | the statements of the parts above; `cache_get`, `cache_put`, `cache_remove`, `cache_clear` |
| Metadata backfill and list cache (`lib.rs`, `core.rs`, `db.rs`) | column `meta_json`; the flags DIRTY and RUNNING | `list_cached`, `spawn_meta_backfill`, `backfill_meta_batch`, `trust_sender`, `remove_trusted`, `get_message` |
| Accounts and configuration (`store.rs`, `core.rs`) | JSON files, each replaced atomically; a copy in the memory of the window's process | `save_account`, `remove_account`, `save_filter`, `delete_filter`, drafts, trusted contacts, preferences; `read_json`, `update_accounts_with`, `cli_json` |
| Secrets (`secrets_store.rs`) | the keychain entry and `secrets.json` (absent, plain map or marker) | `load_with`, `save_with`, `update_account_with` |
| OAuth (`oauth.rs`, `lib.rs`, `cli.rs`, `watcher.rs`, `src/src/components/AccountModal.tsx`) | the tokens in the secrets; the flows and listeners of logins, the dialog | login in the browser or by device code; proactive refresh, forced refresh after a rejection, retry |
| New-mail watcher (`watcher.rs`, `mac_notify.rs`, `src/src/App.tsx`) | the set RUNNING, UIDNEXT and EXISTS of a session, the mail a notification opens | `ensure_watchers`, IDLE session, POP3 poll, `emit_new_mail`, `open_pending_notification_mail` |
| Filter rules (`filters.rs`) | the list of rules, a configuration file | `plan_moves`, `rule_matches`, `would_move_out` |
| Verification and sending (`crypto.rs`, `mail.rs`, `smtp_client.rs`) | the mode and key of the signer, the trusted contacts | `sign_email`, `verify_message`, `send_mail` |
| Ledger device (`ledger.rs`) | the packets in flight between the application and the device | `sign_personal_message`, `exchange`, `get_address` |
| Front end (`src/src`) | the list on screen with its indicators, the requests whose answers are awaited | `loadMessages`, `handleLoadMore`, the commands on a mail, `openNotificationMail`; the login dialog and `pullPendingNotification`; rendering |
| CLI and GUI bridge, updater, notifications, logging, i18n | none of interest | a process per command; I/O |

### How they interact

Commands meet in `mail.db` (SQLite, one statement or one explicit transaction at a
time), in the sync lock, on the server and in the JSON files.  The watcher only tells
the front end that there is new mail (an event), and the front end answers by running a
`sync` command and then reading the list again.  Trust changes invalidate the metadata
of every row, which the backfill thread of the application computes again.  After each
command of the window, `cli_json` reads some of the JSON files again into the memory that
the watchers and the backfill thread use.

### What is hard

* **Interleaving and staleness.**  A sync decides on a scan of flags, a UID list or a
  `MAX(uid)` that it read some statements, and some network round trips, before.  The
  user's commands take no lock.  Most JSON files are changed without one.  A login goes on
  when its dialog has moved on.
* **Crashes and errors between writes.**  `clear_folder`, `set_uidvalidity` and the
  insertion of the new rows are separate writes; a command that changes the server and
  then the row may stop in between; accounts and secrets are two files.
* **Renumbering.**  A server may rebuild a mailbox under a new UIDVALIDITY at any time.
* **Late answers.**  The Ledger device answers requests that were given up, a consent page
  answers to a port that the next attempt has, a click arrives while a call is in progress,
  the list of a folder arrives when the user has chosen another one.
* **Scheduling.**  A lock that must be given back, a dirty flag that must be noticed, a
  watcher that must be running for every account.
* **Boundaries.**  Windows of the last *n* messages, a `max+1:*` search that always
  returns something, an empty table, counters that shrink, packets cut to size.

`PROJECT.json` lists each hazard at its line with the property that covers it.

### What makes each part correct

| component | properties |
|---|---|
| IMAP synchronisation | rows are never passed off under another UIDVALIDITY; a row is only dropped when the server has lost the mail; nothing between the lowest and the highest cached UID is missing; an undisturbed sync leaves its window exactly as the server has it; no new mail that a rule matches stays in the INBOX |
| Folder sync lock | a lock that is held is given back, whatever fails |
| POP3 synchronisation | a mail has one row and a number one mail; a sync forgets only what the server has lost; what was deleted for good does not come back; an undisturbed sync is complete |
| Cache of parsed mails | the entries are those used last, and each is its row as it stands, under the present trust |
| Metadata backfill | one scan at a time; no wake-up is lost; a row without metadata gets it once asked for; the trust in it is that of the newest list |
| Secrets | a marker points to an entry; an update changes one account and is what the next load finds; a load is no older than its start |
| Configuration files | changes of `accounts.json` are never lost; a damaged file costs no row; rules keep their rank; the window knows the accounts there are |
| OAuth tokens, watcher registry | one watcher per account; a live token is not overwritten by a dead one; a removed account stops being watched and leaves no credential |
| OAuth login | the tokens of the dialog are those of the login started last; an attempt only uses its own code |
| New-mail watcher | a mail is counted once; each click opens its mail |
| Mail list | what comes on screen is of the view that is drawn; the list is not left loading |
| Verification and sending | what shows as verified was written so by the trusted contact; what was sent and arrives intact is verified; a contact's name does not speak for another address |
| Ledger device | a signature that is used is that of the mail by the bound account; the owner is shown one whole message |

## 2. Modules

| module | models | abstracts |
|---|---|---|
| `MailCache` | what a local copy of an IMAP folder promises, without the commands | |
| `ImapSync` | one IMAP folder: `sync_messages`, `sync_older_messages`, the daily flow `sync_imap_folder`, move/archive/delete, read marks, `organize_by_filters`, the sync lock, and the server's mailbox | a mail is the pair (UIDVALIDITY, UID) and a read flag; a rule is a set of UIDs |
| `PopSync` | one POP3 account: sync and backfill into INBOX, the numbers of `pop_state`, local moves, deletion for good, deletion of a folder, RETR and QUIT failures | a mail is its place in the order of arrival, which is its UIDL |
| `MessageCache` | `mail_cache` and `mail_cache_order` beside the commands that change rows and trust | a mail is the renumbering it was read under and the trust it was judged by |
| `MetaBackfill` | the flags DIRTY and RUNNING, the worker, the callers of `spawn_meta_backfill`, trust changes and lists in the application and in CLI processes, restarts | a row's metadata is `none`, `garbled`, `current` or `old` (computed with an old trust list) |
| `ConfigStore` | the JSON tables: every process that reads them all and changes one, `accounts.lock`, `read_json`'s renaming of damaged files, deaths, what the window reads again | a row is an id and a value; what a damaged file held are the rows it had |
| `SecretMap` | what the secrets store promises: one table, changed one account at a time | |
| `SecretsStore` | `load_with`, `save_with` and `update_account_with` step by step, with a keychain and a disk that fail and processes that crash | the secret of an account is the number of the update that wrote it |
| `Credentials` | accounts.json, the secrets and the application's copy of both; account commands, token refreshes of CLI commands and of watchers, the reload after an account command, `ensure_watchers`, `RunningGuard` | a refresh token is a number; whether a token is due, expired or rejected is a choice |
| `OAuthLogin` | `startDeviceFlow` of the dialog with the commands it awaits: browser flow with its loopback listener, device flow with its polling | what is random is named by the attempt it was drawn for |
| `NewMail` | the counting of new mail from UIDNEXT, EXISTS or the size of the maildrop, the banner, `PENDING`, `pullPendingNotification`, the clicks on macOS | a mail is its number of arrival |
| `MailList` | the list of a folder in `App.tsx`: the requests numbered by `LatestRequest`, the three indicators, the commands that refresh the list, `openNotificationMail`, views that vanish | a list is the view whose mail it holds |
| `Seal` | the hashes, canonical strings and headers of the three versions, `verify_headers`, `verify_message`; operators only | a hash is what it is taken of, a signature the pair of key and text |
| `SealedMail` | `send_mail` with `sign_email`, trust commands, the reader, and gateways that change mails on their way | people, parts and dates are small sets |
| `Ledger` | `sign_personal_message`: APDU chunks, HID frames, the read loop and its timeout, the check of the signature; the device and its owner | packets and APDUs are shorter, a byte is where it comes from |

`MC*.tla` give the constants that need an expression and the symmetry sets, and put several
instances under one run; `*Proofs.tla` hold the theorems; `Retain` is `Vec::retain` as a
recursive function, about which proofs are possible.  `MailCache` is instantiated by
`ImapSync` (`Contract`), `SecretMap` by `SecretsStore` (`Map`).  `SealedMail` extends `Seal`.
`Credentials` takes one update of the secrets as one step, which is what `SecretsStore` shows
(`ImplementsMap`), and one change of `accounts.json` as one step on the latest table, which is
what `ConfigStore` shows (`TablesExact`).

### Runs of several instances

Parts that share no state need no product: in `MCParts`, `MCWindow`, `MCImapInstances`,
`MCPopInstances` and `MCLive` an extra variable (`part`, `scene`, `instance`) is chosen in the initial state and never
changes, and only the part it names takes steps.  A behaviour of such a module is one of one
instance, so the reachable states are the sum of those of the instances.  `MCParts`,
`MCWindow` and `MCLive` extend the modules they put together, whose names differ for that, so
the properties they check are the modules' own; that such a behaviour is one of each module's
specification is proved (section 6).

* `MCImapInstances`: R (syncs and backfills, renumbering and expunges, failures at every step
  but inside the batch of the backfill), U and V (syncs beside move and read commands; V also
  with marks of another client).  All have a filter rule; U and V have the constants of R except
  for the window of the backfill, commands, events and failures, and a bound on the UIDs
  (`FirstUnused`).
* `MCPopInstances`: S (sync, backfill, moves, deletion of a folder) and P (sync, deletion for
  good, moves, RETR failures).
* `MCParts`, what works without the window: `SecretsStore`, `ConfigStore`, `SealedMail`,
  `Ledger` and `MessageCache`.
* `MCWindow`, what goes on around it: two instances of `NewMail` (an IMAP account on the
  desktop, a POP3 account on a Mac), `OAuthLogin` and `MailList`.
* `MCLive`: `ImapSync` with the daily flow, and `MetaBackfill`, under fairness.

### How state and actions correspond to the code

A process is its program counter (`pc`; `step` in `Credentials` and `MetaBackfill`) and its
local variables (`mem`; `task` in `MetaBackfill`).  One action is one statement that reads or writes something shared: a
request to the server, an SQL statement or transaction, an access to the keychain or to a
file, a section under a mutex, a packet on the USB transport, an awaited call of the front
end.  What the code computes in between is part of the action that ends it.  So the models
interleave where the program can be interrupted and nowhere else.  `Abort` (ImapSync,
PopSync), `Crash` (SecretsStore), `Die` (ConfigStore), `CliFails` (Credentials), `ReadTimeout`
(Ledger) and `Restart` (MetaBackfill) stand for an error that is returned with `?`, a killed
process, a timeout and a restarted application; `AbortAt`, `CrashAt` and `Faults` name the
steps at which an instance lets them happen.

The server is an environment: mail arrives, is expunged, is marked by another client, or the
mailbox is rebuilt, at any moment (`ServerStep`).  The OAuth provider rotates refresh tokens,
that is, a token works once; the source takes care of such providers (`oauth.rs:124-125`).
The Ledger device, its owner, the browser, the login service and the ports of the operating
system are modelled from how the code uses them; their definitions are marked external in
the map.

`quiet`, `purged`, `lost`, `owed` and `failed`, and in the other modules the variables marked
`history`, are observers: they record what happened and no action is guarded by them.

## 3. Runs

| run | question | instance | result |
|---|---|---|---|
| `imap_sync` | Is the cache trustworthy, without holes and a refinement of `MailCache` while syncs and backfills fail and crash, the mailbox is rebuilt, users move and mark mails and a rule files new mail? | 2 processes; R: 4 UIDs, 2 UIDVALIDITYs, windows of 2; U: 3 UIDs; V: 2 UIDs | holds |
| `imap_backfill_abort` | What if the backfill fails inside its batch? | 1 process | **violated**: see section 5 |
| `pop_sync` | One row per mail, nothing forgotten that exists, complete after an undisturbed sync, no resurrection | 2 processes; S: 3 mails, one filtered; P: 2 mails | holds as long as QUIT succeeds |
| `pop_two_locks` | Do two syncs of one account exclude each other? | 2 processes, INBOX and a local folder | **violated** |
| `parts` | Is an update of the secrets atomic and lasting? Are changes of the tables lost, or rows of damaged files? Do rules keep their rank, and does the window know the accounts? Does what is verified deserve it? Is a signature that of the mail? Is the cache of mails sound? | 2 processes and 2 accounts; 2 processes at a time, 3 commands out of 8, 3 tables, 1 damage; 3 people, 4 drafts, 2 mails, 1 change on the way; messages of 1 and 3 APDUs, 3 requests; 3 folders of 2 UIDs, capacity 2 | holds |
| `window` | Is a mail counted once? Whose tokens does the dialog have? Whose mail does the list show, and is it ever left loading? | 2 mails, 2 banners; 2 attempts, 2 ports; 2 views, 2 requests waiting | holds |
| `live` | Is the lock always given back, are requests for a backfill served, is the delete detection sound beside the daily flow? | 2 processes, 2 UIDs, failures at every step but in the batch; 2 workers, 2 callers, 1 CLI process, 1 restart | holds, on a server that keeps its UIDVALIDITY |
| `meta_trust` | Is the trust in the metadata the newest? | 2 workers, 1 caller, 1 CLI process | **violated** |
| `creds_two_clis` | One watcher, no dead token written, no removed account watched | 1 account, 2 threads, 2 CLI processes, 2 tokens, failing reads and writes | holds |
| `creds_orphan` | Does a removal leave a credential? | 1 account, 1 thread, 1 CLI process | **violated** |
| `click_lost` | Does each click on a banner open its mail? | 1 account on a Mac, 2 banners | **violated** |
| `list_switch` | Is what comes on screen always the view that was chosen? | 2 views, 2 requests waiting | **violated** |

**Why these bounds.**  The interesting cases of a sync need a window that is smaller than the
mailbox (so that there is mail below it), at least one mail above and one below the highest
cached UID, and a second UIDVALIDITY: four UIDs, windows of two and two epochs give all of
them, and a hole needs three cached positions.  The sync lock lets one sync in at a time, so
two processes give every pair of a command that has the lock and one that has not, or
that finds it taken.  In `PopSync` three mails and a window of one make the first sync
partial, the second one incremental and the backfill necessary; one number more than is
needed lets one be lost by a crash.  Two workers are what RUNNING can tell apart: one that
stops and one that a caller has just started; two callers race for it.  Two threads and two
CLI processes give a watcher that leaves while its account is added again and two
refreshes of the same token; two tokens are one rotation after an authorisation.

In `ConfigStore` two processes are what a stale copy needs, a third command lets one follow
their race, and the three tables are one of each kind: read again by the window and locked,
read again and unlocked, and not read again.  Two mails and one change give `SealedMail` a
mail that carries a header of the other one; clocks that are behind and ahead by more than
is allowed, with `MaxAgeDays` = 1, reach both ends of the time check.  Three requests give
`Ledger` an answer that arrives during the next request and one that arrives after two; a
message of one APDU and one of three mix in every way.  A cache of two with three used keys
evicts one.  Two mails and an expunge take UIDNEXT and EXISTS apart.  Two attempts and two
ports give an attempt the port of the other, and two changes of the dialog bring back the
provider of the first.  In `MailList` two views are the chosen one and the one before, and two
waiting requests (`MaxAwaited`) the current one and one it has superseded; one command on a
mail and one notification at a time are bounds of the module.

Symmetry (of processes, and of accounts in `parts`) is used only in runs without liveness.
Deadlock checking is on in every run: no configuration switches it off.  Modules that bound
what happens (`NoMoreRuns` in `ConfigStore`, `NoMoreRequests` in `Ledger`, `Rest` in
`OAuthLogin`) have a disjunct that stutters when the instance has used up its commands, requests
or attempts.

## 4. Fairness

* `ImapSync.FairSpec`: weak fairness of each process's next statement (`Run(p)`), not of
  starting a command.  A started process is scheduled by the operating system, and every
  wait of its own is bounded by a network or lock timeout, after which it fails (`Abort`).
* `MetaBackfill.MetaFairSpec`: weak fairness of a worker (`Work(w)`) and of a caller inside
  `spawn_meta_backfill` (`Wake(g)`); both are threads of the application that wait for
  nothing but a mutex held for the length of a batch.  Nothing makes a user act.
  `MCLive!LiveSpec` is both of these, each where its part runs.
* `Credentials.FairSpec`: weak fairness of the window's steps after an account command,
  strong fairness of a watcher.  A watcher waits for the mutex of the application's state,
  which is taken and given back again and again; a thread that asks for it gets it in the
  end.  An IDLE round ends after four minutes (`IDLE_ROUND`) and a connection after six
  rounds.
* `NewMail.FairNoticeSpec` (run `click_lost`): weak fairness of the answer to a call of the
  window and of its handling.  The click and the focus are the user's.

Liveness under fairness is checked by TLC only.

## 5. What the checks found

* **A hole after a failed backfill** (`imap_backfill_abort`, `core.rs:775`).
  `sync_older_messages` inserts its batch row by row, lowest UID first, outside a transaction;
  the next backfill continues below the lowest row.  A failure inside the batch leaves the rest
  of it out for good.  In `imap_sync`, where processes fail anywhere but inside that loop,
  `NoHole` holds.
* **Two POP3 syncs at once** (`pop_two_locks`, `core.rs:585`).  The lock is that of the folder
  the caller named, but every POP3 sync works on INBOX.
* **Metadata with an old trust list** (`meta_trust`, `core.rs:312`).  The window changes trust
  through a CLI process; the application's own copy of the list stays as it was at its start,
  and with it the application fills in the metadata that the CLI process has just cleared.
  Beside it: the window's trust, list and sync commands all run in CLI processes and wake no
  backfill worker in the application, so rows they clear or insert are shown as placeholders
  until something in the application calls `spawn_meta_backfill`.  The filter rules have the same
  cause (`lib.rs:226`): `cli_json` reads only the preferences and the accounts again after a
  command of the window, so a rule that the window has saved does not reach the watchers, which go
  on showing banners for the mail it moves.  No run is spent on that.
* **A credential without an account** (`creds_orphan`, `watcher.rs:410`).  A watcher that is
  waiting for the provider when its account is removed writes the new token back, since the
  account is still in the application's memory.
* **A click that opens nothing** (`click_lost`, `src/src/App.tsx:905`).  A click on a banner
  while the window is still handling the answer to its previous question is dropped, and the
  mail is asked for again only at the next focus or reload, when it may be too old.
* **The list of the folder before** (`list_switch`, `src/src/App.tsx:1072`).  A command on a mail
  calls, when it has succeeded, the `loadMessages` of the rendering it was begun in.  If the user
  has chosen another folder by then, that call is the newest request: it supersedes the one of the
  chosen folder and puts the mail of the old folder on screen.  `StaleAnswersDropped` says what
  does hold: every other answer to a request of a view the user has left is dropped.
  Seen on the way, without a run: `handleLoadMore` (`App.tsx:603`) during a sync makes the sync's
  number stale, so that nobody puts its indicator out until the next `loadMessages`, and the other
  way round for the indicator of older mail.

Limits of what holds: a sync fails as a whole when the filter step fails after the mail
was committed (`core.rs:688`), and no later sync applies the rules to that mail;
`NoResurrection` needs QUIT to succeed, because a POP3 server deletes only then; and
`TablesExact` and `DamageKeepsRows` promise nothing of an unlocked table that a process has written
from a copy older than the file (`raced`), where the later write takes the earlier one back.

## 6. Proofs

All theorems hold for every value of the constants that the named assumptions allow;
`TLAPS` checks every leaf.  Every safety property and every action property that a passing run
checks is proved; some theorems are about invariants that no run is spent on.

* **`ImapSyncProofs`**, under `ConstantsAssumption`.  `TypeCorrect` is unconditional.
  `InductiveInvariant`, `Trustworthy` (`RowsTrustworthy`) and `DeletesOnlyLostMail`
  (`DeleteSound`) assume that the daily flow does not run (`"daily" \notin Commands`): it changes
  the folder without the lock, and with it `Inductive` is false.  `RowsTrustworthy` alone is not inductive: that a
  commit keeps it depends on what the process has in its hands.  `Inductive` adds, per process
  and statement, what is known there: `Owner` (which commands are at which statements, and that
  the two that insert rows hold the lock), `BeforeSelect` and `AfterSelect` (the stored
  UIDVALIDITY is the session's, or the table is empty because the reset has emptied it), and
  `ScanSound` (what the scan of flags did not see, between the lower bound and the old maximum,
  the server has lost for good, because UIDs are never given out twice under one UIDVALIDITY).
  `DeletesOnlyLostMail` is `ScanSound` at the step that deletes a row.

  `DeletesOnlyLostMailBesideDaily` is the same property with the daily flow, if the mailbox is not
  rebuilt (`"newvalidity" \notin Events`).  `Lasting` gives up what a sync knows of the table,
  which the daily flow may clear and refill between any two of its statements, and keeps what it
  knows of the server: every UID a command has read, in the table or on the server, was given out
  (`GivenOut`), so one that the scan did not see will never be used again (`ScanHolds`).  With
  both, a daily flow and a rebuild, the property is false (a sync deletes rows the daily flow has
  just written), which TLC shows on an instance with both.

  `RulesEmptyInbox` (`FilteredLeaveInbox`) needs little more: while a sync has the lock nobody else
  adds a row, and `Filed` says which of the rows a rule matches it has yet to delete.

  Three more theorems stand on `Inductive`, each invariant containing the one before.
  `ImplementsContract` (`KeepsContract`, the refinement): `Implementing` adds why a step that
  changes rows is one of `MailCache`.  The reasons lie some statements back (`Fit`): a batch meets no row
  because it lies below the lowest row read before; a folder that is cleared has an outdated
  stamp or is empty; a row that a rule or a user's move deletes is of mail that left the server
  before.  It has one hypothesis more, `NoMoveAcrossRebuild` (no user's move or no new
  UIDVALIDITY): `MoveRow` deletes whatever row has the UID by then, so a rebuild and a sync
  between the two halves of a move cost the cache a mail the server has, which TLC shows on an
  instance with both.
  `NothingMissingInside` (`NoHole`): `HoleInv` says what the process with the lock knows of the rows
  around those it is about to add: nothing is missing up to the highest row it read (`UpTo`)
  and between that row and its new mail (`Above`), or, for a backfill, from the lowest row on
  (`From`) and between it and the batch (`Below`); what the server receives meanwhile lies above
  everything.  `"insert" \notin AbortAt` is a hypothesis because without it the property is false
  (section 5).
  `UndisturbedSyncIsExact` (`SyncExact`): for a process that is `quiet`, `Exact` carries from SELECT to
  the last statement what is already right, what is fetched and not yet written, and which rows are
  still to be brought up to date or deleted.  It needs `NothingMissingInside`'s hypotheses: the
  window of flags is the server's only if no message is missing inside it.
* **`PopSyncProofs`**, under `PopAssumption` and `OneLock` (all syncs lock one folder; with more, the
  run `pop_two_locks` shows what goes wrong), for any mails, numbers, processes and windows.
  `TypeCorrect` (`TypeOK`), `StoredOnce` (`Distinct`), `ForgetsLostMailOnly` (`SyncForgetsOnlyLost`),
  `UndisturbedIsComplete` (`SyncComplete`) and `DeletedStaysAway` (`NoResurrection`).  `Inductive` says
  of the process with the lock that the number it is about to use is above every number in use, although
  the SELECT, the REPLACE in `pop_state` and the INSERT are apart, that it fetches only mails
  without a row, and that what it has listed holds every stored mail the server still has.
  For completeness `QuietInv` says of a process that is `quiet` (`Watched`): every mail it wants is
  stored or still to be inserted, every row of a lost mail is listed for deletion, and a filtered
  mail of this sync is where it was put until a rule files it.
  For the mails deleted for good, `PurgeInv` says that a mail which is deleted, or which a
  process is deleting, is stored or `Dead` (not on the server, and in the hands of no sync), and
  that a row the deletion is about to remove still names that mail.
  `DeletedStaysAway` assumes `"quit" \notin Events` (a POP3 server deletes at QUIT) and
  `"rmdir" \notin Commands`: `delete_folder` takes no lock and drops the row of a mail that another
  process is deleting, so that a sync may download it once more before it goes from the server;
  TLC shows that too.
* **`SecretsStoreProofs`**, under `SecretsAssumption`, for any faults and crashes.
  `InductiveInvariant` and, as parts of it, `TypeCorrect` (`TypeOK`) and `MarkerPointsToEntry`
  (`MarkerHasEntry`: a marker in the file has its entry in the keychain); `UpdatesLast`
  (`UpdateTakesEffect`): an update that reported success is in force; `LoadsAreFresh`
  (`LoadFresh`).  Both follow from `FreshInv`, where a table's tag is the update that wrote it: the
  tag of the table in force only grows, none is newer than the clock, and a load that holds no
  lock began no later than the table in force while it has yet to read the file, no later than the
  keychain entry's while it has yet to read that, and no later than what it returns.
  `Implementation` (`ImplementsMap`): each step is a step of `SecretMap` or a stutter.  The invariant says what
  the holder of `secrets.lock` has in its hands (`Holder`: the table in force with one account
  changed, or, before the store is founded, the empty one) and that the keychain entry is
  written before the marker that points to it.
* **`ConfigStoreProofs`**, under `ConfigAssumption` (the files are distinct, and preferences,
  accounts and rules are among them), for any tables, processes, commands and damages.
  `ChangesOnLatest` (`TablesExact`) and `DamageCostsNoRow` (`DamageKeepsRows`).  Neither is
  inductive: what a commit writes is what its process read some steps before.  `StoreInv` adds
  what each process knows (`Knows`): a table that nobody has written since it was read is the
  one of the file or, when the file was damaged since, holds every live row that no copy holds; a process about
  to rename a file has seen it damaged, even if it has been repaired since; and who is
  about to write a locked table holds the lock and has read the latest one.  The proof has a
  lemma per action; `BackUpKeepsKnown` (renaming a file takes nothing from what others know)
  and `CommitKnown` (a write ends what others know of that table, and of no other) carry it.

  `ConfigTypes` (`ConfigTypeOK`), `RulesInOrder` (`RulesKeepRank`) and `WindowKnowsAccounts`
  (`AccountsInWindow`) add what a table is: its ids are distinct in every file, in the window and in
  every process (`TableInv`, where a table that nobody has written since it was read is the file's
  or one of the two is empty), and the window's copy is the file's unless a command of the
  window is still to be reported (`WindowInv`).  `WithoutKeeps` says what `retain`
  leaves of a table of any length, in which order; `WithoutRow` is a recursive function, and the
  lemma takes the least length at which it would fail (`LeastIndex`, from the well-foundedness of `<`) instead
  of an induction.  `RulesKeepRank` had to be stated more weakly than at first: a process that
  writes the rules from a copy older than the file may bring back an old order, which TLC
  shows with two processes and five commands, so the property excepts that (`raced`).
* **`MetaBackfillProofs`**, for any number of workers, callers and rows.  `SingleScanner`
  (`OneScanner`) and `WakeupsKept` (`NoLostWakeup`); the two are inductive together with the
  types of the flags, but not apart: that the worker which resets RUNNING is the only one is
  what makes its second look at DIRTY sufficient.
  `MetaTypes` (`MetaTypeOK`), under `RowsAssumption` (finitely many rows, UIDs from 1): `Contents`
  is what the rows, the trusted contacts and the counters hold, `Memories` what each worker
  holds, among it that a worker at the batch has a folder left (`Busy`), so that `Head` of its
  list is one.
  `LiveKeepsSpecs`: a behaviour of `MCLive` is one of `ImapSync` and one of `MetaBackfill`.
  `LiveSafety` is what follows for the run `live`: `OneScanner`, `NoLostWakeup`, and `DeleteSound`
  beside the daily flow.
* **`CredentialsProofs`**, under `CredentialsAssumption`, for any accounts, threads, processes
  and faults.  `TypeCorrect` (the lock of the state is part of the type invariant) and
  `OneWatcherEver` (`OneWatcher`).  The invariant adds that a busy thread has an account: a
  thread keeps its account and RUNNING until its last step, and `insert` claims the account in
  the same step as it looks it up.
  `StoredTokenIsLive` (`StoredTokenLive`): `TokenInv` says that a token is only ever one account's
  (`Owned`), that a token somebody has just got from the provider is accepted and in nobody
  else's hands, on disk or in memory (`FreshOK`), and that a process which removes an account has none to store.
  A refresh makes invalid only the token it was called with, so it can only touch the stored
  token of its own account, which it is about to replace.
* **`WindowProofs`**, what runs beside the window.  `NoMailCountedTwice` (`CountsOnce`), for any
  accounts and mails: the invariant `CountInv` says, per watcher, that what EXISTS would still
  add fits into what has arrived since the first look, and that UIDNEXT never falls behind what
  was counted: so a watcher may change from one counter to the other at any look.
  `LateAnswersIgnored` (`TokensOfLastLogin`) and `OnlyOwnCodeSent` (`OwnCodeOnly`), for any
  attempts, changes of the dialog and ports: `LoginInv` adds that an attempt as young as the
  dialog has its provider, and that an attempt stands only where its own kind of flow leads.
  `OneListenerPerPort` (`LoginTypeOK`, under `LoginAssumption`: a port is no missing value): the dialog
  and its attempts end in any order, and `PortOK` says for each attempt that it has a listener
  exactly while its flow is to be finished or is being finished, a begun one that the dialog has
  given up included.
  `BannersOpenOnce` (`NoticeTypeOK`, under `NoticeAssumption`): `NoticeInv` follows a mail from
  arrival to the window.  `KnownMails` bounds what a watcher has read; `InLine` says that a banner is
  in one place only (still clickable, due, told to the window, or opened), which is what
  keeps the window from opening it twice, and that those places are in order where showing a
  banner records its mail; on a Mac, where clicks do, only the first part holds.

  *`MailList`*, for any views and any bound on the requests: `LateListsDropped`
  (`StaleAnswersDropped`), `LoadingEnds` (`LoadingAnswered`) and `ListTypes` (`ListTypeOK`).  `ListInv`
  says that a current request which no late command has begun is of the view that is drawn; so an
  answer that passes the check of its number shows the drawn view, unless the request was a stray
  one.

  `ScenesKeepTheirSpecs`: a behaviour of `MCWindow` is one of `NewMail`, of `OAuthLogin` and of
  `MailList`; `WindowTypes` (`WindowTypeOK`) is the conjunction of their type invariants.
* **`MailProofs`**, about three components that share the lemmas about `Retain` (`WindowProofs`
  extends it for them), and about `MCParts`, which puts them beside the two stores:
  `PartsKeepTheirSpecs` (a behaviour of `PartsSpec` is one of each of the five specifications) and
  `PartsTypes` (`PartsTypeOK`).

  *`SealedMail`*, under `SealAssumption` and `SealedAssumption` (what is missing is no value, a
  hash of nothing is no value, a gateway's values and the clocks are what the model says they are),
  for any people, drafts, clocks, contacts and gateways: `VerifiedMailIsGenuine`
  (`VerifiedIsGenuine`), `IntactMailIsVerified` (`IntactIsVerified`) and `NamesAreNotBorrowed`
  (`NameNotBorrowed`).  `SealInv` says that every mail which was sent has the headers of its own
  parts and of the key that signed it (or none), and that the signature of the mail in the inbox,
  whatever else was changed, is one of a mail that was sent.  The rest is about `Canon`:
  `HoldsForSent` shows that a signature which holds over what the mail says now was made for a
  mail that says the same (that keys cannot be forged and hashes do not collide is how the model
  abstracts them).
  `OneKeyPerContact` (`SealTypeOK`): a list of contacts that starts with one entry per address,
  as `SealedAssumption` asks, keeps one, and `Sourced` says where the parts of the mail in the
  inbox come from.
  *`Ledger`*, under `LedgerAssumption` (messages are not empty, the path leaves room in the
  first APDU, a packet carries something, and the account is of one of the devices), for any
  messages, lengths, devices and requests: `UsedSignatureIsGenuine` (`UsedSignatureIsOfTheMail`) and `OwnerSeesOneMessage`
  (`OwnerSeesWholeMessage`).  `SignInv` has a queue of labels (`Queue`), a message and a number in it
  for each APDU the device has still to handle: each is the first of a message or comes after
  the one before it, the device has collected what belongs to the label handled last, and the application goes on
  where the last label ends.  It holds although a request may be given up after any APDU,
  because the next one starts with P1 = 0.  Its lemmas are about the encodings:
  `DeframeFrame` (packets are put together to the APDU that was cut, for every length), `ChunkList`,
  `GotGrows` and `GotComplete` (APDUs one after the other give the message, which is complete with
  the last one and not before).
  `OneApduAtATime` (`SigningTypeOK`) adds the application's side to it (`RequestInv`).
  *`MessageCache`*, under `CacheAssumption`, for any folders, numbers and capacity:
  `CachedMailIsSound` (`CacheSound`).  `CacheInv` adds that a number of a POP3 account is in one
  folder, as a row or as an entry, that an entry of a POP3 account is of its only numbering, and
  that an entry of an IMAP folder which was not deleted has its row.  `MapAndOrderAgree`
  (`CacheTypeOK`): `TidyInv` says that map and order have the same keys, each once, and no more
  than the capacity.

TLC evaluates each of the assumptions in the runs of the modules that declare them.

Only model-checked: the liveness properties `LockReleased`, `FillsAfterRequest` and
`RemovedNotWatched` (and `EachClickOpens`, which does not hold).  Liveness under fairness is beyond
the prover, as is `ENABLED`.  The properties of the violation runs are not theorems, of course:
`NoHole`, `SyncForgetsOnlyLost` are proved under the hypotheses that those runs break.

## 7. What is not modelled

Because it is I/O, formatting or a library's work: the SMTP session, the updater, banners as
the system shows them, logging, translations, argument parsing, MIME, charsets and HTML, the
encoding of addresses and dates, the USB transport below a packet, the loopback HTTP request,
TLS, and rendering.

Because the answer is a comparison and no state: the match of a rule with the text of a mail
(a rule is a set of mails), risk words, threading, POP3 dot-unstuffing, modified UTF-7 and
paging queries.

Left out of modelled parts: several folders of one IMAP account at once (they share no rows),
`delete_folder` on IMAP, the identity of what a user's command meant across a renumbering,
the Tauri commands `fresh_secret` and `force_refresh_secret` (the front end has no caller of
them), an application restart in `Credentials`, the length of reconnect delays and of the
life of a pending notification (time is a choice), and, of the mail list, the drafts (which are not
fetched), searches and the selected mail.  The numbers of `LatestRequest` only grow and are only
compared for equality: `MailList` keeps, of each request, whether it is the current one.
