---------------------------- MODULE MessageCache ----------------------------
(***************************************************************************)
(* The parsed mails that a process keeps (StoreData.mail_cache): a map and *)
(* the order in which its keys were used last.  An entry is a mail as it   *)
(* was parsed from its row, with a tag that depends on the contacts that   *)
(* were trusted then.  The commands of one process run one at a time, and  *)
(* each of them does for the cache what it does for the rows.              *)
(*                                                                         *)
(* A row is found by folder and UID; the mail it holds is told by the time *)
(* (epoch) its folder was last numbered, or by where it was filed from.    *)
(***************************************************************************)
EXTENDS Retain, Integers, SequencesExt

CONSTANTS
    Imap, Pop,      \* folders of an IMAP account, and of a POP3 account
    MaxUid,         \* bound: UIDs of a folder
    MaxEpoch, MaxTrust,     \* bounds: renumberings, changes of the contacts
    Cap             \* MAIL_CACHE_CAP, 256

ASSUME CacheAssumption ==
    /\ Imap \cap Pop = {}
    /\ Cap \in Nat /\ MaxUid \in Nat

VARIABLES
    rows,           \* UIDs that have a row, per folder
    epoch,          \* how often the folder has been numbered
    next,           \* pop_next_uid: the number the next POP3 mail gets
    trust,          \* how often the contacts have changed
    cache, order,   \* mail_cache, mail_cache_order
    used,           \* history: keys in the order of their last use, none evicted
    dropped         \* history: folders that were deleted

cacheVars == <<rows, epoch, next, trust, cache, order, used, dropped>>

Folders == Imap \cup Pop
MailKeys == Folders \X (1 .. MaxUid)
Drop(seq, key) == Retain(seq, {key})
Touched(seq, key) == Append(Drop(seq, key), key)
Parsed(k) == [epoch |-> epoch[k[1]], trust |-> trust]

CacheInit ==
    /\ rows = [f \in Folders |-> {}] /\ epoch = [f \in Folders |-> 1] /\ trust = 0 /\ next = 1
    /\ cache = <<>> /\ order = <<>> /\ used = <<>> /\ dropped = {}

-----------------------------------------------------------------------------
(* The cache.                                                              *)

Without(map, keys) == [k \in DOMAIN map \ keys |-> map[k]]

\* cache_put: the oldest ones go when there are too many.
Put(key, mail) ==
    LET all == Touched(order, key)
        excess == IF Len(all) > Cap THEN Len(all) - Cap ELSE 0
        evicted == ToSet(SubSeq(all, 1, excess))
    IN  /\ order' = SubSeq(all, excess + 1, Len(all))
        /\ cache' = [k \in (DOMAIN cache \cup {key}) \ evicted |->
                        IF k = key THEN mail ELSE cache[k]]
        /\ used' = Touched(used, key)

\* cache_remove, for each of the keys.
Forget(keys) ==
    /\ cache' = Without(cache, keys)
    /\ order' = Retain(order, keys)
    /\ used' = Retain(used, keys)

-----------------------------------------------------------------------------
(* The commands.                                                           *)

\* Mutant: reading an entry does not make it a recent one.
HitUntouched(k) ==
    /\ k \in DOMAIN cache
    /\ used' = Touched(used, k)
    /\ UNCHANGED <<rows, epoch, next, trust, cache, order, dropped>>

\* cache_get.
Hit(k) ==
    /\ k \in DOMAIN cache
    /\ order' = Touched(order, k) /\ used' = Touched(used, k)
    /\ UNCHANGED <<rows, epoch, next, trust, cache, dropped>>

\* get_message, when the mail is not in the cache.
Miss(k) ==
    /\ k \notin DOMAIN cache /\ k[2] \in rows[k[1]]
    /\ Put(k, Parsed(k))
    /\ UNCHANGED <<rows, epoch, next, trust, dropped>>

\* sync_messages of a folder that has another UIDVALIDITY, or no rows.
SyncReset(f, new, uids) ==
    /\ f \in Imap /\ (new \/ rows[f] = {})
    /\ new => epoch[f] < MaxEpoch
    /\ epoch' = IF new THEN [epoch EXCEPT ![f] = @ + 1] ELSE epoch
    /\ rows' = [rows EXCEPT ![f] = uids]
    /\ Forget({k \in MailKeys : k[1] = f})
    /\ UNCHANGED <<next, trust, dropped>>

\* sync_messages, sync_older_messages: a mail that is not stored yet.  The numbers of
\* a POP3 account are used once.
Insert(f, u) ==
    /\ f \in Imap /\ rows[f] # {} /\ u \notin rows[f]
    /\ rows' = [rows EXCEPT ![f] = @ \cup {u}]
    /\ UNCHANGED <<epoch, next, trust, cache, order, used, dropped>>

InsertPop(f) ==
    /\ f \in Pop /\ next <= MaxUid
    /\ rows' = [rows EXCEPT ![f] = @ \cup {next}]
    /\ next' = next + 1
    /\ UNCHANGED <<epoch, trust, cache, order, used, dropped>>

\* sync_older_messages of a folder without rows: what it stores is of the server's
\* numbering now.
InsertOlder(f, uids, new) ==
    /\ f \in Imap /\ rows[f] = {}
    /\ new => epoch[f] < MaxEpoch
    /\ epoch' = IF new THEN [epoch EXCEPT ![f] = @ + 1] ELSE epoch
    /\ rows' = [rows EXCEPT ![f] = uids]
    /\ UNCHANGED <<next, trust, cache, order, used, dropped>>

\* A mail is gone from the server, was moved, archived, filtered or deleted.
DeleteRow(k) ==
    /\ k[2] \in rows[k[1]]
    /\ rows' = [rows EXCEPT ![k[1]] = @ \ {k[2]}]
    /\ Forget({k})
    /\ UNCHANGED <<epoch, next, trust, dropped>>

\* move_message, archive_message, organize_by_filters of a POP3 account: the entry goes
\* with the row.
Refile(k, target) ==
    /\ k[1] \in Pop /\ target \in Pop \ {k[1]} /\ k[2] \in rows[k[1]]
    /\ rows' = [rows EXCEPT ![k[1]] = @ \ {k[2]}, ![target] = @ \cup {k[2]}]
    /\ IF k \notin DOMAIN cache THEN Forget({k})
       ELSE LET kept == Drop(order, k)
                key == <<target, k[2]>>
            IN  /\ order' = Append(kept, key)
                /\ cache' = [x \in (DOMAIN cache \ {k}) \cup {key} |->
                                IF x = key THEN cache[k] ELSE cache[x]]
                /\ used' = Touched(Drop(used, k), key)
    /\ UNCHANGED <<epoch, next, trust, dropped>>

\* trust_sender, remove_trusted, invalidate_meta_cache: every tag may have changed.
ChangeTrust ==
    /\ trust < MaxTrust
    /\ trust' = trust + 1
    /\ cache' = <<>> /\ order' = <<>> /\ used' = <<>>
    /\ UNCHANGED <<rows, epoch, next, dropped>>

\* delete_folder: the rows go, the entries stay.
DropFolder(f) ==
    /\ rows' = [rows EXCEPT ![f] = {}]
    /\ dropped' = dropped \cup {f}
    /\ UNCHANGED <<epoch, next, trust, cache, order, used>>

Sync(f) ==
    \/ \E new \in BOOLEAN, uids \in SUBSET (1 .. MaxUid) :
          SyncReset(f, new, uids) \/ InsertOlder(f, uids, new)
    \/ InsertPop(f) \/ \E u \in 1 .. MaxUid : Insert(f, u)

CacheNext ==
    \/ \E k \in MailKeys : Hit(k) \/ Miss(k) \/ DeleteRow(k) \/ \E t \in Pop : Refile(k, t)
    \/ \E f \in Folders : Sync(f) \/ DropFolder(f)
    \/ ChangeTrust

CacheSpec == CacheInit /\ [][CacheNext]_cacheVars

-----------------------------------------------------------------------------
(* Properties.                                                             *)

\* The keys of the map are those of the order, each once, and not too many.
CacheTypeOK ==
    /\ ToSet(order) = DOMAIN cache /\ IsInjective(order) /\ Len(order) <= Cap
    /\ DOMAIN cache \subseteq MailKeys
    /\ \A f \in Folders : rows[f] \subseteq 1 .. MaxUid

\* cache_put, cache_get (store.rs:241): the entries are those used last, and one that
\* has a row is the mail of that row with its present tag, whatever was renumbered,
\* refiled, deleted or trusted since, except after its folder was deleted.
CacheSound ==
    /\ order = SubSeq(used, Len(used) - Len(order) + 1, Len(used))
    /\ \A k \in DOMAIN cache :
        k[2] \in rows[k[1]] /\ k[1] \notin dropped => cache[k] = Parsed(k)
=============================================================================
