------------------------------ MODULE NewMail ------------------------------
(***************************************************************************)
(* The way of a new mail to the owner of the mailbox: a watcher thread     *)
(* counts what is new in the inbox of its account, fetches the newest      *)
(* mails, shows a banner about those no filter rule moves away, and the    *)
(* window opens the mail of the banner when it is activated.               *)
(*                                                                         *)
(* A mail is its number of arrival, which is its UID.  On macOS a click on *)
(* a banner records the mail to open; elsewhere showing the banner does.   *)
(***************************************************************************)
EXTENDS Retain, Integers, SequencesExt, FiniteSets

CONSTANTS
    Mailboxes, Pop3,    \* accounts, and those that are polled by POP3
    Filtered,           \* <<account, mail>>: a rule moves it out of the inbox
    NoticeCap,          \* at most so many mails are looked at, 3 in the code
    Platforms,          \* "desktop", "mac"
    MaxMail, MaxBanners \* bounds: mails for an account, banners

ASSUME NoticeAssumption == NoticeCap \in Nat

VARIABLES
    box,            \* mails in the inbox, oldest first
    arrived,        \* how many have ever arrived: UIDNEXT - 1
    listed,         \* accounts the application knows
    watch,          \* the watcher: [pc, uidNext, exists, count, notices], and the
                    \* history of its counting: [base, total, exact]
    enabled,        \* prefs.notify_new_mail
    focused,        \* the window has the focus
    platform,
    banners,        \* the banners shown: [account, mails]
    pending,        \* PENDING: [banner, fresh] the window is to open, <<>> for none
    targets,        \* macOS: banners that have not been clicked
    pulling,        \* the window: "idle", "asked" or "answered"
    answer,         \* what open_pending_notification_mail has returned
    opened          \* banners whose mail the window has opened, in order

mailVars == <<box, arrived>>
appVars == <<listed, enabled, platform>>
windowVars == <<pulling, answer, opened>>
noticeVars == <<mailVars, appVars, watch, focused, banners, pending, targets, windowVars>>

Unset == -1
Least(a, b) == IF a < b THEN a ELSE b
Newest(s, n) == SubSeq(s, Len(s) - Least(n, Len(s)) + 1, Len(s))
Away == [pc |-> "away", uidNext |-> Unset, exists |-> Unset, count |-> 0, notices |-> <<>>,
         base |-> Unset, total |-> 0, exact |-> TRUE]

NoticeInit ==
    /\ box = [a \in Mailboxes |-> <<>>] /\ arrived = [a \in Mailboxes |-> 0]
    /\ listed = Mailboxes /\ enabled = TRUE /\ focused = FALSE
    /\ platform \in Platforms
    /\ watch = [a \in Mailboxes |-> Away]
    /\ banners = <<>> /\ pending = <<>> /\ targets = {}
    /\ pulling = "idle" /\ answer = 0 /\ opened = <<>>

-----------------------------------------------------------------------------
(* The mailbox.                                                            *)

Arrive(a) ==
    /\ arrived[a] < MaxMail
    /\ arrived' = [arrived EXCEPT ![a] = @ + 1]
    /\ box' = [box EXCEPT ![a] = Append(@, arrived[a] + 1)]
    /\ UNCHANGED <<appVars, watch, focused, banners, pending, targets, windowVars>>

Expunge(a, i) ==
    /\ i \in 1 .. Len(box[a])
    /\ box' = [box EXCEPT ![a] = RemoveAt(@, i)]
    /\ UNCHANGED <<arrived, appVars, watch, focused, banners, pending, targets, windowVars>>

-----------------------------------------------------------------------------
(* The watcher of an account.                                              *)

\* mailbox_new_count: from UIDNEXT, or from EXISTS when the server sends none.  Each
\* counter starts again when the other one was used last.
ByUidNext(w, now) ==
    [count |-> IF w.uidNext # Unset /\ now > w.uidNext THEN now - w.uidNext ELSE 0,
     uidNext |-> now]
\* Mutant: the old UIDNEXT stays for the next time there is one.
ByExistsKeeping(w, n) ==
    [count |-> IF w.exists # Unset /\ n > w.exists THEN n - w.exists ELSE 0,
     uidNext |-> w.uidNext]
ByExists(w, n) ==
    [count |-> IF w.exists # Unset /\ n > w.exists THEN n - w.exists ELSE 0,
     uidNext |-> Unset]

Counted(w, c, a, next) ==
    [w EXCEPT !.uidNext = c.uidNext, !.exists = Len(box[a]), !.count = c.count,
              !.pc = IF c.count > 0 THEN next ELSE "idle",
              !.base = IF @ = Unset THEN arrived[a] ELSE @,
              !.total = @ + c.count,
              !.exact = @ /\ c.uidNext # Unset]

StartWatch(a) ==
    /\ watch[a].pc = "away" /\ a \in listed
    /\ watch' = [watch EXCEPT ![a] = [Away EXCEPT !.pc = "idle"]]
    /\ UNCHANGED <<mailVars, appVars, focused, banners, pending, targets, windowVars>>

\* idle_session: after connecting and after every wait.  A connection that breaks
\* leaves the counters as they are.
Examine(a, sendsUidNext) ==
    /\ a \notin Pop3 /\ watch[a].pc = "idle" /\ a \in listed
    /\ LET w == watch[a]
           c == IF sendsUidNext THEN ByUidNext(w, arrived[a] + 1) ELSE ByExists(w, Len(box[a]))
       IN  watch' = [watch EXCEPT ![a] = Counted(w, c, a, "fetch")]
    /\ UNCHANGED <<mailVars, appVars, focused, banners, pending, targets, windowVars>>

\* notice_from_raw: newest first; which of them a rule moves away is noted.
Notices(a, mails) == Retain(Reverse(mails), {m \in 1 .. MaxMail : <<a, m>> \in Filtered})

\* fetch_imap_notices: the newest mails at the time of the fetch, on a connection of
\* its own.  When it fails there is nothing to show.
FetchNotices(a, ok) ==
    /\ a \notin Pop3 /\ watch[a].pc = "fetch"
    /\ LET newest == Newest(box[a], Least(watch[a].count, NoticeCap))
       IN  watch' = [watch EXCEPT ![a].pc = "notify",
                                  ![a].notices = IF ok THEN Notices(a, newest) ELSE <<>>]
    /\ UNCHANGED <<mailVars, appVars, focused, banners, pending, targets, windowVars>>

\* watch_pop3: the number of mails and the mails after the old number, in one
\* session.  A mail that cannot be retrieved is left out.
PollMaildrop(a, failed) ==
    /\ a \in Pop3 /\ watch[a].pc = "idle" /\ a \in listed
    /\ LET w == watch[a]
           c == ByExists(w, Len(box[a]))
           newest == Newest(box[a], Least(c.count, NoticeCap))
           read == Retain(newest, failed)
       IN  watch' = [watch EXCEPT ![a] =
                        [Counted(w, c, a, "notify") EXCEPT !.notices = Notices(a, read)]]
    /\ UNCHANGED <<mailVars, appVars, focused, banners, pending, targets, windowVars>>

\* emit_new_mail, notify_new_mail: no banner for mails that are moved away, for an
\* account that is gone, against the preference, or under the owner's eyes.
Silent(a) == watch[a].notices = <<>> \/ a \notin listed \/ ~enabled \/ focused

Notify(a) ==
    /\ watch[a].pc = "notify"
    /\ IF Silent(a)
       THEN UNCHANGED <<banners, pending, targets>>
       ELSE /\ Len(banners) < MaxBanners
            /\ banners' = Append(banners, [account |-> a, mails |-> watch[a].notices])
            /\ pending' = IF platform = "mac" THEN pending
                          ELSE <<[banner |-> Len(banners) + 1, fresh |-> TRUE]>>
            /\ targets' = IF platform = "mac" THEN targets \cup {Len(banners) + 1} ELSE targets
    /\ watch' = [watch EXCEPT ![a].pc = "idle", ![a].count = 0, ![a].notices = <<>>]
    /\ UNCHANGED <<mailVars, appVars, focused, windowVars>>

\* account_exists, creds: the watcher of an account that is gone ends, and what it
\* has counted goes with it.
LeaveWatch(a) ==
    /\ watch[a].pc = "idle" /\ a \notin listed
    /\ watch' = [watch EXCEPT ![a] = Away]
    /\ UNCHANGED <<mailVars, appVars, focused, banners, pending, targets, windowVars>>

-----------------------------------------------------------------------------
(* The application and its window.                                         *)

ListAccount(a) ==
    /\ listed' = IF a \in listed THEN listed \ {a} ELSE listed \cup {a}
    /\ UNCHANGED <<mailVars, enabled, platform, watch, focused, banners, pending, targets, windowVars>>

SetNotify ==
    /\ enabled' = ~enabled
    /\ UNCHANGED <<mailVars, listed, platform, watch, focused, banners, pending, targets, windowVars>>

\* pullPendingNotification: one call at a time; a signal during a call is dropped.
Pull == pulling' = IF pulling = "idle" THEN "asked" ELSE pulling

\* The window gets the focus: the window asks by itself and because of the poke of
\* poke_pending_notification_open.
Focus ==
    /\ ~focused /\ focused' = TRUE
    /\ Pull
    /\ UNCHANGED <<mailVars, appVars, watch, banners, pending, targets, answer, opened>>

Blur ==
    /\ focused /\ focused' = FALSE
    /\ UNCHANGED <<mailVars, appVars, watch, banners, pending, targets, windowVars>>

\* macOS, did_activate: the click records the mail of its banner and tells the
\* window; a banner has a target for one click.
Click(b) ==
    /\ b \in targets
    /\ targets' = targets \ {b}
    /\ pending' = <<[banner |-> b, fresh |-> TRUE]>>
    /\ focused' = TRUE
    /\ Pull
    /\ UNCHANGED <<mailVars, appVars, watch, banners, answer, opened>>

\* Mutant: the target stays where it is.
TakeKept ==
    /\ pulling = "asked"
    /\ answer' = IF pending # <<>> /\ pending[1].fresh THEN pending[1].banner ELSE 0
    /\ pulling' = "answered"
    /\ UNCHANGED <<mailVars, appVars, watch, focused, banners, pending, targets, opened>>

\* take_pending_notification_target: taken at most once, and not after a day.
Take ==
    /\ pulling = "asked"
    /\ answer' = IF pending # <<>> /\ pending[1].fresh THEN pending[1].banner ELSE 0
    /\ pending' = <<>>
    /\ pulling' = "answered"
    /\ UNCHANGED <<mailVars, appVars, watch, focused, banners, targets, opened>>

Open ==
    /\ pulling = "answered"
    /\ opened' = IF answer = 0 THEN opened ELSE Append(opened, answer)
    /\ pulling' = "idle" /\ answer' = 0
    /\ UNCHANGED <<mailVars, appVars, watch, focused, banners, pending, targets>>

\* NOTIFICATION_OPEN_TTL: a day, which does not pass during a call of the window.
Expire ==
    /\ pulling = "idle"
    /\ pending # <<>> /\ pending[1].fresh
    /\ pending' = <<[pending[1] EXCEPT !.fresh = FALSE]>>
    /\ UNCHANGED <<mailVars, appVars, watch, focused, banners, targets, windowVars>>

Server(a) == Arrive(a) \/ \E i \in 1 .. MaxMail : Expunge(a, i)

Watcher(a) ==
    \/ StartWatch(a) \/ LeaveWatch(a) \/ Notify(a)
    \/ \E b \in BOOLEAN : Examine(a, b) \/ FetchNotices(a, b)
    \/ \E failed \in SUBSET (1 .. MaxMail) : PollMaildrop(a, failed)

Window == Focus \/ Blur \/ Take \/ Open \/ Expire \/ SetNotify \/ \E b \in 1 .. MaxBanners : Click(b)

NoticeNext == (\E a \in Mailboxes : Server(a) \/ Watcher(a) \/ ListAccount(a)) \/ Window
NoticeSpec == NoticeInit /\ [][NoticeNext]_noticeVars

\* A call of the window is answered, and the window uses the answer.
FairNoticeSpec == NoticeSpec /\ WF_noticeVars(Take) /\ WF_noticeVars(Open)

-----------------------------------------------------------------------------
(* Properties.                                                             *)

\* Types; a notice is about a mail that has arrived, and the window opens the mail of
\* a banner that was shown, once, and in their order where showing it records it.
NoticeTypeOK ==
    /\ \A a \in Mailboxes :
        /\ watch[a].pc \in {"away", "idle", "fetch", "notify"}
        /\ \A i \in 1 .. Len(watch[a].notices) : watch[a].notices[i] \in 1 .. arrived[a]
        /\ watch[a].pc = "notify" => watch[a].count > 0
    /\ targets \subseteq 1 .. Len(banners)
    /\ pulling = "answered" => answer \in 0 .. Len(banners)
    /\ \A i \in 1 .. Len(opened) : opened[i] \in 1 .. Len(banners)
    /\ \A i, j \in 1 .. Len(opened) :
        i < j => opened[i] # opened[j] /\ (platform # "mac" => opened[i] < opened[j])

\* mailbox_new_count, check_exists (watcher.rs:534, 560): since its first look at the
\* mailbox a watcher never counts a mail twice, whichever counter the server
\* offers each time and whatever is deleted; and with UIDNEXT it misses none.
CountsOnce ==
    \A a \in Mailboxes :
        LET w == watch[a]
        IN  w.base # Unset =>
                /\ w.total <= arrived[a] - w.base
                /\ w.exact => w.total = w.uidNext - 1 - w.base

\* The module comment of mac_notify.rs (line 13): banners that have piled up can be
\* clicked one by one, and each opens its own mail.
EachClickOpens ==
    \A b \in 1 .. MaxBanners :
        Len(banners) >= b /\ platform = "mac" /\ b \notin targets ~>
            \E i \in 1 .. Len(opened) : opened[i] = b
=============================================================================
