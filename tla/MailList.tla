------------------------------ MODULE MailList ------------------------------
(***************************************************************************)
(* The mail list of the window (App.tsx): which folder's mail is on        *)
(* screen, and which of its three indicators are on.  Every call of the    *)
(* back end is awaited, so an answer may come when the user has gone on.   *)
(* LatestRequest numbers the requests of the list; the numbers only grow   *)
(* and are only compared for equality, so that a request is current until  *)
(* another is begun.  A function of the window keeps using the folder it   *)
(* was created for, that of the last rendering.                            *)
(***************************************************************************)
EXTENDS Naturals, FiniteSets

CONSTANTS
    Views,          \* what can be on screen: a folder of an account, the unified inbox;
                    \* not the drafts, whose list is not fetched
    MaxAwaited      \* bound: requests that wait for an answer

VARIABLES
    folder,         \* the view that was chosen
    drawn,          \* the view of the last rendering whose effects have run
    inFlight,       \* the requests that wait for an answer
    list,           \* whose mail is on screen
    loading,        \* "reading the local cache"
    syncing,        \* "synchronising with the server"
    loadingMore,    \* "fetching older mail": its button is disabled
    deed,           \* the view of which a command on a mail will refresh the list, or
                    \* the opening of a notification
    notice          \* the opening of the mail of a notification

shownVars == <<folder, drawn, list>>
indicatorVars == <<loading, syncing, loadingMore>>
listVars == <<shownVars, indicatorVars, inFlight, deed, notice>>

Nowhere == "nowhere"
NoNotice == [view |-> Nowhere, from |-> Nowhere, at |-> "idle"]

ListInit ==
    /\ folder \in Views /\ drawn = Nowhere /\ list = Nowhere
    /\ loading = FALSE /\ syncing = FALSE /\ loadingMore = FALSE
    /\ inFlight = {} /\ deed = Nowhere /\ notice = NoNotice

MayAsk == Cardinality(inFlight) < MaxAwaited

\* LatestRequest.begin and .invalidate, for a function that was created for view v.
Superseded == {[q EXCEPT !.current = FALSE] : q \in inFlight}
BeginRequest(kind, v, at, stray) ==
    /\ MayAsk
    /\ inFlight' = Superseded \cup
        {[kind |-> kind, view |-> v, current |-> TRUE, stray |-> stray, at |-> at]}

\* loadMessages, up to its first call.
LoadMessages(v) ==
    /\ BeginRequest("load", v, "cached", {folder, drawn} # {v})
    /\ loading' = TRUE
    /\ UNCHANGED <<shownVars, syncing, loadingMore>>

-----------------------------------------------------------------------------
(***************************************************************************)
(* What the user does.  A click reaches the window as it is drawn, and the *)
(* effects of a click run before anything else does.                       *)
(***************************************************************************)
\* onSelectFolder, onSelectAccount, and the effect that calls loadMessages.
SelectView(v) ==
    /\ drawn = folder /\ v # folder
    /\ folder' = v /\ drawn' = v
    /\ BeginRequest("load", v, "cached", FALSE)
    /\ loading' = TRUE /\ syncing' = FALSE /\ loadingMore' = FALSE
    /\ UNCHANGED <<list, deed, notice>>

\* handleDeleteFolder, handleRemoveAccount (which empties the list) and the end of the
\* account dialog choose another view after an await, and no request is invalidated.
Leave(v) ==
    /\ drawn # Nowhere /\ v # folder
    /\ folder' = v /\ list' \in {list, Nowhere}
    /\ UNCHANGED <<drawn, indicatorVars, inFlight, deed, notice>>

\* The effect of a rendering with another view that no click has caused.
Draw ==
    /\ drawn # folder /\ drawn' = folder /\ folder' = folder
    /\ BeginRequest("load", folder, "cached", FALSE)
    /\ loading' = TRUE
    /\ UNCHANGED <<list, syncing, loadingMore, deed, notice>>

\* onRefresh; the new-mail event of the account on screen.
Refresh ==
    /\ drawn # Nowhere
    /\ LoadMessages(drawn)
    /\ UNCHANGED <<deed, notice>>

\* handleLoadMore: its button is not there while the list is loading.
LoadMore ==
    /\ drawn = folder /\ ~loadingMore /\ ~loading
    /\ BeginRequest("more", drawn, "older", FALSE)
    /\ loadingMore' = TRUE
    /\ UNCHANGED <<shownVars, loading, syncing, deed, notice>>

\* meta-cache-updated: the list is read again under the current number.
SoftRefresh ==
    /\ drawn # Nowhere /\ drawn = folder /\ MayAsk
    /\ inFlight' = inFlight \cup
        {[kind |-> "soft", view |-> drawn, current |-> TRUE, stray |-> FALSE, at |-> "last"]}
    /\ UNCHANGED <<shownVars, indicatorVars, deed, notice>>

\* handleMove, handleArchive, doDelete, handleBlockSender, handleTrustSender.  Bound: one
\* of them at a time.
Act ==
    /\ drawn = folder /\ deed = Nowhere
    /\ deed' = drawn
    /\ UNCHANGED <<shownVars, indicatorVars, inFlight, notice>>

\* When the call has succeeded they call the loadMessages they were created with.
Acted ==
    /\ deed # Nowhere /\ deed' = Nowhere
    /\ LoadMessages(deed)
    /\ UNCHANGED notice

ActFails ==
    /\ deed # Nowhere /\ deed' = Nowhere
    /\ UNCHANGED <<shownVars, indicatorVars, inFlight, notice>>

-----------------------------------------------------------------------------
(***************************************************************************)
(* The answers to a request.                                               *)
(***************************************************************************)
Waits(q, kind, at) == q.kind = kind /\ q.at = at
GoOn(q, at) == inFlight' = (inFlight \ {q}) \cup {[q EXCEPT !.at = at]}
Over(q) == inFlight' = inFlight \ {q}

\* An answer that comes too late ends the request, whatever it is.
TooLate(q) ==
    /\ ~q.current
    /\ Over(q)
    /\ UNCHANGED <<shownVars, indicatorVars, deed, notice>>

\* loadCached: the list is replaced unless the call has failed.
Show(q, ok) == list' = IF ok THEN q.view ELSE list

\* Mutant: loadCached does not ask whether its request is the current one.
CachedUnchecked(q, ok) ==
    /\ Waits(q, "load", "cached")
    /\ Show(q, ok)
    /\ loading' = FALSE /\ syncing' = TRUE
    /\ GoOn(q, "sync")
    /\ UNCHANGED <<folder, drawn, loadingMore, deed, notice>>

Cached(q, ok) ==
    /\ Waits(q, "load", "cached") /\ q.current
    /\ Show(q, ok)
    /\ loading' = FALSE /\ syncing' = TRUE
    /\ GoOn(q, "sync")
    /\ UNCHANGED <<folder, drawn, loadingMore, deed, notice>>

\* syncMessages; then the list is read again.
Synced(q, ok) ==
    /\ Waits(q, "load", "sync") /\ q.current
    /\ GoOn(q, IF ok THEN "again" ELSE "older")
    /\ syncing' = IF ok THEN syncing ELSE FALSE
    /\ UNCHANGED <<shownVars, loading, loadingMore, deed, notice>>

ReadAgain(q, ok) ==
    /\ Waits(q, "load", "again") /\ q.current
    /\ Show(q, ok)
    /\ syncing' = FALSE
    /\ GoOn(q, "older")
    /\ UNCHANGED <<folder, drawn, loading, loadingMore, deed, notice>>

\* backfillOlderUntilExhausted: rounds of syncOlderMessages and loadCached, and the
\* list once more when nothing was added.
Older(q) ==
    /\ Waits(q, "load", "older") /\ q.current
    /\ GoOn(q, "list") \/ GoOn(q, "last") \/ Over(q)
    /\ UNCHANGED <<shownVars, indicatorVars, deed, notice>>

OlderListed(q, ok) ==
    /\ Waits(q, "load", "list") /\ q.current
    /\ Show(q, ok)
    /\ IF ok THEN GoOn(q, "older") \/ GoOn(q, "last") ELSE Over(q)
    /\ UNCHANGED <<folder, drawn, indicatorVars, deed, notice>>

\* The last reading of loadMessages, and the one of a soft refresh.
LastListed(q, ok) ==
    /\ q.at = "last" /\ q.current
    /\ Show(q, ok)
    /\ Over(q)
    /\ UNCHANGED <<folder, drawn, indicatorVars, deed, notice>>

MoreFetched(q, ok) ==
    /\ Waits(q, "more", "older") /\ q.current
    /\ IF ok THEN GoOn(q, "list") ELSE Over(q)
    /\ loadingMore' = IF ok THEN loadingMore ELSE FALSE
    /\ UNCHANGED <<shownVars, loading, syncing, deed, notice>>

MoreListed(q, ok) ==
    /\ Waits(q, "more", "list") /\ q.current
    /\ Show(q, ok)
    /\ loadingMore' = FALSE
    /\ Over(q)
    /\ UNCHANGED <<folder, drawn, loading, syncing, deed, notice>>

-----------------------------------------------------------------------------
(***************************************************************************)
(* openNotificationMail: it reads the list by itself, under no number, and *)
(* the refresh that follows is that of the view before.  Bound: one        *)
(* notification at a time.                                                 *)
(***************************************************************************)
Opening(v, from, at) == notice' = [view |-> v, from |-> from, at |-> at]

OpenNotification(v) ==
    /\ drawn = folder /\ notice = NoNotice
    /\ Opening(v, drawn, "locate")
    /\ folder' = v
    /\ loading' = TRUE /\ syncing' = TRUE
    /\ UNCHANGED <<drawn, list, loadingMore, inFlight, deed>>

\* The mail is in the cache: it is opened, and the list refreshed in the background (one
\* such refresh or command at a time).
Locate ==
    /\ notice.at = "locate" /\ deed = Nowhere
    /\ list' = notice.view
    /\ Opening(notice.view, notice.from, "open") /\ deed' = notice.from
    /\ UNCHANGED <<folder, drawn, indicatorVars, inFlight>>

\* It is not: synchronise, and look once more.
LocateMisses ==
    /\ notice.at = "locate"
    /\ list' = notice.view
    /\ Opening(notice.view, notice.from, "fetch")
    /\ UNCHANGED <<folder, drawn, indicatorVars, inFlight, deed>>

LocateAgain ==
    /\ notice.at = "fetch"
    /\ list' = notice.view
    /\ Opening(notice.view, notice.from, "open") \/ Opening(notice.view, notice.from, "lost")
    /\ UNCHANGED <<folder, drawn, indicatorVars, inFlight, deed>>

\* It is in another place by now: start over there, where the indicators are set on;
\* the finally of the first attempt then puts them out.
Relocate(v) ==
    /\ notice.at = "lost"
    /\ folder' = v
    /\ Opening(v, notice.from, "locate")
    /\ loading' = FALSE /\ syncing' = FALSE
    /\ UNCHANGED <<drawn, list, loadingMore, inFlight, deed>>

\* Mutant: the indicators are put out only when the mail was found.
NoticeDoneIfOpen ==
    /\ notice.at # "idle" /\ notice' = NoNotice
    /\ IF notice.at = "open" THEN loading' = FALSE /\ syncing' = FALSE
       ELSE UNCHANGED <<loading, syncing>>
    /\ UNCHANGED <<shownVars, loadingMore, inFlight, deed>>

\* The mail is on screen, or a call has failed.
NoticeDone ==
    /\ notice.at # "idle" /\ notice' = NoNotice
    /\ loading' = FALSE /\ syncing' = FALSE
    /\ UNCHANGED <<shownVars, loadingMore, inFlight, deed>>

-----------------------------------------------------------------------------
ListUser ==
    \/ \E v \in Views : SelectView(v) \/ Leave(v)
    \/ Draw \/ Refresh \/ LoadMore \/ SoftRefresh \/ Act \/ Acted \/ ActFails

ListAnswer(q) ==
    \/ TooLate(q) \/ Older(q)
    \/ \E ok \in BOOLEAN :
        \/ Cached(q, ok) \/ Synced(q, ok) \/ ReadAgain(q, ok) \/ OlderListed(q, ok)
        \/ LastListed(q, ok) \/ MoreFetched(q, ok) \/ MoreListed(q, ok)

ListNotice ==
    \/ \E v \in Views : OpenNotification(v) \/ Relocate(v)
    \/ Locate \/ LocateMisses \/ LocateAgain \/ NoticeDone

ListNext == ListUser \/ ListNotice \/ \E q \in inFlight : ListAnswer(q)

ListSpec == ListInit /\ [][ListNext]_listVars

-----------------------------------------------------------------------------
(* Properties.                                                             *)

\* Types.
ListRequest ==
    [kind : {"load", "more", "soft"}, view : Views, current : BOOLEAN, stray : BOOLEAN,
     at : {"cached", "sync", "again", "older", "list", "last"}]
ListTypeOK ==
    /\ folder \in Views /\ {drawn, list, deed} \subseteq Views \cup {Nowhere}
    /\ loading \in BOOLEAN /\ syncing \in BOOLEAN /\ loadingMore \in BOOLEAN
    /\ inFlight \subseteq ListRequest
    /\ notice = NoNotice \/ notice \in
        [view : Views, from : Views, at : {"locate", "fetch", "lost", "open"}]

\* latestRequest.test.ts:5 "does not let the previous folder commit after the user
\* switches folders": a list that comes on screen is of the view on screen, or of the
\* notification that is being opened.
OnlyChosenShown ==
    [][list' \notin {list, Nowhere} => list' \in {folder, drawn, notice.view}]_listVars

\* What holds of it (LatestRequest, App.tsx:473-499): a list of another view is only that
\* of a notification being opened, or of a request that was begun when its view had been
\* left already, by a command or a notification begun there.
StaleAnswersDropped ==
    [][list' \notin {list, Nowhere} =>
        \/ list' \in {drawn, notice.view}
        \/ \E q \in inFlight : q.current /\ q.stray /\ q.view = list']_listVars

\* loadMessages (App.tsx:537-550): while the list is said to be loading, its reading is
\* under way and no other request has made it pointless, or a notification is being
\* opened.
LoadingAnswered ==
    loading => notice.at # "idle" \/ \E q \in inFlight : q.current /\ q.at = "cached"
=============================================================================
