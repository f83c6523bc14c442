------------------------------ MODULE MCWindow ------------------------------
(***************************************************************************)
(* What goes on around the window: the watchers of an IMAP and of a POP3   *)
(* account with their banners, the login dialog, and the mail list, each   *)
(* on a small instance.  A behaviour is one of one scene; the others stay  *)
(* as they are at the start.                                               *)
(***************************************************************************)
EXTENDS NewMail, OAuthLogin, MailList

VARIABLE scene

\* A rule moves a mail of each account away.
OneEachFiltered == {<<"inbox", 1>>, <<"drop", 2>>}

\* Nothing happens in the other mailboxes, or to their accounts.
Alone(account) ==
    \A a \in Mailboxes \ {account} :
        /\ UNCHANGED <<box[a], arrived[a], watch[a]>>
        /\ a \in listed'

\* An IMAP account on the desktop, or a POP3 account on a Mac.
WindowInit ==
    /\ scene \in {"imap", "pop3", "login", "list"}
    /\ NoticeInit /\ LoginInit /\ ListInit
    /\ platform = IF scene = "pop3" THEN "mac" ELSE "desktop"

WatchNext ==
    /\ NoticeNext
    /\ \/ scene = "imap" /\ Alone("inbox")
       \/ scene = "pop3" /\ Alone("drop")
    /\ UNCHANGED <<oauthVars, listVars>>
DialogNext == scene = "login" /\ LoginNext /\ UNCHANGED <<noticeVars, listVars>>
BrowseNext == scene = "list" /\ ListNext /\ UNCHANGED <<noticeVars, oauthVars>>

WindowNext ==
    /\ WatchNext \/ DialogNext \/ BrowseNext
    /\ UNCHANGED scene

windowSpecVars == <<scene, noticeVars, oauthVars, listVars>>
WindowSpec == WindowInit /\ [][WindowNext]_windowSpecVars

-----------------------------------------------------------------------------
\* Every scene keeps its types: see the modules of the scenes.
WindowTypeOK == NoticeTypeOK /\ LoginTypeOK /\ ListTypeOK
=============================================================================
