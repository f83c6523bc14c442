----------------------------- MODULE OAuthLogin -----------------------------
(***************************************************************************)
(* Logging in to a mail account with OAuth: the account dialog starts an   *)
(* attempt, in the browser (Google: a consent page that sends a code to a  *)
(* port of this computer) or with a device code (Microsoft: polling until  *)
(* the user has entered it elsewhere).  An attempt goes on by itself when  *)
(* the dialog has been changed or closed, and other attempts may follow.   *)
(*                                                                         *)
(* What is random (state, code verifier, flow id, device code) is named by *)
(* the attempt it was drawn for.  The login service, the browser and the   *)
(* ports of the operating system are modelled from how the code uses them. *)
(***************************************************************************)
EXTENDS Integers, FiniteSets

CONSTANTS
    MaxAttempts, MaxChanges,    \* bounds: attempts, changes of the dialog
    Ports

Attempts == 1 .. MaxAttempts
Providers == {"google", "microsoft"}
None == 0

\* A listener that is bound to port 0 gets another one.
ASSUME LoginAssumption == None \notin Ports

VARIABLES
    dialog,         \* [gen, provider, tokens]: pollGen.current, the preset, what was granted
    changes,        \* bound
    task,           \* per attempt: where startDeviceFlow is, its gen, provider and result
    flows,          \* BROWSER_FLOWS: attempts whose flow nobody has finished
    port,           \* the port of the listener of an attempt, None when it is closed
    calls,          \* requests a listener has received, by attempt: [kind, of]
    page,           \* consent pages the browser has: the port they answer to, or None
    device,         \* device codes: "none", "pending", "approved", "declined", "expired"
    spent,          \* codes the login service has redeemed
    sent            \* history: <<attempt, whose code>> sent to the token endpoint

oauthVars == <<dialog, changes, task, flows, port, calls, page, device, spent, sent>>
dialogVars == <<dialog, changes>>
loginVars == <<flows, port, calls, page, device, spent, sent>>

Idle == [pc |-> "none", gen |-> 0, provider |-> "google", code |-> None, ok |-> FALSE]

LoginInit ==
    /\ dialog = [gen |-> 0, provider |-> "google", tokens |-> None]
    /\ changes = 0
    /\ task = [a \in Attempts |-> Idle]
    /\ flows = {} /\ port = [a \in Attempts |-> None]
    /\ calls = [a \in Attempts |-> {}] /\ page = [a \in Attempts |-> None]
    /\ device = [a \in Attempts |-> "none"]
    /\ spent = {} /\ sent = {}

Proceed(a, label) == task' = [task EXCEPT ![a].pc = label]
Current(a) == dialog.gen = task[a].gen

-----------------------------------------------------------------------------
(* The dialog.                                                             *)

\* startDeviceFlow: one attempt after the other, or several at a time.
Begin(a) ==
    /\ task[a].pc = "none" /\ \A b \in 1 .. a - 1 : task[b].pc # "none"
    /\ dialog' = [dialog EXCEPT !.gen = @ + 1, !.tokens = None]
    /\ task' = [task EXCEPT ![a] = [Idle EXCEPT !.gen = dialog.gen + 1, !.provider = dialog.provider,
                                                !.pc = "begin"]]
    /\ UNCHANGED <<changes, loginVars>>

\* applyPreset, cancelDeviceFlow, and the dialog opened anew.
Change(provider) ==
    /\ changes < MaxChanges
    /\ changes' = changes + 1
    /\ dialog' = [gen |-> dialog.gen + 1, provider |-> provider, tokens |-> None]
    /\ UNCHANGED <<task, loginVars>>

\* An answer that comes too late is not looked at; an error ends the attempt.
Quit(a) ==
    /\ task[a].pc \in {"begun", "sleep", "granted"} /\ ~Current(a)
    /\ Proceed(a, "over")
    /\ UNCHANGED <<dialogVars, loginVars>>

\* Mutant: the dialog is not asked whether it still waits for this attempt.
GrantLate(a) ==
    /\ task[a].pc = "granted"
    /\ dialog' = [dialog EXCEPT !.tokens = a]
    /\ Proceed(a, "over")
    /\ UNCHANGED <<changes, loginVars>>

\* setTokens.
Grant(a) ==
    /\ task[a].pc = "granted" /\ Current(a)
    /\ dialog' = [dialog EXCEPT !.tokens = a]
    /\ Proceed(a, "over")
    /\ UNCHANGED <<changes, loginVars>>

-----------------------------------------------------------------------------
(* The browser flow.                                                       *)

Bound == {port[a] : a \in Attempts}

\* begin_browser_flow: a listener on a port nobody has.
BeginBrowser(a, p) ==
    /\ task[a].pc = "begin" /\ task[a].provider = "google"
    /\ p \in Ports \ Bound
    /\ port' = [port EXCEPT ![a] = p]
    /\ flows' = flows \cup {a}
    /\ Proceed(a, "begun")
    /\ UNCHANGED <<dialogVars, calls, page, device, spent, sent>>

\* The consent page is opened and finish_browser_flow takes the flow.
OpenAndFinish(a) ==
    /\ task[a].pc = "begun" /\ task[a].provider = "google" /\ Current(a)
    /\ page' = [page EXCEPT ![a] = port[a]]
    /\ flows' = flows \ {a}
    /\ Proceed(a, "accept")
    /\ UNCHANGED <<dialogVars, port, calls, device, spent, sent>>

Close(a) == port' = [port EXCEPT ![a] = None] /\ calls' = [calls EXCEPT ![a] = {}]

\* finish_browser_flow ends with an error: its listener is closed.
Fail(a) == Proceed(a, "over") /\ Close(a) /\ UNCHANGED <<dialogVars, flows, page, device, spent>>

\* Nobody has connected for five minutes.
Timeout(a) ==
    /\ task[a].pc = "accept" /\ calls[a] = {}
    /\ Fail(a) /\ UNCHANGED sent

\* accept, read_callback: one connection only.  It may bring no request, a refusal, or
\* a state that is not the one of the flow.
Refused(a, call) ==
    /\ task[a].pc = "accept" /\ call \in calls[a]
    /\ call.kind # "code" \/ call.of # a
    /\ Fail(a) /\ UNCHANGED sent

\* Mutant: the state is not compared.
StateIgnored(a, call) ==
    /\ task[a].pc = "accept" /\ call \in calls[a] /\ call.kind = "code"
    /\ task' = [task EXCEPT ![a].pc = "redeem", ![a].code = call.of]
    /\ sent' = sent \cup {<<a, call.of>>}
    /\ UNCHANGED <<dialogVars, flows, port, calls, page, device, spent>>

Accepted(a, call) ==
    /\ task[a].pc = "accept" /\ call \in calls[a] /\ call.kind = "code"
    /\ call.of = a
    /\ task' = [task EXCEPT ![a].pc = "redeem", ![a].code = call.of]
    /\ sent' = sent \cup {<<a, call.of>>}
    /\ UNCHANGED <<dialogVars, flows, port, calls, page, device, spent>>

\* form_post, parse_tokens: a code is good once, and only with the verifier whose
\* challenge it was asked with.  The answer may get lost.
Redeem(a) ==
    /\ task[a].pc = "redeem" /\ task[a].code = a /\ a \notin spent
    /\ spent' = spent \cup {a}
    /\ Proceed(a, "granted")
    /\ Close(a)
    /\ UNCHANGED <<dialogVars, flows, page, device, sent>>

RedeemFails(a) ==
    /\ task[a].pc = "redeem"
    /\ Proceed(a, "over") /\ Close(a)
    /\ UNCHANGED <<dialogVars, flows, page, device, sent>>
    /\ spent' \in {spent, spent \cup {task[a].code}}

-----------------------------------------------------------------------------
(* The browser.                                                            *)

\* A page answers to the port it was opened with, whoever listens there now.
Answer(a, kind) ==
    /\ page[a] # None
    /\ \E b \in Attempts :
          /\ port[b] = page[a]
          /\ calls' = [calls EXCEPT ![b] = @ \cup {[kind |-> kind, of |-> a]}]
    /\ UNCHANGED <<dialogVars, task, flows, port, page, device, spent, sent>>

\* A connection that brings no request.
Preconnect(b) ==
    /\ port[b] # None
    /\ calls' = [calls EXCEPT ![b] = @ \cup {[kind |-> "blank", of |-> None]}]
    /\ UNCHANGED <<dialogVars, task, flows, port, page, device, spent, sent>>

-----------------------------------------------------------------------------
(* The device flow.                                                        *)

\* begin_device_flow.
BeginDevice(a) ==
    /\ task[a].pc = "begin" /\ task[a].provider = "microsoft"
    /\ device' = [device EXCEPT ![a] = "pending"]
    /\ Proceed(a, "sleep")
    /\ UNCHANGED <<dialogVars, flows, port, calls, page, spent, sent>>

BeginFails(a) ==
    /\ task[a].pc = "begin"
    /\ Proceed(a, "over")
    /\ UNCHANGED <<dialogVars, loginVars>>

Enter(a, result) ==
    /\ device[a] = "pending" /\ result \in {"approved", "declined", "expired"}
    /\ device' = [device EXCEPT ![a] = result]
    /\ UNCHANGED <<dialogVars, task, flows, port, calls, page, spent, sent>>

\* The interval is over and the attempt still wanted: ask.
Ask(a) ==
    /\ task[a].pc = "sleep" /\ Current(a)
    /\ Proceed(a, "poll")
    /\ UNCHANGED <<dialogVars, loginVars>>

\* poll_device_for.
Poll(a) ==
    /\ task[a].pc = "poll"
    /\ Proceed(a, CASE device[a] = "pending"  -> "sleep"
                 [] device[a] = "approved" -> "granted"
                 [] OTHER                  -> "over")
    /\ UNCHANGED <<dialogVars, loginVars>>

\* This instance has no more attempts.
Rest ==
    /\ changes = MaxChanges /\ \A a \in Attempts : task[a].pc = "over"
    /\ UNCHANGED oauthVars

Browser(a) ==
    \/ \E kind \in {"code", "error"} : Answer(a, kind)
    \/ Preconnect(a)

Login(a) ==
    \/ Begin(a) \/ Quit(a) \/ Grant(a)
    \/ \E p \in Ports : BeginBrowser(a, p)
    \/ OpenAndFinish(a) \/ Timeout(a) \/ Redeem(a) \/ RedeemFails(a)
    \/ \E call \in calls[a] : Refused(a, call) \/ Accepted(a, call)
    \/ BeginDevice(a) \/ BeginFails(a) \/ Ask(a) \/ Poll(a)

LoginNext ==
    \/ \E a \in Attempts : Login(a) \/ Browser(a) \/ \E r \in {"approved", "declined", "expired"} : Enter(a, r)
    \/ \E p \in Providers : Change(p)
    \/ Rest

LoginSpec == LoginInit /\ [][LoginNext]_oauthVars

-----------------------------------------------------------------------------
(* Properties.                                                             *)

TaskLabels == {"none", "begin", "begun", "accept", "redeem", "granted", "sleep", "poll", "over"}

\* A flow nobody has finished has a listener, as has one that is being finished, and
\* no port has two.
LoginTypeOK ==
    /\ \A a \in Attempts : task[a].pc \in TaskLabels
    /\ \A a \in Attempts : (a \in flows \/ task[a].pc \in {"accept", "redeem"}) <=> port[a] # None
    /\ \A a, b \in Attempts : port[a] = port[b] /\ port[a] # None => a = b
    /\ dialog.tokens \in Attempts \cup {None}

\* finish_browser_flow (oauth.rs:450): the state tells the answer of the page that was
\* opened for this attempt from that of another one, which may have had the same
\* port: only its own code is ever sent to the token endpoint.
OwnCodeOnly == \A s \in sent : s[1] = s[2]

\* startDeviceFlow (AccountModal.tsx:91): the tokens the dialog would save are those of
\* the login that was started last, with the provider that is chosen now, and that
\* the user has agreed to, however long an earlier attempt goes on.
TokensOfLastLogin ==
    dialog.tokens # None =>
        LET a == dialog.tokens
        IN  /\ \A b \in Attempts : task[b].gen <= task[a].gen
            /\ dialog.provider = task[a].provider
            /\ IF task[a].provider = "google" THEN a \in spent ELSE device[a] = "approved"
=============================================================================
