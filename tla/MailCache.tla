------------------------------ MODULE MailCache ------------------------------
(***************************************************************************)
(* What the local copy of one IMAP folder promises to the rest of the      *)
(* program, without the commands that keep the promise.                    *)
(*                                                                         *)
(* The server holds a set of messages, each named by the UIDVALIDITY and   *)
(* the UID it had when it was there.  The cache holds messages too, and a  *)
(* stamp, the UIDVALIDITY it believes they belong to.  The cache           *)
(*   - only ever learns a message that the server had;                     *)
(*   - forgets a message only when the server has lost it, or throws       *)
(*     everything away because its stamp is out of date;                   *)
(*   - takes the server's UIDVALIDITY as its stamp only when every message *)
(*     it holds is of that UIDVALIDITY, and nothing else joins them.       *)
(***************************************************************************)
EXTENDS Naturals

CONSTANTS MaxUid, MaxEpoch

VARIABLES
    epoch,      \* the server's UIDVALIDITY
    next,       \* its UIDNEXT
    server,     \* the messages it has
    stamp,      \* the UIDVALIDITY the cache is stamped with, 0 for none
    cache       \* the messages in the cache

vars == <<epoch, next, server, stamp, cache>>

Messages == (1 .. MaxEpoch) \X (1 .. MaxUid)

\* Every message there is or was: those of an earlier UIDVALIDITY, and those
\* that have been given a UID.
Known == {m \in Messages : m[1] < epoch \/ (m[1] = epoch /\ m[2] < next)}

Trustworthy == stamp = epoch => \A m \in cache : m[1] = epoch

Init ==
    /\ epoch = 1
    /\ next \in 1 .. MaxUid + 1
    /\ server = {<<1, u>> : u \in 1 .. next - 1}
    /\ stamp = 0
    /\ cache = {}

Receive ==
    /\ next <= MaxUid
    /\ server' = server \cup {<<epoch, next>>}
    /\ next' = next + 1
    /\ UNCHANGED <<epoch, stamp, cache>>

Lose ==
    /\ \E m \in server : server' = server \ {m}
    /\ UNCHANGED <<epoch, next, stamp, cache>>

Renumber ==
    /\ epoch < MaxEpoch
    /\ epoch' = epoch + 1
    /\ next' \in 1 .. MaxUid + 1
    /\ server' = {<<epoch', u>> : u \in 1 .. next' - 1}
    /\ UNCHANGED <<stamp, cache>>

Learn ==
    /\ \E new \in SUBSET Known : cache' = cache \cup new
    /\ Trustworthy'
    /\ UNCHANGED <<epoch, next, server, stamp>>

Forget ==
    /\ \E m \in cache \ server : cache' = cache \ {m}
    /\ UNCHANGED <<epoch, next, server, stamp>>

Discard ==
    /\ stamp # epoch
    /\ cache' = {}
    /\ UNCHANGED <<epoch, next, server, stamp>>

Stamp ==
    /\ stamp' \in 1 .. epoch
    /\ Trustworthy'
    /\ UNCHANGED <<epoch, next, server, cache>>

Next == Receive \/ Lose \/ Renumber \/ Learn \/ Forget \/ Discard \/ Stamp

Spec == Init /\ [][Next]_vars
=============================================================================
