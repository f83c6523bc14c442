------------------------------ MODULE SecretMap ------------------------------
(***************************************************************************)
(* What the secrets store promises to the rest of the program: one table   *)
(* of credentials, changed one account at a time.  No failure of the       *)
(* keychain or of the disk, and no crash, ever takes the credentials of    *)
(* another account with it, except before the store is founded, that is,   *)
(* before any update has succeeded: until then an update may start over.   *)
(***************************************************************************)
EXTENDS Naturals

CONSTANTS Accounts, MaxTag

VARIABLES
    table,      \* per account the update that wrote its secret, 0 for none
    founded     \* an update has succeeded

vars == <<table, founded>>

Nobody == [a \in Accounts |-> 0]

Init == table = Nobody /\ founded = FALSE

Put(a) == \E tag \in 1 .. MaxTag : table' = [table EXCEPT ![a] = tag]
Remove(a) == table' = [table EXCEPT ![a] = 0]
StartOver(a) == ~founded /\ \E tag \in 0 .. MaxTag : table' = [Nobody EXCEPT ![a] = tag]
Keep == table' = table

Next ==
    /\ \/ \E a \in Accounts : Put(a) \/ Remove(a) \/ StartOver(a)
       \/ Keep
    /\ founded' \in {founded, TRUE}

Spec == Init /\ [][Next]_vars
=============================================================================
