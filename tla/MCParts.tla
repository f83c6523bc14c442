------------------------------ MODULE MCParts ------------------------------
(***************************************************************************)
(* Parts of the application that share no state and work without the       *)
(* window: the secrets store, the tables of the configuration directory,   *)
(* the seals of mails, the Ledger device and the cache of parsed mails,    *)
(* each on a small instance.  A behaviour is one of one part; the others   *)
(* stay as they are at the start.                                          *)
(***************************************************************************)
EXTENDS SecretsStore, ConfigStore, SealedMail, Ledger, MessageCache, TLC

VARIABLE part

-----------------------------------------------------------------------------
(* SecretsStore and ConfigStore: interchangeable processes.  A process of  *)
(* the secrets store may crash before any step.                            *)

CrashAnywhere == Labels \ {"idle"}
Symmetry == Permutations(Procs) \cup Permutations(Accounts)

\* A table of each kind; two rules of the window and of a terminal, one of which is
\* changed or removed.
FileOrder == <<"prefs", "accounts", "filters">>
Cmd(f, op, id, v, window) == [file |-> f, op |-> op, id |-> id, v |-> v, window |-> window]
SmallCommands ==
    {Cmd("accounts", "save", 101, 1, TRUE), Cmd("accounts", "save", 102, 1, TRUE),
     Cmd("filters", "save", New, 1, TRUE), Cmd("filters", "save", New, 2, FALSE),
     Cmd("filters", "save", 1, 2, TRUE), Cmd("filters", "remove", 1, 0, TRUE),
     Cmd("prefs", "save", 201, 1, TRUE), Cmd("prefs", "save", 202, 1, TRUE)}

(* SealedMail: Bob writes under his own name or under Ann's.               *)

Draft(by, name, attach, to) ==
    [by |-> by, name |-> name, subject |-> "s", body |-> "b", attach |-> attach, to |-> to]
SomeDrafts ==
    {Draft("ann", "Ann", Missing, {"me"}), Draft("bob", "Bob", "file", {"me", "bob"}),
     Draft("bob", "Ann", Missing, {"me"}), Draft("me", "Me", "file", {"me"})}

Person(name, email, key) == [name |-> name, email |-> email, fpr |-> key]
SomeContacts == {Person("Ann", "ann", <<"ann", "eth-personal">>), Person("Bob", "bob", <<"bob", "ed25519">>)}
OnlyAnn == {<<Person("Ann", "ann", <<"ann", "ed25519">>)>>}

\* A footer, a tag in the subject, an HTML part, a file taken out or put in,
\* another To line, another Message-ID, another sender in From.
GatewayChanges ==
    {<<"body", "other">>, <<"subject", "other">>, <<"html", "other">>,
     <<"attach", Missing>>, <<"attach", "other">>, <<"to", {"bob"}>>,
     <<"mid", Missing>>, <<"mid", 0>>, <<"from", "bob">>, <<"name", "Ann">>}

\* Clocks are a day behind, or two days ahead.
SomeSkews == {-1, 2}

(* Ledger: a message of one APDU, and one of three.                        *)

Lengths == [short |-> 1, long |-> 8]

-----------------------------------------------------------------------------
PartsInit ==
    /\ part \in {"secrets", "config", "seal", "ledger", "cache"}
    /\ Init /\ ConfigInit /\ SealInit /\ SigningInit /\ CacheInit

SecretsNext == part = "secrets" /\ Next /\ UNCHANGED <<configVars, sealVars, signingVars, cacheVars>>
TablesNext == part = "config" /\ ConfigNext /\ UNCHANGED <<vars, sealVars, signingVars, cacheVars>>
MailNext == part = "seal" /\ SealNext /\ UNCHANGED <<vars, configVars, signingVars, cacheVars>>
DeviceNext == part = "ledger" /\ SigningNext /\ UNCHANGED <<vars, configVars, sealVars, cacheVars>>
ReadNext == part = "cache" /\ CacheNext /\ UNCHANGED <<vars, configVars, sealVars, signingVars>>

PartsNext ==
    /\ SecretsNext \/ TablesNext \/ MailNext \/ DeviceNext \/ ReadNext
    /\ UNCHANGED part

partsVars == <<part, vars, configVars, sealVars, signingVars, cacheVars>>
PartsSpec == PartsInit /\ [][PartsNext]_partsVars

-----------------------------------------------------------------------------
\* Every part keeps its types, its tables distinct and its queues within their bounds: see
\* the modules of the parts.
PartsTypeOK == TypeOK /\ ConfigTypeOK /\ SealTypeOK /\ SigningTypeOK /\ CacheTypeOK
=============================================================================
