----------------------------- MODULE SealedMail -----------------------------
(***************************************************************************)
(* Mails between people who use SealMail, seen by one of them.  Everybody  *)
(* signs with a key of his own on disk or with the Ledger account he has   *)
(* bound, and may change from one to the other.  On its way a mail may be  *)
(* rewritten by a gateway or a mailing list: a part changes, a header gets *)
(* lost, or comes from another mail.  The reader has a list of contacts,   *)
(* each with the key he trusts, and looks at one mail at a time.           *)
(***************************************************************************)
EXTENDS Seal, Retain, FiniteSets

CONSTANTS
    People, Me,     \* addresses; whose list of contacts it is
    Drafts,         \* what may be written: [by, name, subject, body, attach, to]
    Skews,          \* how far a sender's clock is from the reader's, in days
    FirstContacts,  \* lists of contacts to start with
    Contacts,       \* contacts that may be trusted: [name, email, fpr]
    Edits,          \* what a gateway does to a part: <<field, value>>
    MaxSent, MaxEdits, MaxOps, MaxDay     \* bounds

\* Signing keys: the one in identity.key, the bound Ledger account, and another
\* account of the same device.
LocalKey(p) == <<p, "ed25519">>
LedgerKey(p) == <<p, "eth-personal">>
OtherLedgerKey(p) == <<p, "eth-other">>
SigningKeys == {LocalKey(p) : p \in People} \cup {LedgerKey(p) : p \in People}
            \cup {OtherLedgerKey(p) : p \in People}

\* What a signature of this program can be.
Written(f) == {d[f] : d \in Drafts}
HashValues == Nat \cup {Missing, Dash} \cup Written("subject") \cup Written("body")
           \cup Written("attach") \cup Written("to")
Canons == [version : {1, 2, 3}, from : People, date : Int, hashes : [Fields -> HashValues]]
Signatures == [key : SigningKeys, canon : Canons]

Contact == [name : STRING, email : People, fpr : SigningKeys]

\* A list as trust_sender leaves it.
OnePerAddress(list) == \A i, j \in DOMAIN list : list[i].email = list[j].email => i = j

\* What is not there is no value, and no value is the hash of nothing.
ASSUME SealedAssumption ==
    /\ Me \in People
    /\ Missing \notin {"ed25519", "eth-personal"} /\ Missing \notin Int
    /\ Missing \notin SigningKeys /\ Missing \notin Signatures
    /\ Dash \notin Int
    /\ \A d \in Drafts : d.by \in People /\ d.attach # Dash /\ d.to # Dash
    /\ \A e \in Edits : e[1] \in Fields \cup {"from", "name"} /\ e[2] # Dash
    /\ Skews \subseteq Int
    /\ Contacts \subseteq Contact /\ FirstContacts \subseteq Seq(Contact)
    /\ \A list \in FirstContacts : OnePerAddress(list)
    /\ {MaxSent, MaxEdits, MaxOps, MaxDay} \subseteq Nat

VARIABLES
    mode,           \* identity_config.mode: the kind of key a person signs with
    trusted,        \* the reader's contacts, in order
    today,          \* the reader's clock
    outgoing,       \* mails as they left: the mail and the key that signed it
    inbox,          \* the mail the reader looks at, or Missing
    edits, ops      \* bounds: edits on the way, commands so far

sealVars == <<mode, trusted, today, outgoing, inbox, edits, ops>>

Modes == {"local", "ledger"}

\* active_fingerprint
ActiveKey(p) == IF mode[p] = "ledger" THEN LedgerKey(p) ELSE LocalKey(p)
MethodOf(p) == IF mode[p] = "ledger" THEN "eth-personal" ELSE "ed25519"

\* trusted_for_verify: the reader's own key comes last in the list.
ForVerify == Append(trusted, [name |-> "(own)", email |-> Me, fpr |-> ActiveKey(Me)])
Tag(m) == Verdict(m, ForVerify, today)

\* A mail as it is built and signed, and as the parser returns it.
MailOf(d, mid, seal) ==
    [from |-> d.by, name |-> d.name, subject |-> d.subject, body |-> d.body, html |-> Missing,
     attach |-> d.attach, to |-> d.to, mid |-> mid, seal |-> seal]

SealInit ==
    /\ mode = [p \in People |-> "local"]
    /\ trusted \in FirstContacts
    /\ today = 0
    /\ outgoing = {} /\ inbox = Missing
    /\ edits = 0 /\ ops = 0

Command == ops < MaxOps /\ inbox = Missing /\ ops' = ops + 1

-----------------------------------------------------------------------------
(* The identity and the contacts.                                          *)

BindLedger(p) ==
    /\ Command
    /\ mode' = [mode EXCEPT ![p] = "ledger"]
    /\ UNCHANGED <<trusted, today, outgoing, inbox, edits>>

UseLocalKey(p) ==
    /\ Command
    /\ mode' = [mode EXCEPT ![p] = "local"]
    /\ UNCHANGED <<trusted, today, outgoing, inbox, edits>>

Others(email) == Retain(trusted, {trusted[i] : i \in EntriesOf(trusted, email)})

\* Mutant: the older entry stays.
TrustSenderToo(c) ==
    /\ Command
    /\ trusted' = Append(trusted, c)
    /\ UNCHANGED <<mode, today, outgoing, inbox, edits>>

\* A contact has one key: an older entry of the address is replaced.
TrustSender(c) ==
    /\ Command
    /\ trusted' = Append(Others(c.email), c)
    /\ UNCHANGED <<mode, today, outgoing, inbox, edits>>

RemoveTrusted(email) ==
    /\ Command
    /\ trusted' = Others(email)
    /\ UNCHANGED <<mode, today, outgoing, inbox, edits>>

DayPasses ==
    /\ Command
    /\ today < MaxDay
    /\ today' = today + 1
    /\ UNCHANGED <<mode, trusted, outgoing, inbox, edits>>

-----------------------------------------------------------------------------
(* Sending.  The Message-ID is new with every mail.                        *)

NextMid == Cardinality(outgoing) + 1

\* sign_email, sign_email_eth: with a Ledger the account that is open on the device
\* signs; what is not signed by the bound address is not sent.
Signers(p) == IF mode[p] = "local" THEN {LocalKey(p)} ELSE {LedgerKey(p), OtherLedgerKey(p)}

\* Mutant: the signature is not looked at before the mail is sent.
SelfCheckSkipped(p, signer) == TRUE

SelfCheck(p, signer) == mode[p] = "ledger" => signer = LedgerKey(p)

SealOf(d, ver, signer, date) ==
    HeadersFor(ver, MethodOf(d.by), ActiveKey(d.by), signer, d.by, date,
               ContentHashes(MailOf(d, NextMid, NoSeal)))

SendSigned(d, skew, signer) ==
    /\ Cardinality(outgoing) < MaxSent /\ inbox = Missing
    /\ signer \in Signers(d.by) /\ SelfCheck(d.by, signer)
    /\ outgoing' = outgoing \cup {[mail |-> MailOf(d, NextMid, SealOf(d, 3, signer, today + skew)),
                           key |-> signer]}
    /\ UNCHANGED <<mode, trusted, today, inbox, edits, ops>>

SendUnsigned(d) ==
    /\ Cardinality(outgoing) < MaxSent /\ inbox = Missing
    /\ outgoing' = outgoing \cup {[mail |-> MailOf(d, NextMid, NoSeal), key |-> Missing]}
    /\ UNCHANGED <<mode, trusted, today, inbox, edits, ops>>

\* Mails of earlier releases, which a reader still verifies.
SendLegacy(d, ver) ==
    /\ Cardinality(outgoing) < MaxSent /\ inbox = Missing
    /\ mode[d.by] = "local"
    /\ outgoing' = outgoing \cup {[mail |-> MailOf(d, NextMid, SealOf(d, ver, LocalKey(d.by), today)),
                           key |-> LocalKey(d.by)]}
    /\ UNCHANGED <<mode, trusted, today, inbox, edits, ops>>

-----------------------------------------------------------------------------
(* The way to the reader.                                                  *)

Deliver(s) ==
    /\ inbox = Missing
    /\ inbox' = s.mail
    /\ edits' = 0
    /\ UNCHANGED <<mode, trusted, today, outgoing, ops>>

Delete ==
    /\ inbox # Missing
    /\ inbox' = Missing
    /\ edits' = 0
    /\ UNCHANGED <<mode, trusted, today, outgoing, ops>>

OnTheWay == inbox # Missing /\ edits < MaxEdits /\ edits' = edits + 1

ChangePart(change) ==
    /\ OnTheWay
    /\ inbox' = [inbox EXCEPT ![change[1]] = change[2]]
    /\ UNCHANGED <<mode, trusted, today, outgoing, ops>>

LoseHeader(h) ==
    /\ OnTheWay
    /\ inbox' = [inbox EXCEPT !.seal = [@ EXCEPT ![h] = Missing]]
    /\ UNCHANGED <<mode, trusted, today, outgoing, ops>>

\* A reply or a digest that carries the headers of another mail.
TakeSeal(s) ==
    /\ OnTheWay
    /\ inbox' = [inbox EXCEPT !.seal = s.mail.seal]
    /\ UNCHANGED <<mode, trusted, today, outgoing, ops>>

Identity ==
    \/ \E p \in People : BindLedger(p) \/ UseLocalKey(p)
    \/ \E c \in Contacts : TrustSender(c)
    \/ \E e \in People : RemoveTrusted(e)
    \/ DayPasses

Send ==
    \E d \in Drafts :
        \/ \E skew \in Skews, signer \in SigningKeys : SendSigned(d, skew, signer)
        \/ SendUnsigned(d)
        \/ \E ver \in {1, 2} : SendLegacy(d, ver)

Transport ==
    \/ \E s \in outgoing : Deliver(s) \/ TakeSeal(s)
    \/ Delete
    \/ \E c \in Edits : ChangePart(c)
    \/ \E h \in Headers : LoseHeader(h)

SealNext == Identity \/ Send \/ Transport

SealSpec == SealInit /\ [][SealNext]_sealVars

-----------------------------------------------------------------------------
(* Properties.                                                             *)

Values(f) == {s.mail[f] : s \in outgoing} \cup {c[2] : c \in {x \in Edits : x[1] = f}}

\* Types, and one contact per address; every part of the mail in the inbox was written
\* by somebody or comes from a gateway, and its seal only has headers of mails that
\* were sent.
SealTypeOK ==
    /\ mode \in [People -> Modes]
    /\ trusted \in Seq(Contact)
    /\ OnePerAddress(trusted)
    /\ today \in 0 .. MaxDay /\ edits \in 0 .. MaxEdits /\ ops \in 0 .. MaxOps
    /\ Cardinality(outgoing) <= MaxSent
    /\ inbox # Missing =>
        /\ \A f \in DOMAIN inbox \ {"seal"} : inbox[f] \in Values(f)
        /\ \A h \in Headers :
            inbox.seal[h] \in {s.mail.seal[h] : s \in outgoing} \cup {Missing}

\* The first contact with this address has this key.
Trusts(email, key) ==
    LET hits == EntriesOf(ForVerify, email)
    IN  hits # {} /\ ForVerify[FirstIndex(hits)].fpr = key

\* The mail m says what the mail s said, as far as the version of s signs it.
SaysTheSame(m, s) ==
    /\ m.from = s.from /\ m.body = s.body
    /\ IF s.seal["version"] = 1
       THEN m.html = Missing /\ m.attach = Missing
       ELSE \A f \in {"subject", "html", "attach", "to"} : m[f] = s[f]
    /\ s.seal["version"] = 3 => m.mid = s.mid

\* verify_message (mail.rs:739): a mail is shown as verified only when the contact
\* the reader trusts for its address has signed, with the trusted key and not
\* too long ago, a mail that says the same, whatever happened on the way.
VerifiedIsGenuine ==
    inbox # Missing /\ Tag(inbox) = "verified" =>
        \E s \in outgoing :
            /\ Trusts(inbox.from, s.key)
            /\ SaysTheSame(inbox, s.mail)
            /\ today - s.mail.seal["date"] <= MaxAgeDays

\* sign_email and verify_headers (crypto.rs:304, 445) agree: a mail that arrives as
\* it was sent never counts as tampered with, and it is verified when its address
\* is trusted with the key that signed it, the date is near enough and version 1
\* covers all of it.
IntactIsVerified ==
    \A s \in outgoing :
        inbox = s.mail /\ s.key # Missing =>
            /\ Tag(inbox) # "tampered" /\ Tag(inbox) # "unsigned"
            /\ /\ Trusts(inbox.from, s.key)
               /\ today - s.mail.seal["date"] \in -1 .. MaxAgeDays
               /\ s.mail.seal["version"] = 1 => s.mail.attach = Missing
               => Tag(inbox) = "verified"

\* The name of a contact does not speak for another address (mail.rs:769, 937): a
\* mail with the name of a contact from an address that nobody is trusted for is
\* shown as an impersonation or as tampered with, unless the key of that contact
\* has signed it.
NameNotBorrowed ==
    /\ inbox # Missing
    /\ ByName(ForVerify, inbox) # {}
    /\ EntriesOf(ForVerify, inbox.from) = {}
    => \/ Tag(inbox) \in {"impersonation", "tampered"}
       \/ /\ Tag(inbox) = "signedUnknown"
          /\ \E s \in outgoing :
                /\ s.key = NameOwner(ForVerify, inbox).fpr
                /\ s.mail.from = inbox.from /\ s.mail.body = inbox.body
=============================================================================
