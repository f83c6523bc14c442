-------------------------------- MODULE Seal --------------------------------
(***************************************************************************)
(* The seal of a mail: what a sender signs, the X-SealMail-* headers that  *)
(* carry it, and what a reader concludes from them.  Pure operators; the   *)
(* mails that travel are in SealedMail.                                    *)
(*                                                                         *)
(* Hashes are the values they are taken of and a signature is the pair of  *)
(* the key and what it signed: two values with one hash, or a signature    *)
(* made without the key, do not happen.  A field is compared after         *)
(* trimming and lower-casing in the code; the values here are the          *)
(* normalised ones.                                                        *)
(***************************************************************************)
EXTENDS Integers, Sequences

CONSTANTS
    Missing,        \* a header or a part that is not there; an unreadable date
    Dash,           \* EMPTY_HASH_TOKEN, the hash of nothing
    MaxAgeDays      \* MAX_VERIFIED_AGE_DAYS, 180 in the code

ASSUME SealAssumption == Missing # Dash /\ MaxAgeDays \in Nat

Fields == {"subject", "body", "html", "attach", "to", "mid"}
Headers == Fields \cup {"version", "method", "pubkey", "address", "from", "date", "sig"}

\* Every header of a mail that is not signed.
NoSeal == [h \in Headers |-> Missing]

\* content_hashes: there is no HTML part, attachment, recipient or Message-ID to hash.
HashOf(field, value) ==
    IF field \in {"html", "attach", "to", "mid"} /\ value = Missing THEN Dash ELSE value

ContentHashes(m) == [f \in Fields |-> HashOf(f, m[f])]

\* The version header of a mail: anything but "3" and "2" is read as version 1.
VersionNum(v) == IF v \in {2, 3} THEN v ELSE 1

\* Mutant: version 3 does not sign the Message-ID.
CoveredWithoutMid(ver) ==
    IF ver = 1 THEN {"body"} ELSE {"body", "subject", "html", "attach", "to"}

\* canon_string, canon_string_v2, canon_string_v3: what the signature covers.
Covered(ver) ==
    CASE ver = 1 -> {"body"}
      [] ver = 2 -> {"body", "subject", "html", "attach", "to"}
      [] OTHER   -> Fields

CanonOf(ver, from, date, hashes) ==
    [version |-> ver, from |-> from, date |-> date,
     hashes |-> [f \in Fields |-> IF f \in Covered(ver) THEN hashes[f] ELSE Missing]]

\* headers_for_current: the public key, or the address of the Ledger account, goes
\* in the header of its method; the signature is by the key "signer".
HeadersFor(ver, method, id, signer, from, date, hashes) ==
    [h \in Headers |->
        CASE h = "version" -> ver
          [] h = "method"  -> method
          [] h = "pubkey"  -> IF method = "ed25519" THEN id ELSE Missing
          [] h = "address" -> IF method = "ed25519" THEN Missing ELSE id
          [] h = "from"    -> from
          [] h = "date"    -> date
          [] h = "sig"     -> [key |-> signer, canon |-> CanonOf(ver, from, date, hashes)]
          [] OTHER         -> IF h \in Covered(ver) THEN hashes[h] ELSE Missing]

\* verify_message: headers that are not there have a default.
SignedHash(seal, f) ==
    IF f \in {"html", "attach", "to", "mid"} /\ seal[f] = Missing THEN Dash ELSE seal[f]

SignedFrom(m) == IF m.seal["from"] = Missing THEN m.from ELSE m.seal["from"]

\* The method decides which header names the key.
Method(seal) == IF seal["method"] = Missing THEN "ed25519" ELSE seal["method"]
IdSource(seal) == IF Method(seal) = "eth-personal" THEN seal["address"] ELSE seal["pubkey"]

\* The signature is by the key the mail names, over what the headers say.
Canon(m) ==
    CanonOf(VersionNum(m.seal["version"]), SignedFrom(m), m.seal["date"],
            [f \in Fields |-> SignedHash(m.seal, f)])

SignatureHolds(m) == m.seal["sig"] = [key |-> IdSource(m.seal), canon |-> Canon(m)]

\* The mail that arrived is the one the headers describe.
ContentMatches(m) ==
    \A f \in Covered(VersionNum(m.seal["version"])) :
        ContentHashes(m)[f] = SignedHash(m.seal, f)

\* v1_unsigned_surface_present
UnsignedSurface(m) ==
    /\ VersionNum(m.seal["version"]) = 1
    /\ m.html # Missing \/ m.attach # Missing

\* signature_date_implausible, signature_too_old; a date that cannot be read is both.
DateOk(date, today) ==
    /\ date # Missing
    /\ date <= today + 1
    /\ today - date <= MaxAgeDays

FirstIndex(hits) == CHOOSE i \in hits : \A j \in hits : i <= j
EntriesOf(list, email) == {i \in 1 .. Len(list) : list[i].email = email}
ByAddr(list, m) == EntriesOf(list, m.from)
ByName(list, m) == {i \in 1 .. Len(list) : list[i].name # "" /\ list[i].name = m.name}

\* A contact with the name of the mail's sender.
NameOwner(list, m) == list[FirstIndex(ByName(list, m))]

(***************************************************************************)
(* verify_message.  A mail that is not signed is taken for the mail of a   *)
(* contact when it has the name of one and another address; a mail whose   *)
(* signature does not hold is tampered with; the key of a contact counts   *)
(* only for the address it was trusted with.                               *)
(***************************************************************************)
Signed(m) == m.seal["sig"] # Missing /\ IdSource(m.seal) # Missing

\* Mutant: names are compared in signed mails only.
UnsignedVerdictNameless(m, list) == "unsigned"

UnsignedVerdict(m, list) ==
    IF ByName(list, m) # {} /\ NameOwner(list, m).email # m.from
    THEN "impersonation" ELSE "unsigned"

StrangerVerdict(m, list) ==
    IF ByName(list, m) # {} /\ NameOwner(list, m).fpr # IdSource(m.seal)
    THEN "impersonation" ELSE "signedUnknown"

ContactVerdict(m, contact, today) ==
    IF contact.fpr # IdSource(m.seal) THEN "impersonation"
    ELSE IF DateOk(m.seal["date"], today) /\ ~UnsignedSurface(m)
    THEN "verified" ELSE "signedUnknown"

Verdict(m, list, today) ==
    IF ~Signed(m) THEN UnsignedVerdict(m, list)
    ELSE IF SignedFrom(m) # m.from THEN "impersonation"
    ELSE IF ~(SignatureHolds(m) /\ ContentMatches(m)) THEN "tampered"
    ELSE IF ByAddr(list, m) = {} THEN StrangerVerdict(m, list)
    ELSE ContactVerdict(m, list[FirstIndex(ByAddr(list, m))], today)
=============================================================================
