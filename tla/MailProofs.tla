----------------------------- MODULE MailProofs -----------------------------
(*****************************************************************************)
(* Proofs about mails: SealedMail, for any people, drafts, gateways and      *)
(* clocks, and any number of mails, changes of them and commands of the      *)
(* reader; Ledger, for any messages, sizes of packets and APDUs, devices and *)
(* requests; and MessageCache, for any mails, sizes and changes of folders;  *)
(* with MCParts, where these and the stores are checked together.            *)
(*****************************************************************************)
EXTENDS MCParts, SecretsStoreProofs, ConfigStoreProofs, FiniteSetTheorems, SequenceTheorems

-----------------------------------------------------------------------------
(* Sealed mails.                                                           *)

Versions == {1, 2, 3}
Methods == {"ed25519", "eth-personal"}
MailParts == Fields \cup {"from", "name", "seal"}

\* A mail that was signed with the key: its headers are those of its own parts.
SignedWith(m, key) ==
    /\ key \in SigningKeys
    /\ \E ver \in Versions, method \in Methods, date \in Int :
          m.seal = HeadersFor(ver, method, key, key, m.from, date, ContentHashes(m))

\* A mail as it left.
Leaves(s) ==
    /\ DOMAIN s.mail = MailParts /\ DOMAIN s.mail.seal = Headers
    /\ s.mail.from \in People
    /\ s.mail.html = Missing
    /\ \A f \in Fields : s.mail[f] # Dash \/ f \in {"subject", "body"}
    /\ ContentHashes(s.mail) \in [Fields -> HashValues]
    /\ \/ s.key = Missing /\ s.mail.seal = NoSeal
       \/ SignedWith(s.mail, s.key)

\* A mail as it may arrive: whatever was changed, nobody else has signed for it.
Arrives(m) ==
    /\ DOMAIN m = MailParts /\ DOMAIN m.seal = Headers
    /\ \A f \in Fields : m[f] # Dash \/ f \in {"subject", "body"}
    /\ m.seal["sig"] \in {s.mail.seal["sig"] : s \in outgoing} \cup {Missing}

(***************************************************************************)
(* What keeps the properties: every mail that was sent is sealed with the  *)
(* key it was signed with, over its own parts, and the mail in the inbox   *)
(* has the signature of one of them or none.                               *)
(***************************************************************************)
SealInv ==
    /\ mode \in [People -> Modes]
    /\ trusted \in Seq(Contact)
    /\ today \in Int
    /\ IsFiniteSet(outgoing)
    /\ \A s \in outgoing : Leaves(s)
    /\ inbox # Missing => Arrives(inbox)

-----------------------------------------------------------------------------
(* Seals.                                                                  *)

LEMMA HeaderValues ==
    ASSUME NEW ver \in Versions, NEW method \in Methods, NEW key, NEW from, NEW date, NEW hashes,
           NEW q, q = HeadersFor(ver, method, key, key, from, date, hashes)
    PROVE  /\ DOMAIN q = Headers
           /\ q["version"] = ver /\ q["method"] = method
           /\ q["pubkey"] = (IF method = "ed25519" THEN key ELSE Missing)
           /\ q["address"] = (IF method = "ed25519" THEN Missing ELSE key)
           /\ q["from"] = from /\ q["date"] = date
           /\ q["sig"] = [key |-> key, canon |-> CanonOf(ver, from, date, hashes)]
           /\ \A f \in Fields : q[f] = IF f \in Covered(ver) THEN hashes[f] ELSE Missing
BY DEF HeadersFor, Headers, Fields

\* The covered parts are parts; the body always is one of them.
LEMMA CoveredParts ==
    ASSUME NEW ver \in Versions
    PROVE  /\ Covered(ver) \subseteq Fields /\ "body" \in Covered(ver)
           /\ ver # 1 => {"subject", "html", "attach", "to"} \subseteq Covered(ver)
           /\ ver = 3 => "mid" \in Covered(ver)
BY DEF Covered, Fields, Versions

\* Two mails with one hash have the same part, unless one of them has the hash of nothing.
LEMMA HashTellsApart ==
    ASSUME NEW f, NEW v, NEW w, HashOf(f, v) = HashOf(f, w),
           v # Dash \/ f \in {"subject", "body"}, w # Dash \/ f \in {"subject", "body"}
    PROVE  v = w
BY DEF HashOf

\* A signature that holds tells what its mail said.
LEMMA CanonTells ==
    ASSUME NEW v1, NEW f1, NEW d1, NEW h1, NEW v2, NEW f2, NEW d2, NEW h2,
           CanonOf(v1, f1, d1, h1) = CanonOf(v2, f2, d2, h2)
    PROVE  v1 = v2 /\ f1 = f2 /\ d1 = d2 /\ \A f \in Covered(v1) : f \in Fields => h1[f] = h2[f]
<1>1. v1 = v2 /\ f1 = f2 /\ d1 = d2
      /\ [f \in Fields |-> IF f \in Covered(v1) THEN h1[f] ELSE Missing]
       = [f \in Fields |-> IF f \in Covered(v2) THEN h2[f] ELSE Missing]
  BY DEF CanonOf
<1>2. ASSUME NEW f \in Fields, f \in Covered(v1) PROVE h1[f] = h2[f]
  <2>1. [g \in Fields |-> IF g \in Covered(v1) THEN h1[g] ELSE Missing][f] = h1[f]  BY <1>2
  <2>2. [g \in Fields |-> IF g \in Covered(v2) THEN h2[g] ELSE Missing][f] = h2[f]  BY <1>1, <1>2
  <2> QED BY <1>1, <2>1, <2>2
<1> QED BY <1>1, <1>2

\* The first of the entries is one of them.
LEMMA FirstIsOne ==
    ASSUME NEW list, NEW S, list \in Seq(S), NEW hits, hits \subseteq 1 .. Len(list), hits # {}
    PROVE  FirstIndex(hits) \in hits
<1>1. hits \subseteq Nat  OBVIOUS
<1>2. \E n \in hits : \A m \in hits : n <= m
  <2>1. IsWellFoundedOn(OpToRel(<, Nat), Nat)  BY NatLessThanWellFounded
  <2>2. PICK n \in hits : \A m \in hits : ~(<<m, n>> \in OpToRel(<, Nat))
    BY <1>1, <2>1, WFMin, Zenon
  <2>3. ASSUME NEW m \in hits PROVE n <= m
    <3>1. m \in Nat /\ n \in Nat  BY <1>1
    <3>2. ~(m < n)  BY <2>2, <3>1 DEF OpToRel
    <3> QED BY <3>1, <3>2
  <2> QED BY <2>3
<1> QED BY <1>2 DEF FirstIndex

\* What a mail that was sent tells a reader.
LEMMA SealReads ==
    ASSUME NEW m, NEW key, SignedWith(m, key), ContentHashes(m) \in [Fields -> HashValues],
           m.from \in People
    PROVE  /\ m.seal["sig"] # Missing /\ IdSource(m.seal) = key /\ key # Missing
           /\ m.seal["version"] \in Versions /\ m.seal["date"] \in Int /\ m.seal["from"] = m.from
           /\ VersionNum(m.seal["version"]) = m.seal["version"]
           /\ m.seal["sig"] = [key |-> key, canon |-> CanonOf(m.seal["version"], m.from,
                                                              m.seal["date"], ContentHashes(m))]
           /\ \A f \in Covered(m.seal["version"]) : SignedHash(m.seal, f) = ContentHashes(m)[f]
<1>1. PICK ver \in Versions, method \in Methods, date \in Int :
          m.seal = HeadersFor(ver, method, key, key, m.from, date, ContentHashes(m))
  BY DEF SignedWith
<1>2. key \in SigningKeys /\ key # Missing  BY SealedAssumption DEF SignedWith
<1>3. PICK q : q = m.seal  OBVIOUS
<1>4. PICK hashes : hashes = ContentHashes(m)  OBVIOUS
<1>5. /\ q["version"] = ver /\ q["method"] = method
      /\ q["pubkey"] = (IF method = "ed25519" THEN key ELSE Missing)
      /\ q["address"] = (IF method = "ed25519" THEN Missing ELSE key)
      /\ q["from"] = m.from /\ q["date"] = date
      /\ q["sig"] = [key |-> key, canon |-> CanonOf(ver, m.from, date, hashes)]
      /\ \A f \in Fields : q[f] = IF f \in Covered(ver) THEN hashes[f] ELSE Missing
  BY <1>1, <1>3, <1>4, HeaderValues
<1>6. method # Missing  BY SealedAssumption DEF Methods
<1>7. IdSource(q) = key  BY <1>5, <1>6 DEF IdSource, Method, Methods
<1>8. q["sig"] # Missing
  <2>1. CanonOf(ver, m.from, date, hashes) \in Canons
    <3>1. \A f \in Fields : hashes[f] \in HashValues  BY <1>4
    <3>2. Missing \in HashValues  BY DEF HashValues
    <3>3. [f \in Fields |-> IF f \in Covered(ver) THEN hashes[f] ELSE Missing] \in [Fields -> HashValues]
      BY <3>1, <3>2
    <3> QED BY <1>1, <3>3 DEF CanonOf, Canons, Versions
  <2>2. q["sig"] \in Signatures  BY <1>2, <1>5, <2>1 DEF Signatures
  <2> QED BY <2>2, SealedAssumption
<1>9. ASSUME NEW f \in Covered(ver) PROVE SignedHash(q, f) = hashes[f]
  <2>1. f \in Fields  BY CoveredParts
  <2>2. q[f] = hashes[f] /\ hashes[f] = HashOf(f, m[f])  BY <1>4, <1>5, <2>1 DEF ContentHashes
  <2> QED BY <2>2, SealAssumption DEF SignedHash, HashOf
<1>10. VersionNum(ver) = ver  BY DEF VersionNum, Versions
<1> QED BY <1>2, <1>3, <1>4, <1>5, <1>7, <1>8, <1>9, <1>10

LEMMA NoSealReads ==
    NoSeal["sig"] = Missing /\ DOMAIN NoSeal = Headers
BY DEF NoSeal, Headers

\* verify_message: a signature that holds over what the mail says was made for a mail
\* that says the same, by the key the mail names.
LEMMA HoldsForSent ==
    ASSUME SealInv, NEW m, Arrives(m), Signed(m), SignedFrom(m) = m.from,
           SignatureHolds(m), ContentMatches(m)
    PROVE  \E s \in outgoing :
              /\ s.key = IdSource(m.seal) /\ s.mail.from = m.from
              /\ s.mail.seal["version"] = VersionNum(m.seal["version"])
              /\ s.mail.seal["version"] \in Versions
              /\ s.mail.seal["date"] = m.seal["date"] /\ s.mail.seal["date"] \in Int
              /\ s.mail.html = Missing
              /\ \A f \in Covered(s.mail.seal["version"]) : m[f] = s.mail[f]
<1>1. m.seal["sig"] # Missing  BY DEF Signed
<1>2. PICK s \in outgoing : m.seal["sig"] = s.mail.seal["sig"]  BY <1>1 DEF Arrives
<1>3. Leaves(s)  BY DEF SealInv
<1>4. SignedWith(s.mail, s.key)  BY <1>1, <1>2, <1>3, NoSealReads DEF Leaves
<1>5. PICK ver, date, from, hashes :
        /\ ver = s.mail.seal["version"] /\ date = s.mail.seal["date"] /\ from = s.mail.from
        /\ hashes = ContentHashes(s.mail)
  OBVIOUS
<1>6. /\ ver \in Versions /\ date \in Int
      /\ s.mail.seal["sig"] = [key |-> s.key, canon |-> CanonOf(ver, from, date, hashes)]
  BY <1>3, <1>4, <1>5, SealReads DEF Leaves
<1>7. /\ s.key = IdSource(m.seal)
      /\ CanonOf(ver, from, date, hashes) = Canon(m)
  BY <1>2, <1>6 DEF SignatureHolds
<1>8. /\ ver = VersionNum(m.seal["version"]) /\ from = m.from /\ date = m.seal["date"]
      /\ \A f \in Covered(ver) : f \in Fields => hashes[f] = [g \in Fields |-> SignedHash(m.seal, g)][f]
  BY <1>7, CanonTells DEF Canon
<1>9. ASSUME NEW f \in Covered(ver) PROVE m[f] = s.mail[f]
  <2>1. f \in Fields  BY <1>6, CoveredParts
  <2>2. hashes[f] = SignedHash(m.seal, f)  BY <1>8, <2>1
  <2>3. ContentHashes(m)[f] = SignedHash(m.seal, f)  BY <1>8 DEF ContentMatches
  <2>4. HashOf(f, m[f]) = HashOf(f, s.mail[f])  BY <1>5, <2>1, <2>2, <2>3 DEF ContentHashes
  <2> QED BY <1>3, <2>1, <2>4, HashTellsApart DEF Arrives, Leaves
<1>10. s.mail.html = Missing  BY <1>3 DEF Leaves
<1> QED BY <1>5, <1>6, <1>7, <1>8, <1>9, <1>10

-----------------------------------------------------------------------------
(* The properties follow from the invariant.                               *)

LEMMA ContactList ==
    ASSUME SealInv
    PROVE  \E S : ForVerify \in Seq(S)
<1>1. PICK own : own = [name |-> "(own)", email |-> Me, fpr |-> ActiveKey(Me)]  OBVIOUS
<1>2. ForVerify \in Seq(Contact \cup {own})
  <2>1. trusted \in Seq(Contact \cup {own})  BY DEF SealInv
  <2> QED BY <1>1, <2>1 DEF ForVerify
<1> QED BY <1>2

LEMMA VerifiedFromInv ==
    ASSUME SealInv PROVE VerifiedIsGenuine
<1> SUFFICES ASSUME inbox # Missing, Tag(inbox) = "verified"
             PROVE  \E s \in outgoing :
                       /\ Trusts(inbox.from, s.key) /\ SaysTheSame(inbox, s.mail)
                       /\ today - s.mail.seal["date"] <= MaxAgeDays
  BY DEF VerifiedIsGenuine
<1>1. PICK list : list = ForVerify  OBVIOUS
<1>2. Verdict(inbox, list, today) = "verified"  BY <1>1 DEF Tag
<1>3. /\ Signed(inbox) /\ SignedFrom(inbox) = inbox.from
      /\ SignatureHolds(inbox) /\ ContentMatches(inbox)
      /\ ByAddr(list, inbox) # {}
      /\ ContactVerdict(inbox, list[FirstIndex(ByAddr(list, inbox))], today) = "verified"
  BY <1>2 DEF Verdict, UnsignedVerdict, StrangerVerdict
<1>4. /\ list[FirstIndex(ByAddr(list, inbox))].fpr = IdSource(inbox.seal)
      /\ DateOk(inbox.seal["date"], today) /\ ~UnsignedSurface(inbox)
  BY <1>3 DEF ContactVerdict
<1>5. PICK s \in outgoing :
        /\ s.key = IdSource(inbox.seal) /\ s.mail.from = inbox.from
        /\ s.mail.seal["version"] = VersionNum(inbox.seal["version"])
        /\ s.mail.seal["version"] \in Versions
        /\ s.mail.seal["date"] = inbox.seal["date"] /\ s.mail.seal["date"] \in Int
        /\ s.mail.html = Missing
        /\ \A f \in Covered(s.mail.seal["version"]) : inbox[f] = s.mail[f]
  BY <1>3, HoldsForSent DEF SealInv
<1>6. Trusts(inbox.from, s.key)  BY <1>1, <1>3, <1>4, <1>5 DEF Trusts, ByAddr
<1>7. today - s.mail.seal["date"] <= MaxAgeDays  BY <1>4, <1>5 DEF DateOk
<1>8. SaysTheSame(inbox, s.mail)
  <2>1. PICK ver : ver = s.mail.seal["version"]  OBVIOUS
  <2>2. inbox.body = s.mail.body  BY <1>5, CoveredParts
  <2>3. ver = 1 => inbox.html = Missing /\ inbox.attach = Missing
    BY <1>4, <1>5, <2>1 DEF UnsignedSurface
  <2>4. ver # 1 => \A f \in {"subject", "html", "attach", "to"} : inbox[f] = s.mail[f]
    BY <1>5, <2>1, CoveredParts
  <2>5. ver = 3 => inbox.mid = s.mail.mid  BY <1>5, <2>1, CoveredParts
  <2> QED BY <1>5, <2>1, <2>2, <2>3, <2>4, <2>5 DEF SaysTheSame
<1> QED BY <1>6, <1>7, <1>8

LEMMA IntactFromInv ==
    ASSUME SealInv PROVE IntactIsVerified
<1> SUFFICES ASSUME NEW s \in outgoing, inbox = s.mail, s.key # Missing
             PROVE  /\ Tag(inbox) # "tampered" /\ Tag(inbox) # "unsigned"
                    /\ /\ Trusts(inbox.from, s.key)
                       /\ today - s.mail.seal["date"] \in -1 .. MaxAgeDays
                       /\ s.mail.seal["version"] = 1 => s.mail.attach = Missing
                       => Tag(inbox) = "verified"
  BY DEF IntactIsVerified
<1>1. PICK list, m : list = ForVerify /\ m = inbox  OBVIOUS
<1>2. Leaves(s) /\ SignedWith(m, s.key)  BY <1>1 DEF SealInv, Leaves
<1>3. /\ m.seal["sig"] # Missing /\ IdSource(m.seal) = s.key /\ s.key # Missing
      /\ m.seal["version"] \in Versions /\ m.seal["date"] \in Int /\ m.seal["from"] = m.from
      /\ VersionNum(m.seal["version"]) = m.seal["version"]
      /\ m.seal["sig"] = [key |-> s.key, canon |-> CanonOf(m.seal["version"], m.from,
                                                           m.seal["date"], ContentHashes(m))]
      /\ \A f \in Covered(m.seal["version"]) : SignedHash(m.seal, f) = ContentHashes(m)[f]
  BY <1>1, <1>2, SealReads DEF Leaves
<1>4. Signed(m) /\ SignedFrom(m) = m.from  BY <1>3 DEF Signed, SignedFrom
<1>5. ContentMatches(m)  BY <1>3 DEF ContentMatches
<1>6. SignatureHolds(m)
  <2>1. PICK ver, h, g : /\ ver = m.seal["version"] /\ h = ContentHashes(m)
                         /\ g = [f \in Fields |-> SignedHash(m.seal, f)]
    OBVIOUS
  <2>2. \A f \in Fields : f \in Covered(ver) => h[f] = g[f]  BY <1>3, <2>1
  <2>3. [f \in Fields |-> IF f \in Covered(ver) THEN h[f] ELSE Missing]
        = [f \in Fields |-> IF f \in Covered(ver) THEN g[f] ELSE Missing]
    BY <2>2
  <2>4. CanonOf(ver, m.from, m.seal["date"], h) = CanonOf(ver, m.from, m.seal["date"], g)
    BY <2>3 DEF CanonOf
  <2> QED BY <1>3, <1>4, <2>1, <2>4 DEF SignatureHolds, Canon
<1>7. Tag(m) = IF ByAddr(list, m) = {} THEN StrangerVerdict(m, list)
               ELSE ContactVerdict(m, list[FirstIndex(ByAddr(list, m))], today)
  BY <1>1, <1>4, <1>5, <1>6 DEF Tag, Verdict
<1>8. Tag(m) # "tampered" /\ Tag(m) # "unsigned"  BY <1>7 DEF StrangerVerdict, ContactVerdict
<1>9. ASSUME Trusts(m.from, s.key), today - m.seal["date"] \in -1 .. MaxAgeDays,
             m.seal["version"] = 1 => m.attach = Missing
      PROVE  Tag(m) = "verified"
  <2>1. ByAddr(list, m) # {} /\ list[FirstIndex(ByAddr(list, m))].fpr = s.key
    BY <1>1, <1>9 DEF Trusts, ByAddr
  <2>2. DateOk(m.seal["date"], today)
    <3>1. m.seal["date"] # Missing  BY <1>3, SealedAssumption
    <3>2. today \in Int  BY DEF SealInv
    <3> QED BY <1>3, <1>9, <3>1, <3>2, SealAssumption DEF DateOk
  <2>3. ~UnsignedSurface(m)  BY <1>1, <1>2, <1>3, <1>9 DEF UnsignedSurface, Leaves
  <2> QED BY <1>3, <1>7, <2>1, <2>2, <2>3 DEF ContactVerdict
<1> QED BY <1>1, <1>8, <1>9

LEMMA NameFromInv ==
    ASSUME SealInv PROVE NameNotBorrowed
<1> SUFFICES ASSUME inbox # Missing, ByName(ForVerify, inbox) # {},
                    EntriesOf(ForVerify, inbox.from) = {}
             PROVE  \/ Tag(inbox) \in {"impersonation", "tampered"}
                    \/ /\ Tag(inbox) = "signedUnknown"
                       /\ \E s \in outgoing :
                             /\ s.key = NameOwner(ForVerify, inbox).fpr
                             /\ s.mail.from = inbox.from /\ s.mail.body = inbox.body
  BY DEF NameNotBorrowed
<1>1. PICK list : list = ForVerify  OBVIOUS
<1>2. PICK S : list \in Seq(S)  BY <1>1, ContactList
<1>3. FirstIndex(ByName(list, inbox)) \in ByName(list, inbox)
  BY <1>1, <1>2, FirstIsOne DEF ByName
<1>4. NameOwner(list, inbox).email # inbox.from
  BY <1>1, <1>3 DEF NameOwner, ByName, EntriesOf
<1>5. CASE ~Signed(inbox)
  BY <1>1, <1>4, <1>5 DEF Tag, Verdict, UnsignedVerdict
<1>6. CASE Signed(inbox) /\ SignedFrom(inbox) # inbox.from
  BY <1>6 DEF Tag, Verdict
<1>7. CASE Signed(inbox) /\ SignedFrom(inbox) = inbox.from
           /\ ~(SignatureHolds(inbox) /\ ContentMatches(inbox))
  BY <1>7 DEF Tag, Verdict
<1>8. CASE Signed(inbox) /\ SignedFrom(inbox) = inbox.from
           /\ SignatureHolds(inbox) /\ ContentMatches(inbox)
  <2>1. Tag(inbox) = StrangerVerdict(inbox, list)  BY <1>1, <1>8 DEF Tag, Verdict, ByAddr
  <2>2. PICK s \in outgoing :
          /\ s.key = IdSource(inbox.seal) /\ s.mail.from = inbox.from
          /\ s.mail.seal["version"] \in Versions
          /\ \A f \in Covered(s.mail.seal["version"]) : inbox[f] = s.mail[f]
    BY <1>8, HoldsForSent DEF SealInv
  <2>3. s.mail.body = inbox.body  BY <2>2, CoveredParts
  <2> QED BY <1>1, <2>1, <2>2, <2>3 DEF StrangerVerdict
<1> QED BY <1>5, <1>6, <1>7, <1>8

-----------------------------------------------------------------------------
(* The invariant is kept.                                                  *)

LEMMA SealInvInit ==
    ASSUME SealInit PROVE SealInv
<1>1. mode \in [People -> Modes]  BY DEF SealInit, Modes
<1>2. trusted \in Seq(Contact)  BY SealedAssumption DEF SealInit
<1>3. IsFiniteSet(outgoing)  BY FS_EmptySet DEF SealInit
<1> QED BY <1>1, <1>2, <1>3 DEF SealInit, SealInv

\* A mail that is built and signed leaves as it should.
LEMMA BuiltMail ==
    ASSUME NEW d \in Drafts, NEW mid \in Nat, NEW seal, DOMAIN seal = Headers,
           NEW m, m = MailOf(d, mid, seal)
    PROVE  /\ DOMAIN m = MailParts /\ m.seal = seal
           /\ m.from = d.by /\ m.from \in People /\ m.html = Missing
           /\ \A f \in Fields : m[f] # Dash \/ f \in {"subject", "body"}
           /\ ContentHashes(m) \in [Fields -> HashValues]
           /\ ContentHashes(m) = ContentHashes(MailOf(d, mid, NoSeal))
<1>1. DOMAIN m = MailParts  BY DEF MailOf, MailParts, Fields
<1>2. /\ m.seal = seal /\ m.from = d.by /\ m.html = Missing /\ m["subject"] = d.subject
      /\ m["body"] = d.body /\ m["attach"] = d.attach /\ m["to"] = d.to /\ m["mid"] = mid
  BY DEF MailOf
<1>3. d.by \in People /\ d.attach # Dash /\ d.to # Dash /\ mid # Dash  BY SealedAssumption
<1>4. Missing # Dash  BY SealAssumption
<1>5. \A f \in Fields : m[f] # Dash \/ f \in {"subject", "body"}  BY <1>2, <1>3, <1>4 DEF Fields
<1>6. ASSUME NEW f \in Fields PROVE HashOf(f, m[f]) \in HashValues
  <2>1. m[f] \in HashValues
    BY <1>2 DEF HashValues, Written, Fields
  <2> QED BY <2>1 DEF HashOf, HashValues
<1>7. ContentHashes(m) \in [Fields -> HashValues]  BY <1>6 DEF ContentHashes
<1>8. ASSUME NEW f \in Fields PROVE m[f] = MailOf(d, mid, NoSeal)[f]
  BY <1>2 DEF MailOf, Fields
<1>9. ContentHashes(m) = ContentHashes(MailOf(d, mid, NoSeal))  BY <1>8 DEF ContentHashes
<1> QED BY <1>1, <1>2, <1>3, <1>5, <1>7, <1>9

\* A mail is added to those that were sent.
LEMMA SentKeepsInv ==
    ASSUME SealInv, NEW s, Leaves(s), outgoing' = outgoing \cup {s},
           UNCHANGED <<mode, trusted, today, inbox>>
    PROVE  SealInv'
<1>1. IsFiniteSet(outgoing')  BY FS_AddElement DEF SealInv
<1>2. inbox' # Missing => Arrives(inbox)'  BY DEF SealInv, Arrives
<1>3. \A x \in outgoing' : Leaves(x)'
  <2>1. \A x : Leaves(x)' <=> Leaves(x)  BY DEF Leaves
  <2> QED BY <2>1 DEF SealInv
<1> QED BY <1>1, <1>2, <1>3 DEF SealInv

LEMMA SealedMailLeaves ==
    ASSUME NEW d \in Drafts, NEW mid \in Nat, NEW ver \in Versions, NEW method \in Methods,
           NEW key \in SigningKeys, NEW date \in Int, NEW s,
           s = [mail |-> MailOf(d, mid, HeadersFor(ver, method, key, key, d.by, date,
                                                   ContentHashes(MailOf(d, mid, NoSeal)))),
                key |-> key]
    PROVE  Leaves(s)
<1>1. PICK seal : seal = HeadersFor(ver, method, key, key, d.by, date,
                                    ContentHashes(MailOf(d, mid, NoSeal)))
  OBVIOUS
<1>2. DOMAIN seal = Headers
  <2>1. PICK hashes, from : hashes = ContentHashes(MailOf(d, mid, NoSeal)) /\ from = d.by  OBVIOUS
  <2>2. seal = HeadersFor(ver, method, key, key, from, date, hashes)  BY <1>1, <2>1
  <2>3. DOMAIN HeadersFor(ver, method, key, key, from, date, hashes) = Headers  BY DEF HeadersFor
  <2> QED BY <2>2, <2>3
<1>3. PICK m : m = MailOf(d, mid, seal)  OBVIOUS
<1>4. s.mail = m /\ s.key = key  BY <1>1, <1>3
<1>5. /\ DOMAIN m = MailParts /\ m.seal = seal
      /\ m.from = d.by /\ m.from \in People /\ m.html = Missing
      /\ \A f \in Fields : m[f] # Dash \/ f \in {"subject", "body"}
      /\ ContentHashes(m) \in [Fields -> HashValues]
      /\ ContentHashes(m) = ContentHashes(MailOf(d, mid, NoSeal))
  BY <1>2, <1>3, BuiltMail
<1>6. SignedWith(m, key)  BY <1>1, <1>5 DEF SignedWith
<1> QED BY <1>2, <1>4, <1>5, <1>6 DEF Leaves

LEMMA NextMidNat ==
    ASSUME SealInv PROVE NextMid \in Nat
BY FS_CardinalityType DEF SealInv, NextMid

\* sign_email, sign_email_eth: the key that signs is the one the headers name.
LEMMA SendSignedKeeps ==
    ASSUME SealInv, NEW d \in Drafts, NEW skew \in Skews, NEW signer \in SigningKeys,
           SendSigned(d, skew, signer)
    PROVE  SealInv'
<1>1. d.by \in People /\ mode[d.by] \in Modes  BY SealedAssumption DEF SealInv
<1>2. signer = ActiveKey(d.by)
  BY <1>1 DEF SendSigned, Signers, SelfCheck, ActiveKey, Modes
<1>3. MethodOf(d.by) \in Methods  BY DEF MethodOf, Methods
<1>4. today + skew \in Int  BY SealedAssumption DEF SealInv
<1>5. PICK s : s = [mail |-> MailOf(d, NextMid, SealOf(d, 3, signer, today + skew)), key |-> signer]
  OBVIOUS
<1>6. Leaves(s)
  <2>1. NextMid \in Nat /\ 3 \in Versions  BY NextMidNat DEF Versions
  <2> QED BY <1>2, <1>3, <1>4, <1>5, <2>1, SealedMailLeaves DEF SealOf
<1>7. outgoing' = outgoing \cup {s} /\ UNCHANGED <<mode, trusted, today, inbox>>
  BY <1>5 DEF SendSigned
<1> QED BY <1>6, <1>7, SentKeepsInv

LEMMA SendUnsignedKeeps ==
    ASSUME SealInv, NEW d \in Drafts, SendUnsigned(d) PROVE SealInv'
<1>1. PICK s : s = [mail |-> MailOf(d, NextMid, NoSeal), key |-> Missing]  OBVIOUS
<1>2. Leaves(s)  BY <1>1, NextMidNat, BuiltMail, NoSealReads DEF Leaves
<1>3. outgoing' = outgoing \cup {s} /\ UNCHANGED <<mode, trusted, today, inbox>>
  BY <1>1 DEF SendUnsigned
<1> QED BY <1>2, <1>3, SentKeepsInv

LEMMA SendLegacyKeeps ==
    ASSUME SealInv, NEW d \in Drafts, NEW ver \in {1, 2}, SendLegacy(d, ver) PROVE SealInv'
<1>1. d.by \in People /\ LocalKey(d.by) \in SigningKeys  BY SealedAssumption DEF SigningKeys
<1>2. ActiveKey(d.by) = LocalKey(d.by)  BY DEF SendLegacy, ActiveKey
<1>3. MethodOf(d.by) \in Methods  BY DEF MethodOf, Methods
<1>4. today \in Int /\ ver \in Versions /\ NextMid \in Nat  BY NextMidNat DEF SealInv, Versions
<1>5. PICK s : s = [mail |-> MailOf(d, NextMid, SealOf(d, ver, LocalKey(d.by), today)),
                    key |-> LocalKey(d.by)]
  OBVIOUS
<1>6. Leaves(s)  BY <1>1, <1>2, <1>3, <1>4, <1>5, SealedMailLeaves DEF SealOf
<1>7. outgoing' = outgoing \cup {s} /\ UNCHANGED <<mode, trusted, today, inbox>>
  BY <1>5 DEF SendLegacy
<1> QED BY <1>6, <1>7, SentKeepsInv

\* Another mail in the inbox, or none.
LEMMA InboxKeepsInv ==
    ASSUME SealInv, inbox' # Missing => Arrives(inbox'),
           UNCHANGED <<mode, trusted, today, outgoing>>
    PROVE  SealInv'
<1>1. inbox' # Missing => Arrives(inbox)'  BY DEF Arrives
<1>2. \A x : Leaves(x)' <=> Leaves(x)  BY DEF Leaves
<1> QED BY <1>1, <1>2 DEF SealInv

LEMMA TransportKeeps ==
    ASSUME SealInv, Transport PROVE SealInv'
<1>1. ASSUME NEW s \in outgoing, Deliver(s) PROVE SealInv'
  <2>1. Arrives(s.mail)  BY DEF SealInv, Leaves, Arrives
  <2> QED BY <1>1, <2>1, InboxKeepsInv DEF Deliver
<1>2. ASSUME NEW s \in outgoing, TakeSeal(s) PROVE SealInv'
  <2>1. Leaves(s) /\ Arrives(inbox)  BY <1>2 DEF SealInv, TakeSeal, OnTheWay
  <2>2. PICK m : m = [inbox EXCEPT !.seal = s.mail.seal]  OBVIOUS
  <2>3. /\ DOMAIN m = MailParts /\ m.seal = s.mail.seal
        /\ \A f \in Fields : m[f] = inbox[f]
    BY <2>1, <2>2 DEF Arrives, MailParts, Fields
  <2>4. Arrives(m)  BY <2>1, <2>3 DEF Arrives, Leaves
  <2> QED BY <1>2, <2>2, <2>4, InboxKeepsInv DEF TakeSeal
<1>3. ASSUME Delete PROVE SealInv'
  BY <1>3, InboxKeepsInv DEF Delete
<1>4. ASSUME NEW e \in Edits, ChangePart(e) PROVE SealInv'
  <2>1. Arrives(inbox)  BY <1>4 DEF SealInv, ChangePart, OnTheWay
  <2>2. e[1] \in Fields \cup {"from", "name"} /\ e[2] # Dash  BY SealedAssumption
  <2>3. PICK p, v : p = e[1] /\ v = e[2]  OBVIOUS
  <2>4. PICK m : m = [inbox EXCEPT ![p] = v]  OBVIOUS
  <2>5. /\ DOMAIN m = MailParts /\ m.seal = inbox.seal
        /\ \A f \in Fields : m[f] = inbox[f] \/ m[f] = v
    BY <2>1, <2>2, <2>3, <2>4 DEF Arrives, MailParts, Fields
  <2>6. Arrives(m)  BY <2>1, <2>2, <2>3, <2>5 DEF Arrives
  <2> QED BY <1>4, <2>3, <2>4, <2>6, InboxKeepsInv DEF ChangePart
<1>5. ASSUME NEW h \in Headers, LoseHeader(h) PROVE SealInv'
  <2>1. Arrives(inbox)  BY <1>5 DEF SealInv, LoseHeader, OnTheWay
  <2>2. PICK q : q = [inbox.seal EXCEPT ![h] = Missing]  OBVIOUS
  <2>3. PICK m : m = [inbox EXCEPT !.seal = q]  OBVIOUS
  <2>4. DOMAIN q = Headers /\ (q["sig"] = Missing \/ q["sig"] = inbox.seal["sig"])
    BY <2>1, <2>2 DEF Arrives, Headers
  <2>5. DOMAIN m = MailParts /\ m.seal = q /\ \A f \in Fields : m[f] = inbox[f]
    BY <2>1, <2>3 DEF Arrives, MailParts, Fields
  <2>6. Arrives(m)  BY <2>1, <2>4, <2>5 DEF Arrives
  <2>7. inbox' = m  BY <1>5, <2>2, <2>3 DEF LoseHeader
  <2> QED BY <1>5, <2>6, <2>7, InboxKeepsInv DEF LoseHeader
<1> QED BY <1>1, <1>2, <1>3, <1>4, <1>5 DEF Transport

\* Vec::retain leaves values of the sequence.
KeptIn(kept, seq, gone, m) ==
    kept = [n \in 0 .. m |->
              IF n = 0 THEN <<>>
              ELSE IF seq[n] \in gone THEN kept[n - 1] ELSE Append(kept[n - 1], seq[n])]

LEMMA LeastOf ==
    ASSUME NEW T, T \subseteq Nat, T # {}
    PROVE  \E n \in T : \A m \in T : n <= m
<1>1. IsWellFoundedOn(OpToRel(<, Nat), Nat)  BY NatLessThanWellFounded
<1>2. PICK n \in T : \A m \in T : ~(<<m, n>> \in OpToRel(<, Nat))
  BY <1>1, WFMin, Zenon
<1>3. ASSUME NEW m \in T PROVE n <= m
  <2>1. m \in Nat /\ n \in Nat  OBVIOUS
  <2>2. ~(m < n)  BY <1>2, <2>1 DEF OpToRel
  <2> QED BY <2>1, <2>2
<1> QED BY <1>3

LEMMA KeptExists ==
    ASSUME NEW seq, NEW gone, NEW m \in Nat
    PROVE  \E kept : KeptIn(kept, seq, gone, m)
<1> DEFINE Bad == {k \in Nat : ~ \E kept : KeptIn(kept, seq, gone, k)}
<1> SUFFICES ASSUME Bad # {} PROVE FALSE  OBVIOUS
<1>1. PICK k \in Bad : \A j \in Bad : k <= j
  <2> HIDE DEF Bad
  <2>1. Bad \subseteq Nat  BY DEF Bad
  <2> QED BY <2>1, LeastOf
<1>2. k # 0
  <2>1. KeptIn([n \in 0 .. 0 |-> <<>>], seq, gone, 0)  BY DEF KeptIn
  <2> QED BY <1>1, <2>1
<1>3. PICK kept : KeptIn(kept, seq, gone, k - 1)
  <2>1. k - 1 \in Nat /\ ~(k <= k - 1)  BY <1>1, <1>2
  <2> QED BY <1>1, <2>1
<1>4. PICK last : last = IF seq[k] \in gone THEN kept[k - 1] ELSE Append(kept[k - 1], seq[k])
  OBVIOUS
<1>5. PICK more : more = [n \in 0 .. k |-> IF n = k THEN last ELSE kept[n]]  OBVIOUS
<1>6. k \in Nat /\ k > 0  BY <1>1, <1>2
<1>7. \A n \in 0 .. k - 1 :
        kept[n] = IF n = 0 THEN <<>>
                  ELSE IF seq[n] \in gone THEN kept[n - 1] ELSE Append(kept[n - 1], seq[n])
  BY <1>3 DEF KeptIn
<1>8. more[k] = last /\ \A n \in 0 .. k - 1 : more[n] = kept[n]  BY <1>5, <1>6
<1>9. ASSUME NEW n \in 0 .. k
      PROVE  more[n] = IF n = 0 THEN <<>>
                       ELSE IF seq[n] \in gone THEN more[n - 1]
                            ELSE Append(more[n - 1], seq[n])
  <2>1. CASE n = k
    <3>1. more[n - 1] = kept[n - 1]  BY <1>6, <1>8, <2>1
    <3> QED BY <1>2, <1>4, <1>8, <2>1, <3>1
  <2>2. CASE n # k /\ n # 0
    <3>1. n \in 0 .. k - 1 /\ n - 1 \in 0 .. k - 1  BY <1>6, <2>2
    <3>2. more[n] = kept[n] /\ more[n - 1] = kept[n - 1]  BY <1>8, <3>1
    <3> QED BY <1>7, <2>2, <3>1, <3>2
  <2>3. CASE n # k /\ n = 0
    <3>1. n \in 0 .. k - 1  BY <1>6, <2>3
    <3> QED BY <1>7, <1>8, <2>3, <3>1
  <2> QED BY <2>1, <2>2, <2>3
<1>10. more = [n \in 0 .. k |-> more[n]]  BY <1>5
<1>11. KeptIn(more, seq, gone, k)  BY <1>9, <1>10 DEF KeptIn
<1> QED BY <1>1, <1>11

LEMMA RetainKept ==
    ASSUME NEW seq, NEW gone, Len(seq) \in Nat
    PROVE  \E kept : KeptIn(kept, seq, gone, Len(seq)) /\ Retain(seq, gone) = kept[Len(seq)]
<1>1. \E kept : KeptIn(kept, seq, gone, Len(seq))  BY KeptExists
<1> QED BY <1>1 DEF KeptIn, Retain

LEMMA RetainType ==
    ASSUME NEW S, NEW seq \in Seq(S), NEW gone
    PROVE  Retain(seq, gone) \in Seq(S)
<1>1. PICK kept : KeptIn(kept, seq, gone, Len(seq)) /\ Retain(seq, gone) = kept[Len(seq)]
  BY RetainKept
<1> DEFINE Bad == {n \in 0 .. Len(seq) : kept[n] \notin Seq(S)}
<1>2. Bad = {}
  <2> SUFFICES ASSUME Bad # {} PROVE FALSE  OBVIOUS
  <2>1. PICK n \in Bad : \A m \in Bad : n <= m
    <3> HIDE DEF Bad
    <3>1. Bad \subseteq Nat  BY DEF Bad
    <3> QED BY <3>1, LeastOf
  <2>2. n \in 0 .. Len(seq)  OBVIOUS
  <2>3. CASE n = 0  BY <1>1, <2>1, <2>2, <2>3 DEF KeptIn
  <2>4. CASE n # 0
    <3>1. n - 1 \in 0 .. Len(seq) /\ ~(n <= n - 1) /\ n \in DOMAIN seq  BY <2>2, <2>4
    <3>2. kept[n - 1] \in Seq(S) /\ seq[n] \in S  BY <2>1, <3>1
    <3>3. kept[n] = IF seq[n] \in gone THEN kept[n - 1] ELSE Append(kept[n - 1], seq[n])
      BY <1>1, <2>2, <2>4 DEF KeptIn
    <3>4. kept[n] \in Seq(S)  BY <3>2, <3>3
    <3> QED BY <2>1, <3>4
  <2> QED BY <2>3, <2>4
<1> QED BY <1>1, <1>2

LEMMA IdentityKeeps ==
    ASSUME SealInv, Identity PROVE SealInv'
<1>1. \A x : Leaves(x)' <=> Leaves(x)  BY DEF Leaves
<1>2. ASSUME mode' \in [People -> Modes], trusted' \in Seq(Contact), today' \in Int,
             outgoing' = outgoing, inbox' = inbox
      PROVE  SealInv'
  BY <1>1, <1>2 DEF SealInv, Arrives
<1>3. ASSUME NEW p \in People, BindLedger(p) \/ UseLocalKey(p) PROVE SealInv'
  BY <1>2, <1>3 DEF BindLedger, UseLocalKey, SealInv, Modes
<1>4. \A email : Others(email) \in Seq(Contact)  BY RetainType DEF SealInv, Others
<1>5. ASSUME NEW c \in Contacts, TrustSender(c) PROVE SealInv'
  <2>1. c \in Contact  BY SealedAssumption
  <2>2. PICK o : o = Others(c.email)  OBVIOUS
  <2>3. trusted' \in Seq(Contact)  BY <1>4, <1>5, <2>1, <2>2 DEF TrustSender
  <2> QED BY <1>2, <1>5, <2>3 DEF TrustSender, SealInv
<1>6. ASSUME NEW e \in People, RemoveTrusted(e) PROVE SealInv'
  BY <1>2, <1>4, <1>6 DEF RemoveTrusted, SealInv
<1>7. ASSUME DayPasses PROVE SealInv'
  BY <1>2, <1>7 DEF DayPasses, SealInv
<1> QED BY <1>3, <1>5, <1>6, <1>7 DEF Identity

LEMMA SealInvStep ==
    ASSUME SealInv, [SealNext]_sealVars PROVE SealInv'
<1>1. CASE Identity  BY <1>1, IdentityKeeps
<1>2. CASE Send  BY <1>2, SendSignedKeeps, SendUnsignedKeeps, SendLegacyKeeps DEF Send
<1>3. CASE Transport  BY <1>3, TransportKeeps
<1>4. CASE UNCHANGED sealVars
  <2>1. \A x : Leaves(x)' <=> Leaves(x)  BY DEF Leaves
  <2> QED BY <1>4, <2>1 DEF sealVars, SealInv, Arrives
<1> QED BY <1>1, <1>2, <1>3, <1>4 DEF SealNext

-----------------------------------------------------------------------------
(* Theorems.                                                               *)

LEMMA SealInvHolds == SealSpec => []SealInv
<1>1. SealInit => SealInv  BY SealInvInit
<1>2. SealInv /\ [SealNext]_sealVars => SealInv'  BY SealInvStep
<1> QED BY <1>1, <1>2, PTL DEF SealSpec

\* A mail that is shown as verified was sent as it is shown, by the key that the reader
\* trusts for its address.
THEOREM VerifiedMailIsGenuine == SealSpec => []VerifiedIsGenuine
<1>1. SealInv => VerifiedIsGenuine  BY VerifiedFromInv
<1> QED BY <1>1, SealInvHolds, PTL

\* A mail that nobody changed is never shown as tampered with, and it is verified when
\* its address is trusted with its key.
THEOREM IntactMailIsVerified == SealSpec => []IntactIsVerified
<1>1. SealInv => IntactIsVerified  BY IntactFromInv
<1> QED BY <1>1, SealInvHolds, PTL

\* The name of a contact does not speak for an address that nobody is trusted for.
THEOREM NamesAreNotBorrowed == SealSpec => []NameNotBorrowed
<1>1. SealInv => NameNotBorrowed  BY NameFromInv
<1> QED BY <1>1, SealInvHolds, PTL

-----------------------------------------------------------------------------
(* The signing device.  First, lengths.                                    *)

LEMMA Times ==
    ASSUME NEW a \in Int, NEW b \in Int, NEW n \in Nat, a <= b
    PROVE  a * n <= b * n /\ a * n \in Int /\ b * n \in Int
<1>1. b - a \in Nat  OBVIOUS
<1>2. (b - a) * n >= 0  BY <1>1, SMT
<1>3. (b - a) * n = b * n - a * n  BY SMT
<1> QED BY <1>2, <1>3, SMT

LEMMA Divided ==
    ASSUME NEW a \in Nat, NEW n \in Nat \ {0}
    PROVE  /\ a \div n \in Nat /\ (a \div n) * n \in Nat
           /\ (a \div n) * n <= a /\ a < (a \div n) * n + n
OBVIOUS

LEMMA CeilBounds ==
    ASSUME NEW a \in Nat, NEW n \in Nat \ {0}
    PROVE  /\ Ceil(a, n) \in Nat /\ a <= Ceil(a, n) * n
           /\ a = 0 => Ceil(a, n) = 0
           /\ Ceil(a, n) # 0 => (Ceil(a, n) - 1) * n < a
<1>1. PICK c : c = (a + n - 1) \div n  OBVIOUS
<1>2. /\ c \in Nat /\ c * n \in Nat
      /\ c * n <= a + n - 1 /\ a + n - 1 < c * n + n
  BY <1>1, Divided
<1>3. (c - 1) * n = c * n - n  BY <1>2, SMT
<1>4. ASSUME a = 0 PROVE c = 0
  <2>1. c # 0 => 1 * n <= c * n  BY <1>2, Times
  <2> QED BY <1>2, <1>4, <2>1
<1> QED BY <1>1, <1>2, <1>3, <1>4 DEF Ceil

-----------------------------------------------------------------------------
(* HID packets: what is cut into packets is put together again.            *)

LEMMA BytePlace ==
    ASSUME NEW len \in Nat, NEW i \in 1 .. len
    PROVE  LET k == PacketOf(i) IN
           /\ k \in 1 .. PacketsFor(len) /\ Offset(k) \in Nat
           /\ i - Offset(k) \in 1 .. Room(k)
<1>1. FirstRoom \in Nat \ {0} /\ NextRoom \in Nat \ {0}  BY LedgerAssumption
<1>2. CASE i <= FirstRoom
  <2>1. PacketOf(i) = 1 /\ Offset(1) = 0 /\ Room(1) = FirstRoom
    BY <1>2 DEF PacketOf, Offset, Room
  <2>2. PacketsFor(len) \in Nat \ {0}
    <3>1. len > FirstRoom => Ceil(len - FirstRoom, NextRoom) \in Nat  BY <1>1, CeilBounds
    <3> QED BY <1>1, <3>1 DEF PacketsFor
  <2> QED BY <1>2, <2>1, <2>2
<1>3. CASE ~(i <= FirstRoom)
  <2>1. PICK x, q : x = i - FirstRoom - 1 /\ q = x \div NextRoom  OBVIOUS
  <2>2. x \in Nat  BY <1>1, <1>3, <2>1
  <2>3. q \in Nat /\ q * NextRoom \in Nat /\ q * NextRoom <= x /\ x < q * NextRoom + NextRoom
    BY <1>1, <2>1, <2>2, Divided
  <2>4. PacketOf(i) = 2 + q  BY <1>3, <2>1 DEF PacketOf
  <2>5. Offset(2 + q) = FirstRoom + q * NextRoom /\ Room(2 + q) = NextRoom
    BY <2>3 DEF Offset, Room
  <2>6. len > FirstRoom /\ len - FirstRoom \in Nat  BY <1>1, <1>3
  <2>7. PICK c : c = Ceil(len - FirstRoom, NextRoom)  OBVIOUS
  <2>8. c \in Nat /\ len - FirstRoom <= c * NextRoom  BY <1>1, <2>6, <2>7, CeilBounds
  <2>9. PacketsFor(len) = 1 + c  BY <1>1, <2>6, <2>7 DEF PacketsFor
  <2>10. q < c
    <3>1. c <= q => c * NextRoom <= q * NextRoom  BY <1>1, <2>3, <2>8, Times
    <3>2. c * NextRoom \in Int  BY <1>1, <2>8
    <3> QED BY <1>1, <2>1, <2>3, <2>8, <3>1, <3>2
  <2>11. i = FirstRoom + x + 1  BY <1>1, <2>1
  <2>12. i - Offset(2 + q) \in 1 .. NextRoom /\ Offset(2 + q) \in Nat
    BY <1>1, <2>2, <2>3, <2>5, <2>11
  <2>13. 2 + q \in 1 .. PacketsFor(len)  BY <2>3, <2>8, <2>9, <2>10
  <2> QED BY <2>4, <2>5, <2>12, <2>13
<1> QED BY <1>2, <1>3

LEMMA PacketCount ==
    ASSUME NEW len \in Nat PROVE 1 \in 1 .. PacketsFor(len)
<1>1. FirstRoom \in Nat \ {0} /\ NextRoom \in Nat \ {0}  BY LedgerAssumption
<1>2. len > FirstRoom => Ceil(len - FirstRoom, NextRoom) \in Nat  BY <1>1, CeilBounds
<1> QED BY <1>1, <1>2 DEF PacketsFor

LEMMA DeframeFrame ==
    ASSUME NEW S, NEW apdu \in Seq(S)
    PROVE  Deframe(Frame(apdu)) = apdu
<1>1. PICK len, pkts : len = Len(apdu) /\ pkts = Frame(apdu)  OBVIOUS
<1>2. len \in Nat  BY <1>1
<1>3. \A k \in 1 .. PacketsFor(len) :
        /\ pkts[k].total = IF k = 1 THEN len ELSE 0
        /\ pkts[k].data = [i \in 1 .. Room(k) |->
                             IF Offset(k) + i <= len THEN apdu[Offset(k) + i] ELSE "fill"]
  BY <1>1 DEF Frame
<1>4. pkts[1].total = len  BY <1>2, <1>3, PacketCount
<1>5. ASSUME NEW i \in 1 .. len
      PROVE  pkts[PacketOf(i)].data[i - Offset(PacketOf(i))] = apdu[i]
  <2>1. PICK k, j : k = PacketOf(i) /\ j = i - Offset(k)  OBVIOUS
  <2>2. k \in 1 .. PacketsFor(len) /\ Offset(k) \in Nat /\ j \in 1 .. Room(k)
    BY <1>2, <2>1, BytePlace
  <2>3. Offset(k) + j = i /\ i <= len  BY <1>2, <2>1, <2>2
  <2>4. pkts[k].data[j] = apdu[Offset(k) + j]  BY <1>3, <2>2, <2>3
  <2> QED BY <2>1, <2>3, <2>4
<1>6. Deframe(pkts) = [i \in 1 .. len |-> apdu[i]]  BY <1>4, <1>5 DEF Deframe
<1>7. apdu = [i \in 1 .. len |-> apdu[i]]  BY <1>1
<1> QED BY <1>1, <1>6, <1>7

-----------------------------------------------------------------------------
(* APDUs: what the device has collected of a message after each of them.   *)

Data == {"path"} \cup Nat \cup (Messages \X Nat)

\* The bytes after the path that the first j APDUs carry, and with the path.
Upto(m, j) == Shorter(Shorter(MaxApduData - PathLen, Len(Tail0(m))) + (j - 1) * MaxApduData, Len(Tail0(m)))
Got(m, j) == Path \o SubSeq(Tail0(m), 1, Upto(m, j))

LEMMA DataValues ==
    "path" \in Data /\ Nat \subseteq Data /\ \A m \in Messages, i \in Nat : <<m, i>> \in Data
BY DEF Data

LEMMA MessageParts ==
    ASSUME NEW m \in Messages
    PROVE  /\ Path \in Seq(Data) /\ Len(Path) = PathLen
           /\ Bytes(m) \in Seq(Data) /\ Len(Bytes(m)) = Size[m]
           /\ Tail0(m) \in Seq(Data) /\ Len(Tail0(m)) = Size[m] + 1
           /\ Tail0(m)[1] = Size[m]
           /\ \A i \in 1 .. Size[m] : Tail0(m)[i + 1] = Bytes(m)[i]
<1>1. PathLen \in Nat /\ Size[m] \in Nat /\ Size[m] > 0  BY LedgerAssumption
<1>2. Path \in Seq(Data) /\ Len(Path) = PathLen
  <2>1. \A i \in 1 .. PathLen : "path" \in Data  BY DataValues
  <2>2. [i \in 1 .. PathLen |-> "path"] \in Seq(Data)  BY <1>1, <2>1, IsASeq
  <2>3. DOMAIN Path = 1 .. PathLen  BY DEF Path
  <2> QED BY <1>1, <2>2, <2>3, LenProperties DEF Path
<1>3. PICK b : b = Bytes(m)  OBVIOUS
<1>4. b \in Seq(Data) /\ Len(b) = Size[m]
  <2>1. \A i \in 1 .. Size[m] : <<m, i>> \in Data  BY <1>1, DataValues
  <2>2. [i \in 1 .. Size[m] |-> <<m, i>>] \in Seq(Data)  BY <1>1, <2>1, IsASeq
  <2>3. b \in Seq(Data) /\ DOMAIN b = 1 .. Size[m]  BY <1>3, <2>2 DEF Bytes
  <2> QED BY <1>1, <2>3
<1>5. PICK h, t : h = <<Size[m]>> /\ t = Tail0(m)  OBVIOUS
<1>6. h \in Seq(Data) /\ Len(h) = 1 /\ h[1] = Size[m]
  <2>1. Size[m] \in Data  BY <1>1, DataValues
  <2> QED BY <1>5, <2>1
<1>7. t = h \o b  BY <1>3, <1>5 DEF Tail0
<1>8. t \in Seq(Data) /\ Len(t) = Len(h) + Len(b)
      /\ \A i \in 1 .. Len(h) + Len(b) : t[i] = IF i <= Len(h) THEN h[i] ELSE b[i - Len(h)]
  BY <1>4, <1>6, <1>7, ConcatProperties
<1>9. t[1] = Size[m]  BY <1>1, <1>4, <1>6, <1>8
<1>10. \A i \in 1 .. Size[m] : t[i + 1] = b[i]  BY <1>1, <1>4, <1>6, <1>8
<1> QED BY <1>1, <1>2, <1>3, <1>4, <1>5, <1>6, <1>8, <1>9, <1>10

\* The first APDU is what the device has got then, each further one the bytes that
\* follow, and with the last one they are all there.
LEMMA ChunkList ==
    ASSUME NEW m \in Messages
    PROVE  /\ Chunks(m) \in Seq(Seq(Data)) /\ Len(Chunks(m)) \in Nat \ {0}
           /\ Chunks(m)[1] = Got(m, 1)
           /\ \A j \in 1 .. Len(Chunks(m)) :
                /\ Upto(m, j) \in 1 .. Size[m] + 1
                /\ Upto(m, j) = Size[m] + 1 <=> j = Len(Chunks(m))
                /\ j # Len(Chunks(m)) =>
                     /\ Upto(m, j) <= Upto(m, j + 1)
                     /\ Chunks(m)[j + 1] = SubSeq(Tail0(m), Upto(m, j) + 1, Upto(m, j + 1))
<1>1. PICK t, n, ft, max, c :
        /\ t = Tail0(m) /\ n = Len(t) /\ max = MaxApduData
        /\ ft = Shorter(max - PathLen, n) /\ c = Ceil(n - ft, max)
  OBVIOUS
<1>2. t \in Seq(Data) /\ n = Size[m] + 1 /\ n \in Nat /\ n > 1 /\ Size[m] \in Nat
  BY <1>1, MessageParts, LedgerAssumption
<1>3. max \in Nat \ {0} /\ ft \in 1 .. n /\ n - ft \in Nat
  BY <1>1, <1>2, LedgerAssumption DEF Shorter
<1>4. c \in Nat /\ n - ft <= c * max /\ (c # 0 => (c - 1) * max < n - ft)
  BY <1>1, <1>3, CeilBounds
<1>5. PICK cs : cs = Chunks(m)  OBVIOUS
<1>6. cs = [k \in 1 .. 1 + c |->
             IF k = 1 THEN Path \o SubSeq(t, 1, ft)
             ELSE SubSeq(t, ft + (k - 2) * max + 1, Shorter(ft + (k - 2) * max + max, n))]
  BY <1>1, <1>5 DEF Chunks
<1>7. \A j : Upto(m, j) = Shorter(ft + (j - 1) * max, n)  BY <1>1 DEF Upto
<1>8. ASSUME NEW j \in 1 .. 1 + c
      PROVE  /\ Upto(m, j) \in 1 .. n
             /\ (j - 1) * max \in Nat
             /\ j = 1 + c => Upto(m, j) = n
             /\ j # 1 + c => Upto(m, j) < n /\ Upto(m, j) = ft + (j - 1) * max
  <2>1. PICK x : x = (j - 1) * max  OBVIOUS
  <2>2. x \in Nat
    <3>1. 0 * max <= (j - 1) * max /\ (j - 1) * max \in Int /\ 0 * max = 0
      BY <1>3, <1>4, Times
    <3> QED BY <2>1, <3>1
  <2>3. Upto(m, j) = Shorter(ft + x, n)  BY <1>7, <2>1
  <2>4. j = 1 + c => n <= ft + x
    <3>1. j = 1 + c => x = c * max  BY <1>4, <2>1
    <3>2. c * max \in Int  BY <1>3, <1>4
    <3> QED BY <1>2, <1>3, <1>4, <2>2, <3>1, <3>2
  <2>5. j # 1 + c => ft + x < n
    <3>1. SUFFICES ASSUME j # 1 + c PROVE ft + x < n  OBVIOUS
    <3>2. c # 0 /\ j - 1 <= c - 1 /\ j - 1 \in Int /\ c - 1 \in Int  BY <1>4, <3>1
    <3>3. (j - 1) * max <= (c - 1) * max /\ (c - 1) * max \in Int  BY <1>3, <3>2, Times
    <3> QED BY <1>2, <1>3, <1>4, <2>1, <2>2, <3>2, <3>3
  <2> QED BY <1>2, <1>3, <2>1, <2>2, <2>3, <2>4, <2>5 DEF Shorter
<1>9. ASSUME NEW j \in 1 .. 1 + c, j # 1 + c
      PROVE  /\ Upto(m, j) <= Upto(m, j + 1)
             /\ cs[j + 1] = SubSeq(t, Upto(m, j) + 1, Upto(m, j + 1))
  <2>1. j + 1 \in 1 .. 1 + c /\ j + 1 # 1  BY <1>4, <1>9
  <2>2. PICK x : x = (j - 1) * max  OBVIOUS
  <2>3. x \in Nat /\ Upto(m, j) = ft + x /\ Upto(m, j) < n  BY <1>8, <1>9, <2>2
  <2>4. (j + 1 - 1) * max = x + max  BY <1>3, <1>4, <2>2
  <2>5. Upto(m, j + 1) = Shorter(ft + x + max, n)
    <3>1. Upto(m, j + 1) = Shorter(ft + (j + 1 - 1) * max, n)  BY <1>7
    <3>2. ft + (x + max) = ft + x + max  BY <1>3, <2>3
    <3> QED BY <2>4, <3>1, <3>2
  <2>6. PICK k, y : k = j + 1 /\ y = (k - 2) * max  OBVIOUS
  <2>7. cs[k] = SubSeq(t, ft + y + 1, Shorter(ft + y + max, n))
    BY <1>6, <2>1, <2>6, Zenon
  <2>8. y = x
    <3>1. k - 2 = j - 1  BY <1>4, <2>6
    <3> QED BY <2>2, <2>6, <3>1
  <2>9. Upto(m, j) <= Upto(m, j + 1)  BY <1>2, <1>3, <2>3, <2>5 DEF Shorter
  <2>10. cs[k] = SubSeq(t, Upto(m, j) + 1, Upto(m, j + 1))
    BY <2>3, <2>5, <2>7, <2>8, Zenon
  <2> QED BY <2>6, <2>9, <2>10
<1>15. \A i \in 1 .. n : t[i] \in Data  BY <1>1, <1>2, ElementOfSeq
<1>10. cs[1] = Got(m, 1)
  <2>1. 1 \in 1 .. 1 + c  BY <1>4
  <2>2. cs[1] = Path \o SubSeq(t, 1, ft)  BY <1>6, <2>1
  <2>3. Upto(m, 1) = ft
    <3>1. (1 - 1) * max = 0  BY <1>3
    <3> QED BY <1>2, <1>3, <1>7, <3>1 DEF Shorter
  <2> QED BY <1>1, <2>2, <2>3 DEF Got
<1>11. ASSUME NEW k \in 1 .. 1 + c PROVE cs[k] \in Seq(Data)
  <2>1. CASE k = 1
    <3>1. Upto(m, 1) \in 1 .. n  BY <1>8, <2>1
    <3>2. \A i \in 1 .. Upto(m, 1) : t[i] \in Data
      <4>1. \A i \in 1 .. Upto(m, 1) : i \in 1 .. n  BY <1>2, <3>1
      <4> QED BY <1>15, <4>1
    <3>3. SubSeq(t, 1, Upto(m, 1)) \in Seq(Data)  BY <3>1, <3>2, SubSeqProperties
    <3>4. Path \in Seq(Data)  BY MessageParts
    <3>5. Path \o SubSeq(t, 1, Upto(m, 1)) \in Seq(Data)  BY <3>3, <3>4, ConcatProperties
    <3> QED BY <1>1, <1>10, <2>1, <3>5 DEF Got
  <2>2. CASE k # 1
    <3>1. PICK j, u, v : j = k - 1 /\ u = Upto(m, j) /\ v = Upto(m, j + 1)  OBVIOUS
    <3>2. j \in 1 .. 1 + c /\ j # 1 + c /\ j + 1 \in 1 .. 1 + c /\ j + 1 = k  BY <1>4, <2>2, <3>1
    <3>3. u \in 1 .. n /\ v \in 1 .. n  BY <1>8, <3>1, <3>2
    <3>4. cs[k] = SubSeq(t, u + 1, v)  BY <1>9, <3>1, <3>2
    <3>5. \A i \in u + 1 .. v : t[i] \in Data
      <4>1. \A i \in u + 1 .. v : i \in 1 .. n  BY <1>2, <3>3
      <4> QED BY <1>15, <4>1
    <3>6. SubSeq(t, u + 1, v) \in Seq(Data)  BY <3>3, <3>5, SubSeqProperties
    <3> QED BY <3>4, <3>6
  <2> QED BY <2>1, <2>2
<1>12. cs \in Seq(Seq(Data)) /\ Len(cs) = 1 + c
  <2>1. DOMAIN cs = 1 .. 1 + c /\ cs = [k \in 1 .. 1 + c |-> cs[k]]  BY <1>6
  <2>2. cs \in Seq(Seq(Data))
    <3>1. cs \in [1 .. 1 + c -> Seq(Data)]  BY <1>11, <2>1
    <3> QED BY <1>4, <3>1, SeqDef
  <2> QED BY <1>4, <2>1, <2>2, LenProperties
<1>13. Len(cs) \in Nat \ {0}  BY <1>4, <1>12
<1>14. \A j \in 1 .. 1 + c : Upto(m, j) = n <=> j = 1 + c
  <2> TAKE j \in 1 .. 1 + c
  <2>1. j # 1 + c => Upto(m, j) < n  BY <1>8
  <2>2. j = 1 + c => Upto(m, j) = n  BY <1>8
  <2>3. j # 1 + c => Upto(m, j) # n  BY <1>2, <1>8, <2>1
  <2> QED BY <2>2, <2>3
<1> QED BY <1>1, <1>2, <1>5, <1>8, <1>9, <1>10, <1>12, <1>13, <1>14

LastNr(m) == Len(Chunks(m))
Complete(data) == Len(data) > PathLen /\ Len(TextOf(data)) >= Expected(data)

LEMMA GotGrows ==
    ASSUME NEW m \in Messages, NEW j \in 1 .. LastNr(m), j # LastNr(m)
    PROVE  Got(m, j) \o Chunks(m)[j + 1] = Got(m, j + 1)
<1>1. PICK t, u, v, c : t = Tail0(m) /\ u = Upto(m, j) /\ v = Upto(m, j + 1) /\ c = Chunks(m)[j + 1]
  OBVIOUS
<1>2. t \in Seq(Data) /\ Len(t) = Size[m] + 1 /\ Size[m] \in Nat /\ Path \in Seq(Data)
  BY <1>1, MessageParts, LedgerAssumption
<1>3. LastNr(m) \in Nat  BY ChunkList DEF LastNr
<1>4. j + 1 \in 1 .. LastNr(m)  BY <1>3
<1>5. u \in 1 .. Len(t) /\ v \in 1 .. Len(t) /\ u <= v /\ c = SubSeq(t, u + 1, v)
  BY <1>1, <1>2, <1>4, ChunkList DEF LastNr
<1>6. PICK l, r : l = SubSeq(t, 1, u) /\ r = SubSeq(t, u + 1, v)  OBVIOUS
<1>7. \A i \in 1 .. Len(t) : t[i] \in Data  BY <1>2, ElementOfSeq
<1>8. l \in Seq(Data)
  <2>1. \A i \in 1 .. u : i \in 1 .. Len(t)  BY <1>2, <1>5
  <2>2. \A i \in 1 .. u : t[i] \in Data  BY <1>7, <2>1
  <2>3. SubSeq(t, 1, u) \in Seq(Data)  BY <1>5, <2>2, SubSeqProperties
  <2> QED BY <1>6, <2>3
<1>9. r \in Seq(Data)
  <2>1. \A i \in u + 1 .. v : i \in 1 .. Len(t)  BY <1>2, <1>5
  <2>2. \A i \in u + 1 .. v : t[i] \in Data  BY <1>7, <2>1
  <2>3. u + 1 \in Int /\ v \in Int  BY <1>2, <1>5
  <2>4. SubSeq(t, u + 1, v) \in Seq(Data)  BY <2>2, <2>3, SubSeqProperties
  <2> QED BY <1>6, <2>4
<1>10. SubSeq(t, 1, u) \o SubSeq(t, u + 1, v) = SubSeq(t, 1, v)
  <2>1. 1 \in 1 .. Len(t) + 1 /\ u \in 1 - 1 .. Len(t) /\ v \in u .. Len(t)  BY <1>2, <1>5
  <2> QED BY <1>2, <2>1, ConcatAdjacentSubSeq
<1>11. (Path \o l) \o r = Path \o (l \o r)
  <2>1. \A S : \A x, y, z \in Seq(S) : (x \o y) \o z = x \o (y \o z)  BY ConcatAssociative
  <2>2. Path \in Seq(Data) /\ l \in Seq(Data) /\ r \in Seq(Data)  BY <1>2, <1>8, <1>9
  <2>3. \A x, y, z \in Seq(Data) : (x \o y) \o z = x \o (y \o z)  BY <2>1
  <2> QED BY <2>2, <2>3, Zenon
<1>12. Got(m, j) = Path \o l /\ Got(m, j + 1) = Path \o (l \o r) /\ c = r
  BY <1>1, <1>5, <1>6, <1>10 DEF Got
<1> QED BY <1>1, <1>11, <1>12

\* The device waits for the last APDU, and then has the message and nothing else.
LEMMA GotComplete ==
    ASSUME NEW m \in Messages, NEW j \in 1 .. LastNr(m)
    PROVE  /\ Complete(Got(m, j)) <=> j = LastNr(m)
           /\ j = LastNr(m) => TextOf(Got(m, j)) = Bytes(m)
<1>1. PICK t, u, n, b : t = Tail0(m) /\ u = Upto(m, j) /\ n = Size[m] /\ b = Bytes(m)  OBVIOUS
<1>2. /\ t \in Seq(Data) /\ Len(t) = n + 1 /\ n \in Nat \ {0} /\ t[1] = n
      /\ b \in Seq(Data) /\ Len(b) = n /\ \A i \in 1 .. n : t[i + 1] = b[i]
      /\ Path \in Seq(Data) /\ Len(Path) = PathLen /\ PathLen \in Nat
  BY <1>1, MessageParts, LedgerAssumption
<1>3. u \in 1 .. n + 1 /\ (u = n + 1 <=> j = LastNr(m))  BY <1>1, ChunkList DEF LastNr
<1>4. PICK l, g : l = SubSeq(t, 1, u) /\ g = Got(m, j)  OBVIOUS
<1>5. l \in Seq(Data) /\ Len(l) = u /\ \A i \in 1 .. u : l[i] = t[i]
  <2>1. \A i \in 1 .. u : t[i] \in Data
    <3>1. \A i \in 1 .. u : i \in 1 .. Len(t)  BY <1>2, <1>3
    <3> QED BY <1>2, <3>1, ElementOfSeq
  <2>2. 1 \in Int /\ u \in Int /\ 1 <= u /\ u - 1 + 1 = u  BY <1>3
  <2>3. /\ SubSeq(t, 1, u) \in Seq(Data)
        /\ Len(SubSeq(t, 1, u)) = u - 1 + 1
        /\ \A i \in 1 .. u - 1 + 1 : SubSeq(t, 1, u)[i] = t[1 + i - 1]
    BY <2>1, <2>2, SubSeqProperties
  <2>4. \A i \in 1 .. u : 1 + i - 1 = i  OBVIOUS
  <2>5. l \in Seq(Data) /\ Len(l) = u /\ \A i \in 1 .. u : l[i] = t[1 + i - 1]
    BY <1>4, <2>2, <2>3
  <2> QED BY <2>4, <2>5
<1>6. g = Path \o l  BY <1>1, <1>4 DEF Got
<1>7. /\ g \in Seq(Data) /\ Len(g) = PathLen + u
      /\ \A i \in 1 .. PathLen + u : g[i] = IF i <= PathLen THEN Path[i] ELSE l[i - PathLen]
  <2>1. Path \in Seq(Data) /\ l \in Seq(Data)  BY <1>2, <1>5
  <2>2. /\ Path \o l \in Seq(Data) /\ Len(Path \o l) = Len(Path) + Len(l)
        /\ \A i \in 1 .. Len(Path) + Len(l) :
             (Path \o l)[i] = IF i <= Len(Path) THEN Path[i] ELSE l[i - Len(Path)]
    BY <2>1, ConcatProperties, Zenon
  <2>3. Len(Path) = PathLen /\ Len(l) = u  BY <1>2, <1>5
  <2> QED BY <1>6, <2>2, <2>3, Zenon
<1>8. \A i \in 1 .. u : g[PathLen + i] = t[i]
  <2> TAKE i \in 1 .. u
  <2>1. PICK k : k = PathLen + i  OBVIOUS
  <2>2. k \in 1 .. PathLen + u /\ ~(k <= PathLen) /\ k - PathLen = i  BY <1>2, <1>3, <2>1
  <2>3. g[k] = l[k - PathLen]  BY <1>7, <2>2
  <2> QED BY <1>5, <2>1, <2>2, <2>3
<1>9. Expected(g) = n
  <2>1. 1 \in 1 .. u  BY <1>3
  <2> QED BY <1>2, <1>8, <2>1 DEF Expected
<1>10. PICK x : x = TextOf(g)  OBVIOUS
<1>11. x \in Seq(Data) /\ Len(x) = u - 1 /\ \A i \in 1 .. u - 1 : x[i] = t[i + 1]
  <2>1. PICK p, q : p = PathLen + 2 /\ q = PathLen + u  OBVIOUS
  <2>2. p \in Int /\ q \in Int /\ q - p + 1 = u - 1 /\ (p <= q <=> u - 1 > 0)  BY <1>2, <1>3, <2>1
  <2>3. \A i \in p .. q : g[i] \in Data
    <3>1. \A i \in p .. q : i \in 1 .. Len(g)  BY <1>2, <1>3, <1>7, <2>1
    <3> QED BY <1>7, <3>1, ElementOfSeq
  <2>4. x = SubSeq(g, p, q)  BY <1>7, <1>10, <2>1 DEF TextOf
  <2>5. /\ x \in Seq(Data) /\ Len(x) = (IF p <= q THEN q - p + 1 ELSE 0)
        /\ \A i \in 1 .. q - p + 1 : x[i] = g[p + i - 1]
    <3>1. /\ SubSeq(g, p, q) \in Seq(Data) /\ Len(SubSeq(g, p, q)) = (IF p <= q THEN q - p + 1 ELSE 0)
          /\ \A i \in 1 .. q - p + 1 : SubSeq(g, p, q)[i] = g[p + i - 1]
      BY <2>2, <2>3, SubSeqProperties
    <3> QED BY <2>4, <3>1
  <2>6. Len(x) = u - 1  BY <1>3, <2>2, <2>5
  <2>7. \A i \in 1 .. u - 1 : x[i] = t[i + 1]
    <3> TAKE i \in 1 .. u - 1
    <3>1. x[i] = g[p + i - 1]  BY <2>2, <2>5
    <3>2. p + i - 1 = PathLen + (i + 1) /\ i + 1 \in 1 .. u  BY <1>2, <1>3, <2>1
    <3> QED BY <1>8, <3>1, <3>2
  <2> QED BY <2>5, <2>6, <2>7
<1>12. Complete(g) <=> j = LastNr(m)
  <2>1. Complete(g) <=> u - 1 >= n  BY <1>2, <1>3, <1>7, <1>9, <1>10, <1>11 DEF Complete
  <2>2. u - 1 >= n <=> u = n + 1  BY <1>2, <1>3
  <2> QED BY <1>3, <2>1, <2>2
<1>13. ASSUME j = LastNr(m) PROVE x = b
  <2>1. u - 1 = n  BY <1>2, <1>3, <1>13
  <2>2. Len(x) = Len(b) /\ \A i \in 1 .. Len(x) : x[i] = b[i]  BY <1>2, <1>11, <2>1
  <2> QED BY <1>2, <1>11, <2>2, SeqEqual
<1> QED BY <1>1, <1>4, <1>10, <1>12, <1>13

-----------------------------------------------------------------------------
(* What is underway.                                                       *)

\* An APDU by its message and its number in it; number 0 stands for none.
ApduLabels == [of : Messages \cup {"none"}, nr : Nat]
Names(l) == l.of \in Messages /\ l.nr \in 1 .. LastNr(l.of)
Apdu(l) == [p1 |-> IF l.nr = 1 THEN 0 ELSE 128, frames |-> Frame(Chunks(l.of)[l.nr])]
Apdus == {Apdu(l) : l \in {x \in ApduLabels : Names(x)}}

\* The device handles b after a: b starts a message or continues the one of a.
Follows(a, b) == b.nr = 1 \/ (a.of = b.of /\ a.nr = b.nr - 1 /\ a.nr # 0)

\* What the device has collected when it handled l last.
Held(l) == IF l.nr = 0 \/ l.nr = LastNr(l.of) THEN <<>> ELSE Got(l.of, l.nr)

\* The application goes on after l.
GoesOn(l) == Names(l) /\ l.of = asked /\ chunks = SubSeq(Chunks(asked), l.nr + 1, LastNr(asked))

\* The APDUs from the one handled last to the one written last.
Queue(q) ==
    /\ q \in Seq(ApduLabels) /\ Len(q) = Len(received) + 1
    /\ q[1].nr = 0 \/ Names(q[1])
    /\ \A i \in 1 .. Len(received) :
          Names(q[i + 1]) /\ received[i] = Apdu(q[i + 1]) /\ Follows(q[i], q[i + 1])
    /\ buffer = Held(q[1])
    /\ asked # "none" => IF first THEN chunks = Chunks(asked) ELSE GoesOn(q[Len(q)])

(***************************************************************************)
(* Why the device never shows a part or a mixture: the APDUs it has still  *)
(* to handle are, each, the first of a message or the one that comes after *)
(* the one before it, whichever requests were given up.                    *)
(***************************************************************************)
SignInv ==
    /\ asked \in Messages \cup {"none"}
    /\ first \in BOOLEAN
    /\ asked # "none" /\ ~waiting => chunks # <<>>
    /\ received \in Seq(Apdus)
    /\ OwnerSeesWholeMessage
    /\ \E q : Queue(q)

LEMMA SignInit == SigningInit => SignInv
<1> SUFFICES ASSUME SigningInit PROVE SignInv  OBVIOUS
<1> USE DEF SigningInit
<1>1. PICK l : l = [of |-> "none", nr |-> 0]  OBVIOUS
<1>2. l \in ApduLabels /\ l.nr = 0  BY <1>1 DEF ApduLabels
<1>3. PICK q : q = <<l>>  OBVIOUS
<1>4. q \in Seq(ApduLabels) /\ Len(q) = 1 /\ q[1] = l  BY <1>2, <1>3
<1>5. Len(received) = 0 /\ received \in Seq(Apdus)  OBVIOUS
<1>6. Queue(q)
  <2>1. \A i \in 1 .. Len(received) : FALSE  BY <1>5
  <2> QED BY <1>2, <1>4, <1>5, <2>1 DEF Queue, Held
<1> QED BY <1>5, <1>6 DEF SignInv, OwnerSeesWholeMessage

LEMMA FewChunks == ASSUME NEW m \in Messages PROVE Chunks(m) # <<>>
<1>1. PICK c : c = Chunks(m)  OBVIOUS
<1>2. c \in Seq(Seq(Data)) /\ Len(c) # 0  BY <1>1, ChunkList
<1> QED BY <1>1, <1>2

\* A step that leaves the device and the request in progress alone, or gives it up.
LEMMA QueueStays ==
    ASSUME SignInv, UNCHANGED <<received, buffer, shown>>,
           \/ UNCHANGED <<asked, chunks, first>>
              /\ (asked # "none" /\ ~waiting' => chunks # <<>>)
           \/ asked' = "none" /\ first' = FALSE
    PROVE  SignInv'
<1>1. PICK q : Queue(q)  BY DEF SignInv
<1>2. Queue(q)'
  <2>1. CASE UNCHANGED <<asked, chunks, first>>
    BY <1>1, <2>1 DEF Queue, GoesOn
  <2>2. CASE asked' = "none" /\ first' = FALSE
    BY <1>1, <2>2 DEF Queue
  <2> QED BY <2>1, <2>2
<1>3. OwnerSeesWholeMessage'  BY DEF SignInv, OwnerSeesWholeMessage
<1> QED BY <1>2, <1>3 DEF SignInv

LEMMA RequestSafe ==
    ASSUME SignInv, NEW m \in Messages, NEW flushed \in BOOLEAN, Request(m, flushed)
    PROVE  SignInv'
<1>1. PICK q : Queue(q)  BY DEF SignInv
<1>2. UNCHANGED <<received, buffer, shown>> /\ asked' = m /\ chunks' = Chunks(m) /\ first' = TRUE
  BY DEF Request, deviceVars
<1>3. Queue(q)'  BY <1>1, <1>2 DEF Queue
<1>4. OwnerSeesWholeMessage'  BY <1>2 DEF SignInv, OwnerSeesWholeMessage
<1> QED BY <1>2, <1>3, <1>4, FewChunks DEF SignInv

LEMMA WriteSafe == ASSUME SignInv, WriteApdu PROVE SignInv'
<1>1. PICK q : Queue(q)  BY DEF SignInv
<1>2. /\ asked \in Messages /\ asked # "none" /\ chunks # <<>> /\ waiting' /\ first' = FALSE
      /\ asked' = asked /\ chunks' = Tail(chunks)
      /\ received' = Append(received, [p1 |-> IF first THEN 0 ELSE 128, frames |-> Frame(Head(chunks))])
      /\ buffer' = buffer /\ shown' = shown
  BY DEF WriteApdu, SignInv
<1>3. PICK n, cs, e : n = Len(received) /\ cs = Chunks(asked) /\ e = q[n + 1]  OBVIOUS
<1>4. n \in Nat /\ q \in Seq(ApduLabels) /\ Len(q) = n + 1 /\ e \in ApduLabels
  BY <1>1, <1>3 DEF SignInv, Queue
<1>5. /\ cs \in Seq(Seq(Data)) /\ Len(cs) = LastNr(asked) /\ LastNr(asked) \in Nat \ {0}
  BY <1>2, <1>3, ChunkList DEF LastNr
<1>6. first \/ GoesOn(e)
  BY <1>1, <1>2, <1>3, <1>4 DEF Queue
<1>7. PICK nr : nr = IF first THEN 1 ELSE e.nr + 1  OBVIOUS
<1>8. /\ nr \in 1 .. LastNr(asked)
      /\ Head(chunks) = cs[nr] /\ Tail(chunks) = SubSeq(cs, nr + 1, Len(cs))
      /\ (first <=> nr = 1)
  <2>1. CASE first
    <3>1. chunks = cs  BY <1>1, <1>2, <1>3, <2>1 DEF Queue
    <3>2. Tail(cs) = SubSeq(cs, 2, Len(cs))  BY <1>2, <1>5, <3>1, TailIsSubSeq
    <3> QED BY <1>5, <1>7, <2>1, <3>1, <3>2
  <2>2. CASE ~first
    <3>1. Names(e) /\ e.of = asked /\ chunks = SubSeq(cs, e.nr + 1, Len(cs))
      BY <1>3, <1>5, <1>6, <2>2 DEF GoesOn
    <3>2. e.nr \in 1 .. LastNr(asked) /\ nr = e.nr + 1  BY <1>7, <2>2, <3>1 DEF Names
    <3>3. nr \in 1 .. LastNr(asked)
      <4>1. ASSUME ~(nr <= LastNr(asked)) PROVE FALSE
        <5>1. SubSeq(cs, nr, Len(cs)) = <<>>  BY <1>5, <3>2, <4>1, SubSeqEmpty
        <5> QED BY <1>2, <3>1, <3>2, <5>1
      <4> QED BY <1>5, <3>2, <4>1
    <3>4. nr \in 1 .. Len(cs) /\ Len(cs) \in nr .. Len(cs)  BY <1>5, <3>3
    <3>5. Head(SubSeq(cs, nr, Len(cs))) = cs[nr]
          /\ Tail(SubSeq(cs, nr, Len(cs))) = SubSeq(cs, nr + 1, Len(cs))
      BY <1>5, <3>4, HeadTailOfSubSeq
    <3>6. chunks = SubSeq(cs, nr, Len(cs))  BY <3>1, <3>2, Zenon
    <3>7. nr # 1  BY <3>2, <1>5
    <3> QED BY <2>2, <3>3, <3>5, <3>6, <3>7
  <2> QED BY <2>1, <2>2
<1>9. PICK l : l = [of |-> asked, nr |-> nr]  OBVIOUS
<1>10. l \in ApduLabels /\ Names(l) /\ l.of = asked /\ l.nr = nr
  BY <1>2, <1>5, <1>8, <1>9 DEF ApduLabels, Names
<1>11. received' = Append(received, Apdu(l)) /\ Apdu(l) \in Apdus
  <2>1. Apdu(l) = [p1 |-> IF first THEN 0 ELSE 128, frames |-> Frame(Head(chunks))]
    BY <1>3, <1>8, <1>10 DEF Apdu
  <2> QED BY <1>2, <1>10, <2>1 DEF Apdus
<1>12. Follows(e, l)
  <2>1. CASE first  BY <1>8, <1>10, <2>1 DEF Follows
  <2>2. CASE ~first
    <3>1. e.of = asked /\ e.nr \in 1 .. LastNr(asked) /\ nr = e.nr + 1
      BY <1>6, <1>7, <2>2 DEF GoesOn, Names
    <3>2. e.nr = l.nr - 1 /\ e.nr # 0  BY <1>5, <1>10, <3>1
    <3> QED BY <1>10, <3>1, <3>2 DEF Follows
  <2> QED BY <2>1, <2>2
<1>13. PICK p, more : p = Append(q, l) /\ more = Append(received, Apdu(l))  OBVIOUS
<1>14. /\ p \in Seq(ApduLabels) /\ Len(p) = n + 2 /\ p[n + 2] = l /\ \A i \in 1 .. n + 1 : p[i] = q[i]
  BY <1>4, <1>10, <1>13
<1>15. /\ more \in Seq(Apdus) /\ Len(more) = n + 1 /\ more[n + 1] = Apdu(l)
       /\ \A i \in 1 .. n : more[i] = received[i]
  BY <1>3, <1>11, <1>13 DEF SignInv
<1>16. received' = more  BY <1>11, <1>13
<1>17. Queue(p)'
  <2>1. p \in Seq(ApduLabels) /\ Len(p) = Len(more) + 1  BY <1>4, <1>14, <1>15
  <2>2. p[1] = q[1]  BY <1>4, <1>14
  <2>3. ASSUME NEW i \in 1 .. Len(more)
        PROVE  Names(p[i + 1]) /\ more[i] = Apdu(p[i + 1]) /\ Follows(p[i], p[i + 1])
    <3>1. CASE i = n + 1
      <4>1. p[i + 1] = l /\ p[i] = e /\ more[i] = Apdu(l)
        BY <1>3, <1>4, <1>14, <1>15, <3>1
      <4> QED BY <1>10, <1>12, <4>1
    <3>2. CASE i # n + 1
      <4>1. i \in 1 .. n /\ i \in 1 .. n + 1 /\ i + 1 \in 1 .. n + 1  BY <1>4, <1>15, <3>2
      <4>2. p[i + 1] = q[i + 1] /\ p[i] = q[i] /\ more[i] = received[i]
        BY <1>14, <1>15, <4>1
      <4>3. Names(q[i + 1]) /\ received[i] = Apdu(q[i + 1]) /\ Follows(q[i], q[i + 1])
        BY <1>1, <1>3, <4>1 DEF Queue
      <4> QED BY <4>2, <4>3
    <3> QED BY <3>1, <3>2
  <2>4. p[Len(p)] = l  BY <1>14
  <2>5. GoesOn(l)'
    <3>1. chunks' = SubSeq(cs, nr + 1, Len(cs))  BY <1>2, <1>8
    <3> QED BY <1>2, <1>3, <1>5, <1>10, <3>1 DEF GoesOn
  <2>6. q[1].nr = 0 \/ Names(q[1])  BY <1>1 DEF Queue
  <2>7. buffer' = Held(q[1])  BY <1>1, <1>2 DEF Queue
  <2> QED BY <1>2, <1>16, <2>1, <2>2, <2>3, <2>4, <2>5, <2>6, <2>7 DEF Queue
<1>18. OwnerSeesWholeMessage'  BY <1>2 DEF SignInv, OwnerSeesWholeMessage
<1> QED BY <1>2, <1>15, <1>16, <1>17, <1>18 DEF SignInv

\* What the device has after an APDU: a message so far, complete with its last one.
LEMMA HandleSafe == ASSUME SignInv, HandleApdu PROVE SignInv'
<1>1. PICK q : Queue(q)  BY DEF SignInv
<1>2. PICK apdu, data, all :
        /\ apdu = Head(received) /\ data = Deframe(apdu.frames)
        /\ all = IF apdu.p1 = 0 THEN data ELSE buffer \o data
        /\ received # <<>> /\ received' = Tail(received)
        /\ buffer' = (IF Complete(all) THEN <<>> ELSE all)
        /\ shown' = (IF Complete(all) THEN TextOf(all) ELSE <<>>)
        /\ UNCHANGED <<asked, chunks, first, waiting>>
  BY DEF HandleApdu, Complete, hostVars
<1>3. PICK n, a, b : n = Len(received) /\ a = q[1] /\ b = q[2]  OBVIOUS
<1>4. /\ received \in Seq(Apdus) /\ n \in Nat \ {0} /\ q \in Seq(ApduLabels) /\ Len(q) = n + 1
  BY <1>1, <1>2, <1>3 DEF SignInv, Queue
<1>5. Names(b) /\ apdu = Apdu(b) /\ Follows(a, b)
  <2>1. 1 \in 1 .. n  BY <1>4
  <2>2. Names(q[1 + 1]) /\ received[1] = Apdu(q[1 + 1]) /\ Follows(q[1], q[1 + 1])
    BY <1>1, <1>3, <2>1 DEF Queue
  <2>3. Head(received) = received[1]  BY <1>2, <1>4
  <2> QED BY <1>2, <1>3, <2>2, <2>3
<1>6. PICK m, j : m = b.of /\ j = b.nr  OBVIOUS
<1>7. m \in Messages /\ j \in 1 .. LastNr(m) /\ LastNr(m) \in Nat \ {0}
  BY <1>5, <1>6, ChunkList DEF Names, LastNr
<1>8. data = Chunks(m)[j]
  <2>1. apdu.frames = Frame(Chunks(m)[j])  BY <1>5, <1>6 DEF Apdu
  <2>2. Chunks(m)[j] \in Seq(Data)  BY <1>7, ChunkList, ElementOfSeq DEF LastNr
  <2> QED BY <1>2, <2>1, <2>2, DeframeFrame
<1>9. all = Got(m, j)
  <2>1. apdu.p1 = IF j = 1 THEN 0 ELSE 128  BY <1>5, <1>6 DEF Apdu
  <2>2. CASE j = 1
    <3>1. all = Chunks(m)[1]  BY <1>2, <1>8, <2>1, <2>2
    <3> QED BY <1>7, <2>2, <3>1, ChunkList
  <2>3. CASE j # 1
    <3>1. a.of = m /\ a.nr = j - 1  BY <1>5, <1>6, <2>3 DEF Follows
    <3>2. j - 1 \in 1 .. LastNr(m) /\ j - 1 # LastNr(m) /\ j - 1 # 0 /\ j - 1 + 1 = j  BY <1>7, <2>3
    <3>3. buffer = Got(m, j - 1)  BY <1>1, <1>3, <3>1, <3>2 DEF Queue, Held
    <3>4. all = buffer \o Chunks(m)[j]  BY <1>2, <1>8, <2>1, <2>3
    <3>5. Got(m, j - 1) \o Chunks(m)[j - 1 + 1] = Got(m, j - 1 + 1)  BY <1>7, <3>2, GotGrows
    <3> QED BY <3>2, <3>3, <3>4, <3>5
  <2> QED BY <2>2, <2>3
<1>10. /\ Complete(all) <=> j = LastNr(m)
       /\ j = LastNr(m) => TextOf(all) = Bytes(m)
  BY <1>7, <1>9, GotComplete
<1>11. buffer' = Held(b)
  <2>1. Held(b) = IF j = 0 \/ j = LastNr(m) THEN <<>> ELSE Got(m, j)  BY <1>6, Zenon DEF Held
  <2>2. buffer' = IF j = LastNr(m) THEN <<>> ELSE Got(m, j)  BY <1>2, <1>9, <1>10, Zenon
  <2>3. j # 0  BY <1>7
  <2> QED BY <2>1, <2>2, <2>3, Zenon
<1>12. OwnerSeesWholeMessage'
  <2>1. shown' = <<>> \/ shown' = Bytes(m)  BY <1>2, <1>10
  <2> QED BY <1>7, <2>1 DEF OwnerSeesWholeMessage
<1>13. PICK p, less : p = Tail(q) /\ less = Tail(received)  OBVIOUS
<1>14. p \in Seq(ApduLabels) /\ Len(p) = n /\ \A i \in 1 .. n : p[i] = q[i + 1]
  <2>1. q # <<>>  BY <1>4
  <2>2. Len(q) - 1 = n  BY <1>4
  <2> QED BY <1>4, <1>13, <2>1, <2>2, HeadTailProperties
<1>15. less \in Seq(Apdus) /\ Len(less) = n - 1 /\ \A i \in 1 .. n - 1 : less[i] = received[i + 1]
  BY <1>2, <1>3, <1>4, <1>13, HeadTailProperties
<1>16. Queue(p)'
  <2>1. Len(p) = Len(less) + 1 /\ p[1] = b /\ p[Len(p)] = q[Len(q)]
    <3>1. 1 \in 1 .. n /\ n \in 1 .. n /\ 1 + 1 = 2  BY <1>4
    <3>2. p[1] = q[1 + 1] /\ p[n] = q[n + 1]  BY <1>14, <3>1
    <3> QED BY <1>3, <1>4, <1>14, <1>15, <3>1, <3>2
  <2>2. ASSUME NEW i \in 1 .. Len(less)
        PROVE  Names(p[i + 1]) /\ less[i] = Apdu(p[i + 1]) /\ Follows(p[i], p[i + 1])
    <3>1. i \in 1 .. n - 1 /\ i \in 1 .. n /\ i + 1 \in 1 .. n  BY <1>4, <1>15
    <3>2. p[i] = q[i + 1] /\ p[i + 1] = q[i + 1 + 1] /\ less[i] = received[i + 1]
      BY <1>14, <1>15, <3>1
    <3>3. /\ Names(q[i + 1 + 1]) /\ received[i + 1] = Apdu(q[i + 1 + 1])
          /\ Follows(q[i + 1], q[i + 1 + 1])
      BY <1>1, <1>3, <3>1 DEF Queue
    <3> QED BY <3>2, <3>3
  <2>3. received' = less  BY <1>2, <1>13
  <2>4. asked # "none" => IF first THEN chunks = Chunks(asked) ELSE GoesOn(q[Len(q)])
    BY <1>1 DEF Queue
  <2>5. asked' # "none" => IF first' THEN chunks' = Chunks(asked') ELSE GoesOn(p[Len(p)])'
    BY <1>2, <2>1, <2>4 DEF GoesOn
  <2> QED BY <1>5, <1>11, <1>14, <2>1, <2>2, <2>3, <2>5 DEF Queue
<1>17. received' \in Seq(Apdus)  BY <1>2, <1>13, <1>15
<1> QED BY <1>2, <1>12, <1>16, <1>17 DEF SignInv

LEMMA ReplugSafe == ASSUME SignInv, NEW d, Replug(d) PROVE SignInv'
<1>1. /\ asked' = "none" /\ first' = FALSE /\ received' = <<>> /\ buffer' = <<>> /\ shown' = <<>>
  BY DEF Replug, GiveUp
<1>2. PICK l : l = [of |-> "none", nr |-> 0]  OBVIOUS
<1>3. l \in ApduLabels /\ l.nr = 0  BY <1>2 DEF ApduLabels
<1>4. PICK q : q = <<l>>  OBVIOUS
<1>5. q \in Seq(ApduLabels) /\ Len(q) = 1 /\ q[1] = l  BY <1>3, <1>4
<1>6. PICK r : r = received'  OBVIOUS
<1>7. Len(r) = 0 /\ r \in Seq(Apdus)  BY <1>1, <1>6
<1>8. Queue(q)'
  <2>1. \A i \in 1 .. Len(r) : FALSE  BY <1>7
  <2> QED BY <1>1, <1>3, <1>5, <1>6, <1>7, <2>1 DEF Queue, Held
<1> QED BY <1>1, <1>6, <1>7, <1>8 DEF SignInv, OwnerSeesWholeMessage

LEMMA SignSafe == SignInv /\ [SigningNext]_signingVars => SignInv'
<1> SUFFICES ASSUME SignInv, [SigningNext]_signingVars PROVE SignInv'  OBVIOUS
<1> USE DEF hostVars, deviceVars
<1>1. ASSUME NEW m \in Messages, NEW flushed \in BOOLEAN, Request(m, flushed) PROVE SignInv'
  BY <1>1, RequestSafe
<1>2. CASE WriteApdu  BY <1>2, WriteSafe
<1>3. CASE ReadPart
  <2>1. /\ UNCHANGED <<received, buffer, shown>> /\ UNCHANGED <<asked, chunks, first, waiting>>
    BY <1>3 DEF ReadPart
  <2>2. asked # "none" /\ ~waiting' => chunks # <<>>  BY <2>1 DEF SignInv
  <2> QED BY <2>1, <2>2, QueueStays
<1>4. CASE ReadLast
  <2>1. UNCHANGED <<received, buffer, shown>>  BY <1>4 DEF ReadLast
  <2>2. \/ asked' = "none" /\ first' = FALSE
        \/ UNCHANGED <<asked, chunks, first>> /\ chunks # <<>>
    BY <1>4 DEF ReadLast, GiveUp
  <2> QED BY <2>1, <2>2, QueueStays
<1>5. CASE ReadTimeout
  <2>1. UNCHANGED <<received, buffer, shown>> /\ asked' = "none" /\ first' = FALSE
    BY <1>5 DEF ReadTimeout, GiveUp
  <2> QED BY <2>1, QueueStays
<1>6. CASE HandleApdu  BY <1>6, HandleSafe
<1>7. CASE Confirm \/ Reject
  <2>1. /\ received' = received /\ buffer' = buffer /\ shown' = <<>>
        /\ UNCHANGED <<asked, chunks, first, waiting>>
    BY <1>7 DEF Confirm, Reject
  <2>2. PICK q : Queue(q)  BY DEF SignInv
  <2>3. Queue(q)'  BY <2>1, <2>2 DEF Queue, GoesOn
  <2> QED BY <2>1, <2>3 DEF SignInv, OwnerSeesWholeMessage
<1>8. CASE SendPacket
  <2>1. /\ UNCHANGED <<received, buffer, shown>> /\ UNCHANGED <<asked, chunks, first, waiting>>
    BY <1>8 DEF SendPacket
  <2>2. asked # "none" /\ ~waiting' => chunks # <<>>  BY <2>1 DEF SignInv
  <2> QED BY <2>1, <2>2, QueueStays
<1>9. ASSUME NEW d \in Devices, Replug(d) PROVE SignInv'  BY <1>9, ReplugSafe
<1>10. CASE NoMoreRequests \/ UNCHANGED signingVars
  <2>1. /\ UNCHANGED <<received, buffer, shown>> /\ UNCHANGED <<asked, chunks, first, waiting>>
    BY <1>10 DEF NoMoreRequests, signingVars
  <2>2. asked # "none" /\ ~waiting' => chunks # <<>>  BY <2>1 DEF SignInv
  <2> QED BY <2>1, <2>2, QueueStays
<1> QED BY <1>1, <1>2, <1>3, <1>4, <1>5, <1>6, <1>7, <1>8, <1>9, <1>10 DEF SigningNext, Application

\* What the device shows its owner is one message as it was to be signed.
THEOREM OwnerSeesOneMessage == SigningSpec => []OwnerSeesWholeMessage
<1>1. SignInv => OwnerSeesWholeMessage  BY DEF SignInv
<1> QED BY <1>1, SignInit, SignSafe, PTL DEF SigningSpec

\* A signature that is used is of the message that was to be signed.
LEMMA RecoveredSignature ==
    ASSUME NEW data, NEW m, Recovers(data, m)
    PROVE  data[1][1] = BoundAccount /\ data[1][2] = Bytes(m)
<1>1. PICK n, sig : n = SignatureLen /\ sig = Signature(BoundAccount, Bytes(m))  OBVIOUS
<1>2. n \in Nat \ {0}  BY <1>1, LedgerAssumption
<1>3. SubSeq(data, 1, n) = sig  BY <1>1 DEF Recovers
<1>4. \A i \in 1 .. n : data[i] \in {data[k] : k \in 1 .. n}  OBVIOUS
<1>5. SubSeq(data, 1, n)[1] = data[1]
  <2>1. 1 \in Int /\ n \in Int /\ 1 \in 1 .. n - 1 + 1  BY <1>2
  <2>2. \A i \in 1 .. n - 1 + 1 : SubSeq(data, 1, n)[i] = data[1 + i - 1]
    BY <1>4, <2>1, SubSeqProperties
  <2> QED BY <2>1, <2>2
<1>6. sig[1] = <<BoundAccount, Bytes(m), 1>>  BY <1>1, <1>2 DEF Signature
<1>7. data[1] = <<BoundAccount, Bytes(m), 1>>  BY <1>3, <1>5, <1>6, Zenon
<1> QED BY <1>7

LEMMA SignedSafe == UsedSignatureIsOfTheMail /\ [SigningNext]_signingVars => UsedSignatureIsOfTheMail'
<1> SUFFICES ASSUME UsedSignatureIsOfTheMail, [SigningNext]_signingVars
             PROVE  UsedSignatureIsOfTheMail'
  OBVIOUS
<1>1. \/ signed' \in {{}, signed}
      \/ \E data : Recovers(data, asked)
                   /\ signed' = {[asked |-> asked, account |-> data[1][1], of |-> data[1][2]]}
  <2>1. CASE ReadLast
    <3>1. PICK data :
            \/ signed' = signed
            \/ signed' = IF Recovers(data, asked)
                         THEN {[asked |-> asked, account |-> data[1][1], of |-> data[1][2]]}
                         ELSE {}
      BY <2>1, Zenon DEF ReadLast
    <3> QED BY <3>1
  <2>2. CASE ~ReadLast
    BY <2>2 DEF SigningNext, Application, Request, WriteApdu, ReadPart, ReadTimeout, NoMoreRequests,
                HandleApdu, Confirm, Reject, SendPacket, Replug, signingVars, hostVars
  <2> QED BY <2>1, <2>2
<1>2. CASE signed' \in {{}, signed}  BY <1>2 DEF UsedSignatureIsOfTheMail
<1>3. ASSUME NEW data, Recovers(data, asked),
             signed' = {[asked |-> asked, account |-> data[1][1], of |-> data[1][2]]}
      PROVE  UsedSignatureIsOfTheMail'
  BY <1>3, RecoveredSignature DEF UsedSignatureIsOfTheMail
<1> QED BY <1>1, <1>2, <1>3

THEOREM UsedSignatureIsGenuine == SigningSpec => []UsedSignatureIsOfTheMail
<1>1. SigningInit => UsedSignatureIsOfTheMail  BY DEF SigningInit, UsedSignatureIsOfTheMail
<1> QED BY <1>1, SignedSafe, PTL DEF SigningSpec

-----------------------------------------------------------------------------
(* The cache of opened mails.                                              *)

LEMMA AppendValues ==
    ASSUME NEW S, NEW s \in Seq(S), NEW e \in S
    PROVE  \A v : v \in ToSet(Append(s, e)) <=> v \in ToSet(s) \/ v = e
<1>1. PICK t : t = Append(s, e)  OBVIOUS
<1>2. /\ Len(s) \in Nat /\ DOMAIN s = 1 .. Len(s) /\ DOMAIN t = 1 .. Len(s) + 1
      /\ t[Len(s) + 1] = e /\ \A i \in 1 .. Len(s) : t[i] = s[i]
  BY <1>1
<1>3. \A i : i \in 1 .. Len(s) + 1 <=> i \in 1 .. Len(s) \/ i = Len(s) + 1  BY <1>2
<1> QED BY <1>1, <1>2, <1>3 DEF ToSet

\* The second sequence comes after the first one.
Joined(p, s, t) == t = p \o s

LEMMA AppendJoined ==
    ASSUME NEW S, NEW p \in Seq(S), NEW s \in Seq(S), NEW e \in S, NEW t, Joined(p, s, t)
    PROVE  Joined(p, Append(s, e), Append(t, e))
<1>1. PICK l, r : l = Append(p \o s, e) /\ r = p \o Append(s, e)  OBVIOUS
<1>2. l \in Seq(S) /\ r \in Seq(S) /\ Len(l) = Len(r)  BY <1>1
<1>3. \A i \in 1 .. Len(l) : l[i] = r[i]  BY <1>1
<1>4. l = r  BY <1>2, <1>3, SeqEqual
<1> QED BY <1>1, <1>4 DEF Joined

\* What is retained are the values that are not to go.
LEMMA RetainValues ==
    ASSUME NEW S, NEW seq \in Seq(S), NEW gone
    PROVE  ToSet(Retain(seq, gone)) = ToSet(seq) \ gone
<1>1. PICK kept : KeptIn(kept, seq, gone, Len(seq)) /\ Retain(seq, gone) = kept[Len(seq)]
  BY RetainKept
<1> DEFINE Good(n) == /\ kept[n] \in Seq(S)
                      /\ \A v : v \in ToSet(kept[n]) <=> v \notin gone /\ \E i \in 1 .. n : seq[i] = v
           Bad == {n \in 0 .. Len(seq) : ~Good(n)}
<1> HIDE DEF Good
<1>2. Bad = {}
  <2> SUFFICES ASSUME Bad # {} PROVE FALSE  OBVIOUS
  <2>1. PICK n \in Bad : \A m \in Bad : n <= m
    <3> HIDE DEF Bad
    <3>1. Bad \subseteq Nat  BY DEF Bad
    <3> QED BY <3>1, LeastOf
  <2>2. n \in 0 .. Len(seq)  OBVIOUS
  <2>3. CASE n = 0
    <3>1. kept[n] = <<>>  BY <1>1, <2>2, <2>3 DEF KeptIn
    <3>2. Good(n)  BY <2>3, <3>1 DEF Good, ToSet
    <3> QED BY <2>1, <3>2
  <2>4. CASE n # 0
    <3>1. n - 1 \in 0 .. Len(seq) /\ ~(n <= n - 1) /\ n \in DOMAIN seq /\ n \in 1 .. Len(seq)
      BY <2>2, <2>4
    <3>2. Good(n - 1) /\ seq[n] \in S  BY <2>1, <3>1
    <3>3. kept[n] = IF seq[n] \in gone THEN kept[n - 1] ELSE Append(kept[n - 1], seq[n])
      BY <1>1, <2>2, <2>4 DEF KeptIn
    <3>4. \A i : i \in 1 .. n <=> i \in 1 .. n - 1 \/ i = n  BY <3>1
    <3>5. CASE seq[n] \in gone  BY <3>2, <3>3, <3>4, <3>5 DEF Good
    <3>6. CASE seq[n] \notin gone
      <4>1. kept[n] = Append(kept[n - 1], seq[n]) /\ kept[n - 1] \in Seq(S)
        BY <3>2, <3>3, <3>6 DEF Good
      <4>2. kept[n] \in Seq(S)  BY <3>2, <4>1
      <4>3. \A v : v \in ToSet(kept[n]) <=> v \in ToSet(kept[n - 1]) \/ v = seq[n]
        BY <4>1, <4>2, AppendValues
      <4> QED BY <3>2, <3>4, <3>6, <4>2, <4>3 DEF Good
    <3> QED BY <2>1, <3>5, <3>6
  <2> QED BY <2>3, <2>4
<1>3. Good(Len(seq))  BY <1>2
<1>4. \A v : v \in ToSet(seq) <=> \E i \in 1 .. Len(seq) : seq[i] = v  BY DEF ToSet
<1> QED BY <1>1, <1>3, <1>4 DEF Good

\* A sequence without these values stays as it is.
LEMMA RetainAll ==
    ASSUME NEW S, NEW seq \in Seq(S), NEW gone, ToSet(seq) \cap gone = {}
    PROVE  Retain(seq, gone) = seq
<1>1. PICK kept : KeptIn(kept, seq, gone, Len(seq)) /\ Retain(seq, gone) = kept[Len(seq)]
  BY RetainKept
<1>2. \A n \in 1 .. Len(seq) : seq[n] \notin gone  BY DEF ToSet
<1> DEFINE Good(n) == /\ kept[n] \in Seq(S) /\ Len(kept[n]) = n
                      /\ \A i \in 1 .. n : kept[n][i] = seq[i]
           Bad == {n \in 0 .. Len(seq) : ~Good(n)}
<1> HIDE DEF Good
<1>3. Bad = {}
  <2> SUFFICES ASSUME Bad # {} PROVE FALSE  OBVIOUS
  <2>1. PICK n \in Bad : \A m \in Bad : n <= m
    <3> HIDE DEF Bad
    <3>1. Bad \subseteq Nat  BY DEF Bad
    <3> QED BY <3>1, LeastOf
  <2>2. n \in 0 .. Len(seq)  OBVIOUS
  <2>3. CASE n = 0
    <3>1. kept[n] = <<>>  BY <1>1, <2>2, <2>3 DEF KeptIn
    <3>2. Good(n)  BY <2>3, <3>1 DEF Good
    <3> QED BY <2>1, <3>2
  <2>4. CASE n # 0
    <3>1. n - 1 \in 0 .. Len(seq) /\ ~(n <= n - 1) /\ n \in 1 .. Len(seq)  BY <2>2, <2>4
    <3>2. Good(n - 1) /\ seq[n] \in S /\ seq[n] \notin gone  BY <1>2, <2>1, <3>1
    <3>3. kept[n] = Append(kept[n - 1], seq[n])  BY <1>1, <2>2, <2>4, <3>2 DEF KeptIn
    <3>4. PICK s : s = kept[n - 1]  OBVIOUS
    <3>5. s \in Seq(S) /\ Len(s) = n - 1 /\ \A i \in 1 .. n - 1 : s[i] = seq[i]
      BY <3>2, <3>4 DEF Good
    <3>6. PICK l : l = Append(s, seq[n])  OBVIOUS
    <3>7. l \in Seq(S) /\ Len(l) = n /\ l[n] = seq[n] /\ \A i \in 1 .. n - 1 : l[i] = s[i]
      BY <3>1, <3>2, <3>5, <3>6
    <3>8. \A i \in 1 .. n : l[i] = seq[i]  BY <3>1, <3>5, <3>7
    <3>9. kept[n] = l  BY <3>3, <3>4, <3>6
    <3>10. Good(n)  BY <3>7, <3>8, <3>9 DEF Good
    <3> QED BY <2>1, <3>10
  <2> QED BY <2>3, <2>4
<1>4. PICK l : l = kept[Len(seq)]  OBVIOUS
<1>5. Good(Len(seq))  BY <1>3
<1>6. l \in Seq(S) /\ Len(l) = Len(seq) /\ \A i \in 1 .. Len(l) : l[i] = seq[i]
  BY <1>4, <1>5 DEF Good
<1> QED BY <1>1, <1>4, <1>6, SeqEqual

\* What goes of two sequences goes of both together.
LEMMA RetainJoined ==
    ASSUME NEW S, NEW p \in Seq(S), NEW s \in Seq(S), NEW gone, NEW t, Joined(p, s, t)
    PROVE  Joined(Retain(p, gone), Retain(s, gone), Retain(t, gone))
<1>1. /\ \A n \in 1 .. Len(p) : t[n] = p[n]
      /\ \A n \in 1 .. Len(s) : t[Len(p) + n] = s[n]
  BY DEF Joined
<1>2. t \in Seq(S) /\ Len(t) = Len(p) + Len(s)  BY DEF Joined
<1>3. PICK kt : KeptIn(kt, t, gone, Len(t)) /\ Retain(t, gone) = kt[Len(t)]  BY <1>2, RetainKept
<1>4. PICK kp : KeptIn(kp, p, gone, Len(p)) /\ Retain(p, gone) = kp[Len(p)]  BY RetainKept
<1>5. PICK ks : KeptIn(ks, s, gone, Len(s)) /\ Retain(s, gone) = ks[Len(s)]  BY RetainKept
<1> DEFINE BadP == {n \in 0 .. Len(p) : ~(kt[n] = kp[n])}
<1>6. BadP = {}
  <2> SUFFICES ASSUME BadP # {} PROVE FALSE  OBVIOUS
  <2>1. PICK n \in BadP : \A m \in BadP : n <= m
    <3> HIDE DEF BadP
    <3>1. BadP \subseteq Nat  BY DEF BadP
    <3> QED BY <3>1, LeastOf
  <2>2. n \in 0 .. Len(p) /\ n \in 0 .. Len(t)  BY <1>2
  <2>3. CASE n = 0  BY <1>3, <1>4, <2>1, <2>2, <2>3 DEF KeptIn
  <2>4. CASE n # 0
    <3>1. n - 1 \in 0 .. Len(p) /\ ~(n <= n - 1) /\ n \in 1 .. Len(p)  BY <2>2, <2>4
    <3>2. kt[n - 1] = kp[n - 1] /\ t[n] = p[n]  BY <1>1, <2>1, <3>1
    <3>3. kt[n] = IF t[n] \in gone THEN kt[n - 1] ELSE Append(kt[n - 1], t[n])
      BY <1>3, <2>2, <2>4 DEF KeptIn
    <3>4. kp[n] = IF p[n] \in gone THEN kp[n - 1] ELSE Append(kp[n - 1], p[n])
      BY <1>4, <2>2, <2>4 DEF KeptIn
    <3> QED BY <2>1, <3>2, <3>3, <3>4
  <2> QED BY <2>3, <2>4
<1>7. PICK head : head = Retain(p, gone)  OBVIOUS
<1>8. head \in Seq(S) /\ kt[Len(p)] = head  BY <1>4, <1>6, <1>7, RetainType
<1> DEFINE Good(n) == ks[n] \in Seq(S) /\ Joined(head, ks[n], kt[Len(p) + n])
           Bad == {n \in 0 .. Len(s) : ~Good(n)}
<1> HIDE DEF Good
<1>9. Bad = {}
  <2> SUFFICES ASSUME Bad # {} PROVE FALSE  OBVIOUS
  <2>1. PICK n \in Bad : \A m \in Bad : n <= m
    <3> HIDE DEF Bad
    <3>1. Bad \subseteq Nat  BY DEF Bad
    <3> QED BY <3>1, LeastOf
  <2>2. n \in 0 .. Len(s) /\ Len(p) + n \in 0 .. Len(t)  BY <1>2
  <2>3. CASE n = 0
    <3>1. ks[n] = <<>>  BY <1>5, <2>2, <2>3 DEF KeptIn
    <3>2. Good(n)  BY <1>8, <2>3, <3>1 DEF Good, Joined
    <3> QED BY <2>1, <3>2
  <2>4. CASE n # 0
    <3>1. n - 1 \in 0 .. Len(s) /\ ~(n <= n - 1) /\ n \in 1 .. Len(s) /\ Len(p) \in Nat
      BY <2>2, <2>4
    <3>2. Good(n - 1) /\ t[Len(p) + n] = s[n] /\ s[n] \in S  BY <1>1, <2>1, <3>1
    <3>3. PICK i : i = Len(p) + n  OBVIOUS
    <3>4. i \in 0 .. Len(t) /\ i # 0 /\ i - 1 = Len(p) + (n - 1)  BY <2>2, <3>1, <3>3
    <3>5. kt[i] = IF t[i] \in gone THEN kt[i - 1] ELSE Append(kt[i - 1], t[i])
      BY <1>3, <3>4 DEF KeptIn
    <3>6. ks[n] = IF s[n] \in gone THEN ks[n - 1] ELSE Append(ks[n - 1], s[n])
      BY <1>5, <2>2, <2>4 DEF KeptIn
    <3>7. ks[n - 1] \in Seq(S) /\ Joined(head, ks[n - 1], kt[i - 1])  BY <3>2, <3>4 DEF Good
    <3>8. t[i] = s[n]  BY <3>2, <3>3
    <3>9. CASE s[n] \in gone  BY <2>1, <3>3, <3>5, <3>6, <3>7, <3>8, <3>9 DEF Good
    <3>10. CASE s[n] \notin gone
      <4>1. ks[n] = Append(ks[n - 1], s[n]) /\ kt[i] = Append(kt[i - 1], s[n])
        BY <3>5, <3>6, <3>8, <3>10
      <4>2. Joined(head, ks[n], kt[i])  BY <1>8, <3>2, <3>7, <4>1, AppendJoined
      <4>3. ks[n] \in Seq(S)  BY <3>2, <3>7, <4>1
      <4> QED BY <2>1, <3>3, <4>2, <4>3 DEF Good
    <3> QED BY <3>9, <3>10
  <2> QED BY <2>3, <2>4
<1>10. Good(Len(s))  BY <1>9
<1> QED BY <1>1, <1>2, <1>3, <1>5, <1>7, <1>10 DEF Good

-----------------------------------------------------------------------------
(***************************************************************************)
(* What keeps CacheSound: the order of the cache is the end of the order   *)
(* of use; a number of a POP3 account is in one folder, as a row or as an  *)
(* entry; an entry of a POP3 account is of its only numbering, and one of  *)
(* an IMAP folder that was not deleted has its row.                        *)
(***************************************************************************)
EndsUse(o, u) == \E older \in Seq(MailKeys) : Joined(older, o, u)

CacheShape ==
    /\ order \in Seq(MailKeys) /\ EndsUse(order, used)
    /\ DOMAIN cache \subseteq ToSet(order)

StoredAt(f, u) == u \in rows[f] \/ <<f, u>> \in ToSet(order)

OnePlace ==
    \A f \in Pop, u \in 1 .. MaxUid :
        StoredAt(f, u) => u < next /\ \A g \in Pop : StoredAt(g, u) => g = f

Fresh(k) ==
    /\ k[1] \in Pop => cache[k] = [epoch |-> 1, trust |-> trust]
    /\ k[1] \in Imap /\ k[1] \notin dropped =>
         k[2] \in rows[k[1]] /\ cache[k] = [epoch |-> epoch[k[1]], trust |-> trust]

FoldersOK ==
    /\ DOMAIN rows = Folders /\ DOMAIN epoch = Folders
    /\ \A f \in Pop : epoch[f] = 1
    /\ next \in Nat

CacheInv == FoldersOK /\ CacheShape /\ OnePlace /\ \A k \in DOMAIN cache : Fresh(k)

LEMMA TouchedKeeps ==
    ASSUME CacheShape, NEW key \in MailKeys
    PROVE  /\ Touched(order, key) \in Seq(MailKeys)
           /\ EndsUse(Touched(order, key), Touched(used, key))
           /\ \A v : v \in ToSet(Touched(order, key)) <=> v \in ToSet(order) \/ v = key
<1>1. PICK older \in Seq(MailKeys) : Joined(older, order, used)  BY DEF CacheShape, EndsUse
<1>2. PICK o, p, u : /\ o = Retain(order, {key}) /\ p = Retain(older, {key})
                     /\ u = Retain(used, {key})
  OBVIOUS
<1>3. order \in Seq(MailKeys)  BY DEF CacheShape
<1>4. o \in Seq(MailKeys) /\ p \in Seq(MailKeys)  BY <1>1, <1>2, <1>3, RetainType
<1>5. Joined(p, o, u)  BY <1>1, <1>2, <1>3, RetainJoined
<1>6. Joined(p, Append(o, key), Append(u, key)) /\ Append(o, key) \in Seq(MailKeys)
  BY <1>4, <1>5, AppendJoined
<1>7. ToSet(o) = ToSet(order) \ {key}  BY <1>2, <1>3, RetainValues
<1>8. \A v : v \in ToSet(Append(o, key)) <=> v \in ToSet(o) \/ v = key  BY <1>4, AppendValues
<1>9. Touched(order, key) = Append(o, key) /\ Touched(used, key) = Append(u, key)
  BY <1>2 DEF Touched, Drop
<1> QED BY <1>4, <1>6, <1>7, <1>8, <1>9 DEF EndsUse

LEMMA ForgetKeeps ==
    ASSUME CacheShape, NEW keys, Forget(keys)
    PROVE  /\ CacheShape' /\ ToSet(order') = ToSet(order) \ keys
           /\ DOMAIN cache' = DOMAIN cache \ keys
           /\ \A k \in DOMAIN cache' : cache'[k] = cache[k]
<1>1. PICK older \in Seq(MailKeys) : Joined(older, order, used)  BY DEF CacheShape, EndsUse
<1>2. PICK o, p, u : o = Retain(order, keys) /\ p = Retain(older, keys) /\ u = Retain(used, keys)
  OBVIOUS
<1>3. order \in Seq(MailKeys)  BY DEF CacheShape
<1>4. o \in Seq(MailKeys) /\ p \in Seq(MailKeys)  BY <1>1, <1>2, <1>3, RetainType
<1>5. Joined(p, o, u)  BY <1>1, <1>2, <1>3, RetainJoined
<1>6. order' = o /\ used' = u /\ cache' = [k \in DOMAIN cache \ keys |-> cache[k]]
  BY <1>2 DEF Forget, Without
<1>7. ToSet(o) = ToSet(order) \ keys  BY <1>2, <1>3, RetainValues
<1>8. DOMAIN cache' = DOMAIN cache \ keys /\ \A k \in DOMAIN cache' : cache'[k] = cache[k]
  BY <1>6
<1>9. CacheShape'  BY <1>4, <1>5, <1>6, <1>7, <1>8 DEF CacheShape, EndsUse
<1> QED BY <1>6, <1>7, <1>8, <1>9

\* cache_put: what is evicted is used less recently than what stays.
LEMMA PutKeeps ==
    ASSUME CacheShape, NEW key \in MailKeys, NEW mail, Put(key, mail)
    PROVE  /\ CacheShape'
           /\ \A v : v \in ToSet(order') => v \in ToSet(order) \/ v = key
           /\ \A k \in DOMAIN cache' : k \in DOMAIN cache \/ k = key
           /\ \A k \in DOMAIN cache' : cache'[k] = IF k = key THEN mail ELSE cache[k]
<1>1. PICK all : all = Touched(order, key)  OBVIOUS
<1>2. PICK e : e = IF Len(all) > Cap THEN Len(all) - Cap ELSE 0  OBVIOUS
<1>3. PICK gone, left : gone = SubSeq(all, 1, e) /\ left = SubSeq(all, e + 1, Len(all))  OBVIOUS
<1>4. /\ all \in Seq(MailKeys) /\ EndsUse(all, Touched(used, key))
      /\ \A v : v \in ToSet(all) <=> v \in ToSet(order) \/ v = key
  BY <1>1, TouchedKeeps
<1>5. Len(all) \in Nat /\ e \in 0 .. Len(all)  BY <1>2, <1>4, CacheAssumption
<1>6. Joined(gone, left, all)
  <2>1. PICK n : n = Len(all)  OBVIOUS
  <2>2. 1 \in 1 .. n + 1 /\ e \in 1 - 1 .. n /\ n \in e .. n  BY <1>5, <2>1
  <2>3. SubSeq(all, 1, e) \o SubSeq(all, e + 1, n) = SubSeq(all, 1, n)
    BY <1>4, <2>1, <2>2, ConcatAdjacentSubSeq
  <2>4. SubSeq(all, 1, n) = all  BY <1>4, <2>1, SubSeqFull, Zenon
  <2> QED BY <1>3, <2>1, <2>3, <2>4 DEF Joined
<1>7. gone \in Seq(MailKeys) /\ left \in Seq(MailKeys)  BY <1>3, <1>4, <1>5
<1>8. \A v : v \in ToSet(all) => v \in ToSet(gone) \/ v \in ToSet(left)
  <2> SUFFICES ASSUME NEW v, v \in ToSet(all) PROVE v \in ToSet(gone) \/ v \in ToSet(left)
    OBVIOUS
  <2>1. PICK i \in 1 .. Len(all) : all[i] = v  BY <1>4 DEF ToSet
  <2>2. Len(gone) \in Nat /\ Len(left) \in Nat /\ Len(all) = Len(gone) + Len(left)
    BY <1>6, <1>7 DEF Joined
  <2>3. CASE i <= Len(gone)
    <3>1. i \in DOMAIN gone /\ gone[i] = v  BY <1>6, <1>7, <2>1, <2>2, <2>3 DEF Joined
    <3> QED BY <3>1 DEF ToSet
  <2>4. CASE ~(i <= Len(gone))
    <3>1. i - Len(gone) \in DOMAIN left /\ left[i - Len(gone)] = v
      BY <1>6, <1>7, <2>1, <2>2, <2>4 DEF Joined
    <3> QED BY <3>1 DEF ToSet
  <2> QED BY <2>3, <2>4
<1>9. \A v : v \in ToSet(left) => v \in ToSet(all)
  <2> SUFFICES ASSUME NEW i \in DOMAIN left PROVE left[i] \in ToSet(all)
    BY DEF ToSet
  <2>1. PICK j : j = e + i  OBVIOUS
  <2>2. j \in DOMAIN all /\ all[j] = left[i]  BY <1>3, <1>4, <1>5, <2>1
  <2> QED BY <2>2 DEF ToSet
<1>10. EndsUse(left, Touched(used, key))
  <2>1. PICK older \in Seq(MailKeys) : Joined(older, all, Touched(used, key))  BY <1>4 DEF EndsUse
  <2>2. PICK more : more = older \o gone  OBVIOUS
  <2>3. more \in Seq(MailKeys) /\ Joined(more, left, older \o (gone \o left))
    BY <1>7, <2>1, <2>2, ConcatAssociative DEF Joined
  <2>4. Joined(more, left, Touched(used, key))  BY <1>6, <2>1, <2>3 DEF Joined
  <2> QED BY <2>3, <2>4 DEF EndsUse
<1>11. /\ order' = left /\ used' = Touched(used, key)
       /\ cache' = [k \in (DOMAIN cache \cup {key}) \ ToSet(gone) |->
                       IF k = key THEN mail ELSE cache[k]]
  BY <1>1, <1>2, <1>3 DEF Put
<1>12. DOMAIN cache' = (DOMAIN cache \cup {key}) \ ToSet(gone)
       /\ \A k \in DOMAIN cache' : cache'[k] = IF k = key THEN mail ELSE cache[k]
  BY <1>11
<1>13. CacheShape'  BY <1>4, <1>7, <1>8, <1>10, <1>11, <1>12 DEF CacheShape
<1> QED BY <1>4, <1>9, <1>11, <1>12, <1>13

\* Where a number of a POP3 account is depends on the rows and on the order only, and
\* it may go from a place.
LEMMA PlaceKept ==
    ASSUME OnePlace, next' = next,
           \A f \in Pop, u \in 1 .. MaxUid : StoredAt(f, u)' => StoredAt(f, u)
    PROVE  OnePlace'
BY DEF OnePlace

LEMMA KeyParts ==
    ASSUME NEW k \in MailKeys
    PROVE  k = <<k[1], k[2]>> /\ k[1] \in Folders /\ k[2] \in 1 .. MaxUid
BY DEF MailKeys

LEMMA CachedKeys ==
    ASSUME CacheShape, NEW k \in DOMAIN cache PROVE k \in MailKeys
<1>1. k \in ToSet(order)  BY DEF CacheShape
<1>2. PICK i \in DOMAIN order : order[i] = k  BY <1>1 DEF ToSet
<1> QED BY <1>2 DEF CacheShape

LEMMA CacheInvInit ==
    ASSUME CacheInit PROVE CacheInv
<1>1. order = <<>> /\ used = <<>> /\ cache = <<>>  BY DEF CacheInit
<1>2. ToSet(order) = {} /\ DOMAIN cache = {}  BY <1>1 DEF ToSet
<1>3. EndsUse(order, used)
  <2>1. Joined(<<>>, order, used) /\ <<>> \in Seq(MailKeys)  BY <1>1 DEF Joined
  <2> QED BY <2>1 DEF EndsUse
<1>4. CacheShape  BY <1>1, <1>2, <1>3 DEF CacheShape
<1>5. FoldersOK  BY DEF CacheInit, FoldersOK, Folders
<1>6. OnePlace  BY <1>2 DEF OnePlace, StoredAt, CacheInit, Folders
<1> QED BY <1>2, <1>4, <1>5, <1>6 DEF CacheInv

LEMMA HitKeeps ==
    ASSUME CacheInv, NEW k \in MailKeys, Hit(k) PROVE CacheInv'
<1>1. PICK o, u : o = Touched(order, k) /\ u = Touched(used, k)  OBVIOUS
<1>2. /\ o \in Seq(MailKeys) /\ EndsUse(o, u)
      /\ \A v : v \in ToSet(o) <=> v \in ToSet(order) \/ v = k
  BY <1>1, TouchedKeeps DEF CacheInv
<1>3. /\ order' = o /\ used' = u /\ k \in DOMAIN cache
      /\ UNCHANGED <<rows, epoch, next, trust, cache, dropped>>
  BY <1>1 DEF Hit
<1>4. CacheShape'  BY <1>2, <1>3 DEF CacheShape, CacheInv
<1>5. ToSet(order') = ToSet(order)  BY <1>2, <1>3 DEF CacheShape, CacheInv
<1>6. OnePlace'  BY <1>3, <1>5, PlaceKept DEF CacheInv, StoredAt
<1> QED BY <1>3, <1>4, <1>6 DEF CacheInv, FoldersOK, Fresh

LEMMA MissKeeps ==
    ASSUME CacheInv, NEW k \in MailKeys, Miss(k) PROVE CacheInv'
<1>1. k \in MailKeys /\ Put(k, Parsed(k)) /\ k[2] \in rows[k[1]]
      /\ UNCHANGED <<rows, epoch, next, trust, dropped>>
  BY DEF Miss
<1>2. PICK mail : mail = Parsed(k)  OBVIOUS
<1>3. /\ CacheShape'
      /\ \A v : v \in ToSet(order') => v \in ToSet(order) \/ v = k
      /\ \A x \in DOMAIN cache' : x \in DOMAIN cache \/ x = k
      /\ \A x \in DOMAIN cache' : cache'[x] = IF x = k THEN mail ELSE cache[x]
  BY <1>1, <1>2, PutKeeps DEF CacheInv
<1>4. \A f \in Pop, u \in 1 .. MaxUid : StoredAt(f, u)' => StoredAt(f, u)
  <2> SUFFICES ASSUME NEW f \in Pop, NEW u \in 1 .. MaxUid, StoredAt(f, u)' PROVE StoredAt(f, u)  OBVIOUS
  <2>1. u \in rows[f] \/ <<f, u>> \in ToSet(order) \/ <<f, u>> = k  BY <1>1, <1>3 DEF StoredAt
  <2>2. <<f, u>> = k => u \in rows[f]  BY <1>1
  <2> QED BY <2>1, <2>2 DEF StoredAt
<1>5. OnePlace'  BY <1>1, <1>4, PlaceKept DEF CacheInv
<1>6. ASSUME NEW x \in DOMAIN cache' PROVE Fresh(x)'
  <2>1. CASE x = k
    <3>1. cache'[x] = [epoch |-> epoch[k[1]], trust |-> trust]  BY <1>2, <1>3, <2>1 DEF Parsed
    <3> QED BY <1>1, <2>1, <3>1 DEF Fresh, CacheInv, FoldersOK
  <2>2. CASE x # k
    <3>1. x \in DOMAIN cache /\ cache'[x] = cache[x]  BY <1>3, <2>2
    <3> QED BY <1>1, <3>1 DEF Fresh, CacheInv
  <2> QED BY <2>1, <2>2
<1> QED BY <1>1, <1>3, <1>5, <1>6 DEF CacheInv, FoldersOK

LEMMA SyncResetKeeps ==
    ASSUME CacheInv, NEW f \in Folders, NEW new, NEW uids, SyncReset(f, new, uids) PROVE CacheInv'
<1>1. PICK keys : keys = {k \in MailKeys : k[1] = f}  OBVIOUS
<1>2. /\ f \in Imap /\ Forget(keys) /\ UNCHANGED <<next, trust, dropped>>
      /\ rows' = [rows EXCEPT ![f] = uids]
      /\ epoch' = IF new THEN [epoch EXCEPT ![f] = @ + 1] ELSE epoch
  BY <1>1 DEF SyncReset
<1>3. /\ CacheShape' /\ ToSet(order') = ToSet(order) \ keys
      /\ DOMAIN cache' = DOMAIN cache \ keys
      /\ \A k \in DOMAIN cache' : cache'[k] = cache[k]
  BY <1>2, ForgetKeeps DEF CacheInv
<1>4. \A g \in Folders : g # f => rows'[g] = rows[g] /\ epoch'[g] = epoch[g]
  BY <1>2 DEF CacheInv, FoldersOK
<1>5. f \notin Pop  BY <1>2, CacheAssumption
<1>6. FoldersOK'  BY <1>2, <1>4, <1>5 DEF CacheInv, FoldersOK, Folders
<1>7. OnePlace'  BY <1>2, <1>3, <1>4, <1>5, PlaceKept DEF CacheInv, StoredAt, Folders
<1>8. ASSUME NEW x \in DOMAIN cache' PROVE Fresh(x)'
  <2>1. x \in DOMAIN cache /\ x \notin keys /\ cache'[x] = cache[x]  BY <1>3
  <2>2. x \in MailKeys  BY <2>1, CachedKeys DEF CacheInv
  <2>3. x[1] # f /\ x[1] \in Folders  BY <1>1, <2>1, <2>2, KeyParts
  <2>4. Fresh(x)  BY <2>1 DEF CacheInv
  <2> QED BY <1>2, <1>4, <2>1, <2>3, <2>4 DEF Fresh
<1> QED BY <1>3, <1>6, <1>7, <1>8 DEF CacheInv

\* The cache stays as it is and the rows of an IMAP folder change.
LEMMA RowsKeep ==
    ASSUME CacheInv, NEW f \in Imap, NEW new, NEW uids,
           rows' = [rows EXCEPT ![f] = uids], rows[f] \subseteq uids,
           rows[f] = {} \/ ~new,
           epoch' = IF new THEN [epoch EXCEPT ![f] = @ + 1] ELSE epoch,
           UNCHANGED <<next, trust, cache, order, used, dropped>>
    PROVE  CacheInv'
<1>1. f \in Folders /\ f \notin Pop  BY CacheAssumption DEF Folders
<1>2. \A g \in Folders : g # f => rows'[g] = rows[g] /\ epoch'[g] = epoch[g]
  BY DEF CacheInv, FoldersOK
<1>3. rows'[f] = uids /\ (epoch'[f] = epoch[f] \/ rows[f] = {})
  BY <1>1 DEF CacheInv, FoldersOK
<1>4. FoldersOK'  BY <1>1, <1>2 DEF CacheInv, FoldersOK, Folders
<1>5. CacheShape'  BY DEF CacheInv, CacheShape
<1>6. OnePlace'  BY <1>1, <1>2, PlaceKept DEF CacheInv, StoredAt, Folders
<1>7. ASSUME NEW x \in DOMAIN cache' PROVE Fresh(x)'
  <2>1. x \in DOMAIN cache /\ x \in MailKeys /\ Fresh(x)  BY CachedKeys DEF CacheInv
  <2>2. x[1] \in Folders  BY <2>1, KeyParts
  <2> QED BY <1>1, <1>2, <1>3, <2>1, <2>2 DEF Fresh
<1> QED BY <1>4, <1>5, <1>6, <1>7 DEF CacheInv

LEMMA InsertPopKeeps ==
    ASSUME CacheInv, NEW f \in Folders, InsertPop(f) PROVE CacheInv'
<1>1. /\ f \in Pop /\ next \in Nat /\ next <= MaxUid /\ next' = next + 1
      /\ rows' = [rows EXCEPT ![f] = @ \cup {next}]
      /\ UNCHANGED <<epoch, trust, cache, order, used, dropped>>
  BY DEF InsertPop, CacheInv, FoldersOK
<1>2. \A g \in Folders : rows'[g] = IF g = f THEN rows[g] \cup {next} ELSE rows[g]
  BY <1>1 DEF CacheInv, FoldersOK
<1>3. FoldersOK'  BY <1>1 DEF CacheInv, FoldersOK
<1>4. CacheShape'  BY <1>1 DEF CacheInv, CacheShape
<1>5. \A g \in Pop, u \in 1 .. MaxUid : StoredAt(g, u)' <=> StoredAt(g, u) \/ (g = f /\ u = next)
  BY <1>1, <1>2 DEF StoredAt, Folders
<1>6. \A g \in Pop, u \in 1 .. MaxUid : StoredAt(g, u) => u < next  BY DEF CacheInv, OnePlace
<1>7. OnePlace'
  <2> SUFFICES ASSUME NEW g \in Pop, NEW u \in 1 .. MaxUid, StoredAt(g, u)'
               PROVE  u < next + 1 /\ \A h \in Pop : StoredAt(h, u)' => h = g
    BY <1>1 DEF OnePlace
  <2>1. CASE u = next
    <3>1. \A h \in Pop : ~StoredAt(h, u)  BY <1>1, <1>6, <2>1
    <3> QED BY <1>1, <1>5, <2>1, <3>1
  <2>2. CASE u # next
    <3>1. StoredAt(g, u) /\ \A h \in Pop : StoredAt(h, u)' => StoredAt(h, u)  BY <1>5, <2>2
    <3> QED BY <1>1, <3>1 DEF CacheInv, OnePlace
  <2> QED BY <2>1, <2>2
<1>8. ASSUME NEW x \in DOMAIN cache' PROVE Fresh(x)'
  <2>1. x \in DOMAIN cache /\ x \in MailKeys /\ Fresh(x)  BY <1>1, CachedKeys DEF CacheInv
  <2>2. x[1] \in Folders  BY <2>1, KeyParts
  <2> QED BY <1>1, <1>2, <2>1, <2>2 DEF Fresh
<1> QED BY <1>3, <1>4, <1>7, <1>8 DEF CacheInv

LEMMA DeleteRowKeeps ==
    ASSUME CacheInv, NEW k \in MailKeys, DeleteRow(k) PROVE CacheInv'
<1>1. PICK f, u : f = k[1] /\ u = k[2]  OBVIOUS
<1>2. f \in Folders /\ u \in 1 .. MaxUid /\ k = <<f, u>>  BY <1>1, KeyParts
<1>3. /\ rows' = [rows EXCEPT ![f] = @ \ {u}] /\ Forget({k})
      /\ UNCHANGED <<epoch, next, trust, dropped>>
  BY <1>1 DEF DeleteRow
<1>4. /\ CacheShape' /\ ToSet(order') = ToSet(order) \ {k}
      /\ DOMAIN cache' = DOMAIN cache \ {k}
      /\ \A x \in DOMAIN cache' : cache'[x] = cache[x]
  BY <1>3, ForgetKeeps DEF CacheInv
<1>5. \A g \in Folders : rows'[g] = IF g = f THEN rows[g] \ {u} ELSE rows[g]
  BY <1>3 DEF CacheInv, FoldersOK
<1>6. FoldersOK'  BY <1>3 DEF CacheInv, FoldersOK
<1>7. OnePlace'  BY <1>3, <1>4, <1>5, PlaceKept DEF CacheInv, StoredAt, Folders
<1>8. ASSUME NEW x \in DOMAIN cache' PROVE Fresh(x)'
  <2>1. x \in DOMAIN cache /\ x # k /\ cache'[x] = cache[x]  BY <1>4
  <2>2. x \in MailKeys /\ Fresh(x)  BY <2>1, CachedKeys DEF CacheInv
  <2>3. x[1] \in Folders /\ (x[1] # f \/ x[2] # u)  BY <1>2, <2>1, <2>2, KeyParts
  <2> QED BY <1>3, <1>5, <2>1, <2>2, <2>3 DEF Fresh
<1> QED BY <1>4, <1>6, <1>7, <1>8 DEF CacheInv

LEMMA InsertKeeps ==
    ASSUME CacheInv, NEW f \in Folders, NEW u, Insert(f, u) PROVE CacheInv'
<1>1. PICK uids : uids = rows[f] \cup {u}  OBVIOUS
<1>2. /\ f \in Imap /\ rows' = [rows EXCEPT ![f] = uids] /\ rows[f] \subseteq uids
      /\ epoch' = (IF FALSE THEN [epoch EXCEPT ![f] = @ + 1] ELSE epoch)
      /\ UNCHANGED <<next, trust, cache, order, used, dropped>>
  BY <1>1 DEF Insert
<1> QED BY <1>2, RowsKeep

LEMMA InsertOlderKeeps ==
    ASSUME CacheInv, NEW f \in Folders, NEW uids, NEW new, InsertOlder(f, uids, new) PROVE CacheInv'
<1>1. /\ f \in Imap /\ rows' = [rows EXCEPT ![f] = uids] /\ rows[f] = {} /\ rows[f] \subseteq uids
      /\ epoch' = (IF new THEN [epoch EXCEPT ![f] = @ + 1] ELSE epoch)
      /\ UNCHANGED <<next, trust, cache, order, used, dropped>>
  BY DEF InsertOlder
<1> QED BY <1>1, RowsKeep

\* move_message of a POP3 account: the place of the number is the target afterwards.
LEMMA MovedPlace ==
    ASSUME CacheInv, NEW f \in Pop, NEW g \in Pop, NEW u \in 1 .. MaxUid, u \in rows[f], g # f,
           next' = next,
           rows' = [rows EXCEPT ![f] = @ \ {u}, ![g] = @ \cup {u}],
           \A v : v \in ToSet(order') => (v \in ToSet(order) \/ v = <<g, u>>) /\ v # <<f, u>>
    PROVE  OnePlace' /\ \A h \in Folders : h \notin Pop => rows'[h] = rows[h]
<1>0. PICK after : after = rows'  OBVIOUS
<1>1. \A h \in Folders : after[h] = IF h = f THEN rows[h] \ {u}
                                   ELSE IF h = g THEN rows[h] \cup {u} ELSE rows[h]
  BY <1>0 DEF CacheInv, FoldersOK, Folders
<1>2. u < next /\ \A h \in Pop : StoredAt(h, u) => h = f  BY DEF CacheInv, OnePlace, StoredAt
<1>3. \A h \in Pop, w \in 1 .. MaxUid : StoredAt(h, w)' => StoredAt(h, w) \/ (h = g /\ w = u)
  <2> SUFFICES ASSUME NEW h \in Pop, NEW w \in 1 .. MaxUid, StoredAt(h, w)'
               PROVE  StoredAt(h, w) \/ (h = g /\ w = u)
    OBVIOUS
  <2>1. h \in Folders  BY DEF Folders
  <2>2. w \in after[h] => w \in rows[h] \/ (h = g /\ w = u)  BY <1>1, <2>1
  <2>3. PICK key : key = <<h, w>>  OBVIOUS
  <2>4. key = <<g, u>> => h = g /\ w = u  BY <2>3
  <2>5. w \in after[h] \/ key \in ToSet(order')  BY <1>0, <2>3 DEF StoredAt
  <2>6. key \in ToSet(order') => key \in ToSet(order) \/ key = <<g, u>>  OBVIOUS
  <2> QED BY <2>2, <2>3, <2>4, <2>5, <2>6 DEF StoredAt
<1>4. ~StoredAt(f, u)'
  <2>1. f \in Folders  BY DEF Folders
  <2>2. u \notin after[f]  BY <1>1, <2>1
  <2>3. PICK key : key = <<f, u>>  OBVIOUS
  <2>4. key \notin ToSet(order')  BY <2>3
  <2> QED BY <1>0, <2>2, <2>3, <2>4 DEF StoredAt
<1>5. OnePlace'
  <2> SUFFICES ASSUME NEW h \in Pop, NEW w \in 1 .. MaxUid, StoredAt(h, w)'
               PROVE  w < next /\ \A i \in Pop : StoredAt(i, w)' => i = h
    BY DEF OnePlace
  <2>1. CASE w = u
    <3>1. \A i \in Pop : StoredAt(i, u)' => i = g  BY <1>2, <1>3, <1>4
    <3> QED BY <1>2, <2>1, <3>1
  <2>2. CASE w # u
    <3>1. StoredAt(h, w) /\ \A i \in Pop : StoredAt(i, w)' => StoredAt(i, w)  BY <1>3, <2>2
    <3> QED BY <3>1 DEF CacheInv, OnePlace
  <2> QED BY <2>1, <2>2
<1> QED BY <1>0, <1>1, <1>5

LEMMA RefileKeeps ==
    ASSUME CacheInv, NEW k \in MailKeys, NEW g \in Pop, Refile(k, g) PROVE CacheInv'
<1>1. PICK f, u, key : f = k[1] /\ u = k[2] /\ key = <<g, u>>  OBVIOUS
<1>2. f \in Folders /\ u \in 1 .. MaxUid /\ k = <<f, u>>  BY <1>1, KeyParts
<1>3. /\ f \in Pop /\ g # f /\ u \in rows[f]
      /\ rows' = [rows EXCEPT ![f] = @ \ {u}, ![g] = @ \cup {u}]
      /\ UNCHANGED <<epoch, next, trust, dropped>>
  BY <1>1 DEF Refile
<1>4. g \in Folders /\ key \in MailKeys /\ key # k  BY <1>1, <1>2, <1>3 DEF Folders, MailKeys
<1>5. FoldersOK'  BY <1>3 DEF CacheInv, FoldersOK
<1>6. f \notin Imap /\ g \notin Imap  BY <1>3, CacheAssumption
<1>7. CASE k \notin DOMAIN cache
  <2>1. Forget({k})  BY <1>7 DEF Refile
  <2>2. /\ CacheShape' /\ ToSet(order') = ToSet(order) \ {k}
        /\ DOMAIN cache' = DOMAIN cache \ {k}
        /\ \A x \in DOMAIN cache' : cache'[x] = cache[x]
    BY <2>1, ForgetKeeps DEF CacheInv
  <2>3. OnePlace' /\ \A h \in Folders : h \notin Pop => rows'[h] = rows[h]
    BY <1>2, <1>3, <2>2, MovedPlace
  <2>4. ASSUME NEW x \in DOMAIN cache' PROVE Fresh(x)'
    <3>1. x \in DOMAIN cache /\ cache'[x] = cache[x]  BY <2>2
    <3>2. x \in MailKeys /\ Fresh(x)  BY <3>1, CachedKeys DEF CacheInv
    <3>3. x[1] \in Folders /\ (x[1] \in Imap => x[1] \notin Pop)
      BY <3>2, KeyParts, CacheAssumption
    <3> QED BY <1>3, <2>3, <3>1, <3>2, <3>3 DEF Fresh
  <2> QED BY <1>5, <2>2, <2>3, <2>4 DEF CacheInv
<1>8. CASE k \in DOMAIN cache
  <2>1. PICK o, p : o = Retain(order, {k}) /\ p = Retain(used, {k})  OBVIOUS
  <2>2. PICK last : last = Append(o, key)  OBVIOUS
  <2>3. /\ order' = last /\ used' = Touched(p, key)
        /\ cache' = [x \in (DOMAIN cache \ {k}) \cup {key} |-> IF x = key THEN cache[k] ELSE cache[x]]
    BY <1>1, <1>8, <2>1, <2>2 DEF Refile, Drop
  <2>4. order \in Seq(MailKeys) /\ DOMAIN cache \subseteq ToSet(order) /\ EndsUse(order, used)
    BY DEF CacheInv, CacheShape
  <2>5. key \notin ToSet(order)
    <3>1. StoredAt(f, u)  BY <1>3 DEF StoredAt
    <3>2. StoredAt(g, u) => g = f  BY <1>2, <1>3, <3>1 DEF CacheInv, OnePlace
    <3> QED BY <1>1, <1>3, <3>2 DEF StoredAt
  <2>6. o \in Seq(MailKeys) /\ ToSet(o) = ToSet(order) \ {k}  BY <2>1, <2>4, RetainType, RetainValues
  <2>7. PICK before \in Seq(MailKeys) : Joined(before, o, p)
    <3>1. PICK older \in Seq(MailKeys) : Joined(older, order, used)  BY <2>4 DEF EndsUse
    <3>2. Joined(Retain(older, {k}), o, p) /\ Retain(older, {k}) \in Seq(MailKeys)
      BY <2>1, <2>4, <3>1, RetainJoined, RetainType
    <3> QED BY <3>2
  <2>8. Retain(o, {key}) = o  BY <2>5, <2>6, RetainAll
  <2>9. EndsUse(last, Touched(p, key))
    <3>1. PICK b, q : b = Retain(before, {key}) /\ q = Retain(p, {key})  OBVIOUS
    <3>2. Joined(b, o, q) /\ b \in Seq(MailKeys)
      <4>1. Joined(b, Retain(o, {key}), q)  BY <2>6, <2>7, <3>1, RetainJoined
      <4> QED BY <2>7, <2>8, <3>1, <4>1, RetainType
    <3>3. Joined(b, last, Append(q, key))  BY <1>4, <2>2, <2>6, <3>2, AppendJoined
    <3>4. Touched(p, key) = Append(q, key)  BY <3>1 DEF Touched, Drop
    <3> QED BY <3>2, <3>3, <3>4 DEF EndsUse
  <2>10. last \in Seq(MailKeys) /\ \A v : v \in ToSet(last) <=> v \in ToSet(o) \/ v = key
    BY <1>4, <2>2, <2>6, AppendValues
  <2>11. DOMAIN cache' = (DOMAIN cache \ {k}) \cup {key}
         /\ \A x \in DOMAIN cache' : cache'[x] = IF x = key THEN cache[k] ELSE cache[x]
    BY <2>3
  <2>12. CacheShape'  BY <2>3, <2>4, <2>6, <2>9, <2>10, <2>11 DEF CacheShape
  <2>13. OnePlace' /\ \A h \in Folders : h \notin Pop => rows'[h] = rows[h]
    <3>1. \A v : v \in ToSet(order') => (v \in ToSet(order) \/ v = <<g, u>>) /\ v # <<f, u>>
      BY <1>1, <1>2, <1>4, <2>3, <2>6, <2>10
    <3> QED BY <1>2, <1>3, <3>1, MovedPlace
  <2>14. ASSUME NEW x \in DOMAIN cache' PROVE Fresh(x)'
    <3>1. CASE x = key
      <4>1. cache'[x] = [epoch |-> 1, trust |-> trust]
        BY <1>1, <1>3, <1>8, <2>11, <3>1 DEF CacheInv, Fresh
      <4> QED BY <1>1, <1>3, <1>6, <3>1, <4>1 DEF Fresh
    <3>2. CASE x # key
      <4>1. x \in DOMAIN cache /\ cache'[x] = cache[x]  BY <2>11, <3>2
      <4>2. x \in MailKeys /\ Fresh(x)  BY <4>1, CachedKeys DEF CacheInv
      <4>3. x[1] \in Folders /\ (x[1] \in Imap => x[1] \notin Pop)
        BY <4>2, KeyParts, CacheAssumption
      <4> QED BY <1>3, <2>13, <4>1, <4>2, <4>3 DEF Fresh
    <3> QED BY <3>1, <3>2
  <2> QED BY <1>5, <2>12, <2>13, <2>14 DEF CacheInv
<1> QED BY <1>7, <1>8

LEMMA ChangeTrustKeeps ==
    ASSUME CacheInv, ChangeTrust PROVE CacheInv'
<1>1. order' = <<>> /\ used' = <<>> /\ cache' = <<>> /\ UNCHANGED <<rows, epoch, next, dropped>>
  BY DEF ChangeTrust
<1>2. ToSet(order') = {} /\ DOMAIN cache' = {}  BY <1>1 DEF ToSet
<1>3. EndsUse(order', used')
  <2>1. Joined(<<>>, order', used') /\ <<>> \in Seq(MailKeys)  BY <1>1 DEF Joined
  <2> QED BY <2>1 DEF EndsUse
<1>4. CacheShape'  BY <1>1, <1>2, <1>3 DEF CacheShape
<1>5. OnePlace'  BY <1>1, <1>2, PlaceKept DEF CacheInv, StoredAt
<1> QED BY <1>1, <1>2, <1>4, <1>5 DEF CacheInv, FoldersOK

LEMMA DropFolderKeeps ==
    ASSUME CacheInv, NEW f \in Folders, DropFolder(f) PROVE CacheInv'
<1>1. /\ rows' = [rows EXCEPT ![f] = {}] /\ dropped' = dropped \cup {f}
      /\ UNCHANGED <<epoch, next, trust, cache, order, used>>
  BY DEF DropFolder
<1>2. \A g \in Folders : rows'[g] = IF g = f THEN {} ELSE rows[g]
  BY <1>1 DEF CacheInv, FoldersOK
<1>3. FoldersOK' /\ CacheShape'  BY <1>1 DEF CacheInv, FoldersOK, CacheShape
<1>4. OnePlace'  BY <1>1, <1>2, PlaceKept DEF CacheInv, StoredAt, Folders
<1>5. ASSUME NEW x \in DOMAIN cache' PROVE Fresh(x)'
  <2>1. x \in DOMAIN cache /\ x \in MailKeys /\ Fresh(x)  BY <1>1, CachedKeys DEF CacheInv
  <2>2. x[1] \in Folders  BY <2>1, KeyParts
  <2> QED BY <1>1, <1>2, <2>1, <2>2 DEF Fresh
<1> QED BY <1>3, <1>4, <1>5 DEF CacheInv

LEMMA CacheInvStep ==
    ASSUME CacheInv, [CacheNext]_cacheVars PROVE CacheInv'
<1>1. ASSUME NEW k \in MailKeys, Hit(k) \/ Miss(k) \/ DeleteRow(k) \/ \E t \in Pop : Refile(k, t)
      PROVE  CacheInv'
  BY <1>1, HitKeeps, MissKeeps, DeleteRowKeeps, RefileKeeps
<1>2. ASSUME NEW f \in Folders, Sync(f) PROVE CacheInv'
  BY <1>2, SyncResetKeeps, InsertOlderKeeps, InsertPopKeeps, InsertKeeps DEF Sync
<1>3. ASSUME NEW f \in Folders, DropFolder(f) PROVE CacheInv'
  BY <1>3, DropFolderKeeps
<1>4. CASE ChangeTrust  BY <1>4, ChangeTrustKeeps
<1>5. CASE UNCHANGED cacheVars
  BY <1>5 DEF cacheVars, CacheInv, FoldersOK, CacheShape, OnePlace, StoredAt, Fresh
<1> QED BY <1>1, <1>2, <1>3, <1>4, <1>5 DEF CacheNext

\* The end of a sequence, as a part of it.
LEMMA EndIsSubSeq ==
    ASSUME NEW S, NEW s \in Seq(S), NEW e \in Seq(S), NEW k \in Nat,
           Len(s) = k + Len(e), \A i \in 1 .. Len(e) : s[k + i] = e[i]
    PROVE  e = SubSeq(s, Len(s) - Len(e) + 1, Len(s))
<1>1. Len(s) \in Nat /\ Len(e) \in Nat  BY LenProperties
<1>2. Len(s) - Len(e) + 1 = k + 1  BY <1>1
<1>3. \A i \in k + 1 .. Len(s) : s[i] \in S
  <2> TAKE i \in k + 1 .. Len(s)
  <2> QED BY <1>1, ElementOfSeq
<1>4. /\ SubSeq(s, k + 1, Len(s)) \in Seq(S)
      /\ Len(SubSeq(s, k + 1, Len(s))) = IF k + 1 <= Len(s) THEN Len(s) - (k + 1) + 1 ELSE 0
      /\ \A i \in 1 .. Len(s) - (k + 1) + 1 : SubSeq(s, k + 1, Len(s))[i] = s[k + 1 + i - 1]
  BY <1>1, <1>3, SubSeqProperties
<1>5. Len(SubSeq(s, k + 1, Len(s))) = Len(e)  BY <1>1, <1>4
<1>6. \A i \in 1 .. Len(e) : SubSeq(s, k + 1, Len(s))[i] = e[i]
  <2> TAKE i \in 1 .. Len(e)
  <2>1. i \in 1 .. Len(s) - (k + 1) + 1 /\ k + 1 + i - 1 = k + i  BY <1>1
  <2> QED BY <1>4, <2>1
<1>7. e = SubSeq(s, k + 1, Len(s))  BY <1>4, <1>5, <1>6, SeqEqual
<1> QED BY <1>2, <1>7

LEMMA SoundFromInv ==
    ASSUME CacheInv PROVE CacheSound
<1>1. order = SubSeq(used, Len(used) - Len(order) + 1, Len(used))
  <2>1. PICK older \in Seq(MailKeys) : Joined(older, order, used)
    BY DEF CacheInv, CacheShape, EndsUse
  <2>2. order \in Seq(MailKeys)  BY DEF CacheInv, CacheShape
  <2>3. used \in Seq(MailKeys) /\ Len(used) = Len(older) + Len(order)
        /\ \A i \in 1 .. Len(order) : used[Len(older) + i] = order[i]
    BY <2>1, <2>2 DEF Joined
  <2>4. older \in Seq(MailKeys)  BY <2>1
  <2>5. Len(older) \in Nat  BY <2>4, LenProperties
  <2> QED BY <2>2, <2>3, <2>5, EndIsSubSeq
<1>2. ASSUME NEW k \in DOMAIN cache, k[1] \notin dropped PROVE cache[k] = Parsed(k)
  <2>1. Fresh(k) /\ k \in MailKeys  BY CachedKeys DEF CacheInv
  <2>2. k[1] \in Imap \/ k[1] \in Pop  BY <2>1, KeyParts DEF Folders
  <2>3. k[1] \in Pop => epoch[k[1]] = 1  BY DEF CacheInv, FoldersOK
  <2> QED BY <1>2, <2>1, <2>2, <2>3 DEF Fresh, Parsed
<1> QED BY <1>1, <1>2 DEF CacheSound

\* What a process keeps of parsed mails are those used last, and an entry with a row is
\* the mail of that row with its present tag, unless its folder was deleted.
THEOREM CachedMailIsSound == CacheSpec => []CacheSound
<1>1. CacheInit => CacheInv  BY CacheInvInit
<1>2. CacheInv /\ [CacheNext]_cacheVars => CacheInv'  BY CacheInvStep
<1>3. CacheInv => CacheSound  BY SoundFromInv
<1> QED BY <1>1, <1>2, <1>3, PTL DEF CacheSpec

-----------------------------------------------------------------------------
(* The map and the order of the cache.                                     *)

LEMMA AppendInjects ==
    ASSUME NEW S, NEW s \in Seq(S), NEW e \in S, IsInjective(s), e \notin ToSet(s)
    PROVE  IsInjective(Append(s, e))
<1>1. PICK t : t = Append(s, e)  OBVIOUS
<1>2. /\ Len(s) \in Nat /\ DOMAIN s = 1 .. Len(s) /\ DOMAIN t = 1 .. Len(s) + 1
      /\ t[Len(s) + 1] = e /\ \A i \in 1 .. Len(s) : t[i] = s[i]
  BY <1>1
<1>3. \A i \in 1 .. Len(s) : s[i] # e  BY <1>2 DEF ToSet
<1>4. ASSUME NEW a \in DOMAIN t, NEW b \in DOMAIN t, t[a] = t[b] PROVE a = b
  <2>1. CASE a \in 1 .. Len(s) /\ b \in 1 .. Len(s)
    <3>1. s[a] = s[b]  BY <1>2, <1>4, <2>1
    <3> QED BY <1>2, <2>1, <3>1 DEF IsInjective
  <2>2. CASE ~(a \in 1 .. Len(s) /\ b \in 1 .. Len(s))  BY <1>2, <1>3, <1>4, <2>2
  <2> QED BY <2>1, <2>2
<1> QED BY <1>1, <1>4 DEF IsInjective

\* What is retained has no value twice if the sequence has none, and is shorter when
\* something goes.
LEMMA RetainInjects ==
    ASSUME NEW S, NEW seq \in Seq(S), NEW gone, IsInjective(seq)
    PROVE  /\ IsInjective(Retain(seq, gone)) /\ Len(Retain(seq, gone)) <= Len(seq)
           /\ ToSet(seq) \cap gone # {} => Len(Retain(seq, gone)) < Len(seq)
<1>1. PICK kept : KeptIn(kept, seq, gone, Len(seq)) /\ Retain(seq, gone) = kept[Len(seq)]
  BY RetainKept
<1> DEFINE Good(n) == /\ kept[n] \in Seq(S) /\ IsInjective(kept[n]) /\ Len(kept[n]) <= n
                      /\ \A v \in ToSet(kept[n]) : \E i \in 1 .. n : seq[i] = v
                      /\ (\E i \in 1 .. n : seq[i] \in gone) => Len(kept[n]) < n
           Bad == {n \in 0 .. Len(seq) : ~Good(n)}
<1> HIDE DEF Good
<1>2. Bad = {}
  <2> SUFFICES ASSUME Bad # {} PROVE FALSE  OBVIOUS
  <2>1. PICK n \in Bad : \A m \in Bad : n <= m
    <3> HIDE DEF Bad
    <3>1. Bad \subseteq Nat  BY DEF Bad
    <3> QED BY <3>1, LeastOf
  <2>2. n \in 0 .. Len(seq)  OBVIOUS
  <2>3. CASE n = 0
    <3>1. PICK k : k = kept[n]  OBVIOUS
    <3>2. k = <<>>  BY <1>1, <2>2, <2>3, <3>1 DEF KeptIn
    <3>3. k \in Seq(S) /\ Len(k) = 0 /\ DOMAIN k = {} /\ ToSet(k) = {}  BY <3>2 DEF ToSet
    <3>4. Good(n)  BY <2>3, <3>1, <3>3 DEF Good, IsInjective
    <3> QED BY <2>1, <3>4
  <2>4. CASE n # 0
    <3>1. n - 1 \in 0 .. Len(seq) /\ ~(n <= n - 1) /\ n \in DOMAIN seq /\ n \in 1 .. Len(seq)
      BY <2>2, <2>4
    <3>2. PICK k, e : k = kept[n - 1] /\ e = seq[n]  OBVIOUS
    <3>3. /\ e \in S /\ k \in Seq(S) /\ IsInjective(k) /\ Len(k) <= n - 1 /\ Len(k) \in Nat
          /\ \A v \in ToSet(k) : \E i \in 1 .. n - 1 : seq[i] = v
          /\ (\E i \in 1 .. n - 1 : seq[i] \in gone) => Len(k) < n - 1
      <4>1. Good(n - 1)  BY <2>1, <3>1
      <4>2. k \in Seq(S) /\ IsInjective(k) /\ Len(k) <= n - 1  BY <3>2, <4>1 DEF Good
      <4>3. /\ \A v \in ToSet(k) : \E i \in 1 .. n - 1 : seq[i] = v
            /\ (\E i \in 1 .. n - 1 : seq[i] \in gone) => Len(k) < n - 1
        BY <3>2, <4>1 DEF Good
      <4>4. e \in S  BY <3>1, <3>2
      <4>5. Len(k) \in Nat  BY <4>2
      <4> QED BY <4>2, <4>3, <4>4, <4>5
    <3>4. kept[n] = IF e \in gone THEN k ELSE Append(k, e)
      BY <1>1, <2>2, <2>4, <3>2 DEF KeptIn
    <3>5. \A i : i \in 1 .. n <=> i \in 1 .. n - 1 \/ i = n  BY <3>1
    <3>6. CASE e \in gone
      <4>1. kept[n] = k /\ Len(k) < n  BY <3>1, <3>3, <3>4, <3>6
      <4>2. Good(n)  BY <3>1, <3>3, <3>5, <4>1 DEF Good
      <4> QED BY <2>1, <4>2
    <3>7. CASE e \notin gone
      <4>1. PICK l : l = Append(k, e)  OBVIOUS
      <4>2. e \notin ToSet(k)
        <5>1. \A i \in 1 .. n - 1 : i \in DOMAIN seq /\ i # n  BY <3>1
        <5>2. ASSUME NEW i \in 1 .. n - 1, seq[i] = e PROVE FALSE
          <6>1. i \in DOMAIN seq /\ n \in DOMAIN seq /\ seq[i] = seq[n] /\ i # n
            BY <3>1, <3>2, <5>1, <5>2
          <6> QED BY <6>1 DEF IsInjective
        <5> QED BY <3>3, <5>2
      <4>3. l \in Seq(S) /\ Len(l) = Len(k) + 1  BY <3>3, <4>1
      <4>4. IsInjective(l) /\ \A v : v \in ToSet(l) <=> v \in ToSet(k) \/ v = e
        BY <3>3, <4>1, <4>2, AppendInjects, AppendValues
      <4>5. \A v \in ToSet(l) : \E i \in 1 .. n : seq[i] = v  BY <3>2, <3>3, <3>5, <4>4
      <4>6. Len(l) <= n  BY <3>1, <3>3, <4>3
      <4>7. ASSUME NEW i \in 1 .. n, seq[i] \in gone PROVE Len(l) < n
        <5>1. i \in 1 .. n - 1  BY <3>2, <3>5, <3>7, <4>7
        <5>2. Len(k) < n - 1  BY <3>3, <4>7, <5>1
        <5> QED BY <3>1, <3>3, <4>3, <5>2
      <4>8. kept[n] = l  BY <3>4, <3>7, <4>1
      <4>9. Good(n)  BY <4>3, <4>4, <4>5, <4>6, <4>7, <4>8 DEF Good
      <4> QED BY <2>1, <4>9
    <3> QED BY <3>6, <3>7
  <2> QED BY <2>3, <2>4
<1>3. Good(Len(seq))  BY <1>2
<1>4. ToSet(seq) \cap gone # {} => \E i \in 1 .. Len(seq) : seq[i] \in gone  BY DEF ToSet
<1> QED BY <1>1, <1>3, <1>4 DEF Good

(***************************************************************************)
(* What keeps CacheTypeOK, beside CacheInv: a key that is put at the end   *)
(* of the order was taken out of it before, or was not in it.              *)
(***************************************************************************)
Tidy(o, c) ==
    /\ o \in Seq(MailKeys) /\ IsInjective(o)
    /\ ToSet(o) = DOMAIN c /\ Len(o) <= Cap

UidsOK == next # 0 /\ \A f \in Folders : rows[f] \subseteq 1 .. MaxUid

TidyInv == CacheInv /\ Tidy(order, cache) /\ UidsOK

LEMMA TouchedInjects ==
    ASSUME NEW o \in Seq(MailKeys), IsInjective(o), NEW key \in MailKeys, NEW t, t = Touched(o, key)
    PROVE  /\ t \in Seq(MailKeys) /\ IsInjective(t)
           /\ \A v : v \in ToSet(t) <=> v \in ToSet(o) \/ v = key
           /\ Len(t) <= Len(o) + 1 /\ (key \in ToSet(o) => Len(t) <= Len(o))
<1>1. PICK d : d = Retain(o, {key})  OBVIOUS
<1>2. d \in Seq(MailKeys) /\ ToSet(d) = ToSet(o) \ {key}  BY <1>1, RetainType, RetainValues
<1>3. /\ IsInjective(d) /\ Len(d) <= Len(o)
      /\ ToSet(o) \cap {key} # {} => Len(d) < Len(o)
  BY <1>1, RetainInjects
<1>4. PICK s : s = Append(d, key)  OBVIOUS
<1>5. /\ s \in Seq(MailKeys) /\ Len(s) = Len(d) + 1 /\ IsInjective(s)
      /\ \A v : v \in ToSet(s) <=> v \in ToSet(d) \/ v = key
  BY <1>2, <1>3, <1>4, AppendInjects, AppendValues
<1>6. t = s  BY <1>1, <1>4 DEF Touched, Drop
<1>7. key \in ToSet(o) => ToSet(o) \cap {key} # {}  OBVIOUS
<1>8. Len(d) \in Nat /\ Len(o) \in Nat  BY <1>2
<1> QED BY <1>2, <1>3, <1>5, <1>6, <1>7, <1>8

LEMMA PutTidy ==
    ASSUME Tidy(order, cache), NEW key \in MailKeys, NEW mail, Put(key, mail)
    PROVE  Tidy(order', cache')
<1>1. PICK all : all = Touched(order, key)  OBVIOUS
<1>2. PICK n, e : n = Len(all) /\ e = IF n > Cap THEN n - Cap ELSE 0  OBVIOUS
<1>3. PICK gone, left : gone = SubSeq(all, 1, e) /\ left = SubSeq(all, e + 1, n)  OBVIOUS
<1>4. /\ all \in Seq(MailKeys) /\ IsInjective(all)
      /\ \A v : v \in ToSet(all) <=> v \in DOMAIN cache \/ v = key
  BY <1>1, TouchedInjects DEF Tidy
<1>5. n \in Nat /\ e \in 0 .. n /\ n - e <= Cap  BY <1>2, <1>4, CacheAssumption
<1>6. /\ left \in Seq(MailKeys) /\ Len(left) = n - e /\ gone \in Seq(MailKeys) /\ Len(gone) = e
      /\ \A i \in 1 .. n - e : left[i] = all[e + i]
      /\ \A i \in 1 .. e : gone[i] = all[i]
  <2>1. \A i \in 1 .. n : all[i] \in MailKeys  BY <1>2, <1>4, ElementOfSeq
  <2>2. /\ e + 1 \in Int /\ n \in Int /\ e \in Int
        /\ \A i \in e + 1 .. n : i \in 1 .. n
        /\ \A i \in 1 .. e : i \in 1 .. n
    BY <1>5
  <2>3. /\ \A i \in e + 1 .. n : all[i] \in MailKeys
        /\ \A i \in 1 .. e : all[i] \in MailKeys
    BY <2>1, <2>2
  <2>4. /\ left \in Seq(MailKeys)
        /\ Len(left) = IF e + 1 <= n THEN n - (e + 1) + 1 ELSE 0
        /\ \A i \in 1 .. n - (e + 1) + 1 : left[i] = all[e + 1 + i - 1]
    BY <1>3, <2>2, <2>3, SubSeqProperties
  <2>5. /\ gone \in Seq(MailKeys) /\ Len(gone) = IF 1 <= e THEN e - 1 + 1 ELSE 0
        /\ \A i \in 1 .. e - 1 + 1 : gone[i] = all[1 + i - 1]
    BY <1>3, <2>2, <2>3, SubSeqProperties
  <2>6. /\ n - (e + 1) + 1 = n - e /\ e - 1 + 1 = e
        /\ (IF e + 1 <= n THEN n - (e + 1) + 1 ELSE 0) = n - e
        /\ (IF 1 <= e THEN e - 1 + 1 ELSE 0) = e
        /\ \A i \in 1 .. n - e : e + 1 + i - 1 = e + i
        /\ \A i \in 1 .. e : 1 + i - 1 = i
    BY <1>5
  <2> QED BY <2>4, <2>5, <2>6
<1>7. /\ \A a, b \in 1 .. n : all[a] = all[b] => a = b
      /\ \A v : v \in ToSet(all) <=> \E i \in 1 .. n : all[i] = v
  BY <1>2, <1>4 DEF IsInjective, ToSet
<1>8. /\ \A v : v \in ToSet(left) <=> \E i \in 1 .. n - e : left[i] = v
      /\ \A v : v \in ToSet(gone) <=> \E i \in 1 .. e : gone[i] = v
  BY <1>6 DEF ToSet
<1>9. IsInjective(left)
  <2> SUFFICES ASSUME NEW a \in DOMAIN left, NEW b \in DOMAIN left, left[a] = left[b] PROVE a = b
    BY DEF IsInjective
  <2>1. a \in 1 .. n - e /\ b \in 1 .. n - e  BY <1>6
  <2>2. e + a \in 1 .. n /\ e + b \in 1 .. n  BY <1>5, <2>1
  <2>3. all[e + a] = all[e + b]  BY <1>6, <2>1
  <2>4. e + a = e + b  BY <1>7, <2>2, <2>3
  <2> QED BY <1>5, <2>1, <2>4
<1>10. ToSet(left) = ToSet(all) \ ToSet(gone)
  <2>1. ASSUME NEW v, v \in ToSet(left) PROVE v \in ToSet(all) /\ v \notin ToSet(gone)
    <3>1. PICK i \in 1 .. n - e : left[i] = v  BY <1>8, <2>1
    <3>2. e + i \in 1 .. n /\ all[e + i] = v  BY <1>5, <1>6, <3>1
    <3>3. ASSUME NEW j \in 1 .. e, gone[j] = v PROVE FALSE
      <4>1. j \in 1 .. n /\ all[j] = v /\ j # e + i  BY <1>5, <1>6, <3>3
      <4> QED BY <1>7, <3>2, <4>1
    <3> QED BY <1>7, <1>8, <3>2, <3>3
  <2>2. ASSUME NEW v, v \in ToSet(all), v \notin ToSet(gone) PROVE v \in ToSet(left)
    <3>1. PICK i \in 1 .. n : all[i] = v  BY <1>7, <2>2
    <3>2. ~(i <= e)
      <4>1. i <= e => i \in 1 .. e /\ gone[i] = v  BY <1>5, <1>6, <3>1
      <4> QED BY <1>8, <2>2, <4>1
    <3>3. PICK j : j = i - e  OBVIOUS
    <3>4. j \in 1 .. n - e /\ e + j = i  BY <1>5, <3>2, <3>3
    <3> QED BY <1>6, <1>8, <3>1, <3>4
  <2> QED BY <2>1, <2>2
<1>11. order' = left /\ DOMAIN cache' = (DOMAIN cache \cup {key}) \ ToSet(gone)
  BY <1>1, <1>2, <1>3 DEF Put
<1>12. ToSet(left) = DOMAIN cache'  BY <1>4, <1>10, <1>11
<1> QED BY <1>5, <1>6, <1>9, <1>11, <1>12 DEF Tidy

LEMMA ForgetTidy ==
    ASSUME Tidy(order, cache), NEW keys, Forget(keys)
    PROVE  Tidy(order', cache')
<1>1. PICK o : o = Retain(order, keys)  OBVIOUS
<1>2. order \in Seq(MailKeys) /\ IsInjective(order) /\ ToSet(order) = DOMAIN cache /\ Len(order) <= Cap
  BY DEF Tidy
<1>3. o \in Seq(MailKeys) /\ ToSet(o) = ToSet(order) \ keys  BY <1>1, <1>2, RetainType, RetainValues
<1>4. IsInjective(o) /\ Len(o) <= Len(order)  BY <1>1, <1>2, RetainInjects
<1>5. Len(o) \in Nat /\ Len(order) \in Nat /\ Cap \in Nat  BY <1>2, <1>3, CacheAssumption
<1>6. order' = o /\ DOMAIN cache' = DOMAIN cache \ keys  BY <1>1 DEF Forget, Without
<1> QED BY <1>2, <1>3, <1>4, <1>5, <1>6 DEF Tidy

LEMMA RefileTidy ==
    ASSUME TidyInv, NEW k \in MailKeys, NEW g \in Pop, Refile(k, g) PROVE Tidy(order', cache')
<1>1. PICK f, u, key : f = k[1] /\ u = k[2] /\ key = <<g, u>>  OBVIOUS
<1>2. f \in Folders /\ u \in 1 .. MaxUid /\ k = <<f, u>>  BY <1>1, KeyParts
<1>3. f \in Pop /\ g # f /\ u \in rows[f]  BY <1>1 DEF Refile
<1>4. key \in MailKeys  BY <1>1, <1>2 DEF Folders, MailKeys
<1>5. CASE k \notin DOMAIN cache
  <2>1. Forget({k})  BY <1>5 DEF Refile
  <2> QED BY <2>1, ForgetTidy DEF TidyInv
<1>6. CASE k \in DOMAIN cache
  <2>1. PICK o : o = Retain(order, {k})  OBVIOUS
  <2>2. PICK last : last = Append(o, key)  OBVIOUS
  <2>3. order' = last /\ DOMAIN cache' = (DOMAIN cache \ {k}) \cup {key}
    BY <1>1, <1>6, <2>1, <2>2 DEF Refile, Drop
  <2>4. order \in Seq(MailKeys) /\ IsInjective(order) /\ ToSet(order) = DOMAIN cache /\ Len(order) <= Cap
    BY DEF TidyInv, Tidy
  <2>5. key \notin ToSet(order)
    <3>1. StoredAt(f, u)  BY <1>3 DEF StoredAt
    <3>2. StoredAt(g, u) => g = f  BY <1>2, <1>3, <3>1 DEF TidyInv, CacheInv, OnePlace
    <3> QED BY <1>1, <1>3, <3>2 DEF StoredAt
  <2>6. o \in Seq(MailKeys) /\ ToSet(o) = ToSet(order) \ {k}
    BY <2>1, <2>4, RetainType, RetainValues
  <2>7. IsInjective(o) /\ Len(o) < Len(order)
    <3>1. ToSet(order) \cap {k} # {}  BY <1>6, <2>4
    <3> QED BY <2>1, <2>4, <3>1, RetainInjects
  <2>8. /\ last \in Seq(MailKeys) /\ Len(last) = Len(o) + 1 /\ IsInjective(last)
        /\ \A v : v \in ToSet(last) <=> v \in ToSet(o) \/ v = key
    BY <1>4, <2>2, <2>5, <2>6, <2>7, AppendInjects, AppendValues
  <2>9. Len(last) <= Cap
    <3>1. Len(o) \in Nat /\ Len(order) \in Nat /\ Cap \in Nat  BY <2>4, <2>6, CacheAssumption
    <3> QED BY <2>4, <2>7, <2>8, <3>1
  <2>10. ToSet(last) = DOMAIN cache'  BY <2>3, <2>4, <2>6, <2>8
  <2> QED BY <2>3, <2>8, <2>9, <2>10 DEF Tidy
<1> QED BY <1>5, <1>6

LEMMA UidsStay ==
    ASSUME TidyInv, [CacheNext]_cacheVars PROVE UidsOK'
<1>1. DOMAIN rows = Folders /\ next \in Nat \ {0} /\ MaxUid \in Nat
      /\ \A f \in Folders : rows[f] \subseteq 1 .. MaxUid
  BY CacheAssumption DEF TidyInv, CacheInv, FoldersOK, UidsOK
<1>2. ASSUME NEW f \in Folders, NEW uids, rows' = [rows EXCEPT ![f] = uids],
             uids \subseteq 1 .. MaxUid, next' \in {next, next + 1}
      PROVE  UidsOK'
  <2>1. \A g \in Folders : rows'[g] = IF g = f THEN uids ELSE rows[g]  BY <1>1, <1>2
  <2>2. next' # 0  BY <1>1, <1>2
  <2> QED BY <1>1, <1>2, <2>1, <2>2 DEF UidsOK
<1>3. ASSUME NEW k \in MailKeys, Hit(k) \/ Miss(k) PROVE UidsOK'
  BY <1>3 DEF Hit, Miss, TidyInv, UidsOK
<1>4. ASSUME NEW k \in MailKeys, DeleteRow(k) PROVE UidsOK'
  <2>1. k[1] \in Folders  BY KeyParts
  <2>2. rows' = [rows EXCEPT ![k[1]] = rows[k[1]] \ {k[2]}] /\ next' = next
    BY <1>4 DEF DeleteRow
  <2>3. rows[k[1]] \ {k[2]} \subseteq 1 .. MaxUid  BY <1>1, <2>1
  <2> QED BY <1>2, <2>1, <2>2, <2>3
<1>5. ASSUME NEW k \in MailKeys, NEW g \in Pop, Refile(k, g) PROVE UidsOK'
  <2>1. PICK f, u : f = k[1] /\ u = k[2]  OBVIOUS
  <2>2. f \in Folders /\ u \in 1 .. MaxUid /\ g \in Folders  BY <2>1, KeyParts DEF Folders
  <2>3. rows' = [rows EXCEPT ![f] = @ \ {u}, ![g] = @ \cup {u}] /\ next' = next /\ g # f
    BY <1>5, <2>1 DEF Refile
  <2>4. PICK after : after = [rows EXCEPT ![f] = @ \ {u}, ![g] = @ \cup {u}]  OBVIOUS
  <2>5. \A h \in Folders : after[h] = IF h = g THEN rows[g] \cup {u}
                                      ELSE IF h = f THEN rows[f] \ {u} ELSE rows[h]
    BY <1>1, <2>2, <2>3, <2>4
  <2>6. \A h \in Folders : after[h] \subseteq 1 .. MaxUid  BY <1>1, <2>2, <2>5
  <2>7. rows' = after  BY <2>3, <2>4
  <2> QED BY <1>1, <2>3, <2>6, <2>7 DEF UidsOK
<1>6. ASSUME NEW f \in Folders, Sync(f) PROVE UidsOK'
  <2>1. ASSUME NEW new, NEW uids \in SUBSET (1 .. MaxUid),
               SyncReset(f, new, uids) \/ InsertOlder(f, uids, new)
        PROVE  UidsOK'
    BY <1>2, <2>1 DEF SyncReset, InsertOlder
  <2>2. CASE InsertPop(f)
    <3>1. rows' = [rows EXCEPT ![f] = rows[f] \cup {next}] /\ next' = next + 1 /\ next <= MaxUid
      BY <2>2 DEF InsertPop
    <3>2. rows[f] \cup {next} \subseteq 1 .. MaxUid  BY <1>1, <3>1
    <3> QED BY <1>2, <3>1, <3>2
  <2>3. ASSUME NEW u \in 1 .. MaxUid, Insert(f, u) PROVE UidsOK'
    <3>1. rows' = [rows EXCEPT ![f] = rows[f] \cup {u}] /\ next' = next  BY <2>3 DEF Insert
    <3>2. rows[f] \cup {u} \subseteq 1 .. MaxUid  BY <1>1
    <3> QED BY <1>2, <3>1, <3>2
  <2> QED BY <1>6, <2>1, <2>2, <2>3 DEF Sync
<1>7. ASSUME NEW f \in Folders, DropFolder(f) PROVE UidsOK'
  BY <1>2, <1>7 DEF DropFolder
<1>8. CASE ChangeTrust \/ UNCHANGED cacheVars
  BY <1>8 DEF ChangeTrust, cacheVars, TidyInv, UidsOK
<1> QED BY <1>3, <1>4, <1>5, <1>6, <1>7, <1>8 DEF CacheNext

LEMMA TidyStays ==
    ASSUME TidyInv, [CacheNext]_cacheVars PROVE Tidy(order', cache')
<1>1. Tidy(order, cache)  BY DEF TidyInv
<1>2. ASSUME NEW k \in MailKeys, Hit(k) PROVE Tidy(order', cache')
  <2>1. PICK t : t = Touched(order, k)  OBVIOUS
  <2>2. order' = t /\ cache' = cache /\ k \in ToSet(order)  BY <1>1, <1>2, <2>1 DEF Hit, Tidy
  <2>3. /\ t \in Seq(MailKeys) /\ IsInjective(t) /\ Len(t) <= Len(order)
        /\ \A v : v \in ToSet(t) <=> v \in ToSet(order) \/ v = k
    BY <1>1, <2>1, <2>2, TouchedInjects DEF Tidy
  <2>4. Len(t) \in Nat /\ Len(order) \in Nat /\ Cap \in Nat /\ Len(order) <= Cap
    BY <1>1, <2>3, CacheAssumption DEF Tidy
  <2>5. ToSet(t) = DOMAIN cache  BY <1>1, <2>2, <2>3 DEF Tidy
  <2> QED BY <2>2, <2>3, <2>4, <2>5 DEF Tidy
<1>3. ASSUME NEW k \in MailKeys, Miss(k) PROVE Tidy(order', cache')
  BY <1>1, <1>3, PutTidy DEF Miss
<1>4. ASSUME NEW k \in MailKeys, DeleteRow(k) PROVE Tidy(order', cache')
  BY <1>1, <1>4, ForgetTidy DEF DeleteRow
<1>5. ASSUME NEW k \in MailKeys, NEW g \in Pop, Refile(k, g) PROVE Tidy(order', cache')
  BY <1>5, RefileTidy
<1>6. ASSUME NEW f \in Folders, Sync(f) \/ DropFolder(f) PROVE Tidy(order', cache')
  <2>1. ASSUME NEW new, NEW uids, SyncReset(f, new, uids) PROVE Tidy(order', cache')
    BY <1>1, <2>1, ForgetTidy DEF SyncReset
  <2>2. ASSUME UNCHANGED <<order, cache>> PROVE Tidy(order', cache')
    BY <1>1, <2>2
  <2> QED BY <1>6, <2>1, <2>2 DEF Sync, InsertOlder, InsertPop, Insert, DropFolder
<1>7. CASE ChangeTrust
  <2>1. PICK o, c : o = <<>> /\ c = <<>>  OBVIOUS
  <2>2. /\ o \in Seq(MailKeys) /\ Len(o) = 0 /\ DOMAIN o = {} /\ ToSet(o) = {} /\ DOMAIN c = {}
    BY <2>1 DEF ToSet
  <2>3. Tidy(o, c)  BY <2>2, CacheAssumption DEF Tidy, IsInjective
  <2> QED BY <1>7, <2>1, <2>3 DEF ChangeTrust
<1>8. CASE UNCHANGED cacheVars  BY <1>1, <1>8 DEF cacheVars
<1> QED BY <1>2, <1>3, <1>4, <1>5, <1>6, <1>7, <1>8 DEF CacheNext

\* mail_cache and mail_cache_order have the same keys, each once, and never more than the
\* capacity.
THEOREM MapAndOrderAgree == CacheSpec => []CacheTypeOK
<1>1. CacheInit => TidyInv
  <2> SUFFICES ASSUME CacheInit PROVE TidyInv  OBVIOUS
  <2>1. CacheInv  BY CacheInvInit
  <2>2. PICK o, c : o = <<>> /\ c = <<>>  OBVIOUS
  <2>3. /\ o \in Seq(MailKeys) /\ Len(o) = 0 /\ DOMAIN o = {} /\ ToSet(o) = {} /\ DOMAIN c = {}
    BY <2>2 DEF ToSet
  <2>4. Tidy(o, c)  BY <2>3, CacheAssumption DEF Tidy, IsInjective
  <2>5. order = o /\ cache = c /\ UidsOK  BY <2>2 DEF CacheInit, UidsOK
  <2> QED BY <2>1, <2>4, <2>5 DEF TidyInv
<1>2. TidyInv /\ [CacheNext]_cacheVars => TidyInv'
  <2> SUFFICES ASSUME TidyInv, [CacheNext]_cacheVars PROVE TidyInv'  OBVIOUS
  <2>1. CacheInv'  BY CacheInvStep DEF TidyInv
  <2>2. Tidy(order', cache') /\ UidsOK'  BY TidyStays, UidsStay
  <2> QED BY <2>1, <2>2 DEF TidyInv
<1>3. TidyInv => CacheTypeOK
  <2> SUFFICES ASSUME TidyInv PROVE CacheTypeOK  OBVIOUS
  <2>1. \A k \in DOMAIN cache : k \in MailKeys  BY CachedKeys DEF TidyInv, CacheInv
  <2> QED BY <2>1 DEF TidyInv, Tidy, UidsOK, CacheTypeOK
<1> QED BY <1>1, <1>2, <1>3, PTL DEF CacheSpec

-----------------------------------------------------------------------------
(* The requests to the device, and the mail and the contacts of the reader *)

RequestInv == SignInv /\ SigningTypeOK

LEMMA RequestStays == RequestInv /\ [SigningNext]_signingVars => RequestInv'
<1> SUFFICES ASSUME RequestInv, [SigningNext]_signingVars PROVE SigningTypeOK'
  BY SignSafe DEF RequestInv
<1>1. SigningTypeOK /\ "none" \notin Messages /\ MaxRequests \in Nat
  BY LedgerAssumption DEF RequestInv
<1>2. ASSUME NEW m \in Messages, NEW flushed, Request(m, flushed) PROVE SigningTypeOK'
  BY <1>1, <1>2, FewChunks DEF Request, SigningTypeOK, deviceVars
<1>3. CASE WriteApdu  BY <1>1, <1>3 DEF WriteApdu, SigningTypeOK
<1>4. CASE ReadPart
  BY <1>1, <1>4 DEF ReadPart, SigningTypeOK, deviceVars
<1>5. ASSUME GiveUp, UNCHANGED <<requests, plugged>> PROVE SigningTypeOK'
  BY <1>1, <1>5 DEF GiveUp, SigningTypeOK
<1>6. CASE ReadLast
  <2>1. UNCHANGED <<requests, plugged>>  BY <1>6 DEF ReadLast, deviceVars
  <2>2. \/ GiveUp
        \/ waiting /\ chunks # <<>> /\ waiting' = FALSE /\ UNCHANGED <<asked, chunks>>
    BY <1>6 DEF ReadLast
  <2>3. CASE waiting /\ chunks # <<>> /\ waiting' = FALSE /\ UNCHANGED <<asked, chunks>>
    BY <1>1, <2>1, <2>3 DEF SigningTypeOK
  <2> QED BY <1>5, <2>1, <2>2, <2>3
<1>7. CASE ReadTimeout  BY <1>5, <1>7 DEF ReadTimeout, deviceVars
<1>8. ASSUME NEW d \in Devices, Replug(d) PROVE SigningTypeOK'
  BY <1>1, <1>8 DEF Replug, GiveUp, SigningTypeOK
<1>9. CASE HandleApdu \/ Confirm \/ Reject \/ SendPacket \/ NoMoreRequests \/ UNCHANGED signingVars
  <2>1. UNCHANGED <<asked, chunks, packets, waiting, requests, plugged>>
    BY <1>9 DEF HandleApdu, Confirm, Reject, SendPacket, NoMoreRequests, signingVars, hostVars,
                deviceVars
  <2> QED BY <1>1, <2>1 DEF SigningTypeOK
<1> QED BY <1>2, <1>3, <1>4, <1>6, <1>7, <1>8, <1>9 DEF SigningNext, Application

\* SigningTypeOK for any messages, sizes and devices: the application waits only for an
\* APDU it has written, one at a time, and what it goes on with has something left to
\* write (ledger.rs, exchange_signing).
THEOREM OneApduAtATime == SigningSpec => []SigningTypeOK
<1>1. SigningInit => RequestInv
  <2> SUFFICES ASSUME SigningInit PROVE SigningTypeOK  BY SignInit DEF RequestInv
  <2> QED BY LedgerAssumption DEF SigningInit, SigningTypeOK
<1>2. RequestInv => SigningTypeOK  BY DEF RequestInv
<1> QED BY <1>1, <1>2, RequestStays, PTL DEF SigningSpec

-----------------------------------------------------------------------------
\* What is left of a list with one contact per address.
LEMMA RetainOnePerAddress ==
    ASSUME NEW s \in Seq(Contact), OnePerAddress(s), NEW gone, NEW t, t = Retain(s, gone)
    PROVE  OnePerAddress(t) /\ t \in Seq(Contact)
<1>1. IsInjective(s)  BY DEF OnePerAddress, IsInjective
<1>2. t \in Seq(Contact) /\ ToSet(t) = ToSet(s) \ gone  BY RetainType, RetainValues
<1>3. IsInjective(t)  BY <1>1, RetainInjects
<1>4. ASSUME NEW i \in DOMAIN t, NEW j \in DOMAIN t, t[i].email = t[j].email PROVE i = j
  <2>1. t[i] \in ToSet(s) /\ t[j] \in ToSet(s)  BY <1>2 DEF ToSet
  <2>2. PICK a \in DOMAIN s, b \in DOMAIN s : s[a] = t[i] /\ s[b] = t[j]  BY <2>1 DEF ToSet
  <2>3. a = b  BY <1>4, <2>2 DEF OnePerAddress
  <2>4. t[i] = t[j]  BY <2>2, <2>3
  <2> QED BY <1>3, <2>4 DEF IsInjective
<1> QED BY <1>2, <1>4 DEF OnePerAddress

LEMMA OthersLeave ==
    ASSUME SealInv, OnePerAddress(trusted), NEW email, NEW t, t = Others(email)
    PROVE  /\ t \in Seq(Contact) /\ OnePerAddress(t)
           /\ \A i \in DOMAIN t : t[i].email # email
<1>1. PICK gone : gone = {trusted[i] : i \in EntriesOf(trusted, email)}  OBVIOUS
<1>2. t = Retain(trusted, gone) /\ trusted \in Seq(Contact)  BY <1>1 DEF Others, SealInv
<1>3. t \in Seq(Contact) /\ OnePerAddress(t)  BY <1>2, RetainOnePerAddress
<1>4. ToSet(t) = ToSet(trusted) \ gone  BY <1>2, RetainValues
<1>5. ASSUME NEW i \in DOMAIN t, t[i].email = email PROVE FALSE
  <2>1. t[i] \in ToSet(trusted) /\ t[i] \notin gone  BY <1>4 DEF ToSet
  <2>2. PICK a \in DOMAIN trusted : trusted[a] = t[i]  BY <2>1 DEF ToSet
  <2>3. a \in EntriesOf(trusted, email)  BY <1>5, <2>2 DEF EntriesOf
  <2> QED BY <1>1, <2>1, <2>2, <2>3
<1> QED BY <1>3, <1>5

\* Every part of the mail comes from somewhere.
Sourced(m) ==
    /\ \A f \in DOMAIN m \ {"seal"} : m[f] \in Values(f)
    /\ \A h \in Headers : m.seal[h] \in {s.mail.seal[h] : s \in outgoing} \cup {Missing}

ReaderInv == SealInv /\ SealTypeOK

\* More mails are sent, or none.
LEMMA StillSourced ==
    ASSUME outgoing \subseteq outgoing', NEW m, Sourced(m) PROVE Sourced(m)'
<1>1. \A f : Values(f) \subseteq Values(f)'  BY DEF Values
<1> QED BY <1>1 DEF Sourced

LEMMA IdentityReads ==
    ASSUME ReaderInv, Identity PROVE SealTypeOK'
<1>1. /\ UNCHANGED <<outgoing, inbox, edits>> /\ ops < MaxOps /\ ops' = ops + 1
      /\ SealTypeOK /\ SealInv
      /\ {MaxOps, MaxDay} \subseteq Nat
  BY SealedAssumption DEF Identity, BindLedger, UseLocalKey, TrustSender, RemoveTrusted, DayPasses,
                          Command, ReaderInv
<1>2. ops' \in 0 .. MaxOps  BY <1>1 DEF SealTypeOK
<1>3. inbox' # Missing => Sourced(inbox)'
  BY <1>1 DEF SealTypeOK, Sourced, Values
<1>4. ASSUME mode' \in [People -> Modes], trusted' \in Seq(Contact), OnePerAddress(trusted'),
             today' \in 0 .. MaxDay
      PROVE  SealTypeOK'
  BY <1>1, <1>2, <1>3, <1>4 DEF SealTypeOK, Sourced, OnePerAddress
<1>5. ASSUME NEW p \in People, BindLedger(p) \/ UseLocalKey(p) PROVE SealTypeOK'
  <2>1. mode' \in [People -> Modes] /\ UNCHANGED <<trusted, today>>
    BY <1>1, <1>5 DEF BindLedger, UseLocalKey, SealTypeOK, Modes
  <2> QED BY <1>1, <1>4, <2>1 DEF SealTypeOK
<1>6. ASSUME NEW c \in Contacts, TrustSender(c) PROVE SealTypeOK'
  <2>1. PICK o : o = Others(c.email)  OBVIOUS
  <2>2. /\ o \in Seq(Contact) /\ OnePerAddress(o) /\ \A i \in DOMAIN o : o[i].email # c.email
    BY <1>1, <2>1, OthersLeave DEF SealTypeOK
  <2>3. c \in Contact  BY SealedAssumption
  <2>4. trusted' = Append(o, c) /\ UNCHANGED <<mode, today>>  BY <1>6, <2>1 DEF TrustSender
  <2>5. PICK t : t = Append(o, c)  OBVIOUS
  <2>6. /\ t \in Seq(Contact) /\ Len(o) \in Nat /\ DOMAIN t = 1 .. Len(o) + 1
        /\ DOMAIN o = 1 .. Len(o) /\ t[Len(o) + 1] = c /\ \A i \in DOMAIN o : t[i] = o[i]
    BY <2>2, <2>3, <2>5
  <2>7. \A i \in DOMAIN t : i \in DOMAIN o \/ i = Len(o) + 1  BY <2>6
  <2>8. OnePerAddress(t)
    <3> SUFFICES ASSUME NEW i \in DOMAIN t, NEW j \in DOMAIN t, t[i].email = t[j].email PROVE i = j
      BY DEF OnePerAddress
    <3>1. CASE i \in DOMAIN o /\ j \in DOMAIN o
      <4>1. o[i].email = o[j].email  BY <2>6, <3>1
      <4> QED BY <2>2, <3>1, <4>1 DEF OnePerAddress
    <3>2. CASE ~(i \in DOMAIN o /\ j \in DOMAIN o)
      BY <2>2, <2>6, <2>7, <3>2
    <3> QED BY <3>1, <3>2
  <2> QED BY <1>1, <1>4, <2>4, <2>5, <2>6, <2>8 DEF SealTypeOK
<1>7. ASSUME NEW e \in People, RemoveTrusted(e) PROVE SealTypeOK'
  <2>1. PICK o : o = Others(e)  OBVIOUS
  <2>2. o \in Seq(Contact) /\ OnePerAddress(o)  BY <1>1, <2>1, OthersLeave DEF SealTypeOK
  <2>3. trusted' = o /\ UNCHANGED <<mode, today>>  BY <1>7, <2>1 DEF RemoveTrusted
  <2> QED BY <1>1, <1>4, <2>2, <2>3 DEF SealTypeOK
<1>8. ASSUME DayPasses PROVE SealTypeOK'
  <2>1. today' \in 0 .. MaxDay /\ UNCHANGED <<mode, trusted>>
    BY <1>1, <1>8 DEF DayPasses, SealTypeOK
  <2> QED BY <1>1, <1>4, <2>1 DEF SealTypeOK
<1> QED BY <1>5, <1>6, <1>7, <1>8 DEF Identity

LEMMA SendReads ==
    ASSUME ReaderInv, Send PROVE SealTypeOK'
<1>1. PICK s : outgoing' = outgoing \cup {s}
  BY DEF Send, SendSigned, SendUnsigned, SendLegacy
<1>2. /\ UNCHANGED <<mode, trusted, today, inbox, edits, ops>>
      /\ Cardinality(outgoing) < MaxSent /\ inbox = Missing
      /\ SealTypeOK /\ IsFiniteSet(outgoing) /\ MaxSent \in Nat
  BY SealedAssumption DEF Send, SendSigned, SendUnsigned, SendLegacy, ReaderInv, SealInv
<1>3. Cardinality(outgoing') <= MaxSent
  <2>1. Cardinality(outgoing) \in Nat  BY <1>2, FS_CardinalityType
  <2>2. \/ Cardinality(outgoing') = Cardinality(outgoing)
        \/ Cardinality(outgoing') = Cardinality(outgoing) + 1
    BY <1>1, <1>2, FS_AddElement
  <2> QED BY <1>2, <2>1, <2>2
<1> QED BY <1>2, <1>3 DEF SealTypeOK, OnePerAddress

LEMMA TransportReads ==
    ASSUME ReaderInv, Transport PROVE SealTypeOK'
<1>1. /\ UNCHANGED <<mode, trusted, today, outgoing, ops>> /\ SealTypeOK /\ SealInv
      /\ MaxEdits \in Nat
  BY SealedAssumption DEF Transport, Deliver, Delete, ChangePart, LoseHeader, TakeSeal, ReaderInv
<1>2. edits' \in 0 .. MaxEdits
  BY <1>1 DEF Transport, Deliver, Delete, ChangePart, LoseHeader, TakeSeal, OnTheWay, SealTypeOK
<1>3. ASSUME NEW m, inbox' = m, m = Missing \/ Sourced(m) PROVE SealTypeOK'
  <2>1. m # Missing => Sourced(m)'  BY <1>1, <1>3, StillSourced
  <2> QED BY <1>1, <1>2, <1>3, <2>1 DEF SealTypeOK, OnePerAddress, Sourced
<1>4. ASSUME inbox # Missing PROVE Arrives(inbox) /\ Sourced(inbox)
  BY <1>1, <1>4 DEF SealInv, SealTypeOK, Sourced
<1>5. ASSUME NEW s \in outgoing, Deliver(s) PROVE SealTypeOK'
  <2>1. Sourced(s.mail)  BY DEF Sourced, Values
  <2> QED BY <1>3, <1>5, <2>1 DEF Deliver
<1>6. ASSUME NEW s \in outgoing, TakeSeal(s) PROVE SealTypeOK'
  <2>1. Arrives(inbox) /\ Sourced(inbox)  BY <1>4, <1>6 DEF TakeSeal, OnTheWay
  <2>2. PICK m : m = [inbox EXCEPT !.seal = s.mail.seal]  OBVIOUS
  <2>3. /\ DOMAIN m = DOMAIN inbox /\ m.seal = s.mail.seal
        /\ \A f \in DOMAIN m \ {"seal"} : m[f] = inbox[f]
    BY <2>1, <2>2 DEF Arrives, MailParts
  <2>4. Sourced(m)  BY <2>1, <2>3 DEF Sourced
  <2> QED BY <1>3, <1>6, <2>2, <2>4 DEF TakeSeal
<1>7. ASSUME Delete PROVE SealTypeOK'  BY <1>3, <1>7 DEF Delete
<1>8. ASSUME NEW e \in Edits, ChangePart(e) PROVE SealTypeOK'
  <2>1. Arrives(inbox) /\ Sourced(inbox)  BY <1>4, <1>8 DEF ChangePart, OnTheWay
  <2>2. PICK p, v : p = e[1] /\ v = e[2]  OBVIOUS
  <2>3. p # "seal" /\ v \in Values(p)  BY <2>2, SealedAssumption DEF Values, Fields
  <2>4. PICK m : m = [inbox EXCEPT ![p] = v]  OBVIOUS
  <2>5. /\ DOMAIN m = DOMAIN inbox /\ m.seal = inbox.seal
        /\ \A f \in DOMAIN m : m[f] = inbox[f] \/ (f = p /\ m[f] = v)
    BY <2>1, <2>3, <2>4 DEF Arrives, MailParts
  <2>6. Sourced(m)  BY <2>1, <2>3, <2>5 DEF Sourced
  <2> QED BY <1>3, <1>8, <2>2, <2>4, <2>6 DEF ChangePart
<1>9. ASSUME NEW h \in Headers, LoseHeader(h) PROVE SealTypeOK'
  <2>1. Arrives(inbox) /\ Sourced(inbox)  BY <1>4, <1>9 DEF LoseHeader, OnTheWay
  <2>2. PICK q : q = [inbox.seal EXCEPT ![h] = Missing]  OBVIOUS
  <2>3. PICK m : m = [inbox EXCEPT !.seal = q]  OBVIOUS
  <2>4. \A x \in Headers : q[x] = inbox.seal[x] \/ q[x] = Missing  BY <2>1, <2>2 DEF Arrives
  <2>5. /\ DOMAIN m = DOMAIN inbox /\ m.seal = q
        /\ \A f \in DOMAIN m \ {"seal"} : m[f] = inbox[f]
    BY <2>1, <2>3 DEF Arrives, MailParts
  <2>6. Sourced(m)  BY <2>1, <2>4, <2>5 DEF Sourced
  <2>7. inbox' = m  BY <1>9, <2>2, <2>3 DEF LoseHeader
  <2> QED BY <1>3, <2>6, <2>7
<1> QED BY <1>5, <1>6, <1>7, <1>8, <1>9 DEF Transport

(***************************************************************************)
(* SealTypeOK for any people, drafts, gateways and lists of contacts: a    *)
(* contact never has two keys (core.rs, trust_sender), and what the reader *)
(* has in front of him comes from mails that were sent and from gateways.  *)
(***************************************************************************)
THEOREM OneKeyPerContact == SealSpec => []SealTypeOK
<1>1. SealInit => ReaderInv
  <2> SUFFICES ASSUME SealInit PROVE ReaderInv  OBVIOUS
  <2>1. SealInv  BY SealInvInit
  <2>2. OnePerAddress(trusted) /\ {MaxSent, MaxEdits, MaxOps, MaxDay} \subseteq Nat
    BY SealedAssumption DEF SealInit
  <2>3. Cardinality({}) = 0  BY FS_EmptySet
  <2>4. SealTypeOK  BY <2>1, <2>2, <2>3 DEF SealInv, SealInit, SealTypeOK
  <2> QED BY <2>1, <2>4 DEF ReaderInv
<1>2. ReaderInv /\ [SealNext]_sealVars => ReaderInv'
  <2> SUFFICES ASSUME ReaderInv, [SealNext]_sealVars PROVE ReaderInv'  OBVIOUS
  <2>1. SealInv'  BY SealInvStep DEF ReaderInv
  <2>2. UNCHANGED sealVars => SealTypeOK'
    BY DEF sealVars, ReaderInv, SealTypeOK, OnePerAddress, Values
  <2>3. SealTypeOK'  BY <2>2, IdentityReads, SendReads, TransportReads DEF SealNext
  <2> QED BY <2>1, <2>3 DEF ReaderInv
<1>3. ReaderInv => SealTypeOK  BY DEF ReaderInv
<1> QED BY <1>1, <1>2, <1>3, PTL DEF SealSpec

-----------------------------------------------------------------------------
(* The parts together.                                                     *)

\* A behaviour of MCParts is one of each module: what is proved of them holds there.
THEOREM PartsKeepTheirSpecs ==
    PartsSpec => Spec /\ ConfigSpec /\ SealSpec /\ SigningSpec /\ CacheSpec
<1>1. PartsInit => Init /\ ConfigInit /\ SealInit /\ SigningInit /\ CacheInit  BY DEF PartsInit
<1>2. [PartsNext]_partsVars =>
          /\ [Next]_vars /\ [ConfigNext]_configVars
          /\ [SealNext]_sealVars /\ [SigningNext]_signingVars /\ [CacheNext]_cacheVars
  BY DEF PartsNext, SecretsNext, TablesNext, MailNext, DeviceNext, ReadNext, partsVars
<1> QED BY <1>1, <1>2, PTL DEF PartsSpec, Spec, ConfigSpec, SealSpec, SigningSpec, CacheSpec

\* The types of the parts, the ids of the tables, the keys of the contacts, the requests
\* of the device and the map and order of the cache (PartsTypeOK).
THEOREM PartsTypes == PartsSpec => []PartsTypeOK
<1>1. Spec => []TypeOK  BY TypeCorrect
<1>2. ConfigSpec => []ConfigTypeOK  BY ConfigTypes
<1> QED BY <1>1, <1>2, PartsKeepTheirSpecs, OneKeyPerContact, OneApduAtATime, MapAndOrderAgree, PTL
        DEF PartsTypeOK

=============================================================================
