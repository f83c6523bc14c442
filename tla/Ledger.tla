------------------------------- MODULE Ledger -------------------------------
(***************************************************************************)
(* Signing with a Ledger device.  A request goes to the device as one or   *)
(* more APDUs, each cut into HID packets; the application reads packets    *)
(* until they make a whole answer, or gives up when none comes for a       *)
(* minute.  The device goes on: an answer nobody waits for any more is     *)
(* still in the packet queue when the next request reads it.               *)
(*                                                                         *)
(* Packets and APDUs are shorter here, and a byte of a message or of a     *)
(* signature is a pair that tells where it comes from.  The device is      *)
(* modelled from how the code talks to it.                                 *)
(***************************************************************************)
EXTENDS Integers, Sequences

CONSTANTS
    Messages,       \* canonical strings to sign
    Size,           \* their length
    PathLen,        \* length of the encoded derivation path
    MaxApduData,    \* MAX_APDU_DATA, 255
    FirstRoom, NextRoom,    \* bytes an HID packet carries: 57 in the first, 59 in the next
    SignatureLen,   \* v, r and s: 65 bytes
    BoundAccount, Devices,  \* the bound account, and the accounts of devices that may be plugged in
    MaxRequests     \* bound: requests to sign

ASSUME LedgerAssumption ==
    /\ "none" \notin Messages
    /\ \A m \in Messages : Size[m] \in Nat \ {0}
    /\ PathLen \in Nat /\ MaxApduData \in Nat /\ PathLen < MaxApduData
    /\ {FirstRoom, NextRoom, SignatureLen} \subseteq Nat \ {0}
    /\ BoundAccount \in Devices /\ MaxRequests \in Nat

VARIABLES
    asked,          \* the message being signed, "none" between requests
    chunks,         \* data of the APDUs still to send
    first,          \* the next APDU is the first one: P1 = 0x00
    packets,        \* packets read for the APDU that was sent last
    waiting,        \* the application waits for an answer
    hid,            \* packets the device has sent and nobody has read
    plugged,        \* account of the device that is plugged in
    received, buffer,   \* the device: APDUs to handle, data collected so far
    shown,          \* what it asks its owner to confirm, <<>> for nothing
    outbox,         \* packets of its answers still to send
    signed,         \* signatures taken for good since the last request: [asked, account, of]
    requests        \* bound

hostVars == <<asked, chunks, first, packets, waiting, signed, requests>>
deviceVars == <<plugged, received, buffer, shown, outbox>>
signingVars == <<hostVars, hid, deviceVars>>

Ceil(a, b) == (a + b - 1) \div b
Shorter(a, b) == IF a < b THEN a ELSE b

-----------------------------------------------------------------------------
(* Encodings.                                                              *)

Bytes(m) == [i \in 1 .. Size[m] |-> <<m, i>>]
Path == [i \in 1 .. PathLen |-> "path"]
Ok == <<"sw", 0>>
Denied == <<"sw", 1>>
Signature(account, text) == [i \in 1 .. SignatureLen |-> <<account, text, i>>]

\* Where the packets begin in what they carry, and which of them has byte i.
Room(k) == IF k = 1 THEN FirstRoom ELSE NextRoom
Offset(k) == IF k = 1 THEN 0 ELSE FirstRoom + (k - 2) * NextRoom
PacketOf(i) == IF i <= FirstRoom THEN 1 ELSE 2 + (i - FirstRoom - 1) \div NextRoom

\* frame: the first packet tells the length; the last one is filled up.
PacketsFor(len) == 1 + (IF len <= FirstRoom THEN 0 ELSE Ceil(len - FirstRoom, NextRoom))
Frame(apdu) ==
    [k \in 1 .. PacketsFor(Len(apdu)) |->
        [seq |-> k - 1, total |-> IF k = 1 THEN Len(apdu) ELSE 0,
         data |-> [i \in 1 .. Room(k) |->
                     IF Offset(k) + i <= Len(apdu) THEN apdu[Offset(k) + i] ELSE "fill"]]]

\* deframe: packets in order, until the length of the first is reached.
Whole(pkts) ==
    /\ pkts # <<>>
    /\ PacketsFor(pkts[1].total) <= Len(pkts)
    /\ \A i \in 1 .. PacketsFor(pkts[1].total) : pkts[i].seq = i - 1
Deframe(pkts) ==
    [i \in 1 .. pkts[1].total |-> pkts[PacketOf(i)].data[i - Offset(PacketOf(i))]]

\* exchange_signing: the first APDU starts with the path, the others are payload.
Tail0(m) == <<Size[m]>> \o Bytes(m)
Chunks(m) ==
    LET tail == Tail0(m)
        firstTail == Shorter(MaxApduData - PathLen, Len(tail))
    IN  [k \in 1 .. 1 + Ceil(Len(tail) - firstTail, MaxApduData) |->
            IF k = 1 THEN Path \o SubSeq(tail, 1, firstTail)
            ELSE LET off == firstTail + (k - 2) * MaxApduData
                 IN  SubSeq(tail, off + 1, Shorter(off + MaxApduData, Len(tail)))]

\* Mutant: what has the length of a signature is one.
RecoversAny(answer, m) == Len(answer) >= SignatureLen

\* parse_signature_rsv and the check of sign_email_eth: the signature is of the
\* bound account and of this message.
Recovers(answer, m) ==
    /\ Len(answer) >= SignatureLen
    /\ SubSeq(answer, 1, SignatureLen) = Signature(BoundAccount, Bytes(m))

-----------------------------------------------------------------------------
(* The application.                                                        *)

SigningInit ==
    /\ asked = "none" /\ chunks = <<>> /\ first = FALSE /\ packets = <<>> /\ waiting = FALSE
    /\ hid = <<>> /\ plugged = BoundAccount
    /\ received = <<>> /\ buffer = <<>> /\ shown = <<>> /\ outbox = <<>>
    /\ signed = {} /\ requests = 0

\* sign_personal_message: open_ledger may or may not throw away what was queued.
Request(m, flushed) ==
    /\ asked = "none" /\ requests < MaxRequests
    /\ asked' = m /\ chunks' = Chunks(m) /\ first' = TRUE
    /\ hid' = IF flushed THEN <<>> ELSE hid
    /\ signed' = {}
    /\ requests' = requests + 1
    /\ UNCHANGED <<packets, waiting, deviceVars>>

\* Mutant: every APDU continues a message.
WriteApduContinued ==
    /\ asked # "none" /\ ~waiting
    /\ received' = Append(received, [p1 |-> 128, frames |-> Frame(Head(chunks))])
    /\ chunks' = Tail(chunks) /\ first' = FALSE
    /\ packets' = <<>> /\ waiting' = TRUE
    /\ UNCHANGED <<asked, signed, requests, hid, plugged, buffer, shown, outbox>>

\* exchange: one APDU is written, all its packets at once.
WriteApdu ==
    /\ asked # "none" /\ ~waiting
    /\ received' = Append(received, [p1 |-> IF first THEN 0 ELSE 128, frames |-> Frame(Head(chunks))])
    /\ chunks' = Tail(chunks) /\ first' = FALSE
    /\ packets' = <<>> /\ waiting' = TRUE
    /\ UNCHANGED <<asked, signed, requests, hid, plugged, buffer, shown, outbox>>

GiveUp ==
    /\ asked' = "none" /\ chunks' = <<>> /\ first' = FALSE /\ packets' = <<>> /\ waiting' = FALSE

\* An answer that is not whole yet: read on.
ReadPart ==
    /\ waiting /\ hid # <<>>
    /\ ~Whole(Append(packets, Head(hid)))
    /\ packets' = Append(packets, Head(hid))
    /\ hid' = Tail(hid)
    /\ UNCHANGED <<asked, chunks, first, waiting, signed, requests, deviceVars>>

\* A whole answer: the next APDU, or the signature, which is used when it recovers
\* the bound address.
ReadLast ==
    /\ waiting /\ hid # <<>>
    /\ Whole(Append(packets, Head(hid)))
    /\ hid' = Tail(hid)
    /\ LET answer == Deframe(Append(packets, Head(hid)))
           data == SubSeq(answer, 1, Len(answer) - 1)
       IN  IF answer = <<>> \/ answer[Len(answer)] # Ok
           THEN GiveUp /\ UNCHANGED signed
           ELSE IF chunks # <<>>
           THEN /\ packets' = <<>> /\ waiting' = FALSE
                /\ UNCHANGED <<asked, chunks, first, signed>>
           ELSE /\ signed' = IF Recovers(data, asked)
                             THEN {[asked |-> asked, account |-> data[1][1], of |-> data[1][2]]}
                             ELSE {}
                /\ GiveUp
    /\ UNCHANGED <<requests, deviceVars>>

\* read_timeout: nothing to read for a minute.
ReadTimeout ==
    /\ waiting /\ hid = <<>>
    /\ GiveUp
    /\ UNCHANGED <<signed, requests, hid, deviceVars>>

-----------------------------------------------------------------------------
(* The device and its owner.                                               *)

\* The length that comes after the path, and what is there of the message.
Expected(data) == data[PathLen + 1]
TextOf(data) == SubSeq(data, PathLen + 2, Len(data))

\* P1 = 0x00 starts a message; when it is complete the owner is asked.
HandleApdu ==
    /\ received # <<>> /\ shown = <<>>
    /\ LET apdu == Head(received)
           data == Deframe(apdu.frames)
           all == IF apdu.p1 = 0 THEN data ELSE buffer \o data
           complete == Len(all) > PathLen /\ Len(TextOf(all)) >= Expected(all)
       IN  /\ buffer' = IF complete THEN <<>> ELSE all
           /\ shown' = IF complete THEN TextOf(all) ELSE <<>>
           /\ outbox' = IF complete THEN outbox ELSE outbox \o Frame(<<Ok>>)
    /\ received' = Tail(received)
    /\ UNCHANGED <<plugged, hid, hostVars>>

Confirm ==
    /\ shown # <<>>
    /\ outbox' = outbox \o Frame(Append(Signature(plugged, shown), Ok))
    /\ shown' = <<>>
    /\ UNCHANGED <<plugged, received, buffer, hid, hostVars>>

Reject ==
    /\ shown # <<>>
    /\ outbox' = outbox \o Frame(<<Denied>>)
    /\ shown' = <<>>
    /\ UNCHANGED <<plugged, received, buffer, hid, hostVars>>

SendPacket ==
    /\ outbox # <<>>
    /\ hid' = Append(hid, Head(outbox))
    /\ outbox' = Tail(outbox)
    /\ UNCHANGED <<plugged, received, buffer, shown, hostVars>>

\* The device is taken out, or another one put in; the read in progress fails.
Replug(d) ==
    /\ requests < MaxRequests
    /\ plugged' = d
    /\ received' = <<>> /\ buffer' = <<>> /\ shown' = <<>> /\ outbox' = <<>> /\ hid' = <<>>
    /\ GiveUp
    /\ UNCHANGED <<signed, requests>>

\* This instance has no more requests.
NoMoreRequests == asked = "none" /\ requests = MaxRequests /\ UNCHANGED signingVars

Application ==
    \/ \E m \in Messages, flushed \in BOOLEAN : Request(m, flushed)
    \/ WriteApdu \/ ReadPart \/ ReadLast \/ ReadTimeout \/ NoMoreRequests

SigningNext == Application \/ (\E d \in Devices : Replug(d)) \/ HandleApdu \/ Confirm \/ Reject \/ SendPacket
SigningSpec == SigningInit /\ [][SigningNext]_signingVars

-----------------------------------------------------------------------------
(* Properties.                                                             *)

\* The application reads only after it has written, at most one answer at a time,
\* and the device collects less than one message.
SigningTypeOK ==
    /\ asked \in Messages \cup {"none"} /\ requests \in 0 .. MaxRequests
    /\ waiting => asked # "none"
    /\ asked # "none" /\ ~waiting => chunks # <<>>
    /\ asked = "none" => chunks = <<>> /\ packets = <<>> /\ ~waiting
    /\ plugged \in Devices

\* sign_email_eth (crypto.rs:334): a signature that is used is of the message that
\* was to be signed, by the bound account, even when the answer that was read
\* belongs to an earlier request.
UsedSignatureIsOfTheMail ==
    \A s \in signed : s.of = Bytes(s.asked) /\ s.account = BoundAccount

\* exchange_signing (ledger.rs:256): what the device shows its owner is one message
\* as the application was asked to sign it, not a part of it or a mixture of two
\* requests, whatever was given up in between.
OwnerSeesWholeMessage ==
    shown # <<>> => \E m \in Messages : shown = Bytes(m)
=============================================================================
