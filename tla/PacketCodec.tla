---------------------------- MODULE PacketCodec ----------------------------
(***************************************************************************)
(* packet.py: Packet.pack and Packet.unpack, and the same of groups G12, 3 *)
(* and 2, with one datagram on its way from the one to the other through   *)
(* link_sim.                                                               *)
(*                                                                         *)
(* The layout is that of the code, with narrower fields: a datagram is a   *)
(* sequence of bytes, the first line (type, window, length, seqnum) a      *)
(* big-endian number of LineBytes bytes, then the timestamp and CRC1, then *)
(* the payload and CRC2 if there is a payload.                             *)
(***************************************************************************)
EXTENDS Integers, Sequences, SequencesExt

CONSTANTS
    ByteMod,            \* values of a byte (256 in the code)
    WindowMod, LengthMod, SeqnumMod,    \* values of these fields (64, 8192, 2048)
    LineBytes, StampBytes, CrcBytes,    \* bytes of these fields (4, 4, 4)
    MaxPayload,         \* longest payload (1024)
    Crc(_),             \* zlib.crc32, as a number of CrcBytes bytes
    PayloadBytes, Stamps    \* bounds: the bytes and timestamps of this instance

TypeMod == 4
Byte == 0 .. ByteMod - 1

\* How many values k bytes have.
Values[k \in Nat] == IF k = 0 THEN 1 ELSE ByteMod * Values[k - 1]

ASSUME LayoutAssumption ==
    /\ ByteMod \in Nat \ {0} /\ ByteMod % 2 = 0
    /\ WindowMod \in Nat /\ LengthMod \in Nat /\ SeqnumMod \in Nat
    /\ LineBytes \in Nat /\ StampBytes \in Nat /\ CrcBytes \in Nat /\ MaxPayload \in Nat
    /\ TypeMod * WindowMod * LengthMod * SeqnumMod = Values[LineBytes]
    /\ MaxPayload < LengthMod
    /\ PayloadBytes \subseteq Byte /\ Stamps \subseteq 0 .. Values[StampBytes] - 1

\* A CRC at least as wide as a byte sees any change of a single byte.
ASSUME CrcAssumption ==
    \A n \in {LineBytes + StampBytes} \cup 1 .. LengthMod - 1 :
      \A s \in [1 .. n -> Byte] :
        /\ Crc(s) \in 0 .. Values[CrcBytes] - 1
        /\ \A i \in 1 .. n : \A b \in Byte \ {s[i]} : Crc([s EXCEPT ![i] = b]) # Crc(s)

VARIABLES
    pkt,        \* the Packet object of the sender
    sender,     \* "group", or "other" for a program that is not one of theirs
    wire,       \* the datagram
    damage,     \* what the link did to it: none, inverted, cut
    pc,         \* built, sent, raised, received
    reader,     \* whose decoder has read it
    got         \* what it returned, None or a Packet

vars == <<pkt, sender, wire, damage, pc, reader, got>>

None == [type |-> 0]

-----------------------------------------------------------------------------
\* The big-endian bytes of a number, and back.
BytesOf(n, k) == [i \in 1 .. k |-> (n \div Values[k - i]) % ByteMod]
NumberOf(bytes) ==
    LET upTo[i \in 0 .. Len(bytes)] == IF i = 0 THEN 0 ELSE upTo[i - 1] * ByteMod + bytes[i]
    IN  upTo[Len(bytes)]

HeaderBytes == LineBytes + StampBytes
MinPacket == HeaderBytes + CrcBytes

WithCrc(bytes) == bytes \o BytesOf(Crc(bytes), CrcBytes)

\* Mutant of Line: length and seqnum in the other order.
LineSwapped(p) ==
    ((p.type * WindowMod + p.window) * SeqnumMod + p.seqnum) * LengthMod + Len(p.payload)

Line(p) ==
    ((p.type * WindowMod + p.window) * LengthMod + Len(p.payload)) * SeqnumMod + p.seqnum

\* The other groups shift the fields into place.
Shifted(p) ==
    p.type * (WindowMod * LengthMod * SeqnumMod) + p.window * (LengthMod * SeqnumMod)
      + Len(p.payload) * SeqnumMod + p.seqnum

Datagram(line, p) ==
    WithCrc(BytesOf(line, LineBytes) \o BytesOf(p.timestamp, StampBytes))
      \o IF p.payload = <<>> THEN <<>> ELSE WithCrc(p.payload)

\* The datagram of p, once its fields are known to fit.
Encoded(p) == Datagram(Line(p), p)

\* What pack does not raise ValueError for.
Valid(p) ==
    /\ p.type \in 1 .. 3
    /\ p.window \in 0 .. WindowMod - 1
    /\ Len(p.payload) <= MaxPayload
    /\ p.seqnum \in 0 .. SeqnumMod - 1

\* The fields unpack reads from a datagram that is not too short.
TypeIn(d) == NumberOf(SubSeq(d, 1, LineBytes)) \div (WindowMod * LengthMod * SeqnumMod)
WindowIn(d) == (NumberOf(SubSeq(d, 1, LineBytes)) \div (LengthMod * SeqnumMod)) % WindowMod
LengthIn(d) == (NumberOf(SubSeq(d, 1, LineBytes)) \div SeqnumMod) % LengthMod
SeqnumIn(d) == NumberOf(SubSeq(d, 1, LineBytes)) % SeqnumMod
StampIn(d) == NumberOf(SubSeq(d, LineBytes + 1, HeaderBytes))
PayloadIn(d) == SubSeq(d, MinPacket + 1, MinPacket + LengthIn(d))

\* Mutant of LengthFits: one too many.
LengthFitsOrOver(d) == LengthIn(d) <= MaxPayload + 1

LengthFits(d) == LengthIn(d) <= MaxPayload

\* Mutant of CrcHolds: CRC2 is not verified.
CrcHoldsInHeader(d, first, n) ==
    first = 1 => NumberOf(SubSeq(d, n + 1, n + CrcBytes)) = Crc(SubSeq(d, 1, n))

\* The n bytes of d from the first one are followed by their CRC.
CrcHolds(d, first, n) ==
    NumberOf(SubSeq(d, first + n, first + n + CrcBytes - 1))
      = Crc(SubSeq(d, first, first + n - 1))

Accepts(d) ==
    /\ Len(d) >= MinPacket
    /\ CrcHolds(d, 1, HeaderBytes)
    /\ TypeIn(d) \in 1 .. 3
    /\ LengthFits(d)
    /\ LengthIn(d) > 0 =>
         /\ Len(d) >= MinPacket + LengthIn(d) + CrcBytes
         /\ CrcHolds(d, MinPacket + 1, LengthIn(d))

\* What all the decoders verify of the header.
HeaderHolds(d) == Len(d) >= MinPacket /\ CrcHolds(d, 1, HeaderBytes) /\ LengthFits(d)

\* Group G12: the type is not looked at.
G12Accepts(d) ==
    /\ HeaderHolds(d)
    /\ LengthIn(d) > 0 =>
         /\ Len(d) >= MinPacket + LengthIn(d) + CrcBytes
         /\ CrcHolds(d, MinPacket + 1, LengthIn(d))

\* Group 3.
G3Accepts(d) ==
    /\ HeaderHolds(d)
    /\ TypeIn(d) \in 1 .. 3
    /\ LengthIn(d) > 0 =>
         /\ Len(d) - MinPacket >= LengthIn(d) + CrcBytes
         /\ CrcHolds(d, MinPacket + 1, LengthIn(d))

\* Group 2: CRC2 is verified if the datagram is long enough to hold it.
G2Accepts(d) ==
    /\ HeaderHolds(d)
    /\ TypeIn(d) # 0
    /\ Len(d) >= MinPacket + LengthIn(d)
    /\ LengthIn(d) > 0 /\ Len(d) >= MinPacket + LengthIn(d) + CrcBytes =>
         CrcHolds(d, MinPacket + 1, LengthIn(d))

\* The packet in a datagram that is accepted.
PacketIn(d) ==
    [type |-> TypeIn(d), window |-> WindowIn(d), seqnum |-> SeqnumIn(d),
     timestamp |-> StampIn(d), payload |-> PayloadIn(d)]

Unpack(d) == IF Accepts(d) THEN PacketIn(d) ELSE None

-----------------------------------------------------------------------------
\* Any arguments of Packet, those just outside of their ranges included.
Init ==
    /\ pkt \in [type : 0 .. TypeMod, window : {-1, 0, WindowMod - 1, WindowMod},
                seqnum : {-1, 0, SeqnumMod - 1, SeqnumMod}, timestamp : Stamps,
                payload : UNION {[1 .. n -> PayloadBytes] : n \in 0 .. MaxPayload + 1}]
    /\ sender = "group" /\ wire = <<>> /\ damage = "none" /\ pc = "built"
    /\ reader = "none" /\ got = None

Sends(who, bytes) ==
    /\ pc = "built"
    /\ sender' = who /\ wire' = bytes
    /\ pc' = "sent"
    /\ UNCHANGED <<pkt, damage, reader, got>>

Pack == Valid(pkt) /\ Sends("group", Encoded(pkt))

\* ValueError, of pack and of group 3's encode_packet.
PackRaises ==
    /\ pc = "built" /\ ~ Valid(pkt)
    /\ pc' = "raised"
    /\ UNCHANGED <<pkt, sender, wire, damage, reader, got>>

\* Groups G12 and 2 verify nothing: their programs only make valid packets.
G12Encode == Valid(pkt) /\ Sends("group", Datagram(Shifted(pkt), pkt))
G3Encode == Valid(pkt) /\ Sends("group", Datagram(Shifted(pkt), pkt))
G2Encode == Valid(pkt) /\ Sends("group", Datagram(Shifted(pkt), pkt))

\* Another program sends any header with a correct CRC1, and what it likes
\* after the payload, or less than the header announces.
OtherSends(tail, missing) ==
    /\ pkt.type < TypeMod /\ Len(pkt.payload) < LengthMod
    /\ pkt.window \in 0 .. WindowMod - 1 /\ pkt.seqnum \in 0 .. SeqnumMod - 1
    /\ missing <= Len(Encoded(pkt)) - MinPacket
    /\ Sends("other", SubSeq(Encoded(pkt), 1, Len(Encoded(pkt)) - missing) \o tail)

\* link_sim's -e: byte i is inverted.
Invert(i) ==
    /\ pc = "sent" /\ damage = "none"
    /\ wire' = [wire EXCEPT ![i] = ByteMod - 1 - @]
    /\ damage' = "inverted"
    /\ UNCHANGED <<pkt, sender, pc, reader, got>>

\* link_sim's -c: a DATA packet is cut after the header.
Cut ==
    /\ pc = "sent" /\ damage = "none"
    /\ Len(wire) > MinPacket /\ TypeIn(wire) = 1
    /\ wire' = SubSeq(wire, 1, MinPacket)
    /\ damage' = "cut"
    /\ UNCHANGED <<pkt, sender, pc, reader, got>>

Decodes(who, packet) ==
    /\ pc = "sent"
    /\ reader' = who /\ got' = packet
    /\ pc' = "received"
    /\ UNCHANGED <<pkt, sender, wire, damage>>

Receive == Decodes("own", Unpack(wire))
G12Decode == Decodes("G12", IF G12Accepts(wire) THEN PacketIn(wire) ELSE None)
G3Decode == Decodes("G3", IF G3Accepts(wire) THEN PacketIn(wire) ELSE None)
G2Decode == Decodes("G2", IF G2Accepts(wire) THEN PacketIn(wire) ELSE None)

Next ==
    \/ Pack \/ PackRaises \/ G12Encode \/ G3Encode \/ G2Encode
    \/ \E tail \in {<<>>} \cup {<<b>> : b \in PayloadBytes} : OtherSends(tail, 0)
    \/ \E missing \in 1 .. MaxPayload + CrcBytes : OtherSends(<<>>, missing)
    \/ \E i \in DOMAIN wire : Invert(i)
    \/ Cut
    \/ Receive \/ G12Decode \/ G3Decode \/ G2Decode

Spec == Init /\ [][Next]_vars
-----------------------------------------------------------------------------
(***************************************************************************)
(* A datagram of any group that the link has left alone is accepted by     *)
(* every group, and is the packet that was sent: the fields survive the    *)
(* formatting, and all groups agree on their places.                       *)
(***************************************************************************)
IntactAccepted ==
    pc = "received" /\ sender = "group" /\ damage = "none" => got = pkt

(***************************************************************************)
(* A datagram of any group that link_sim has cut or corrupted is rejected  *)
(* by every group, whichever byte was inverted: in the length or in a CRC  *)
(* as well.                                                                *)
(***************************************************************************)
DamageRejected ==
    pc = "received" /\ sender = "group" /\ damage # "none" => got = None

(***************************************************************************)
(* Whoever sent it, a datagram is accepted only if it begins with what     *)
(* pack makes of the packet the decoder returns, whose fields pack         *)
(* accepts.  Group G12 accepts type 0 as well; group 2 a payload whose     *)
(* CRC2 is incomplete (2/src/encode_decode.py:63), and does not look at    *)
(* what there is of it.                                                    *)
(***************************************************************************)
AcceptedRepacks ==
    pc = "received" /\ got # None /\ ~ (reader = "G12" /\ got.type = 0) =>
      /\ Valid(got)
      /\ \/ IsPrefix(Encoded(got), wire)
         \/ /\ reader = "G2" /\ sender = "other"
            /\ Len(wire) < Len(Encoded(got))
            /\ IsPrefix(SubSeq(Encoded(got), 1, MinPacket + Len(got.payload)), wire)
=============================================================================
