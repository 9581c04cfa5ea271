-------------------------------- MODULE UPacket -------------------------------
(***************************************************************************)
(* A packet on its way between two sockets: the object the sender keeps    *)
(* and encodes again and again (u_packet_to_binary with its cache), the    *)
(* datagram, and what the receive thread makes of it                       *)
(* (u_packet_from_binary).  Bytes are numbers below 256; flags are sets of *)
(* the names in upacket_public.h.                                          *)
(***************************************************************************)
EXTENDS Integers, Sequences

CONSTANTS
  Values,     \* the 16-bit numbers that fields take
  Contents,   \* the user data that packets carry: sequences of bytes
  Noise       \* what a damaged byte may become

Byte == {n \in Nat : n < 256}
Word16 == {n \in Nat : n < 65536}

ASSUME ValuesAssumption == Values \subseteq Word16
ASSUME ContentsAssumption == Contents \subseteq Seq(Byte)
ASSUME NoiseAssumption == Noise \subseteq Byte

VARIABLES
  pkt,      \* the packet the sender keeps
  wire,     \* the datagram under way, <<>> when there is none
  damaged,  \* a byte of it was changed on the way
  got       \* what the receive thread made of the last datagram

vars == <<pkt, wire, damaged, got>>

-----------------------------------------------------------------------------
(* The header *)

\* The bits of the flag bytes.  In a control packet SYN, FIN and RST are in the
\* first byte and the others in the second.
CtrlBits1 == [SYN |-> 8, FIN |-> 4, RST |-> 2]
CtrlBits2 == [SEQ |-> 128, ACK |-> 64, MSS |-> 32, WND |-> 16]
DataBits == [REQWND |-> 16, BDR |-> 8, SEQ |-> 4, ACK |-> 2, WND |-> 1]
UmpVer == 64
UpType == 32

CtrlFlags == DOMAIN CtrlBits1 \union DOMAIN CtrlBits2
DataFlags == DOMAIN DataBits
FlagsOf(kind) == IF kind = "control" THEN CtrlFlags ELSE DataFlags
FieldNames == {"SEQ", "ACK", "MSS", "WND"}

Bit(bits, flags, f) == IF f \in flags THEN bits[f] ELSE 0
Unpack(bits, byte) == {f \in DOMAIN bits : (byte \div bits[f]) % 2 = 1}

CtrlByte1(flags) ==
  UmpVer + Bit(CtrlBits1, flags, "SYN") + Bit(CtrlBits1, flags, "FIN")
    + Bit(CtrlBits1, flags, "RST")
CtrlByte2(flags) ==
  Bit(CtrlBits2, flags, "SEQ") + Bit(CtrlBits2, flags, "ACK")
    + Bit(CtrlBits2, flags, "MSS") + Bit(CtrlBits2, flags, "WND")
DataByte(flags) ==
  UmpVer + UpType + Bit(DataBits, flags, "REQWND") + Bit(DataBits, flags, "BDR")
    + Bit(DataBits, flags, "SEQ") + Bit(DataBits, flags, "ACK")
    + Bit(DataBits, flags, "WND")
HeadOf(p) ==
  IF p.kind = "control" THEN <<CtrlByte1(p.flags), CtrlByte2(p.flags)>>
  ELSE <<DataByte(p.flags)>>

\* htons and ntohs
WordOf(n) == <<n \div 256, n % 256>>
NumberOf(high, low) == high * 256 + low

\* The numbers follow the checksum in a fixed order, each if its flag is set, then
\* the data.
PutField(p, f, rest) == (IF f \in p.flags THEN WordOf(p.num[f]) ELSE <<>>) \o rest
BodyOf(p) ==
  PutField(p, "SEQ", PutField(p, "ACK", PutField(p, "MSS", PutField(p, "WND", p.data))))

\* The checksum adds the flag bytes and what follows the checksum, two bytes at a
\* time with the low one first.
BodySum(body) ==
  LET sum[n \in 0..Len(body)] ==
        IF n = 0 THEN 0
        ELSE sum[n - 1] + (IF n % 2 = 1 THEN body[n] ELSE 256 * body[n])
  IN sum[Len(body)]
HeadSum(head) == IF Len(head) = 1 THEN head[1] ELSE head[1] + head[2]

\* The first variant keeps the carry, the second forgets an odd last byte.
ChecksumWide(head, body) == HeadSum(head) + BodySum(body)
ChecksumEven(head, body) ==
  (HeadSum(head) + BodySum(SubSeq(body, 1, 2 * (Len(body) \div 2)))) % 65536
Checksum(head, body) == (HeadSum(head) + BodySum(body)) % 65536

Encoded(p) ==
  HeadOf(p) \o WordOf(Checksum(HeadOf(p), BodyOf(p))) \o BodyOf(p)

-----------------------------------------------------------------------------
(* The sender's object *)

Packets ==
  [kind : {"none", "control", "data"}, flags : SUBSET (CtrlFlags \union DataFlags),
   num : [FieldNames -> Values \union {0}], data : Contents \union {<<>>},
   changed : BOOLEAN, raw : Seq(Byte)]
NoPacket == [kind |-> "none", flags |-> {}, num |-> [f \in FieldNames |-> 0],
             data |-> <<>>, changed |-> FALSE, raw |-> <<>>]
\* u_packet_new
NewPacket(kind) == [NoPacket EXCEPT !.kind = kind]

\* u_packet_set_flag and u_packet_clear_flag mark the packet as changed whatever
\* it was.  The variant does so only when the flag was not set.
SetFlagsLazy(p, flags) ==
  [p EXCEPT !.flags = @ \union flags, !.changed = @ \/ ~(flags \subseteq p.flags)]
SetFlags(p, flags) == [p EXCEPT !.flags = @ \union flags, !.changed = TRUE]
ClearFlags(p, flags) == [p EXCEPT !.flags = @ \ flags, !.changed = TRUE]

\* u_packet_to_binary answers from its cache unless the packet has changed.
ToBinary(p) ==
  IF ~p.changed /\ p.raw # <<>> THEN p
  ELSE [p EXCEPT !.raw = Encoded(p), !.changed = FALSE]

-----------------------------------------------------------------------------
(* The receiver's object *)

Rejected == [kind |-> "rejected", flags |-> {}, num |-> [f \in FieldNames |-> 0],
             data |-> <<>>]
Views == [kind : {"control", "data", "rejected"}, flags : SUBSET (CtrlFlags \union DataFlags),
          num : [FieldNames -> Word16], data : Seq(Byte)]

KindIn(w) == IF (w[1] \div UpType) % 2 = 0 THEN "control" ELSE "data"
FlagsIn(w) ==
  IF KindIn(w) = "control" THEN Unpack(CtrlBits1, w[1]) \union Unpack(CtrlBits2, w[2])
  ELSE Unpack(DataBits, w[1])
HeadLength(kind) == IF kind = "control" THEN 2 ELSE 1

\* Not this protocol, or too short for a header
Malformed(w) ==
  \/ w = <<>> \/ w[1] \div 64 # UmpVer \div 64
  \/ Len(w) < HeadLength(KindIn(w)) + 2
SumMatches(w) ==
  LET h == HeadLength(KindIn(w))
  IN Checksum(SubSeq(w, 1, h), SubSeq(w, h + 3, Len(w))) = NumberOf(w[h + 1], w[h + 2])

\* Where a number would be, counted from the start of the datagram, and where the
\* data begin
Width(w, f) == IF f \in FlagsIn(w) THEN 2 ELSE 0
Place(w) ==
  LET h == HeadLength(KindIn(w)) + 2
      seq == Width(w, "SEQ")
      ack == Width(w, "ACK")
      mss == Width(w, "MSS")
  IN [SEQ |-> h, ACK |-> h + seq, MSS |-> h + seq + ack, WND |-> h + seq + ack + mss]
DataPlace(w) == Place(w)["WND"] + Width(w, "WND")

\* A number must begin inside the datagram; the byte behind it counts as beyond.
FieldsBegin(w) == \A f \in FieldNames \intersect FlagsIn(w) : Place(w)[f] < Len(w)
At(w, i, beyond) == IF i <= Len(w) THEN w[i] ELSE beyond
View(w, beyond) ==
  [kind |-> KindIn(w), flags |-> FlagsIn(w),
   num |-> [f \in FieldNames |->
              IF f \in FlagsIn(w)
              THEN NumberOf(At(w, Place(w)[f] + 1, beyond), At(w, Place(w)[f] + 2, beyond))
              ELSE 0],
   data |-> SubSeq(w, DataPlace(w) + 1, Len(w))]

\* u_packet_from_binary
FromBinary(w, beyond) ==
  IF Malformed(w) \/ ~SumMatches(w) \/ ~FieldsBegin(w) THEN Rejected ELSE View(w, beyond)

-----------------------------------------------------------------------------
TypeOK ==
  /\ pkt \in Packets /\ pkt.flags \subseteq FlagsOf(pkt.kind)
  /\ wire \in Seq(Byte) /\ damaged \in BOOLEAN /\ got \in Views

Init ==
  /\ pkt = NoPacket /\ wire = <<>> /\ damaged = FALSE
  /\ got = Rejected

\* One datagram at a time: the sender waits until the last one was dealt with.
Quiet == wire = <<>> /\ got = Rejected
Make(p) == Quiet /\ pkt' = p /\ UNCHANGED <<wire, damaged, got>>
Put(p) ==
  /\ Quiet
  /\ pkt' = ToBinary(p) /\ wire' = ToBinary(p).raw /\ damaged' = FALSE
  /\ UNCHANGED got

\* ump_closed_connect and ump_established_close
NewControl ==
  \E n, mss, wnd \in Values :
    \/ Make([SetFlags(NewPacket("control"), {"SYN", "SEQ", "MSS", "WND"})
               EXCEPT !.num = [@ EXCEPT !.SEQ = n, !.MSS = mss, !.WND = wnd]])
    \/ Make([SetFlags(NewPacket("control"), {"FIN", "SEQ"}) EXCEPT !.num.SEQ = n])

\* ump_handle_send_ctrl_packet: an acknowledgement goes with the packet if there is
\* one; the packet may be sent again with another, or with none.
SendControl ==
  /\ pkt.kind = "control" /\ "SEQ" \in pkt.flags
  /\ \/ \E n \in Values : Put([SetFlags(pkt, {"ACK"}) EXCEPT !.num.ACK = n])
     \/ Put(ClearFlags(pkt, {"ACK"}))

\* ump_send_message makes the packets, ump_sndunlocked_handle_snd numbers them.
NewData ==
  \E n \in Values, data \in Contents, flags \in {{"SEQ"}, {"SEQ", "BDR"}} :
    Make([SetFlags(NewPacket("data"), flags) EXCEPT !.num.SEQ = n, !.data = data])

\* ump_sndlocked_handle_send_data
SendData ==
  /\ pkt.kind = "data" /\ "SEQ" \in pkt.flags
  /\ \/ \E n, wnd \in Values :
          Put([SetFlags(pkt, {"ACK", "WND"}) EXCEPT !.num = [@ EXCEPT !.ACK = n, !.WND = wnd]])
     \/ Put(ClearFlags(pkt, {"ACK", "WND"}))

\* Acknowledgements alone, the probe and the reset are made for one datagram; the
\* probe is kept and never changes.
SendAlone ==
  \/ \E n \in Values : Put([SetFlags(NewPacket("control"), {"ACK"}) EXCEPT !.num.ACK = n])
  \/ \E n, wnd \in Values :
       Put([SetFlags(NewPacket("data"), {"ACK", "WND"})
              EXCEPT !.num = [@ EXCEPT !.ACK = n, !.WND = wnd]])
  \/ Put(SetFlags(NewPacket("control"), {"RST"}))
  \/ Put(SetFlags(NewPacket("data"), {"REQWND"}))
SendProbeAgain ==
  /\ pkt.kind = "data" /\ "REQWND" \in pkt.flags /\ Put(pkt)

\* A byte changes on the way.
Damage ==
  /\ wire # <<>> /\ ~damaged
  /\ \E i \in DOMAIN wire, b \in Noise :
       b # wire[i] /\ wire' = [wire EXCEPT ![i] = b]
  /\ damaged' = TRUE
  /\ UNCHANGED <<pkt, got>>

\* The receive thread reads the datagram.
Receive ==
  /\ wire # <<>>
  /\ \E beyond \in Noise : got' = FromBinary(wire, beyond)
  /\ wire' = <<>> /\ damaged' = FALSE
  /\ UNCHANGED pkt

\* The socket's handler is done with the packet.
Consume ==
  /\ got # Rejected
  /\ got' = Rejected
  /\ UNCHANGED <<pkt, wire, damaged>>

Next ==
  \/ NewControl \/ NewData
  \/ SendControl \/ SendData \/ SendAlone \/ SendProbeAgain
  \/ Damage \/ Receive \/ Consume

Spec == Init /\ [][Next]_vars

-----------------------------------------------------------------------------
(* Properties *)

\* What arrives undamaged reads as the sender's packet stands when it is sent:
\* flags, numbers and data, however often the packet was encoded before.
Reading(p) ==
  [kind |-> p.kind, flags |-> p.flags,
   num |-> [f \in FieldNames |-> IF f \in p.flags THEN p.num[f] ELSE 0], data |-> p.data]
ReadsAsWritten ==
  wire # <<>> /\ ~damaged => \A beyond \in Noise : FromBinary(wire, beyond) = Reading(pkt)

\* A packet with a damaged byte is rejected, unless the damage makes a control packet
\* of a data packet or the reverse, for then another part of it is its checksum.
DamageIsSeen ==
  wire # <<>> /\ damaged /\ KindIn(wire) = pkt.kind =>
    \A beyond \in Noise : FromBinary(wire, beyond) = Rejected

=============================================================================
