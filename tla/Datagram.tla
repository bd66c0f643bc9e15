------------------------------ MODULE Datagram ------------------------------
(***************************************************************************)
(* A message on the wire (transport/packet.rs, plain_hdr.rs, proto_hdr.rs  *)
(* and Session's do_send and recv): the payload is written behind a place  *)
(* for the headers, the protocol header is put before it, both are sealed  *)
(* when the session has a key, and the plain header goes in front; the     *)
(* receiver undoes this in the opposite order.                             *)
(*                                                                         *)
(* A byte is a natural and a number the sequence of its bytes.  Sealing is  *)
(* external (AES-CCM): it adds MIC_LEN bytes, and opening succeeds exactly  *)
(* when key, nonce, header and text are those that were sealed.  Datagrams  *)
(* cross a network that may cut them (recv's buffer is one such place).    *)
(***************************************************************************)
EXTENDS Buffers

CONSTANTS
  MAX_RX_BUF_SIZE,  \* the length of a packet's buffer
  Payloads,
  PlainHdrs,        \* plain headers of packets to send: [flags, sess_id, ctr, peer_nodeid]
  PeerNodes,        \* Session.peer_nodeid of senders, << >> for one that knows none
  ProtoHdrs,        \* protocol headers: [flags, opcode, exch_id, proto_id, vendor, ack]
  Keys              \* the keys of sessions, << >> for one that is in the clear

ASSUME DatagramAssumption == MAX_RX_BUF_SIZE \in Nat

\* An optional part of a header is there when its flag is; the node of a plain header
\* stands for a source or a destination.
Octets(n) == [1 .. n -> Nat]
PlainHdr ==
  {h \in [flags : SUBSET {"SRC_ADDR_PRESENT", "DSIZ_UNICAST_NODEID"}, sess_id : Octets(2),
          ctr : Octets(4), peer_nodeid : Octets(8) \union {<< >>}] :
     h.flags # {} <=> h.peer_nodeid # << >>}
ProtoHdr ==
  {h \in [flags : SUBSET {"VENDOR", "SECEX", "RELIABLE", "ACK", "INITIATOR"}, opcode : Nat,
          exch_id : Octets(2), proto_id : Octets(2), vendor : Octets(2) \union {<< >>},
          ack : Octets(4) \union {<< >>}] :
     /\ "VENDOR" \in h.flags <=> h.vendor # << >>
     /\ "ACK" \in h.flags <=> h.ack # << >>}

ASSUME HeadersAssumption ==
  /\ \A h \in PlainHdrs : h \in PlainHdr
  /\ \A h \in ProtoHdrs : h \in ProtoHdr
  /\ \A p \in Payloads : p \in Seq(Nat)
  /\ \A node \in PeerNodes : node \in Octets(8) \union {<< >>}

VARIABLES
  sent,   \* what the sender had: plain, proto, payload, key; or NOTHING
  wire,   \* the datagram, and what was sealed in it
  rx      \* the receiver's packet

datagramVars == << sent, wire, rx >>

MIC_LEN == 16
AAD_LEN == 8
MAX_PLAIN_HDR_LEN == 26
MAX_PROTO_HDR_LEN == 12
HDR_RESERVE == MAX_PLAIN_HDR_LEN + MAX_PROTO_HDR_LEN

\* The flags of a byte by the bits that stand for them, from the lowest up.
MsgFlags == << "DSIZ_UNICAST_NODEID", "DSIZ_GROUPCAST_NODEID", "SRC_ADDR_PRESENT" >>
ExchFlags == << "INITIATOR", "ACK", "RELIABLE", "SECEX", "VENDOR" >>
FlagBits(flags, names) ==
  LET On(k, bit) == IF k \in DOMAIN names /\ names[k] \in flags THEN bit ELSE 0
  IN On(1, 1) + On(2, 2) + On(3, 4) + On(4, 8) + On(5, 16)
FromBits(byte, names) == CHOOSE flags \in SUBSET Range(names) : FlagBits(flags, names) = byte
IsFlags(byte, names) == \E flags \in SUBSET Range(names) : FlagBits(flags, names) = byte

----------------------------------------------------------------------------
(* Sending                                                                 *)

EncodePlain(h) ==
  LET fixed == << FlagBits(h.flags, MsgFlags) >> \o h.sess_id \o << 0 >> \o h.ctr
  IN CopyFromSlice(CopyFromSlice(WriteBuf(MAX_PLAIN_HDR_LEN), fixed), h.peer_nodeid)

EncodeProto(h) ==
  LET fixed == CopyFromSlice(WriteBuf(MAX_PROTO_HDR_LEN),
                 << FlagBits(h.flags, ExchFlags), h.opcode >> \o h.exch_id \o h.proto_id)
      vendor == IF "VENDOR" \notin h.flags THEN fixed
                ELSE IF h.vendor = << >> THEN Failed(fixed) ELSE CopyFromSlice(fixed, h.vendor)
  IN IF "ACK" \notin h.flags THEN vendor
     ELSE IF h.ack = << >> THEN Failed(vendor) ELSE CopyFromSlice(vendor, h.ack)

\* get_iv: a zero, the counter and the sender's node, which both ends know.
Iv(plain) == << 0 >> \o plain.ctr
Mic == [i \in 1 .. MIC_LEN |-> 255]

\* set_dest_u64, which do_send calls on a session in the clear with a peer node.
SetDest(plain, key, peer) ==
  IF key # << >> \/ peer = << >> THEN plain
  ELSE [plain EXCEPT !.flags = @ \union {"DSIZ_UNICAST_NODEID"}, !.peer_nodeid = peer]

DoSendBug(plain, proto, payload, key, peer) ==
  LET body == CopyFromSlice(Reserve(WriteBuf(MAX_RX_BUF_SIZE), HDR_RESERVE), payload)
      hdr == EncodePlain(SetDest(plain, key, peer))
      sealed == IF key = << >> THEN body ELSE CopyFromSlice(body, Mic)
      text == Written(body)
      withProto == Prepend(sealed, Written(EncodeProto(proto)))
      full == Prepend(withProto, Written(hdr))
  IN [ok |-> full.ok, bytes |-> Written(full),
      seal |-> << key, Iv(plain), Written(hdr), text >>]

\* new_tx, then do_send: any of the writes may not fit.
DoSend(plain, proto, payload, key, peer) ==
  LET body == CopyFromSlice(Reserve(WriteBuf(MAX_RX_BUF_SIZE), HDR_RESERVE), payload)
      protoHdr == EncodeProto(proto)
      text == IF protoHdr.ok THEN Prepend(body, Written(protoHdr)) ELSE Failed(body)
      hdr == EncodePlain(SetDest(plain, key, peer))
      sealed == IF key = << >> THEN text ELSE CopyFromSlice(text, Mic)
      full == IF hdr.ok THEN Prepend(sealed, Written(hdr)) ELSE Failed(sealed)
  IN [ok |-> full.ok, bytes |-> Written(full),
      seal |-> << key, Iv(plain), Written(hdr), Written(text) >>]

----------------------------------------------------------------------------
(* Receiving                                                               *)

Field(pb, n, pos) == Slice(pb.buf, pb.read_off + pos, pb.read_off + pos + n)

\* PlainHdr::decode: only a source is read; a destination is not.
DecodePlain(pb) ==
  LET fixed == ParseHead(pb, 8)
      flags == FromBits(pb.buf[1], MsgFlags)
      source == ParseHead(fixed, 8)
  IN IF ~fixed.ok THEN [pb |-> fixed, hdr |-> << >>]
     ELSE IF ~IsFlags(pb.buf[1], MsgFlags) THEN [pb |-> Failed(pb), hdr |-> << >>]
     ELSE [pb |-> IF "SRC_ADDR_PRESENT" \in flags THEN source ELSE fixed,
           hdr |-> << [flags |-> flags, sess_id |-> Field(pb, 2, 1), ctr |-> Field(pb, 4, 4),
                       peer_nodeid |-> IF "SRC_ADDR_PRESENT" \in flags /\ source.ok
                                       THEN Field(fixed, 8, 0) ELSE << >>] >>]

\* A text shorter than its MIC is split at an index below zero: the program panics.
OpenPanics(pb) == Len(Parsed(pb)) = AAD_LEN /\ pb.left < MIC_LEN

\* decrypt_in_place: the header must be of the eight bytes that are sealed.
Open(pb, plain, key) ==
  IF /\ Len(Parsed(pb)) = AAD_LEN /\ pb.left >= MIC_LEN
     /\ SubSeq(Unread(pb), pb.left - MIC_LEN + 1, pb.left) = Mic
     /\ wire.seal = << key, Iv(plain), Parsed(pb), SubSeq(Unread(pb), 1, pb.left - MIC_LEN) >>
  THEN TakeTail(pb, MIC_LEN) ELSE Failed(pb)

DecodeProto(pb) ==
  LET fixed == ParseHead(pb, 6)
      flags == FromBits(Field(pb, 1, 0)[1], ExchFlags)
      vendor == IF "VENDOR" \in flags THEN ParseHead(fixed, 2) ELSE fixed
      ack == IF "ACK" \in flags THEN ParseHead(vendor, 4) ELSE vendor
  IN IF ~fixed.ok THEN [pb |-> fixed, hdr |-> << >>]
     ELSE IF ~IsFlags(Field(pb, 1, 0)[1], ExchFlags) \/ ~ack.ok THEN [pb |-> Failed(pb), hdr |-> << >>]
     ELSE [pb |-> ack,
           hdr |-> << [flags |-> flags, opcode |-> Field(pb, 1, 1)[1],
                       exch_id |-> Field(pb, 2, 2), proto_id |-> Field(pb, 2, 4),
                       vendor |-> IF "VENDOR" \in flags THEN Field(fixed, 2, 0) ELSE << >>,
                       ack |-> IF "ACK" \in flags THEN Field(vendor, 4, 0) ELSE << >>] >>]

----------------------------------------------------------------------------
NoPacket == [state |-> "none", pb |-> ParseBuf(<< >>, 0), plain |-> << >>, proto |-> << >>]

DatagramInit ==
  /\ sent = << >>
  /\ wire = [ok |-> FALSE, bytes |-> << >>, seal |-> << >>]
  /\ rx = NoPacket

\* Packets of this program name no node before do_send; those of its peers that name
\* one as their source are sent as they are.
Send(plain, proto, payload, key, peer) ==
  /\ sent = << >>
  /\ plain.peer_nodeid # << >> => peer = << >>
  /\ (key # << >>) = (plain.sess_id # << 0, 0 >>)
  /\ sent' = << [plain |-> SetDest(plain, key, peer), proto |-> proto, payload |-> payload,
                 key |-> key] >>
  /\ wire' = DoSend(plain, proto, payload, key, peer)
  /\ UNCHANGED rx

\* SessionMgr::recv puts as much of the datagram as arrives in a new packet.
Arrive(len) ==
  /\ wire.ok /\ rx.state = "none"
  /\ rx' = [NoPacket EXCEPT !.state = "Uninit", !.pb = ParseBuf(wire.bytes, len)]
  /\ UNCHANGED << sent, wire >>

\* The two decodings follow one another, and each is done once.
PlainHdrDecode ==
  /\ rx.state = "Uninit"
  /\ LET got == DecodePlain(rx.pb)
     IN rx' = [rx EXCEPT !.pb = got.pb, !.plain = got.hdr,
                         !.state = IF got.pb.ok THEN "PlainDecode" ELSE "refused"]
  /\ UNCHANGED << sent, wire >>

\* The session that the header names has a key unless it is session 0.
ProtoDecode ==
  /\ rx.state = "PlainDecode"
  /\ LET key == IF rx.plain[1].sess_id = << 0, 0 >> THEN << >> ELSE sent[1].key
         text == IF key = << >> THEN rx.pb ELSE Open(rx.pb, rx.plain[1], key)
         got == DecodeProto(text)
     IN rx' = IF key # << >> /\ OpenPanics(rx.pb) THEN [rx EXCEPT !.state = "panic"]
              ELSE IF text.ok /\ got.pb.ok
              THEN [rx EXCEPT !.pb = got.pb, !.proto = got.hdr, !.state = "ProtoDecode"]
              ELSE [rx EXCEPT !.state = "refused"]
  /\ UNCHANGED << sent, wire >>

DatagramNext ==
  \/ \E plain \in PlainHdrs, proto \in ProtoHdrs, payload \in Payloads, key \in Keys,
        peer \in PeerNodes : Send(plain, proto, payload, key, peer)
  \/ \E len \in 0 .. Len(wire.bytes) : Arrive(len)
  \/ PlainHdrDecode \/ ProtoDecode

DatagramSpec == DatagramInit /\ [][DatagramNext]_datagramVars

----------------------------------------------------------------------------
\* What is read of a plain header: the bytes of a destination alone are not, and are
\* left to what follows.
Understood(h) ==
  [h EXCEPT !.peer_nodeid = IF "SRC_ADDR_PRESENT" \in h.flags THEN @ ELSE << >>]

\* Receivers of this program can read it: it has no destination alone, and what is
\* sealed names no node.
Legible(h, key) == Understood(h) = h /\ (key # << >> => h.peer_nodeid = << >>)

\* A datagram that its receiver accepts says what its sender wrote, both headers and the
\* payload, if it is readable (an answer in the clear to a peer with a node id is not); of
\* any other the flags, session and counter.  A readable one is accepted when it arrives
\* whole.  One that was cut is never accepted if it was sealed; in the clear it may lose
\* the end of its payload, and nothing else.  The program panics on none that is whole,
\* and on none in the clear.
AcceptedIsSent ==
  LET whole == Len(rx.pb.buf) = Len(wire.bytes)
      it == sent[1]
  IN /\ rx.state = "ProtoDecode" =>
          /\ rx.plain = << Understood(it.plain) >>
          /\ it.key # << >> => whole
          /\ Legible(it.plain, it.key) =>
               /\ rx.proto = << it.proto >>
               /\ IsPrefix(Unread(rx.pb), it.payload)
               /\ whole => Unread(rx.pb) = it.payload
     /\ rx.state = "refused" => ~ whole \/ ~ Legible(it.plain, it.key)
     /\ rx.state = "panic" => ~ whole /\ it.key # << >>
=============================================================================
