------------------------------ MODULE MCLibrary ------------------------------
(***************************************************************************)
(* One instance of the libraries that messages are made with: TLV, the     *)
(* encoding of certificates, chains of them, datagrams, and the pools of   *)
(* packets.  They share no state, so a behaviour is one of a single part,  *)
(* and the others rest.                                                    *)
(***************************************************************************)
EXTENDS TlvReaders, Cert, Datagram, PacketPool

VARIABLE part
vars == << tlvVars, certVars, datagramVars, poolVars, part >>

Init ==
  /\ part \in {"tlv", "encoder", "chain", "datagram", "pools"}
  /\ TlvInit /\ CertInit /\ DatagramInit /\ PoolInit

Next ==
  /\ UNCHANGED part
  /\ \/ part = "tlv" /\ TlvNext /\ UNCHANGED << certVars, datagramVars, poolVars >>
     \/ part = "encoder" /\ EncoderNext /\ UNCHANGED << tlvVars, datagramVars, poolVars >>
     \/ part = "chain" /\ ChainNext /\ UNCHANGED << tlvVars, datagramVars, poolVars >>
     \/ part = "datagram" /\ DatagramNext /\ UNCHANGED << tlvVars, certVars, poolVars >>
     \/ part = "pools" /\ PoolNext /\ UNCHANGED << tlvVars, certVars, datagramVars >>

Spec == Init /\ [][Next]_vars

----------------------------------------------------------------------------
(* Four values to a byte: a string of three takes one byte of length, one  *)
(* of four takes two.  The tags are those of Schema and none.              *)

LeafTags == {ANON, Context(0), Context(1)}
StartsDef == {<< ANON, "Struct" >>, << ANON, "Array" >>, << Context(0), "List" >>}
LeafValues ==
  {[kind |-> "uint", val |-> << 2 >>], [kind |-> "uint", val |-> << 0, 1, 0, 0 >>],
   [kind |-> "ostr", val |-> << 1, 2, 3, 1 >>], [kind |-> "cert", val |-> << 1, 2, 3 >>]}
SchemaDef ==
  << [tag |-> 0, kind |-> "u16", optional |-> TRUE],
     [tag |-> 1, kind |-> "nullable", optional |-> TRUE],
     [tag |-> 2, kind |-> "bool", optional |-> FALSE] >>
StructValues ==
  {<< Some(<< 2, 0 >>), Is("none"), Some(<< 1 >>) >>,
   << Is("none"), Some(<< 2 >>), Some(<< 1 >>) >>,
   << Some(<< 1, 2 >>), Is("null"), Some(<< 0 >>) >>}

----------------------------------------------------------------------------
(* A root, an issuer and a leaf of fabric 7, and what each may be turned   *)
(* into.  Contents of 0, 5 and 60 bytes: with BASE = 16 a length takes two *)
(* bytes from 8 on and three from 16 on.                                   *)

Dn(id, val) == [id |-> id, val |-> val]
Ext(ca, usage, skid, akid) ==
  [basic_const |-> << [is_ca |-> ca, path |-> << >>] >>,
   key_usage |-> << usage >>,
   ext_key_usage |-> IF ca THEN << >> ELSE << << 2, 1 >> >>,
   subj_key_id |-> << skid >>, auth_key_id |-> << akid >>, future_extensions |-> << >>]
CertOf(subject, issuer, key, x) ==
  [serial_no |-> << 1 >>, sign_algo |-> 1, issuer |-> issuer, not_before |-> << 0, 0 >>,
   not_after |-> << 0, 9 >>, subject |-> subject, pubkey_algo |-> 1, ec_curve_id |-> 1,
   pubkey |-> key, extensions |-> x]

RootDn == << Dn(20, << 0, 1 >>) >>
IcaDn == << Dn(19, << 0, 2 >>) >>
NocDn == << Dn(NODE_ID, << 0, 3 >>), Dn(FABRIC_ID, << 0, 7 >>) >>
Root == CertOf(RootDn, RootDn, << 1, 1 >>, Ext(TRUE, 96, << 1 >>, << 1 >>))
Ica == CertOf(IcaDn, RootDn, << 2, 1 >>, Ext(TRUE, 96, << 2 >>, << 1 >>))
Noc == CertOf(NocDn, IcaDn, << 3, 1 >>, Ext(FALSE, 1, << 3 >>, << 2 >>))
IssuedDef == {Signed(Root, Root.pubkey), Signed(Ica, Root.pubkey), Signed(Noc, Ica.pubkey)}
Fabrics == {<< 0, 7 >>, << 0, 8 >>}

AlteredDef(c) ==
  {c,
   [c EXCEPT !.subject = << Dn(NODE_ID, << 0, 4 >>), Dn(FABRIC_ID, << 0, 7 >>) >>],
   [c EXCEPT !.subject = << @[1], Dn(FABRIC_ID, << 0, 8 >>) >>],
   [c EXCEPT !.subject = Append(@, Dn(30, << 0, 9 >>))],
   [c EXCEPT !.subject = Append(@, Dn(NOC_CAT, << 0, 9 >>))],
   [c EXCEPT !.not_after = << 0, 8 >>],
   [c EXCEPT !.not_after = << 1, 9 >>],
   [c EXCEPT !.extensions.future_extensions = << << 1 >> >>],
   [c EXCEPT !.pubkey = << 3, 2 >>],
   [c EXCEPT !.sign_algo = 2],
   [c EXCEPT !.extensions.key_usage = << 256 >>],
   [c EXCEPT !.extensions.key_usage = << 0 >>],
   [c EXCEPT !.extensions.basic_const = << [is_ca |-> TRUE, path |-> << 1 >>] >>],
   [c EXCEPT !.extensions.ext_key_usage = << << 2, 1, 9 >> >>],
   [c EXCEPT !.extensions.ext_key_usage = << << 2, 7 >> >>],
   [c EXCEPT !.extensions.auth_key_id = << >>]}

Contents == {<< >>, [i \in 1 .. 5 |-> i], [i \in 1 .. 60 |-> 1]}
FreeCallsDef ==
  {StartCall(SEQUENCE), StartCall(CtxStart(3)), EndCall} \cup {ValueCall(OSTR, c) : c \in Contents}
CallsDef == FreeCallsDef \cup UNION {Range(CertCalls(p.cert)) : p \in Presented}

----------------------------------------------------------------------------
(* Payloads up to the boundary of a buffer of 64 bytes, 38 of them kept    *)
(* for headers and, in a session with a key, 16 for the MIC.               *)

PayloadsDef == {[i \in 1 .. n |-> i] : n \in {0, 3, 10, 11, 26, 27}}
Plain(flags, sessId, node) ==
  [flags |-> flags, sess_id |-> sessId, ctr |-> << 1, 0, 0, 0 >>, peer_nodeid |-> node]
PlainHdrsDef ==
  {Plain({}, << 0, 0 >>, << >>), Plain({}, << 1, 0 >>, << >>),
   Plain({"SRC_ADDR_PRESENT"}, << 0, 0 >>, [i \in 1 .. 8 |-> i])}
ProtoHdrsDef ==
  {[flags |-> flags, opcode |-> 2, exch_id |-> << 5, 0 >>, proto_id |-> << 1, 0 >>,
    vendor |-> IF "VENDOR" \in flags THEN << 3, 1 >> ELSE << >>,
    ack |-> IF "ACK" \in flags THEN << 1, 0, 0, 0 >> ELSE << >>] :
     flags \in SUBSET {"ACK", "VENDOR", "RELIABLE"}}
PeerNodesDef == {<< >>, [i \in 1 .. 8 |-> 3], [i \in 1 .. 8 |-> 40]}
KeysDef == {<< >>, << 1 >>}
=============================================================================
