-------------------------------- MODULE Cert --------------------------------
(***************************************************************************)
(* Matter certificates (cert/mod.rs): the DER form that encode makes of a  *)
(* certificate, which is what its issuer signs, and the verification of a  *)
(* chain (CertVerifier, and CASE's validate_certs that drives it).         *)
(*                                                                         *)
(* A certificate is the record that the derived from_tlv gives; an absent  *)
(* Option is << >> and a present one << value >>.  Texts and numbers are   *)
(* sequences of digits, the first of a date its century.  Signing is       *)
(* external: a signature is the pair of the key that made it and the       *)
(* bytes that it signed.                                                   *)
(***************************************************************************)
EXTENDS Asn1, FiniteSets

CONSTANTS
  FreeCalls,   \* calls that are made one by one, in any order
  MaxCalls,    \* a bound on them
  Issued,      \* the certificates that a holder of a key signed
  Altered(_),  \* what may be presented, with the same signature, in its place
  FabricIds    \* the fabrics whose device verifies a chain

ASSUME CertAssumption == MaxCalls \in Nat

VARIABLES
  todo,       \* the calls that an encode has still to make
  verifier,   \* "idle", "chain" while a chain is followed, "done" or "failed"
  chain       \* the certificates of the chain, from the leaf upwards

certVars == << asn1Vars, todo, verifier, chain >>

----------------------------------------------------------------------------
(* encode                                                                  *)

\* int_to_bitstring reverses the bits of both bytes; a Key Usage is its bits.
Bit(n, i) == (n \div 2 ^ i) % 2
RECURSIVE Reversed(_, _)
Reversed(byte, i) == IF i = 8 THEN 0 ELSE Bit(byte, i) * 2 ^ (7 - i) + Reversed(byte, i + 1)
IntToBitString(usage) == << Reversed(usage % 256, 0), Reversed(usage \div 256, 0) >>

BitCall(truncate, bytes) ==
  IF BitStringPanics(truncate, bytes) THEN FailCall ELSE ValueCall(BITSTR, BitString(truncate, bytes))

Compound(tag, inner) == << StartCall(tag) >> \o inner \o << EndCall >>

\* Six usages have an OID: what is not in the table is left out, and 7, for
\* which the bound is one too high, reads past the table and panics.
ExtKeyUsageCalls(list) ==
  LET known == SelectSeq(list, LAMBDA t : t > 0 /\ t =< 7)
  IN Compound(SEQUENCE, [i \in DOMAIN known |->
                           IF known[i] = 7 THEN FailCall ELSE ValueCall(OID, << 3, known[i] >>)])

\* Only a CA is marked as one; a path length is not encoded at all.
BasicConstraintsCalls(b) == Compound(SEQUENCE, IF b.is_ca THEN << ValueCall(BOOL, << 1 >>) >> ELSE << >>)

Extension(oid, critical, inner) ==
  Compound(SEQUENCE,
    << ValueCall(OID, << 2, oid >>) >>
    \o (IF critical THEN << ValueCall(BOOL, << 1 >>) >> ELSE << >>)
    \o Compound(OSTR, inner))

IfPresent(opt, list) == IF opt = << >> THEN << >> ELSE list

\* What is kept of future extensions is logged, and not encoded.
ExtensionsCalls(x) ==
  Compound(CtxStart(3), Compound(SEQUENCE,
    IfPresent(x.basic_const, Extension(1, TRUE, BasicConstraintsCalls(x.basic_const[1])))
    \o IfPresent(x.key_usage,
         Extension(2, TRUE, << BitCall(TRUE, IntToBitString(x.key_usage[1])) >>))
    \o IfPresent(x.ext_key_usage, Extension(3, TRUE, ExtKeyUsageCalls(x.ext_key_usage[1])))
    \o IfPresent(x.subj_key_id, Extension(4, FALSE, << ValueCall(OSTR, x.subj_key_id[1]) >>))
    \o IfPresent(x.auth_key_id,
         Extension(5, FALSE, Compound(SEQUENCE, << ValueCall(Ctx(0), x.auth_key_id[1]) >>)))))

NODE_ID == 17
FABRIC_ID == 21
NOC_CAT == 22
DnTags == 17 .. 22

\* A name keeps its order; an entry whose tag is not Matter's is left out.
DistNamesCalls(dn) ==
  Compound(SEQUENCE, FlattenSeq([i \in DOMAIN dn |->
    IF dn[i].id \notin DnTags THEN << >>
    ELSE Compound(SET_OF, Compound(SEQUENCE,
           << ValueCall(OID, << 1, dn[i].id - 16 >>), ValueCall(UTF8, dn[i].val) >>))]))

\* The three algorithms have one value each; any other ends the encoding.
AlgorithmCall(oid, id) == IF id = 1 THEN ValueCall(OID, << 0, oid >>) ELSE FailCall

\* utctime writes the year with two digits.
UtcTime(date) == Tail(date)
ValidityCalls(c) ==
  Compound(SEQUENCE, << ValueCall(UTCTIME, UtcTime(c.not_before)),
                        ValueCall(UTCTIME, UtcTime(c.not_after)) >>)

CertCallsBug(c) ==
  Compound(SEQUENCE,
    Compound(CtxStart(0), << ValueCall(INTEGER, << 2 >>) >>)
    \o << ValueCall(INTEGER, c.serial_no) >>
    \o Compound(SEQUENCE, << AlgorithmCall(1, c.sign_algo) >>)
    \o DistNamesCalls(c.issuer)
    \o ValidityCalls(c)
    \o DistNamesCalls(SubSeq(c.subject, 1, 1))
    \o Compound(SEQUENCE,
         Compound(SEQUENCE, << AlgorithmCall(2, c.pubkey_algo), AlgorithmCall(3, c.ec_curve_id) >>)
         \o << BitCall(FALSE, c.pubkey) >>)
    \o ExtensionsCalls(c.extensions))

CertCalls(c) ==
  Compound(SEQUENCE,
    Compound(CtxStart(0), << ValueCall(INTEGER, << 2 >>) >>)
    \o << ValueCall(INTEGER, c.serial_no) >>
    \o Compound(SEQUENCE, << AlgorithmCall(1, c.sign_algo) >>)
    \o DistNamesCalls(c.issuer)
    \o ValidityCalls(c)
    \o DistNamesCalls(c.subject)
    \o Compound(SEQUENCE,
         Compound(SEQUENCE, << AlgorithmCall(2, c.pubkey_algo), AlgorithmCall(3, c.ec_curve_id) >>)
         \o << BitCall(FALSE, c.pubkey) >>)
    \o ExtensionsCalls(c.extensions))

\* A list of calls, up to the first that fails.
ApplyAll(wr, list) == FoldLeft(LAMBDA to, call : IF to.ok THEN Apply(to, call) ELSE to, wr, list)
AsAsn1(c) == ApplyAll(ASN1Writer(ASN1_LEN), CertCalls(c))

----------------------------------------------------------------------------
(* A chain                                                                 *)

DnValue(dn, id) == {dn[i].val : i \in {j \in DOMAIN dn :
                      dn[j].id = id /\ \A k \in 1 .. j - 1 : dn[k].id # id}}
GetNodeId(c) == DnValue(c.subject, NODE_ID)
GetFabricId(c) == DnValue(c.subject, FABRIC_ID)

\* An issuer signs the DER form of what it issues.
Signed(c, key) == [cert |-> c, signature |-> << key, AsSlice(AsAsn1(c)) >>]

VerifyMsg(key, bytes, signature) == signature = << key, bytes >>
IsAuthority(c, parent) ==
  /\ c.extensions.auth_key_id # << >>
  /\ c.extensions.auth_key_id = parent.extensions.subj_key_id

\* add_cert: the parent is the authority that the certificate names, and it
\* signed what encode makes of the certificate.
AddCert(p, parent) ==
  /\ IsAuthority(p.cert, parent.cert)
  /\ AsAsn1(p.cert).ok
  /\ VerifyMsg(parent.cert.pubkey, AsSlice(AsAsn1(p.cert)), p.signature)

Presented == UNION {{[cert |-> c, signature |-> s.signature] : c \in Altered(s.cert)} : s \in Issued}

CertInit == Asn1Init /\ todo = << >> /\ verifier = "idle" /\ chain = << >>

\* A certificate is encoded by itself, as its Display and as_asn1 do.
EncodeCert(c) ==
  /\ made = 0 /\ todo = << >>
  /\ todo' = CertCalls(c)
  /\ UNCHANGED << asn1Vars, verifier, chain >>
EncodeNext ==
  /\ todo # << >>
  /\ Do_(Head(todo))
  /\ todo' = Tail(todo)
  /\ UNCHANGED << verifier, chain >>

\* Any other user of the writer.
FreeCall ==
  /\ todo = << >> /\ made < MaxCalls
  /\ \E call \in FreeCalls : Do_(call)
  /\ UNCHANGED << todo, verifier, chain >>

\* validate_certs: the fabric of the leaf, and of the issuer if it has one, is
\* the device's own, before the chain is followed.
StartChain(fabricId, noc, icac) ==
  /\ verifier = "idle"
  /\ verifier' = IF /\ GetFabricId(icac.cert) \in {{}, {fabricId}}
                    /\ GetFabricId(noc.cert) = {fabricId}
                    /\ AddCert(noc, icac)
                 THEN "chain" ELSE "failed"
  /\ chain' = << noc, icac >>
  /\ UNCHANGED << asn1Vars, todo >>

AddRoot(root) ==
  /\ verifier = "chain" /\ Len(chain) = 2
  /\ verifier' = IF AddCert(Last(chain), root) THEN "chain" ELSE "failed"
  /\ chain' = Append(chain, root)
  /\ UNCHANGED << asn1Vars, todo >>

\* finalise: the last certificate is its own authority.
Finalise ==
  /\ verifier = "chain" /\ Len(chain) = 3
  /\ verifier' = IF AddCert(Last(chain), Last(chain)) THEN "done" ELSE "failed"
  /\ UNCHANGED << asn1Vars, todo, chain >>

EncoderNext ==
  \/ FreeCall
  \/ EncodeNext
  \/ \E p \in Presented : EncodeCert(p.cert)
ChainNext ==
  \/ \E fabricId \in FabricIds, noc, icac \in Presented : StartChain(fabricId, noc, icac)
  \/ \E root \in Presented : AddRoot(root)
  \/ Finalise

----------------------------------------------------------------------------
\* What a certificate says that the encoding keeps: all of it but the entries of a name
\* and the usages that are not Matter's, a path length, the century of a date, and future
\* extensions.
KnownDn(dn) == SelectSeq(dn, LAMBDA d : d.id \in DnTags)
Said(c) ==
  [c EXCEPT !.issuer = KnownDn(@), !.subject = KnownDn(@),
            !.not_before = UtcTime(@), !.not_after = UtcTime(@),
            !.extensions.basic_const = [i \in DOMAIN @ |-> @[i].is_ca],
            !.extensions.ext_key_usage =
               [i \in DOMAIN @ |-> SelectSeq(@[i], LAMBDA t : t \in 1 .. 6)],
            !.extensions.future_extensions = << >>]

\* Every certificate of a chain that was accepted says what the holder of the key above
\* it signed, in all that the encoding keeps: what was altered of it since is refused.
AcceptedAsIssued ==
  verifier = "done" =>
    \A i \in 1 .. 3 :
      LET parent == chain[IF i = 3 THEN 3 ELSE i + 1]
      IN \E s \in Issued :
           /\ s.signature[1] = parent.cert.pubkey
           /\ Said(chain[i].cert) = Said(s.cert)

=============================================================================
