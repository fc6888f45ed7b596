------------------------------ MODULE Envelope ------------------------------
(***************************************************************************)
(* The signed envelope every token shares (src/envelope.rs):               *)
(* [signature, {"h": header, tag: payload}] in DAG-CBOR, signed over the   *)
(* bytes of its second element or over that element's DAG-JSON text.       *)
(***************************************************************************)
EXTENDS Json, Varsig

Kinds == {"Delegation", "Invocation"}

\* TokenKind::tag, and the tags of release candidates.
DelegationTag == Codes("ucan/dlg@1.0.0")
InvocationTag == Codes("ucan/inv@1.0.0")
CandidateSuffix == Codes("-rc.1")
TagOf(kind) == IF kind = "Delegation" THEN DelegationTag ELSE InvocationTag
CandidateOf(kind) == TagOf(kind) \o CandidateSuffix

\* TokenKind::from_tag; lenient is DecodeOptions::release_candidate_tags.
KindOf(tag, lenient) ==
  LET kinds == {kind \in Kinds : tag = TagOf(kind) \/ (lenient /\ tag = CandidateOf(kind))}
  IN  IF kinds = {} THEN Fail("UnknownTag") ELSE Read(CHOOSE kind \in kinds : TRUE, 0)

HeaderKey == Codes("h")

\* The tags of a kind are no other's and come after the key of the header, and
\* no bytes of a pair begin as its text does (signing_input).
ASSUME EnvelopeAssumption ==
  /\ \A kind, other \in Kinds :
       kind # other => {TagOf(kind), CandidateOf(kind)} \cap {TagOf(other), CandidateOf(other)} = {}
  /\ \A kind \in Kinds : \A tag \in {TagOf(kind), CandidateOf(kind)} : Len(HeaderKey) < Len(tag)
  /\ OpenBrace # 5 * Infos + 2

\* sig_payload.
SigPayload(header, tag, payload) ==
  Map(Inserted(Inserted(<< >>, HeaderKey, Bytes(header)), tag, payload))

\* The forms of a signed element: what the key signs, and what is carried.
UnsignedOf(encoding, value) ==
  Then(Encode(value), LAMBDA carried, p :
    IF encoding = "DagCbor" THEN Read([signing |-> carried, carried |-> carried], 0)
    ELSE Then(EncodeJson(value), LAMBDA text, q : Read([signing |-> text, carried |-> carried], 0)))

\* Envelope::prepare.
Prepare(header, kind, payload) ==
  UnsignedOf(header.encoding, SigPayload(EncodeHeader(header), TagOf(kind), payload))

----------------------------------------------------------------------------
\* Reader::array_len and map_len.
LengthAt(s, pos, major) ==
  Then(HeadAt(s, pos), LAMBDA head, at :
    IF head.major # major THEN Fail("UnexpectedType") ELSE Read(head.arg, at))
\* The head of an array or a map of two, the shape of an envelope.
PairAt(s, pos, major) ==
  Then(LengthAt(s, pos, major), LAMBDA len, at : IF len = 2 THEN Read(len, at) ELSE Fail("Shape"))
TextAt(s, pos) == Utf8(StringAt(s, pos, 3))

\* Mutant: the text of a token is rebuilt with the tag the encoder writes.
SignedPartRetagged(s, from, to, encoding, header, tag, payload) ==
  IF encoding = "DagCbor" THEN Written(SubSeq(s, from + 1, to))
  ELSE EncodeJson(SigPayload(header, IF IsSuffix(CandidateSuffix, tag)
                                     THEN SubSeq(tag, 1, Len(tag) - Len(CandidateSuffix)) ELSE tag,
                             payload))

\* What the signature of the element between two positions covers.
SignedPart(s, from, to, encoding, header, tag, payload) ==
  IF encoding = "DagCbor" THEN Written(SubSeq(s, from + 1, to))
  ELSE EncodeJson(SigPayload(header, tag, payload))

\* From the payload on: it is a map and the last thing in the bytes.
OpenPayload(s, from, pos, raw, header, signature, tag, kind) ==
  Then(Item(s, pos, 0), LAMBDA payload, to :
    IF payload.kind # "map" THEN Fail("PayloadNotMap")
    ELSE IF to # Len(s) THEN Fail("TrailingBytes")
    ELSE Then(Signature(header.algorithm, signature), LAMBDA sig, p :
         Then(SignedPart(s, from, to, header.encoding, raw, tag, payload), LAMBDA signed, q :
           Read([header |-> header, signature |-> sig, signed |-> signed, kind |-> kind,
                 payload |-> payload], to))))

\* From the signed element on.
OpenSigned(s, from, signature, lenient) ==
  Then(PairAt(s, from, 5), LAMBDA two, at :
    Then(TextAt(s, at), LAMBDA key, afterKey :
      IF key # HeaderKey THEN Fail("Shape")
      ELSE Then(StringAt(s, afterKey, 2), LAMBDA raw, afterHeader :
           Then(DecodeHeader(raw), LAMBDA header, p :
           Then(TextAt(s, afterHeader), LAMBDA tag, afterTag :
           Then(KindOf(tag, lenient), LAMBDA kind, q :
             OpenPayload(s, from, afterTag, raw, header, signature, tag, kind)))))))

\* Envelope::open.
Open(s, lenient) ==
  Then(PairAt(s, 0, 4), LAMBDA two, at :
    Then(StringAt(s, at, 2), LAMBDA signature, from : OpenSigned(s, from, signature, lenient)))

\* The bytes of an envelope.
Sealed(signature, carried) == EncodeHead(4, 2) \o EncodeString(2, signature).value \o carried

\* What assemble carries: the element as DAG-CBOR, also when given as text.
CarriedOf(signed) ==
  IF signed # << >> /\ signed[1] = OpenBrace
  THEN Then(DecodeJson(signed), LAMBDA value, p : Encode(value))
  ELSE Written(signed)

\* Envelope::assemble: the bytes are opened under the strict rules.
Assemble(signed, signature) ==
  Then(CarriedOf(signed), LAMBDA carried, p :
    Then(Open(Sealed(signature, carried), FALSE), LAMBDA envelope, q :
      Read([envelope |-> envelope, bytes |-> Sealed(signature, carried)], 0)))

\* Envelope::verify.
EnvelopeError(envelope, key, made) ==
  IF key.algorithm # envelope.header.algorithm THEN "AlgorithmMismatch"
  ELSE VerifyError(key, envelope.signed, envelope.signature, made)
=============================================================================
