-------------------------------- MODULE Codec --------------------------------
(***************************************************************************)
(* What goes between two parties, in each of its forms: values as DAG-CBOR *)
(* or DAG-JSON, signed tokens, and the texts of commands, DIDs and         *)
(* selectors.  It is sent, altered on the way, or anyone's, in which case  *)
(* it arrives for as long as its reader may want more.                     *)
(***************************************************************************)
EXTENDS Tokens, SelectorText, Wire

CONSTANTS
  Values,      \* form -> what is sent in it
  Alphabet,    \* form -> its bytes or characters
  MaxLen,      \* bound: how many of them arrive
  Keys,        \* who signs
  Orders,      \* what builders were given: [kind, set, fragment]
  SignatureOf, \* algorithm -> the signature made under it
  Rewordings   \* what may be in a field that was altered

Forms == {"cbor", "json", "token", "command", "did", "selector"}

\* What is sent as DAG-CBOR can be held in memory, and so can its bytes.
ASSUME CodecAssumption ==
  /\ \A v \in Values["cbor"] : IsValue(v) /\ (IsOk(Encode(v)) => Len(Encode(v).value) <= MaxArg)
  /\ Alphabet["cbor"] \subseteq Byte
  /\ \A f \in {"command", "selector"} : Values[f] \subseteq Seq(Nat) /\ Alphabet[f] \subseteq Nat

VARIABLES
  made,    \* signatures, by whom and over what
  sealed   \* tokens as they were signed

vars == << form, sent, bytes, made, sealed >>

\* The form of what is sent; texts are sent as they are.
FormOf(f, what) ==
  CASE f = "cbor" -> Encode(what) [] f = "json" -> EncodeJson(what) [] OTHER -> Written(what)

\* Only bytes that end too early are worth waiting for.
MayGoOn(f, s) ==
  CASE f = "cbor" -> Decode(s).error = "UnexpectedEnd"
    [] f = "json" -> DecodeJson(s).error \in {"UnexpectedEnd", "Ok", "TrailingBytes"}
    [] f = "selector" ->
         LET read == ParseSelector(s)
         IN  \/ read.error \in {"Ok", "Empty", "TrailingDot", "UnterminatedString", "BadEscape"}
             \/ read.error = "Unexpected" /\ read.pos = Len(s)
    [] OTHER -> f # "token"

Init ==
  /\ form \in Forms
  /\ sent \in Values[form] \cup {None}
  /\ bytes = IF sent # None /\ IsOk(FormOf(form, sent)) THEN FormOf(form, sent).value ELSE << >>
  /\ made = {} /\ sealed = {}

Alter(k, byte) ==
  /\ sent # None
  /\ form # "token" => IsOk(FormOf(form, sent))
  /\ sent' = None
  /\ bytes' = IF k \in DOMAIN bytes THEN [bytes EXCEPT ![k] = byte] ELSE Append(bytes, byte)
  /\ UNCHANGED << form, made, sealed >>

Arrive(byte) ==
  /\ sent = None
  /\ Len(bytes) < MaxLen[form]
  /\ MayGoOn(form, bytes)
  /\ bytes' = Append(bytes, byte)
  /\ UNCHANGED << form, sent, made, sealed >>

----------------------------------------------------------------------------
(* Tokens.                                                                 *)

\* What a builder makes of an order for the key that issues it.
PayloadFor(order, key) == Build(order.kind, order.set, DidOfKey(key) \o order.fragment)

\* A token is built, and the key its issuer names signs it: at once, or as
\* prepare_with and assemble, where the header may ask for text.
Sign(order, key, encoding) ==
  LET header == [algorithm |-> key.algorithm, encoding |-> encoding]
      payload == PayloadFor(order, key)
      unsigned == PrepareToken(header, order.kind, payload)
      signature == SignatureOf[key.algorithm]
  IN  /\ sealed = {}
      /\ IsOk(unsigned)
      /\ bytes' = Sealed(signature, unsigned.value.carried)
      /\ made' = {[key |-> key, message |-> unsigned.value.signing, signature |-> signature]}
      /\ sent' = [kind |-> order.kind, header |-> header, signature |-> signature,
                  payload |-> payload,
                  signing |-> unsigned.value.signing, carried |-> unsigned.value.carried]
      /\ sealed' = {sent'}
      /\ UNCHANGED form

\* The token again, with its signature, under another header or tag or with
\* other fields.
Reseal(header, tag, of) ==
  LET carried == Encode(SigPayload(EncodeHeader(header), tag, Map(of)))
  IN  /\ IsOk(carried)
      /\ bytes' = Sealed(sent.signature, carried.value)
      /\ sent' = None
      /\ UNCHANGED << form, made, sealed >>

Relabel(header, tag) ==
  /\ sent # None
  /\ Reseal(header, tag, ToIpld(sent.kind, sent.payload).of)

Reword(field, value) ==
  /\ sent # None
  /\ Reseal(sent.header, TagOf(sent.kind), Inserted(ToIpld(sent.kind, sent.payload).of, field, value))

DropField(field) ==
  /\ sent # None
  /\ LET of == ToIpld(sent.kind, sent.payload).of
     IN  /\ field \in DOMAIN of
         /\ Reseal(sent.header, TagOf(sent.kind), Restrict(of, DOMAIN of \ {field}))

Tags == {TagOf(kind) : kind \in Kinds} \cup {CandidateOf(kind) : kind \in Kinds}
\* The last is a field that no token has.
WireFields == {Field[name] : name \in FieldNames} \cup {Codes("x")}

\* The signatures that verify where key's does.
Taken(key) == WithTwins(key.algorithm, SignatureOf[key.algorithm])

\* So can tokens, and whatever takes the place of what is in them.
ASSUME TokensFit ==
  /\ Values["token"] = {} /\ Alphabet["token"] \subseteq Byte
  /\ IsNode(Map([field \in WireFields |-> NullValue])) /\ MaxArg >= 2
  /\ \A tag \in Tags \cup {HeaderKey} : IsText(tag)
  /\ \A header \in Headers : IsNode(Bytes(EncodeHeader(header)))
  /\ \A key \in Keys :
       key.algorithm \in Algorithms /\ \A mark \in Taken(key) : IsNode(Bytes(mark))
  /\ \A order \in Orders : order.kind \in Kinds
  /\ \A order \in Orders, key \in Keys :
       LET payload == PayloadFor(order, key)
       IN  /\ DOMAIN payload = FieldsOf(order.kind) /\ IsValue(ToIpld(order.kind, payload))
           /\ order.kind = "Invocation" => payload.prf \in Seq(Cids)
           /\ \A encoding \in Encodings :
                LET header == [algorithm |-> key.algorithm, encoding |-> encoding]
                    unsigned == PrepareToken(header, order.kind, payload)
                IN  IsOk(unsigned) =>
                      \A mark \in Taken(key) : Len(Sealed(mark, unsigned.value.carried)) <= MaxArg
  /\ \A value \in Rewordings : IsValue(value)

\* Keys are what PublicKey::new makes, and their codes fit in a varint.
ASSUME KeysFit ==
  /\ \A key \in Keys : key.bytes \in Seq(Byte) /\ PublicKey(key.algorithm, key.bytes) = Read(key, 0)
  /\ \A algorithm \in Algorithms : Multicodec(algorithm) <= LargestVarint
  /\ Values["did"] \subseteq Seq(Nat) /\ Alphabet["did"] \subseteq Nat

Next ==
  \/ \E byte \in Alphabet[form] :
       \/ \E k \in 1 .. Len(bytes) + 1 : Alter(k, byte)
       \/ Arrive(byte)
  \/ /\ form = "token"
     /\ \/ \E order \in Orders, key \in Keys, encoding \in Encodings : Sign(order, key, encoding)
        \/ \E header \in Headers, tag \in Tags : Relabel(header, tag)
        \/ \E field \in WireFields : DropField(field) \/ \E value \in Rewordings : Reword(field, value)
Spec == Init /\ [][Next]_vars
----------------------------------------------------------------------------
(* Values.                                                                 *)

\* The parser of DAG-JSON counts two levels for a link and three for bytes: it
\* finds none of v deeper than it goes.
IsFollowed(v) ==
  \A depth \in 0 .. MaxDepth + 1 : \A x \in LevelsOf(v)[depth] :
    depth + (CASE x.kind = "link" -> 1 [] x.kind = "bytes" -> 2 [] OTHER -> 0) <= MaxDepth

\* What json::encode emits, json::decode reads back as the same value: every
\* escape, number and reserved map it writes, with links and bytes no deeper
\* than the parser follows them.  Any text that is accepted has a form in bytes
\* too, which is read as the same value.
EmittedIsReadBack ==
  form = "json" =>
    LET read == DecodeJson(bytes)
    IN  /\ sent # None /\ IsOk(EncodeJson(sent)) =>
             read = IF IsFollowed(sent) THEN Read(sent, Len(bytes))
                    ELSE Fail("NestingTooDeep")
        /\ IsOk(read) /\ NotUtf8 \notin ToSet(bytes) =>
             IsOk(Encode(read.value)) /\ Decode(Encode(read.value).value).value = read.value

\* codec/json.rs:6, "The decoder accepts exactly what the encoder emits."
EmittedTextIsAccepted ==
  form = "json" /\ sent # None /\ IsOk(EncodeJson(sent)) => IsOk(DecodeJson(bytes))
----------------------------------------------------------------------------
(* Tokens.                                                                 *)

UnsignedPayload(payload) ==
  [name \in DOMAIN payload |->
     IF name \in {"args", "meta"} THEN Unsigned(Map(payload[name])).of
     ELSE IF name = "pol" THEN Unsigned(payload[name]) ELSE payload[name]]

\* The bytes are those of a token as it was signed, but for its signature, in
\* the place of which a twin may be, and token is what that one says.
IsSealed(kind, token) ==
  LET mark == token.envelope.signature.bytes
  IN  \E signed \in sealed :
        /\ mark \in WithTwins(signed.header.algorithm, signed.signature)
        /\ bytes = Sealed(mark, signed.carried)
        /\ signed.kind = kind
        /\ token.payload = UnsignedPayload(signed.payload)

\* A token that is read and verifies, as whatever kind and with the tags of
\* release candidates let in, carries the element that its key signed, byte for
\* byte, and says what its builder was told; of the bytes around the element
\* only the signature can differ, and only where a backend takes another for
\* it, which gives the token another CID (envelope.rs, open and verify).
WhatVerifiesWasSigned ==
  form = "token" =>
    \A kind \in Kinds :
      \A read \in {DecodeToken(kind, bytes, TRUE)} :
        IsOk(read) /\ VerifyToken(read.value, made) = "Ok" => IsSealed(kind, read.value)

\* What a builder seals is read back as the payload it was built from and
\* verifies under the key its issuer names, and assembling the signing bytes,
\* as bytes or as text, gives the same token; the task of an invocation is the
\* same for who built it and who reads it (delegation.rs and invocation.rs,
\* sign, prepare_with, assemble and task_id).  Text that nests too deep for its
\* parser is the one exception.
SignedIsReadBack ==
  form = "token" /\ sent # None =>
    \A read \in {DecodeToken(sent.kind, bytes, FALSE)} :
      /\ IsOk(read)
      /\ read.value.payload = UnsignedPayload(sent.payload)
      /\ sent.kind = "Invocation" =>
           /\ IsOk(TaskOf(read.value.payload))
           /\ TaskOf(read.value.payload) = TaskOf(sent.payload)
      /\ VerifyToken(read.value, made) =
           IF sent.header.algorithm \in Available THEN "Ok" ELSE "Unsupported"
      /\ \A signed \in {sent.carried, sent.signing} :
           \/ AssembleToken(sent.kind, signed, sent.signature) =
                Read([token |-> read.value, bytes |-> bytes], 0)
           \/ signed # sent.carried /\ DecodeJson(signed) = Fail("NestingTooDeep")

\* A token that is read says all that its bytes say: its payload written again
\* is what arrived, up to the empty facts a delegation may have (to_ipld and
\* from_ipld, Fields::finish).
NothingSignedIsDropped ==
  form = "token" =>
    \A kind \in Kinds :
      \A read \in {DecodeToken(kind, bytes, TRUE)} :
        IsOk(read) =>
          \A written \in {ToIpld(kind, read.value.payload)} :
            read.value.envelope.payload \in
              {written} \cup
                IF kind = "Delegation" THEN {Map(Inserted(written.of, Field["meta"], Map(NoFacts)))} ELSE {}
----------------------------------------------------------------------------
(* Texts.                                                                  *)

\* A text parses as a selector exactly when the grammar of docs/validation.md
\* has a reading of it, and then as that reading, of which there is one; but for
\* the characters of quoted keys, which are JSON's there and here those that
\* UnitReadings gives, in three ways not JSON's (selector.rs, parse and quoted).
SelectorReadsItsGrammar ==
  form = "selector" =>
    SelectorReadings(bytes) = LET read == ParseSelector(bytes)
                              IN  IF IsOk(read) THEN {read.value} ELSE {}

\* A DID resolves to a key exactly when its base is the did:key of that key:
\* no key goes by two names, so that principals are the same when their names
\* are (did.rs, key, from_key and same_principal).
KeyAndDidNameEachOther ==
  form = "did" /\ DidError(bytes) = "Ok" =>
    /\ IsOk(Resolve(bytes)) => BaseOf(bytes) = DidOfKey(Resolve(bytes).value)
    /\ \A key \in Keys : BaseOf(bytes) = DidOfKey(key) => Resolve(bytes) = Read(key, 0)
=============================================================================
