-------------------------------- MODULE Wire --------------------------------
(***************************************************************************)
(* What bytes and texts mean, whoever sent them: the properties of the     *)
(* codec that hold of any bytes at all.                                    *)
(***************************************************************************)
EXTENDS Cbor, Varint, Names

CONSTANTS
  Numbers,     \* numbers to write as varints
  Commands     \* commands to compare with

VARIABLES
  form,    \* what the bytes are read as
  sent,    \* what they were made of, None once they are altered
  bytes    \* as they arrive, in the characters or bytes of form

\* The numbers of a byte, in which varints and heads share the bits alike, and
\* those below number varints have groups for.
Byte == 0 .. Base - 1
Groupings[n \in 0 .. MaxGroups] == IF n = 0 THEN 1 ELSE Group * Groupings[n - 1]
LargestVarint == (MaxTop + 1) * Groupings[MaxGroups - 1] - 1

ASSUME WireAssumption ==
  /\ Base = 2 * Group
  /\ CidTag <= MaxArg
  /\ Cids \subseteq Seq(Byte)
  /\ Zero \in Seq(Byte) /\ Len(Zero) = FloatBytes /\ Zero \notin NotFinite /\ Zero # NegativeZero
  /\ Numbers \subseteq 0 .. LargestVarint
  /\ \A c \in Commands : c \in Seq(Nat) /\ CommandError(c) = "Ok"

\* What the program can hold: what is in memory has no more bytes or parts than
\* a length can say, and texts and keys are UTF-8.
IsText(text) == text \in Seq(Byte) /\ Len(text) <= MaxArg /\ NotUtf8 \notin ToSet(text)
IsNode(v) ==
  \/ v.kind = "simple" /\ v = Simple(v.name) /\ v.name \in {"false", "true", "null"}
  \/ v.kind = "integer" /\ v = Integer(v.num) /\ v.num \in Int
  \/ v.kind = "float" /\ v = Float(v.bytes) /\ v.bytes \in Seq(Byte) /\ Len(v.bytes) = FloatBytes
  \/ v.kind = "bytes" /\ v = Bytes(v.bytes) /\ v.bytes \in Seq(Byte) /\ Len(v.bytes) <= MaxArg
  \/ v.kind = "text" /\ v = Text(v.bytes) /\ IsText(v.bytes)
  \/ v.kind = "list" /\ v = List(v.items)
     /\ \E len \in 0 .. MaxArg : Len(v.items) = len /\ v.items = [k \in 1 .. len |-> v.items[k]]
  \/ v.kind = "map" /\ v = Map(v.of) /\ v.of = [key \in DOMAIN v.of |-> v.of[key]]
     /\ IsFiniteSet(DOMAIN v.of) /\ Cardinality(DOMAIN v.of) <= MaxArg
     /\ \A key \in DOMAIN v.of : IsText(key)
  \/ v.kind = "link" /\ v = Link(v.bytes) /\ v.bytes \in Cids /\ Len(v.bytes) < MaxArg
IsValue(v) == \A depth \in 0 .. MaxDepth + 1 : \A x \in LevelsOf(v)[depth] : IsNode(x)

\* A value as it is read back, plain giving that of what is nested in it: -0.0
\* is 0.0.
UnsignedItem(v, plain) ==
  CASE v.kind = "float" -> Float(FloatForm(v.bytes))
    [] v.kind = "list" -> List([k \in DOMAIN v.items |-> plain[v.items[k]]])
    [] v.kind = "map" -> Map([key \in DOMAIN v.of |-> plain[v.of[key]]])
    [] OTHER -> v
Unsigned(v) ==
  LET level == LevelsOf(v)
      plain[depth \in 0 .. MaxDepth + 1] ==
        [x \in level[depth] |-> IF depth > MaxDepth THEN x ELSE UnsignedItem(x, plain[depth + 1])]
  IN  plain[0][v]
----------------------------------------------------------------------------
\* No two byte strings decode to the same value: what is accepted is the one
\* form its value is encoded in (codec/mod.rs, what makes signing the bytes
\* safe).
OneFormPerValue ==
  form = "cbor" => LET read == Decode(bytes)
                   IN  IsOk(read) => Encode(read.value) = Written(bytes)

\* What encode writes, decode reads back as the same value: the encoder knows
\* no order, depth or length that the decoder refuses.
EncodedDecodes ==
  form = "cbor" /\ sent # None /\ IsOk(Encode(sent)) =>
    Decode(bytes) = Read(Unsigned(sent), Len(bytes))

\* A varint that is read is the form its number is written in, and a number
\* written before any bytes is read for what it is, whatever follows.
VarintsAreExact ==
  form = "cbor" =>
    /\ LET read == ReadUvarint(bytes)
       IN  read.error = "Ok" => PutUvarint(read.value) = SubSeq(bytes, 1, read.length)
    /\ \A n \in Numbers :
         LET varint == PutUvarint(n)
         IN  ReadUvarint(varint \o bytes) = [error |-> "Ok", value |-> n, length |-> Len(varint)]

\* One command covers another exactly when its segments begin the other's,
\* although the code compares text (command.rs, covers).
CoverageIsOnSegments ==
  form = "command" /\ CommandError(bytes) = "Ok" =>
    \A c \in Commands \cup {bytes} :
      /\ CoversText(c, bytes) <=> IsPrefix(SegmentsOf(c), SegmentsOf(bytes))
      /\ CoversText(bytes, c) <=> IsPrefix(SegmentsOf(bytes), SegmentsOf(c))
=============================================================================
