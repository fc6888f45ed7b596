-------------------------------- MODULE Cbor --------------------------------
(***************************************************************************)
(* Strict DAG-CBOR in both directions (src/codec): values to bytes, and    *)
(* bytes that are accepted back to values.                                 *)
(*                                                                         *)
(* A byte is a number; its head is a major type and Infos low values, of   *)
(* which the first Direct hold an argument, the next Widths announce one   *)
(* of 1, 2, ... bytes (1, 2, 4 and 8 in the code), the last announces an   *)
(* indefinite length and the rest are reserved.  Positions count the bytes *)
(* read.                                                                   *)
(***************************************************************************)
EXTENDS Integers, Reading, SequencesExt

CONSTANTS
  Infos, Direct, Widths,
  MaxDepth,    \* MAX_DEPTH
  CidTag,      \* CID_TAG
  Cids,        \* external: the CIDs, as bytes; none begins another
  NotUtf8,     \* external: a byte no UTF-8 text has
  FloatBytes,  \* bytes of a float
  NotFinite,   \* external: the floats that are not finite, as bytes
  Zero, NegativeZero

ASSUME CborAssumption ==
  /\ Direct \in Nat /\ Direct >= 4 /\ Widths \in Nat \ {0}
  /\ Infos \in Nat /\ Infos > Direct + Widths
  /\ MaxDepth \in Nat /\ CidTag \in Nat
  /\ FloatBytes \in Nat
  /\ \A a, b \in Cids : IsPrefix(a, b) => a = b

Base == 8 * Infos
Power[n \in 0 .. Widths] == IF n = 0 THEN 1 ELSE Base * Power[n - 1]

\* The largest argument that takes w bytes; usize holds the same as u64.
Largest(w) == IF w = 0 THEN Direct - 1 ELSE Power[w] - 1
MaxArg == Largest(Widths)

\* Values.
Simple(name) == [kind |-> "simple", name |-> name]
Integer(n) == [kind |-> "integer", num |-> n]
Float(bytes) == [kind |-> "float", bytes |-> bytes]
Bytes(bytes) == [kind |-> "bytes", bytes |-> bytes]
Text(bytes) == [kind |-> "text", bytes |-> bytes]
List(items) == [kind |-> "list", items |-> items]
Map(of) == [kind |-> "map", of |-> of]
Link(cid) == [kind |-> "link", bytes |-> cid]

\* canonical_order: shorter first, then bytewise.
KeyBelow(a, b) ==
  \/ Len(a) < Len(b)
  \/ /\ Len(a) = Len(b)
     /\ \E k \in DOMAIN a : a[k] < b[k] /\ \A j \in 1 .. k - 1 : a[j] = b[j]

----------------------------------------------------------------------------
(* The encoder.                                                            *)

BigEndian(n, w) == [k \in 1 .. w |-> (n \div Power[w - k]) % Base]

\* encode::head: the shortest form of an argument.
HeadIn(w, major, arg) ==
  << major * Infos + (IF w = 0 THEN arg ELSE Direct + w - 1) >> \o BigEndian(arg, w)
EncodeHead(major, arg) ==
  HeadIn(CHOOSE w \in 0 .. Widths : arg <= Largest(w) /\ (w > 0 => arg > Largest(w - 1)), major, arg)

\* The last four low values that need no argument: 20, 21, 22, and 23 (undefined).
SimpleInfo(name) == Direct - (CASE name = "false" -> 4 [] name = "true" -> 3 [] name = "null" -> 2)
FloatInfo == Direct + Widths - 1

FloatForm(bytes) == IF bytes = NegativeZero THEN Zero ELSE bytes

\* The order of a BTreeMap.
BytewiseBelow(a, b) ==
  \/ IsStrictPrefix(a, b)
  \/ \E k \in DOMAIN a \cap DOMAIN b : a[k] < b[k] /\ \A j \in 1 .. k - 1 : a[j] = b[j]

\* Each element at the place its rank gives it.
Sorted(S, Below(_, _)) ==
  LET rank == [x \in S |-> Cardinality({y \in S : Below(y, x)})]
  IN  [k \in 1 .. Cardinality(S) |-> CHOOSE x \in S : rank[x] = k - 1]

\* The keys of a map in the order of its text.  Mutant of KeysOf.
KeysOfBytewise(of) == Sorted(DOMAIN of, BytewiseBelow)
KeysOf(of) == Sorted(DOMAIN of, KeyBelow)

Written(bytes) == Read(bytes, 0)

\* One after another, or the first error.
Joined(parts) ==
  LET failed == {k \in DOMAIN parts : ~IsOk(parts[k])}
  IN  IF failed = {} THEN Written(FlattenSeq([k \in DOMAIN parts |-> parts[k].value]))
      ELSE parts[Min(failed)]

EncodeString(major, bytes) == Written(EncodeHead(major, Len(bytes)) \o bytes)

EncodeInteger(major, arg) ==
  IF arg > MaxArg THEN Fail("IntegerOutOfRange") ELSE Written(EncodeHead(major, arg))

\* form[value] is what a value nested in this one is written as.
EncodeItems(items, form) == [k \in DOMAIN items |-> form[items[k]]]

EncodeEntries(keys, of, form) ==
  [k \in DOMAIN keys |-> Joined(<< EncodeString(3, keys[k]), form[of[keys[k]]] >>)]

EncodeItem(v, depth, form) ==
  IF depth > MaxDepth THEN Fail("NestingTooDeep")
  ELSE CASE v.kind = "simple" -> Written(<< 7 * Infos + SimpleInfo(v.name) >>)
         [] v.kind = "integer" -> IF v.num >= 0 THEN EncodeInteger(0, v.num)
                                  ELSE EncodeInteger(1, -1 - v.num)
         [] v.kind = "float" ->
              IF v.bytes \in NotFinite THEN Fail("InvalidFloat")
              ELSE Written(<< 7 * Infos + FloatInfo >> \o FloatForm(v.bytes))
         [] v.kind = "bytes" -> EncodeString(2, v.bytes)
         [] v.kind = "text" -> EncodeString(3, v.bytes)
         [] v.kind = "list" ->
              Joined(<< Written(EncodeHead(4, Len(v.items))) >> \o EncodeItems(v.items, form))
         [] v.kind = "map" ->
              Joined(<< Written(EncodeHead(5, Cardinality(DOMAIN v.of))) >>
                     \o EncodeEntries(KeysOf(v.of), v.of, form))
         [] v.kind = "link" ->
              Joined(<< Written(EncodeHead(6, CidTag)), EncodeString(2, << 0 >> \o v.bytes) >>)

Parts(v) ==
  CASE v.kind = "list" -> {v.items[k] : k \in DOMAIN v.items}
    [] v.kind = "map" -> {v.of[key] : key \in DOMAIN v.of}
    [] OTHER -> {}

\* The values so deep in v, at each depth.
LevelsOf(v) ==
  LET level[depth \in 0 .. MaxDepth + 1] ==
        IF depth = 0 THEN {v} ELSE UNION {Parts(x) : x \in level[depth - 1]}
  IN  level

\* form[depth] is what the values so deep are written as.
Encode(v) ==
  LET level == LevelsOf(v)
      form[depth \in 0 .. MaxDepth + 1] ==
        [x \in level[depth] |-> EncodeItem(x, depth, form[depth + 1])]
  IN  form[0][v]

----------------------------------------------------------------------------
(* The decoder.  Each operator reads from position pos of s, as a Reader   *)
(* does, and stops at the first error.                                     *)

\* Reader::take.
Take(s, pos, len) ==
  IF pos + len > MaxArg THEN Fail("LengthTooLarge")
  ELSE IF pos + len > Len(s) THEN Fail("UnexpectedEnd")
  ELSE Read(SubSeq(s, pos + 1, pos + len), pos + len)

BigEndianValue(bytes) ==
  LET value[k \in 0 .. Len(bytes)] == IF k = 0 THEN 0 ELSE value[k - 1] * Base + bytes[k]
  IN  value[Len(bytes)]

\* The largest argument refused in w bytes, as it takes fewer.
Narrower(w) == Largest(w - 1)

Minimal(arg, w, pos) ==
  IF arg <= Narrower(w) THEN Fail("NonMinimalInteger") ELSE Read(arg, pos)

\* Reader::argument.
Argument(s, pos, info) ==
  IF info < Direct THEN Read(info, pos)
  ELSE IF info < Direct + Widths
  THEN Then(Take(s, pos, info - Direct + 1),
            LAMBDA field, at : Minimal(BigEndianValue(field), Len(field), at))
  ELSE IF info = Infos - 1 THEN Fail("IndefiniteLength")
  ELSE Fail("Reserved")

Major(s, pos) == s[pos + 1] \div Infos
Info(s, pos) == s[pos + 1] % Infos

\* Reader::head.
HeadAt(s, pos) ==
  IF pos >= Len(s) THEN Fail("UnexpectedEnd")
  ELSE IF Major(s, pos) = 7 THEN Fail("UnexpectedType")
  ELSE Then(Argument(s, pos + 1, Info(s, pos)),
            LAMBDA arg, at : Read([major |-> Major(s, pos), arg |-> arg], at))

\* Reader::bytes and Reader::text: the bytes of a string of the major type.
StringAt(s, pos, major) ==
  Then(HeadAt(s, pos), LAMBDA head, at :
         IF head.major # major THEN Fail("UnexpectedType") ELSE Take(s, at, head.arg))

Utf8(r) ==
  Then(r, LAMBDA bytes, at : IF NotUtf8 \in ToSet(bytes) THEN Fail("InvalidUtf8") ELSE r)
Renamed(r, from, to) == IF r.error = from THEN Fail(to) ELSE r
As(r, Make(_)) == Then(r, LAMBDA value, at : Read(Make(value), at))

\* A zero with a sign would be a second form of zero.
IsFloat(bytes) == bytes \notin NotFinite /\ bytes # NegativeZero

\* Reader::simple.
SimpleAt(s, pos, info) ==
  IF info \in {SimpleInfo("false"), SimpleInfo("true"), SimpleInfo("null")}
  THEN Read(Simple(CHOOSE name \in {"false", "true", "null"} : info = SimpleInfo(name)), pos)
  ELSE IF info = FloatInfo
  THEN Then(Take(s, pos, FloatBytes), LAMBDA bytes, at :
              IF IsFloat(bytes) THEN Read(Float(bytes), at) ELSE Fail("InvalidFloat"))
  ELSE IF info \in Direct + 1 .. FloatInfo - 1 THEN Fail("InvalidFloat")
  ELSE IF info = Infos - 1 THEN Fail("IndefiniteLength")
  ELSE Fail("UnsupportedSimple")

\* Mutant: the parser's word is taken for it, whatever follows the CID.
IsCidOpen(raw) == \E cid \in Cids : IsPrefix(cid, raw)
\* cid::from_bytes: what the parser reads is all there is.
IsCid(raw) == \E cid \in Cids : IsPrefix(cid, raw) /\ cid = raw
\* external: the CID that raw begins with.
CidIn(raw) == CHOOSE cid \in Cids : IsPrefix(cid, raw)

\* Reader::link.
LinkAt(s, pos, tag) ==
  IF tag # CidTag THEN Fail("UnsupportedTag")
  ELSE Then(Renamed(StringAt(s, pos, 2), "UnexpectedType", "InvalidCid"), LAMBDA raw, at :
              IF raw # << >> /\ raw[1] = 0 /\ IsCid(Tail(raw))
              THEN Read(Link(CidIn(Tail(raw))), at)
              ELSE Fail("InvalidCid"))

\* What is wrong with a key that follows the previous one.
Misorder(key, previous) ==
  IF key = previous THEN "DuplicateKey"
  ELSE IF KeyBelow(key, previous) THEN "UnsortedKeys"
  ELSE "Ok"

\* item[pos] is what is read of a value nested in this one.
Items(s, pos, len, item) ==
  LET read[k \in 0 .. len] ==
        IF k = 0 THEN Read(<< >>, pos)
        ELSE Then(read[k - 1], LAMBDA items, at :
               Then(item[at], LAMBDA next, after :
                 Read(Append(items, next), after)))
  IN  read[len]

\* BTreeMap::insert.
Inserted(of, key, value) ==
  [k \in DOMAIN of \cup {key} |-> IF k = key THEN value ELSE of[k]]

\* done.previous is << >> or the key before, in a sequence.
Entry(s, pos, done, item) ==
  Then(Renamed(Utf8(StringAt(s, pos, 3)), "UnexpectedType", "NonStringKey"), LAMBDA key, at :
    IF done.previous # << >> /\ Misorder(key, done.previous[1]) # "Ok"
    THEN Fail(Misorder(key, done.previous[1]))
    ELSE Then(item[at], LAMBDA next, after :
           Read([of |-> Inserted(done.of, key, next), previous |-> << key >>], after)))

\* Reader::map.
Entries(s, pos, len, item) ==
  LET read[k \in 0 .. len] ==
        IF k = 0 THEN Read([of |-> << >>, previous |-> << >>], pos)
        ELSE Then(read[k - 1], LAMBDA done, at : Entry(s, at, done, item))
  IN  Then(read[len], LAMBDA done, at : Read(done.of, at))

\* Reader::item.
ItemFrom(s, pos, depth, item) ==
  IF depth > MaxDepth THEN Fail("NestingTooDeep")
  ELSE IF pos >= Len(s) THEN Fail("UnexpectedEnd")
  ELSE IF Major(s, pos) = 7 THEN SimpleAt(s, pos + 1, Info(s, pos))
  ELSE Then(HeadAt(s, pos), LAMBDA head, at :
         CASE head.major = 0 -> Read(Integer(head.arg), at)
           [] head.major = 1 -> Read(Integer(-1 - head.arg), at)
           [] head.major = 2 -> As(Take(s, at, head.arg), Bytes)
           [] head.major = 3 -> As(Utf8(Take(s, at, head.arg)), Text)
           [] head.major = 4 -> As(Items(s, at, head.arg, item), List)
           [] head.major = 5 -> As(Entries(s, at, head.arg, item), Map)
           [] head.major = 6 -> LinkAt(s, at, head.arg))

Item(s, pos, depth) ==
  LET item[deep \in 0 .. MaxDepth + 1] ==
        [at \in 0 .. Len(s) |-> ItemFrom(s, at, deep, item[deep + 1])]
  IN  item[depth][pos]

\* decode: one value that spans the whole input.
Decode(s) ==
  Then(Item(s, 0, 0), LAMBDA value, at :
         IF at = Len(s) THEN Read(value, at) ELSE Fail("TrailingBytes"))
=============================================================================
