-------------------------------- MODULE Json --------------------------------
(***************************************************************************)
(* Strict DAG-JSON in both directions (src/codec/json.rs), over the values *)
(* of Cbor: what is Text there is a sequence of characters here, and bytes *)
(* are numbers of eight bits.                                              *)
(***************************************************************************)
EXTENDS Cbor, Chars

CONSTANT CidTexts  \* external: the texts each CID is read from, its own first

ASSUME JsonAssumption ==
  /\ Base <= 256
  /\ \A cid, other \in Cids : cid # other => ToSet(CidTexts[cid]) \cap ToSet(CidTexts[other]) = {}
  /\ \A cid \in Cids : /\ CidTexts[cid] \in Seq(Seq(Nat)) /\ CidTexts[cid] # << >>
                        /\ Code["\""] \notin ToSet(CidTexts[cid][1])

NullWord == Codes("null")
TrueWord == Codes("true")
FalseWord == Codes("false")
BytesKey == Codes("bytes")
LinkStart == Codes("{\"/\":\"")
LinkStop == Codes("\"}")
BytesStart == Codes("{\"/\":{\"bytes\":\"")
BytesStop == Codes("\"}}")
EscapedUnicode == Codes("\\u")

Base64Alphabet == Codes("ABCDEFGHIJKLMNOPQRSTUVWXYZabcdefghijklmnopqrstuvwxyz0123456789+/")
SymbolOf == [n \in 0 .. 63 |-> Base64Alphabet[n + 1]]
ValueOf == [symbol \in ToSet(Base64Alphabet) |-> CHOOSE n \in 0 .. 63 : SymbolOf[n] = symbol]
HexDigit == [n \in 0 .. 15 |-> Codes("0123456789abcdef")[n + 1]]
PowerOf2 == [n \in 0 .. 7 |-> CASE n = 0 -> 1 [] n = 1 -> 2 [] n = 2 -> 4 [] n = 3 -> 8
                                 [] n = 4 -> 16 [] n = 5 -> 32 [] n = 6 -> 64 [] n = 7 -> 128]

\* check_range, the integers of Cbor.
InRange(n) == (IF n >= 0 THEN n ELSE -1 - n) <= MaxArg

----------------------------------------------------------------------------
(* The encoder.                                                            *)

\* external: i128::to_string, the sign before the digits.
NumeralOf(m) ==
  IF m = 0 THEN << Code["0"] >>
  ELSE [k \in DOMAIN DigitsIn(10, m) |-> Code["0"] + DigitsIn(10, m)[k]]
DecimalOf(n) == IF n < 0 THEN << Dash >> \o NumeralOf(-n) ELSE NumeralOf(n)

\* Mutant: only what has a letter is escaped.
EscapedLetters(c) ==
  IF c \in DOMAIN EscapeOf THEN << Backslash, EscapeOf[c] >> ELSE << c >>

\* string: quotes, backslashes and controls are escaped, nothing else.
Escaped(c) ==
  IF c \in DOMAIN EscapeOf THEN << Backslash, EscapeOf[c] >>
  ELSE IF c \in Controls
  THEN EscapedUnicode \o << Code["0"], Code["0"], HexDigit[c \div 16], HexDigit[c % 16] >>
  ELSE << c >>
StringText(chars) ==
  << Quote >> \o FlattenSeq([k \in DOMAIN chars |-> Escaped(chars[k])]) \o << Quote >>

\* base64_encode: six bits a symbol, the last filled up with zeros.
BitOf(bytes, j) ==
  IF j \div 8 < Len(bytes) THEN (bytes[j \div 8 + 1] \div PowerOf2[7 - (j % 8)]) % 2 ELSE 0
SixBits(bytes, j) ==
  32 * BitOf(bytes, j) + 16 * BitOf(bytes, j + 1) + 8 * BitOf(bytes, j + 2)
    + 4 * BitOf(bytes, j + 3) + 2 * BitOf(bytes, j + 4) + BitOf(bytes, j + 5)
Base64Of(bytes) ==
  [k \in 1 .. (8 * Len(bytes) + 5) \div 6 |-> SymbolOf[SixBits(bytes, 6 * (k - 1))]]

\* Texts with commas between.
Enclosed(open, parts, close) ==
  LET last == 2 * Len(parts) + 1
      Sign(k) == IF k = 1 THEN open ELSE IF k = last THEN close ELSE Comma
  IN  IF Len(parts) = 0 THEN Written(<< open, close >>)
      ELSE Joined([k \in 1 .. last |-> IF k % 2 = 0 THEN parts[k \div 2] ELSE Written(<< Sign(k) >>)])

\* text[value] is what a value nested in this one is written as.
JsonItems(items, text) == [k \in DOMAIN items |-> text[items[k]]]
JsonEntries(keys, of, text) ==
  [k \in DOMAIN keys |->
     Joined(<< Written(StringText(keys[k]) \o << Colon >>), text[of[keys[k]]] >>)]

\* item.
JsonItem(v, depth, text) ==
  IF depth > MaxDepth THEN Fail("NestingTooDeep")
  ELSE CASE v.kind = "simple" ->
              Written(CASE v.name = "null" -> NullWord [] v.name = "true" -> TrueWord
                        [] v.name = "false" -> FalseWord)
         [] v.kind = "integer" ->
              IF InRange(v.num) THEN Written(DecimalOf(v.num)) ELSE Fail("IntegerOutOfRange")
         [] v.kind = "float" -> Fail("FloatInText")
         [] v.kind = "text" -> Written(StringText(v.bytes))
         [] v.kind = "bytes" -> Written(BytesStart \o Base64Of(v.bytes) \o BytesStop)
         [] v.kind = "list" -> Enclosed(OpenBracket, JsonItems(v.items, text), CloseBracket)
         [] v.kind = "map" ->
              IF << Slash >> \in DOMAIN v.of THEN Fail("ReservedKey")
              ELSE Enclosed(OpenBrace, JsonEntries(KeysOfBytewise(v.of), v.of, text), CloseBrace)
         [] v.kind = "link" -> Written(LinkStart \o CidTexts[v.bytes][1] \o LinkStop)

\* text[depth] is what the values so deep are written as.
EncodeJson(v) ==
  LET level == LevelsOf(v)
      text[depth \in 0 .. MaxDepth + 1] ==
        [x \in level[depth] |-> JsonItem(x, depth, text[depth + 1])]
  IN  text[0][v]

\* The characters a value begins with, and those that may follow one.
Starts == << NullWord[1], TrueWord[1], FalseWord[1], Dash, Quote, OpenBracket, OpenBrace >>
Follows == << Comma, CloseBracket, CloseBrace >>

\* What the texts above are: starts and symbols that differ, and escapes that
\* neither a letter nor a quote is taken for.
ASSUME JsonTextAssumption ==
  /\ {NullWord, TrueWord, FalseWord} \subseteq Seq(Nat) \ {<< >>}
  /\ Starts \in Seq(Nat) /\ \A j, k \in 1 .. 7 : Starts[j] = Starts[k] => j = k
  /\ Code["0"] \in Nat /\ \A n \in 0 .. 9 : Code["0"] + n \notin ToSet(Starts) \cup ToSet(Follows)
  /\ Follows \in Seq(Nat) /\ \A j, k \in 1 .. 3 : Follows[j] = Follows[k] => j = k
  /\ ToSet(Starts) \cap ToSet(Follows) = {} /\ Colon \in Nat
  /\ LinkStart = << OpenBrace, Quote, Slash, Quote, Colon, Quote >>
  /\ BytesStart \in Seq(Nat) /\ Len(BytesStart) > 6
  /\ SubSeq(BytesStart, 1, 6) = << OpenBrace, Quote, Slash, Quote, Colon, OpenBrace >>
  /\ LinkStop = << Quote, CloseBrace >> /\ BytesStop = << Quote, CloseBrace, CloseBrace >>
  /\ Base64Alphabet \in Seq(Nat) /\ Len(Base64Alphabet) = 64 /\ Quote \notin ToSet(Base64Alphabet)
  /\ \A j, k \in 1 .. 64 : Base64Alphabet[j] = Base64Alphabet[k] => j = k
  /\ HexDigit \in [0 .. 15 -> Nat] /\ \A j, k \in 0 .. 15 : HexDigit[j] = HexDigit[k] => j = k
  /\ {Quote, Backslash} \subseteq DOMAIN EscapeOf /\ Slash \in Nat \ (DOMAIN EscapeOf \cup Controls)
  /\ EscapedUnicode = << Backslash, Code["u"] >> /\ {Backslash, Code["u"]} \subseteq Nat \ {Quote}
  /\ \A c \in DOMAIN EscapeOf : EscapeOf[c] \in Nat \ {Code["u"]}
  /\ \A c, d \in DOMAIN EscapeOf : EscapeOf[c] = EscapeOf[d] => c = d

----------------------------------------------------------------------------
(* The parser.  Each operator reads from position pos of s.                *)

\* Parser::expect.
Expect(s, pos, c) ==
  IF At(s, pos) = End THEN Fail("UnexpectedEnd")
  ELSE IF At(s, pos) = c THEN Read(c, pos + 1) ELSE Fail("InvalidJson")

\* Parser::literal.
Literal(s, pos, word, value) ==
  IF Begins(s, pos, word) THEN Read(value, pos + Len(word)) ELSE Fail("InvalidJson")

NumberText(s, start, digits, past) ==
  IF past = digits THEN Fail("InvalidJson")
  ELSE IF At(s, past) \in {Dot, Code["e"], Code["E"]} THEN Fail("FloatInText")
  ELSE Read(IF start = digits THEN DecimalNumber(SubSeq(s, start + 1, past))
            ELSE -DecimalNumber(SubSeq(s, digits + 1, past)), past)

\* Parser::number.
NumberAt(s, pos) ==
  LET digits == IF At(s, pos) = Dash THEN pos + 1 ELSE pos
  IN  Then(NumberText(s, pos, digits, PastAll(s, digits, Digits)), LAMBDA n, at :
             IF InRange(n) THEN Read(Integer(n), at) ELSE Fail("IntegerOutOfRange"))

\* Parser::hex4.
Hex4(s, pos) ==
  IF pos + 4 > Len(s) THEN Fail("UnexpectedEnd")
  ELSE IF IsHex(SubSeq(s, pos + 1, pos + 4))
  THEN Read(HexNumber(SubSeq(s, pos + 1, pos + 4)), pos + 4)
  ELSE Fail("InvalidJson")

FirstPair == 65536       \* 0x1_0000

Unicode(s, pos) ==
  Then(Hex4(s, pos), LAMBDA code, at :
    IF code \in High
    THEN Then(Literal(s, at, EscapedUnicode, code), LAMBDA high, mid :
           Then(Hex4(s, mid), LAMBDA low, past :
             IF low \in Low
             THEN Read(FirstPair + 1024 * (high - Min(High)) + (low - Min(Low)), past)
             ELSE Fail("InvalidJson")))
    ELSE IF code \in Low THEN Fail("InvalidJson")
    ELSE Read(code, at))

\* Parser::escape, after the backslash.
EscapeAt(s, pos) ==
  IF At(s, pos) = End THEN Fail("UnexpectedEnd")
  ELSE IF At(s, pos) = Code["u"] THEN Unicode(s, pos + 1)
  ELSE IF \E c \in DOMAIN EscapeFor : EscapeFor[c] = At(s, pos)
  THEN Read(CHOOSE c \in DOMAIN EscapeFor : EscapeFor[c] = At(s, pos), pos + 1)
  ELSE Fail("InvalidJson")

\* Parser::string, after the quote.
StringFrom(s, pos) ==
  LET from[p \in 0 .. Len(s)] ==
        LET stop == UpTo(s, p, {Quote, Backslash} \cup Controls)
            plain == SubSeq(s, p + 1, stop)
        IN  CASE At(s, stop) = End -> Fail("UnexpectedEnd")
              [] At(s, stop) = Quote -> Read(plain, stop + 1)
              [] At(s, stop) = Backslash ->
                   Then(EscapeAt(s, stop + 1), LAMBDA c, at :
                     Then(from[at], LAMBDA rest, past : Read(Append(plain, c) \o rest, past)))
              [] OTHER -> Fail("InvalidJson")
  IN  from[pos]

CharsAt(s, pos) == Then(Expect(s, pos, Quote), LAMBDA c, at : StringFrom(s, at))

\* base64_decode: the bits left over are dropped.
Base64Bit(text, j) == (ValueOf[text[j \div 6 + 1]] \div PowerOf2[5 - (j % 6)]) % 2
Base64Bytes(text) ==
  [k \in 1 .. (6 * Len(text)) \div 8 |->
     FoldLeft(LAMBDA n, j : 2 * n + Base64Bit(text, 8 * (k - 1) + j), 0, << 0, 1, 2, 3, 4, 5, 6, 7 >>)]
Base64At(text, pos) ==
  IF ToSet(text) \subseteq DOMAIN ValueOf /\ (6 * Len(text)) % 8 < 6
  THEN Read(Bytes(Base64Bytes(text)), pos)
  ELSE Fail("InvalidBase64")

\* cid::from_text: only its own text is taken for a CID.
CidAt(text, pos) ==
  IF \E cid \in Cids : CidTexts[cid][1] = text
  THEN Read(Link(CHOOSE cid \in Cids : CidTexts[cid][1] = text), pos)
  ELSE Fail("InvalidCid")

\* reserved: a map keyed by a slash is a link or bytes, and nothing else.
Reserved(of, pos) ==
  IF << Slash >> \notin DOMAIN of THEN Read(Map(of), pos)
  ELSE IF DOMAIN of # {<< Slash >>} THEN Fail("ReservedKey")
  ELSE LET inner == of[<< Slash >>]
       IN  IF inner.kind = "text" THEN CidAt(inner.bytes, pos)
           ELSE IF /\ inner.kind = "map"
                   /\ DOMAIN inner.of = {BytesKey}
                   /\ inner.of[BytesKey].kind = "text"
           THEN Base64At(inner.of[BytesKey].bytes, pos)
           ELSE Fail("ReservedKey")

\* Parser::list, from its first item on; item[pos] is what is read of a value
\* nested in this one.
ListFrom(s, pos, item) ==
  LET from[p \in 0 .. Len(s)] ==
        Then(item[p], LAMBDA first, at :
          CASE At(s, at) = End -> Fail("UnexpectedEnd")
            [] At(s, at) = Comma ->
                 Then(from[at + 1], LAMBDA rest, past : Read(<< first >> \o rest, past))
            [] At(s, at) = CloseBracket -> Read(<< first >>, at + 1)
            [] OTHER -> Fail("InvalidJson"))
  IN  As(from[pos], List)

\* Parser::map, from its first key on; keys are those read before.
MapFrom(s, pos, item) ==
  LET from[p \in 0 .. Len(s), keys \in SUBSET Seq(Nat)] ==
        Then(CharsAt(s, p), LAMBDA key, past :
          Then(Expect(s, past, Colon), LAMBDA c, mid :
            Then(item[mid], LAMBDA value, at :
              IF key \in keys THEN Fail("DuplicateKey")
              ELSE IF At(s, at) = End THEN Fail("UnexpectedEnd")
              ELSE IF At(s, at) = Comma
              THEN Then(from[at + 1, keys \cup {key}], LAMBDA rest, end :
                     Read(Inserted(rest, key, value), end))
              ELSE IF At(s, at) = CloseBrace THEN Read(Inserted(<< >>, key, value), at + 1)
              ELSE Fail("InvalidJson"))))
  IN  Then(from[pos, {}], LAMBDA of, end : Reserved(of, end))

\* Parser::value.
ValueFrom(s, pos, depth, item) ==
  IF depth > MaxDepth THEN Fail("NestingTooDeep")
  ELSE LET c == At(s, pos)
       IN  CASE c = End -> Fail("UnexpectedEnd")
             [] c = Code["n"] -> Literal(s, pos, NullWord, Simple("null"))
             [] c = Code["t"] -> Literal(s, pos, TrueWord, Simple("true"))
             [] c = Code["f"] -> Literal(s, pos, FalseWord, Simple("false"))
             [] c = Quote -> As(CharsAt(s, pos), Text)
             [] c = OpenBracket ->
                  IF At(s, pos + 1) = CloseBracket THEN Read(List(<< >>), pos + 2)
                  ELSE ListFrom(s, pos + 1, item)
             [] c = OpenBrace ->
                  IF At(s, pos + 1) = CloseBrace THEN Read(Map(<< >>), pos + 2)
                  ELSE MapFrom(s, pos + 1, item)
             [] c \in {Dash} \cup Digits -> NumberAt(s, pos)
             [] OTHER -> Fail("InvalidJson")

\* value[depth] is what is read of a value so deep, at each position.
JsonValueAt(s, pos) ==
  LET value[depth \in 0 .. MaxDepth + 1] ==
        [p \in 0 .. Len(s) |-> ValueFrom(s, p, depth, value[depth + 1])]
  IN  value[0][pos]

\* decode: the text must be the one its value is written as.
DecodeJson(s) ==
  Then(JsonValueAt(s, 0), LAMBDA value, at :
    IF at # Len(s) THEN Fail("TrailingBytes")
    ELSE Then(EncodeJson(value), LAMBDA text, p :
           IF text = s THEN Read(value, at) ELSE Fail("NotCanonical")))
=============================================================================
