---------------------------- MODULE SelectorText ----------------------------
(***************************************************************************)
(* The parser of selector text (src/policy/selector.rs): characters to the *)
(* segments of module Selector, whose keys are texts here.                 *)
(***************************************************************************)
EXTENDS Chars, Reading

CONSTANT IndexMax  \* the largest i64

Marks == << Dot, OpenBracket, CloseBracket, Question, Quote, Backslash, Colon, Dash >>

IdentStart == Lowercase \cup Uppercase \cup {Code["_"]}
Ident == IdentStart \cup Digits

\* The marks differ, none of them is in a name, and none of the marks of a string
\* is a control character; nor are two escapes alike.
ASSUME SelectorTextAssumption ==
  /\ IndexMax \in Nat /\ None \notin Int
  /\ Ident \subseteq Nat /\ IdentStart \cap Digits = {}
  /\ Code["0"] \in Nat /\ \A c \in Digits : c - Code["0"] \in 0 .. 9
  /\ \A j, k \in DOMAIN Marks : Marks[j] = Marks[k] => j = k
  /\ \A k \in DOMAIN Marks : Marks[k] \in Nat \ Ident
  /\ {Quote, Backslash} \cap Controls = {}
  /\ \A c, d \in DOMAIN EscapeFor : EscapeFor[c] = EscapeFor[d] => c = d
  /\ \A c \in DOMAIN EscapeFor : EscapeFor[c] \in Nat \ {Code["u"]}

UnexpectedAt(pos) == [Fail("Unexpected") EXCEPT !.pos = pos]

KeySegment(key) == [kind |-> "key", key |-> key, optional |-> FALSE]
ValuesSegment == [kind |-> "values", optional |-> FALSE]
IndexSegment(n) == [kind |-> "index", at |-> n, optional |-> FALSE]
SliceSegment(from, to) == [kind |-> "slice", from |-> from, to |-> to, optional |-> FALSE]

\* quoted: the four digits after a `u`, which must be a character by themselves.
HexEscapeAt(s, pos) ==
  LET hex == SubSeq(s, pos + 1, pos + 4)
  IN  IF pos + 4 > Len(s) THEN Fail("BadEscape")
      ELSE IF ~IsHex(hex) THEN Fail("BadEscape")
      ELSE IF HexNumber(hex) \in High \cup Low THEN Fail("BadEscape")
      ELSE Read(HexNumber(hex), pos + 4)

QuotedEscapeAt(s, pos) ==
  IF At(s, pos) = Code["u"] THEN HexEscapeAt(s, pos + 1)
  ELSE IF \E c \in DOMAIN EscapeFor : EscapeFor[c] = At(s, pos)
  THEN Read(CHOOSE c \in DOMAIN EscapeFor : EscapeFor[c] = At(s, pos), pos + 1)
  ELSE Fail("BadEscape")

\* quoted, after the quote.
QuotedAt(s, pos) ==
  LET from[p \in 0 .. Len(s)] ==
        CASE At(s, p) = End -> Fail("UnterminatedString")
          [] At(s, p) = Quote -> Read(<< >>, p + 1)
          [] OTHER ->
               Then(IF At(s, p) = Backslash THEN QuotedEscapeAt(s, p + 1) ELSE Read(At(s, p), p + 1),
                    LAMBDA c, at : Then(from[at], LAMBDA rest, past : Read(<< c >> \o rest, past)))
  IN  from[pos]

\* Mutant: a minus with no digits is no integer, and goes on.
IntegerAtBareMinus(s, pos) ==
  LET digits == IF At(s, pos) = Dash THEN pos + 1 ELSE pos
      past == PastAll(s, digits, Digits)
      n == DecimalNumber(SubSeq(s, digits + 1, past))
  IN  IF past = digits THEN Read(None, past)
      ELSE IF n > (IF digits = pos THEN IndexMax ELSE IndexMax + 1) THEN Fail("BadIndex")
      ELSE Read(IF digits = pos THEN n ELSE -n, past)

\* integer: None when there is neither a sign nor a digit.
IntegerAt(s, pos) ==
  LET digits == IF At(s, pos) = Dash THEN pos + 1 ELSE pos
      past == PastAll(s, digits, Digits)
      n == DecimalNumber(SubSeq(s, digits + 1, past))
  IN  IF past = pos THEN Read(None, pos)
      ELSE IF past = digits \/ n > (IF digits = pos THEN IndexMax ELSE IndexMax + 1)
      THEN Fail("BadIndex")
      ELSE Read(IF digits = pos THEN n ELSE -n, past)

Closed(s, pos, segment) ==
  IF At(s, pos) = CloseBracket THEN Read(segment, pos + 1) ELSE UnexpectedAt(pos)

\* bracket, after its opening.
BracketAt(s, pos) ==
  CASE At(s, pos) = CloseBracket -> Read(ValuesSegment, pos + 1)
    [] At(s, pos) = Quote ->
         Then(QuotedAt(s, pos + 1), LAMBDA key, at : Closed(s, at, KeySegment(key)))
    [] At(s, pos) \in {Dash, Colon} \cup Digits ->
         Then(IntegerAt(s, pos), LAMBDA first, at :
           IF At(s, at) = Colon
           THEN Then(IntegerAt(s, at + 1), LAMBDA second, past :
                  Closed(s, past, SliceSegment(first, second)))
           ELSE IF first = None THEN Fail("BadIndex")
           ELSE Closed(s, at, IndexSegment(first)))
    [] OTHER -> UnexpectedAt(pos)

\* A turn of the loop of Selector::parse; dotted is its dot_pending.
Turn(s, pos, dotted, segments) ==
  LET c == At(s, pos)
      past == PastAll(s, pos, Ident)
      So(pending, read) == [dotted |-> pending, segments |-> read]
  IN  CASE c = End -> Read(So(dotted, segments), pos)
        [] c = Dot -> IF dotted THEN Fail("DoubleDot") ELSE Read(So(TRUE, segments), pos + 1)
        [] c = OpenBracket ->
             Then(BracketAt(s, pos + 1), LAMBDA segment, at :
               Read(So(FALSE, Append(segments, segment)), at))
        [] c = Question ->
             IF dotted \/ segments = << >> THEN Fail("DanglingOptional")
             ELSE Read(So(dotted, [segments EXCEPT ![Len(segments)].optional = TRUE]), pos + 1)
        [] c \in IdentStart ->
             IF ~dotted THEN UnexpectedAt(pos)
             ELSE Read(So(FALSE, Append(segments, KeySegment(SubSeq(s, pos + 1, past)))), past)
        [] OTHER -> UnexpectedAt(pos)

\* The loop, which is over at the end of s, if not before.
SegmentsFrom(s, pos) ==
  LET read[k \in 0 .. Len(s)] ==
        IF k = 0 THEN Read([dotted |-> TRUE, segments |-> << >>], pos)
        ELSE Then(read[k - 1], LAMBDA so, at : Turn(s, at, so.dotted, so.segments))
  IN  Then(read[Len(s)], LAMBDA so, at :
        IF so.dotted /\ so.segments # << >> THEN Fail("TrailingDot") ELSE Read(so.segments, at))

\* Selector::parse.
ParseSelector(text) ==
  IF text = << >> THEN Fail("Empty")
  ELSE IF text[1] # Dot THEN Fail("MissingLeadingDot")
  ELSE SegmentsFrom(text, 1)

----------------------------------------------------------------------------
(* The grammar the parser is to read, as what each text means: the set of  *)
(* its readings, empty for a text that is no selector.                     *)

\* What a text is read as that is taken part by part, in any way there is.
Followed(firsts, rests) == UNION {{<< x >> \o rest : rest \in rests} : x \in firsts}
InParts(text, Readings(_)) ==
  LET from[pos \in 0 .. Len(text)] ==
        IF pos = Len(text) THEN {<< >>}
        ELSE UNION {Followed(Readings(SubSeq(text, pos + 1, to)), from[to]) : to \in pos + 1 .. Len(text)}
  IN  from[0]

IsNumbered(unit) == unit[1] = Backslash /\ unit[2] = Code["u"]
NumbersIn(unit) ==
  IF IsNumbered(unit) /\ \A k \in 3 .. 6 : unit[k] \in HexDigits
  THEN {HexNumber(SubSeq(unit, 3, 6))} ELSE {}

\* The characters of JSON strings, as they are or escaped: a number of four
\* digits, or two for a character beyond 0xffff, of which neither is one alone.
JsonUnitReadings(unit) ==
  CASE Len(unit) = 1 -> {unit[1]} \ ({Quote, Backslash} \cup Controls)
    [] Len(unit) = 2 -> {c \in DOMAIN EscapeFor : unit = << Backslash, EscapeFor[c] >>}
    [] Len(unit) = 6 -> NumbersIn(unit) \ (High \cup Low)
    [] Len(unit) = 12 ->
         LET high == SubSeq(unit, 1, 6)
             low == SubSeq(unit, 7, 12)
         IN  {65536 + 1024 * (h - Min(High)) + l - Min(Low) :
                h \in High \cap NumbersIn(high), l \in Low \cap NumbersIn(low)}
    [] OTHER -> {}

\* The characters of a quoted key, which are JSON's with three differences:
\* control characters need no escape, the first of four digits may be a sign,
\* and there are no characters beyond 0xffff in two halves.
UnitReadings(unit) ==
  CASE Len(unit) = 1 /\ unit[1] \in Controls -> {unit[1]}
    [] Len(unit) = 6 /\ IsNumbered(unit) /\ unit[3] = Plus
         /\ (\A k \in 4 .. 6 : unit[k] \in HexDigits) ->
         {HexNumber(SubSeq(unit, 3, 6))} \ (High \cup Low)
    [] Len(unit) = 12 -> {}
    [] OTHER -> JsonUnitReadings(unit)

KeyReadings(text) == InParts(text, UnitReadings)

IsNumeral(text) == text # << >> /\ ToSet(text) \subseteq Digits
NumeralReadings(text) ==
  {n \in -IndexMax - 1 .. IndexMax :
     \/ IsNumeral(text) /\ n = DecimalNumber(text)
     \/ text # << >> /\ text[1] = Dash /\ IsNumeral(Tail(text)) /\ -n = DecimalNumber(Tail(text))}
BoundReadings(text) == IF text = << >> THEN {None} ELSE NumeralReadings(text)

\* Two bounds, with the colon at k between them.
SliceReadings(inner, k) ==
  {SliceSegment(from, to) : from \in BoundReadings(SubSeq(inner, 1, k - 1)),
                            to \in BoundReadings(SubSeq(inner, k + 1, Len(inner)))}

BracketReadings(inner) ==
  (IF inner = << >> THEN {ValuesSegment} ELSE {})
    \cup {IndexSegment(n) : n \in NumeralReadings(inner)}
    \cup (IF Len(inner) > 1 /\ inner[1] = Quote /\ inner[Len(inner)] = Quote
          THEN {KeySegment(key) : key \in KeyReadings(SubSeq(inner, 2, Len(inner) - 1))} ELSE {})
    \cup UNION {SliceReadings(inner, k) : k \in {k \in DOMAIN inner : inner[k] = Colon}}

\* A name needs the dot before it, brackets may have one.
BodyReadings(body) ==
  LET named == IF body # << >> /\ body[1] = Dot THEN Tail(body) ELSE body
  IN  IF named = << >> THEN {}
      ELSE IF named[1] = OpenBracket
      THEN IF named[Len(named)] = CloseBracket THEN BracketReadings(SubSeq(named, 2, Len(named) - 1))
           ELSE {}
      ELSE IF named # body /\ named[1] \in IdentStart /\ ToSet(named) \subseteq Ident
      THEN {KeySegment(named)} ELSE {}

\* Marks after it make a segment optional.
PieceReadings(piece) ==
  UNION {{[segment EXCEPT !.optional = (end # Len(piece))] :
            segment \in BodyReadings(SubSeq(piece, 1, end))} :
           end \in {e \in DOMAIN piece : \A k \in e + 1 .. Len(piece) : piece[k] = Question}}

SelectorReadings(text) ==
  IF text = << Dot >> THEN {<< >>}
  ELSE IF text = << >> THEN {}
  ELSE IF text[1] # Dot THEN {}
  ELSE InParts(text, PieceReadings)
=============================================================================
