-------------------------------- MODULE Names --------------------------------
(***************************************************************************)
(* The texts that name principals and commands (src/did.rs,                *)
(* src/command.rs): which are read, and how they are compared.             *)
(***************************************************************************)
EXTENDS Chars

DidScheme == Codes("did:")
UrlParts == {Slash, Question, Hash}
MethodChars == Lowercase \cup Digits
IdChars == Lowercase \cup Uppercase \cup Digits \cup {Dot, Dash, Code["_"], Colon}

\* id_chars_are_valid: an escaped byte is a percent sign and two digits.
IdCharsAreValid(id) ==
  \A k \in DOMAIN id :
    \/ id[k] \in IdChars
    \/ id[k] = Percent /\ At(id, k) \in HexDigits /\ At(id, k + 1) \in HexDigits

\* What is wrong with a text whose method ends at position colon, and its
\* identifier at position past.
DidPartsError(text, colon, past) ==
  IF At(text, colon) = End THEN "MethodId"
  ELSE IF colon = Len(DidScheme) \/ \E k \in Len(DidScheme) + 1 .. colon : text[k] \notin MethodChars
  THEN "Method"
  ELSE IF \/ past = colon + 1
          \/ text[past] = Colon
          \/ ~IdCharsAreValid(SubSeq(text, colon + 2, past))
  THEN "MethodId"
  ELSE "Ok"

\* The colon that ends the method, from the scheme on.
MethodEnd(text) == UpTo(text, Len(DidScheme), {Colon})

\* Did::parse.
DidError(text) ==
  IF ~Begins(text, 0, DidScheme) THEN "Scheme"
  ELSE DidPartsError(text, MethodEnd(text), UpTo(text, MethodEnd(text) + 1, UrlParts))

\* Did::base, method and method_id, of a text that was read.
BaseOf(did) == SubSeq(did, 1, UpTo(did, 0, UrlParts))
MethodOf(did) == SubSeq(did, Len(DidScheme) + 1, MethodEnd(did))
MethodIdOf(did) == SubSeq(BaseOf(did), MethodEnd(did) + 2, Len(BaseOf(did)))

\* Did::same_principal.
SameBase(a, b) == BaseOf(a) = BaseOf(b)

----------------------------------------------------------------------------
Root == << Slash >>

\* Command::parse.
CommandError(text) ==
  IF text = << >> THEN "Empty"
  ELSE IF text[1] # Slash THEN "MissingLeadingSlash"
  ELSE IF Len(text) > 1 /\ text[Len(text)] = Slash THEN "TrailingSlash"
  ELSE IF \E k \in 1 .. Len(text) - 1 : text[k] = Slash /\ text[k + 1] = Slash THEN "EmptySegment"
  ELSE IF \E k \in DOMAIN text : text[k] \in Uppercase THEN "Uppercase"
  ELSE "Ok"

\* Mutant: a prefix covers, wherever it ends.
CoversOpen(c, d) == c = Root \/ IsPrefix(c, d)

\* Command::covers.
CoversText(c, d) ==
  \/ c = Root
  \/ IsPrefix(c, d) /\ (c = d \/ d[Len(c) + 1] = Slash)

\* Command::segments: split at the slashes, without what is empty.
SegmentsOf(c) ==
  LET upTo[k \in 0 .. Len(c)] ==
        IF k = 0 THEN << >>
        ELSE LET before == upTo[k - 1]
             IN  IF c[k] = Slash THEN before
                 ELSE IF k = 1 \/ c[k - 1] = Slash THEN Append(before, << c[k] >>)
                 ELSE [before EXCEPT ![Len(before)] = Append(@, c[k])]
  IN  upTo[Len(c)]
=============================================================================
