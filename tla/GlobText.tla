------------------------------ MODULE GlobText ------------------------------
(***************************************************************************)
(* Pattern::parse (src/policy/glob.rs): the tokens a pattern is compiled   *)
(* to, and what the text of a pattern means.                               *)
(***************************************************************************)
EXTENDS Glob, SequencesExt

CONSTANT Texts  \* bound: patterns as written

ASSUME GlobTextAssumption == Texts \subseteq Seq(Char)

\* Position k of a pattern is a backslash that escapes the star after it.
Escapes(text, k) ==
  k \in 1 .. Len(text) - 1 /\ text[k] = "\\" /\ text[k + 1] = "*"

\* ... and this star is not escaped.
IsStar(text, k) == text[k] = "*" /\ ~Escapes(text, k - 1)

\* Mutant: an escaped star stays a star.
ScanUnescaped(text) ==
  LET ts[k \in 0 .. Len(text)] ==
        IF k = 0 THEN << >>
        ELSE IF \/ Escapes(text, k)
                \/ text[k] = "*" /\ ts[k - 1] # << >> /\ Last(ts[k - 1]) = AnyToken
        THEN ts[k - 1]
        ELSE Append(ts[k - 1], IF text[k] = "*" THEN AnyToken ELSE text[k])
  IN  ts

\* The tokens of the first k characters, for each k.  A star that follows a star
\* adds nothing.
Scan(text) ==
  LET ts[k \in 0 .. Len(text)] ==
        IF k = 0 THEN << >>
        ELSE IF \/ Escapes(text, k)
                \/ IsStar(text, k) /\ ts[k - 1] # << >> /\ Last(ts[k - 1]) = AnyToken
        THEN ts[k - 1]
        ELSE Append(ts[k - 1], IF IsStar(text, k) THEN AnyToken ELSE text[k])
  IN  ts

Compile(text) == Scan(text)[Len(text)]

Compiled == [text \in Texts |-> Compile(text)]

----------------------------------------------------------------------------
\* The meaning of a pattern as written, with no tokens: its positions split the
\* input, a backslash before a star takes nothing, a star that none escapes
\* takes anything, and every other character takes itself.
TextFits(text, of) ==
  \E cut \in [0 .. Len(text) -> 0 .. Len(of)] :
    /\ cut[0] = 0 /\ cut[Len(text)] = Len(of)
    /\ \A k \in 1 .. Len(text) :
         IF Escapes(text, k) THEN cut[k] = cut[k - 1]
         ELSE IF IsStar(text, k) THEN cut[k - 1] <= cut[k]
         ELSE cut[k] = cut[k - 1] + 1 /\ of[cut[k]] = text[k]

\* What matches answers on a compiled pattern is what the pattern as written
\* means: neither the escapes nor the collapsing of stars changes it.
TextKeepsItsMeaning ==
  answer # "pending" =>
    \A text \in Texts :
      Compiled[text] = tokens => (answer = "yes" <=> TextFits(text, input))
=============================================================================
