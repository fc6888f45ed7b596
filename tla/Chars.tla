-------------------------------- MODULE Chars --------------------------------
(***************************************************************************)
(* Text as the sequence of its characters, each the number Unicode gives   *)
(* it, so that characters compare the way their UTF-8 bytes do.            *)
(***************************************************************************)
EXTENDS Integers, Sequences, SequencesExt

\* From 32 on; a tab stands for the backquote, which TLA+ has no string of.
Printable ==
  " !\"#$%&'()*+,-./0123456789:;<=>?@ABCDEFGHIJKLMNOPQRSTUVWXYZ[\\]^_\tabcdefghijklmnopqrstuvwxyz{|}~"

Code ==
  [char \in {SubSeq(Printable, k, k) : k \in 1 .. Len(Printable)} |->
     31 + CHOOSE k \in 1 .. Len(Printable) : SubSeq(Printable, k, k) = char]
Codes(string) == [k \in 1 .. Len(string) |-> Code[SubSeq(string, k, k)]]
Ranging(first, last) == Code[first] .. Code[last]

Dot == Code["."]        Dash == Code["-"]       Plus == Code["+"]
Slash == Code["/"]      Colon == Code[":"]      Comma == Code[","]
Question == Code["?"]   Hash == Code["#"]       Percent == Code["%"]
Quote == Code["\""]     Backslash == Code["\\"]
OpenBracket == Code["["]  CloseBracket == Code["]"]
OpenBrace == Code["{"]    CloseBrace == Code["}"]

Digits == Ranging("0", "9")
Lowercase == Ranging("a", "z")
Uppercase == Ranging("A", "Z")
HexDigits == Digits \cup Ranging("a", "f") \cup Ranging("A", "F")
Controls == 0 .. 31

\* The character at position pos, which counts from 0, or End past the last.
End == -1
At(s, pos) == IF pos < Len(s) THEN s[pos + 1] ELSE End

\* The first position from pos on whose character is not, or is, one of chars.
PastAll(s, pos, chars) ==
  CHOOSE p \in pos .. Len(s) : At(s, p) \notin chars /\ \A q \in pos .. p - 1 : At(s, q) \in chars
UpTo(s, pos, chars) ==
  CHOOSE p \in pos .. Len(s) :
    (At(s, p) = End \/ At(s, p) \in chars) /\ \A q \in pos .. p - 1 : At(s, q) \notin chars

\* from_str_radix takes a sign before the digits.
HexValue(c) ==
  IF c \in Digits THEN c - Code["0"]
  ELSE 10 + c - Code[IF c \in Lowercase THEN "a" ELSE "A"]
IsHex(s) ==
  \E sign \in 0 .. 1 :
    /\ Len(s) > sign /\ (sign = 1 => s[1] = Plus)
    /\ \A k \in sign + 1 .. Len(s) : s[k] \in HexDigits
HexNumber(s) == FoldLeft(LAMBDA n, c : IF c = Plus THEN n ELSE 16 * n + HexValue(c), 0, s)
DecimalNumber(s) ==
  LET value[k \in 0 .. Len(s)] == IF k = 0 THEN 0 ELSE 10 * value[k - 1] + s[k] - Code["0"]
  IN  value[Len(s)]

\* The digits of a number, none of 0.
DigitsIn(base, n) ==
  LET digits[m \in 0 .. n] == IF m = 0 THEN << >> ELSE Append(digits[m \div base], m % base)
  IN  digits[n]

\* Characters with an escape of one letter.
EscapeOf ==
  (Quote :> Quote) @@ (Backslash :> Backslash) @@ (8 :> Code["b"]) @@ (12 :> Code["f"])
    @@ (10 :> Code["n"]) @@ (13 :> Code["r"]) @@ (9 :> Code["t"])
\* ... which the parsers also take for a slash.
EscapeFor == (Slash :> Slash) @@ EscapeOf

\* Halves of a character beyond 0xffff.
High == 55296 .. 56319   \* 0xd800 ..
Low == 56320 .. 57343    \* 0xdc00 ..

\* word is next at position pos.
Begins(s, pos, word) ==
  /\ pos + Len(word) <= Len(s)
  /\ SubSeq(s, pos + 1, pos + Len(word)) = word
=============================================================================
