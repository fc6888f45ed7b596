---------------------------- MODULE SelectorProofs ----------------------------
(***************************************************************************)
(* The selector parser reads every text as its grammar does.  The grammar  *)
(* takes a text part by part in any way there is, the parser goes through  *)
(* it once: at each position at most one segment starts, it ends where the *)
(* parser ends it, and the marks after it are those that the parser adds.  *)
(* So after each turn of the loop what was read so far goes together with  *)
(* what the grammar makes of the rest.                                     *)
(***************************************************************************)
EXTENDS TextProofs

----------------------------------------------------------------------------
(* Characters of a text, and what is between two positions.                *)

\* The character at a position, if it is not the last.
IsAt(s, p) ==
  /\ p < Len(s) => At(s, p) = s[p + 1] /\ At(s, p) \in Nat /\ At(s, p) # End
  /\ p >= Len(s) => At(s, p) = End
  /\ At(s, p) \in Nat => p < Len(s)
  /\ Len(s) \in Nat

LEMMA AtIs == ASSUME NEW s \in Seq(Nat), NEW p \in Nat PROVE IsAt(s, p)
<1>1. Len(s) \in Nat /\ \A k \in 1 .. Len(s) : s[k] \in Nat
  OBVIOUS
<1>2. CASE p < Len(s)
  <2>1. p + 1 \in 1 .. Len(s)
    BY <1>1, <1>2
  <2>2. s[p + 1] \in Nat
    BY <1>1, <2>1
  <2>. QED  BY <1>1, <1>2, <2>2 DEF IsAt, At, End
<1>3. CASE p >= Len(s)
  BY <1>1, <1>3 DEF IsAt, At, End
<1>. QED  BY <1>1, <1>2, <1>3

Between(s, a, b) == SubSeq(s, a + 1, b)

IsBetween(s, a, b) ==
  /\ Between(s, a, b) \in Seq(Nat)
  /\ Len(Between(s, a, b)) = b - a /\ DOMAIN Between(s, a, b) = 1 .. b - a
  /\ \A k \in 1 .. b - a : Between(s, a, b)[k] = s[a + k] /\ Between(s, a, b)[k] = At(s, a + k - 1)

LEMMA BetweenIs ==
  ASSUME NEW s \in Seq(Nat), NEW a \in 0 .. Len(s), NEW b \in a .. Len(s)
  PROVE  IsBetween(s, a, b)
<1>. DEFINE t == SubSeq(s, a + 1, b)
<1>0. Len(s) \in Nat /\ a \in Nat /\ b \in Nat /\ a <= b /\ b <= Len(s)
  OBVIOUS
<1>1. t \in Seq(Nat)
  BY <1>0
<1>2. Len(t) = b - a /\ DOMAIN t = 1 .. b - a
  BY <1>0
<1>3. ASSUME NEW k \in 1 .. b - a PROVE t[k] = s[a + k] /\ t[k] = At(s, a + k - 1)
  <2>1. t[k] = s[a + k]
    BY <1>0
  <2>2. a + k - 1 \in Nat /\ a + k - 1 < Len(s) /\ (a + k - 1) + 1 = a + k
    BY <1>0
  <2>. QED  BY <2>1, <2>2 DEF At
<1>. HIDE DEF t
<1>4. t = Between(s, a, b)
  BY DEF t, Between
<1>. QED  BY <1>1, <1>2, <1>3, <1>4 DEF IsBetween

\* ... and between two positions in that.
LEMMA BetweenOf ==
  ASSUME NEW s \in Seq(Nat), NEW a \in 0 .. Len(s), NEW b \in a .. Len(s),
         NEW i \in 0 .. b - a, NEW j \in i .. b - a
  PROVE  Between(Between(s, a, b), i, j) = Between(s, a + i, a + j)
<1>. DEFINE t == Between(s, a, b)  u == Between(t, i, j)  v == Between(s, a + i, a + j)
<1>0. Len(s) \in Nat /\ a \in Nat /\ b \in Nat /\ i \in Nat /\ j \in Nat
  OBVIOUS
<1>1. t \in Seq(Nat) /\ Len(t) = b - a /\ \A k \in 1 .. b - a : t[k] = s[a + k]
  BY BetweenIs DEF IsBetween
<1>. HIDE DEF t
<1>2. i \in 0 .. Len(t) /\ j \in i .. Len(t)
  BY <1>1
<1>3. IsBetween(t, i, j)
  BY <1>1, <1>2, BetweenIs
<1>. DEFINE c == a + i  d == a + j
<1>4. c \in 0 .. Len(s) /\ d \in c .. Len(s)
  BY <1>0
<1>. HIDE DEF c, d
<1>5. IsBetween(s, c, d)
  BY <1>4, BetweenIs
<1>6. /\ u \in Seq(Nat) /\ Len(u) = j - i /\ \A k \in 1 .. j - i : u[k] = t[i + k]
      /\ v \in Seq(Nat) /\ Len(v) = d - c /\ \A k \in 1 .. d - c : v[k] = s[c + k]
  <2>1. u \in Seq(Nat) /\ Len(u) = j - i /\ \A k \in 1 .. j - i : u[k] = t[i + k]
    BY <1>3, Zenon DEF IsBetween
  <2>2. v = Between(s, c, d)
    BY DEF c, d
  <2>3. v \in Seq(Nat) /\ Len(v) = d - c /\ \A k \in 1 .. d - c : v[k] = s[c + k]
    BY <1>5, <2>2, Zenon DEF IsBetween
  <2>. QED  BY <2>1, <2>3
<1>. HIDE DEF u, v
<1>7. d - c = j - i /\ \A k \in Nat : c + k = a + i + k
  BY <1>0 DEF c, d
<1>8. Len(u) = Len(v) /\ Len(u) \in Nat /\ Len(u) = j - i
  BY <1>0, <1>6, <1>7
<1>9. ASSUME NEW k \in 1 .. Len(u) PROVE u[k] = v[k]
  <2>1. k \in 1 .. j - i /\ i + k \in 1 .. b - a /\ a + (i + k) = a + i + k
    BY <1>0, <1>8
  <2>4. k \in 1 .. d - c /\ k \in Nat
    BY <1>7, <2>1
  <2>2. u[k] = t[i + k] /\ v[k] = s[c + k] /\ c + k = a + i + k
    BY <1>6, <1>7, <2>1, <2>4, Zenon
  <2>3. t[i + k] = s[a + (i + k)]
    BY <1>1, <2>1
  <2>. QED  BY <2>1, <2>2, <2>3
<1>10. u = v
  BY <1>6, <1>8, <1>9, SameSequence
<1>. QED  BY <1>10 DEF u, v, t

\* Where the characters of a run stop.
Stops(s, pos, chars, p) ==
  p \in pos .. Len(s) /\ At(s, p) \notin chars /\ \A q \in pos .. p - 1 : At(s, q) \in chars

LEMMA PastAllShows ==
  ASSUME NEW s \in Seq(Nat), NEW pos \in 0 .. Len(s), NEW chars \in SUBSET Nat
  PROVE  Stops(s, pos, chars, PastAll(s, pos, chars))
<1>. DEFINE T == {p \in pos .. Len(s) : At(s, p) \notin chars}
<1>0. Len(s) \in Nat /\ pos \in Nat
  OBVIOUS
<1>1. T \subseteq Nat /\ Len(s) \in T
  <2>1. IsAt(s, Len(s))
    BY <1>0, AtIs
  <2>2. At(s, Len(s)) \notin Nat
    BY <1>0, <2>1 DEF IsAt, End
  <2>3. Len(s) \in pos .. Len(s) /\ At(s, Len(s)) \notin chars
    <3>1. \A c \in chars : c \in Nat
      OBVIOUS
    <3>. DEFINE c == At(s, Len(s))
    <3>2. c \notin Nat
      BY <2>2
    <3>. HIDE DEF c
    <3>3. c \notin chars
      BY <3>1, <3>2
    <3>4. Len(s) \in pos .. Len(s)
      BY <1>0
    <3>. QED  BY <3>3, <3>4 DEF c
  <2>4. T \subseteq Nat
    BY <1>0
  <2>. QED  BY <2>3, <2>4
<1>2. PICK p \in T : \A q \in T : p <= q
  BY <1>1, Least
<1>3. Stops(s, pos, chars, p)
  <2>1. ASSUME NEW q \in pos .. p - 1 PROVE At(s, q) \in chars
    <3>1. q \in pos .. Len(s) /\ ~(p <= q)
      BY <1>0, <1>2
    <3>. QED  BY <1>2, <3>1
  <2>. QED  BY <1>2, <2>1 DEF Stops
<1>4. PastAll(s, pos, chars) = CHOOSE x \in pos .. Len(s) : Stops(s, pos, chars, x)
  <2>1. \A x \in pos .. Len(s) :
          Stops(s, pos, chars, x) <=>
            (At(s, x) \notin chars /\ \A q \in pos .. x - 1 : At(s, q) \in chars)
    BY DEF Stops
  <2>. QED  BY <2>1, Zenon DEF PastAll
<1>5. p \in pos .. Len(s)
  OBVIOUS
<1>. QED  BY <1>3, <1>4, <1>5

LEMMA PastAllIs ==
  ASSUME NEW s \in Seq(Nat), NEW pos \in 0 .. Len(s), NEW chars \in SUBSET Nat,
         NEW p, Stops(s, pos, chars, p)
  PROVE  PastAll(s, pos, chars) = p
<1>. DEFINE r == PastAll(s, pos, chars)
<1>1. Stops(s, pos, chars, r)
  BY PastAllShows
<1>. HIDE DEF r
<1>2. r \in Int /\ p \in Int /\ pos \in Int /\ r >= pos /\ p >= pos
  BY <1>1 DEF Stops
<1>3. ~(r < p)
  BY <1>1, <1>2 DEF Stops
<1>4. ~(p < r)
  BY <1>1, <1>2 DEF Stops
<1>5. r = p
  BY <1>2, <1>3, <1>4
<1>. QED  BY <1>5 DEF r

\* What the parser relies on of the marks.
MarksDiffer ==
  /\ \A m \in {Dot, OpenBracket, CloseBracket, Question, Quote, Backslash, Colon, Dash} :
       m \in Nat /\ m # End /\ m \notin Ident /\ m \notin IdentStart /\ m \notin Digits
  /\ Dot \notin {OpenBracket, CloseBracket, Question, Quote, Backslash, Colon, Dash}
  /\ OpenBracket \notin {CloseBracket, Question, Quote, Backslash, Colon, Dash}
  /\ CloseBracket \notin {Question, Quote, Backslash, Colon, Dash}
  /\ Question \notin {Quote, Backslash, Colon, Dash}
  /\ Quote \notin {Backslash, Colon, Dash} /\ Backslash \notin {Colon, Dash} /\ Colon # Dash

LEMMA MarkFacts == MarksDiffer
<1>1. \A j, k \in 1 .. 8 : Marks[j] = Marks[k] => j = k
  BY SelectorTextAssumption DEF Marks
<1>2. \A k \in 1 .. 8 : Marks[k] \in Nat /\ Marks[k] \notin Ident
  BY SelectorTextAssumption DEF Marks
<1>3. /\ Marks[1] = Dot /\ Marks[2] = OpenBracket /\ Marks[3] = CloseBracket /\ Marks[4] = Question
      /\ Marks[5] = Quote /\ Marks[6] = Backslash /\ Marks[7] = Colon /\ Marks[8] = Dash
  BY DEF Marks
<1>4. \A m \in {Dot, OpenBracket, CloseBracket, Question, Quote, Backslash, Colon, Dash} :
        m \in Nat /\ m \notin Ident
  BY <1>2, <1>3
<1>5. \A m \in Nat : m # End
  BY DEF End
<1>6. \A m : m \notin Ident => m \notin IdentStart /\ m \notin Digits
  BY DEF Ident
<1>7. /\ Dot \notin {OpenBracket, CloseBracket, Question, Quote, Backslash, Colon, Dash}
      /\ OpenBracket \notin {CloseBracket, Question, Quote, Backslash, Colon, Dash}
  BY <1>1, <1>3
<1>8. /\ CloseBracket \notin {Question, Quote, Backslash, Colon, Dash}
      /\ Question \notin {Quote, Backslash, Colon, Dash}
      /\ Quote \notin {Backslash, Colon, Dash} /\ Backslash \notin {Colon, Dash} /\ Colon # Dash
  BY <1>1, <1>3
<1>. QED  BY <1>4, <1>5, <1>6, <1>7, <1>8 DEF MarksDiffer

----------------------------------------------------------------------------
(* A character of a quoted key.                                            *)

NextUnit(s, p) ==
  IF At(s, p) = Backslash THEN QuotedEscapeAt(s, p + 1) ELSE Read(At(s, p), p + 1)

\* What the reader makes of the character at p, which ends at q.
UnitEnds(s, p, x, q) == At(s, p) # Quote /\ NextUnit(s, p) = Read(x, q)

EscapeOfUnit(c, x) == x \in DOMAIN EscapeFor /\ EscapeFor[x] = c

LEMMA EscapeRead ==
  ASSUME NEW c \in Nat, NEW x, EscapeOfUnit(c, x)
  PROVE  /\ (CHOOSE d \in DOMAIN EscapeFor : EscapeFor[d] = c) = x
         /\ \E d \in DOMAIN EscapeFor : EscapeFor[d] = c
         /\ c # Code["u"]
<1>1. \A d, e \in DOMAIN EscapeFor : EscapeFor[d] = EscapeFor[e] => d = e
  BY SelectorTextAssumption
<1>2. \A d \in DOMAIN EscapeFor : EscapeFor[d] # Code["u"]
  BY SelectorTextAssumption
<1>3. x \in DOMAIN EscapeFor /\ EscapeFor[x] = c
  BY DEF EscapeOfUnit
<1>4. \A d \in DOMAIN EscapeFor : EscapeFor[d] = c => d = x
  BY <1>1, <1>3
<1>. QED  BY <1>2, <1>3, <1>4

LEMMA ReadGives ==
  ASSUME NEW x, NEW q
  PROVE  /\ IsOk(Read(x, q)) /\ Read(x, q).error = "Ok"
         /\ Read(x, q).value = x /\ Read(x, q).pos = q
BY DEF Read, IsOk

LEMMA ReadSame == \A x, q, y, r : Read(x, q) = Read(y, r) => x = y /\ q = r
<1>. SUFFICES ASSUME NEW x, NEW q, NEW y, NEW r, Read(x, q) = Read(y, r)
              PROVE  x = y /\ q = r
  OBVIOUS
<1>1. Read(x, q).value = x /\ Read(y, r).value = y /\ Read(x, q).pos = q /\ Read(y, r).pos = r
  BY DEF Read
<1>. QED  BY <1>1

LEMMA FailsAre ==
  \A x, q : /\ Fail("BadEscape") # Read(x, q) /\ Fail("UnterminatedString") # Read(x, q)
            /\ Fail("BadIndex") # Read(x, q)
  BY DEF Fail, Read

\* The four digits of an escape.
HexEnds(s, q, x, r) ==
  LET hex == Between(s, q, q + 4)
  IN  /\ r = q + 4 /\ q + 4 <= Len(s) /\ IsHex(hex)
      /\ HexNumber(hex) \notin High \cup Low /\ x = HexNumber(hex)

LEMMA HexIs ==
  ASSUME NEW s \in Seq(Nat), NEW q \in Nat, NEW x, NEW r
  PROVE  HexEscapeAt(s, q) = Read(x, r) <=> HexEnds(s, q, x, r)
<1>. DEFINE hex == Between(s, q, q + 4)  n == HexNumber(hex)
<1>0. Len(s) \in Nat
  OBVIOUS
<1>1. HexEscapeAt(s, q) =
        IF q + 4 > Len(s) THEN Fail("BadEscape")
        ELSE IF ~IsHex(hex) THEN Fail("BadEscape")
        ELSE IF n \in High \cup Low THEN Fail("BadEscape")
        ELSE Read(n, q + 4)
  BY Zenon DEF HexEscapeAt, Between
<1>2. HexEnds(s, q, x, r) <=>
        r = q + 4 /\ q + 4 <= Len(s) /\ IsHex(hex) /\ n \notin High \cup Low /\ x = n
  BY Zenon DEF HexEnds
<1>. HIDE DEF hex, n
<1>3. ASSUME HexEscapeAt(s, q) = Read(x, r) PROVE HexEnds(s, q, x, r)
  <2>1. ~(q + 4 > Len(s)) /\ IsHex(hex) /\ n \notin High \cup Low
    BY <1>1, <1>3, FailsAre, Zenon
  <2>2. Read(n, q + 4) = Read(x, r)
    BY <1>1, <1>3, <2>1, Zenon
  <2>3. n = x /\ q + 4 = r
    BY <2>2, ReadSame
  <2>. QED  BY <1>0, <1>2, <2>1, <2>3
<1>4. ASSUME HexEnds(s, q, x, r) PROVE HexEscapeAt(s, q) = Read(x, r)
  BY <1>0, <1>1, <1>2, <1>4
<1>. QED  BY <1>3, <1>4

\* The readings of characters, all of them: those that are JSON's and those that
\* are not.
LEMMA UnitReadingsAre ==
  ASSUME NEW u \in Seq(Nat)
  PROVE  /\ Len(u) = 1 => UnitReadings(u) = {u[1]} \ {Quote, Backslash}
         /\ Len(u) = 2 =>
              UnitReadings(u) = {c \in DOMAIN EscapeFor : u = << Backslash, EscapeFor[c] >>}
         /\ Len(u) = 6 =>
              UnitReadings(u) = IF IsNumbered(u) /\ IsHex(SubSeq(u, 3, 6))
                                THEN {HexNumber(SubSeq(u, 3, 6))} \ (High \cup Low) ELSE {}
         /\ Len(u) \notin {1, 2, 6} => UnitReadings(u) = {}
<1>0. Len(u) \in Nat
  OBVIOUS
<1>1. ASSUME Len(u) = 1 PROVE UnitReadings(u) = {u[1]} \ {Quote, Backslash}
  <2>1. CASE u[1] \in Controls
    <3>1. UnitReadings(u) = {u[1]}
      BY <1>1, <2>1 DEF UnitReadings
    <3>. QED  BY <2>1, <3>1, SelectorTextAssumption
  <2>2. CASE u[1] \notin Controls
    <3>1. UnitReadings(u) = JsonUnitReadings(u)
      BY <1>1, <2>2 DEF UnitReadings
    <3>2. JsonUnitReadings(u) = {u[1]} \ ({Quote, Backslash} \cup Controls)
      BY <1>1 DEF JsonUnitReadings
    <3>. QED  BY <2>2, <3>1, <3>2
  <2>. QED  BY <2>1, <2>2
<1>2. ASSUME Len(u) = 2
      PROVE  UnitReadings(u) = {c \in DOMAIN EscapeFor : u = << Backslash, EscapeFor[c] >>}
  <2>1. UnitReadings(u) = JsonUnitReadings(u)
    BY <1>2 DEF UnitReadings
  <2>. QED  BY <1>2, <2>1 DEF JsonUnitReadings
<1>3. ASSUME Len(u) = 6
      PROVE  UnitReadings(u) = IF IsNumbered(u) /\ IsHex(SubSeq(u, 3, 6))
                               THEN {HexNumber(SubSeq(u, 3, 6))} \ (High \cup Low) ELSE {}
  <2>. DEFINE hex == SubSeq(u, 3, 6)
              Plain == \A k \in 3 .. 6 : u[k] \in HexDigits
              WithPlus == u[3] = Plus /\ \A k \in 4 .. 6 : u[k] \in HexDigits
              One == {HexNumber(hex)} \ (High \cup Low)
  <2>1. Len(hex) = 4 /\ hex[1] = u[3] /\ hex[2] = u[4] /\ hex[3] = u[5] /\ hex[4] = u[6]
    BY <1>3
  <2>. HIDE DEF hex
  <2>2. IsHex(hex) <=> Plain \/ WithPlus
    <3>1. IsHex(hex) <=> \/ \A k \in 1 .. 4 : hex[k] \in HexDigits
                         \/ hex[1] = Plus /\ \A k \in 2 .. 4 : hex[k] \in HexDigits
      <4>1. IsHex(hex) <=> \E sign \in 0 .. 1 : /\ (sign = 1 => hex[1] = Plus)
                                               /\ \A k \in sign + 1 .. 4 : hex[k] \in HexDigits
        BY <2>1 DEF IsHex
      <4>2. 0 .. 1 = {0, 1} /\ 0 + 1 = 1 /\ 1 + 1 = 2
        OBVIOUS
      <4>. QED  BY <4>1, <4>2
    <3>2. (\A k \in 1 .. 4 : hex[k] \in HexDigits) <=> Plain
      <4>1. 1 .. 4 = {1, 2, 3, 4} /\ 3 .. 6 = {3, 4, 5, 6}
        OBVIOUS
      <4>. QED  BY <2>1, <4>1
    <3>3. (\A k \in 2 .. 4 : hex[k] \in HexDigits) <=> \A k \in 4 .. 6 : u[k] \in HexDigits
      <4>1. 2 .. 4 = {2, 3, 4} /\ 4 .. 6 = {4, 5, 6}
        OBVIOUS
      <4>. QED  BY <2>1, <4>1
    <3>. HIDE DEF Plain
    <3>. QED  BY <2>1, <3>1, <3>2, <3>3
  <2>3. CASE IsNumbered(u) /\ WithPlus
    <3>1. UnitReadings(u) = One
      BY <1>3, <2>3 DEF UnitReadings, hex
    <3>. HIDE DEF Plain
    <3>. QED  BY <2>2, <2>3, <3>1 DEF hex
  <2>4. CASE ~(IsNumbered(u) /\ WithPlus)
    <3>1. UnitReadings(u) = JsonUnitReadings(u)
      BY <1>3, <2>4 DEF UnitReadings
    <3>2. JsonUnitReadings(u) = NumbersIn(u) \ (High \cup Low)
      BY <1>3 DEF JsonUnitReadings
    <3>3. NumbersIn(u) = IF IsNumbered(u) /\ Plain THEN {HexNumber(hex)} ELSE {}
      BY DEF NumbersIn, hex
    <3>. HIDE DEF Plain, WithPlus
    <3>4. IsNumbered(u) => (Plain <=> IsHex(hex))
      BY <2>2, <2>4
    <3>5. NumbersIn(u) = IF IsNumbered(u) /\ IsHex(hex) THEN {HexNumber(hex)} ELSE {}
      BY <3>3, <3>4
    <3>. QED  BY <3>1, <3>2, <3>5 DEF hex
  <2>. QED  BY <2>3, <2>4
<1>4. ASSUME Len(u) \notin {1, 2, 6} PROVE UnitReadings(u) = {}
  <2>1. CASE Len(u) = 12
    BY <1>4, <2>1 DEF UnitReadings
  <2>2. CASE Len(u) # 12
    <3>1. UnitReadings(u) = JsonUnitReadings(u)
      BY <1>4, <2>2 DEF UnitReadings
    <3>. QED  BY <1>4, <2>2, <3>1 DEF JsonUnitReadings
  <2>. QED  BY <2>1, <2>2
<1>. QED  BY <1>1, <1>2, <1>3, <1>4

LEMMA UnitRead ==
  ASSUME NEW s \in Seq(Nat), NEW p \in Nat, p < Len(s), NEW to \in p + 1 .. Len(s),
         NEW x, x \in UnitReadings(Between(s, p, to))
  PROVE  UnitEnds(s, p, x, to)
<1>. DEFINE u == Between(s, p, to)
<1>0. /\ Len(s) \in Nat /\ to \in Nat /\ p \in 0 .. Len(s) /\ to \in p .. Len(s)
      /\ to - p \in Nat
  OBVIOUS
<1>1. /\ u \in Seq(Nat) /\ Len(u) = to - p /\ \A k \in 1 .. to - p : u[k] = At(s, p + k - 1)
  BY <1>0, BetweenIs DEF IsBetween
<1>2. u[1] = At(s, p) /\ (to - p >= 2 => u[2] = At(s, p + 1))
  <2>1. 1 \in 1 .. to - p /\ (to - p >= 2 => 2 \in 1 .. to - p) /\ p + 1 - 1 = p /\ p + 2 - 1 = p + 1
    BY <1>0
  <2>. QED  BY <1>1, <2>1
<1>3. CASE Len(u) = 1
  <2>1. x \in {u[1]} \ {Quote, Backslash}
    BY <1>1, <1>3, UnitReadingsAre
  <2>3. to = p + 1
    <3>1. to - p = 1
      BY <1>1, <1>3, Zenon
    <3>. QED  BY <1>0, <3>1
  <2>. HIDE DEF u
  <2>2. x = At(s, p) /\ x # Quote /\ x # Backslash /\ to = p + 1
    BY <1>2, <2>1, <2>3
  <2>. QED  BY <2>2, Zenon DEF UnitEnds, NextUnit
<1>4. CASE Len(u) = 2
  <2>1. x \in DOMAIN EscapeFor /\ u = << Backslash, EscapeFor[x] >>
    BY <1>1, <1>4, UnitReadingsAre
  <2>2. At(s, p) = Backslash /\ At(s, p + 1) = EscapeFor[x] /\ to = p + 1 + 1
    BY <1>0, <1>1, <1>2, <1>4, <2>1
  <2>. DEFINE c == At(s, p + 1)
  <2>3. c \in Nat /\ EscapeOfUnit(c, x)
    BY <2>1, <2>2, SelectorTextAssumption DEF EscapeOfUnit
  <2>. HIDE DEF c
  <2>4. QuotedEscapeAt(s, p + 1) = Read(x, p + 1 + 1)
    <3>1. /\ c # Code["u"] /\ \E d \in DOMAIN EscapeFor : EscapeFor[d] = c
          /\ (CHOOSE d \in DOMAIN EscapeFor : EscapeFor[d] = c) = x
      BY <2>3, EscapeRead, Zenon
    <3>2. c = At(s, p + 1)
      BY DEF c
    <3>. QED  BY <3>1, <3>2, Zenon DEF QuotedEscapeAt
  <2>5. Quote # Backslash
    BY MarkFacts DEF MarksDiffer
  <2>. QED  BY <2>2, <2>4, <2>5, Zenon DEF UnitEnds, NextUnit
<1>5. CASE Len(u) # 1 /\ Len(u) # 2
  <2>1. /\ Len(u) = 6 /\ u[1] = Backslash /\ u[2] = Code["u"] /\ IsHex(SubSeq(u, 3, 6))
        /\ x \in {HexNumber(SubSeq(u, 3, 6))} \ (High \cup Low)
    <3>. HIDE DEF u
    <3>1. Len(u) = 6
      <4>1. Len(u) \notin {1, 2, 6} => UnitReadings(u) = {}
        BY <1>1, UnitReadingsAre
      <4>. QED  BY <1>5, <4>1 DEF u
    <3>2. x \in IF IsNumbered(u) /\ IsHex(SubSeq(u, 3, 6))
                THEN {HexNumber(SubSeq(u, 3, 6))} \ (High \cup Low) ELSE {}
      BY <1>1, <3>1, UnitReadingsAre DEF u
    <3>. QED  BY <3>1, <3>2 DEF IsNumbered
  <2>. DEFINE q == p + 2
  <2>2. SubSeq(u, 3, 6) = Between(s, q, q + 4) /\ to = q + 4
    <3>1. to - p = 6 /\ 2 \in 0 .. to - p /\ 6 \in 2 .. to - p /\ p + 6 = q + 4 /\ to = q + 4
      <4>1. to - p = 6
        BY <1>1, <2>1, Zenon
      <4>. HIDE DEF u
      <4>. QED  BY <1>0, <4>1
    <3>2. Between(u, 2, 6) = Between(s, q, p + 6)
      BY <1>0, <3>1, BetweenOf
    <3>3. Between(u, 2, 6) = SubSeq(u, 3, 6)
      BY DEF Between
    <3>. QED  BY <3>1, <3>2, <3>3
  <2>3. HexEnds(s, q, x, to)
    <3>1. to <= Len(s)
      BY <1>0
    <3>. HIDE DEF q, u
    <3>. QED  BY <2>1, <2>2, <3>1, Zenon DEF HexEnds
  <2>4. q \in Nat /\ q = p + 1 + 1
    OBVIOUS
  <2>. HIDE DEF q, u
  <2>5. HexEscapeAt(s, p + 1 + 1) = Read(x, to)
    <3>1. HexEscapeAt(s, q) = Read(x, to)
      BY <2>3, <2>4, HexIs
    <3>. QED  BY <2>4, <3>1, Zenon
  <2>6. At(s, p) = Backslash /\ At(s, p + 1) = Code["u"]
    <3>1. to - p >= 2
      BY <1>0, <2>2, <2>4
    <3>. QED  BY <1>2, <2>1, <3>1
  <2>7. Quote # Backslash
    BY MarkFacts DEF MarksDiffer
  <2>. QED  BY <2>5, <2>6, <2>7, Zenon DEF UnitEnds, NextUnit, QuotedEscapeAt
<1>. QED  BY <1>3, <1>4, <1>5

LEMMA UnitReadBack ==
  ASSUME NEW s \in Seq(Nat), NEW p \in Nat, p < Len(s), NEW to \in p + 1 .. Len(s),
         NEW x, UnitEnds(s, p, x, to)
  PROVE  x \in UnitReadings(Between(s, p, to))
<1>. DEFINE u == Between(s, p, to)
<1>0. /\ Len(s) \in Nat /\ to \in Nat /\ p \in 0 .. Len(s) /\ to \in p .. Len(s)
      /\ to - p \in Nat
  OBVIOUS
<1>1. /\ u \in Seq(Nat) /\ Len(u) = to - p /\ \A k \in 1 .. to - p : u[k] = At(s, p + k - 1)
  BY <1>0, BetweenIs DEF IsBetween
<1>2. u[1] = At(s, p) /\ (to - p >= 2 => u[2] = At(s, p + 1))
  <2>1. 1 \in 1 .. to - p /\ (to - p >= 2 => 2 \in 1 .. to - p) /\ p + 1 - 1 = p /\ p + 2 - 1 = p + 1
    BY <1>0
  <2>. QED  BY <1>1, <2>1
<1>3. At(s, p) # Quote /\ NextUnit(s, p) = Read(x, to)
  BY DEF UnitEnds
<1>4. CASE At(s, p) # Backslash
  <2>1. Read(At(s, p), p + 1) = Read(x, to)
    BY <1>3, <1>4, Zenon DEF NextUnit
  <2>2. At(s, p) = x /\ p + 1 = to
    BY <2>1, ReadSame
  <2>. HIDE DEF u
  <2>3. Len(u) = 1
    BY <1>0, <1>1, <2>2
  <2>4. x \in {u[1]} \ {Quote, Backslash}
    BY <1>2, <1>3, <1>4, <2>2
  <2>5. UnitReadings(u) = {u[1]} \ {Quote, Backslash}
    BY <1>1, <2>3, UnitReadingsAre
  <2>. QED  BY <2>4, <2>5 DEF u
<1>5. CASE At(s, p) = Backslash
  <2>. DEFINE c == At(s, p + 1)
  <2>1. QuotedEscapeAt(s, p + 1) = Read(x, to)
    BY <1>3, <1>5, Zenon DEF NextUnit
  <2>2. QuotedEscapeAt(s, p + 1) =
          IF c = Code["u"] THEN HexEscapeAt(s, p + 1 + 1)
          ELSE IF \E d \in DOMAIN EscapeFor : EscapeFor[d] = c
          THEN Read(CHOOSE d \in DOMAIN EscapeFor : EscapeFor[d] = c, p + 1 + 1)
          ELSE Fail("BadEscape")
    BY Zenon DEF QuotedEscapeAt
  <2>3. CASE c = Code["u"]
    <3>. DEFINE q == p + 2
    <3>1. q \in Nat /\ q = p + 1 + 1
      OBVIOUS
    <3>. HIDE DEF q
    <3>2. HexEscapeAt(s, q) = Read(x, to)
      BY <2>1, <2>2, <2>3, <3>1, Zenon
    <3>3. HexEnds(s, q, x, to)
      BY <3>1, <3>2, HexIs, Zenon
    <3>4. to = q + 4 /\ to - p = 6 /\ 2 \in 0 .. to - p /\ 6 \in 2 .. to - p /\ p + 6 = q + 4 /\ p + 2 = q
      BY <1>0, <3>1, <3>3 DEF HexEnds
    <3>5. SubSeq(u, 3, 6) = Between(s, q, q + 4)
      <4>1. Between(u, 2, 6) = Between(s, q, p + 6)
        BY <1>0, <3>4, BetweenOf
      <4>2. Between(u, 2, 6) = SubSeq(u, 3, 6)
        BY DEF Between
      <4>. QED  BY <3>4, <4>1, <4>2
    <3>. DEFINE hex == SubSeq(u, 3, 6)
    <3>6. IsHex(hex) /\ HexNumber(hex) \notin High \cup Low /\ x = HexNumber(hex)
      <4>. HIDE DEF u
      <4>. QED  BY <3>3, <3>5, Zenon DEF HexEnds
    <3>. HIDE DEF u
    <3>7. Len(u) = 6 /\ u[1] = Backslash /\ u[2] = Code["u"]
      <4>1. to - p >= 2 /\ Len(u) = 6
        BY <1>1, <3>4
      <4>. QED  BY <1>2, <1>5, <2>3, <4>1
    <3>8. UnitReadings(u) = {HexNumber(hex)} \ (High \cup Low)
      BY <1>1, <3>6, <3>7, UnitReadingsAre DEF IsNumbered
    <3>. QED  BY <3>6, <3>8 DEF u
  <2>4. CASE c # Code["u"]
    <3>1. \E d \in DOMAIN EscapeFor : EscapeFor[d] = c
      BY <2>1, <2>2, <2>4, FailsAre, Zenon
    <3>2. Read(CHOOSE d \in DOMAIN EscapeFor : EscapeFor[d] = c, p + 1 + 1) = Read(x, to)
      BY <2>1, <2>2, <2>4, <3>1, Zenon
    <3>3. x = (CHOOSE d \in DOMAIN EscapeFor : EscapeFor[d] = c) /\ p + 1 + 1 = to
      BY <3>2, ReadSame
    <3>4. x \in DOMAIN EscapeFor /\ EscapeFor[x] = c
      BY <3>1, <3>3, Zenon
    <3>. HIDE DEF u
    <3>5. Len(u) = 2 /\ to - p >= 2
      BY <1>0, <1>1, <3>3
    <3>6. u[1] = Backslash /\ u[2] = EscapeFor[x]
      BY <1>2, <1>5, <3>4, <3>5
    <3>7. u = << Backslash, EscapeFor[x] >>
      <4>. DEFINE d == EscapeFor[x]  v == << Backslash, d >>
      <4>1. d \in Nat /\ Backslash \in Nat
        BY <3>4, SelectorTextAssumption, MarkFacts DEF MarksDiffer
      <4>. HIDE DEF d
      <4>2. v \in Seq(Nat) /\ Len(v) = 2 /\ v[1] = Backslash /\ v[2] = d
        BY <4>1
      <4>. HIDE DEF v
      <4>3. \A k \in 1 .. 2 : u[k] = v[k]
        <5>1. u[1] = v[1] /\ u[2] = v[2]
          BY <3>6, <4>2 DEF d
        <5>2. \A k \in 1 .. 2 : k = 1 \/ k = 2
          OBVIOUS
        <5>. QED  BY <5>1, <5>2
      <4>4. u = v
        BY <1>1, <3>5, <4>2, <4>3, SameSequence
      <4>. QED  BY <4>4 DEF v, d
    <3>8. UnitReadings(u) = {d \in DOMAIN EscapeFor : u = << Backslash, EscapeFor[d] >>}
      BY <1>1, <3>5, UnitReadingsAre
    <3>. QED  BY <3>4, <3>7, <3>8 DEF u
  <2>. QED  BY <2>3, <2>4
<1>. QED  BY <1>4, <1>5

\* It ends further on, and in s.
LEMMA UnitLies ==
  ASSUME NEW s \in Seq(Nat), NEW p \in Nat, p < Len(s), NEW x, NEW to, NextUnit(s, p) = Read(x, to)
  PROVE  to \in p + 1 .. Len(s)
<1>0. Len(s) \in Nat /\ p + 1 \in Nat /\ p + 2 \in Nat
  OBVIOUS
<1>1. CASE At(s, p) # Backslash
  <2>1. p + 1 = to
    BY <1>1, ReadSame DEF NextUnit
  <2>. QED  BY <1>0, <2>1
<1>2. CASE At(s, p) = Backslash
  <2>. DEFINE c == At(s, p + 1)
  <2>1. QuotedEscapeAt(s, p + 1) = Read(x, to)
    BY <1>2, Zenon DEF NextUnit
  <2>2. QuotedEscapeAt(s, p + 1) =
          IF c = Code["u"] THEN HexEscapeAt(s, p + 1 + 1)
          ELSE IF \E d \in DOMAIN EscapeFor : EscapeFor[d] = c
          THEN Read(CHOOSE d \in DOMAIN EscapeFor : EscapeFor[d] = c, p + 1 + 1)
          ELSE Fail("BadEscape")
    BY Zenon DEF QuotedEscapeAt
  <2>3. CASE c = Code["u"]
    <3>. DEFINE q == p + 1 + 1
    <3>1. HexEscapeAt(s, q) = Read(x, to)
      BY <2>1, <2>2, <2>3, Zenon
    <3>2. q \in Nat /\ q = p + 2
      OBVIOUS
    <3>. HIDE DEF q
    <3>3. HexEnds(s, q, x, to)
      BY <3>1, <3>2, HexIs, Zenon
    <3>4. to = q + 4 /\ q + 4 <= Len(s)
      BY <3>3, Zenon DEF HexEnds
    <3>. QED  BY <1>0, <3>2, <3>4
  <2>4. CASE c # Code["u"]
    <3>1. \E d \in DOMAIN EscapeFor : EscapeFor[d] = c
      BY <2>1, <2>2, <2>4, FailsAre, Zenon
    <3>2. Read(CHOOSE d \in DOMAIN EscapeFor : EscapeFor[d] = c, p + 1 + 1) = Read(x, to)
      BY <2>1, <2>2, <2>4, <3>1, Zenon
    <3>3. p + 1 + 1 = to
      BY <3>2, ReadSame
    <3>4. c \in Nat
      BY <3>1, SelectorTextAssumption
    <3>5. p + 1 < Len(s)
      BY <1>0, <3>4, AtIs DEF IsAt
    <3>. QED  BY <1>0, <3>3, <3>5
  <2>. QED  BY <2>3, <2>4
<1>. QED  BY <1>1, <1>2

----------------------------------------------------------------------------
(* A text taken part by part.                                              *)

\* reads[p][to] is what the part from p to `to` is read as.
PartsStep(n, reads, p, f) ==
  IF p = n THEN {<< >>} ELSE UNION {Followed(reads[p][to], f[to]) : to \in p + 1 .. n}

JoinsOn(xs, rests, y) == \E x \in xs : \E rest \in rests : y = << x >> \o rest

LEMMA FollowedIs ==
  ASSUME NEW xs, NEW rests, NEW y
  PROVE  y \in Followed(xs, rests) <=> JoinsOn(xs, rests, y)
<1>1. ASSUME y \in Followed(xs, rests) PROVE \E x \in xs : \E rest \in rests : y = << x >> \o rest
  <2>1. PICK x \in xs : y \in {<< x >> \o rest : rest \in rests}
    BY <1>1 DEF Followed
  <2>. QED  BY <2>1
<1>2. ASSUME NEW x \in xs, NEW rest \in rests, y = << x >> \o rest PROVE y \in Followed(xs, rests)
  <2>1. y \in {<< x >> \o r : r \in rests}
    BY <1>2
  <2>. QED  BY <2>1 DEF Followed
<1>. QED  BY <1>1, <1>2, Zenon DEF JoinsOn

\* ... from each place from lo on.
ArePartsFrom(f, n, reads, lo) ==
  f = [p \in lo .. n |-> f[p]] /\ \A p \in lo .. n : f[p] = PartsStep(n, reads, p, f)

LEMMA PartsStepSame ==
  ASSUME NEW n \in Nat, NEW reads, NEW p \in 0 .. n, NEW f, NEW g,
         \A q \in p + 1 .. n : f[q] = g[q]
  PROVE  PartsStep(n, reads, p, f) = PartsStep(n, reads, p, g)
<1>1. {Followed(reads[p][to], f[to]) : to \in p + 1 .. n} =
        {Followed(reads[p][to], g[to]) : to \in p + 1 .. n}
  <2>1. ASSUME NEW to \in p + 1 .. n PROVE Followed(reads[p][to], f[to]) = Followed(reads[p][to], g[to])
    BY Zenon
  <2>. DEFINE a == [to \in p + 1 .. n |-> Followed(reads[p][to], f[to])]
              b == [to \in p + 1 .. n |-> Followed(reads[p][to], g[to])]
  <2>2. \A to \in p + 1 .. n : a[to] = b[to]
    BY <2>1
  <2>3. {Followed(reads[p][to], f[to]) : to \in p + 1 .. n} = {a[to] : to \in p + 1 .. n}
    BY Zenon
  <2>4. {Followed(reads[p][to], g[to]) : to \in p + 1 .. n} = {b[to] : to \in p + 1 .. n}
    BY Zenon
  <2>. HIDE DEF a, b
  <2>. QED  BY <2>2, <2>3, <2>4
<1>. QED  BY <1>1, Zenon DEF PartsStep

LEMMA PartsExist ==
  ASSUME NEW n \in Nat, NEW reads
  PROVE  \E f : ArePartsFrom(f, n, reads, 0)
<1>. DEFINE S == {m \in 0 .. n : \E f : ArePartsFrom(f, n, reads, n - m)}
<1>1. 0 \in S
  <2>. DEFINE f == [p \in n .. n |-> {<< >>}]
  <2>1. f[n] = {<< >>} /\ f = [p \in n .. n |-> f[p]]
    OBVIOUS
  <2>. HIDE DEF f
  <2>2. \A p \in n .. n : p = n
    OBVIOUS
  <2>3. ArePartsFrom(f, n, reads, n)
    BY <2>1, <2>2, Zenon DEF ArePartsFrom, PartsStep
  <2>4. n - 0 = n
    OBVIOUS
  <2>. QED  BY <2>3, <2>4
<1>2. ASSUME NEW m \in 0 .. n - 1, m \in S PROVE m + 1 \in S
  <2>1. PICK f : ArePartsFrom(f, n, reads, n - m)
    BY <1>2
  <2>. DEFINE lo == n - (m + 1)
  <2>2. lo \in 0 .. n /\ lo + 1 = n - m /\ lo < n /\ n - m \in 0 .. n
    OBVIOUS
  <2>. HIDE DEF lo
  <2>. DEFINE g == [p \in lo .. n |-> IF p = lo THEN PartsStep(n, reads, lo, f) ELSE f[p]]
  <2>3. g = [p \in lo .. n |-> g[p]] /\ g[lo] = PartsStep(n, reads, lo, f)
    BY <2>2
  <2>4. \A p \in lo + 1 .. n : g[p] = f[p]
    BY <2>2
  <2>. HIDE DEF g
  <2>5. ASSUME NEW p \in lo .. n PROVE g[p] = PartsStep(n, reads, p, g)
    <3>1. PartsStep(n, reads, p, f) = PartsStep(n, reads, p, g)
      <4>1. p \in 0 .. n /\ \A q \in p + 1 .. n : f[q] = g[q]
        BY <2>2, <2>4
      <4>. QED  BY <4>1, PartsStepSame
    <3>2. CASE p = lo
      BY <2>3, <3>1, <3>2
    <3>3. CASE p # lo
      <4>1. p \in lo + 1 .. n
        BY <2>2, <3>3
      <4>2. f[p] = PartsStep(n, reads, p, f)
        BY <2>1, <2>2, <4>1 DEF ArePartsFrom
      <4>. QED  BY <2>4, <3>1, <4>1, <4>2
    <3>. QED  BY <3>2, <3>3
  <2>6. ArePartsFrom(g, n, reads, lo)
    BY <2>3, <2>5 DEF ArePartsFrom
  <2>7. m + 1 \in 0 .. n
    OBVIOUS
  <2>. QED  BY <2>6, <2>7 DEF lo
<1>. HIDE DEF S
<1>3. n \in S
  <2>1. 0 .. n \subseteq S
    BY <1>1, <1>2, InductionUpTo
  <2>. QED  BY <2>1
<1>4. n - n = 0
  OBVIOUS
<1>. QED  BY <1>3, <1>4 DEF S

IsParts(f, n, reads) == f = [p \in 0 .. n |-> PartsStep(n, reads, p, f)]

\* y is read from p on.
PartsFrom(f, n, reads, p, y) ==
  \/ p = n /\ y = << >>
  \/ p # n /\ \E to \in p + 1 .. n : JoinsOn(reads[p][to], f[to], y)

PartsRead(f, n, reads) == \A p \in 0 .. n : \A y : y \in f[p] <=> PartsFrom(f, n, reads, p, y)

LEMMA PartsAreThere ==
  ASSUME NEW n \in Nat, NEW reads
  PROVE  \E f : IsParts(f, n, reads)
<1>1. PICK f : ArePartsFrom(f, n, reads, 0)
  BY PartsExist
<1>. DEFINE g == [p \in 0 .. n |-> PartsStep(n, reads, p, f)]
<1>2. f = [p \in 0 .. n |-> f[p]]
  BY <1>1 DEF ArePartsFrom
<1>3. [p \in 0 .. n |-> f[p]] = g
  BY <1>1, Zenon DEF ArePartsFrom
<1>4. IsParts(f, n, reads)
  BY <1>2, <1>3, Zenon DEF IsParts
<1>. QED  BY <1>4

LEMMA PartsRule ==
  ASSUME NEW n \in Nat, NEW reads, NEW f, IsParts(f, n, reads)
  PROVE  PartsRead(f, n, reads)
<1>1. ASSUME NEW p \in 0 .. n PROVE f[p] = PartsStep(n, reads, p, f)
  <2>. DEFINE g == [q \in 0 .. n |-> PartsStep(n, reads, q, f)]
  <2>1. g[p] = PartsStep(n, reads, p, f)
    BY Zenon
  <2>2. f = g
    BY DEF IsParts
  <2>. QED  BY <2>1, <2>2, Zenon
<1>2. ASSUME NEW p \in 0 .. n, NEW y PROVE y \in PartsStep(n, reads, p, f) <=> PartsFrom(f, n, reads, p, y)
  <2>1. CASE p = n
    BY <2>1 DEF PartsStep, PartsFrom
  <2>2. CASE p # n
    <3>1. y \in PartsStep(n, reads, p, f) <=> \E to \in p + 1 .. n : y \in Followed(reads[p][to], f[to])
      BY <2>2, Zenon DEF PartsStep
    <3>2. \A to : y \in Followed(reads[p][to], f[to]) <=> JoinsOn(reads[p][to], f[to], y)
      BY FollowedIs
    <3>. QED  BY <2>2, <3>1, <3>2, Zenon DEF PartsFrom
  <2>. QED  BY <2>1, <2>2
<1>. QED  BY <1>1, <1>2, Zenon DEF PartsRead

----------------------------------------------------------------------------
(* A quoted key, unit by unit.                                             *)

UnitReads(text) ==
  [p \in 0 .. Len(text) |-> [to \in 0 .. Len(text) |-> UnitReadings(Between(text, p, to))]]

UnitParts(f, text) ==
  f = [pos \in 0 .. Len(text) |->
         IF pos = Len(text) THEN {<< >>}
         ELSE UNION {Followed(UnitReadings(SubSeq(text, pos + 1, to)), f[to]) : to \in pos + 1 .. Len(text)}]

LEMMA UnitPartsAre ==
  ASSUME NEW text \in Seq(Nat), NEW f
  PROVE  UnitParts(f, text) <=> IsParts(f, Len(text), UnitReads(text))
<1>. DEFINE n == Len(text)  reads == UnitReads(text)
<1>0. n \in Nat
  OBVIOUS
<1>1. ASSUME NEW p \in 0 .. n
      PROVE  (IF p = n THEN {<< >>}
              ELSE UNION {Followed(UnitReadings(SubSeq(text, p + 1, to)), f[to]) :
                            to \in p + 1 .. n}) =
             PartsStep(n, reads, p, f)
  <2>. DEFINE a == [to \in p + 1 .. n |-> Followed(UnitReadings(SubSeq(text, p + 1, to)), f[to])]
              b == [to \in p + 1 .. n |-> Followed(reads[p][to], f[to])]
  <2>1. ASSUME NEW to \in p + 1 .. n PROVE a[to] = b[to]
    <3>1. to \in 0 .. n
      BY <1>0
    <3>2. reads[p][to] = UnitReadings(Between(text, p, to))
      BY <3>1, Zenon DEF UnitReads
    <3>. QED  BY <3>2, Zenon DEF Between
  <2>2. {Followed(UnitReadings(SubSeq(text, p + 1, to)), f[to]) : to \in p + 1 .. n} = {a[to] : to \in p + 1 .. n}
    BY Zenon
  <2>3. {Followed(reads[p][to], f[to]) : to \in p + 1 .. n} = {b[to] : to \in p + 1 .. n}
    BY Zenon
  <2>. HIDE DEF a, b
  <2>4. {a[to] : to \in p + 1 .. n} = {b[to] : to \in p + 1 .. n}
    BY <2>1
  <2>5. {Followed(UnitReadings(SubSeq(text, p + 1, to)), f[to]) : to \in p + 1 .. n} =
        {Followed(reads[p][to], f[to]) : to \in p + 1 .. n}
    BY <2>2, <2>3, <2>4, Zenon
  <2>. QED  BY <2>5, Zenon DEF PartsStep
<1>. DEFINE c == [p \in 0 .. n |->
         IF p = n THEN {<< >>}
         ELSE UNION {Followed(UnitReadings(SubSeq(text, p + 1, to)), f[to]) : to \in p + 1 .. n}]
            d == [p \in 0 .. n |-> PartsStep(n, reads, p, f)]
<1>2. c = d
  BY <1>1, Zenon
<1>3. UnitParts(f, text) <=> f = c
  BY Zenon DEF UnitParts
<1>4. IsParts(f, n, reads) <=> f = d
  BY Zenon DEF IsParts
<1>. HIDE DEF c, d, n, reads
<1>5. UnitParts(f, text) <=> IsParts(f, n, reads)
  BY <1>2, <1>3, <1>4
<1>. QED  BY <1>5 DEF n, reads

LEMMA KeysFrom ==
  ASSUME NEW text \in Seq(Nat)
  PROVE  \E f : PartsRead(f, Len(text), UnitReads(text)) /\ KeyReadings(text) = f[0]
<1>. DEFINE f == CHOOSE f : UnitParts(f, text)
<1>1. KeyReadings(text) = f[0]
  BY Zenon DEF KeyReadings, InParts, UnitParts
<1>2. Len(text) \in Nat
  OBVIOUS
<1>3. \E g : UnitParts(g, text)
  <2>1. PICK g : IsParts(g, Len(text), UnitReads(text))
    BY <1>2, PartsAreThere
  <2>. QED  BY <2>1, UnitPartsAre
<1>4. UnitParts(f, text)
  BY <1>3, Zenon
<1>. HIDE DEF f
<1>5. PartsRead(f, Len(text), UnitReads(text))
  BY <1>2, <1>4, UnitPartsAre, PartsRule
<1>. QED  BY <1>1, <1>5

QuotedStep(s, f, p) ==
  CASE At(s, p) = End -> Fail("UnterminatedString")
    [] At(s, p) = Quote -> Read(<< >>, p + 1)
    [] OTHER ->
         Then(NextUnit(s, p), LAMBDA c, at : Then(f[at], LAMBDA rest, past : Read(<< c >> \o rest, past)))

IsRead(r) == IsOk(r) => r = Read(r.value, r.pos)

LEMMA FailsFail == ASSUME NEW e, e # "Ok" PROVE ~IsOk(Fail(e)) /\ IsRead(Fail(e))
  BY DEF Fail, IsOk, IsRead

LEMMA ReadsAreReads == ASSUME NEW x, NEW q PROVE IsRead(Read(x, q))
  BY DEF Read, IsOk, IsRead

LEMMA UnitIsRead == ASSUME NEW s, NEW p PROVE IsRead(NextUnit(s, p))
<1>1. \A e : e # "Ok" => IsRead(Fail(e))
  BY FailsFail
<1>2. \A x, q : IsRead(Read(x, q))
  BY ReadsAreReads
<1>3. \A q : IsRead(HexEscapeAt(s, q))
  BY <1>1, <1>2 DEF HexEscapeAt
<1>4. \A q : IsRead(QuotedEscapeAt(s, q))
  BY <1>1, <1>2, <1>3 DEF QuotedEscapeAt
<1>. QED  BY <1>2, <1>4 DEF NextUnit

\* The key from p on ends at z and is y.
QuotedFrom(s, f, p, y, z) ==
  \/ At(s, p) = Quote /\ y = << >> /\ z = p + 1
  \/ /\ At(s, p) # End /\ At(s, p) # Quote
     /\ \E x, to, rest : /\ NextUnit(s, p) = Read(x, to) /\ f[to] = Read(rest, z)
                         /\ y = << x >> \o rest

LEMMA QuotedStepIs ==
  ASSUME NEW s \in Seq(Nat), NEW p \in 0 .. Len(s), NEW f, NEW y, NEW z,
         \A q \in p + 1 .. Len(s) : IsRead(f[q])
  PROVE  /\ QuotedStep(s, f, p) = Read(y, z) <=> QuotedFrom(s, f, p, y, z)
         /\ IsRead(QuotedStep(s, f, p))
<1>. DEFINE r == QuotedStep(s, f, p)
<1>0. Quote # End /\ Quote \in Nat
  BY MarkFacts DEF MarksDiffer
<1>1. CASE At(s, p) = End
  <2>1. r = Fail("UnterminatedString")
    BY <1>0, <1>1 DEF QuotedStep
  <2>2. ~IsOk(r) /\ IsRead(r) /\ r # Read(y, z)
    BY <2>1, FailsFail, FailsAre
  <2>. QED  BY <1>0, <1>1, <2>2 DEF QuotedFrom
<1>2. CASE At(s, p) = Quote
  <2>1. r = Read(<< >>, p + 1)
    BY <1>0, <1>2 DEF QuotedStep
  <2>2. r = Read(y, z) <=> y = << >> /\ z = p + 1
    BY <2>1, ReadSame
  <2>. QED  BY <1>2, <2>1, <2>2, ReadsAreReads DEF QuotedFrom
<1>3. CASE At(s, p) # End /\ At(s, p) # Quote
  <2>. DEFINE u == NextUnit(s, p)
  <2>1. r = Then(u, LAMBDA c, at : Then(f[at], LAMBDA rest, past : Read(<< c >> \o rest, past)))
    BY <1>3 DEF QuotedStep
  <2>2. IsRead(u)
    BY UnitIsRead
  <2>3. QuotedFrom(s, f, p, y, z) <=>
          \E x, to, rest : u = Read(x, to) /\ f[to] = Read(rest, z) /\ y = << x >> \o rest
    BY <1>3 DEF QuotedFrom
  <2>. HIDE DEF u
  <2>4. CASE ~IsOk(u)
    <3>1. r = u
      BY <2>1, <2>4 DEF Then
    <3>2. \A x, q : Read(x, q) # u
      BY <2>4, ReadGives
    <3>. QED  BY <2>3, <2>4, <3>1, <3>2 DEF IsRead
  <2>5. CASE IsOk(u)
    <3>. DEFINE c == u.value  at == u.pos
    <3>1. u = Read(c, at)
      BY <2>2, <2>5 DEF IsRead
    <3>2. r = Then(f[at], LAMBDA rest, past : Read(<< c >> \o rest, past))
      BY <2>1, <2>5 DEF Then
    <3>3. at \in p + 1 .. Len(s)
      <4>1. p < Len(s)
        BY <1>3, AtIs DEF IsAt
      <4>2. NextUnit(s, p) = Read(c, at)
        BY <3>1 DEF u
      <4>. HIDE DEF c, at
      <4>. QED  BY <4>1, <4>2, UnitLies
    <3>. HIDE DEF c, at
    <3>4. IsRead(f[at])
      BY <3>3
    <3>5. \A x, to : u = Read(x, to) => x = c /\ to = at
      BY <3>1, ReadSame
    <3>6. CASE ~IsOk(f[at])
      <4>1. r = f[at]
        BY <3>2, <3>6 DEF Then
      <4>2. \A x, q : Read(x, q) # f[at]
        BY <3>6, ReadGives
      <4>. QED  BY <2>3, <3>4, <3>5, <4>1, <4>2
    <3>7. CASE IsOk(f[at])
      <4>. DEFINE rest == f[at].value  past == f[at].pos
      <4>1. f[at] = Read(rest, past)
        BY <3>4, <3>7 DEF IsRead
      <4>2. r = Read(<< c >> \o rest, past)
        BY <3>2, <3>7 DEF Then
      <4>. HIDE DEF rest, past
      <4>3. r = Read(y, z) <=> y = << c >> \o rest /\ z = past
        BY <4>2, ReadSame
      <4>4. \A o, q : f[at] = Read(o, q) => o = rest /\ q = past
        BY <4>1, ReadSame
      <4>5. IsRead(r)
        BY <4>2, ReadsAreReads
      <4>. HIDE DEF r
      <4>6. ASSUME r = Read(y, z) PROVE QuotedFrom(s, f, p, y, z)
        BY <2>3, <3>1, <4>1, <4>3, <4>6
      <4>7. ASSUME QuotedFrom(s, f, p, y, z) PROVE r = Read(y, z)
        <5>1. PICK x, to, o : u = Read(x, to) /\ f[to] = Read(o, z) /\ y = << x >> \o o
          BY <2>3, <4>7
        <5>2. x = c /\ to = at
          BY <3>5, <5>1
        <5>3. o = rest /\ z = past
          BY <4>4, <5>1, <5>2
        <5>. QED  BY <4>3, <5>1, <5>2, <5>3
      <4>. QED  BY <4>5, <4>6, <4>7 DEF r
    <3>. QED  BY <3>6, <3>7
  <2>. QED  BY <2>4, <2>5
<1>. QED  BY <1>1, <1>2, <1>3

\* ... and depends on what comes after p.
LEMMA QuotedStepSame ==
  ASSUME NEW s \in Seq(Nat), NEW p \in 0 .. Len(s), NEW f, NEW g,
         \A q \in p + 1 .. Len(s) : f[q] = g[q]
  PROVE  QuotedStep(s, f, p) = QuotedStep(s, g, p)
<1>0. Quote # End
  BY MarkFacts DEF MarksDiffer
<1>1. CASE At(s, p) = End \/ At(s, p) = Quote
  BY <1>0, <1>1 DEF QuotedStep
<1>2. CASE At(s, p) # End /\ At(s, p) # Quote
  <2>. DEFINE u == NextUnit(s, p)
              a(h) == Then(u, LAMBDA c, at : Then(h[at], LAMBDA rest, past : Read(<< c >> \o rest, past)))
  <2>1. QuotedStep(s, f, p) = a(f) /\ QuotedStep(s, g, p) = a(g)
    BY <1>2 DEF QuotedStep
  <2>2. CASE ~IsOk(u)
    BY <2>1, <2>2 DEF Then
  <2>3. CASE IsOk(u)
    <3>1. u = Read(u.value, u.pos)
      BY <2>3, UnitIsRead DEF IsRead
    <3>2. u.pos \in p + 1 .. Len(s)
      <4>1. p < Len(s)
        BY <1>2, AtIs DEF IsAt
      <4>. QED  BY <3>1, <4>1, UnitLies
    <3>3. f[u.pos] = g[u.pos]
      BY <3>2
    <3>4. a(f) = a(g)
      BY <2>3, <3>3, Zenon DEF Then
    <3>. QED  BY <2>1, <3>4
  <2>. QED  BY <2>2, <2>3
<1>. QED  BY <1>1, <1>2

AreQuotedFrom(f, s, lo) ==
  f = [p \in lo .. Len(s) |-> f[p]] /\ \A p \in lo .. Len(s) : f[p] = QuotedStep(s, f, p)

LEMMA QuotedExist ==
  ASSUME NEW s \in Seq(Nat)
  PROVE  \E f : AreQuotedFrom(f, s, 0)
<1>. DEFINE n == Len(s)
            S == {m \in 0 .. n : \E f : AreQuotedFrom(f, s, n - m)}
<1>0. n \in Nat
  OBVIOUS
<1>1. 0 \in S
  <2>. DEFINE f == [p \in n .. n |-> Fail("UnterminatedString")]
  <2>1. f[n] = Fail("UnterminatedString") /\ f = [p \in n .. n |-> f[p]]
    BY <1>0
  <2>. HIDE DEF f
  <2>2. \A p \in n .. n : p = n
    BY <1>0
  <2>3. At(s, n) = End /\ End # Quote
    BY <1>0, AtIs, MarkFacts DEF IsAt, MarksDiffer
  <2>4. QuotedStep(s, f, n) = Fail("UnterminatedString")
    BY <2>3 DEF QuotedStep
  <2>5. AreQuotedFrom(f, s, n)
    BY <2>1, <2>2, <2>4, Zenon DEF AreQuotedFrom
  <2>6. n - 0 = n
    BY <1>0
  <2>. QED  BY <1>0, <2>5, <2>6
<1>2. ASSUME NEW m \in 0 .. n - 1, m \in S PROVE m + 1 \in S
  <2>1. PICK f : AreQuotedFrom(f, s, n - m)
    BY <1>2
  <2>. DEFINE lo == n - (m + 1)
  <2>2. lo \in 0 .. n /\ lo + 1 = n - m /\ lo < n /\ n - m \in 0 .. n
    BY <1>0
  <2>. HIDE DEF lo
  <2>. DEFINE g == [p \in lo .. n |-> IF p = lo THEN QuotedStep(s, f, lo) ELSE f[p]]
  <2>3. g = [p \in lo .. n |-> g[p]] /\ g[lo] = QuotedStep(s, f, lo)
    BY <2>2
  <2>4. \A p \in lo + 1 .. n : g[p] = f[p]
    BY <2>2
  <2>. HIDE DEF g
  <2>5. ASSUME NEW p \in lo .. n PROVE g[p] = QuotedStep(s, g, p)
    <3>1. QuotedStep(s, f, p) = QuotedStep(s, g, p)
      <4>1. p \in 0 .. n /\ \A q \in p + 1 .. n : f[q] = g[q]
        BY <2>2, <2>4
      <4>. QED  BY <4>1, QuotedStepSame
    <3>2. CASE p = lo
      BY <2>3, <3>1, <3>2
    <3>3. CASE p # lo
      <4>1. p \in lo + 1 .. n
        BY <2>2, <3>3
      <4>2. f[p] = QuotedStep(s, f, p)
        BY <2>1, <2>2, <4>1 DEF AreQuotedFrom
      <4>. QED  BY <2>4, <3>1, <4>1, <4>2
    <3>. QED  BY <3>2, <3>3
  <2>6. AreQuotedFrom(g, s, lo)
    BY <2>3, <2>5 DEF AreQuotedFrom
  <2>7. m + 1 \in 0 .. n
    BY <1>0
  <2>. QED  BY <2>6, <2>7 DEF lo
<1>. HIDE DEF S
<1>3. n \in S
  <2>1. 0 .. n \subseteq S
    BY <1>0, <1>1, <1>2, InductionUpTo
  <2>. QED  BY <1>0, <2>1
<1>4. n - n = 0
  BY <1>0
<1>. QED  BY <1>3, <1>4 DEF S

\* How QuotedAt is defined.
AreQuoted(f, s) ==
  f = [p \in 0 .. Len(s) |->
        CASE At(s, p) = End -> Fail("UnterminatedString")
          [] At(s, p) = Quote -> Read(<< >>, p + 1)
          [] OTHER ->
               Then(IF At(s, p) = Backslash THEN QuotedEscapeAt(s, p + 1) ELSE Read(At(s, p), p + 1),
                    LAMBDA c, at : Then(f[at], LAMBDA rest, past : Read(<< c >> \o rest, past)))]

QuotedRule(f, s) ==
  \A p \in 0 .. Len(s) : \A y, z : f[p] = Read(y, z) <=> QuotedFrom(s, f, p, y, z)

\* The keys that start at each place.
LEMMA QuotedFromAll ==
  ASSUME NEW s \in Seq(Nat)
  PROVE  \E f : /\ QuotedRule(f, s)
               /\ \A p \in 0 .. Len(s) : QuotedAt(s, p) = f[p] /\ IsRead(f[p])
<1>. DEFINE n == Len(s)  f == CHOOSE f : AreQuoted(f, s)
<1>0. n \in Nat
  OBVIOUS
<1>1. \A p : QuotedAt(s, p) = f[p]
  BY Zenon DEF QuotedAt, AreQuoted
<1>2. ASSUME NEW g PROVE AreQuoted(g, s) <=> g = [p \in 0 .. n |-> QuotedStep(s, g, p)]
  BY Zenon DEF AreQuoted, QuotedStep, NextUnit
<1>3. \E g : AreQuoted(g, s)
  <2>1. PICK g : AreQuotedFrom(g, s, 0)
    BY QuotedExist
  <2>2. g = [p \in 0 .. n |-> g[p]]
    BY <2>1 DEF AreQuotedFrom
  <2>3. [p \in 0 .. n |-> g[p]] = [p \in 0 .. n |-> QuotedStep(s, g, p)]
    BY <2>1, Zenon DEF AreQuotedFrom
  <2>. QED  BY <1>2, <2>2, <2>3, Zenon
<1>4. AreQuoted(f, s)
  BY <1>3, Zenon
<1>. HIDE DEF f
<1>5. ASSUME NEW p \in 0 .. n PROVE f[p] = QuotedStep(s, f, p)
  <2>. DEFINE g == [q \in 0 .. n |-> QuotedStep(s, f, q)]
  <2>1. g[p] = QuotedStep(s, f, p)
    BY Zenon
  <2>2. f = g
    BY <1>2, <1>4, Zenon
  <2>. QED  BY <2>1, <2>2, Zenon
<1>6. \A p \in 0 .. n : IsRead(f[p])
  <2>. DEFINE S == {m \in 0 .. n : \A p \in n - m .. n : IsRead(f[p])}
  <2>1. ASSUME NEW m \in 0 .. n, \A p \in n - m + 1 .. n : IsRead(f[p]) PROVE m \in S
    <3>1. n - m \in 0 .. n
      BY <1>0
    <3>2. IsRead(f[n - m])
      BY <1>5, <2>1, <3>1, QuotedStepIs
    <3>3. \A p \in n - m .. n : p = n - m \/ p \in n - m + 1 .. n
      BY <1>0
    <3>. QED  BY <2>1, <3>2, <3>3
  <2>2. 0 \in S
    BY <1>0, <2>1
  <2>3. ASSUME NEW m \in 0 .. n - 1, m \in S PROVE m + 1 \in S
    <3>1. m + 1 \in 0 .. n /\ n - (m + 1) + 1 = n - m
      BY <1>0
    <3>2. \A p \in n - (m + 1) + 1 .. n : IsRead(f[p])
      BY <2>3, <3>1
    <3>. HIDE DEF S
    <3>. QED  BY <2>1, <3>1, <3>2
  <2>. HIDE DEF S
  <2>4. n \in S
    <3>1. 0 .. n \subseteq S
      BY <1>0, <2>2, <2>3, InductionUpTo
    <3>. QED  BY <1>0, <3>1
  <2>5. n - n = 0
    BY <1>0
  <2>. QED  BY <2>4, <2>5 DEF S
<1>7. ASSUME NEW p \in 0 .. n, NEW y, NEW z PROVE f[p] = Read(y, z) <=> QuotedFrom(s, f, p, y, z)
  <2>1. \A q \in p + 1 .. n : IsRead(f[q])
    BY <1>0, <1>6
  <2>2. QuotedStep(s, f, p) = Read(y, z) <=> QuotedFrom(s, f, p, y, z)
    BY <2>1, QuotedStepIs
  <2>. QED  BY <1>5, <2>2
<1>. QED  BY <1>1, <1>6, <1>7 DEF QuotedRule

\* A key ends further on, after a quote.
LEMMA QuotedLies ==
  ASSUME NEW s \in Seq(Nat), NEW f, QuotedRule(f, s)
  PROVE  \A p \in 0 .. Len(s) : \A y, z : f[p] = Read(y, z) => z \in p + 1 .. Len(s) /\ At(s, z - 1) = Quote
<1>. DEFINE n == Len(s)
            Lies(p) == \A y, z : f[p] = Read(y, z) => z \in p + 1 .. n /\ At(s, z - 1) = Quote
            S == {m \in 0 .. n : \A p \in n - m .. n : Lies(p)}
<1>0. n \in Nat
  OBVIOUS
<1>1. ASSUME NEW m \in 0 .. n, \A p \in n - m + 1 .. n : Lies(p) PROVE m \in S
  <2>. DEFINE p == n - m
  <2>1. p \in 0 .. n /\ p < n + 1
    BY <1>0
  <2>. HIDE DEF p
  <2>2. ASSUME NEW y, NEW z, f[p] = Read(y, z) PROVE z \in p + 1 .. n /\ At(s, z - 1) = Quote
    <3>1. QuotedFrom(s, f, p, y, z)
      BY <2>1, <2>2 DEF QuotedRule
    <3>2. p < n
      <4>1. At(s, p) # End
        BY <3>1, MarkFacts DEF QuotedFrom, MarksDiffer
      <4>. QED  BY <2>1, <4>1, AtIs DEF IsAt
    <3>3. CASE z = p + 1 /\ At(s, p) = Quote
      <4>1. z - 1 = p
        BY <1>0, <2>1, <3>3
      <4>. QED  BY <1>0, <2>1, <3>2, <3>3, <4>1
    <3>4. CASE ~(z = p + 1 /\ At(s, p) = Quote)
      <4>1. PICK x, to, rest : NextUnit(s, p) = Read(x, to) /\ f[to] = Read(rest, z)
        BY <3>1, <3>4, Zenon DEF QuotedFrom
      <4>2. to \in p + 1 .. n
        BY <2>1, <3>2, <4>1, UnitLies
      <4>3. Lies(to)
        BY <1>1, <4>2 DEF p
      <4>4. z \in to + 1 .. n /\ At(s, z - 1) = Quote
        BY <4>1, <4>3
      <4>. QED  BY <1>0, <2>1, <4>2, <4>4
    <3>. QED  BY <3>3, <3>4
  <2>3. \A q \in p .. n : q = p \/ q \in p + 1 .. n
    BY <1>0, <2>1
  <2>4. Lies(p)
    BY <2>2
  <2>. HIDE DEF Lies
  <2>5. \A q \in p .. n : Lies(q)
    BY <1>1, <2>3, <2>4 DEF p
  <2>. QED  BY <2>5 DEF p
<1>. HIDE DEF Lies
<1>2. 0 \in S
  BY <1>0, <1>1
<1>3. ASSUME NEW m \in 0 .. n - 1, m \in S PROVE m + 1 \in S
  <2>1. m + 1 \in 0 .. n /\ n - (m + 1) + 1 = n - m
    BY <1>0
  <2>2. \A p \in n - (m + 1) + 1 .. n : Lies(p)
    BY <1>3, <2>1
  <2>. HIDE DEF S
  <2>. QED  BY <1>1, <2>1, <2>2
<1>. HIDE DEF S
<1>4. n \in S
  <2>1. 0 .. n \subseteq S
    BY <1>0, <1>2, <1>3, InductionUpTo
  <2>. QED  BY <1>0, <2>1
<1>5. \A p \in 0 .. n : Lies(p)
  <2>1. n - n = 0
    BY <1>0
  <2>. QED  BY <1>4, <2>1 DEF S
<1>. QED  BY <1>5 DEF Lies

\* What is between a place and a quote is read as the key the parser reads there.
LEMMA KeyIs ==
  ASSUME NEW s \in Seq(Nat), NEW a \in 0 .. Len(s), NEW z \in a .. Len(s), At(s, z) = Quote, NEW y
  PROVE  y \in KeyReadings(Between(s, a, z)) <=> QuotedAt(s, a) = Read(y, z + 1)
<1>. DEFINE n == Len(s)  text == Between(s, a, z)  m == z - a
<1>0. /\ n \in Nat /\ a \in 0 .. n /\ z \in a .. n /\ m \in 0 .. n /\ a + m = z /\ a + 0 = a
      /\ m \in Nat
  OBVIOUS
<1>1. text \in Seq(Nat) /\ Len(text) = m
  BY BetweenIs DEF IsBetween
<1>2. z < n
  BY <1>0, AtIs, MarkFacts DEF IsAt, MarksDiffer
<1>3. PICK g : PartsRead(g, Len(text), UnitReads(text)) /\ KeyReadings(text) = g[0]
  BY <1>1, KeysFrom
<1>4. PICK f : QuotedRule(f, s) /\ \A p \in 0 .. n : QuotedAt(s, p) = f[p]
  BY QuotedFromAll
<1>5. \A p \in 0 .. n : \A x, q : f[p] = Read(x, q) => q \in p + 1 .. n
  BY <1>4, QuotedLies
<1>6. ASSUME NEW p \in 0 .. m, NEW to \in p .. m
      PROVE  UnitReads(text)[p][to] = UnitReadings(Between(s, a + p, a + to))
  <2>1. p \in 0 .. Len(text) /\ to \in 0 .. Len(text)
    BY <1>0, <1>1
  <2>2. UnitReads(text)[p][to] = UnitReadings(Between(text, p, to))
    BY <2>1, Zenon DEF UnitReads
  <2>3. Between(text, p, to) = Between(s, a + p, a + to)
    BY <1>0, BetweenOf
  <2>. QED  BY <2>2, <2>3, Zenon
<1>7. \A p \in 0 .. m : \A x : x \in g[p] <=> PartsFrom(g, m, UnitReads(text), p, x)
  BY <1>1, <1>3 DEF PartsRead
<1>. DEFINE Same(p) == \A x : x \in g[p] <=> f[a + p] = Read(x, z + 1)
            S == {k \in 0 .. m : \A p \in m - k .. m : Same(p)}
<1>. HIDE DEF n, text, m
<1>8. ASSUME NEW p \in 0 .. m, \A q \in p + 1 .. m : Same(q) PROVE Same(p)
  <2>. DEFINE i == a + p
  <2>0. i \in 0 .. n /\ i \in Nat /\ i <= z
    BY <1>0
  <2>1. CASE p = m
    <3>1. i = z /\ At(s, i) = Quote
      BY <1>0, <2>1
    <3>2. \A x : x \in g[p] <=> x = << >>
      BY <1>7, <2>1 DEF PartsFrom
    <3>. HIDE DEF i
    <3>3. \A x : f[i] = Read(x, z + 1) <=> x = << >>
      BY <1>4, <2>0, <3>1 DEF QuotedRule, QuotedFrom, n
    <3>. QED  BY <3>2, <3>3 DEF i
  <2>2. CASE p # m
    <3>0. i < z /\ i < n /\ p < m
      BY <1>0, <2>2
    <3>. HIDE DEF i
    <3>1. ASSUME NEW x, x \in g[p] PROVE f[i] = Read(x, z + 1)
      <4>1. PICK to \in p + 1 .. m : JoinsOn(UnitReads(text)[p][to], g[to], x)
        BY <1>7, <2>2, <3>1, Zenon DEF PartsFrom
      <4>2. PICK c \in UnitReads(text)[p][to], rest \in g[to] : x = << c >> \o rest
        BY <4>1 DEF JoinsOn
      <4>. DEFINE j == a + to
      <4>3. j \in i + 1 .. n /\ to \in p .. m
        BY <1>0 DEF i
      <4>4. c \in UnitReadings(Between(s, i, j))
        BY <1>6, <4>2, <4>3 DEF i
      <4>. HIDE DEF j
      <4>5. UnitEnds(s, i, c, j)
        BY <2>0, <3>0, <4>3, <4>4, UnitRead DEF n
      <4>6. f[j] = Read(rest, z + 1)
        BY <1>8, <4>2 DEF j
      <4>7. At(s, i) # End
        BY <2>0, <3>0, AtIs DEF IsAt, n
      <4>8. QuotedFrom(s, f, i, x, z + 1)
        BY <4>2, <4>5, <4>6, <4>7 DEF QuotedFrom, UnitEnds
      <4>. QED  BY <1>4, <2>0, <4>8 DEF QuotedRule, n
    <3>2. ASSUME NEW x, f[i] = Read(x, z + 1) PROVE x \in g[p]
      <4>1. QuotedFrom(s, f, i, x, z + 1)
        BY <1>4, <2>0, <3>2 DEF QuotedRule, n
      <4>2. z + 1 # i + 1
        BY <1>0, <2>0, <3>0
      <4>3. PICK c, j, rest : /\ At(s, i) # Quote /\ NextUnit(s, i) = Read(c, j)
                              /\ f[j] = Read(rest, z + 1) /\ x = << c >> \o rest
        BY <4>1, <4>2, Zenon DEF QuotedFrom
      <4>4. j \in i + 1 .. n
        BY <2>0, <3>0, <4>3, UnitLies DEF n
      <4>5. z + 1 \in j + 1 .. n
        BY <1>0, <1>5, <2>0, <4>3, <4>4
      <4>. DEFINE to == j - a
      <4>6. to \in p + 1 .. m /\ to \in p .. m /\ a + to = j
        BY <1>0, <2>0, <4>4, <4>5 DEF i
      <4>. HIDE DEF to
      <4>7. c \in UnitReadings(Between(s, i, j))
        BY <2>0, <3>0, <4>3, <4>4, UnitReadBack DEF n, UnitEnds
      <4>8. c \in UnitReads(text)[p][to]
        BY <1>6, <4>6, <4>7 DEF i
      <4>9. rest \in g[to]
        BY <1>8, <4>3, <4>6
      <4>10. JoinsOn(UnitReads(text)[p][to], g[to], x)
        BY <4>3, <4>8, <4>9, Zenon DEF JoinsOn
      <4>. QED  BY <1>7, <2>2, <4>6, <4>10 DEF PartsFrom
    <3>. QED  BY <3>1, <3>2 DEF i
  <2>. QED  BY <2>1, <2>2
<1>. HIDE DEF Same
<1>9. ASSUME NEW k \in 0 .. m, \A p \in m - k + 1 .. m : Same(p) PROVE k \in S
  <2>1. m - k \in 0 .. m /\ \A p \in m - k .. m : p = m - k \/ p \in m - k + 1 .. m
    BY <1>0
  <2>2. Same(m - k)
    BY <1>8, <1>9, <2>1
  <2>. QED  BY <1>9, <2>1, <2>2
<1>10. 0 \in S
  <2>1. 0 \in 0 .. m /\ \A p \in m - 0 + 1 .. m : FALSE
    BY <1>0
  <2>. HIDE DEF S
  <2>. QED  BY <1>9, <2>1
<1>11. ASSUME NEW k \in 0 .. m - 1, k \in S PROVE k + 1 \in S
  <2>1. k + 1 \in 0 .. m /\ m - (k + 1) + 1 = m - k
    BY <1>0
  <2>2. \A p \in m - (k + 1) + 1 .. m : Same(p)
    BY <1>11, <2>1
  <2>. HIDE DEF S
  <2>. QED  BY <1>9, <2>1, <2>2
<1>. HIDE DEF S
<1>12. m \in S
  <2>1. 0 .. m \subseteq S
    BY <1>0, <1>10, <1>11, InductionUpTo
  <2>. QED  BY <1>0, <2>1
<1>13. Same(0)
  <2>1. m - m = 0 /\ 0 \in 0 .. m
    BY <1>0
  <2>. QED  BY <1>12, <2>1 DEF S
<1>14. QuotedAt(s, a) = f[a]
  BY <1>0, <1>4
<1>. QED  BY <1>0, <1>3, <1>13, <1>14 DEF Same, text

----------------------------------------------------------------------------
(* Numbers.                                                                *)

IsDecimalValue(f, t) ==
  f = [k \in 0 .. Len(t) |-> IF k = 0 THEN 0 ELSE 10 * f[k - 1] + t[k] - Code["0"]]

LEMMA DigitsValue ==
  ASSUME NEW t \in Seq(Nat), \A k \in 1 .. Len(t) : t[k] \in Digits
  PROVE  DecimalNumber(t) \in Nat
<1>. DEFINE m == Len(t)  zero == Code["0"]
            step == [k \in 1 .. m |-> [v \in Nat |-> 10 * v + t[k] - zero]]
<1>0. m \in Nat /\ zero \in Nat
  BY SelectorTextAssumption
<1>1. step \in [1 .. m -> [Nat -> Nat]]
  <2>1. ASSUME NEW k \in 1 .. m, NEW v \in Nat PROVE 10 * v + t[k] - zero \in Nat
    <3>1. t[k] \in Nat /\ t[k] - zero \in 0 .. 9
      BY SelectorTextAssumption
    <3>. HIDE DEF zero
    <3>. QED  BY <1>0, <3>1
  <2>. QED  BY <2>1
<1>. DEFINE f == CHOOSE f : IsDecimalValue(f, t)
<1>2. DecimalNumber(t) = f[m]
  BY Zenon DEF DecimalNumber, IsDecimalValue
<1>3. PICK g : Iterates(g, m, Nat, 0, step)
  BY <1>0, <1>1, Iteration
<1>. HIDE DEF m
<1>4. ASSUME NEW k \in 1 .. m PROVE g[k] = 10 * g[k - 1] + t[k] - zero
  <2>1. k - 1 \in 0 .. m
    BY <1>0
  <2>2. g[k - 1] \in Nat
    BY <1>3, <2>1 DEF Iterates
  <2>3. g[k] = step[k][g[k - 1]]
    BY <1>3, Zenon DEF Iterates
  <2>. QED  BY <2>2, <2>3
<1>. HIDE DEF step, zero
<1>5. IsDecimalValue(g, t)
  <2>. DEFINE h == [k \in 0 .. m |-> IF k = 0 THEN 0 ELSE 10 * g[k - 1] + t[k] - zero]
  <2>1. g \in [0 .. m -> Nat] /\ g[0] = 0
    BY <1>3 DEF Iterates
  <2>2. \A k \in 0 .. m : k = 0 \/ k \in 1 .. m
    BY <1>0
  <2>3. g = h
    BY <1>4, <2>1, <2>2
  <2>. QED  BY <2>3, Zenon DEF IsDecimalValue, m, zero
<1>6. IsDecimalValue(f, t)
  BY <1>5, Zenon
<1>. HIDE DEF f
<1>7. ASSUME NEW k \in 0 .. m PROVE f[k] = IF k = 0 THEN 0 ELSE 10 * f[k - 1] + t[k] - zero
  <2>. DEFINE h == [j \in 0 .. m |-> IF j = 0 THEN 0 ELSE 10 * f[j - 1] + t[j] - zero]
  <2>1. f = h
    BY <1>6, Zenon DEF IsDecimalValue, m, zero
  <2>2. h[k] = IF k = 0 THEN 0 ELSE 10 * f[k - 1] + t[k] - zero
    BY Zenon
  <2>. QED  BY <2>1, <2>2, Zenon
<1>8. f[0] \in Nat
  BY <1>0, <1>7
<1>9. ASSUME NEW k \in 0 .. m - 1, f[k] \in Nat PROVE f[k + 1] \in Nat
  <2>1. k + 1 \in 1 .. m /\ k + 1 \in 0 .. m /\ k + 1 # 0 /\ k + 1 - 1 = k
    BY <1>0
  <2>2. f[k + 1] = 10 * f[k] + t[k + 1] - zero
    BY <1>7, <2>1
  <2>3. t[k + 1] \in Nat /\ t[k + 1] - zero \in 0 .. 9
    BY <2>1, SelectorTextAssumption DEF m, zero
  <2>4. \A v, c \in Nat : c - zero \in 0 .. 9 => 10 * v + c - zero \in Nat
    BY <1>0
  <2>. QED  BY <1>9, <2>2, <2>3, <2>4
<1>10. \A k \in 0 .. m : f[k] \in Nat
  BY <1>0, <1>8, <1>9, IterationType
<1>. QED  BY <1>0, <1>2, <1>10

LEMMA DigitsFit == Digits \in SUBSET Nat /\ Ident \in SUBSET Nat /\ IdentStart \in SUBSET Nat
  BY SelectorTextAssumption DEF Ident

\* There is a number when the digits go on to the end.
LEMMA NumeralIs ==
  ASSUME NEW s \in Seq(Nat), NEW a \in 0 .. Len(s), NEW z \in a .. Len(s), At(s, z) \notin Digits
  PROVE  /\ IsNumeral(Between(s, a, z)) <=> a # z /\ PastAll(s, a, Digits) = z
         /\ IsNumeral(Between(s, a, z)) => DecimalNumber(Between(s, a, z)) \in Nat
<1>. DEFINE t == Between(s, a, z)
<1>0. Len(s) \in Nat /\ a \in Nat /\ z \in Nat /\ a <= z /\ z <= Len(s)
  OBVIOUS
<1>1. /\ t \in Seq(Nat) /\ Len(t) = z - a /\ DOMAIN t = 1 .. z - a
      /\ \A k \in 1 .. z - a : t[k] = At(s, a + k - 1)
  BY BetweenIs DEF IsBetween
<1>. HIDE DEF t
<1>2. IsNumeral(t) <=> a # z /\ \A k \in 1 .. z - a : t[k] \in Digits
  <2>1. t # << >> <=> a # z
    BY <1>0, <1>1
  <2>2. ToSet(t) \subseteq Digits <=> \A k \in 1 .. z - a : t[k] \in Digits
    BY <1>1 DEF ToSet
  <2>. QED  BY <2>1, <2>2 DEF IsNumeral
<1>3. (\A k \in 1 .. z - a : t[k] \in Digits) <=> \A q \in a .. z - 1 : At(s, q) \in Digits
  <2>1. ASSUME \A k \in 1 .. z - a : t[k] \in Digits, NEW q \in a .. z - 1 PROVE At(s, q) \in Digits
    <3>1. q - a + 1 \in 1 .. z - a /\ a + (q - a + 1) - 1 = q
      BY <1>0
    <3>2. t[q - a + 1] = At(s, q)
      BY <1>1, <3>1
    <3>. QED  BY <2>1, <3>1, <3>2
  <2>2. ASSUME \A q \in a .. z - 1 : At(s, q) \in Digits, NEW k \in 1 .. z - a PROVE t[k] \in Digits
    <3>1. a + k - 1 \in a .. z - 1
      BY <1>0
    <3>. QED  BY <1>1, <2>2, <3>1
  <2>. QED  BY <2>1, <2>2
<1>4. (\A q \in a .. z - 1 : At(s, q) \in Digits) <=> PastAll(s, a, Digits) = z
  <2>1. ASSUME \A q \in a .. z - 1 : At(s, q) \in Digits PROVE PastAll(s, a, Digits) = z
    <3>1. Stops(s, a, Digits, z)
      BY <2>1 DEF Stops
    <3>. QED  BY <3>1, DigitsFit, PastAllIs
  <2>2. ASSUME PastAll(s, a, Digits) = z PROVE \A q \in a .. z - 1 : At(s, q) \in Digits
    <3>1. Stops(s, a, Digits, PastAll(s, a, Digits))
      BY DigitsFit, PastAllShows
    <3>. QED  BY <2>2, <3>1 DEF Stops
  <2>. QED  BY <2>1, <2>2
<1>5. IsNumeral(t) => DecimalNumber(t) \in Nat
  BY <1>1, <1>2, DigitsValue
<1>6. IsNumeral(t) <=> a # z /\ PastAll(s, a, Digits) = z
  BY <1>2, <1>3, <1>4, Zenon
<1>. QED  BY <1>5, <1>6 DEF t

LEMMA TailFacts ==
  ASSUME NEW t \in Seq(Nat), t # << >>
  PROVE  /\ Tail(t) \in Seq(Nat) /\ Len(Tail(t)) = Len(t) - 1
         /\ \A k \in 1 .. Len(t) - 1 : Tail(t)[k] = t[k + 1]
  OBVIOUS

\* What is between two places starts with the first character, and goes on.
StartsAt(s, a, z) ==
  /\ Between(s, a, z) # << >> /\ Between(s, a, z)[1] = At(s, a)
  /\ Tail(Between(s, a, z)) = Between(s, a + 1, z)

LEMMA TailBetween ==
  ASSUME NEW s \in Seq(Nat), NEW a \in 0 .. Len(s), NEW z \in a + 1 .. Len(s)
  PROVE  StartsAt(s, a, z)
<1>. DEFINE t == Between(s, a, z)  v == Between(s, a + 1, z)
<1>0. /\ Len(s) \in Nat /\ a + 1 \in 0 .. Len(s) /\ z \in a .. Len(s) /\ 1 \in 1 .. z - a
      /\ z - a \in Nat /\ z - (a + 1) = z - a - 1 /\ z - a # 0 /\ a + 1 - 1 = a
  OBVIOUS
<1>1. /\ t \in Seq(Nat) /\ Len(t) = z - a
      /\ \A k \in 1 .. z - a : t[k] = s[a + k] /\ t[k] = At(s, a + k - 1)
  BY <1>0, BetweenIs DEF IsBetween
<1>2. /\ v \in Seq(Nat) /\ Len(v) = z - (a + 1)
      /\ \A k \in 1 .. z - (a + 1) : v[k] = s[a + 1 + k]
  BY <1>0, BetweenIs DEF IsBetween
<1>. HIDE DEF t, v
<1>3. t # << >> /\ t[1] = At(s, a)
  BY <1>0, <1>1
<1>. DEFINE w == Tail(t)
<1>4. w \in Seq(Nat) /\ Len(w) = z - a - 1 /\ \A k \in 1 .. z - a - 1 : w[k] = t[k + 1]
  BY <1>1, <1>3, TailFacts
<1>. HIDE DEF w
<1>5. ASSUME NEW k \in 1 .. Len(w) PROVE w[k] = v[k]
  <2>1. k \in 1 .. z - a - 1 /\ k + 1 \in 1 .. z - a /\ a + (k + 1) = a + 1 + k
    BY <1>0, <1>4
  <2>. QED  BY <1>0, <1>1, <1>2, <1>4, <2>1
<1>6. w = v
  BY <1>0, <1>2, <1>4, <1>5, SameSequence
<1>. QED  BY <1>3, <1>6 DEF StartsAt, t, v, w

\* n is the number written in t, without its sign, or there is none.
IsNumeric(t, n) == IsNumeral(t) /\ n = DecimalNumber(t)

\* With no sign.
LEMMA UnsignedIs ==
  ASSUME NEW s \in Seq(Nat), NEW a \in 0 .. Len(s), NEW z \in a .. Len(s),
         At(s, z) \in {Colon, CloseBracket}, At(s, a) # Dash, NEW y
  PROVE  y \in BoundReadings(Between(s, a, z)) <=> IntegerAt(s, a) = Read(y, z)
<1>. DEFINE t == Between(s, a, z)  past == PastAll(s, a, Digits)
            d == DecimalNumber(Between(s, a, past))
<1>0. Len(s) \in Nat /\ a \in Nat /\ z \in Nat /\ a <= z /\ z <= Len(s)
  OBVIOUS
<1>1. t \in Seq(Nat) /\ Len(t) = z - a /\ \A k \in 1 .. z - a : t[k] = At(s, a + k - 1)
  BY BetweenIs DEF IsBetween
<1>2. At(s, z) \notin Digits
  BY MarkFacts DEF MarksDiffer
<1>3. IntegerAt(s, a) = IF past = a THEN Read(None, a)
                        ELSE IF d > IndexMax THEN Fail("BadIndex") ELSE Read(d, past)
  <2>1. IntegerAt(s, a) =
          IF past = a THEN Read(None, a)
          ELSE IF past = a \/ d > (IF a = a THEN IndexMax ELSE IndexMax + 1) THEN Fail("BadIndex")
          ELSE Read(IF a = a THEN d ELSE -d, past)
    BY Zenon DEF IntegerAt, Between
  <2>. HIDE DEF d, past
  <2>. QED  BY <2>1
<1>4. IsNumeral(t) <=> a # z /\ past = z
  BY <1>2, NumeralIs
<1>5. IsNumeral(t) => d = DecimalNumber(t) /\ d \in Nat
  <2>1. IsNumeral(t) => DecimalNumber(t) \in Nat
    BY <1>2, NumeralIs
  <2>2. IsNumeral(t) => d = DecimalNumber(t)
    BY <1>4
  <2>. QED  BY <2>1, <2>2
<1>6. a # z => t[1] # Dash
  <2>1. a # z => 1 \in 1 .. z - a /\ a + 1 - 1 = a
    BY <1>0
  <2>. QED  BY <1>1, <2>1
<1>7. t = << >> <=> a = z
  BY <1>0, <1>1
<1>8. BoundReadings(t) = IF t = << >> THEN {None} ELSE NumeralReadings(t)
  BY DEF BoundReadings
<1>9. IndexMax \in Nat /\ None \notin Int
  BY SelectorTextAssumption
<1>10. t # << >> => (y \in NumeralReadings(t) <=> y \in -IndexMax - 1 .. IndexMax /\ IsNumeric(t, y))
  <2>1. t # << >> => t[1] # Dash
    BY <1>6, <1>7
  <2>2. y \in NumeralReadings(t) <=>
          /\ y \in -IndexMax - 1 .. IndexMax
          /\ \/ IsNumeral(t) /\ y = DecimalNumber(t)
             \/ t # << >> /\ t[1] = Dash /\ IsNumeral(Tail(t)) /\ -y = DecimalNumber(Tail(t))
    BY Zenon DEF NumeralReadings
  <2>. HIDE DEF t
  <2>. QED  BY <2>1, <2>2, Zenon DEF IsNumeric
<1>11. a = z => past = a
  <2>1. a = z => Stops(s, a, Digits, z)
    BY <1>0, <1>2 DEF Stops
  <2>. QED  BY <2>1, DigitsFit, PastAllIs
<1>. HIDE DEF t, past, d
<1>12. CASE a = z
  <2>1. IntegerAt(s, a) = Read(y, z) <=> y = None
    BY <1>3, <1>11, <1>12, ReadSame
  <2>. QED  BY <1>7, <1>8, <1>12, <2>1 DEF t
<1>13. CASE a # z
  <2>1. y \in BoundReadings(t) <=> y \in -IndexMax - 1 .. IndexMax /\ IsNumeric(t, y)
    BY <1>7, <1>8, <1>10, <1>13
  <2>2. CASE past # z
    <3>1. IntegerAt(s, a) # Read(y, z)
      <4>1. \A x : Read(x, a) # Read(y, z) /\ Read(x, past) # Read(y, z)
        BY <1>13, <2>2, ReadSame
      <4>. QED  BY <1>3, <4>1, FailsAre
    <3>. QED  BY <1>4, <2>1, <2>2, <3>1 DEF IsNumeric, t
  <2>3. CASE past = z
    <3>1. IsNumeral(t) /\ d = DecimalNumber(t) /\ d \in Nat
      BY <1>4, <1>5, <1>13, <2>3
    <3>2. y \in BoundReadings(t) <=> y = d /\ d <= IndexMax
      <4>1. IsNumeric(t, y) <=> y = d
        BY <3>1 DEF IsNumeric
      <4>2. d \in -IndexMax - 1 .. IndexMax <=> d <= IndexMax
        BY <1>9, <3>1
      <4>. QED  BY <2>1, <4>1, <4>2
    <3>3. IntegerAt(s, a) = IF d > IndexMax THEN Fail("BadIndex") ELSE Read(d, z)
      BY <1>3, <1>13, <2>3
    <3>4. d > IndexMax <=> ~(d <= IndexMax)
      BY <1>9, <3>1
    <3>5. IntegerAt(s, a) = Read(y, z) <=> y = d /\ d <= IndexMax
      <4>1. Read(d, z) = Read(y, z) <=> d = y
        BY ReadSame
      <4>. QED  BY <3>3, <3>4, <4>1, FailsAre
    <3>. QED  BY <3>2, <3>5 DEF t
  <2>. QED  BY <2>2, <2>3
<1>. QED  BY <1>12, <1>13

\* With one.
LEMMA SignedIs ==
  ASSUME NEW s \in Seq(Nat), NEW a \in 0 .. Len(s), NEW z \in a .. Len(s),
         At(s, z) \in {Colon, CloseBracket}, At(s, a) = Dash, NEW y
  PROVE  y \in BoundReadings(Between(s, a, z)) <=> IntegerAt(s, a) = Read(y, z)
<1>. DEFINE t == Between(s, a, z)  b == a + 1  past == PastAll(s, b, Digits)
            u == Between(s, b, z)  d == DecimalNumber(Between(s, b, past))
<1>0. Len(s) \in Nat /\ a \in Nat /\ z \in Nat /\ a <= z /\ z <= Len(s)
  OBVIOUS
<1>1. t \in Seq(Nat) /\ Len(t) = z - a /\ \A k \in 1 .. z - a : t[k] = At(s, a + k - 1)
  BY BetweenIs DEF IsBetween
<1>2. At(s, z) \notin Digits /\ a # z /\ Dash \notin Digits
  BY MarkFacts DEF MarksDiffer
<1>3. b \in 0 .. Len(s) /\ b # a /\ z \in b .. Len(s)
  BY <1>0, <1>2
<1>4. IntegerAt(s, a) = IF past = a THEN Read(None, a)
                        ELSE IF past = b \/ d > IndexMax + 1 THEN Fail("BadIndex") ELSE Read(-d, past)
  <2>1. IntegerAt(s, a) =
          IF past = a THEN Read(None, a)
          ELSE IF past = b \/ d > (IF b = a THEN IndexMax ELSE IndexMax + 1) THEN Fail("BadIndex")
          ELSE Read(IF b = a THEN d ELSE -d, past)
    BY Zenon DEF IntegerAt, Between
  <2>. HIDE DEF d, past, b
  <2>. QED  BY <1>3, <2>1
<1>5. past # a
  <2>1. Stops(s, b, Digits, past)
    BY <1>3, DigitsFit, PastAllShows
  <2>. HIDE DEF past
  <2>. QED  BY <1>0, <2>1 DEF Stops
<1>6. Tail(t) = u /\ t # << >> /\ t[1] = Dash
  <2>1. z \in a + 1 .. Len(s)
    BY <1>0, <1>2
  <2>. QED  BY <2>1, TailBetween DEF StartsAt
<1>. HIDE DEF b
<1>7. IsNumeral(u) <=> b # z /\ past = z
  BY <1>2, <1>3, NumeralIs
<1>8. IsNumeral(u) => d = DecimalNumber(u) /\ d \in Nat
  <2>1. IsNumeral(u) => DecimalNumber(u) \in Nat
    BY <1>2, <1>3, NumeralIs
  <2>2. IsNumeral(u) => d = DecimalNumber(u)
    BY <1>7
  <2>. QED  BY <2>1, <2>2
<1>9. IndexMax \in Nat /\ None \notin Int
  BY SelectorTextAssumption
<1>10. ~IsNumeral(t)
  <2>. HIDE DEF t
  <2>1. 1 \in DOMAIN t
    BY <1>1, <1>6
  <2>2. t[1] \in ToSet(t)
    BY <2>1 DEF ToSet
  <2>. QED  BY <1>2, <1>6, <2>2 DEF IsNumeral
<1>11. y \in BoundReadings(t) <=> y \in -IndexMax - 1 .. IndexMax /\ IsNumeric(u, -y)
  <2>1. y \in NumeralReadings(t) <=>
          /\ y \in -IndexMax - 1 .. IndexMax
          /\ \/ IsNumeral(t) /\ y = DecimalNumber(t)
             \/ t # << >> /\ t[1] = Dash /\ IsNumeral(Tail(t)) /\ -y = DecimalNumber(Tail(t))
    BY Zenon DEF NumeralReadings
  <2>2. BoundReadings(t) = NumeralReadings(t)
    BY <1>6 DEF BoundReadings
  <2>. HIDE DEF t, u
  <2>. QED  BY <1>6, <1>10, <2>1, <2>2 DEF IsNumeric
<1>. HIDE DEF t, past, d, u
<1>12. CASE ~IsNumeral(u)
  <2>1. IntegerAt(s, a) # Read(y, z)
    <3>1. CASE past # z
      <4>1. \A x : Read(x, past) # Read(y, z)
        BY <3>1, ReadSame
      <4>. QED  BY <1>4, <1>5, <4>1, FailsAre
    <3>2. CASE past = z
      BY <1>4, <1>5, <1>7, <1>12, <3>2, FailsAre
    <3>. QED  BY <3>1, <3>2
  <2>. QED  BY <1>11, <1>12, <2>1 DEF IsNumeric, t
<1>13. CASE IsNumeral(u)
  <2>1. past = z /\ b # z /\ d = DecimalNumber(u) /\ d \in Nat
    BY <1>7, <1>8, <1>13
  <2>2. y \in BoundReadings(t) <=> y = -d /\ d <= IndexMax + 1
    <3>1. IsNumeric(u, -y) <=> -y = d
      BY <1>13, <2>1 DEF IsNumeric
    <3>2. y \in -IndexMax - 1 .. IndexMax /\ -y = d <=> y = -d /\ d <= IndexMax + 1
      BY <1>9, <2>1
    <3>. QED  BY <1>11, <3>1, <3>2
  <2>3. IntegerAt(s, a) = IF d > IndexMax + 1 THEN Fail("BadIndex") ELSE Read(-d, z)
    BY <1>4, <1>5, <2>1
  <2>4. d > IndexMax + 1 <=> ~(d <= IndexMax + 1)
    BY <1>9, <2>1
  <2>5. IntegerAt(s, a) = Read(y, z) <=> y = -d /\ d <= IndexMax + 1
    <3>1. Read(-d, z) = Read(y, z) <=> -d = y
      BY ReadSame
    <3>. QED  BY <2>3, <2>4, <3>1, FailsAre
  <2>. QED  BY <2>2, <2>5 DEF t
<1>. QED  BY <1>12, <1>13

\* What is up to a mark is a bound when the parser reads it up to there.
LEMMA BoundIs ==
  ASSUME NEW s \in Seq(Nat), NEW a \in 0 .. Len(s), NEW z \in a .. Len(s),
         At(s, z) \in {Colon, CloseBracket}, NEW y
  PROVE  y \in BoundReadings(Between(s, a, z)) <=> IntegerAt(s, a) = Read(y, z)
<1>1. CASE At(s, a) = Dash
  BY <1>1, SignedIs
<1>2. CASE At(s, a) # Dash
  BY <1>2, UnsignedIs
<1>. QED  BY <1>1, <1>2

----------------------------------------------------------------------------
(* Brackets.                                                               *)

\* A bound is left out, or has characters and is a number.
IsBound(s, p, x, q) ==
  /\ q \in p .. Len(s)
  /\ q = p => x = None
  /\ q # p => x # None /\ At(s, p) \in {Dash} \cup Digits

LEMMA IntegerLies ==
  ASSUME NEW s \in Seq(Nat), NEW p \in 0 .. Len(s)
  PROVE  /\ IsRead(IntegerAt(s, p))
         /\ \A x, q : IntegerAt(s, p) = Read(x, q) => IsBound(s, p, x, q)
<1>. DEFINE b == IF At(s, p) = Dash THEN p + 1 ELSE p  past == PastAll(s, b, Digits)
            d == DecimalNumber(Between(s, b, past))
            top == IF b = p THEN IndexMax ELSE IndexMax + 1
<1>0. Len(s) \in Nat /\ p \in Nat
  OBVIOUS
<1>1. IntegerAt(s, p) = IF past = p THEN Read(None, p)
                        ELSE IF past = b \/ d > top THEN Fail("BadIndex") ELSE Read(IF b = p THEN d ELSE -d, past)
  BY Zenon DEF IntegerAt, Between
<1>2. At(s, p) = Dash => p < Len(s)
  BY AtIs, MarkFacts DEF IsAt, MarksDiffer
<1>3. b \in 0 .. Len(s) /\ b \in Nat /\ (b = p \/ (b = p + 1 /\ At(s, p) = Dash))
  BY <1>0, <1>2
<1>. HIDE DEF b
<1>4. Stops(s, b, Digits, past)
  BY <1>3, DigitsFit, PastAllShows
<1>. HIDE DEF past
<1>5. past \in p .. Len(s) /\ past \in b .. Len(s)
  BY <1>0, <1>3, <1>4 DEF Stops
<1>6. past # b => d \in Nat
  <2>1. At(s, past) \notin Digits
    BY <1>4 DEF Stops
  <2>2. past # b => IsNumeral(Between(s, b, past))
    <3>1. PastAll(s, b, Digits) = past
      BY DEF past
    <3>. QED  BY <1>3, <1>5, <2>1, <3>1, NumeralIs
  <2>. QED  BY <1>3, <1>5, <2>1, <2>2, NumeralIs
<1>7. past # p /\ b = p => At(s, p) \in Digits
  <2>1. past # p => p \in p .. past - 1
    BY <1>0, <1>5
  <2>. QED  BY <1>4, <2>1 DEF Stops
<1>. HIDE DEF d, top
<1>8. IsRead(IntegerAt(s, p))
  <2>1. IsRead(Fail("BadIndex"))
    BY FailsFail
  <2>. QED  BY <1>1, <2>1, ReadsAreReads
<1>9. ASSUME NEW x, NEW q, IntegerAt(s, p) = Read(x, q) PROVE IsBound(s, p, x, q)
  <2>1. CASE past = p
    <3>1. Read(None, p) = Read(x, q)
      BY <1>1, <1>9, <2>1
    <3>2. x = None /\ q = p
      BY <3>1, ReadSame
    <3>. QED  BY <1>0, <3>2 DEF IsBound
  <2>2. CASE past # p
    <3>1. past # b /\ Read(IF b = p THEN d ELSE -d, past) = Read(x, q)
      BY <1>1, <1>9, <2>2, FailsAre
    <3>2. x = (IF b = p THEN d ELSE -d) /\ q = past
      BY <3>1, ReadSame
    <3>3. x \in Int
      BY <1>6, <3>1, <3>2
    <3>4. x # None
      BY <3>3, SelectorTextAssumption
    <3>. QED  BY <1>3, <1>5, <1>7, <2>2, <3>2, <3>4 DEF IsBound
  <2>. QED  BY <2>1, <2>2
<1>. QED  BY <1>8, <1>9

\* What brackets hold from p up to the closing one at z.
ValuesIn(p, z, y) == p = z /\ y = ValuesSegment
IndexIn(s, p, z, y) ==
  p # z /\ \E n : IntegerAt(s, p) = Read(n, z) /\ y = IndexSegment(n)
SliceIn(s, p, z, y) ==
  \E c \in p .. z - 1 : \E from, to :
    /\ At(s, c) = Colon /\ IntegerAt(s, p) = Read(from, c) /\ IntegerAt(s, c + 1) = Read(to, z)
    /\ y = SliceSegment(from, to)
QuotedIn(s, p, z, y) ==
  At(s, p) = Quote /\ \E key : QuotedAt(s, p + 1) = Read(key, z) /\ y = KeySegment(key)
BracketIn(s, p, z, y) == ValuesIn(p, z, y) \/ IndexIn(s, p, z, y) \/ SliceIn(s, p, z, y) \/ QuotedIn(s, p, z, y)

LEMMA ClosedIs ==
  ASSUME NEW s, NEW at, NEW segment, NEW y, NEW z \in Nat, at \in Nat, At(s, z) = CloseBracket
  PROVE  Closed(s, at, segment) = Read(y, z + 1) <=> at = z /\ y = segment
<1>1. \A q : UnexpectedAt(at) # Read(y, q)
  BY DEF UnexpectedAt, Fail, Read
<1>2. Read(segment, at + 1) = Read(y, z + 1) => y = segment /\ at + 1 = z + 1
  BY ReadSame
<1>3. at + 1 = z + 1 <=> at = z
  OBVIOUS
<1>. QED  BY <1>1, <1>2, <1>3 DEF Closed

LEMMA QuotedIs ==
  ASSUME NEW s \in Seq(Nat), NEW p \in 0 .. Len(s)
  PROVE  /\ IsRead(QuotedAt(s, p))
         /\ \A y, z : QuotedAt(s, p) = Read(y, z) => z \in p + 1 .. Len(s) /\ At(s, z - 1) = Quote
<1>1. PICK f : QuotedRule(f, s) /\ QuotedAt(s, p) = f[p] /\ IsRead(f[p])
  BY QuotedFromAll
<1>. QED  BY <1>1, QuotedLies

LEMMA BracketParsed ==
  ASSUME NEW s \in Seq(Nat), NEW z \in 0 .. Len(s), NEW p \in 0 .. z, At(s, z) = CloseBracket, NEW y
  PROVE  BracketAt(s, p) = Read(y, z + 1) <=> BracketIn(s, p, z, y)
<1>. DEFINE c == At(s, p)  r == BracketAt(s, p)  starts == {Dash, Colon} \cup Digits
<1>0. /\ Len(s) \in Nat /\ p \in Nat /\ z \in Nat /\ p <= z /\ p \in 0 .. Len(s) /\ z < Len(s)
      /\ p < Len(s) /\ p + 1 \in 0 .. Len(s)
  <2>1. z < Len(s)
    BY AtIs, MarkFacts DEF IsAt, MarksDiffer
  <2>. QED  BY <2>1
<1>1. /\ CloseBracket # Quote /\ CloseBracket \notin starts /\ Quote \notin starts
      /\ CloseBracket # Colon /\ Colon # Quote
  BY MarkFacts DEF MarksDiffer
<1>2. \A at, segment : at \in Nat => (Closed(s, at, segment) = Read(y, z + 1) <=> at = z /\ y = segment)
  BY <1>0, ClosedIs
<1>3. r = CASE c = CloseBracket -> Read(ValuesSegment, p + 1)
            [] c = Quote -> Then(QuotedAt(s, p + 1), LAMBDA key, at : Closed(s, at, KeySegment(key)))
            [] c \in starts ->
                 Then(IntegerAt(s, p), LAMBDA first, at :
                   IF At(s, at) = Colon
                   THEN Then(IntegerAt(s, at + 1), LAMBDA second, past :
                          Closed(s, past, SliceSegment(first, second)))
                   ELSE IF first = None THEN Fail("BadIndex")
                   ELSE Closed(s, at, IndexSegment(first)))
            [] OTHER -> UnexpectedAt(p)
  BY Zenon DEF BracketAt
<1>4. IsRead(IntegerAt(s, p)) /\ \A x, q : IntegerAt(s, p) = Read(x, q) => IsBound(s, p, x, q)
  BY <1>0, IntegerLies
<1>5. p = z => c = CloseBracket
  OBVIOUS
<1>. HIDE DEF c, r, starts
<1>6. CASE c = CloseBracket
  <2>1. r = Read(ValuesSegment, p + 1)
    BY <1>1, <1>3, <1>6
  <2>2. r = Read(y, z + 1) <=> ValuesIn(p, z, y)
    <3>1. r = Read(y, z + 1) <=> y = ValuesSegment /\ p + 1 = z + 1
      BY <2>1, ReadSame
    <3>. QED  BY <1>0, <3>1 DEF ValuesIn
  <2>3. ASSUME NEW x, NEW q, IntegerAt(s, p) = Read(x, q) PROVE q = p
    <3>1. IsBound(s, p, x, q)
      BY <1>4, <2>3
    <3>. QED  BY <1>1, <1>6, <3>1 DEF IsBound, starts, c
  <2>4. ~IndexIn(s, p, z, y)
    BY <2>3 DEF IndexIn
  <2>5. ~SliceIn(s, p, z, y)
    BY <1>1, <1>6, <2>3 DEF SliceIn, c
  <2>6. ~QuotedIn(s, p, z, y)
    BY <1>1, <1>6 DEF QuotedIn, c
  <2>. QED  BY <2>2, <2>4, <2>5, <2>6 DEF BracketIn, r
<1>7. CASE c = Quote
  <2>. DEFINE k == QuotedAt(s, p + 1)
  <2>1. r = Then(k, LAMBDA key, at : Closed(s, at, KeySegment(key)))
    BY <1>1, <1>3, <1>7
  <2>2. IsRead(k) /\ \A x, q : k = Read(x, q) => q \in Nat
    <3>1. IsRead(k) /\ \A x, q : k = Read(x, q) => q \in p + 1 + 1 .. Len(s)
      BY <1>0, QuotedIs
    <3>2. \A q \in p + 1 + 1 .. Len(s) : q \in Nat
      BY <1>0
    <3>. QED  BY <3>1, <3>2
  <2>3. ~ValuesIn(p, z, y)
    BY <1>1, <1>5, <1>7 DEF ValuesIn
  <2>4. ASSUME NEW x, NEW q, IntegerAt(s, p) = Read(x, q) PROVE q = p
    <3>1. IsBound(s, p, x, q)
      BY <1>4, <2>4
    <3>. QED  BY <1>1, <1>7, <3>1 DEF IsBound, starts, c
  <2>5. ~IndexIn(s, p, z, y)
    BY <2>4 DEF IndexIn
  <2>6. ~SliceIn(s, p, z, y)
    BY <1>1, <1>7, <2>4 DEF SliceIn, c
  <2>7. QuotedIn(s, p, z, y) <=> \E key : k = Read(key, z) /\ y = KeySegment(key)
    BY <1>7 DEF QuotedIn, c
  <2>. HIDE DEF k
  <2>8. ASSUME r = Read(y, z + 1) PROVE QuotedIn(s, p, z, y)
    <3>1. IsOk(k)
      BY <2>1, <2>8, ReadGives DEF Then
    <3>. DEFINE key == k.value  at == k.pos
    <3>2. k = Read(key, at) /\ r = Closed(s, at, KeySegment(key))
      BY <2>1, <2>2, <3>1 DEF Then, IsRead
    <3>. HIDE DEF key, at
    <3>3. at = z /\ y = KeySegment(key)
      BY <1>2, <2>2, <2>8, <3>2
    <3>. QED  BY <2>7, <3>2, <3>3
  <2>9. ASSUME QuotedIn(s, p, z, y) PROVE r = Read(y, z + 1)
    <3>1. PICK key : k = Read(key, z) /\ y = KeySegment(key)
      BY <2>7, <2>9
    <3>2. r = Closed(s, z, KeySegment(key))
      BY <2>1, <3>1, ReadGives DEF Then
    <3>. QED  BY <1>0, <1>2, <3>1, <3>2
  <2>. QED  BY <2>3, <2>5, <2>6, <2>8, <2>9 DEF BracketIn, r
<1>8. CASE c \in starts
  <2>. DEFINE i == IntegerAt(s, p)
              Sliced(from, c1) == Then(IntegerAt(s, c1 + 1), LAMBDA second, past :
                          Closed(s, past, SliceSegment(from, second)))
  <2>1. r = Then(i, LAMBDA first, at :
                   IF At(s, at) = Colon THEN Sliced(first, at)
                   ELSE IF first = None THEN Fail("BadIndex")
                   ELSE Closed(s, at, IndexSegment(first)))
    BY <1>1, <1>3, <1>8
  <2>2. ASSUME NEW from, NEW c1 \in p .. Len(s), At(s, c1) = Colon
        PROVE  Sliced(from, c1) = Read(y, z + 1) <=>
                 c1 \in p .. z - 1 /\ \E to : IntegerAt(s, c1 + 1) = Read(to, z) /\ y = SliceSegment(from, to)
    <3>. DEFINE j == IntegerAt(s, c1 + 1)
    <3>1. c1 + 1 \in 0 .. Len(s)
      BY <1>0, <2>2, AtIs, MarkFacts DEF IsAt, MarksDiffer
    <3>2. IsRead(j) /\ \A x, q : j = Read(x, q) => q \in c1 + 1 .. Len(s)
      <4>1. IsRead(j) /\ \A x, q : j = Read(x, q) => IsBound(s, c1 + 1, x, q)
        BY <3>1, IntegerLies
      <4>. HIDE DEF j
      <4>. QED  BY <4>1 DEF IsBound
    <3>3. Sliced(from, c1) = Then(j, LAMBDA second, past : Closed(s, past, SliceSegment(from, second)))
      OBVIOUS
    <3>. DEFINE sl == Sliced(from, c1)
    <3>. HIDE DEF j, sl, Sliced
    <3>4. ASSUME sl = Read(y, z + 1)
          PROVE  c1 \in p .. z - 1 /\ \E to : j = Read(to, z) /\ y = SliceSegment(from, to)
      <4>1. IsOk(j)
        BY <3>3, <3>4, ReadGives DEF Then, sl
      <4>. DEFINE second == j.value  past == j.pos
      <4>2. j = Read(second, past) /\ sl = Closed(s, past, SliceSegment(from, second))
        BY <3>2, <3>3, <4>1 DEF Then, IsRead, sl
      <4>. HIDE DEF second, past
      <4>3. past \in c1 + 1 .. Len(s) /\ past \in Nat
        <5>1. past \in c1 + 1 .. Len(s)
          BY <3>2, <4>2
        <5>. QED  BY <1>0, <5>1
      <4>4. past = z /\ y = SliceSegment(from, second)
        BY <1>2, <3>4, <4>2, <4>3
      <4>5. c1 \in p .. z - 1
        BY <1>0, <4>3, <4>4
      <4>. QED  BY <4>2, <4>4, <4>5
    <3>5. ASSUME NEW to, j = Read(to, z), y = SliceSegment(from, to) PROVE sl = Read(y, z + 1)
      <4>1. sl = Closed(s, z, SliceSegment(from, to))
        BY <3>3, <3>5, ReadGives DEF Then, sl
      <4>. QED  BY <1>0, <1>2, <3>5, <4>1
    <3>. QED  BY <3>4, <3>5 DEF sl, j
  <2>. HIDE DEF Sliced
  <2>3. ~ValuesIn(p, z, y) /\ ~QuotedIn(s, p, z, y)
    BY <1>1, <1>5, <1>8 DEF ValuesIn, QuotedIn, c
  <2>4. p # z
    BY <1>1, <1>5, <1>8
  <2>5. ASSUME NEW first, NEW at, i = Read(first, at)
        PROVE  r = Read(y, z + 1) <=> IndexIn(s, p, z, y) \/ SliceIn(s, p, z, y)
    <3>1. IsBound(s, p, first, at) /\ \A x, q : i = Read(x, q) => x = first /\ q = at
      <4>1. \A x, q : i = Read(x, q) => x = first /\ q = at
        BY <2>5, ReadSame
      <4>. QED  BY <1>4, <2>5, <4>1
    <3>2. at \in p .. Len(s) /\ at \in Nat
      BY <1>0, <3>1 DEF IsBound
    <3>3. r = IF At(s, at) = Colon THEN Sliced(first, at)
              ELSE IF first = None THEN Fail("BadIndex")
              ELSE Closed(s, at, IndexSegment(first))
      BY <2>1, <2>5, ReadGives DEF Then
    <3>4. IndexIn(s, p, z, y) <=> at = z /\ y = IndexSegment(first)
      BY <2>4, <2>5, <3>1 DEF IndexIn, i
    <3>5. SliceIn(s, p, z, y) <=>
            /\ at \in p .. z - 1 /\ At(s, at) = Colon
            /\ \E to : IntegerAt(s, at + 1) = Read(to, z) /\ y = SliceSegment(first, to)
      BY <2>5, <3>1 DEF SliceIn, i
    <3>. HIDE DEF i
    <3>6. CASE At(s, at) = Colon
      <4>1. ~IndexIn(s, p, z, y)
        BY <1>1, <3>4, <3>6
      <4>. QED  BY <2>2, <3>2, <3>3, <3>5, <3>6, <4>1
    <3>7. CASE At(s, at) # Colon
      <4>1. ~SliceIn(s, p, z, y)
        BY <3>5, <3>7
      <4>2. first = None => at # z
        BY <2>4, <3>1 DEF IsBound
      <4>3. r = Read(y, z + 1) <=> at = z /\ y = IndexSegment(first)
        BY <1>2, <3>2, <3>3, <3>7, <4>2, FailsAre
      <4>. QED  BY <3>4, <4>1, <4>3
    <3>. QED  BY <3>6, <3>7
  <2>6. CASE ~IsOk(i)
    <3>1. r = i /\ \A x, q : i # Read(x, q)
      BY <2>1, <2>6, ReadGives DEF Then
    <3>2. ~IndexIn(s, p, z, y) /\ ~SliceIn(s, p, z, y)
      BY <3>1 DEF IndexIn, SliceIn, i
    <3>. QED  BY <2>3, <3>1, <3>2 DEF BracketIn, r
  <2>7. CASE IsOk(i)
    <3>1. i = Read(i.value, i.pos)
      BY <1>4, <2>7 DEF IsRead
    <3>. HIDE DEF i
    <3>2. r = Read(y, z + 1) <=> IndexIn(s, p, z, y) \/ SliceIn(s, p, z, y)
      BY <2>5, <3>1
    <3>. QED  BY <2>3, <3>2 DEF BracketIn, r
  <2>. QED  BY <2>6, <2>7
<1>9. CASE c # CloseBracket /\ c # Quote /\ c \notin starts
  <2>1. r # Read(y, z + 1)
    <3>1. r = UnexpectedAt(p)
      BY <1>3, <1>9
    <3>. QED  BY <3>1 DEF UnexpectedAt, Fail, Read
  <2>2. ASSUME NEW x, NEW q, IntegerAt(s, p) = Read(x, q) PROVE q = p
    <3>1. IsBound(s, p, x, q)
      BY <1>4, <2>2
    <3>. QED  BY <1>9, <3>1 DEF IsBound, starts, c
  <2>3. ~ValuesIn(p, z, y) /\ ~QuotedIn(s, p, z, y)
    BY <1>5, <1>9 DEF ValuesIn, QuotedIn, c
  <2>4. ~IndexIn(s, p, z, y)
    BY <2>2 DEF IndexIn
  <2>5. ~SliceIn(s, p, z, y)
    BY <1>9, <2>2 DEF SliceIn, c, starts
  <2>. QED  BY <2>1, <2>3, <2>4, <2>5 DEF BracketIn, r
<1>. QED  BY <1>6, <1>7, <1>8, <1>9

SliceOfParts(inner, y) ==
  \E k \in DOMAIN inner : /\ inner[k] = Colon
                          /\ \E from \in BoundReadings(SubSeq(inner, 1, k - 1)),
                                to \in BoundReadings(SubSeq(inner, k + 1, Len(inner))) :
                               y = SliceSegment(from, to)
KeyOfParts(inner, y) ==
  /\ Len(inner) > 1 /\ inner[1] = Quote /\ inner[Len(inner)] = Quote
  /\ \E key \in KeyReadings(SubSeq(inner, 2, Len(inner) - 1)) : y = KeySegment(key)

LEMMA BracketParts ==
  ASSUME NEW inner, NEW y
  PROVE  y \in BracketReadings(inner) <=>
           \/ inner = << >> /\ y = ValuesSegment
           \/ \E n \in NumeralReadings(inner) : y = IndexSegment(n)
           \/ SliceOfParts(inner, y)
           \/ KeyOfParts(inner, y)
<1>. DEFINE slices == UNION {SliceReadings(inner, k) : k \in {k \in DOMAIN inner : inner[k] = Colon}}
            none == IF inner = << >> THEN {ValuesSegment} ELSE {}
            indices == {IndexSegment(n) : n \in NumeralReadings(inner)}
            keys == IF Len(inner) > 1 /\ inner[1] = Quote /\ inner[Len(inner)] = Quote
                    THEN {KeySegment(key) : key \in KeyReadings(SubSeq(inner, 2, Len(inner) - 1))} ELSE {}
<1>1. BracketReadings(inner) = none \cup indices \cup keys \cup slices
  BY Zenon DEF BracketReadings
<1>2. y \in slices <=> SliceOfParts(inner, y)
  <2>1. y \in slices <=> \E k \in DOMAIN inner : inner[k] = Colon /\ y \in SliceReadings(inner, k)
    OBVIOUS
  <2>2. ASSUME NEW k
        PROVE y \in SliceReadings(inner, k) <=>
                \E from \in BoundReadings(SubSeq(inner, 1, k - 1)),
                   to \in BoundReadings(SubSeq(inner, k + 1, Len(inner))) : y = SliceSegment(from, to)
    BY DEF SliceReadings
  <2>. HIDE DEF slices
  <2>. QED  BY <2>1, <2>2 DEF SliceOfParts
<1>3. y \in keys <=> KeyOfParts(inner, y)
  BY DEF KeyOfParts
<1>4. y \in indices <=> \E n \in NumeralReadings(inner) : y = IndexSegment(n)
  BY Zenon
<1>5. y \in none <=> inner = << >> /\ y = ValuesSegment
  OBVIOUS
<1>. HIDE DEF none, indices, slices, keys
<1>. QED  BY <1>1, <1>2, <1>3, <1>4, <1>5

LEMMA BracketMeant ==
  ASSUME NEW s \in Seq(Nat), NEW z \in 0 .. Len(s), NEW p \in 0 .. z, At(s, z) = CloseBracket, NEW y
  PROVE  y \in BracketReadings(Between(s, p, z)) <=> BracketIn(s, p, z, y)
<1>. DEFINE inner == Between(s, p, z)  m == z - p
<1>0. /\ Len(s) \in Nat /\ p \in Nat /\ z \in Nat /\ p <= z /\ p \in 0 .. Len(s) /\ z < Len(s)
      /\ z \in p .. Len(s) /\ m \in Nat /\ p + m = z
  <2>1. z < Len(s)
    BY AtIs, MarkFacts DEF IsAt, MarksDiffer
  <2>. QED  BY <2>1
<1>1. /\ inner \in Seq(Nat) /\ Len(inner) = m /\ DOMAIN inner = 1 .. m
      /\ \A k \in 1 .. m : inner[k] = At(s, p + k - 1)
  BY <1>0, BetweenIs DEF IsBetween
<1>2. inner = << >> <=> p = z
  BY <1>0, <1>1
<1>3. p # z => \A n : n \in NumeralReadings(inner) <=> IntegerAt(s, p) = Read(n, z)
  <2>1. p # z => \A n : n \in NumeralReadings(inner) <=> n \in BoundReadings(inner)
    BY <1>2 DEF BoundReadings
  <2>2. \A n : n \in BoundReadings(inner) <=> IntegerAt(s, p) = Read(n, z)
    BY <1>0, BoundIs
  <2>. QED  BY <2>1, <2>2
<1>4. p = z => NumeralReadings(inner) = {}
  <2>1. \A n \in NumeralReadings(inner) : inner # << >>
    BY DEF NumeralReadings, IsNumeral
  <2>. QED  BY <1>2, <2>1
<1>5. (\E n \in NumeralReadings(inner) : y = IndexSegment(n)) <=> IndexIn(s, p, z, y)
  <2>. HIDE DEF inner
  <2>. QED  BY <1>3, <1>4 DEF IndexIn
<1>6. SliceOfParts(inner, y) <=> SliceIn(s, p, z, y)
  <2>1. ASSUME NEW c \in p .. z - 1, At(s, c) = Colon
        PROVE  LET k == c - p + 1
               IN  /\ k \in DOMAIN inner /\ inner[k] = Colon
                   /\ \A from : from \in BoundReadings(SubSeq(inner, 1, k - 1)) <=> IntegerAt(s, p) = Read(from, c)
                   /\ \A to : to \in BoundReadings(SubSeq(inner, k + 1, Len(inner))) <=>
                                IntegerAt(s, c + 1) = Read(to, z)
    <3>. DEFINE k == c - p + 1
    <3>1. /\ k \in 1 .. m /\ p + k - 1 = c /\ c \in p .. Len(s) /\ c + 1 \in 0 .. Len(s) /\ z \in c + 1 .. Len(s)
          /\ k - 1 \in 0 .. m /\ 0 \in 0 .. m /\ k - 1 \in 0 .. m /\ p + (k - 1) = c /\ p + k = c + 1 /\ p + 0 = p
          /\ k \in 0 .. m /\ m \in k .. m
      BY <1>0
    <3>. HIDE DEF k, inner, m
    <3>2. SubSeq(inner, 1, k - 1) = Between(s, p, c)
      <4>1. Between(inner, 0, k - 1) = Between(s, p + 0, p + (k - 1))
        BY <1>0, <3>1, BetweenOf DEF inner, m
      <4>2. Between(inner, 0, k - 1) = SubSeq(inner, 1, k - 1)
        BY DEF Between
      <4>. QED  BY <3>1, <4>1, <4>2
    <3>3. SubSeq(inner, k + 1, Len(inner)) = Between(s, c + 1, z)
      <4>1. Between(inner, k, m) = Between(s, p + k, p + m)
        BY <1>0, <3>1, BetweenOf DEF inner, m
      <4>2. Between(inner, k, m) = SubSeq(inner, k + 1, Len(inner))
        BY <1>1 DEF Between
      <4>. QED  BY <1>0, <3>1, <4>1, <4>2
    <3>4. \A from : from \in BoundReadings(Between(s, p, c)) <=> IntegerAt(s, p) = Read(from, c)
      BY <1>0, <2>1, <3>1, BoundIs
    <3>5. \A to : to \in BoundReadings(Between(s, c + 1, z)) <=> IntegerAt(s, c + 1) = Read(to, z)
      BY <1>0, <3>1, BoundIs
    <3>6. k \in DOMAIN inner /\ inner[k] = Colon
      BY <1>1, <2>1, <3>1
    <3>. QED  BY <3>2, <3>3, <3>4, <3>5, <3>6 DEF k
  <2>. HIDE DEF inner, m
  <2>2. ASSUME SliceIn(s, p, z, y) PROVE SliceOfParts(inner, y)
    <3>0. PICK c \in p .. z - 1 : \E from, to :
            /\ At(s, c) = Colon /\ IntegerAt(s, p) = Read(from, c) /\ IntegerAt(s, c + 1) = Read(to, z)
            /\ y = SliceSegment(from, to)
      BY <2>2, Zenon DEF SliceIn
    <3>1. PICK from, to :
            /\ At(s, c) = Colon /\ IntegerAt(s, p) = Read(from, c) /\ IntegerAt(s, c + 1) = Read(to, z)
            /\ y = SliceSegment(from, to)
      BY <3>0, Zenon
    <3>. DEFINE k == c - p + 1
    <3>2. /\ k \in DOMAIN inner /\ inner[k] = Colon
          /\ from \in BoundReadings(SubSeq(inner, 1, k - 1))
          /\ to \in BoundReadings(SubSeq(inner, k + 1, Len(inner)))
      BY <2>1, <3>1
    <3>. HIDE DEF k
    <3>. QED  BY <3>1, <3>2, Zenon DEF SliceOfParts
  <2>3. ASSUME SliceOfParts(inner, y) PROVE SliceIn(s, p, z, y)
    <3>1. PICK k \in DOMAIN inner : /\ inner[k] = Colon
                          /\ \E from \in BoundReadings(SubSeq(inner, 1, k - 1)),
                                to \in BoundReadings(SubSeq(inner, k + 1, Len(inner))) :
                               y = SliceSegment(from, to)
      BY <2>3, Zenon DEF SliceOfParts
    <3>2. PICK from \in BoundReadings(SubSeq(inner, 1, k - 1)),
               to \in BoundReadings(SubSeq(inner, k + 1, Len(inner))) : y = SliceSegment(from, to)
      BY <3>1, Zenon
    <3>. DEFINE c == p + k - 1
    <3>3. c \in p .. z - 1 /\ c - p + 1 = k
      <4>1. k \in 1 .. z - p
        BY <1>1 DEF m
      <4>. QED  BY <1>0, <4>1
    <3>4. At(s, c) = Colon
      BY <1>1, <3>1
    <3>. HIDE DEF c
    <3>5. IntegerAt(s, p) = Read(from, c) /\ IntegerAt(s, c + 1) = Read(to, z)
      BY <2>1, <3>2, <3>3, <3>4
    <3>. QED  BY <3>2, <3>3, <3>4, <3>5, Zenon DEF SliceIn
  <2>. QED  BY <2>2, <2>3
<1>7. KeyOfParts(inner, y) <=> QuotedIn(s, p, z, y)
  <2>0. p \in p .. Len(s) /\ p + 1 \in 0 .. Len(s)
    BY <1>0
  <2>1. m > 1 => inner[1] = At(s, p) /\ inner[m] = At(s, z - 1)
    <3>1. m > 1 => 1 \in 1 .. m /\ m \in 1 .. m /\ p + 1 - 1 = p /\ p + m - 1 = z - 1
      BY <1>0
    <3>. HIDE DEF inner, m
    <3>. QED  BY <1>1, <3>1
  <2>2. ASSUME m > 1, At(s, z - 1) = Quote, NEW key
        PROVE key \in KeyReadings(SubSeq(inner, 2, m - 1)) <=> QuotedAt(s, p + 1) = Read(key, z)
    <3>1. 1 \in 0 .. m /\ m - 1 \in 1 .. m /\ p + (m - 1) = z - 1 /\ z - 1 \in p + 1 .. Len(s) /\ z - 1 + 1 = z
      BY <1>0, <2>2
    <3>2. SubSeq(inner, 2, m - 1) = Between(s, p + 1, z - 1)
      <4>1. Between(inner, 1, m - 1) = Between(s, p + 1, p + (m - 1))
        BY <1>0, <3>1, BetweenOf
      <4>2. Between(inner, 1, m - 1) = SubSeq(inner, 2, m - 1)
        BY DEF Between
      <4>. QED  BY <3>1, <4>1, <4>2
    <3>3. key \in KeyReadings(Between(s, p + 1, z - 1)) <=> QuotedAt(s, p + 1) = Read(key, z - 1 + 1)
      BY <2>0, <2>2, <3>1, KeyIs
    <3>. QED  BY <3>1, <3>2, <3>3
  <2>3. \A key : QuotedAt(s, p + 1) = Read(key, z) => m > 1 /\ At(s, z - 1) = Quote
    <3>1. \A key : QuotedAt(s, p + 1) = Read(key, z) => z \in p + 1 + 1 .. Len(s) /\ At(s, z - 1) = Quote
      BY <2>0, QuotedIs
    <3>2. z \in p + 1 + 1 .. Len(s) => m > 1
      BY <1>0
    <3>. QED  BY <3>1, <3>2
  <2>4. KeyOfParts(inner, y) <=>
          /\ m > 1 /\ inner[1] = Quote /\ inner[m] = Quote
          /\ \E key \in KeyReadings(SubSeq(inner, 2, m - 1)) : y = KeySegment(key)
    BY <1>1 DEF KeyOfParts
  <2>. HIDE DEF m, inner
  <2>. QED  BY <2>1, <2>2, <2>3, <2>4 DEF QuotedIn
<1>. HIDE DEF inner, m
<1>8. y \in BracketReadings(inner) <=>
           \/ inner = << >> /\ y = ValuesSegment
           \/ \E n \in NumeralReadings(inner) : y = IndexSegment(n)
           \/ SliceOfParts(inner, y)
           \/ KeyOfParts(inner, y)
  BY BracketParts
<1>9. y \in BracketReadings(inner) <=> BracketIn(s, p, z, y)
  BY <1>2, <1>5, <1>6, <1>7, <1>8 DEF ValuesIn, BracketIn
<1>. QED  BY <1>9 DEF inner

\* What brackets hold is read as the parser reads it.
LEMMA BracketIs ==
  ASSUME NEW s \in Seq(Nat), NEW z \in 0 .. Len(s), NEW p \in 0 .. z, At(s, z) = CloseBracket, NEW y
  PROVE  y \in BracketReadings(Between(s, p, z)) <=> BracketAt(s, p) = Read(y, z + 1)
<1>1. y \in BracketReadings(Between(s, p, z)) <=> BracketIn(s, p, z, y)
  BY BracketMeant
<1>2. BracketAt(s, p) = Read(y, z + 1) <=> BracketIn(s, p, z, y)
  BY BracketParsed
<1>. QED  BY <1>1, <1>2

----------------------------------------------------------------------------
(* Segments.                                                               *)

\* Where a segment is, after its dot.
AfterDot(s, p) == IF At(s, p) = Dot THEN p + 1 ELSE p

\* It is at p up to e.
BodyIn(s, p, e, x) ==
  LET q == AfterDot(s, p)
  IN  \/ /\ At(s, q) = OpenBracket /\ q + 2 <= e
         /\ At(s, e - 1) = CloseBracket /\ BracketAt(s, q + 1) = Read(x, e)
      \/ /\ q # p /\ q < e /\ At(s, q) \in IdentStart
         /\ \A k \in q .. e - 1 : At(s, k) \in Ident
         /\ x = KeySegment(Between(s, q, e))

LEMMA BodyIs ==
  ASSUME NEW s \in Seq(Nat), NEW p \in 0 .. Len(s), NEW e \in p + 1 .. Len(s), NEW x
  PROVE  x \in BodyReadings(Between(s, p, e)) <=> BodyIn(s, p, e, x)
<1>. DEFINE body == Between(s, p, e)  q == AfterDot(s, p)  named == Between(s, q, e)  m == e - q
<1>0. /\ Len(s) \in Nat /\ p \in Nat /\ e \in Nat /\ p < e /\ e \in p .. Len(s) /\ p + 1 \in 0 .. Len(s)
      /\ e \in p + 1 .. Len(s)
  OBVIOUS
<1>1. q \in 0 .. Len(s) /\ e \in q .. Len(s) /\ q \in Nat /\ m \in Nat /\ (q # p <=> At(s, p) = Dot) /\ (q < e <=> m # 0)
  BY <1>0 DEF AfterDot
<1>2. body # << >> /\ body[1] = At(s, p) /\ Tail(body) = Between(s, p + 1, e)
  BY <1>0, TailBetween DEF StartsAt
<1>3. (IF body # << >> /\ body[1] = Dot THEN Tail(body) ELSE body) = named
  BY <1>2 DEF AfterDot
<1>4. named # body <=> q # p
  <2>1. Len(named) = e - q /\ Len(body) = e - p
    BY <1>0, <1>1, BetweenIs DEF IsBetween
  <2>2. q # p => Len(named) # Len(body)
    <3>. HIDE DEF named, body, q
    <3>. QED  BY <1>0, <1>1, <2>1
  <2>. QED  BY <2>2
<1>5. /\ named \in Seq(Nat) /\ Len(named) = m /\ DOMAIN named = 1 .. m
      /\ \A k \in 1 .. m : named[k] = At(s, q + k - 1)
  BY <1>1, BetweenIs DEF IsBetween
<1>. HIDE DEF named, body, q
<1>6. named # << >> <=> q < e
  BY <1>1, <1>5
<1>7. q < e => named[1] = At(s, q) /\ named[Len(named)] = At(s, e - 1)
  <2>1. q < e => 1 \in 1 .. m /\ m \in 1 .. m /\ q + 1 - 1 = q /\ q + m - 1 = e - 1
    BY <1>0, <1>1
  <2>. HIDE DEF m
  <2>. QED  BY <1>5, <2>1
<1>8. BodyReadings(body) =
        IF named = << >> THEN {}
        ELSE IF named[1] = OpenBracket
        THEN IF named[Len(named)] = CloseBracket THEN BracketReadings(SubSeq(named, 2, Len(named) - 1)) ELSE {}
        ELSE IF named # body /\ named[1] \in IdentStart /\ ToSet(named) \subseteq Ident
        THEN {KeySegment(named)} ELSE {}
  BY <1>3, Zenon DEF BodyReadings
<1>9. ToSet(named) \subseteq Ident <=> \A k \in q .. e - 1 : At(s, k) \in Ident
  <2>1. ToSet(named) \subseteq Ident <=> \A k \in 1 .. m : named[k] \in Ident
    BY <1>5 DEF ToSet
  <2>2. ASSUME \A k \in 1 .. m : named[k] \in Ident, NEW k \in q .. e - 1 PROVE At(s, k) \in Ident
    <3>1. k - q + 1 \in 1 .. m /\ q + (k - q + 1) - 1 = k
      BY <1>0, <1>1
    <3>. HIDE DEF m
    <3>. QED  BY <1>5, <2>2, <3>1
  <2>3. ASSUME \A k \in q .. e - 1 : At(s, k) \in Ident, NEW k \in 1 .. m PROVE named[k] \in Ident
    <3>1. q + k - 1 \in q .. e - 1
      BY <1>0, <1>1
    <3>. QED  BY <1>5, <2>3, <3>1
  <2>. QED  BY <2>1, <2>2, <2>3
<1>10. CASE ~(q < e)
  <2>1. BodyReadings(body) = {}
    BY <1>6, <1>8, <1>10
  <2>2. ~(q + 2 <= e)
    BY <1>0, <1>1, <1>10
  <2>3. ~BodyIn(s, p, e, x)
    BY <1>10, <2>2 DEF BodyIn, q
  <2>. QED  BY <2>1, <2>3 DEF body
<1>11. CASE q < e /\ At(s, q) = OpenBracket
  <2>0. OpenBracket \notin IdentStart /\ OpenBracket # CloseBracket
    BY MarkFacts DEF MarksDiffer
  <2>1. At(s, e - 1) = CloseBracket => q + 2 <= e
    <3>1. At(s, e - 1) = CloseBracket => e - 1 # q
      BY <1>11, <2>0
    <3>. QED  BY <1>0, <1>1, <1>11, <3>1
  <2>2. ASSUME q + 2 <= e, At(s, e - 1) = CloseBracket
        PROVE  x \in BracketReadings(SubSeq(named, 2, Len(named) - 1)) <=> BracketAt(s, q + 1) = Read(x, e)
    <3>1. 1 \in 0 .. m /\ m - 1 \in 1 .. m /\ q + (m - 1) = e - 1 /\ e - 1 \in 0 .. Len(s) /\ q + 1 \in 0 .. e - 1 /\ e - 1 + 1 = e
      BY <1>0, <1>1, <2>2
    <3>2. SubSeq(named, 2, Len(named) - 1) = Between(s, q + 1, e - 1)
      <4>1. Between(named, 1, m - 1) = Between(s, q + 1, q + (m - 1))
        BY <1>1, <3>1, BetweenOf DEF named
      <4>2. Between(named, 1, m - 1) = SubSeq(named, 2, Len(named) - 1)
        BY <1>5 DEF Between
      <4>. QED  BY <3>1, <4>1, <4>2
    <3>3. x \in BracketReadings(Between(s, q + 1, e - 1)) <=> BracketAt(s, q + 1) = Read(x, e - 1 + 1)
      BY <2>2, <3>1, BracketIs
    <3>. QED  BY <3>1, <3>2, <3>3
  <2>3. BodyReadings(body) = IF At(s, e - 1) = CloseBracket
                             THEN BracketReadings(SubSeq(named, 2, Len(named) - 1)) ELSE {}
    BY <1>6, <1>7, <1>8, <1>11
  <2>4. BodyIn(s, p, e, x) <=>
          q + 2 <= e /\ At(s, e - 1) = CloseBracket /\ BracketAt(s, q + 1) = Read(x, e)
    BY <1>11, <2>0 DEF BodyIn, q
  <2>. QED  BY <2>1, <2>2, <2>3, <2>4 DEF body
<1>12. CASE q < e /\ At(s, q) # OpenBracket
  <2>1. BodyReadings(body) = IF q # p /\ At(s, q) \in IdentStart /\ \A k \in q .. e - 1 : At(s, k) \in Ident
                             THEN {KeySegment(named)} ELSE {}
    BY <1>4, <1>6, <1>7, <1>8, <1>9, <1>12
  <2>2. BodyIn(s, p, e, x) <=>
          /\ q # p /\ At(s, q) \in IdentStart /\ \A k \in q .. e - 1 : At(s, k) \in Ident
          /\ x = KeySegment(named)
    BY <1>12 DEF BodyIn, q, named
  <2>. QED  BY <2>1, <2>2 DEF body
<1>. QED  BY <1>10, <1>11, <1>12

Optional(x, is) == [x EXCEPT !.optional = is]

\* ... and has marks up to `to`.
PieceIn(s, p, to, y) ==
  \E e \in p + 1 .. to : \E x :
    /\ \A k \in e .. to - 1 : At(s, k) = Question
    /\ BodyIn(s, p, e, x) /\ y = Optional(x, e # to)

LEMMA PieceIs ==
  ASSUME NEW s \in Seq(Nat), NEW p \in 0 .. Len(s), NEW to \in p + 1 .. Len(s), NEW y
  PROVE  y \in PieceReadings(Between(s, p, to)) <=> PieceIn(s, p, to, y)
<1>. DEFINE piece == Between(s, p, to)  m == to - p
            ends == {e \in DOMAIN piece : \A k \in e + 1 .. Len(piece) : piece[k] = Question}
            at(e) == {[segment EXCEPT !.optional = (e # Len(piece))] : segment \in BodyReadings(SubSeq(piece, 1, e))}
<1>0. /\ Len(s) \in Nat /\ p \in Nat /\ to \in Nat /\ p < to /\ to \in p .. Len(s) /\ p + m = to /\ m \in Nat
      /\ to <= Len(s)
  OBVIOUS
<1>1. /\ piece \in Seq(Nat) /\ Len(piece) = m /\ DOMAIN piece = 1 .. m
      /\ \A k \in 1 .. m : piece[k] = At(s, p + k - 1)
  BY <1>0, BetweenIs DEF IsBetween
<1>2. y \in PieceReadings(piece) <=> \E e \in ends : y \in at(e)
  <2>1. PieceReadings(piece) = UNION {at(e) : e \in ends}
    BY Zenon DEF PieceReadings
  <2>. HIDE DEF at, ends
  <2>. QED  BY <2>1
<1>3. ASSUME NEW e \in 1 .. m
      PROVE  /\ e \in ends <=> \A k \in p + e .. to - 1 : At(s, k) = Question
             /\ y \in at(e) <=> \E x : BodyIn(s, p, p + e, x) /\ y = Optional(x, p + e # to)
  <2>0. e \in Nat /\ 0 \in 0 .. m /\ e \in 0 .. m /\ p + 0 = p /\ p + e \in p + 1 .. Len(s) /\ p + e <= to
    BY <1>0
  <2>1. e \in ends <=> \A k \in p + e .. to - 1 : At(s, k) = Question
    <3>1. e \in ends <=> \A k \in e + 1 .. m : piece[k] = Question
      BY <1>1
    <3>2. ASSUME \A k \in e + 1 .. m : piece[k] = Question, NEW k \in p + e .. to - 1 PROVE At(s, k) = Question
      <4>1. k - p + 1 \in e + 1 .. m /\ k - p + 1 \in 1 .. m /\ p + (k - p + 1) - 1 = k
        BY <1>0, <2>0
      <4>. HIDE DEF piece, m
      <4>. QED  BY <1>1, <3>2, <4>1
    <3>3. ASSUME \A k \in p + e .. to - 1 : At(s, k) = Question, NEW k \in e + 1 .. m PROVE piece[k] = Question
      <4>1. k \in 1 .. m /\ p + k - 1 \in p + e .. to - 1
        BY <1>0, <2>0
      <4>. HIDE DEF piece, m
      <4>. QED  BY <1>1, <3>3, <4>1
    <3>. HIDE DEF ends, piece, m
    <3>. QED  BY <3>1, <3>2, <3>3
  <2>2. SubSeq(piece, 1, e) = Between(s, p, p + e)
    <3>1. Between(piece, 0, e) = Between(s, p + 0, p + e)
      BY <1>0, <2>0, BetweenOf
    <3>2. Between(piece, 0, e) = SubSeq(piece, 1, e)
      BY DEF Between
    <3>. QED  BY <2>0, <3>1, <3>2
  <2>3. (e # Len(piece)) = (p + e # to)
    <3>1. e # m <=> p + e # to
      BY <1>0, <2>0
    <3>. QED  BY <1>1, <3>1
  <2>4. y \in at(e) <=> \E x \in BodyReadings(Between(s, p, p + e)) : y = Optional(x, p + e # to)
    <3>1. y \in at(e) <=> \E x \in BodyReadings(SubSeq(piece, 1, e)) : y = Optional(x, e # Len(piece))
      BY DEF Optional
    <3>. HIDE DEF at, piece
    <3>. QED  BY <2>2, <2>3, <3>1
  <2>5. \A x : x \in BodyReadings(Between(s, p, p + e)) <=> BodyIn(s, p, p + e, x)
    BY <2>0, BodyIs
  <2>. HIDE DEF ends, at, piece, m
  <2>. QED  BY <2>1, <2>4, <2>5
<1>4. ends \subseteq 1 .. m
  BY <1>1
<1>. HIDE DEF ends, at, piece
<1>5. ASSUME y \in PieceReadings(piece) PROVE PieceIn(s, p, to, y)
  <2>1. PICK e \in ends : y \in at(e)
    BY <1>2, <1>5
  <2>2. PICK x : BodyIn(s, p, p + e, x) /\ y = Optional(x, p + e # to)
    BY <1>3, <1>4, <2>1
  <2>3. \A k \in p + e .. to - 1 : At(s, k) = Question
    BY <1>3, <1>4, <2>1
  <2>4. p + e \in p + 1 .. to
    BY <1>0, <1>4, <2>1
  <2>. QED  BY <2>2, <2>3, <2>4, Zenon DEF PieceIn
<1>6. ASSUME PieceIn(s, p, to, y) PROVE y \in PieceReadings(piece)
  <2>0. PICK e \in p + 1 .. to : \E x : /\ \A k \in e .. to - 1 : At(s, k) = Question
                                    /\ BodyIn(s, p, e, x) /\ y = Optional(x, e # to)
    BY <1>6, Zenon DEF PieceIn
  <2>1. PICK x : /\ \A k \in e .. to - 1 : At(s, k) = Question
                 /\ BodyIn(s, p, e, x) /\ y = Optional(x, e # to)
    BY <2>0
  <2>. DEFINE d == e - p
  <2>2. d \in 1 .. m /\ p + d = e
    BY <1>0
  <2>. HIDE DEF d
  <2>3. d \in ends /\ y \in at(d)
    BY <1>3, <2>1, <2>2
  <2>. QED  BY <1>2, <2>3
<1>. QED  BY <1>5, <1>6 DEF piece

PieceReads(text) ==
  [p \in 0 .. Len(text) |-> [to \in 0 .. Len(text) |-> PieceReadings(Between(text, p, to))]]

PieceParts(f, text) ==
  f = [pos \in 0 .. Len(text) |->
         IF pos = Len(text) THEN {<< >>}
         ELSE UNION {Followed(PieceReadings(SubSeq(text, pos + 1, to)), f[to]) : to \in pos + 1 .. Len(text)}]

LEMMA PiecePartsAre ==
  ASSUME NEW text \in Seq(Nat), NEW f
  PROVE  PieceParts(f, text) <=> IsParts(f, Len(text), PieceReads(text))
<1>. DEFINE n == Len(text)  reads == PieceReads(text)
<1>0. n \in Nat
  OBVIOUS
<1>1. ASSUME NEW p \in 0 .. n
      PROVE  (IF p = n THEN {<< >>}
              ELSE UNION {Followed(PieceReadings(SubSeq(text, p + 1, to)), f[to]) : to \in p + 1 .. n}) =
             PartsStep(n, reads, p, f)
  <2>. DEFINE a == [to \in p + 1 .. n |-> Followed(PieceReadings(SubSeq(text, p + 1, to)), f[to])]
              b == [to \in p + 1 .. n |-> Followed(reads[p][to], f[to])]
  <2>1. ASSUME NEW to \in p + 1 .. n PROVE a[to] = b[to]
    <3>1. to \in 0 .. n
      BY <1>0
    <3>2. reads[p][to] = PieceReadings(Between(text, p, to))
      BY <3>1, Zenon DEF PieceReads
    <3>. QED  BY <3>2, Zenon DEF Between
  <2>2. {Followed(PieceReadings(SubSeq(text, p + 1, to)), f[to]) : to \in p + 1 .. n} = {a[to] : to \in p + 1 .. n}
    BY Zenon
  <2>3. {Followed(reads[p][to], f[to]) : to \in p + 1 .. n} = {b[to] : to \in p + 1 .. n}
    BY Zenon
  <2>. HIDE DEF a, b
  <2>4. {a[to] : to \in p + 1 .. n} = {b[to] : to \in p + 1 .. n}
    BY <2>1
  <2>5. {Followed(PieceReadings(SubSeq(text, p + 1, to)), f[to]) : to \in p + 1 .. n} =
        {Followed(reads[p][to], f[to]) : to \in p + 1 .. n}
    BY <2>2, <2>3, <2>4, Zenon
  <2>. QED  BY <2>5, Zenon DEF PartsStep
<1>. DEFINE c == [p \in 0 .. n |->
         IF p = n THEN {<< >>}
         ELSE UNION {Followed(PieceReadings(SubSeq(text, p + 1, to)), f[to]) : to \in p + 1 .. n}]
            d == [p \in 0 .. n |-> PartsStep(n, reads, p, f)]
<1>2. c = d
  BY <1>1, Zenon
<1>3. PieceParts(f, text) <=> f = c
  BY Zenon DEF PieceParts
<1>4. IsParts(f, n, reads) <=> f = d
  BY Zenon DEF IsParts
<1>. HIDE DEF c, d, n, reads
<1>5. PieceParts(f, text) <=> IsParts(f, n, reads)
  BY <1>2, <1>3, <1>4
<1>. QED  BY <1>5 DEF n, reads

LEMMA PiecesFrom ==
  ASSUME NEW text \in Seq(Nat)
  PROVE  \E f : PartsRead(f, Len(text), PieceReads(text)) /\ InParts(text, PieceReadings) = f[0]
<1>. DEFINE f == CHOOSE f : PieceParts(f, text)
<1>1. InParts(text, PieceReadings) = f[0]
  BY Zenon DEF InParts, PieceParts
<1>2. Len(text) \in Nat
  OBVIOUS
<1>3. \E g : PieceParts(g, text)
  <2>1. PICK g : IsParts(g, Len(text), PieceReads(text))
    BY <1>2, PartsAreThere
  <2>. QED  BY <2>1, PiecePartsAre
<1>4. PieceParts(f, text)
  BY <1>3, Zenon
<1>. HIDE DEF f
<1>5. PartsRead(f, Len(text), PieceReads(text))
  BY <1>2, <1>4, PiecePartsAre, PartsRule
<1>. QED  BY <1>1, <1>5

\* All the readings are sequences of one type.
LEMMA PartsType ==
  ASSUME NEW n \in Nat, NEW reads, NEW f, PartsRead(f, n, reads)
  PROVE  \E T : \A p \in 0 .. n : f[p] \subseteq Seq(T)
<1>. DEFINE T == UNION {UNION {reads[p][to] : to \in 0 .. n} : p \in 0 .. n}
<1>1. ASSUME NEW p \in 0 .. n, NEW to \in 0 .. n, NEW x \in reads[p][to] PROVE x \in T
  <2>1. x \in UNION {reads[p][q] : q \in 0 .. n}
    OBVIOUS
  <2>. QED  BY <2>1
<1>. HIDE DEF T
<1>. DEFINE Typed(p) == f[p] \subseteq Seq(T)
            S == {m \in 0 .. n : \A p \in n - m .. n : Typed(p)}
<1>2. ASSUME NEW p \in 0 .. n, \A q \in p + 1 .. n : Typed(q) PROVE Typed(p)
  <2>1. ASSUME NEW y \in f[p] PROVE y \in Seq(T)
    <3>1. PartsFrom(f, n, reads, p, y)
      BY <2>1 DEF PartsRead
    <3>2. CASE y = << >>
      BY <3>2
    <3>3. CASE y # << >>
      <4>1. PICK to \in p + 1 .. n : JoinsOn(reads[p][to], f[to], y)
        BY <3>1, <3>3, Zenon DEF PartsFrom
      <4>2. PICK x \in reads[p][to] : \E rest \in f[to] : y = << x >> \o rest
        BY <4>1, Zenon DEF JoinsOn
      <4>3. PICK rest \in f[to] : y = << x >> \o rest
        BY <4>2, Zenon
      <4>4. x \in T
        <5>1. to \in 0 .. n
          OBVIOUS
        <5>. QED  BY <1>1, <5>1
      <4>5. rest \in Seq(T)
        BY <1>2
      <4>. QED  BY <4>3, <4>4, <4>5
    <3>. QED  BY <3>2, <3>3
  <2>. QED  BY <2>1
<1>. HIDE DEF Typed
<1>3. ASSUME NEW m \in 0 .. n, \A p \in n - m + 1 .. n : Typed(p) PROVE m \in S
  <2>1. n - m \in 0 .. n /\ \A p \in n - m .. n : p = n - m \/ p \in n - m + 1 .. n
    OBVIOUS
  <2>2. Typed(n - m)
    BY <1>2, <1>3, <2>1
  <2>. QED  BY <1>3, <2>1, <2>2
<1>4. 0 \in S
  <2>1. 0 \in 0 .. n /\ \A p \in n - 0 + 1 .. n : FALSE
    OBVIOUS
  <2>. HIDE DEF S
  <2>. QED  BY <1>3, <2>1
<1>5. ASSUME NEW m \in 0 .. n - 1, m \in S PROVE m + 1 \in S
  <2>1. m + 1 \in 0 .. n /\ n - (m + 1) + 1 = n - m
    OBVIOUS
  <2>2. \A p \in n - (m + 1) + 1 .. n : Typed(p)
    BY <1>5, <2>1
  <2>. HIDE DEF S
  <2>. QED  BY <1>3, <2>1, <2>2
<1>. HIDE DEF S
<1>6. n \in S /\ n - n = 0
  <2>1. 0 .. n \subseteq S
    BY <1>4, <1>5, InductionUpTo
  <2>. QED  BY <2>1
<1>. QED  BY <1>6 DEF S, Typed

\* Brackets are read up to the one that closes them.
IsClosed(s, p, r) ==
  \E z \in p .. Len(s) : \E y : r = Read(y, z + 1) /\ At(s, z) = CloseBracket

LEMMA ClosedLies ==
  ASSUME NEW s \in Seq(Nat), NEW p \in Nat, NEW at \in p .. Len(s), NEW segment, IsOk(Closed(s, at, segment))
  PROVE  IsClosed(s, p, Closed(s, at, segment))
<1>1. ~IsOk(UnexpectedAt(at))
  BY DEF UnexpectedAt, Fail, IsOk
<1>2. At(s, at) = CloseBracket /\ Closed(s, at, segment) = Read(segment, at + 1)
  BY <1>1 DEF Closed
<1>. QED  BY <1>2 DEF IsClosed

LEMMA BracketLies ==
  ASSUME NEW s \in Seq(Nat), NEW p \in 0 .. Len(s), IsOk(BracketAt(s, p))
  PROVE  IsClosed(s, p, BracketAt(s, p))
<1>. DEFINE c == At(s, p)  r == BracketAt(s, p)  starts == {Dash, Colon} \cup Digits
<1>0. Len(s) \in Nat /\ p \in Nat
  OBVIOUS
<1>1. /\ CloseBracket # Quote /\ CloseBracket \notin starts /\ Quote \notin starts /\ Quote # End
      /\ CloseBracket # End /\ Colon # End
  BY MarkFacts DEF MarksDiffer
<1>2. r = CASE c = CloseBracket -> Read(ValuesSegment, p + 1)
            [] c = Quote -> Then(QuotedAt(s, p + 1), LAMBDA key, at : Closed(s, at, KeySegment(key)))
            [] c \in starts ->
                 Then(IntegerAt(s, p), LAMBDA first, at :
                   IF At(s, at) = Colon
                   THEN Then(IntegerAt(s, at + 1), LAMBDA second, past :
                          Closed(s, past, SliceSegment(first, second)))
                   ELSE IF first = None THEN Fail("BadIndex")
                   ELSE Closed(s, at, IndexSegment(first)))
            [] OTHER -> UnexpectedAt(p)
  BY Zenon DEF BracketAt
<1>3. \A at \in p .. Len(s) : \A segment :
        IsOk(Closed(s, at, segment)) => IsClosed(s, p, Closed(s, at, segment))
  BY <1>0, ClosedLies
<1>4. IsOk(r)
  OBVIOUS
<1>5. \A q \in p .. Len(s) : LET i == IntegerAt(s, q) IN IsOk(i) => i = Read(i.value, i.pos) /\ i.pos \in q .. Len(s)
  <2>1. ASSUME NEW q \in p .. Len(s), IsOk(IntegerAt(s, q))
        PROVE  LET i == IntegerAt(s, q) IN i = Read(i.value, i.pos) /\ i.pos \in q .. Len(s)
    <3>. DEFINE i == IntegerAt(s, q)
    <3>1. q \in 0 .. Len(s)
      BY <1>0
    <3>2. IsRead(i) /\ \A x, e : i = Read(x, e) => IsBound(s, q, x, e)
      BY <3>1, IntegerLies
    <3>. HIDE DEF i
    <3>3. i = Read(i.value, i.pos)
      BY <2>1, <3>2 DEF IsRead, i
    <3>4. IsBound(s, q, i.value, i.pos)
      BY <3>2, <3>3
    <3>. QED  BY <3>3, <3>4 DEF IsBound, i
  <2>. QED  BY <2>1
<1>. HIDE DEF c, r, starts
<1>6. CASE c = CloseBracket
  <2>1. r = Read(ValuesSegment, p + 1)
    BY <1>1, <1>2, <1>6
  <2>. QED  BY <1>0, <1>6, <2>1 DEF IsClosed, c, r
<1>7. CASE c = Quote
  <2>. DEFINE k == QuotedAt(s, p + 1)
  <2>1. r = Then(k, LAMBDA key, at : Closed(s, at, KeySegment(key)))
    BY <1>1, <1>2, <1>7
  <2>2. IsRead(k) /\ \A x, q : k = Read(x, q) => q \in p + 1 + 1 .. Len(s)
    <3>1. p + 1 \in 0 .. Len(s)
      BY <1>0, <1>1, <1>7, AtIs DEF IsAt, c
    <3>. QED  BY <3>1, QuotedIs
  <2>. HIDE DEF k
  <2>3. IsOk(k)
    BY <1>4, <2>1 DEF Then
  <2>4. k = Read(k.value, k.pos) /\ r = Closed(s, k.pos, KeySegment(k.value))
    BY <2>1, <2>2, <2>3 DEF Then, IsRead
  <2>5. k.pos \in p .. Len(s)
    <3>1. k.pos \in p + 1 + 1 .. Len(s)
      BY <2>2, <2>4
    <3>. QED  BY <1>0, <3>1
  <2>. QED  BY <1>3, <1>4, <2>4, <2>5 DEF r
<1>8. CASE c \in starts
  <2>. DEFINE i == IntegerAt(s, p)  at == i.pos  j == IntegerAt(s, at + 1)
  <2>1. r = Then(i, LAMBDA first, at1 :
                   IF At(s, at1) = Colon
                   THEN Then(IntegerAt(s, at1 + 1), LAMBDA second, past :
                          Closed(s, past, SliceSegment(first, second)))
                   ELSE IF first = None THEN Fail("BadIndex")
                   ELSE Closed(s, at1, IndexSegment(first)))
    BY <1>1, <1>2, <1>8
  <2>2. IsOk(i)
    BY <1>4, <2>1 DEF Then
  <2>3. at \in p .. Len(s)
    BY <1>0, <1>5, <2>2
  <2>4. r = IF At(s, at) = Colon
            THEN Then(j, LAMBDA second, past : Closed(s, past, SliceSegment(i.value, second)))
            ELSE IF i.value = None THEN Fail("BadIndex")
            ELSE Closed(s, at, IndexSegment(i.value))
    BY <2>1, <2>2 DEF Then
  <2>. HIDE DEF i, at
  <2>5. CASE At(s, at) = Colon
    <3>0. at + 1 \in p .. Len(s)
      BY <1>0, <1>1, <2>3, <2>5, AtIs DEF IsAt
    <3>1. IsOk(j)
      BY <1>4, <2>4, <2>5 DEF Then
    <3>2. j.pos \in at + 1 .. Len(s)
      BY <1>5, <3>0, <3>1
    <3>3. r = Closed(s, j.pos, SliceSegment(i.value, j.value))
      BY <2>4, <2>5, <3>1 DEF Then
    <3>. HIDE DEF j
    <3>4. j.pos \in p .. Len(s)
      BY <1>0, <3>0, <3>2
    <3>. QED  BY <1>3, <1>4, <3>3, <3>4 DEF r
  <2>6. CASE At(s, at) # Colon
    <3>1. ~IsOk(Fail("BadIndex"))
      BY FailsFail
    <3>2. r = Closed(s, at, IndexSegment(i.value))
      BY <1>4, <2>4, <2>6, <3>1
    <3>. QED  BY <1>3, <1>4, <2>3, <3>2 DEF r
  <2>. QED  BY <2>5, <2>6
<1>9. CASE c # CloseBracket /\ c # Quote /\ c \notin starts
  <2>1. r = UnexpectedAt(p)
    BY <1>2, <1>9
  <2>. QED  BY <1>4, <2>1 DEF UnexpectedAt, Fail, IsOk
<1>. QED  BY <1>6, <1>7, <1>8, <1>9

\* The segment at p, as the parser reads it, goes up to e.
BodyAt(s, p, x, e) ==
  LET q == AfterDot(s, p)
  IN  \/ At(s, q) = OpenBracket /\ BracketAt(s, q + 1) = Read(x, e)
      \/ /\ q # p /\ At(s, q) \in IdentStart /\ e = PastAll(s, q, Ident)
         /\ x = KeySegment(Between(s, q, e))

StartsSegment(s, p) == At(s, p) \in {Dot, OpenBracket}

\* A segment that was read has no mark yet.
LEMMA KeyIsFresh ==
  ASSUME NEW key
  PROVE  Optional(KeySegment(key), FALSE) = KeySegment(key)
<1>. DEFINE r == KeySegment(key)
<1>1. r \in [kind : {"key"}, key : {key}, optional : BOOLEAN] /\ r.optional = FALSE
  BY DEF KeySegment
<1>. HIDE DEF r
<1>2. [r EXCEPT !.optional = FALSE] = r
  BY <1>1
<1>. QED  BY <1>2 DEF Optional, r

LEMMA FreshIs ==
  ASSUME NEW s, NEW p, NEW z, NEW x, BracketIn(s, p, z, x)
  PROVE  Optional(x, FALSE) = x
<1>1. Optional(ValuesSegment, FALSE) = ValuesSegment
  <2>. DEFINE r == ValuesSegment
  <2>1. r \in [kind : {"values"}, optional : BOOLEAN] /\ r.optional = FALSE
    BY DEF ValuesSegment
  <2>. HIDE DEF r
  <2>2. [r EXCEPT !.optional = FALSE] = r
    BY <2>1
  <2>. QED  BY <2>2 DEF Optional, r
<1>2. ASSUME NEW n PROVE Optional(IndexSegment(n), FALSE) = IndexSegment(n)
  <2>. DEFINE r == IndexSegment(n)
  <2>1. r \in [kind : {"index"}, at : {n}, optional : BOOLEAN] /\ r.optional = FALSE
    BY DEF IndexSegment
  <2>. HIDE DEF r
  <2>2. [r EXCEPT !.optional = FALSE] = r
    BY <2>1
  <2>. QED  BY <2>2 DEF Optional, r
<1>3. ASSUME NEW n, NEW m PROVE Optional(SliceSegment(n, m), FALSE) = SliceSegment(n, m)
  <2>. DEFINE r == SliceSegment(n, m)
  <2>1. r \in [kind : {"slice"}, from : {n}, to : {m}, optional : BOOLEAN] /\ r.optional = FALSE
    BY DEF SliceSegment
  <2>. HIDE DEF r
  <2>2. [r EXCEPT !.optional = FALSE] = r
    BY <2>1
  <2>. QED  BY <2>2 DEF Optional, r
<1>. QED  BY <1>1, <1>2, <1>3, KeyIsFresh DEF BracketIn, ValuesIn, IndexIn, SliceIn, QuotedIn

LEMMA BodyLies ==
  ASSUME NEW s \in Seq(Nat), NEW p \in 0 .. Len(s), p # Len(s), NEW x, NEW e, BodyAt(s, p, x, e)
  PROVE  e \in p + 1 .. Len(s) /\ BodyIn(s, p, e, x) /\ Optional(x, FALSE) = x /\ StartsSegment(s, p)
<1>. DEFINE q == AfterDot(s, p)
<1>0. /\ Len(s) \in Nat /\ p \in Nat /\ q \in 0 .. Len(s) /\ q \in Nat /\ p <= q
      /\ (q # p => At(s, p) = Dot)
  BY DEF AfterDot
<1>1. CASE At(s, q) = OpenBracket /\ BracketAt(s, q + 1) = Read(x, e)
  <2>1. q < Len(s) /\ q + 1 \in 0 .. Len(s)
    BY <1>0, <1>1, AtIs, MarkFacts DEF IsAt, MarksDiffer
  <2>2. IsClosed(s, q + 1, BracketAt(s, q + 1))
    <3>1. IsOk(BracketAt(s, q + 1))
      BY <1>1, ReadGives
    <3>. QED  BY <2>1, <3>1, BracketLies
  <2>. HIDE DEF q
  <2>3. PICK z \in q + 1 .. Len(s) : Read(x, e) = Read(x, z + 1) /\ At(s, z) = CloseBracket
    <3>1. PICK z \in q + 1 .. Len(s) : \E y : BracketAt(s, q + 1) = Read(y, z + 1) /\ At(s, z) = CloseBracket
      BY <2>2, Zenon DEF IsClosed
    <3>2. PICK y : BracketAt(s, q + 1) = Read(y, z + 1) /\ At(s, z) = CloseBracket
      BY <3>1
    <3>3. Read(x, e) = Read(y, z + 1)
      BY <1>1, <3>2
    <3>4. y = x
      BY <3>3, ReadSame
    <3>. QED  BY <3>2, <3>3, <3>4
  <2>4. e = z + 1
    BY <2>3, ReadSame
  <2>5. z < Len(s) /\ z \in 0 .. Len(s) /\ q + 1 \in 0 .. z
    BY <1>0, <2>1, <2>3, AtIs, MarkFacts DEF IsAt, MarksDiffer
  <2>6. e \in p + 1 .. Len(s) /\ q + 2 <= e /\ e - 1 = z
    BY <1>0, <2>4, <2>5
  <2>7. BodyIn(s, p, e, x)
    BY <1>1, <2>3, <2>6 DEF BodyIn, q
  <2>8. Optional(x, FALSE) = x
    <3>1. BracketIn(s, q + 1, z, x)
      BY <1>1, <2>3, <2>4, <2>5, BracketParsed
    <3>. QED  BY <3>1, FreshIs
  <2>. QED  BY <1>0, <1>1, <2>6, <2>7, <2>8 DEF StartsSegment
<1>2. CASE /\ q # p /\ At(s, q) \in IdentStart /\ e = PastAll(s, q, Ident)
           /\ x = KeySegment(Between(s, q, e))
  <2>. HIDE DEF q
  <2>1. Stops(s, q, Ident, e)
    BY <1>0, <1>2, DigitsFit, PastAllShows
  <2>2. e # q
    BY <1>2, <2>1 DEF Stops, Ident
  <2>3. q < e /\ e \in p + 1 .. Len(s)
    BY <1>0, <2>1, <2>2 DEF Stops
  <2>4. BodyIn(s, p, e, x)
    BY <1>2, <2>1, <2>3 DEF BodyIn, Stops, q
  <2>5. Optional(x, FALSE) = x
    BY <1>2, KeyIsFresh
  <2>. QED  BY <1>0, <1>2, <2>3, <2>4, <2>5 DEF StartsSegment
<1>. QED  BY <1>1, <1>2 DEF BodyAt

LEMMA BodyStarts ==
  ASSUME NEW s, NEW p, NEW x, NEW e, BodyIn(s, p, e, x)
  PROVE  StartsSegment(s, p)
<1>1. AfterDot(s, p) # p => At(s, p) = Dot
  BY DEF AfterDot
<1>2. AfterDot(s, p) = p => At(s, p) = OpenBracket
  BY DEF BodyIn
<1>. QED  BY <1>1, <1>2 DEF StartsSegment

LEMMA BodyEnds ==
  ASSUME NEW s \in Seq(Nat), NEW p \in 0 .. Len(s), NEW e \in p + 1 .. Len(s), NEW x,
         BodyIn(s, p, e, x), At(s, e) \notin Ident
  PROVE  BodyAt(s, p, x, e)
<1>. DEFINE q == AfterDot(s, p)
<1>1. CASE At(s, q) = OpenBracket /\ BracketAt(s, q + 1) = Read(x, e)
  BY <1>1, Zenon DEF BodyAt
<1>2. CASE /\ q # p /\ q < e /\ At(s, q) \in IdentStart
           /\ \A k \in q .. e - 1 : At(s, k) \in Ident
           /\ x = KeySegment(Between(s, q, e))
  <2>1. q \in 0 .. Len(s) /\ e \in q .. Len(s)
    BY <1>2 DEF AfterDot
  <2>. HIDE DEF q
  <2>2. Stops(s, q, Ident, e)
    BY <1>2, <2>1 DEF Stops
  <2>3. PastAll(s, q, Ident) = e
    BY <2>1, <2>2, DigitsFit, PastAllIs
  <2>. QED  BY <1>2, <2>3, Zenon DEF BodyAt, q
<1>3. BodyIn(s, p, e, x) =>
        \/ At(s, q) = OpenBracket /\ BracketAt(s, q + 1) = Read(x, e)
        \/ /\ q # p /\ q < e /\ At(s, q) \in IdentStart
           /\ \A k \in q .. e - 1 : At(s, k) \in Ident
           /\ x = KeySegment(Between(s, q, e))
  BY DEF BodyIn
<1>. QED  BY <1>1, <1>2, <1>3

\* There is one at most.
LEMMA OneBody ==
  ASSUME NEW s, NEW p, NEW x, NEW e, NEW y, NEW f, BodyAt(s, p, x, e), BodyAt(s, p, y, f)
  PROVE  x = y /\ e = f
<1>. DEFINE q == AfterDot(s, p)
<1>1. OpenBracket \notin IdentStart
  BY MarkFacts DEF MarksDiffer
<1>2. CASE At(s, q) = OpenBracket
  <2>1. BracketAt(s, q + 1) = Read(x, e) /\ BracketAt(s, q + 1) = Read(y, f)
    BY <1>1, <1>2 DEF BodyAt
  <2>2. Read(x, e) = Read(y, f)
    BY <2>1
  <2>. QED  BY <2>2, ReadSame
<1>3. CASE At(s, q) # OpenBracket
  <2>1. e = PastAll(s, q, Ident) /\ f = PastAll(s, q, Ident)
    BY <1>3 DEF BodyAt
  <2>2. x = KeySegment(Between(s, q, e)) /\ y = KeySegment(Between(s, q, f))
    BY <1>3 DEF BodyAt
  <2>. QED  BY <2>1, <2>2, Zenon
<1>. QED  BY <1>2, <1>3

PastMarks(s, e) == PastAll(s, e, {Question})

\* y goes on after the segment x, that ends at e.
After(G, s, x, e, y) ==
  \E rest \in G[PastMarks(s, e)] : y = << Optional(x, e # PastMarks(s, e)) >> \o rest

LEMMA MarksFit == {Question} \in SUBSET Nat /\ Question \notin Ident
  BY MarkFacts DEF MarksDiffer

ArePieces(G, s) == PartsRead(G, Len(s), PieceReads(s))

PieceThen(G, s, p, y) ==
  \E to \in p + 1 .. Len(s) : \E x : PieceIn(s, p, to, x) /\ \E rest \in G[to] : y = << x >> \o rest

LEMMA PieceRule ==
  ASSUME NEW s \in Seq(Nat), NEW G, ArePieces(G, s), NEW p \in 0 .. Len(s), p # Len(s), NEW y
  PROVE  y \in G[p] <=> PieceThen(G, s, p, y)
<1>0. Len(s) \in Nat
  OBVIOUS
<1>1. y \in G[p] <=> \E to \in p + 1 .. Len(s) : JoinsOn(PieceReads(s)[p][to], G[to], y)
  BY DEF ArePieces, PartsRead, PartsFrom
<1>2. ASSUME NEW to \in p + 1 .. Len(s), NEW x PROVE x \in PieceReads(s)[p][to] <=> PieceIn(s, p, to, x)
  <2>1. to \in 0 .. Len(s)
    OBVIOUS
  <2>2. PieceReads(s)[p][to] = PieceReadings(Between(s, p, to))
    BY <2>1, Zenon DEF PieceReads
  <2>. QED  BY <2>2, PieceIs
<1>3. ASSUME NEW to \in p + 1 .. Len(s)
      PROVE  JoinsOn(PieceReads(s)[p][to], G[to], y) <=> \E x : PieceIn(s, p, to, x) /\ \E rest \in G[to] : y = << x >> \o rest
  BY <1>2, Zenon DEF JoinsOn
<1>. QED  BY <1>1, <1>3, Zenon DEF PieceThen

LEMMA RestStarts ==
  ASSUME NEW s \in Seq(Nat), NEW G, ArePieces(G, s), NEW p \in 0 .. Len(s), p # Len(s), NEW y \in G[p]
  PROVE  StartsSegment(s, p)
<1>0. PieceThen(G, s, p, y)
  BY PieceRule
<1>1. PICK to \in p + 1 .. Len(s) : \E x : PieceIn(s, p, to, x) /\ \E rest \in G[to] : y = << x >> \o rest
  BY <1>0, Zenon DEF PieceThen
<1>2. PICK x, e : BodyIn(s, p, e, x)
  BY <1>1 DEF PieceIn
<1>. QED  BY <1>2, BodyStarts

\* A text from p on starts with the segment that the parser reads there.
LEMMA PieceStart ==
  ASSUME NEW s \in Seq(Nat), NEW G, ArePieces(G, s), NEW p \in 0 .. Len(s), p # Len(s), NEW y
  PROVE  y \in G[p] <=> \E x, e : BodyAt(s, p, x, e) /\ After(G, s, x, e, y)
<1>0. Len(s) \in Nat /\ p \in Nat
  OBVIOUS
<1>1. ASSUME y \in G[p] PROVE \E x, e : BodyAt(s, p, x, e) /\ After(G, s, x, e, y)
  <2>0. PieceThen(G, s, p, y)
    BY <1>1, PieceRule
  <2>1. PICK to \in p + 1 .. Len(s) : \E x : PieceIn(s, p, to, x) /\ \E rest \in G[to] : y = << x >> \o rest
    BY <2>0, Zenon DEF PieceThen
  <2>2. PICK z : PieceIn(s, p, to, z) /\ \E rest \in G[to] : y = << z >> \o rest
    BY <2>1
  <2>3. PICK e \in p + 1 .. to : \E x : /\ \A k \in e .. to - 1 : At(s, k) = Question
                                        /\ BodyIn(s, p, e, x) /\ z = Optional(x, e # to)
    BY <2>2, Zenon DEF PieceIn
  <2>4. PICK x : /\ \A k \in e .. to - 1 : At(s, k) = Question
                 /\ BodyIn(s, p, e, x) /\ z = Optional(x, e # to)
    BY <2>3
  <2>5. At(s, to) # Question /\ At(s, to) \notin Ident
    <3>1. CASE to = Len(s)
      <4>1. At(s, to) = End
        BY <1>0, <3>1, AtIs DEF IsAt
      <4>2. End \notin Nat
        BY DEF End
      <4>. QED  BY <4>1, <4>2, DigitsFit, MarksFit
    <3>2. CASE to # Len(s)
      <4>1. to \in 0 .. Len(s)
        BY <1>0
      <4>2. StartsSegment(s, to)
        BY <2>2, <3>2, <4>1, RestStarts
      <4>. QED  BY <4>2, MarkFacts DEF StartsSegment, MarksDiffer
    <3>. QED  BY <3>1, <3>2
  <2>6. e \in 0 .. Len(s) /\ to \in e .. Len(s) /\ e \in p + 1 .. Len(s) /\ e \in Nat /\ to \in Nat
    BY <1>0
  <2>7. PastMarks(s, e) = to
    <3>1. Stops(s, e, {Question}, to)
      BY <2>4, <2>5, <2>6 DEF Stops
    <3>. QED  BY <2>6, <3>1, MarksFit, PastAllIs DEF PastMarks
  <2>8. At(s, e) \notin Ident
    <3>1. e # to => e \in e .. to - 1
      BY <2>6
    <3>. QED  BY <2>4, <2>5, <3>1, MarksFit
  <2>9. BodyAt(s, p, x, e)
    BY <2>4, <2>6, <2>8, BodyEnds
  <2>10. After(G, s, x, e, y)
    BY <2>2, <2>4, <2>7 DEF After
  <2>. QED  BY <2>9, <2>10
<1>2. ASSUME NEW x, NEW e, BodyAt(s, p, x, e), After(G, s, x, e, y) PROVE y \in G[p]
  <2>. DEFINE to == PastMarks(s, e)
  <2>1. e \in p + 1 .. Len(s) /\ BodyIn(s, p, e, x)
    BY <1>2, BodyLies
  <2>2. e \in 0 .. Len(s)
    BY <1>0, <2>1
  <2>3. Stops(s, e, {Question}, to)
    BY <2>2, MarksFit, PastAllShows DEF PastMarks
  <2>. HIDE DEF to
  <2>4. to \in e .. Len(s) /\ to \in p + 1 .. Len(s) /\ e \in p + 1 .. to /\ \A k \in e .. to - 1 : At(s, k) = Question
    BY <1>0, <2>1, <2>3 DEF Stops
  <2>5. PieceIn(s, p, to, Optional(x, e # to))
    BY <2>1, <2>4 DEF PieceIn
  <2>6. PICK rest \in G[to] : y = << Optional(x, e # to) >> \o rest
    BY <1>2 DEF After, to
  <2>. QED  BY <2>4, <2>5, <2>6, PieceRule DEF PieceThen
<1>. QED  BY <1>1, <1>2

----------------------------------------------------------------------------
(* Turns.                                                                  *)

\* The marks after the last segment.
Marked(segs, is) == IF is THEN [segs EXCEPT ![Len(segs)].optional = TRUE] ELSE segs

\* What is left of s at `at` makes y of the segments read.
Makes(G, s, dotted, segs, at, y) ==
  IF dotted THEN \E r \in G[at - 1] : y = segs \o r
  ELSE \E r \in G[PastMarks(s, at)] : y = Marked(segs, at # PastMarks(s, at)) \o r

So(dotted, segs) == [dotted |-> dotted, segments |-> segs]

IsState(s, dotted, segs, at) ==
  /\ at \in 1 .. Len(s) /\ dotted \in BOOLEAN
  /\ dotted => At(s, at - 1) = Dot
  /\ ~dotted => segs # << >>
  /\ dotted /\ segs = << >> => at = 1
  /\ \E T : segs \in Seq(T)

LEMMA Regroups ==
  ASSUME NEW T, NEW U, NEW V, NEW segs \in Seq(T), NEW x \in U, NEW rest \in Seq(V)
  PROVE  Append(segs, x) \o rest = segs \o (<< x >> \o rest)
<1>. DEFINE W == T \cup U \cup V
<1>1. segs \in Seq(W) /\ x \in W /\ rest \in Seq(W)
  OBVIOUS
<1>. HIDE DEF W
<1>. DEFINE b == << x >> \o rest  a == Append(segs, x)  l == a \o rest  r == segs \o b  n == Len(segs)  k == Len(rest)
<1>2. n \in Nat /\ k \in Nat
  BY <1>1
<1>3. b \in Seq(W) /\ Len(b) = 1 + k /\ b[1] = x /\ \A i \in 1 .. k : b[1 + i] = rest[i]
  <2>0. << x >> \in Seq(W) /\ Len(<< x >>) = 1 /\ << x >>[1] = x
    BY <1>1
  <2>1. b \in Seq(W) /\ IsConcat(b, << x >>, rest)
    BY <1>1, <2>0, ConcatType
  <2>. HIDE DEF b
  <2>. QED  BY <2>0, <2>1 DEF IsConcat
<1>4. a \in Seq(W) /\ Len(a) = n + 1 /\ a[n + 1] = x /\ \A i \in 1 .. n : a[i] = segs[i]
  BY <1>1
<1>. HIDE DEF a, b
<1>5. l \in Seq(W) /\ IsConcat(l, a, rest)
  BY <1>1, <1>4, ConcatType
<1>6. r \in Seq(W) /\ IsConcat(r, segs, b)
  BY <1>1, <1>3, ConcatType
<1>. HIDE DEF l, r
<1>7. Len(l) = n + 1 + k /\ Len(r) = n + (1 + k)
  BY <1>3, <1>4, <1>5, <1>6 DEF IsConcat
<1>8. ASSUME NEW i \in 1 .. n + 1 + k PROVE l[i] = r[i]
  <2>1. CASE i <= n
    <3>1. i \in 1 .. n /\ i \in 1 .. n + 1
      BY <1>2, <2>1
    <3>2. l[i] = a[i]
      BY <1>4, <1>5, <3>1 DEF IsConcat
    <3>3. r[i] = segs[i]
      BY <1>6, <3>1 DEF IsConcat
    <3>. QED  BY <1>4, <3>1, <3>2, <3>3
  <2>2. CASE i = n + 1
    <3>1. i \in 1 .. n + 1 /\ 1 \in 1 .. 1 + k
      BY <1>2, <2>2
    <3>2. l[i] = a[i]
      BY <1>4, <1>5, <3>1 DEF IsConcat
    <3>3. r[n + 1] = b[1]
      BY <1>3, <1>6, <3>1 DEF IsConcat
    <3>. QED  BY <1>3, <1>4, <2>2, <3>2, <3>3
  <2>3. CASE i > n + 1
    <3>. DEFINE j == i - (n + 1)
    <3>1. j \in 1 .. k /\ i = (n + 1) + j /\ 1 + j \in 1 .. 1 + k /\ i = n + (1 + j)
      BY <1>2, <2>3
    <3>. HIDE DEF j
    <3>2. l[(n + 1) + j] = rest[j]
      BY <1>4, <1>5, <3>1 DEF IsConcat
    <3>3. r[n + (1 + j)] = b[1 + j]
      BY <1>3, <1>6, <3>1 DEF IsConcat
    <3>. QED  BY <1>3, <3>1, <3>2, <3>3
  <2>. QED  BY <1>2, <2>1, <2>2, <2>3
<1>9. l = r
  <2>1. Len(l) = Len(r) /\ Len(l) = n + 1 + k
    BY <1>2, <1>7
  <2>. QED  BY <1>5, <1>6, <1>8, <2>1, SameSequence
<1>. QED  BY <1>9 DEF l, r, a, b

\* The mark of the last segment.
LEMMA MarkedLast ==
  ASSUME NEW T, NEW segs \in Seq(T), NEW x, NEW is \in BOOLEAN, Optional(x, FALSE) = x
  PROVE  Marked(Append(segs, x), is) = Append(segs, Optional(x, is))
<1>. DEFINE z == Optional(x, TRUE)  W == T \cup {x} \cup {z}  n == Len(segs) + 1
            a == Append(segs, x)  b == [a EXCEPT ![n] = z]  c == Append(segs, z)
<1>. HIDE DEF z
<1>1. segs \in Seq(W) /\ x \in W /\ z \in W /\ n \in Nat /\ Len(segs) \in Nat
  OBVIOUS
<1>. HIDE DEF W
<1>2. a \in Seq(W) /\ Len(a) = n /\ a[n] = x /\ \A i \in 1 .. Len(segs) : a[i] = segs[i]
  BY <1>1
<1>3. c \in Seq(W) /\ Len(c) = n /\ c[n] = z /\ \A i \in 1 .. Len(segs) : c[i] = segs[i]
  BY <1>1
<1>. HIDE DEF a, c
<1>4. b \in Seq(W) /\ Len(b) = n /\ b[n] = z /\ \A i \in 1 .. Len(segs) : b[i] = a[i]
  BY <1>1, <1>2
<1>. HIDE DEF b
<1>5. b = c
  <2>1. ASSUME NEW i \in 1 .. Len(b) PROVE b[i] = c[i]
    <3>1. i = n \/ i \in 1 .. Len(segs)
      BY <1>1, <1>4
    <3>. QED  BY <1>2, <1>3, <1>4, <3>1
  <2>. QED  BY <1>3, <1>4, <2>1, SameSequence
<1>6. [a EXCEPT ![Len(a)].optional = TRUE] = b
  <2>1. [a EXCEPT ![Len(a)].optional = TRUE] = [a EXCEPT ![n] = [a[n] EXCEPT !.optional = TRUE]]
    BY <1>2
  <2>2. [a[n] EXCEPT !.optional = TRUE] = z
    BY <1>2 DEF Optional, z
  <2>. QED  BY <2>1, <2>2 DEF b
<1>7. CASE is
  <2>1. Marked(a, is) = [a EXCEPT ![Len(a)].optional = TRUE]
    BY <1>7 DEF Marked
  <2>2. is = TRUE
    BY <1>7
  <2>. QED  BY <1>5, <1>6, <2>1, <2>2 DEF a, c, z
<1>8. CASE ~is
  <2>1. Marked(a, is) = a
    BY <1>8 DEF Marked
  <2>2. is = FALSE
    BY <1>8
  <2>. QED  BY <2>1, <2>2 DEF a
<1>. QED  BY <1>7, <1>8

\* A segment that is read next.
Onwards(G, segs, p, y) == \E r \in G[p] : y = segs \o r

LEMMA AppendMakes ==
  ASSUME NEW s \in Seq(Nat), NEW G, ArePieces(G, s), NEW p \in 0 .. Len(s), p # Len(s), NEW y,
         NEW T, NEW segs \in Seq(T), NEW x, NEW e, BodyAt(s, p, x, e)
  PROVE  Onwards(G, segs, p, y) <=> Makes(G, s, FALSE, Append(segs, x), e, y)
<1>. DEFINE m == PastMarks(s, e)  z == Optional(x, e # m)
<1>0. Len(s) \in Nat /\ p \in Nat
  OBVIOUS
<1>1. e \in p + 1 .. Len(s) /\ Optional(x, FALSE) = x
  BY BodyLies
<1>2. m \in 0 .. Len(s)
  <2>1. e \in 0 .. Len(s) /\ e \in Nat
    BY <1>0, <1>1
  <2>2. Stops(s, e, {Question}, m)
    BY <2>1, MarksFit, PastAllShows DEF PastMarks
  <2>. HIDE DEF m
  <2>. QED  BY <1>0, <2>1, <2>2 DEF Stops
<1>3. PICK V : \A q \in 0 .. Len(s) : G[q] \subseteq Seq(V)
  BY <1>0, PartsType DEF ArePieces
<1>4. Marked(Append(segs, x), e # m) = Append(segs, z)
  BY <1>1, MarkedLast
<1>5. ASSUME NEW rest \in G[m] PROVE Append(segs, z) \o rest = segs \o (<< z >> \o rest)
  <2>1. rest \in Seq(V)
    BY <1>2, <1>3
  <2>2. z \in {z}
    OBVIOUS
  <2>. HIDE DEF z, m
  <2>. QED  BY <2>1, <2>2, Regroups
<1>6. Makes(G, s, FALSE, Append(segs, x), e, y) <=> \E rest \in G[m] : y = segs \o (<< z >> \o rest)
  <2>1. Makes(G, s, FALSE, Append(segs, x), e, y) <=> \E rest \in G[m] : y = Marked(Append(segs, x), e # m) \o rest
    BY DEF Makes
  <2>. HIDE DEF m, z
  <2>. QED  BY <1>4, <1>5, <2>1
<1>7. \A r : r \in G[p] <=> \E rest \in G[m] : r = << z >> \o rest
  <2>1. ASSUME NEW r PROVE r \in G[p] <=> After(G, s, x, e, r)
    <3>1. r \in G[p] <=> \E x1, e1 : BodyAt(s, p, x1, e1) /\ After(G, s, x1, e1, r)
      BY PieceStart
    <3>2. \A x1, e1 : BodyAt(s, p, x1, e1) => x1 = x /\ e1 = e
      BY OneBody
    <3>. QED  BY <3>1, <3>2
  <2>2. \A r : After(G, s, x, e, r) <=> \E rest \in G[m] : r = << z >> \o rest
    BY DEF After
  <2>. QED  BY <2>1, <2>2
<1>. HIDE DEF m, z
<1>. QED  BY <1>6, <1>7 DEF Onwards

LEMMA NoBody ==
  ASSUME NEW s \in Seq(Nat), NEW G, ArePieces(G, s), NEW p \in 0 .. Len(s), p # Len(s), NEW y, NEW segs,
         \A x, e : ~BodyAt(s, p, x, e)
  PROVE  ~Onwards(G, segs, p, y)
<1>1. \A r : r \notin G[p]
  BY PieceStart
<1>. QED  BY <1>1 DEF Onwards

\* A mark after the last segment.
LEMMA MarkTwice ==
  ASSUME NEW T, NEW segs \in Seq(T), segs # << >>, NEW is \in BOOLEAN
  PROVE  LET marked == Marked(segs, TRUE)
         IN  /\ \E V : marked \in Seq(V)
             /\ marked # << >> /\ Marked(marked, is) = marked
<1>. DEFINE n == Len(segs)  x == segs[n]  z == Optional(x, TRUE)  m == [segs EXCEPT ![n] = z]
            W == T \cup {z}
<1>0. Optional(z, TRUE) = z
  BY Zenon DEF Optional
<1>1. Marked(segs, TRUE) = m
  BY DEF Marked, Optional
<1>2. n \in Nat \ {0}
  OBVIOUS
<1>. HIDE DEF z
<1>3. m \in Seq(W) /\ Len(m) = n /\ m[n] = z
  BY <1>2
<1>. HIDE DEF m, W, n
<1>4. Marked(m, TRUE) = m
  <2>1. Marked(m, TRUE) = [m EXCEPT ![n] = [m[n] EXCEPT !.optional = TRUE]]
    BY <1>3 DEF Marked
  <2>2. [m[n] EXCEPT !.optional = TRUE] = m[n]
    BY <1>0, <1>3 DEF Optional
  <2>3. [m EXCEPT ![n] = m[n]] = m
    <3>. DEFINE k == [m EXCEPT ![n] = m[n]]
    <3>1. k \in Seq(W) /\ Len(k) = Len(m) /\ \A i \in 1 .. Len(k) : k[i] = m[i]
      BY <1>2, <1>3
    <3>. HIDE DEF k
    <3>2. k = m
      BY <1>3, <3>1, SameSequence
    <3>. QED  BY <3>2 DEF k
  <2>. QED  BY <2>1, <2>2, <2>3
<1>5. Marked(m, FALSE) = m
  BY DEF Marked
<1>6. m # << >>
  BY <1>2, <1>3
<1>7. is = TRUE \/ is = FALSE
  OBVIOUS
<1>. QED  BY <1>1, <1>3, <1>4, <1>5, <1>6, <1>7

LEMMA PastMarksIs ==
  ASSUME NEW s \in Seq(Nat), NEW at \in 0 .. Len(s)
  PROVE  /\ At(s, at) # Question => PastMarks(s, at) = at
         /\ At(s, at) = Question => /\ at + 1 \in 0 .. Len(s) /\ PastMarks(s, at) # at
                                    /\ PastMarks(s, at) = PastMarks(s, at + 1)
<1>0. Len(s) \in Nat /\ at \in Nat
  OBVIOUS
<1>1. ASSUME At(s, at) # Question PROVE PastMarks(s, at) = at
  <2>1. Stops(s, at, {Question}, at)
    BY <1>0, <1>1 DEF Stops
  <2>. QED  BY <2>1, MarksFit, PastAllIs DEF PastMarks
<1>2. ASSUME At(s, at) = Question
      PROVE  /\ at + 1 \in 0 .. Len(s) /\ PastMarks(s, at) # at
             /\ PastMarks(s, at) = PastMarks(s, at + 1)
  <2>. DEFINE next == at + 1  e == PastMarks(s, next)
  <2>1. at < Len(s) /\ next \in 0 .. Len(s) /\ next \in Nat
    BY <1>0, <1>2, AtIs, MarkFacts DEF IsAt, MarksDiffer
  <2>. HIDE DEF next
  <2>2. Stops(s, next, {Question}, e)
    BY <2>1, MarksFit, PastAllShows DEF PastMarks
  <2>. HIDE DEF e
  <2>3. e \in next .. Len(s) /\ e # at /\ e \in at .. Len(s)
    BY <1>0, <2>1, <2>2 DEF Stops, next
  <2>4. ASSUME NEW k \in at .. e - 1 PROVE At(s, k) = Question
    <3>1. k = at \/ k \in next .. e - 1
      BY <1>0, <2>1, <2>3 DEF next
    <3>. QED  BY <1>2, <2>2, <3>1 DEF Stops
  <2>5. Stops(s, at, {Question}, e)
    BY <2>2, <2>3, <2>4 DEF Stops
  <2>6. PastMarks(s, at) = e
    BY <2>5, MarksFit, PastAllIs DEF PastMarks
  <2>. QED  BY <2>1, <2>3, <2>6 DEF e, next
<1>. QED  BY <1>1, <1>2

LEMMA MarkMakes ==
  ASSUME NEW s \in Seq(Nat), NEW G, NEW y, NEW T, NEW segs \in Seq(T), segs # << >>,
         NEW at \in 0 .. Len(s), At(s, at) = Question
  PROVE  Makes(G, s, FALSE, segs, at, y) <=> Makes(G, s, FALSE, Marked(segs, TRUE), at + 1, y)
<1>. DEFINE e == PastMarks(s, at)  m == Marked(segs, TRUE)  is == at + 1 # e
<1>1. e # at /\ e = PastMarks(s, at + 1)
  BY PastMarksIs
<1>2. Marked(m, is) = m
  <2>1. is \in BOOLEAN
    OBVIOUS
  <2>. HIDE DEF is
  <2>. QED  BY <2>1, MarkTwice
<1>3. Makes(G, s, FALSE, segs, at, y) <=> \E r \in G[e] : y = m \o r
  <2>1. Marked(segs, at # e) = m
    <3>1. (at # e) = TRUE
      BY <1>1
    <3>. QED  BY <3>1
  <2>2. Makes(G, s, FALSE, segs, at, y) <=> \E r \in G[e] : y = Marked(segs, at # e) \o r
    BY DEF Makes
  <2>. HIDE DEF e, m
  <2>. QED  BY <2>1, <2>2
<1>4. Makes(G, s, FALSE, m, at + 1, y) <=> \E r \in G[e] : y = Marked(m, is) \o r
  BY <1>1 DEF Makes
<1>. HIDE DEF e, m, is
<1>5. Makes(G, s, FALSE, segs, at, y) <=> Makes(G, s, FALSE, m, at + 1, y)
  BY <1>2, <1>3, <1>4
<1>. QED  BY <1>5 DEF m

\* With no mark next.
LEMMA RestMakes ==
  ASSUME NEW s \in Seq(Nat), NEW G, NEW y, NEW segs, NEW at \in 0 .. Len(s), At(s, at) # Question
  PROVE  Makes(G, s, FALSE, segs, at, y) <=> Onwards(G, segs, at, y)
<1>1. PastMarks(s, at) = at
  BY PastMarksIs
<1>2. (at # at) = FALSE
  OBVIOUS
<1>3. Marked(segs, FALSE) = segs
  BY DEF Marked
<1>4. Makes(G, s, FALSE, segs, at, y) <=> \E r \in G[at] : y = Marked(segs, at # at) \o r
  BY <1>1 DEF Makes
<1>. QED  BY <1>2, <1>3, <1>4 DEF Onwards

LEMMA DotMakes ==
  ASSUME NEW s, NEW G, NEW y, NEW segs, NEW at
  PROVE  Makes(G, s, TRUE, segs, at, y) <=> Onwards(G, segs, at - 1, y)
  BY DEF Makes, Onwards

\* A turn fails on what is not read, or goes on to a state that reads the same.
TurnGoesOn(G, s, dotted, segs, at, y, r) ==
  \E d, more, to :
    /\ r = Read(So(d, more), to) /\ IsState(s, d, more, to)
    /\ at < to \/ (at = Len(s) /\ to = at)
    /\ Makes(G, s, dotted, segs, at, y) <=> Makes(G, s, d, more, to, y)
Turns(G, s, dotted, segs, at, y, r) ==
  \/ ~IsOk(r) /\ ~Makes(G, s, dotted, segs, at, y)
  \/ TurnGoesOn(G, s, dotted, segs, at, y, r)

LEMMA TurnIs ==
  ASSUME NEW s, NEW at, NEW dotted, NEW segs
  PROVE  Turn(s, at, dotted, segs) =
           CASE At(s, at) = End -> Read(So(dotted, segs), at)
             [] At(s, at) = Dot -> IF dotted THEN Fail("DoubleDot") ELSE Read(So(TRUE, segs), at + 1)
             [] At(s, at) = OpenBracket ->
                  Then(BracketAt(s, at + 1), LAMBDA segment, to : Read(So(FALSE, Append(segs, segment)), to))
             [] At(s, at) = Question ->
                  IF dotted \/ segs = << >> THEN Fail("DanglingOptional")
                  ELSE Read(So(dotted, Marked(segs, TRUE)), at + 1)
             [] At(s, at) \in IdentStart ->
                  IF ~dotted THEN UnexpectedAt(at)
                  ELSE Read(So(FALSE, Append(segs, KeySegment(Between(s, at, PastAll(s, at, Ident))))),
                            PastAll(s, at, Ident))
             [] OTHER -> UnexpectedAt(at)
  BY Zenon DEF Turn, So, Marked, Between

\* A segment that is read from p, where the turn is at its first character.
LEMMA SegmentTurns ==
  ASSUME NEW s \in Seq(Nat), NEW G, ArePieces(G, s), NEW y, NEW dotted \in BOOLEAN, NEW segs,
         NEW at \in 1 .. Len(s), IsState(s, dotted, segs, at), NEW p \in 0 .. Len(s), p # Len(s), p \in {at - 1, at},
         Makes(G, s, dotted, segs, at, y) <=> Onwards(G, segs, p, y),
         AfterDot(s, p) = at, NEW x, NEW e, BodyAt(s, p, x, e),
         NEW r, r = Read(So(FALSE, Append(segs, x)), e)
  PROVE  TurnGoesOn(G, s, dotted, segs, at, y, r)
<1>0. Len(s) \in Nat /\ p \in Nat
  OBVIOUS
<1>1. PICK T : segs \in Seq(T)
  BY DEF IsState
<1>2. Onwards(G, segs, p, y) <=> Makes(G, s, FALSE, Append(segs, x), e, y)
  BY <1>1, AppendMakes
<1>3. e \in p + 1 .. Len(s)
  BY BodyLies
<1>4. at < e
  <2>1. CASE At(s, at) = OpenBracket /\ BracketAt(s, at + 1) = Read(x, e)
    <3>1. at < Len(s) /\ at + 1 \in 0 .. Len(s)
      BY <1>0, <2>1, AtIs, MarkFacts DEF IsAt, MarksDiffer
    <3>2. IsOk(BracketAt(s, at + 1))
      BY <2>1, ReadGives
    <3>3. IsClosed(s, at + 1, BracketAt(s, at + 1))
      BY <3>1, <3>2, BracketLies
    <3>4. PICK z \in at + 1 .. Len(s) : \E x1 : BracketAt(s, at + 1) = Read(x1, z + 1)
      BY <3>3, Zenon DEF IsClosed
    <3>5. PICK x1 : BracketAt(s, at + 1) = Read(x1, z + 1)
      BY <3>4
    <3>6. Read(x, e) = Read(x1, z + 1)
      BY <2>1, <3>5
    <3>7. e = z + 1
      BY <3>6, ReadSame
    <3>. QED  BY <1>0, <3>7
  <2>2. CASE At(s, at) \in IdentStart /\ e = PastAll(s, at, Ident)
    <3>1. Stops(s, at, Ident, e)
      <4>1. at \in 0 .. Len(s)
        OBVIOUS
      <4>. QED  BY <2>2, <4>1, DigitsFit, PastAllShows
    <3>2. e # at
      BY <2>2, <3>1 DEF Stops, Ident
    <3>. QED  BY <3>1, <3>2 DEF Stops
  <2>. QED  BY <2>1, <2>2 DEF BodyAt
<1>5. IsState(s, FALSE, Append(segs, x), e)
  <2>1. \E V : Append(segs, x) \in Seq(V)
    <3>1. segs \in Seq(T \cup {x}) /\ x \in T \cup {x}
      BY <1>1
    <3>2. Append(segs, x) \in Seq(T \cup {x})
      BY <3>1
    <3>. QED  BY <3>2
  <2>2. Append(segs, x) # << >>
    BY <1>1
  <2>3. e \in 1 .. Len(s)
    BY <1>0, <1>3
  <2>. QED  BY <2>1, <2>2, <2>3 DEF IsState
<1>. QED  BY <1>2, <1>4, <1>5, Zenon DEF TurnGoesOn

\* From p, with or without its dot, a turn reads a segment or fails.
LEMMA SegmentNext ==
  ASSUME NEW s \in Seq(Nat), NEW G, ArePieces(G, s), NEW y, NEW dotted \in BOOLEAN, NEW segs,
         NEW at \in 1 .. Len(s), IsState(s, dotted, segs, at), NEW p \in 0 .. Len(s), p # Len(s),
         p = (IF dotted THEN at - 1 ELSE at),
         Makes(G, s, dotted, segs, at, y) <=> Onwards(G, segs, p, y),
         AfterDot(s, p) = at, At(s, at) # End, At(s, at) = Dot => dotted,
         At(s, at) = Question => dotted
  PROVE  Turns(G, s, dotted, segs, at, y, Turn(s, at, dotted, segs))
<1>. DEFINE c == At(s, at)  r == Turn(s, at, dotted, segs)  b == BracketAt(s, at + 1)
            past == PastAll(s, at, Ident)
<1>0. Len(s) \in Nat /\ p \in {at - 1, at}
  OBVIOUS
<1>1. /\ Dot # End /\ OpenBracket # End /\ Question # End
      /\ Dot # OpenBracket /\ Dot # Question /\ OpenBracket # Question
      /\ Dot \notin IdentStart /\ OpenBracket \notin IdentStart /\ Question \notin IdentStart
  BY MarkFacts DEF MarksDiffer
<1>2. p # at <=> dotted
  BY <1>0
<1>3. \A x, e : BodyAt(s, p, x, e) <=>
        \/ c = OpenBracket /\ b = Read(x, e)
        \/ dotted /\ c \in IdentStart /\ e = past /\ x = KeySegment(Between(s, at, past))
  BY <1>2 DEF BodyAt
<1>4. \A y1 : (\A x, e : ~BodyAt(s, p, x, e)) => ~Onwards(G, segs, p, y1)
  BY NoBody
<1>5. \A x, e : BodyAt(s, p, x, e) /\ r = Read(So(FALSE, Append(segs, x)), e) => TurnGoesOn(G, s, dotted, segs, at, y, r)
  BY <1>0, SegmentTurns
<1>6. r = CASE c = End -> Read(So(dotted, segs), at)
            [] c = Dot -> IF dotted THEN Fail("DoubleDot") ELSE Read(So(TRUE, segs), at + 1)
            [] c = OpenBracket ->
                 Then(b, LAMBDA segment, to : Read(So(FALSE, Append(segs, segment)), to))
            [] c = Question ->
                 IF dotted \/ segs = << >> THEN Fail("DanglingOptional")
                 ELSE Read(So(dotted, Marked(segs, TRUE)), at + 1)
            [] c \in IdentStart ->
                 IF ~dotted THEN UnexpectedAt(at)
                 ELSE Read(So(FALSE, Append(segs, KeySegment(Between(s, at, past)))), past)
            [] OTHER -> UnexpectedAt(at)
  BY TurnIs
<1>7. ~IsOk(Fail("DoubleDot")) /\ ~IsOk(Fail("DanglingOptional")) /\ ~IsOk(UnexpectedAt(at))
  BY DEF Fail, IsOk, UnexpectedAt
<1>8. ASSUME c = OpenBracket, IsOk(b) PROVE b = Read(b.value, b.pos)
  <2>1. at + 1 \in 0 .. Len(s)
    BY <1>0, <1>1, <1>8, AtIs DEF IsAt
  <2>2. IsClosed(s, at + 1, b)
    BY <1>8, <2>1, BracketLies
  <2>. HIDE DEF b
  <2>. QED  BY <2>2, ReadGives DEF IsClosed
<1>. DEFINE fits == Makes(G, s, dotted, segs, at, y)
<1>9. ASSUME ~IsOk(r), \A x, e : ~BodyAt(s, p, x, e) PROVE Turns(G, s, dotted, segs, at, y, r)
  <2>1. ~fits
    BY <1>4, <1>9
  <2>. HIDE DEF r, fits
  <2>. QED  BY <1>9, <2>1, Zenon DEF Turns, fits
<1>10. ASSUME NEW x, NEW e, BodyAt(s, p, x, e), r = Read(So(FALSE, Append(segs, x)), e)
       PROVE  Turns(G, s, dotted, segs, at, y, r)
  <2>1. TurnGoesOn(G, s, dotted, segs, at, y, r)
    BY <1>5, <1>10
  <2>. HIDE DEF r
  <2>. QED  BY <2>1, Zenon DEF Turns
<1>. HIDE DEF c, r, b, past, fits
<1>11. CASE c = OpenBracket
  <2>1. r = Then(b, LAMBDA segment, to : Read(So(FALSE, Append(segs, segment)), to))
    BY <1>1, <1>6, <1>11
  <2>2. CASE IsOk(b)
    <3>. DEFINE x == b.value  e == b.pos
    <3>1. b = Read(x, e) /\ r = Read(So(FALSE, Append(segs, x)), e)
      BY <1>8, <1>11, <2>1, <2>2 DEF Then
    <3>. HIDE DEF x, e
    <3>2. BodyAt(s, p, x, e)
      BY <1>3, <1>11, <3>1
    <3>. QED  BY <1>10, <3>1, <3>2 DEF r
  <2>3. CASE ~IsOk(b)
    <3>1. r = b
      BY <2>1, <2>3 DEF Then
    <3>2. \A x, e : b # Read(x, e)
      BY <2>3, ReadGives
    <3>. QED  BY <1>1, <1>3, <1>9, <1>11, <2>3, <3>1, <3>2 DEF r
  <2>. QED  BY <2>2, <2>3 DEF r
<1>12. CASE c \in IdentStart
  <2>1. r = IF ~dotted THEN UnexpectedAt(at)
            ELSE Read(So(FALSE, Append(segs, KeySegment(Between(s, at, past)))), past)
    <3>1. c # End
      BY DEF c
    <3>. QED  BY <1>1, <1>6, <1>12, <3>1
  <2>2. CASE dotted
    <3>. DEFINE x == KeySegment(Between(s, at, past))
    <3>1. r = Read(So(FALSE, Append(segs, x)), past) /\ BodyAt(s, p, x, past)
      BY <1>3, <1>12, <2>1, <2>2
    <3>. HIDE DEF x
    <3>. QED  BY <1>10, <3>1 DEF r
  <2>3. CASE ~dotted
    <3>1. r = UnexpectedAt(at)
      BY <2>1, <2>3
    <3>2. \A x, e : ~BodyAt(s, p, x, e)
      BY <1>1, <1>3, <1>12, <2>3
    <3>. QED  BY <1>7, <1>9, <3>1, <3>2 DEF r
  <2>. QED  BY <2>2, <2>3
<1>13. CASE c # OpenBracket /\ c \notin IdentStart
  <2>1. \A x, e : ~BodyAt(s, p, x, e)
    BY <1>3, <1>13
  <2>2. c # End /\ (c = Dot => dotted) /\ (c = Question => dotted)
    BY DEF c
  <2>3. ~IsOk(r)
    BY <1>6, <1>7, <1>13, <2>2
  <2>. QED  BY <1>9, <2>1, <2>3 DEF r
<1>. QED  BY <1>11, <1>12, <1>13

\* ... and where no segment is read.
TurnsOver(c, r, at, dotted, segs) ==
  /\ c = End => r = Read(So(dotted, segs), at)
  /\ c = Dot => r = IF dotted THEN Fail("DoubleDot") ELSE Read(So(TRUE, segs), at + 1)
  /\ c = Question => r = IF dotted \/ segs = << >> THEN Fail("DanglingOptional")
                         ELSE Read(So(dotted, Marked(segs, TRUE)), at + 1)

LEMMA TurnOther ==
  ASSUME NEW s, NEW at, NEW dotted \in BOOLEAN, NEW segs
  PROVE  TurnsOver(At(s, at), Turn(s, at, dotted, segs), at, dotted, segs)
<1>. DEFINE c == At(s, at)  r == Turn(s, at, dotted, segs)
            read == Then(BracketAt(s, at + 1), LAMBDA segment, to : Read(So(FALSE, Append(segs, segment)), to))
            past == PastAll(s, at, Ident)
            named == Read(So(FALSE, Append(segs, KeySegment(Between(s, at, past)))), past)
            out == Read(So(dotted, segs), at)
            dot == Read(So(TRUE, segs), at + 1)
            mark == Read(So(dotted, Marked(segs, TRUE)), at + 1)
            none == Fail("DoubleDot")  loose == Fail("DanglingOptional")
<1>1. /\ Dot # End /\ Question # End /\ OpenBracket # End /\ Dot # Question
      /\ Dot # OpenBracket /\ Question # OpenBracket
      /\ Dot \notin IdentStart /\ Question \notin IdentStart /\ End \notin IdentStart
  <2>1. End \notin IdentStart
    <3>1. End \notin Nat
      BY DEF End
    <3>. QED  BY <3>1, SelectorTextAssumption DEF Ident
  <2>. QED  BY <2>1, MarkFacts DEF MarksDiffer
<1>2. r = CASE c = End -> out
            [] c = Dot -> IF dotted THEN none ELSE dot
            [] c = OpenBracket -> read
            [] c = Question -> IF dotted \/ segs = << >> THEN loose ELSE mark
            [] c \in IdentStart -> IF ~dotted THEN UnexpectedAt(at) ELSE named
            [] OTHER -> UnexpectedAt(at)
  BY TurnIs, Zenon
<1>. HIDE DEF c, r, read, named, out, dot, mark, none, loose
<1>3. c = End => r = out
  BY <1>1, <1>2
<1>4. c = Dot => r = IF dotted THEN none ELSE dot
  BY <1>1, <1>2
<1>5. c = Question => r = IF dotted \/ segs = << >> THEN loose ELSE mark
  BY <1>1, <1>2
<1>. QED  BY <1>3, <1>4, <1>5, Zenon DEF TurnsOver, c, r, out, dot, mark, none, loose

LEMMA TurnRule ==
  ASSUME NEW s \in Seq(Nat), NEW G, ArePieces(G, s), NEW y, NEW dotted, NEW segs, NEW at,
         IsState(s, dotted, segs, at)
  PROVE  Turns(G, s, dotted, segs, at, y, Turn(s, at, dotted, segs))
<1>. DEFINE c == At(s, at)  r == Turn(s, at, dotted, segs)  n == Len(s)
<1>0. /\ n \in Nat /\ at \in 1 .. n /\ at \in 0 .. n /\ at \in Nat /\ dotted \in BOOLEAN
      /\ (at < n => at + 1 \in 1 .. n)
  BY DEF IsState
<1>1. /\ Dot # End /\ Question # End /\ Dot # Question /\ Dot # OpenBracket /\ Question # OpenBracket
  BY MarkFacts DEF MarksDiffer
<1>2. c # End <=> at # n
  BY <1>0, AtIs DEF IsAt
<1>3. TurnsOver(c, r, at, dotted, segs)
  BY <1>0, TurnOther
<1>4. CASE c = End
  <2>1. r = Read(So(dotted, segs), at)
    BY <1>4, <1>3, Zenon DEF TurnsOver
  <2>2. TurnGoesOn(G, s, dotted, segs, at, y, r)
    BY <1>2, <1>4, <2>1, Zenon DEF TurnGoesOn
  <2>. QED  BY <2>2, Zenon DEF Turns
<1>5. CASE c # End /\ dotted
  <2>. DEFINE p == at - 1
  <2>1. p \in 0 .. n /\ p # n /\ p + 1 = at /\ At(s, p) = Dot
    BY <1>0, <1>5 DEF IsState
  <2>2. AfterDot(s, p) = at
    BY <2>1 DEF AfterDot
  <2>3. Makes(G, s, dotted, segs, at, y) <=> Onwards(G, segs, p, y)
    <3>1. dotted = TRUE
      BY <1>0, <1>5
    <3>. QED  BY <3>1, DotMakes
  <2>4. p = IF dotted THEN at - 1 ELSE at
    BY <1>5
  <2>. HIDE DEF p
  <2>. QED  BY <1>0, <1>5, <2>1, <2>2, <2>3, <2>4, SegmentNext
<1>6. CASE c # End /\ ~dotted /\ c # Dot /\ c # Question
  <2>1. at # n /\ AfterDot(s, at) = at
    BY <1>2, <1>6 DEF AfterDot
  <2>2. dotted = FALSE
    BY <1>0, <1>6
  <2>3. Makes(G, s, dotted, segs, at, y) <=> Onwards(G, segs, at, y)
    BY <1>0, <1>6, <2>2, RestMakes
  <2>4. at = IF dotted THEN at - 1 ELSE at
    BY <1>6
  <2>. QED  BY <1>0, <1>6, <2>1, <2>3, <2>4, SegmentNext
<1>7. CASE c = Dot /\ ~dotted
  <2>1. r = Read(So(TRUE, segs), at + 1)
    BY <1>7, <1>3, Zenon DEF TurnsOver
  <2>2. at < n /\ at + 1 \in 1 .. n /\ (at + 1) - 1 = at
    BY <1>0, <1>1, <1>2, <1>7
  <2>3. IsState(s, TRUE, segs, at + 1)
    BY <1>7, <2>2 DEF IsState
  <2>4. dotted = FALSE
    BY <1>0, <1>7
  <2>5. Makes(G, s, dotted, segs, at, y) <=> Makes(G, s, TRUE, segs, at + 1, y)
    <3>1. Makes(G, s, dotted, segs, at, y) <=> Onwards(G, segs, at, y)
      BY <1>0, <1>1, <1>7, <2>4, RestMakes
    <3>2. Makes(G, s, TRUE, segs, at + 1, y) <=> Onwards(G, segs, (at + 1) - 1, y)
      BY DotMakes
    <3>. QED  BY <2>2, <3>1, <3>2
  <2>6. at < at + 1
    BY <1>0
  <2>7. TurnGoesOn(G, s, dotted, segs, at, y, r)
    BY <2>1, <2>3, <2>5, <2>6, Zenon DEF TurnGoesOn
  <2>. QED  BY <2>7, Zenon DEF Turns
<1>8. CASE c = Question /\ ~dotted
  <2>. DEFINE m == Marked(segs, TRUE)
  <2>0. segs # << >> /\ dotted = FALSE
    BY <1>0, <1>8 DEF IsState
  <2>1. r = Read(So(FALSE, m), at + 1)
    BY <1>8, <1>3, <2>0, Zenon DEF TurnsOver
  <2>2. at < n /\ at + 1 \in 1 .. n
    BY <1>0, <1>1, <1>2, <1>8
  <2>3. PICK T : segs \in Seq(T)
    BY DEF IsState
  <2>4. (\E V : m \in Seq(V)) /\ m # << >>
    BY <2>0, <2>3, MarkTwice
  <2>5. Makes(G, s, FALSE, segs, at, y) <=> Makes(G, s, FALSE, m, at + 1, y)
    BY <1>0, <1>8, <2>0, <2>3, MarkMakes
  <2>. HIDE DEF m
  <2>6. IsState(s, FALSE, m, at + 1)
    BY <2>2, <2>4 DEF IsState
  <2>7. at < at + 1
    BY <1>0
  <2>8. TurnGoesOn(G, s, dotted, segs, at, y, r)
    BY <2>0, <2>1, <2>5, <2>6, <2>7 DEF TurnGoesOn
  <2>. QED  BY <2>8, Zenon DEF Turns
<1>. QED  BY <1>4, <1>5, <1>6, <1>7, <1>8

----------------------------------------------------------------------------
(* The loop.                                                               *)

RunStep(s, pos, f, k) ==
  IF k = 0 THEN Read(So(TRUE, << >>), pos)
  ELSE Then(f[k - 1], LAMBDA so, at : Turn(s, at, so.dotted, so.segments))

\* The first m turns.
IsRunUpTo(f, s, pos, m) ==
  f = [k \in 0 .. m |-> f[k]] /\ \A k \in 0 .. m : f[k] = RunStep(s, pos, f, k)

LEMMA RunsExist ==
  ASSUME NEW s \in Seq(Nat), NEW pos
  PROVE  \E f : IsRunUpTo(f, s, pos, Len(s))
<1>. DEFINE n == Len(s)  S == {m \in 0 .. n : \E f : IsRunUpTo(f, s, pos, m)}
<1>0. n \in Nat
  OBVIOUS
<1>1. 0 \in S
  <2>. DEFINE f == [k \in 0 .. 0 |-> Read(So(TRUE, << >>), pos)]
  <2>1. f[0] = Read(So(TRUE, << >>), pos) /\ f = [k \in 0 .. 0 |-> f[k]]
    OBVIOUS
  <2>. HIDE DEF f
  <2>2. \A k \in 0 .. 0 : k = 0
    OBVIOUS
  <2>3. IsRunUpTo(f, s, pos, 0)
    BY <2>1, <2>2, Zenon DEF IsRunUpTo, RunStep
  <2>4. 0 \in 0 .. n
    BY <1>0
  <2>. QED  BY <2>3, <2>4
<1>2. ASSUME NEW m \in 0 .. n - 1, m \in S PROVE m + 1 \in S
  <2>1. PICK f : IsRunUpTo(f, s, pos, m)
    BY <1>2
  <2>. DEFINE hi == m + 1
  <2>2. hi \in 0 .. n /\ hi # 0 /\ hi - 1 = m /\ m \in 0 .. m /\ hi \in 0 .. hi
    BY <1>0
  <2>3. \A k \in 0 .. hi : k = hi \/ k \in 0 .. m
    BY <1>0
  <2>4. \A k \in 0 .. m : k \in 0 .. hi /\ k # hi /\ (k # 0 => k - 1 \in 0 .. m)
    BY <1>0
  <2>. HIDE DEF hi
  <2>. DEFINE g == [k \in 0 .. hi |-> IF k = hi THEN RunStep(s, pos, f, hi) ELSE f[k]]
  <2>5. g = [k \in 0 .. hi |-> g[k]] /\ g[hi] = RunStep(s, pos, f, hi)
    BY <2>2
  <2>6. \A k \in 0 .. m : g[k] = f[k]
    BY <2>4
  <2>. HIDE DEF g
  <2>7. ASSUME NEW k \in 0 .. hi PROVE g[k] = RunStep(s, pos, g, k)
    <3>1. CASE k = hi
      <4>1. RunStep(s, pos, f, hi) = RunStep(s, pos, g, hi)
        <5>1. g[hi - 1] = f[hi - 1]
          BY <2>2, <2>6
        <5>. QED  BY <5>1, Zenon DEF RunStep
      <4>. QED  BY <2>5, <3>1, <4>1
    <3>2. CASE k # hi
      <4>1. k \in 0 .. m
        BY <2>3, <3>2
      <4>2. f[k] = RunStep(s, pos, f, k)
        BY <2>1, <4>1 DEF IsRunUpTo
      <4>3. RunStep(s, pos, f, k) = RunStep(s, pos, g, k)
        <5>1. k # 0 => g[k - 1] = f[k - 1]
          BY <2>4, <2>6, <4>1
        <5>. QED  BY <5>1, Zenon DEF RunStep
      <4>. QED  BY <2>6, <4>1, <4>2, <4>3
    <3>. QED  BY <3>1, <3>2
  <2>8. IsRunUpTo(g, s, pos, hi)
    BY <2>5, <2>7 DEF IsRunUpTo
  <2>. QED  BY <2>2, <2>8 DEF hi
<1>. HIDE DEF S, n
<1>3. n \in S
  <2>1. 0 .. n \subseteq S
    BY <1>0, <1>1, <1>2, InductionUpTo
  <2>. QED  BY <1>0, <2>1
<1>. QED  BY <1>3 DEF S, n

IsRun(f, s, pos) ==
  f = [k \in 0 .. Len(s) |->
         IF k = 0 THEN Read([dotted |-> TRUE, segments |-> << >>], pos)
         ELSE Then(f[k - 1], LAMBDA so, at : Turn(s, at, so.dotted, so.segments))]

\* What the parser returns after the last turn.
Ending(r) ==
  Then(r, LAMBDA so, at :
    IF so.dotted /\ so.segments # << >> THEN Fail("TrailingDot") ELSE Read(so.segments, at))

LEMMA RunIs ==
  ASSUME NEW s \in Seq(Nat), NEW pos
  PROVE  \E f : /\ SegmentsFrom(s, pos) = Ending(f[Len(s)])
                /\ \A k \in 0 .. Len(s) : f[k] = RunStep(s, pos, f, k)
<1>. DEFINE f == CHOOSE f : IsRun(f, s, pos)
<1>1. SegmentsFrom(s, pos) = Ending(f[Len(s)])
  BY Zenon DEF SegmentsFrom, IsRun, Ending
<1>2. \E g : IsRun(g, s, pos)
  <2>1. PICK g : IsRunUpTo(g, s, pos, Len(s))
    BY RunsExist
  <2>2. [k \in 0 .. Len(s) |-> g[k]] = [k \in 0 .. Len(s) |-> RunStep(s, pos, g, k)]
    BY <2>1, Zenon DEF IsRunUpTo
  <2>3. g = [k \in 0 .. Len(s) |-> RunStep(s, pos, g, k)]
    BY <2>1, <2>2, Zenon DEF IsRunUpTo
  <2>4. IsRun(g, s, pos)
    BY <2>3, Zenon DEF IsRun, RunStep, So
  <2>. QED  BY <2>4
<1>3. IsRun(f, s, pos)
  BY <1>2, Zenon
<1>. HIDE DEF f
<1>4. ASSUME NEW k \in 0 .. Len(s) PROVE f[k] = RunStep(s, pos, f, k)
  <2>. DEFINE g == [i \in 0 .. Len(s) |-> RunStep(s, pos, f, i)]
  <2>1. g[k] = RunStep(s, pos, f, k)
    BY Zenon
  <2>2. f = g
    BY <1>3, Zenon DEF IsRun, RunStep, So
  <2>. QED  BY <2>1, <2>2, Zenon
<1>. QED  BY <1>1, <1>4

\* After k turns either y is not read or what is left makes y.
TurnedTo(G, s, k, y, r) ==
  \E d, segs, at :
    /\ r = Read(So(d, segs), at) /\ IsState(s, d, segs, at)
    /\ at > k \/ at = Len(s)
    /\ Makes(G, s, d, segs, at, y) <=> y \in G[0]
Turned(G, s, k, y, r) ==
  \/ ~IsOk(r) /\ y \notin G[0]
  \/ TurnedTo(G, s, k, y, r)

LEMMA TurnedStep ==
  ASSUME NEW s \in Seq(Nat), NEW G, ArePieces(G, s), NEW y, NEW k \in Nat, NEW r, Turned(G, s, k, y, r)
  PROVE  Turned(G, s, k + 1, y, Then(r, LAMBDA so, at : Turn(s, at, so.dotted, so.segments)))
<1>. DEFINE t == Then(r, LAMBDA so, at : Turn(s, at, so.dotted, so.segments))
<1>1. CASE ~IsOk(r) /\ y \notin G[0]
  <2>1. t = r
    BY <1>1 DEF Then
  <2>. HIDE DEF t
  <2>2. Turned(G, s, k + 1, y, t)
    BY <1>1, <2>1, Zenon DEF Turned
  <2>. QED  BY <2>2 DEF t
<1>2. CASE TurnedTo(G, s, k, y, r)
  <2>1. PICK d, segs, at :
          /\ r = Read(So(d, segs), at) /\ IsState(s, d, segs, at)
          /\ at > k \/ at = Len(s)
          /\ Makes(G, s, d, segs, at, y) <=> y \in G[0]
    BY <1>2, Zenon DEF TurnedTo
  <2>2. t = Turn(s, at, d, segs)
    <3>1. So(d, segs).dotted = d /\ So(d, segs).segments = segs
      BY DEF So
    <3>2. IsOk(r) /\ r.value = So(d, segs) /\ r.pos = at
      BY <2>1, ReadGives
    <3>. QED  BY <3>1, <3>2 DEF Then
  <2>. HIDE DEF t
  <2>3. Turns(G, s, d, segs, at, y, t)
    BY <2>1, <2>2, TurnRule
  <2>4. CASE ~IsOk(t) /\ ~Makes(G, s, d, segs, at, y)
    <3>1. Turned(G, s, k + 1, y, t)
      BY <2>1, <2>4, Zenon DEF Turned
    <3>. QED  BY <3>1 DEF t
  <2>5. CASE TurnGoesOn(G, s, d, segs, at, y, t)
    <3>1. PICK d1, more, to :
            /\ t = Read(So(d1, more), to) /\ IsState(s, d1, more, to)
            /\ at < to \/ (at = Len(s) /\ to = at)
            /\ Makes(G, s, d, segs, at, y) <=> Makes(G, s, d1, more, to, y)
      BY <2>5, Zenon DEF TurnGoesOn
    <3>2. at \in Nat /\ to \in Nat /\ Len(s) \in Nat /\ to <= Len(s)
      BY <2>1, <3>1 DEF IsState
    <3>3. to > k + 1 \/ to = Len(s)
      BY <2>1, <3>1, <3>2
    <3>4. Makes(G, s, d1, more, to, y) <=> y \in G[0]
      BY <2>1, <3>1, Zenon
    <3>5. TurnedTo(G, s, k + 1, y, t)
      BY <3>1, <3>3, <3>4, Zenon DEF TurnedTo
    <3>. QED  BY <3>5, Zenon DEF Turned, t
  <2>. QED  BY <2>3, <2>4, <2>5 DEF Turns
<1>. QED  BY <1>1, <1>2 DEF Turned

LEMMA RunTurns ==
  ASSUME NEW s \in Seq(Nat), s # << >>, s[1] = Dot, NEW G, ArePieces(G, s), NEW y,
         NEW f, \A k \in 0 .. Len(s) : f[k] = RunStep(s, 1, f, k)
  PROVE  Turned(G, s, Len(s), y, f[Len(s)])
<1>. DEFINE n == Len(s)  S == {k \in 0 .. n : Turned(G, s, k, y, f[k])}
<1>0. n \in Nat /\ n # 0
  OBVIOUS
<1>1. 0 \in S
  <2>1. f[0] = Read(So(TRUE, << >>), 1)
    <3>1. 0 \in 0 .. n
      BY <1>0
    <3>. QED  BY <3>1, Zenon DEF RunStep
  <2>2. At(s, 0) = Dot /\ 1 - 1 = 0
    BY <1>0 DEF At
  <2>3. IsState(s, TRUE, << >>, 1)
    <3>1. << >> \in Seq({})
      OBVIOUS
    <3>2. \E T : << >> \in Seq(T)
      BY <3>1
    <3>3. 1 \in 1 .. n
      BY <1>0
    <3>. QED  BY <2>2, <3>2, <3>3 DEF IsState
  <2>4. Makes(G, s, TRUE, << >>, 1, y) <=> y \in G[0]
    <3>1. Makes(G, s, TRUE, << >>, 1, y) <=> \E r \in G[0] : y = << >> \o r
      BY <2>2 DEF Makes
    <3>2. PICK V : \A q \in 0 .. n : G[q] \subseteq Seq(V)
      BY <1>0, PartsType DEF ArePieces
    <3>3. ASSUME NEW r \in G[0] PROVE << >> \o r = r
      <4>1. r \in Seq(V)
        BY <1>0, <3>2
      <4>. QED  BY <4>1
    <3>. QED  BY <3>1, <3>3
  <2>5. 1 > 0 /\ 0 \in 0 .. n
    BY <1>0
  <2>6. TurnedTo(G, s, 0, y, f[0])
    BY <2>1, <2>3, <2>4, <2>5, Zenon DEF TurnedTo
  <2>. QED  BY <2>5, <2>6 DEF Turned
<1>2. ASSUME NEW k \in 0 .. n - 1, k \in S PROVE k + 1 \in S
  <2>1. k + 1 \in 0 .. n /\ k + 1 # 0 /\ k + 1 - 1 = k /\ k \in Nat
    BY <1>0
  <2>2. f[k + 1] = Then(f[k], LAMBDA so, at : Turn(s, at, so.dotted, so.segments))
    <3>. DEFINE j == k + 1
    <3>1. f[j] = RunStep(s, 1, f, j)
      BY <2>1
    <3>2. j # 0 /\ j - 1 = k
      BY <2>1
    <3>. HIDE DEF j
    <3>3. f[j] = Then(f[k], LAMBDA so, at : Turn(s, at, so.dotted, so.segments))
      BY <3>1, <3>2, Zenon DEF RunStep
    <3>. QED  BY <3>3 DEF j
  <2>3. Turned(G, s, k + 1, y, f[k + 1])
    <3>. DEFINE r == f[k]
    <3>1. Turned(G, s, k, y, r)
      BY <1>2
    <3>. HIDE DEF r
    <3>2. Turned(G, s, k + 1, y, Then(r, LAMBDA so, at : Turn(s, at, so.dotted, so.segments)))
      BY <2>1, <3>1, TurnedStep
    <3>. QED  BY <2>2, <3>2, Zenon DEF r
  <2>. QED  BY <2>1, <2>3
<1>. HIDE DEF S, n
<1>3. n \in S
  <2>1. 0 .. n \subseteq S
    BY <1>0, <1>1, <1>2, InductionUpTo
  <2>. QED  BY <1>0, <2>1
<1>. QED  BY <1>3 DEF S, n

ReadsAs(r, y) == IsOk(r) /\ r.value = y

\* What the loop ends with is what the pieces of the text are read as.
LEMMA RunEnds ==
  ASSUME NEW s \in Seq(Nat), s # << Dot >>, s # << >>, NEW G, ArePieces(G, s), NEW y,
         NEW r, Turned(G, s, Len(s), y, r)
  PROVE  y \in G[0] <=> ReadsAs(Ending(r), y)
<1>. DEFINE n == Len(s)  t == Ending(r)
<1>0. n \in Nat /\ n # 0 /\ n \in 0 .. n /\ n - 1 \in 0 .. n /\ n - 1 # n /\ n - 1 + 1 = n
  OBVIOUS
<1>1. CASE ~IsOk(r) /\ y \notin G[0]
  <2>1. t = r
    BY <1>1 DEF Ending, Then
  <2>. HIDE DEF t
  <2>2. ~ReadsAs(t, y)
    BY <1>1, <2>1 DEF ReadsAs
  <2>. QED  BY <1>1, <2>2 DEF t
<1>2. CASE TurnedTo(G, s, n, y, r)
  <2>1. PICK d, segs, at :
          /\ r = Read(So(d, segs), at) /\ IsState(s, d, segs, at)
          /\ at > n \/ at = n
          /\ Makes(G, s, d, segs, at, y) <=> y \in G[0]
    BY <1>2, Zenon DEF TurnedTo
  <2>2. at = n
    <3>1. at \in 1 .. n
      BY <2>1 DEF IsState
    <3>. HIDE DEF n
    <3>. QED  BY <1>0, <2>1, <3>1
  <2>3. At(s, n) = End /\ End # Question /\ End # OpenBracket /\ End \notin IdentStart
    <3>1. End \notin IdentStart
      <4>1. End \notin Nat
        BY DEF End
      <4>. QED  BY <4>1, SelectorTextAssumption DEF Ident
    <3>2. At(s, n) = End
      <4>1. IsAt(s, n)
        <5>. DEFINE p == Len(s)
        <5>1. p \in Nat
          OBVIOUS
        <5>. HIDE DEF p
        <5>2. IsAt(s, p)
          BY <5>1, AtIs
        <5>. QED  BY <5>2 DEF p
      <4>2. n >= Len(s)
        <5>1. \A m \in Nat : m >= m
          OBVIOUS
        <5>. QED  BY <1>0, <5>1
      <4>. QED  BY <4>1, <4>2, Zenon DEF IsAt
    <3>. QED  BY <3>1, <3>2, MarkFacts DEF MarksDiffer
  <2>4. t = IF d /\ segs # << >> THEN Fail("TrailingDot") ELSE Read(segs, at)
    <3>1. So(d, segs).dotted = d /\ So(d, segs).segments = segs
      BY DEF So
    <3>2. IsOk(r) /\ r.value = So(d, segs) /\ r.pos = at
      BY <2>1, ReadGives
    <3>. QED  BY <3>1, <3>2 DEF Ending, Then
  <2>. HIDE DEF t
  <2>5. CASE d
    <3>1. d = TRUE /\ At(s, n - 1) = Dot
      BY <2>1, <2>2, <2>5 DEF IsState
    <3>2. segs # << >>
      <4>1. ASSUME segs = << >> PROVE s = << Dot >>
        <5>1. n = 1
          BY <2>1, <2>2, <2>5, <4>1 DEF IsState
        <5>2. s[1] = Dot
          BY <3>1, <5>1 DEF At
        <5>. QED  BY <5>1, <5>2
      <4>. QED  BY <4>1
    <3>3. ~ReadsAs(t, y)
      BY <2>4, <2>5, <3>2 DEF ReadsAs, Fail, IsOk
    <3>4. \A x, e : ~BodyAt(s, n - 1, x, e)
      <4>1. AfterDot(s, n - 1) = n
        BY <1>0, <3>1 DEF AfterDot
      <4>. QED  BY <2>3, <4>1 DEF BodyAt
    <3>5. ~Onwards(G, segs, n - 1, y)
      BY <1>0, <3>4, NoBody
    <3>6. ~Makes(G, s, d, segs, at, y)
      BY <2>2, <3>1, <3>5, DotMakes
    <3>. QED  BY <2>1, <3>3, <3>6 DEF t
  <2>6. CASE ~d
    <3>1. d = FALSE
      BY <2>1, <2>6 DEF IsState
    <3>2. t = Read(segs, at)
      BY <2>4, <2>6
    <3>3. Makes(G, s, d, segs, at, y) <=> Onwards(G, segs, n, y)
      BY <1>0, <2>2, <2>3, <3>1, RestMakes
    <3>4. \A rest : rest \in G[n] <=> rest = << >>
      BY <1>0 DEF ArePieces, PartsRead, PartsFrom
    <3>5. segs \o << >> = segs
      <4>1. PICK T : segs \in Seq(T)
        BY <2>1 DEF IsState
      <4>. QED  BY <4>1
    <3>6. Onwards(G, segs, n, y) <=> y = segs
      BY <3>4, <3>5 DEF Onwards
    <3>7. ReadsAs(t, y) <=> y = segs
      BY <3>2, ReadGives DEF ReadsAs
    <3>. QED  BY <2>1, <3>3, <3>6, <3>7 DEF t
  <2>. QED  BY <2>5, <2>6
<1>. QED  BY <1>1, <1>2 DEF Turned

\* The parser reads what the grammar does, and nothing else.
LEMMA ParserReads ==
  ASSUME NEW text \in Seq(Nat), NEW y
  PROVE  y \in SelectorReadings(text) <=> ReadsAs(ParseSelector(text), y)
<1>. DEFINE n == Len(text)  r == ParseSelector(text)
<1>0. n \in Nat
  OBVIOUS
<1>1. CASE text = << >>
  <2>1. << >> # << Dot >>
    OBVIOUS
  <2>2. SelectorReadings(text) = {}
    BY <1>1, <2>1, Zenon DEF SelectorReadings
  <2>3. r = Fail("Empty")
    BY <1>1, Zenon DEF ParseSelector
  <2>. HIDE DEF r
  <2>4. ~ReadsAs(r, y)
    BY <2>3 DEF ReadsAs, Fail, IsOk
  <2>. QED  BY <2>2, <2>4 DEF r
<1>2. CASE text # << >> /\ text[1] # Dot
  <2>1. text # << Dot >>
    BY <1>2
  <2>2. SelectorReadings(text) = {}
    BY <1>2, <2>1, Zenon DEF SelectorReadings
  <2>3. r = Fail("MissingLeadingDot")
    BY <1>2, Zenon DEF ParseSelector
  <2>. HIDE DEF r
  <2>4. ~ReadsAs(r, y)
    BY <2>3 DEF ReadsAs, Fail, IsOk
  <2>. QED  BY <2>2, <2>4 DEF r
<1>3. CASE text # << >> /\ text[1] = Dot
  <2>1. r = SegmentsFrom(text, 1)
    BY <1>3, Zenon DEF ParseSelector
  <2>2. PICK f : /\ SegmentsFrom(text, 1) = Ending(f[n])
                 /\ \A k \in 0 .. n : f[k] = RunStep(text, 1, f, k)
    BY RunIs
  <2>3. CASE text = << Dot >>
    <3>1. n = 1 /\ 0 \in 0 .. n /\ 1 \in 0 .. n /\ 1 - 1 = 0
      BY <2>3
    <3>. HIDE DEF n
    <3>2. f[0] = Read(So(TRUE, << >>), 1)
      BY <2>2, <3>1, Zenon DEF RunStep
    <3>3. f[1] = Then(f[0], LAMBDA so, at : Turn(text, at, so.dotted, so.segments))
      <4>1. f[1] = RunStep(text, 1, f, 1) /\ 1 # 0
        BY <2>2, <3>1
      <4>2. RunStep(text, 1, f, 1) = Then(f[1 - 1], LAMBDA so, at : Turn(text, at, so.dotted, so.segments))
        BY <4>1, Zenon DEF RunStep
      <4>. QED  BY <3>1, <4>1, <4>2
    <3>4. f[1] = Turn(text, 1, TRUE, << >>)
      <4>1. So(TRUE, << >>).dotted = TRUE /\ So(TRUE, << >>).segments = << >>
        BY DEF So
      <4>2. IsOk(f[0]) /\ f[0].value = So(TRUE, << >>) /\ f[0].pos = 1
        <5>. DEFINE so == So(TRUE, << >>)
        <5>. HIDE DEF so
        <5>1. f[0] = Read(so, 1)
          BY <3>2, Zenon DEF so
        <5>2. IsOk(Read(so, 1)) /\ Read(so, 1).value = so /\ Read(so, 1).pos = 1
          BY ReadGives
        <5>3. IsOk(f[0]) /\ f[0].value = so /\ f[0].pos = 1
          BY <5>1, <5>2, Zenon
        <5>. QED  BY <5>3, Zenon DEF so
      <4>. QED  BY <3>3, <4>1, <4>2, Zenon DEF Then
    <3>5. At(text, 1) = End
      BY <3>1 DEF At, n
    <3>6. TurnsOver(At(text, 1), Turn(text, 1, TRUE, << >>), 1, TRUE, << >>)
      BY TurnOther
    <3>7. f[1] = Read(So(TRUE, << >>), 1)
      BY <3>4, <3>5, <3>6 DEF TurnsOver
    <3>8. r = Read(<< >>, 1)
      BY <2>1, <2>2, <3>1, <3>7, ReadGives DEF Ending, Then, So
    <3>9. SelectorReadings(text) = {<< >>}
      BY <2>3 DEF SelectorReadings
    <3>. HIDE DEF r
    <3>10. ReadsAs(r, y) <=> y = << >>
      BY <3>8, ReadGives DEF ReadsAs
    <3>. QED  BY <3>9, <3>10 DEF r
  <2>4. CASE text # << Dot >>
    <3>1. SelectorReadings(text) = InParts(text, PieceReadings)
      BY <1>3, <2>4, Zenon DEF SelectorReadings
    <3>2. PICK G : PartsRead(G, n, PieceReads(text)) /\ InParts(text, PieceReadings) = G[0]
      BY PiecesFrom
    <3>3. ArePieces(G, text)
      BY <3>2 DEF ArePieces
    <3>4. Turned(G, text, n, y, f[n])
      BY <1>3, <2>2, <3>3, RunTurns
    <3>5. y \in G[0] <=> ReadsAs(Ending(f[n]), y)
      BY <1>3, <2>4, <3>3, <3>4, RunEnds
    <3>. HIDE DEF r
    <3>6. r = Ending(f[n])
      BY <2>1, <2>2 DEF r
    <3>. QED  BY <3>1, <3>2, <3>5, <3>6 DEF r
  <2>. QED  BY <2>3, <2>4
<1>. QED  BY <1>1, <1>2, <1>3

\* ... so that there is one reading at most.
LEMMA ParserIsGrammar ==
  ASSUME NEW text \in Seq(Nat)
  PROVE  SelectorReadings(text) = LET read == ParseSelector(text)
                                  IN  IF IsOk(read) THEN {read.value} ELSE {}
<1>. DEFINE r == ParseSelector(text)  known == IF IsOk(r) THEN {r.value} ELSE {}
<1>1. \A y : y \in SelectorReadings(text) <=> ReadsAs(r, y)
  BY ParserReads
<1>. HIDE DEF r
<1>2. \A y : y \in known <=> ReadsAs(r, y)
  BY DEF ReadsAs
<1>. HIDE DEF known
<1>3. SelectorReadings(text) = known
  BY <1>1, <1>2
<1>. QED  BY <1>3 DEF known, r
=============================================================================
