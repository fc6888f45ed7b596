----------------------------- MODULE CodecProofs -----------------------------
(***************************************************************************)
(* What the codec makes of whatever is on its way: commands and their      *)
(* segments; the fields of tokens, of which none is dropped; and the       *)
(* envelope, of which only what was signed verifies.                       *)
(***************************************************************************)
EXTENDS CborProofs, SelectorProofs

----------------------------------------------------------------------------
(* Commands, and the segments of them.                                     *)

Texts == Seq(Nat)

\* What has been split off before a character, and after it.
Splitting(c, k, before) ==
  IF c[k] = Slash THEN before
  ELSE IF k = 1 \/ c[k - 1] = Slash THEN Append(before, << c[k] >>)
  ELSE [before EXCEPT ![Len(before)] = Append(@, c[k])]

IsSplit(c, f) ==
  f = [k \in 0 .. Len(c) |-> IF k = 0 THEN << >> ELSE Splitting(c, k, f[k - 1])]

LEMMA SplittingType ==
  ASSUME NEW c \in Texts, NEW k \in 1 .. Len(c), NEW before \in Seq(Texts)
  PROVE  Splitting(c, k, before) \in Seq(Texts)
<1>1. c[k] \in Nat /\ << c[k] >> \in Texts
  BY DEF Texts
<1>2. Append(before, << c[k] >>) \in Seq(Texts)
  BY <1>1
<1>3. [before EXCEPT ![Len(before)] = Append(@, c[k])] \in Seq(Texts)
  <2>1. CASE Len(before) = 0
    <3>1. DOMAIN before = {}
      BY <2>1
    <3>. DEFINE e == Append(before[Len(before)], c[k])
    <3>. HIDE DEF e
    <3>. DEFINE g == [before EXCEPT ![Len(before)] = e]
    <3>2. DOMAIN g = {} /\ g = [i \in DOMAIN g |-> g[i]]
      BY <3>1
    <3>. HIDE DEF g
    <3>4. g = << >>
      BY <3>2
    <3>3. g \in Seq(Texts)
      BY <3>4
    <3>. USE DEF g
    <3>. QED  BY <3>3 DEF e
  <2>2. CASE Len(before) # 0
    <3>1. Append(before[Len(before)], c[k]) \in Texts
      BY <1>1, <2>2 DEF Texts
    <3>. QED  BY <2>2, <3>1
  <2>. QED  BY <2>1, <2>2
<1>. QED  BY <1>2, <1>3 DEF Splitting

LEMMA SplitExists ==
  ASSUME NEW c \in Texts
  PROVE  \E f : IsSplit(c, f) /\ \A k \in 0 .. Len(c) : f[k] \in Seq(Texts)
<1>. DEFINE T == Seq(Texts)
            step == [k \in 1 .. Len(c) |-> [before \in T |-> Splitting(c, k, before)]]
<1>1. Len(c) \in Nat /\ << >> \in T
  BY DEF Texts
<1>2. step \in [1 .. Len(c) -> [T -> T]]
  BY SplittingType
<1>3. PICK f : Iterates(f, Len(c), T, << >>, step)
  <2>. HIDE DEF step, T
  <2>1. \E f : Iterates(f, Len(c), T, << >>, step)
    BY <1>1, <1>2, Iteration
  <2>. QED  BY <2>1
<1>4. ASSUME NEW k \in 1 .. Len(c) PROVE f[k] = Splitting(c, k, f[k - 1])
  <2>. HIDE DEF T
  <2>1. f[k - 1] \in T /\ f[k] = step[k][f[k - 1]]
    BY <1>1, <1>3 DEF Iterates
  <2>2. step[k] = [before \in T |-> Splitting(c, k, before)]
    OBVIOUS
  <2>. QED  BY <2>1, <2>2
<1>5. f = [k \in 0 .. Len(c) |-> IF k = 0 THEN << >> ELSE Splitting(c, k, f[k - 1])]
  <2>. HIDE DEF T, step
  <2>1. f = [k \in 0 .. Len(c) |-> f[k]] /\ f[0] = << >>
    BY <1>3 DEF Iterates
  <2>2. \A k \in 0 .. Len(c) : f[k] = IF k = 0 THEN << >> ELSE Splitting(c, k, f[k - 1])
    BY <1>1, <1>4, <2>1
  <2>. QED  BY <2>1, <2>2
<1>6. \A k \in 0 .. Len(c) : f[k] \in T
  BY <1>3 DEF Iterates
<1>. QED  BY <1>5, <1>6 DEF IsSplit

\* What SegmentsOf splits a text into, character by character.
SplitOf(c) == CHOOSE f : IsSplit(c, f)

LEMMA SplitRule ==
  ASSUME NEW c \in Texts
  PROVE  /\ SegmentsOf(c) = SplitOf(c)[Len(c)]
         /\ SplitOf(c)[0] = << >>
         /\ \A k \in 1 .. Len(c) : SplitOf(c)[k] = Splitting(c, k, SplitOf(c)[k - 1])
<1>1. SegmentsOf(c) = SplitOf(c)[Len(c)]
  BY Zenon DEF SegmentsOf, SplitOf, IsSplit, Splitting
<1>2. IsSplit(c, SplitOf(c))
  <2>1. \E f : IsSplit(c, f)
    BY SplitExists
  <2>. QED  BY <2>1 DEF SplitOf
<1>. DEFINE f == SplitOf(c)
<1>. HIDE DEF f
<1>3. f = [k \in 0 .. Len(c) |-> IF k = 0 THEN << >> ELSE Splitting(c, k, f[k - 1])]
  BY <1>2 DEF IsSplit, f
<1>4. Len(c) \in Nat
  BY DEF Texts
<1>5. f[0] = << >> /\ \A k \in 1 .. Len(c) : f[k] = Splitting(c, k, f[k - 1])
  BY <1>3, <1>4
<1>. QED  BY <1>1, <1>5 DEF f

LEMMA SplitType ==
  ASSUME NEW c \in Texts, NEW k \in 0 .. Len(c)
  PROVE  SplitOf(c)[k] \in Seq(Texts)
<1>1. Len(c) \in Nat /\ << >> \in Seq(Texts)
  BY DEF Texts
<1>. DEFINE f == SplitOf(c)  T == Seq(Texts)
<1>2. f[0] \in T
  BY <1>1, SplitRule
<1>3. ASSUME NEW n \in 0 .. Len(c) - 1, f[n] \in T PROVE f[n + 1] \in T
  <2>1. n + 1 \in 1 .. Len(c) /\ n + 1 - 1 = n
    BY <1>1
  <2>2. f[n + 1] = Splitting(c, n + 1, f[n])
    BY <2>1, SplitRule
  <2>. QED  BY <1>3, <2>1, <2>2, SplittingType
<1>. HIDE DEF f, T
<1>4. \A j \in 0 .. Len(c) : f[j] \in T
  BY <1>1, <1>2, <1>3, IterationType
<1>. QED  BY <1>4 DEF f, T

\* What splitting does to a character.
Steps(c, k, a, b) ==
  /\ a \in Seq(Texts) /\ b \in Seq(Texts)
  /\ c[k] = Slash => b = a
  /\ c[k] # Slash /\ (k = 1 \/ c[k - 1] = Slash) => b = Append(a, << c[k] >>)
  /\ c[k] # Slash /\ k > 1 /\ c[k - 1] # Slash =>
       b = [a EXCEPT ![Len(a)] = Append(a[Len(a)], c[k])]

LEMMA SplitStep ==
  ASSUME NEW c \in Texts, NEW k \in 1 .. Len(c)
  PROVE  Steps(c, k, SplitOf(c)[k - 1], SplitOf(c)[k])
<1>. DEFINE a == SplitOf(c)[k - 1]  b == SplitOf(c)[k]
<1>1. Len(c) \in Nat /\ k \in 0 .. Len(c) /\ k - 1 \in 0 .. Len(c)
  BY DEF Texts
<1>2. a \in Seq(Texts) /\ b \in Seq(Texts)
  BY <1>1, SplitType
<1>3. b = Splitting(c, k, a)
  BY SplitRule
<1>. HIDE DEF a, b
<1>4. Steps(c, k, a, b)
  BY <1>1, <1>2, <1>3 DEF Splitting, Steps
<1>. QED  BY <1>4 DEF a, b

\* After a character that is no slash there is a segment, and it has that
\* character last.
LEMMA SegmentUnderWay ==
  ASSUME NEW c \in Texts, NEW k \in 1 .. Len(c), c[k] # Slash
  PROVE  LET b == SplitOf(c)[k] IN Len(b) > 0 /\ Len(b[Len(b)]) > 0
<1>. DEFINE f == SplitOf(c)
            S == {m \in 0 .. Len(c) : m > 0 /\ c[m] # Slash => Len(f[m]) > 0 /\ Len(f[m][Len(f[m])]) > 0}
<1>1. Len(c) \in Nat
  BY DEF Texts
<1>2. 0 \in S
  BY <1>1
<1>3. ASSUME NEW n \in 0 .. Len(c) - 1, n \in S PROVE n + 1 \in S
  <2>. DEFINE a == f[n]  b == f[n + 1]  m == n + 1
  <2>1. m \in 1 .. Len(c) /\ m - 1 = n /\ c[m] \in Nat
    BY <1>1 DEF Texts
  <2>2. /\ a \in Seq(Texts) /\ b \in Seq(Texts)
        /\ c[m] # Slash /\ (m = 1 \/ c[n] = Slash) => b = Append(a, << c[m] >>)
        /\ c[m] # Slash /\ m > 1 /\ c[n] # Slash =>
              b = [a EXCEPT ![Len(a)] = Append(a[Len(a)], c[m])]
    <3>1. Steps(c, m, f[m - 1], f[m])
      BY <2>1, SplitStep
    <3>. HIDE DEF f
    <3>. QED  BY <2>1, <3>1 DEF Steps
  <2>3. CASE c[m] = Slash
    BY <2>1, <2>3
  <2>4. CASE c[m] # Slash /\ (m = 1 \/ c[n] = Slash)
    <3>. HIDE DEF a, f
    <3>1. Len(b) = Len(a) + 1 /\ b[Len(b)] = << c[m] >> /\ Len(a) \in Nat
      BY <2>2, <2>4
    <3>2. Len(b) > 0 /\ Len(b[Len(b)]) > 0
      BY <3>1
    <3>. QED  BY <2>1, <3>2
  <2>5. CASE c[m] # Slash /\ m > 1 /\ c[n] # Slash
    <3>1. Len(a) > 0 /\ Len(a) \in Nat
      BY <1>3, <2>1, <2>2, <2>5
    <3>. HIDE DEF a, b, f
    <3>2. a[Len(a)] \in Seq(Nat)
      BY <2>2, <3>1 DEF Texts
    <3>3. Len(b) = Len(a) /\ b[Len(a)] = Append(a[Len(a)], c[m])
      BY <2>2, <2>5, <3>1
    <3>4. Len(b[Len(b)]) = Len(a[Len(a)]) + 1 /\ Len(a[Len(a)]) \in Nat
      BY <2>1, <3>2, <3>3
    <3>. QED  BY <2>1, <3>1, <3>3, <3>4 DEF b
  <2>. QED  BY <2>1, <2>3, <2>4, <2>5
<1>. HIDE DEF S
<1>4. 0 .. Len(c) \subseteq S
  BY <1>1, <1>2, <1>3, InductionUpTo
<1>5. k \in S
  BY <1>1, <1>4
<1>. QED  BY <1>1, <1>5 DEF S

\* b has the segments of a, the last of which may have become longer, or has
\* not.
Grown(a, b) ==
  /\ Len(a) <= Len(b)
  /\ \A i \in 1 .. Len(a) :
       /\ i < Len(a) => b[i] = a[i]
       /\ Len(a[i]) <= Len(b[i])
       /\ \A j \in 1 .. Len(a[i]) : b[i][j] = a[i][j]
Kept(a, b) == Len(a) <= Len(b) /\ \A i \in 1 .. Len(a) : b[i] = a[i]

IsLonger(a, b, x) ==
  /\ Len(b) = Len(a)
  /\ \A i \in 1 .. Len(a) : b[i] = IF i = Len(a) THEN Append(a[i], x) ELSE a[i]

LEMMA ExceptIsLonger ==
  ASSUME NEW a \in Seq(Texts), NEW b \in Seq(Texts), NEW x,
         b = [a EXCEPT ![Len(a)] = Append(a[Len(a)], x)]
  PROVE  IsLonger(a, b, x)
<1>1. DOMAIN b = DOMAIN a /\ \A i \in DOMAIN a : b[i] = IF i = Len(a) THEN Append(a[i], x) ELSE a[i]
  OBVIOUS
<1>2. /\ DOMAIN a = 1 .. Len(a) /\ Len(a) \in Nat
      /\ DOMAIN b = 1 .. Len(b) /\ Len(b) \in Nat
  OBVIOUS
<1>3. Len(b) = Len(a)
  <2>1. ~(Len(b) > Len(a))
    <3>1. Len(b) > Len(a) => Len(b) \in DOMAIN b /\ Len(b) \notin DOMAIN a
      BY <1>2
    <3>. QED  BY <1>1, <3>1
  <2>2. ~(Len(a) > Len(b))
    <3>1. Len(a) > Len(b) => Len(a) \in DOMAIN a /\ Len(a) \notin DOMAIN b
      BY <1>2
    <3>. QED  BY <1>1, <3>1
  <2>. QED  BY <1>2, <2>1, <2>2
<1>. QED  BY <1>1, <1>2, <1>3, Zenon DEF IsLonger

LEMMA Longer ==
  ASSUME NEW a \in Seq(Texts), NEW b \in Seq(Texts), NEW x \in Nat, IsLonger(a, b, x)
  PROVE  Grown(a, b)
<1>1. Len(a) \in Nat /\ Len(b) = Len(a)
  BY DEF IsLonger
<1>2. ASSUME NEW i \in 1 .. Len(a)
      PROVE  /\ i < Len(a) => b[i] = a[i]
             /\ Len(a[i]) <= Len(b[i])
             /\ \A j \in 1 .. Len(a[i]) : b[i][j] = a[i][j]
  <2>1. a[i] \in Seq(Nat)
    BY DEF Texts
  <2>2. CASE i = Len(a)
    <3>1. b[i] = Append(a[i], x)
      BY <2>2 DEF IsLonger
    <3>. QED  BY <1>1, <2>1, <2>2, <3>1
  <2>3. CASE i # Len(a)
    <3>1. b[i] = a[i]
      BY <2>3 DEF IsLonger
    <3>. QED  BY <2>1, <3>1
  <2>. QED  BY <2>2, <2>3
<1>. QED  BY <1>1, <1>2 DEF Grown

LEMMA GrowthAddsUp ==
  ASSUME NEW a \in Seq(Texts), NEW b \in Seq(Texts), NEW d \in Seq(Texts)
  PROVE  /\ Grown(a, a) /\ Kept(a, a)
         /\ Grown(a, b) /\ Grown(b, d) => Grown(a, d)
         /\ Kept(a, b) /\ Grown(b, d) /\ Len(b) > Len(a) => Kept(a, d)
         /\ Kept(a, b) /\ Kept(b, d) => Kept(a, d)
<1>1. /\ Len(a) \in Nat /\ Len(b) \in Nat /\ Len(d) \in Nat
      /\ \A i \in 1 .. Len(a) : Len(a[i]) \in Nat
      /\ \A i \in 1 .. Len(b) : Len(b[i]) \in Nat
      /\ \A i \in 1 .. Len(d) : Len(d[i]) \in Nat
  BY DEF Texts
<1>2. Grown(a, b) /\ Grown(b, d) => Grown(a, d)
  <2>. SUFFICES ASSUME Grown(a, b), Grown(b, d) PROVE Grown(a, d)
    OBVIOUS
  <2>1. ASSUME NEW i \in 1 .. Len(a)
        PROVE  /\ i < Len(a) => d[i] = a[i]
               /\ Len(a[i]) <= Len(d[i])
               /\ \A j \in 1 .. Len(a[i]) : d[i][j] = a[i][j]
    <3>1. i \in 1 .. Len(b) /\ i \in 1 .. Len(d)
      BY <1>1 DEF Grown
    <3>2. Len(a[i]) <= Len(b[i]) /\ Len(b[i]) <= Len(d[i])
      BY <3>1 DEF Grown
    <3>3. ASSUME NEW j \in 1 .. Len(a[i]) PROVE d[i][j] = a[i][j]
      <4>1. j \in 1 .. Len(b[i])
        BY <1>1, <3>1, <3>2
      <4>. QED  BY <3>1, <4>1 DEF Grown
    <3>4. ASSUME i < Len(a) PROVE d[i] = a[i]
      <4>1. i < Len(b)
        BY <1>1, <3>4 DEF Grown
      <4>. QED  BY <3>1, <3>4, <4>1 DEF Grown
    <3>. QED  BY <1>1, <3>1, <3>2, <3>3, <3>4
  <2>. QED  BY <1>1, <2>1 DEF Grown
<1>. QED  BY <1>1, <1>2 DEF Grown, Kept

\* Segments only grow as a text is split.
LEMMA SplittingGrows ==
  ASSUME NEW c \in Texts, NEW k \in 0 .. Len(c), NEW m \in k .. Len(c)
  PROVE  Grown(SplitOf(c)[k], SplitOf(c)[m])
<1>. DEFINE f == SplitOf(c)
            S == {n \in 0 .. Len(c) - k : Grown(f[k], f[k + n])}
<1>1. Len(c) \in Nat /\ k \in Nat /\ Len(c) - k \in Nat
  BY DEF Texts
<1>2. \A n \in 0 .. Len(c) : f[n] \in Seq(Texts)
  BY SplitType
<1>3. 0 \in S
  BY <1>1, <1>2, GrowthAddsUp
<1>4. ASSUME NEW n \in 0 .. (Len(c) - k) - 1, n \in S PROVE n + 1 \in S
  <2>. DEFINE p == k + n + 1  a == f[p - 1]  b == f[p]
  <2>1. p \in 1 .. Len(c) /\ c[p] \in Nat /\ p - 1 = k + n /\ k + (n + 1) = p /\ p - 1 \in 0 .. Len(c)
        /\ p \in 0 .. Len(c)
    BY <1>1 DEF Texts
  <2>. HIDE DEF p
  <2>2. /\ a \in Seq(Texts) /\ b \in Seq(Texts)
        /\ c[p] = Slash => b = a
        /\ c[p] # Slash /\ (p = 1 \/ c[p - 1] = Slash) => b = Append(a, << c[p] >>)
        /\ c[p] # Slash /\ p > 1 /\ c[p - 1] # Slash =>
              b = [a EXCEPT ![Len(a)] = Append(a[Len(a)], c[p])]
    <3>1. Steps(c, p, f[p - 1], f[p])
      BY <2>1, SplitStep
    <3>. HIDE DEF f
    <3>. QED  BY <2>1, <3>1 DEF Steps
  <2>3. Grown(a, b)
    <3>. HIDE DEF a, b, f
    <3>1. CASE b = a
      BY <2>2, <3>1, GrowthAddsUp
    <3>2. CASE b = Append(a, << c[p] >>)
      <4>1. Len(b) = Len(a) + 1 /\ Len(a) \in Nat /\ \A i \in 1 .. Len(a) : b[i] = a[i] /\ Len(a[i]) \in Nat
        BY <2>1, <2>2, <3>2 DEF Texts
      <4>. QED  BY <4>1 DEF Grown
    <3>3. CASE b = [a EXCEPT ![Len(a)] = Append(a[Len(a)], c[p])]
      BY <2>1, <2>2, <3>3, ExceptIsLonger, Longer
    <3>. QED  BY <2>1, <2>2, <3>1, <3>2, <3>3
  <2>4. Grown(f[k], a)
    BY <1>4, <2>1
  <2>5. Grown(f[k], b)
    <3>. HIDE DEF b, f
    <3>1. f[k] \in Seq(Texts)
      BY <1>1, <1>2
    <3>. QED  BY <2>2, <2>3, <2>4, <3>1, GrowthAddsUp
  <2>. QED  BY <1>1, <2>1, <2>5
<1>. HIDE DEF S
<1>5. 0 .. Len(c) - k \subseteq S
  BY <1>1, <1>3, <1>4, InductionUpTo
<1>6. m - k \in S /\ k + (m - k) = m
  BY <1>1, <1>5
<1>. QED  BY <1>6 DEF S

\* What a slash ends does not grow any more.
LEMMA EndedIsKept ==
  ASSUME NEW c \in Texts, NEW k \in 0 .. Len(c), NEW m \in k .. Len(c),
         k < m => c[k + 1] = Slash
  PROVE  Kept(SplitOf(c)[k], SplitOf(c)[m])
<1>. DEFINE f == SplitOf(c)
            S == {n \in 0 .. Len(c) - k :
                    n <= m - k =>
                      /\ Kept(f[k], f[k + n])
                      /\ n > 0 /\ c[k + n] # Slash => Len(f[k + n]) > Len(f[k])}
<1>1. Len(c) \in Nat /\ k \in Nat /\ m \in Nat /\ Len(c) - k \in Nat
  BY DEF Texts
<1>2. \A n \in 0 .. Len(c) : f[n] \in Seq(Texts)
  BY SplitType
<1>3. 0 \in S
  BY <1>1, <1>2, GrowthAddsUp
<1>4. ASSUME NEW n \in 0 .. (Len(c) - k) - 1, n \in S PROVE n + 1 \in S
  <2>. SUFFICES ASSUME n + 1 <= m - k
                PROVE  /\ Kept(f[k], f[k + (n + 1)])
                       /\ c[k + (n + 1)] # Slash => Len(f[k + (n + 1)]) > Len(f[k])
    BY <1>1
  <2>. DEFINE p == k + n + 1  a == f[p - 1]  b == f[p]
  <2>1. p \in 1 .. Len(c) /\ c[p] \in Nat /\ p - 1 = k + n /\ k + (n + 1) = p /\ p - 1 \in 0 .. Len(c)
        /\ p \in 0 .. Len(c) /\ p <= m /\ k < m
    BY <1>1 DEF Texts
  <2>6. (p = k + 1 => c[p] = Slash) /\ (p > k + 1 <=> n > 0) /\ p > k /\ Kept(f[k], a)
        /\ (n > 0 /\ c[p - 1] # Slash => Len(a) > Len(f[k]))
    BY <1>1, <1>4, <2>1
  <2>. HIDE DEF p
  <2>2. /\ a \in Seq(Texts) /\ b \in Seq(Texts)
        /\ c[p] = Slash => b = a
        /\ c[p] # Slash /\ (p = 1 \/ c[p - 1] = Slash) => b = Append(a, << c[p] >>)
        /\ c[p] # Slash /\ p > 1 /\ c[p - 1] # Slash =>
              b = [a EXCEPT ![Len(a)] = Append(a[Len(a)], c[p])]
    <3>1. Steps(c, p, f[p - 1], f[p])
      BY <2>1, SplitStep
    <3>. HIDE DEF f
    <3>. QED  BY <2>1, <3>1 DEF Steps
  <2>3. f[k] \in Seq(Texts)
    BY <1>1, <1>2
  <2>4. Kept(f[k], b) /\ (c[p] # Slash => Len(b) > Len(f[k]))
    <3>. HIDE DEF a, b, f
    <3>1. CASE c[p] = Slash
      BY <2>2, <2>6, <3>1
    <3>2. CASE c[p] # Slash /\ (p = 1 \/ c[p - 1] = Slash)
      <4>1. Len(b) = Len(a) + 1 /\ Len(a) \in Nat /\ \A i \in 1 .. Len(a) : b[i] = a[i]
        <5>1. a \in Seq(Texts) /\ b = Append(a, << c[p] >>)
          BY <2>2, <3>2
        <5>. QED  BY <5>1
      <4>2. Len(f[k]) \in Nat
        BY <2>3
      <4>3. Len(f[k]) <= Len(a) /\ \A i \in 1 .. Len(f[k]) : a[i] = f[k][i]
        BY <2>6 DEF Kept
      <4>4. \A i \in 1 .. Len(f[k]) : b[i] = f[k][i]
        BY <4>1, <4>2, <4>3
      <4>5. Len(b) > Len(f[k])
        BY <4>1, <4>2, <4>3
      <4>. QED  BY <4>2, <4>4, <4>5 DEF Kept
    <3>3. CASE c[p] # Slash /\ p > 1 /\ c[p - 1] # Slash
      <4>1. b = [a EXCEPT ![Len(a)] = Append(a[Len(a)], c[p])]
        BY <2>2, <3>3
      <4>2. Grown(a, b) /\ Len(b) = Len(a)
        <5>1. IsLonger(a, b, c[p])
          BY <2>2, <4>1, ExceptIsLonger
        <5>2. Grown(a, b)
          BY <2>1, <2>2, <5>1, Longer
        <5>. QED  BY <5>1, <5>2 DEF IsLonger
      <4>3. n > 0
        BY <1>1, <2>1, <2>6, <3>3
      <4>4. Len(a) > Len(f[k])
        BY <2>6, <3>3, <4>3
      <4>. QED  BY <2>2, <2>3, <2>6, <4>2, <4>4, GrowthAddsUp
    <3>. QED  BY <2>1, <3>1, <3>2, <3>3
  <2>. QED  BY <2>1, <2>4
<1>. HIDE DEF S
<1>5. 0 .. Len(c) - k \subseteq S
  BY <1>1, <1>3, <1>4, InductionUpTo
<1>6. m - k \in S /\ k + (m - k) = m
  BY <1>1, <1>5
<1>. QED  BY <1>6 DEF S
\* Texts that begin alike are split alike as far as they do.
LEMMA SplitAlike ==
  ASSUME NEW c \in Texts, NEW d \in Texts, NEW k \in 0 .. Len(c), k <= Len(d),
         \A j \in 1 .. k : c[j] = d[j]
  PROVE  SplitOf(c)[k] = SplitOf(d)[k]
<1>. DEFINE f == SplitOf(c)  g == SplitOf(d)
            S == {n \in 0 .. k : f[n] = g[n]}
<1>1. Len(c) \in Nat /\ Len(d) \in Nat /\ k \in Nat
  BY DEF Texts
<1>2. 0 \in S
  BY <1>1, SplitRule
<1>3. ASSUME NEW n \in 0 .. k - 1, n \in S PROVE n + 1 \in S
  <2>1. /\ n + 1 \in 1 .. Len(c) /\ n + 1 \in 1 .. Len(d) /\ n + 1 - 1 = n
        /\ c[n + 1] = d[n + 1] /\ (n + 1 # 1 => c[n] = d[n])
    BY <1>1
  <2>2. f[n + 1] = Splitting(c, n + 1, f[n]) /\ g[n + 1] = Splitting(d, n + 1, g[n])
    BY <2>1, SplitRule
  <2>3. f[n] = g[n]
    BY <1>3
  <2>4. Splitting(c, n + 1, f[n]) = Splitting(d, n + 1, g[n])
    <3>. HIDE DEF f, g
    <3>. QED  BY <2>1, <2>3 DEF Splitting
  <2>. QED  BY <1>1, <2>2, <2>4
<1>. HIDE DEF S
<1>4. k \in S
  <2>1. 0 .. k \subseteq S
    BY <1>1, <1>2, <1>3, InductionUpTo
  <2>. QED  BY <1>1, <2>1
<1>. QED  BY <1>4 DEF S

\* What CommandError lets pass.
IsCommand(c) ==
  /\ c \in Texts /\ Len(c) > 0 /\ c[1] = Slash
  /\ Len(c) > 1 => c[Len(c)] # Slash
  /\ \A k \in 1 .. Len(c) - 1 : ~(c[k] = Slash /\ c[k + 1] = Slash)

LEMMA CommandsAreSlashed ==
  ASSUME NEW c \in Texts, CommandError(c) = "Ok"
  PROVE  IsCommand(c)
<1>1. /\ c # << >> /\ c[1] = Slash /\ ~(Len(c) > 1 /\ c[Len(c)] = Slash)
      /\ ~(\E k \in 1 .. Len(c) - 1 : c[k] = Slash /\ c[k + 1] = Slash)
  BY DEF CommandError
<1>2. Len(c) > 0
  BY <1>1 DEF Texts
<1>. QED  BY <1>1, <1>2 DEF IsCommand

\* A command that covers another has its segments.
LEMMA CoveringHasSegments ==
  ASSUME NEW c, IsCommand(c), NEW d, IsCommand(d), CoversText(c, d)
  PROVE  IsPrefix(SegmentsOf(c), SegmentsOf(d))
<1>1. c \in Texts /\ d \in Texts /\ Len(c) \in Nat /\ Len(d) \in Nat
  BY DEF IsCommand, Texts
<1>2. SegmentsOf(c) \in Seq(Texts) /\ SegmentsOf(d) \in Seq(Texts)
  BY <1>1, SplitRule, SplitType
<1>. SUFFICES Kept(SegmentsOf(c), SegmentsOf(d))
  BY <1>2, PrefixIsPointwise DEF Kept
<1>3. CASE c = Root
  <2>1. Len(c) = 1 /\ c[1] = Slash
    BY <1>3 DEF Root
  <2>2. SegmentsOf(c) = SplitOf(c)[1] /\ 1 \in 1 .. Len(c)
    <3>1. SegmentsOf(c) = SplitOf(c)[Len(c)]
      BY <1>1, SplitRule
    <3>. QED  BY <2>1, <3>1
  <2>3. SegmentsOf(c) = << >>
    <3>1. SplitOf(c)[1] = Splitting(c, 1, SplitOf(c)[1 - 1]) /\ SplitOf(c)[0] = << >>
      BY <1>1, <2>2, SplitRule
    <3>. QED  BY <2>1, <2>2, <3>1 DEF Splitting
  <2>4. Len(SegmentsOf(d)) \in Nat
    BY <1>2
  <2>. QED  BY <2>3, <2>4 DEF Kept
<1>4. CASE IsPrefix(c, d) /\ (c = d \/ d[Len(c) + 1] = Slash)
  <2>1. Len(c) <= Len(d) /\ \A j \in 1 .. Len(c) : c[j] = d[j]
    BY <1>1, <1>4, PrefixIsPointwise DEF Texts
  <2>2. SplitOf(c)[Len(c)] = SplitOf(d)[Len(c)]
    BY <1>1, <2>1, SplitAlike
  <2>3. Len(c) < Len(d) => d[Len(c) + 1] = Slash
    BY <1>1, <1>4
  <2>4. Kept(SplitOf(d)[Len(c)], SplitOf(d)[Len(d)])
    BY <1>1, <2>1, <2>3, EndedIsKept
  <2>. QED  BY <1>1, <2>2, <2>4, SplitRule
<1>. QED  BY <1>3, <1>4 DEF CoversText
\* Where a character that is no slash is found in the segments, a being those
\* before it.
Shows(c, k, a, segments) ==
  /\ Len(a) \in Nat /\ Len(segments) \in Nat
  /\ k = 1 \/ c[k - 1] = Slash =>
       LET n == Len(a) + 1
       IN  Len(segments) >= n /\ segments[n][1] = c[k]
  /\ k > 1 /\ c[k - 1] # Slash =>
       LET n == Len(a)
       IN  /\ n > 0 /\ Len(segments) >= n
           /\ Len(a[n]) \in Nat /\ Len(segments[n]) > Len(a[n]) /\ segments[n][Len(a[n]) + 1] = c[k]

LEMMA CharShows ==
  ASSUME NEW c \in Texts, NEW k \in 1 .. Len(c), c[k] # Slash
  PROVE  Shows(c, k, SplitOf(c)[k - 1], SegmentsOf(c))
<1>. DEFINE a == SplitOf(c)[k - 1]  b == SplitOf(c)[k]  all == SegmentsOf(c)
<1>1. /\ Len(c) \in Nat /\ c[k] \in Nat /\ k - 1 \in 0 .. Len(c) /\ k \in 0 .. Len(c)
      /\ Len(c) \in k .. Len(c)
  BY DEF Texts
<1>2. Steps(c, k, a, b)
  BY SplitStep
<1>3. Grown(b, all) /\ all \in Seq(Texts)
  <2>1. all = SplitOf(c)[Len(c)]
    BY SplitRule
  <2>. QED  BY <1>1, <2>1, SplittingGrows, SplitType
<1>4. k > 1 /\ c[k - 1] # Slash => Len(a) > 0
  <2>1. k > 1 => k - 1 \in 1 .. Len(c)
    BY <1>1
  <2>. QED  BY <2>1, SegmentUnderWay
<1>. HIDE DEF a, b, all
<1>5. /\ a \in Seq(Texts) /\ b \in Seq(Texts) /\ Len(a) \in Nat /\ Len(b) \in Nat
      /\ Len(all) \in Nat /\ \A i \in 1 .. Len(all) : Len(all[i]) \in Nat
  BY <1>2, <1>3 DEF Steps, Texts
<1>6. ASSUME k = 1 \/ c[k - 1] = Slash
      PROVE  Len(all) >= Len(a) + 1 /\ all[Len(a) + 1][1] = c[k]
  <2>1. Len(b) = Len(a) + 1 /\ b[Len(a) + 1] = << c[k] >>
    BY <1>2, <1>5, <1>6 DEF Steps
  <2>2. Len(b[Len(a) + 1]) = 1 /\ b[Len(a) + 1][1] = c[k] /\ Len(a) + 1 \in 1 .. Len(b)
        /\ 1 \in 1 .. Len(b[Len(a) + 1])
    BY <1>5, <2>1
  <2>3. all[Len(a) + 1][1] = b[Len(a) + 1][1]
    BY <1>3, <2>2 DEF Grown
  <2>. QED  BY <1>3, <1>5, <2>1, <2>2, <2>3 DEF Grown
<1>7. ASSUME k > 1, c[k - 1] # Slash
      PROVE  LET n == Len(a)
             IN  /\ n > 0 /\ Len(all) >= n
                 /\ Len(a[n]) \in Nat /\ Len(all[n]) > Len(a[n]) /\ all[n][Len(a[n]) + 1] = c[k]
  <2>. DEFINE n == Len(a)
  <2>1. n > 0 /\ n \in Nat
    BY <1>4, <1>5, <1>7
  <2>2. IsLonger(a, b, c[k])
    BY <1>2, <1>7, ExceptIsLonger DEF Steps
  <2>3. a[n] \in Seq(Nat) /\ n \in 1 .. Len(b) /\ b[n] = Append(a[n], c[k])
    <3>1. n \in 1 .. Len(a) /\ Len(b) = Len(a)
      BY <1>5, <2>1, <2>2 DEF IsLonger
    <3>2. b[n] = Append(a[n], c[k])
      BY <2>2, <3>1 DEF IsLonger
    <3>3. a[n] \in Texts
      BY <1>5, <3>1
    <3>. QED  BY <3>1, <3>2, <3>3 DEF Texts
  <2>4. Len(a[n]) \in Nat /\ Len(b[n]) = Len(a[n]) + 1 /\ b[n][Len(a[n]) + 1] = c[k]
    BY <1>1, <2>3
  <2>5. /\ Len(b) <= Len(all) /\ Len(b[n]) <= Len(all[n])
        /\ \A j \in 1 .. Len(b[n]) : all[n][j] = b[n][j]
    BY <1>3, <2>3 DEF Grown
  <2>6. Len(all) >= n /\ Len(all[n]) \in Nat
    BY <1>5, <2>1, <2>3, <2>5
  <2>7. Len(all[n]) > Len(a[n])
    BY <2>4, <2>5, <2>6
  <2>8. all[n][Len(a[n]) + 1] = b[n][Len(a[n]) + 1]
    <3>. DEFINE j == Len(a[n]) + 1
    <3>1. j \in 1 .. Len(b[n])
      BY <2>4
    <3>. HIDE DEF j
    <3>2. all[n][j] = b[n][j]
      BY <2>5, <3>1, Zenon
    <3>. QED  BY <3>2 DEF j
  <2>. QED  BY <2>1, <2>4, <2>6, <2>7, <2>8
<1>8. Shows(c, k, a, all)
  BY <1>5, <1>6, <1>7 DEF Shows
<1>. QED  BY <1>8 DEF a, all

\* A command whose segments another begins with covers it.
LEMMA SegmentsCover ==
  ASSUME NEW c, IsCommand(c), NEW d, IsCommand(d), IsPrefix(SegmentsOf(c), SegmentsOf(d))
  PROVE  CoversText(c, d)
<1>. DEFINE f == SplitOf(c)  g == SplitOf(d)  C == SegmentsOf(c)  D == SegmentsOf(d)
<1>1. c \in Texts /\ d \in Texts /\ Len(c) \in Nat /\ Len(d) \in Nat
  BY DEF IsCommand, Texts
<1>2. C \in Seq(Texts) /\ D \in Seq(Texts) /\ C = f[Len(c)] /\ D = g[Len(d)]
  BY <1>1, SplitRule, SplitType
<1>3. Kept(C, D) /\ Len(C) \in Nat /\ Len(D) \in Nat
  BY <1>2, PrefixIsPointwise DEF Kept
<1>. SUFFICES ASSUME c # Root PROVE CoversText(c, d)
  BY DEF CoversText
<1>4. Len(c) > 1
  <2>1. ASSUME Len(c) = 1 PROVE c = << Slash >>
    <3>1. c \in Seq(Nat) /\ c[1] = Slash
      BY <1>1 DEF Texts, IsCommand
    <3>2. c = << c[1] >>
      BY <2>1, <3>1
    <3>. QED  BY <3>1, <3>2
  <2>2. Len(c) # 1
    BY <2>1, Zenon DEF Root
  <2>3. Len(c) > 0
    BY DEF IsCommand
  <2>. QED  BY <1>1, <2>2, <2>3
<1>. DEFINE S == {k \in 0 .. Len(c) : k <= Len(d) /\ \A j \in 1 .. k : c[j] = d[j]}
<1>5. 0 \in S
  BY <1>1
<1>6. ASSUME NEW n \in 0 .. Len(c) - 1, n \in S PROVE n + 1 \in S
  <2>. DEFINE k == n + 1  a == f[k - 1]
  <2>1. /\ k \in 1 .. Len(c) /\ k \in Nat /\ k - 1 = n /\ k - 1 \in 0 .. Len(c) /\ k - 1 \in 0 .. Len(d)
        /\ \A j \in 1 .. k - 1 : c[j] = d[j]
        /\ k > 1 => k - 1 \in 1 .. Len(c) /\ c[k - 1] = d[k - 1]
    BY <1>1, <1>6
  <2>. SUFFICES k <= Len(d) /\ c[k] = d[k]
    <3>1. \A j \in 1 .. k : j = k \/ j \in 1 .. k - 1
      BY <2>1
    <3>2. k \in 0 .. Len(c)
      BY <1>1, <2>1
    <3>. HIDE DEF k
    <3>3. k <= Len(d) /\ c[k] = d[k] => k \in S
      BY <2>1, <3>1, <3>2
    <3>. QED  BY <3>3 DEF k
  <2>. HIDE DEF k, f, g, C, D
  <2>2. a = g[k - 1]
    BY <1>1, <2>1, SplitAlike DEF f, g
  <2>3. k > Len(d) => D = a
    <3>1. k > Len(d) => k - 1 = Len(d)
      BY <1>1, <2>1
    <3>. QED  BY <1>2, <2>2, <3>1
  <2>4. a \in Seq(Texts) /\ Len(a) \in Nat
    BY <1>1, <2>1, SplitType DEF f
  <2>5. c[k] # Slash => Shows(c, k, a, C)
    BY <1>1, <2>1, CharShows DEF f, C
  <2>6. k <= Len(d) /\ d[k] # Slash => Shows(d, k, a, D)
    <3>1. k <= Len(d) => k \in 1 .. Len(d)
      BY <1>1, <2>1
    <3>. QED  BY <1>1, <2>2, <3>1, CharShows DEF g, D
  <2>7. CASE k = 1
    BY <1>1, <2>7 DEF IsCommand
  <2>8. CASE k > 1 /\ c[k] = Slash
    <3>1. c[k - 1] # Slash /\ d[k - 1] # Slash
      <4>1. k - 1 \in 1 .. Len(c) - 1 /\ k - 1 + 1 = k
        BY <1>1, <2>1, <2>8
      <4>. QED  BY <2>1, <2>8, <4>1 DEF IsCommand
    <3>2. k \in Nat /\ k + 1 \in 1 .. Len(c) /\ c[k + 1] # Slash
      <4>1. k # Len(c)
        BY <1>4, <2>8 DEF IsCommand
      <4>2. k \in 1 .. Len(c) - 1
        BY <1>1, <2>1, <4>1
      <4>. QED  BY <1>1, <2>1, <2>8, <4>2 DEF IsCommand
    <3>3. f[k] = a
      <4>1. Steps(c, k, a, f[k])
        BY <1>1, <2>1, SplitStep DEF f
      <4>. QED  BY <2>8, <4>1 DEF Steps
    <3>4. Shows(c, k + 1, a, C)
      <4>. DEFINE p == k + 1
      <4>1. p \in 1 .. Len(c) /\ p - 1 = k /\ c[p] # Slash
        BY <3>2
      <4>. HIDE DEF p
      <4>2. Shows(c, p, f[p - 1], C)
        BY <1>1, <4>1, CharShows DEF f, C
      <4>3. f[p - 1] = a
        BY <3>3, <4>1
      <4>4. Shows(c, p, a, C)
        BY <4>2, <4>3
      <4>. QED  BY <4>4 DEF p
    <3>5. Len(D) > Len(a)
      <4>. DEFINE p == k + 1
      <4>1. c[p - 1] = Slash /\ Shows(c, p, a, C)
        <5>1. p - 1 = k
          BY <3>2
        <5>. QED  BY <2>8, <3>4, <5>1
      <4>2. Len(C) >= Len(a) + 1
        <5>. HIDE DEF p
        <5>. QED  BY <4>1 DEF Shows
      <4>. QED  BY <1>3, <2>4, <4>2 DEF Kept
    <3>6. k <= Len(d)
      BY <1>1, <2>1, <2>3, <2>4, <3>5
    <3>7. Kept(a, C)
      <4>1. Len(c) \in (k - 1) .. Len(c) /\ k - 1 + 1 = k
        BY <1>1, <2>1
      <4>. QED  BY <1>1, <1>2, <2>1, <2>8, <4>1, EndedIsKept DEF f
    <3>8. ASSUME d[k] # Slash PROVE FALSE
      <4>1. Shows(d, k, a, D)
        BY <2>6, <3>6, <3>8
      <4>2. Len(a) > 0 /\ Len(D[Len(a)]) > Len(a[Len(a)]) /\ Len(a[Len(a)]) \in Nat
        BY <2>8, <3>1, <4>1 DEF Shows
      <4>3. Len(a) \in 1 .. Len(a) /\ Len(a) \in 1 .. Len(C)
        BY <1>3, <2>4, <3>7, <4>2 DEF Kept
      <4>4. D[Len(a)] = a[Len(a)]
        BY <1>3, <3>7, <4>3 DEF Kept
      <4>. QED  BY <4>2, <4>4
    <3>. QED  BY <2>8, <3>6, <3>8
  <2>9. CASE k > 1 /\ c[k] # Slash /\ c[k - 1] = Slash
    <3>1. Len(C) >= Len(a) + 1 /\ C[Len(a) + 1][1] = c[k]
      BY <2>5, <2>9 DEF Shows
    <3>2. Len(D) >= Len(a) + 1 /\ D[Len(a) + 1][1] = c[k]
      <4>1. Len(a) + 1 \in 1 .. Len(C)
        BY <1>3, <2>4, <3>1
      <4>. QED  BY <1>3, <2>4, <3>1, <4>1 DEF Kept
    <3>3. k <= Len(d)
      BY <1>1, <1>3, <2>1, <2>3, <2>4, <3>2
    <3>4. d[k] # Slash
      <4>1. k - 1 \in 1 .. Len(d) - 1 /\ k - 1 + 1 = k /\ d[k - 1] = Slash
        BY <1>1, <2>1, <2>9, <3>3
      <4>. QED  BY <4>1 DEF IsCommand
    <3>5. D[Len(a) + 1][1] = d[k]
      <4>1. d[k - 1] = Slash
        BY <2>1, <2>9
      <4>. QED  BY <2>6, <3>3, <3>4, <4>1 DEF Shows
    <3>. QED  BY <3>2, <3>3, <3>5
  <2>10. CASE k > 1 /\ c[k] # Slash /\ c[k - 1] # Slash
    <3>. DEFINE m == Len(a)
    <3>1. /\ m > 0 /\ Len(C) >= m
          /\ Len(a[m]) \in Nat /\ Len(C[m]) > Len(a[m]) /\ C[m][Len(a[m]) + 1] = c[k]
      BY <2>5, <2>10 DEF Shows
    <3>2. D[m] = C[m] /\ m \in 1 .. m
      <4>1. m \in 1 .. Len(C)
        BY <1>3, <2>4, <3>1
      <4>. QED  BY <1>3, <2>4, <3>1, <4>1 DEF Kept
    <3>3. k <= Len(d)
      <4>1. D # a
        BY <3>1, <3>2
      <4>. QED  BY <1>1, <2>1, <2>3, <4>1
    <3>4. d[k] # Slash
      <4>. SUFFICES ASSUME d[k] = Slash PROVE FALSE
        OBVIOUS
      <4>1. Len(d) \in (k - 1) .. Len(d) /\ k - 1 + 1 = k
        BY <1>1, <2>1, <3>3
      <4>2. Kept(g[k - 1], D)
        BY <1>1, <1>2, <2>1, <4>1, EndedIsKept DEF g
      <4>3. D[m] = a[m]
        BY <2>2, <3>2, <4>2 DEF Kept
      <4>. QED  BY <3>1, <3>2, <4>3
    <3>5. D[m][Len(a[m]) + 1] = d[k]
      <4>1. d[k - 1] # Slash
        BY <2>1, <2>10
      <4>. QED  BY <2>6, <2>10, <3>3, <3>4, <4>1 DEF Shows
    <3>. QED  BY <3>1, <3>2, <3>3, <3>5
  <2>. QED  BY <2>1, <2>7, <2>8, <2>9, <2>10
<1>. HIDE DEF S
<1>7. Len(c) <= Len(d) /\ \A j \in 1 .. Len(c) : c[j] = d[j]
  <2>1. 0 .. Len(c) \subseteq S
    BY <1>1, <1>5, <1>6, InductionUpTo
  <2>2. Len(c) \in S
    BY <1>1, <2>1
  <2>. QED  BY <2>2 DEF S
<1>8. IsPrefix(c, d)
  BY <1>1, <1>7, PrefixIsPointwise DEF Texts
<1>9. CASE Len(c) = Len(d)
  <2>1. c = d
    BY <1>1, <1>7, <1>9 DEF Texts
  <2>. QED  BY <1>8, <2>1 DEF CoversText
<1>10. CASE Len(c) # Len(d)
  <2>. DEFINE k == Len(c) + 1
  <2>1. k \in 1 .. Len(d) /\ k - 1 = Len(c) /\ k > 1 /\ d[k - 1] = c[Len(c)] /\ c[Len(c)] # Slash
    BY <1>1, <1>4, <1>7, <1>10 DEF IsCommand
  <2>2. g[k - 1] = C
    BY <1>1, <1>2, <1>7, <2>1, SplitAlike
  <2>3. ASSUME d[k] # Slash PROVE FALSE
    <3>1. Shows(d, k, C, D)
      BY <1>1, <2>1, <2>2, <2>3, CharShows
    <3>2. Len(C) > 0 /\ Len(D[Len(C)]) > Len(C[Len(C)]) /\ Len(C[Len(C)]) \in Nat
      BY <2>1, <3>1 DEF Shows
    <3>3. D[Len(C)] = C[Len(C)]
      <4>1. Len(C) \in 1 .. Len(C)
        BY <1>3, <3>2
      <4>. QED  BY <1>3, <4>1 DEF Kept
    <3>. QED  BY <3>2, <3>3
  <2>. QED  BY <1>8, <2>3 DEF CoversText
<1>. QED  BY <1>9, <1>10

\* Coverage of texts is coverage of their segments.
LEMMA CoverageHasSegments ==
  ASSUME bytes \in Seq(Nat)
  PROVE  CoverageIsOnSegments
<1>. SUFFICES ASSUME form = "command", CommandError(bytes) = "Ok", NEW c \in Commands \cup {bytes}
              PROVE  /\ CoversText(c, bytes) <=> IsPrefix(SegmentsOf(c), SegmentsOf(bytes))
                     /\ CoversText(bytes, c) <=> IsPrefix(SegmentsOf(bytes), SegmentsOf(c))
  BY DEF CoverageIsOnSegments
<1>1. IsCommand(bytes) /\ IsCommand(c)
  BY WireAssumption, CommandsAreSlashed DEF Texts
<1>. QED  BY <1>1, CoveringHasSegments, SegmentsCover

----------------------------------------------------------------------------
\* Varints are read as they are written, and written as they are read.
LEMMA VarintsExact ==
  ASSUME form = "cbor" => bytes \in Seq(Byte)
  PROVE  VarintsAreExact
<1>1. ASSUME bytes \in Seq(Byte), ReadUvarint(bytes).error = "Ok"
      PROVE  PutUvarint(ReadUvarint(bytes).value) = SubSeq(bytes, 1, ReadUvarint(bytes).length)
  BY <1>1, ReadIsWritten
<1>2. ASSUME bytes \in Seq(Byte), NEW n \in Numbers
      PROVE  ReadUvarint(PutUvarint(n) \o bytes) = [error |-> "Ok", value |-> n, length |-> Len(PutUvarint(n))]
  BY <1>2, WrittenIsRead, WireAssumption
<1>. QED  BY <1>1, <1>2, Zenon DEF VarintsAreExact

----------------------------------------------------------------------------
(* The text of a value, level by level.                                    *)

\* What the values at a depth are written as in text, given those one deeper.
TextLevel(values, depth, next) == [x \in values |-> JsonItem(x, depth, next)]

IsTexting(f, level, from) ==
  f = [depth \in from .. MaxDepth + 1 |-> TextLevel(level[depth], depth, f[depth + 1])]

LEMMA TextDeepest ==
  ASSUME NEW values, NEW a, NEW b
  PROVE  TextLevel(values, MaxDepth + 1, a) = TextLevel(values, MaxDepth + 1, b)
<1>1. MaxDepth + 1 > MaxDepth
  BY BaseType
<1>2. \A x, next : JsonItem(x, MaxDepth + 1, next) = Fail("NestingTooDeep")
  BY <1>1, Zenon DEF JsonItem
<1>. QED  BY <1>2 DEF TextLevel

LEMMA TextingAt ==
  ASSUME NEW level, NEW from \in 0 .. MaxDepth + 1, NEW f, IsTexting(f, level, from)
  PROVE  /\ DOMAIN f = from .. MaxDepth + 1
         /\ \A depth \in from .. MaxDepth + 1 : f[depth] = TextLevel(level[depth], depth, f[depth + 1])
<1>. DEFINE g == [depth \in from .. MaxDepth + 1 |-> TextLevel(level[depth], depth, f[depth + 1])]
<1>1. f = g
  BY DEF IsTexting
<1>2. /\ DOMAIN g = from .. MaxDepth + 1
      /\ \A depth \in from .. MaxDepth + 1 : g[depth] = TextLevel(level[depth], depth, f[depth + 1])
  OBVIOUS
<1>. HIDE DEF g
<1>. QED  BY <1>1, <1>2

LEMMA TextingExists ==
  ASSUME NEW level
  PROVE  \E f : IsTexting(f, level, 0)
<1>. DEFINE N == MaxDepth + 1
            S == {j \in 0 .. N : \E f : IsTexting(f, level, N - j)}
<1>1. N \in Nat
  BY BaseType
<1>2. 0 \in S
  <2>. DEFINE f == [depth \in N .. N |-> TextLevel(level[depth], depth, 0)]
              g == [depth \in N .. N |-> TextLevel(level[depth], depth, f[depth + 1])]
  <2>1. \A depth \in N .. N : depth = MaxDepth + 1
    BY <1>1
  <2>2. \A depth \in N .. N : TextLevel(level[depth], depth, 0) = TextLevel(level[depth], depth, f[depth + 1])
    BY <2>1, TextDeepest
  <2>3. f = g
    BY <2>2
  <2>4. IsTexting(f, level, N)
    BY <2>3 DEF IsTexting
  <2>5. N - 0 = N
    BY <1>1
  <2>. HIDE DEF f, N
  <2>. QED  BY <1>1, <2>4, <2>5
<1>3. ASSUME NEW j \in 0 .. N - 1, j \in S PROVE j + 1 \in S
  <2>. DEFINE a == N - j  b == N - (j + 1)
  <2>1. PICK f : IsTexting(f, level, a)
    BY <1>3
  <2>2. a \in 0 .. N /\ b \in 0 .. N /\ b + 1 = a /\ a \in 1 .. N
    BY <1>1
  <2>. HIDE DEF a, b
  <2>. DEFINE g == [depth \in b .. N |-> TextLevel(level[depth], depth, f[depth + 1])]
              h == [depth \in b .. N |-> TextLevel(level[depth], depth, g[depth + 1])]
  <2>3. \A depth \in a .. N : f[depth] = TextLevel(level[depth], depth, f[depth + 1])
    BY <2>1, <2>2, TextingAt
  <2>4. \A depth \in b .. N : /\ g[depth] = TextLevel(level[depth], depth, f[depth + 1])
                              /\ h[depth] = TextLevel(level[depth], depth, g[depth + 1])
    OBVIOUS
  <2>5. DOMAIN g = b .. N /\ DOMAIN h = b .. N /\ g = [depth \in DOMAIN g |-> g[depth]] /\ h = [depth \in DOMAIN h |-> h[depth]]
    OBVIOUS
  <2>6. IsTexting(g, level, b) <=> g = h
    BY Zenon DEF IsTexting
  <2>. HIDE DEF g, h
  <2>7. \A depth \in a .. N : g[depth] = f[depth]
    <3>. TAKE depth \in a .. N
    <3>1. depth \in b .. N
      BY <1>1, <2>2
    <3>. QED  BY <2>3, <2>4, <3>1
  <2>8. ASSUME NEW depth \in b .. N PROVE g[depth] = h[depth]
    <3>1. CASE depth = N
      BY <2>4, <3>1, TextDeepest
    <3>2. CASE depth # N
      <4>1. depth + 1 \in a .. N
        BY <1>1, <2>2, <3>2
      <4>2. g[depth + 1] = f[depth + 1]
        BY <2>7, <4>1
      <4>. QED  BY <2>4, <4>2
    <3>. QED  BY <3>1, <3>2
  <2>9. g = h
    BY <2>5, <2>8
  <2>10. IsTexting(g, level, b)
    BY <2>6, <2>9
  <2>11. j + 1 \in 0 .. N
    BY <1>1
  <2>. QED  BY <2>10, <2>11 DEF b
<1>. HIDE DEF S
<1>4. 0 .. N \subseteq S
  <2>. HIDE DEF N
  <2>. QED  BY <1>1, <1>2, <1>3, InductionUpTo
<1>5. N \in S /\ N - N = 0
  BY <1>1, <1>4
<1>. QED  BY <1>5 DEF S

\* Values of text, down to a depth.
TextualTo(v, n) == \A depth \in 0 .. n : \A x \in LevelsOf(v)[depth] : IsTextual(x)

LEMMA TextLevelIs ==
  ASSUME NEW depth \in Nat, NEW D, NEW E, NEW f, TextsAre(f, E),
         \A x \in D : IsTextual(x) /\ Parts(x) \subseteq E
  PROVE  /\ TextsAre(TextLevel(D, depth, f), D)
         /\ \A x \in D : IsOk(TextLevel(D, depth, f)[x]) =>
              JsonShape(x, f, TextLevel(D, depth, f)[x]) /\ TextsAre(f, Parts(x))
<1>. DEFINE g == TextLevel(D, depth, f)
<1>1. \A x \in D : g[x] = JsonItem(x, depth, f)
  BY DEF TextLevel
<1>. HIDE DEF g
<1>2. ASSUME NEW x \in D, IsOk(g[x]) PROVE JsonShape(x, f, g[x]) /\ TextsAre(f, Parts(x))
  <2>1. TextsAre(f, Parts(x))
    BY DEF TextsAre
  <2>2. IsTextual(x) /\ IsOk(JsonItem(x, depth, f))
    BY <1>1, <1>2
  <2>3. JsonShape(x, f, JsonItem(x, depth, f))
    BY <2>1, <2>2, JsonShapeIs
  <2>. QED  BY <1>1, <2>1, <2>3
<1>3. ASSUME NEW x \in D, IsOk(g[x]) PROVE JsonText(g[x])
  BY <1>2, <1>3 DEF JsonShape
<1>4. TextsAre(g, D)
  BY <1>3 DEF TextsAre
<1>. QED  BY <1>2, <1>4 DEF g

LEMMA TextLevelTold ==
  ASSUME NEW depth \in Nat, NEW s \in Seq(Nat), NEW D, NEW E, NEW f, TextsAre(f, E),
         \A x \in D : IsTextual(x) /\ Parts(x) \subseteq E,
         NEW G, NEW H, NEW g, TextsAre(g, H),
         \A x \in G : IsTextual(x) /\ Parts(x) \subseteq H,
         Told(s, f, g, E, H)
  PROVE  Told(s, TextLevel(D, depth, f), TextLevel(G, depth, g), D, G)
<1>. DEFINE t == TextLevel(D, depth, f)  u == TextLevel(G, depth, g)
<1>1. \A x \in D : IsOk(t[x]) => JsonShape(x, f, t[x]) /\ TextsAre(f, Parts(x))
  BY TextLevelIs
<1>2. \A x \in G : IsOk(u[x]) => JsonShape(x, g, u[x]) /\ TextsAre(g, Parts(x))
  BY TextLevelIs
<1>. HIDE DEF t, u
<1>3. ASSUME NEW x \in D, NEW y \in G, IsOk(t[x]), IsOk(u[y]) PROVE ToldAt(s, x, y, t[x], u[y])
  <2>. DEFINE v == t[x]  w == u[y]
  <2>1. JsonShape(x, f, v) /\ TextsAre(f, Parts(x)) /\ JsonShape(y, g, w) /\ TextsAre(g, Parts(y))
    BY <1>1, <1>2, <1>3
  <2>. HIDE DEF v, w
  <2>2. Told(s, f, g, Parts(x), Parts(y))
    BY DEF Told
  <2>3. TextsBoth(x, y, f, g, v, w, s)
    BY <2>1, <2>2 DEF TextsBoth
  <2>4. ToldAt(s, x, y, v, w)
    BY <2>3, TextsTell
  <2>. QED  BY <2>4 DEF v, w
<1>. QED  BY <1>3 DEF Told, t, u

LEMMA LevelsTold ==
  ASSUME NEW s \in Seq(Nat), NEW v, NEW w, TextualTo(v, MaxDepth + 1), TextualTo(w, MaxDepth + 1),
         NEW T, IsTexting(T, LevelsOf(v), 0), NEW U, IsTexting(U, LevelsOf(w), 0)
  PROVE  \A depth \in 0 .. MaxDepth + 1 :
           /\ TextsAre(T[depth], LevelsOf(v)[depth]) /\ TextsAre(U[depth], LevelsOf(w)[depth])
           /\ Told(s, T[depth], U[depth], LevelsOf(v)[depth], LevelsOf(w)[depth])
<1>. DEFINE N == MaxDepth + 1  L == LevelsOf(v)  M == LevelsOf(w)
            Good(d) == TextsAre(T[d], L[d]) /\ TextsAre(U[d], M[d]) /\ Told(s, T[d], U[d], L[d], M[d])
            S == {j \in 0 .. N : Good(N - j)}
<1>1. N \in Nat /\ 0 \in 0 .. N
  BY BaseType
<1>2. \A d \in 0 .. N : T[d] = TextLevel(L[d], d, T[d + 1]) /\ U[d] = TextLevel(M[d], d, U[d + 1])
  BY <1>1, TextingAt
<1>3. \A d \in 1 .. N : L[d] = UNION {Parts(x) : x \in L[d - 1]} /\ M[d] = UNION {Parts(x) : x \in M[d - 1]}
  BY LevelsRule
<1>4. \A d \in 0 .. N : (\A x \in L[d] : IsTextual(x)) /\ \A x \in M[d] : IsTextual(x)
  BY DEF TextualTo
<1>. HIDE DEF L, M
<1>5. 0 \in S
  <2>1. N > MaxDepth /\ N \in 0 .. N /\ N - 0 = N
    BY <1>1, BaseType
  <2>2. \A x, f : JsonItem(x, N, f) = Fail("NestingTooDeep")
    BY <2>1, Zenon DEF JsonItem
  <2>3. (\A x \in L[N] : ~IsOk(T[N][x])) /\ \A x \in M[N] : ~IsOk(U[N][x])
    <3>1. T[N] = TextLevel(L[N], N, T[N + 1]) /\ U[N] = TextLevel(M[N], N, U[N + 1])
      BY <1>2, <2>1
    <3>. QED  BY <2>2, <3>1, FailuresAre DEF TextLevel
  <2>4. Good(N)
    BY <2>3 DEF TextsAre, Told
  <2>. HIDE DEF N
  <2>. QED  BY <1>1, <2>1, <2>4
<1>6. ASSUME NEW j \in 0 .. N - 1, j \in S PROVE j + 1 \in S
  <2>. DEFINE a == N - j  b == N - (j + 1)
  <2>1. a \in 1 .. N /\ b \in 0 .. N /\ b + 1 = a /\ a - 1 = b /\ b \in Nat
    BY <1>1
  <2>2. Good(a)
    BY <1>6
  <2>. HIDE DEF a, b, N
  <2>3. (\A x \in L[b] : Parts(x) \subseteq L[a]) /\ \A x \in M[b] : Parts(x) \subseteq M[a]
    BY <1>3, <2>1
  <2>4. T[b] = TextLevel(L[b], b, T[a]) /\ U[b] = TextLevel(M[b], b, U[a])
    BY <1>2, <2>1
  <2>5. (\A x \in L[b] : IsTextual(x)) /\ \A x \in M[b] : IsTextual(x)
    BY <1>4, <2>1
  <2>6. TextsAre(T[b], L[b])
    BY <2>1, <2>2, <2>3, <2>4, <2>5, TextLevelIs
  <2>7. TextsAre(U[b], M[b])
    BY <2>1, <2>2, <2>3, <2>4, <2>5, TextLevelIs
  <2>8. Told(s, T[b], U[b], L[b], M[b])
    BY <2>1, <2>2, <2>3, <2>4, <2>5, TextLevelTold
  <2>9. j + 1 \in 0 .. N
    BY <1>1
  <2>. QED  BY <2>6, <2>7, <2>8, <2>9 DEF b
<1>7. 0 .. N \subseteq S
  <2>. HIDE DEF N, S
  <2>. QED  BY <1>1, <1>5, <1>6, InductionUpTo
<1>8. ASSUME NEW d \in 0 .. N PROVE Good(d)
  <2>. DEFINE j == N - d
  <2>1. j \in 0 .. N /\ N - j = d
    BY <1>1
  <2>. HIDE DEF j, N
  <2>2. j \in S
    BY <1>7, <2>1
  <2>. QED  BY <2>1, <2>2
<1>. QED  BY <1>8 DEF L, M

\* How a value is written in text.
LEMMA TextOfValue ==
  ASSUME NEW v
  PROVE  \E T : IsTexting(T, LevelsOf(v), 0) /\ EncodeJson(v) = T[0][v]
<1>. DEFINE L == LevelsOf(v)  T == CHOOSE f : IsTexting(f, L, 0)
<1>1. EncodeJson(v) = T[0][v]
  BY Zenon DEF EncodeJson, IsTexting, TextLevel
<1>2. IsTexting(T, L, 0)
  <2>. HIDE DEF L
  <2>. QED  BY TextingExists
<1>. QED  BY <1>1, <1>2

\* No two values are written as the same text.
LEMMA TextsTellApart ==
  ASSUME NEW v, NEW w, TextualTo(v, MaxDepth + 1), TextualTo(w, MaxDepth + 1),
         IsOk(EncodeJson(v)), IsOk(EncodeJson(w)), EncodeJson(v).value = EncodeJson(w).value
  PROVE  v = w
<1>1. PICK T : IsTexting(T, LevelsOf(v), 0) /\ EncodeJson(v) = T[0][v]
  BY TextOfValue
<1>2. PICK U : IsTexting(U, LevelsOf(w), 0) /\ EncodeJson(w) = U[0][w]
  BY TextOfValue
<1>. DEFINE a == EncodeJson(v)  b == EncodeJson(w)  s == a.value
<1>3. v \in LevelsOf(v)[0] /\ w \in LevelsOf(w)[0] /\ 0 \in 0 .. MaxDepth + 1
  BY LevelsRule, BaseType
<1>4. JsonText(a)
  <2>. DEFINE q == << >>
  <2>1. q \in Seq(Nat)
    OBVIOUS
  <2>. HIDE DEF q
  <2>2. TextsAre(T[0], LevelsOf(v)[0])
    BY <1>1, <1>2, <1>3, <2>1, LevelsTold
  <2>. QED  BY <1>1, <1>3, <2>2 DEF TextsAre
<1>5. s \in Seq(Nat)
  BY <1>4 DEF JsonText, AsText
<1>. HIDE DEF a, b, s
<1>6. Told(s, T[0], U[0], LevelsOf(v)[0], LevelsOf(w)[0])
  BY <1>1, <1>2, <1>3, <1>5, LevelsTold
<1>7. ToldAt(s, v, w, a, b)
  BY <1>1, <1>2, <1>3, <1>6 DEF Told, a, b
<1>8. a.value = s /\ b.value = s
  BY DEF a, b, s
<1>9. BothStand(s, 0, s, s)
  <2>1. Stands(s, 0, s)
    BY <1>5, StandsItself
  <2>2. EndsAt(s, 0 + Len(s), JsonDigits)
    BY <1>5 DEF EndsAt
  <2>. QED  BY <2>1, <2>2 DEF BothStand
<1>. QED  BY <1>7, <1>8, <1>9, Zenon DEF ToldAt

\* A map is written in text from its first sign on.
LEMMA MapOpens ==
  ASSUME NEW v, TextualTo(v, MaxDepth + 1), v.kind = "map", IsOk(EncodeJson(v))
  PROVE  /\ EncodeJson(v).value \in Seq(Nat) /\ Len(EncodeJson(v).value) > 0
         /\ EncodeJson(v).value[1] = OpenBrace
<1>1. PICK T : IsTexting(T, LevelsOf(v), 0) /\ EncodeJson(v) = T[0][v]
  BY TextOfValue
<1>. DEFINE a == EncodeJson(v)  L == LevelsOf(v)  q == << >>
<1>2. v \in L[0] /\ 0 \in 0 .. MaxDepth + 1 /\ 1 \in 0 .. MaxDepth + 1 /\ 0 + 1 = 1 /\ 1 - 1 = 0 /\ 1 \in 1 .. MaxDepth + 1
  BY LevelsRule, BaseType
<1>3. q \in Seq(Nat)
  OBVIOUS
<1>. HIDE DEF a, q
<1>4. T[0] = TextLevel(L[0], 0, T[1])
  BY <1>1, <1>2, TextingAt
<1>5. TextsAre(T[1], L[1])
  BY <1>1, <1>2, <1>3, LevelsTold
<1>6. \A x \in L[0] : IsTextual(x) /\ Parts(x) \subseteq L[1]
  <2>1. L[1] = UNION {Parts(x) : x \in L[1 - 1]}
    BY <1>2, LevelsRule
  <2>. QED  BY <1>2, <2>1 DEF TextualTo
<1>. HIDE DEF L
<1>7. IsOk(T[0][v]) => JsonShape(v, T[1], T[0][v])
  <2>. DEFINE D == L[0]  E == L[1]  f == T[1]  depth == 0
  <2>1. TextsAre(f, E) /\ (\A x \in D : IsTextual(x) /\ Parts(x) \subseteq E) /\ depth \in Nat
    BY <1>5, <1>6
  <2>2. v \in D /\ T[0] = TextLevel(D, depth, f)
    BY <1>2, <1>4
  <2>. HIDE DEF D, E, f, depth
  <2>3. IsOk(TextLevel(D, depth, f)[v]) => JsonShape(v, f, TextLevel(D, depth, f)[v])
    BY <2>1, <2>2, TextLevelIs
  <2>. QED  BY <2>2, <2>3 DEF f
<1>8. JsonShape(v, T[1], a)
  BY <1>1, <1>7 DEF a
<1>. QED  BY <1>8 DEF JsonShape, MapText, JsonRow, JsonText, AsText, a
----------------------------------------------------------------------------
(* What is read of the fields of a token.                                  *)

\* What stands for a field that is left out is nothing that a field holds.
NoneIsNothing == None \notin Int /\ None # [x \in DOMAIN None |-> None[x]]

IsMapping(f) == f = [x \in DOMAIN f |-> f[x]]

\* A value as one is read, and as far as tokens look into one.
HasForm(v) ==
  \/ v = Simple(v.name)
  \/ v = Integer(v.num) /\ v.num \in Int
  \/ v = Float(v.bytes)
  \/ v = Bytes(v.bytes) /\ v.bytes \in Seq(Byte)
  \/ v = Text(v.bytes) /\ v.bytes \in Seq(Byte)
  \/ v = List(v.items) /\ IsMapping(v.items)
  \/ v = Map(v.of) /\ IsMapping(v.of)
  \/ v = Link(v.bytes) /\ v.bytes \in Cids
IsField(v) == HasForm(v) /\ (v.kind = "list" => \A k \in DOMAIN v.items : HasForm(v.items[k]))

LEMMA Kindred ==
  /\ \A n : Simple(n).kind = "simple" /\ Simple(n).name = n
  /\ \A n : Integer(n).kind = "integer" /\ Integer(n).num = n
  /\ \A b : Float(b).kind = "float" /\ Float(b).bytes = b
  /\ \A b : Bytes(b).kind = "bytes" /\ Bytes(b).bytes = b
  /\ \A b : Text(b).kind = "text" /\ Text(b).bytes = b
  /\ \A b : List(b).kind = "list" /\ List(b).items = b
  /\ \A b : Map(b).kind = "map" /\ Map(b).of = b
  /\ \A b : Link(b).kind = "link" /\ Link(b).bytes = b
  BY DEF Simple, Integer, Float, Bytes, Text, List, Map, Link

LEMMA FormByKind ==
  ASSUME NEW v, HasForm(v)
  PROVE  /\ v.kind = "integer" => v = Integer(v.num) /\ v.num \in Int
         /\ v.kind = "bytes" => v = Bytes(v.bytes) /\ v.bytes \in Seq(Byte)
         /\ v.kind = "text" => v = Text(v.bytes) /\ v.bytes \in Seq(Byte)
         /\ v.kind = "list" => v = List(v.items) /\ IsMapping(v.items)
         /\ v.kind = "map" => v = Map(v.of) /\ IsMapping(v.of)
         /\ v.kind = "link" => v = Link(v.bytes) /\ v.bytes \in Cids
  BY Kindred DEF HasForm

\* Nothing that is held is None.
LEMMA HeldIsSomething ==
  ASSUME NoneIsNothing
  PROVE  /\ \A n \in Int : n # None
         /\ \A S : \A b \in Seq(S) : b # None
         /\ \A f : IsMapping(f) => f # None
<1>1. \A n \in Int : n # None
  BY DEF NoneIsNothing
<1>2. \A f : IsMapping(f) => f # None
  BY DEF NoneIsNothing, IsMapping
<1>3. ASSUME NEW S, NEW b \in Seq(S) PROVE IsMapping(b)
  BY DEF IsMapping
<1>. QED  BY <1>1, <1>2, <1>3

\* A field that is read without fault is written as it was.
IsKept(name, value) == ValueOfField(name, Held(name, value)) = value
IsHeld(name, value) == value = NullValue \/ Held(name, value) # None

LEMMA NullKept ==
  ASSUME NEW name
  PROVE  Held(name, NullValue) = None /\ IsKept(name, NullValue)
  BY DEF Held, ValueOfField, IsKept

LEMMA TextKept ==
  ASSUME NoneIsNothing, NEW name \in {"iss", "aud", "sub", "cmd"},
         NEW value, HasForm(value), value.kind = "text"
  PROVE  value # NullValue /\ Held(name, value) # None /\ IsKept(name, value)
<1>1. value = Text(value.bytes) /\ value.bytes \in Seq(Byte)
  BY FormByKind
<1>2. value # NullValue
  BY Kindred DEF NullValue
<1>3. Held(name, value) = value.bytes
  BY <1>2 DEF Held
<1>4. value.bytes # None
  BY <1>1, HeldIsSomething
<1>5. \A held : held # None => ValueOfField(name, held) = Text(held)
  BY DEF ValueOfField
<1>. QED  BY <1>1, <1>2, <1>3, <1>4, <1>5 DEF IsKept

LEMMA NumberKept ==
  ASSUME NoneIsNothing, NEW name \in {"exp", "nbf", "iat"},
         NEW value, HasForm(value), value.kind = "integer"
  PROVE  value # NullValue /\ Held(name, value) # None /\ IsKept(name, value)
<1>1. value = Integer(value.num) /\ value.num \in Int
  BY FormByKind
<1>2. value # NullValue
  BY Kindred DEF NullValue
<1>3. Held(name, value) = value.num
  BY <1>2 DEF Held
<1>4. value.num # None
  BY <1>1, HeldIsSomething
<1>5. \A held : held # None => ValueOfField(name, held) = Integer(held)
  BY DEF ValueOfField
<1>. QED  BY <1>1, <1>2, <1>3, <1>4, <1>5 DEF IsKept

LEMMA MapKept ==
  ASSUME NoneIsNothing, NEW name \in {"args", "meta"},
         NEW value, HasForm(value), value.kind = "map"
  PROVE  /\ value # NullValue /\ Held(name, value) # None /\ IsKept(name, value)
         /\ value = Map(Held(name, value))
<1>1. value = Map(value.of) /\ IsMapping(value.of)
  BY FormByKind
<1>2. value # NullValue
  BY Kindred DEF NullValue
<1>3. Held(name, value) = value.of
  BY <1>2 DEF Held
<1>4. value.of # None
  BY <1>1, HeldIsSomething
<1>5. \A held : held # None => ValueOfField(name, held) = Map(held)
  BY DEF ValueOfField
<1>. QED  BY <1>1, <1>2, <1>3, <1>4, <1>5 DEF IsKept

LEMMA BytesKept ==
  ASSUME NoneIsNothing, NEW value, HasForm(value), value.kind = "bytes"
  PROVE  value # NullValue /\ Held("nonce", value) # None /\ IsKept("nonce", value)
<1>1. value = Bytes(value.bytes) /\ value.bytes \in Seq(Byte)
  BY FormByKind
<1>2. value # NullValue
  BY Kindred DEF NullValue
<1>3. Held("nonce", value) = value.bytes
  BY <1>2 DEF Held
<1>4. value.bytes # None
  BY <1>1, HeldIsSomething
<1>5. \A held : held # None => ValueOfField("nonce", held) = Bytes(held)
  BY DEF ValueOfField
<1>. QED  BY <1>1, <1>2, <1>3, <1>4, <1>5 DEF IsKept

LEMMA LinkKept ==
  ASSUME NoneIsNothing, NEW value, HasForm(value), value.kind = "link"
  PROVE  value # NullValue /\ Held("cause", value) # None /\ IsKept("cause", value)
<1>1. value = Link(value.bytes) /\ value.bytes \in Seq(Byte)
  BY FormByKind, WireAssumption
<1>2. value # NullValue
  BY Kindred DEF NullValue
<1>3. Held("cause", value) = value.bytes
  BY <1>2 DEF Held
<1>4. value.bytes # None
  BY <1>1, HeldIsSomething
<1>5. \A held : held # None => ValueOfField("cause", held) = Link(held)
  BY DEF ValueOfField
<1>. QED  BY <1>1, <1>2, <1>3, <1>4, <1>5 DEF IsKept

LEMMA LinksKept ==
  ASSUME NoneIsNothing, NEW value, IsField(value), LinksError(value) = "Ok"
  PROVE  value # NullValue /\ Held("prf", value) # None /\ IsKept("prf", value)
<1>1. value.kind = "list" /\ \A k \in DOMAIN value.items : value.items[k].kind = "link"
  BY DEF LinksError
<1>2. value = List(value.items) /\ IsMapping(value.items)
  BY <1>1, FormByKind DEF IsField
<1>3. \A k \in DOMAIN value.items : Link(value.items[k].bytes) = value.items[k]
  BY <1>1, FormByKind DEF IsField
<1>4. value # NullValue
  BY <1>1, Kindred DEF NullValue
<1>. DEFINE cids == [k \in DOMAIN value.items |-> value.items[k].bytes]
            links == [k \in DOMAIN cids |-> Link(cids[k])]
<1>5. Held("prf", value) = cids
  BY <1>4 DEF Held
<1>6. cids # None
  <2>1. IsMapping(cids)
    BY DEF IsMapping
  <2>. HIDE DEF cids
  <2>. QED  BY <2>1, HeldIsSomething
<1>7. links = value.items
  <2>1. links = [k \in DOMAIN value.items |-> value.items[k]]
    BY <1>3
  <2>. HIDE DEF links
  <2>. QED  BY <1>2, <2>1 DEF IsMapping
<1>8. \A held : held # None => ValueOfField("prf", held) = List([k \in DOMAIN held |-> Link(held[k])])
  BY DEF ValueOfField
<1>9. ValueOfField("prf", cids) = List(links)
  <2>. HIDE DEF cids
  <2>. QED  BY <1>6, <1>8
<1>. HIDE DEF links, cids
<1>. QED  BY <1>2, <1>4, <1>5, <1>6, <1>7, <1>9 DEF IsKept

LEMMA PolicyKept ==
  ASSUME NoneIsNothing, NEW value, HasForm(value)
  PROVE  IsHeld("pol", value) /\ IsKept("pol", value)
<1>1. CASE value = NullValue
  BY <1>1, NullKept DEF IsHeld
<1>2. CASE value # NullValue
  <2>1. Held("pol", value) = value
    BY <1>2 DEF Held
  <2>2. IsMapping(value)
    BY DEF HasForm, IsMapping, Simple, Integer, Float, Bytes, Text, List, Map, Link
  <2>3. value # None
    BY <2>2, HeldIsSomething
  <2>4. \A held : held # None => ValueOfField("pol", held) = held
    BY DEF ValueOfField
  <2>. QED  BY <2>1, <2>3, <2>4 DEF IsHeld, IsKept
<1>. QED  BY <1>1, <1>2

\* Whatever field is read without fault.
FieldIsKept(kind, name, value) ==
  /\ IsHeld(name, value) /\ IsKept(name, value)
  /\ value = NullValue => name \in {"sub", "exp", "pol"}
  /\ name = "meta" => value = Map(Held(name, value))

LEMMA KindChecked ==
  /\ \A value, kind : KindError(value, kind) = "Ok" => value.kind = kind
  /\ \A value : DidValueError(value) = "Ok" => value.kind = "text"
  /\ \A value : CommandValueError(value) = "Ok" => value.kind = "text"
  /\ \A value : TimeError(value) = "Ok" => value.kind = "integer"
  BY DEF KindError, DidValueError, CommandValueError, TimeError

LEMMA ErrorByName ==
  ASSUME NEW kind, NEW name, NEW value, ~(value = NullValue /\ name \in NullableIn(kind))
  PROVE  /\ name \in {"iss", "aud", "sub"} => ValueError(kind, name, value) = DidValueError(value)
         /\ name = "cmd" => ValueError(kind, name, value) = CommandValueError(value)
         /\ name = "nonce" => ValueError(kind, name, value) = KindError(value, "bytes")
         /\ name \in {"exp", "nbf", "iat"} => ValueError(kind, name, value) = TimeError(value)
         /\ name \in {"args", "meta"} => ValueError(kind, name, value) = KindError(value, "map")
         /\ name = "prf" => ValueError(kind, name, value) = LinksError(value)
         /\ name = "cause" => ValueError(kind, name, value) = KindError(value, "link")
<1>. DEFINE e == ValueError(kind, name, value)
<1>1. ASSUME name \in {"iss", "aud", "sub"} PROVE e = DidValueError(value)
  BY <1>1 DEF ValueError
<1>2. ASSUME name = "cmd" PROVE e = CommandValueError(value)
  BY <1>2 DEF ValueError
<1>3. ASSUME name = "nonce" PROVE e = KindError(value, "bytes")
  BY <1>3 DEF ValueError
<1>4. ASSUME name \in {"exp", "nbf", "iat"} PROVE e = TimeError(value)
  BY <1>4 DEF ValueError
<1>5. ASSUME name \in {"args", "meta"} PROVE e = KindError(value, "map")
  BY <1>5 DEF ValueError
<1>6. ASSUME name = "prf" PROVE e = LinksError(value)
  BY <1>6 DEF ValueError
<1>7. ASSUME name = "cause" PROVE e = KindError(value, "link")
  BY <1>7 DEF ValueError
<1>. HIDE DEF e
<1>. QED  BY <1>1, <1>2, <1>3, <1>4, <1>5, <1>6, <1>7 DEF e

LEMMA FieldKept ==
  ASSUME NoneIsNothing, NEW kind \in Kinds, NEW name \in FieldNames,
         NEW value, IsField(value), ValueError(kind, name, value) = "Ok"
  PROVE  FieldIsKept(kind, name, value)
<1>. DEFINE nullable == value = NullValue /\ name \in NullableIn(kind)
<1>1. HasForm(value)
  BY DEF IsField
<1>2. CASE nullable
  <2>1. name \in {"sub", "exp"}
    BY <1>2 DEF NullableIn
  <2>2. IsKept(name, value)
    BY <1>2, NullKept
  <2>. QED  BY <1>2, <2>1, <2>2 DEF FieldIsKept, IsHeld
<1>3. CASE ~nullable
  <2>1. CASE name \in {"iss", "aud", "sub", "cmd"}
    <3>1. value.kind = "text"
      BY <1>3, <2>1, ErrorByName, KindChecked
    <3>. QED  BY <1>1, <2>1, <3>1, TextKept DEF FieldIsKept, IsHeld
  <2>2. CASE name \in {"exp", "nbf", "iat"}
    <3>1. value.kind = "integer"
      BY <1>3, <2>2, ErrorByName, KindChecked
    <3>. QED  BY <1>1, <2>2, <3>1, NumberKept DEF FieldIsKept, IsHeld
  <2>3. CASE name \in {"args", "meta"}
    <3>1. value.kind = "map"
      BY <1>3, <2>3, ErrorByName, KindChecked
    <3>. QED  BY <1>1, <2>3, <3>1, MapKept DEF FieldIsKept, IsHeld
  <2>4. CASE name = "nonce"
    <3>1. value.kind = "bytes"
      BY <1>3, <2>4, ErrorByName, KindChecked
    <3>. QED  BY <1>1, <2>4, <3>1, BytesKept DEF FieldIsKept, IsHeld
  <2>5. CASE name = "cause"
    <3>1. value.kind = "link"
      BY <1>3, <2>5, ErrorByName, KindChecked
    <3>. QED  BY <1>1, <2>5, <3>1, LinkKept DEF FieldIsKept, IsHeld
  <2>6. CASE name = "prf"
    <3>1. LinksError(value) = "Ok"
      BY <1>3, <2>6, ErrorByName
    <3>. QED  BY <2>6, <3>1, LinksKept DEF FieldIsKept, IsHeld
  <2>7. CASE name = "pol"
    BY <1>1, <2>7, PolicyKept DEF FieldIsKept
  <2>. QED  BY <2>1, <2>2, <2>3, <2>4, <2>5, <2>6, <2>7 DEF FieldNames
<1>. QED  BY <1>2, <1>3

----------------------------------------------------------------------------
(* All fields of a payload.                                                *)

LEMMA FieldsByKind ==
  /\ FieldsOf("Delegation") = {"iss", "aud", "sub", "cmd", "pol", "nonce", "exp", "nbf", "meta"}
  /\ FieldsOf("Invocation") =
       {"iss", "sub", "aud", "cmd", "args", "prf", "meta", "nonce", "exp", "iat", "cause"}
<1>. DEFINE D == DelegationFields  I == InvocationFields
<1>1. DOMAIN D = 1 .. 9 /\ DOMAIN I = 1 .. 11
  BY DEF DelegationFields, InvocationFields
<1>2. /\ D[1] = "iss" /\ D[2] = "aud" /\ D[3] = "sub" /\ D[4] = "cmd" /\ D[5] = "pol"
      /\ D[6] = "nonce" /\ D[7] = "exp" /\ D[8] = "nbf" /\ D[9] = "meta"
  BY DEF DelegationFields
<1>3. /\ I[1] = "iss" /\ I[2] = "sub" /\ I[3] = "aud" /\ I[4] = "cmd" /\ I[5] = "args"
      /\ I[6] = "prf" /\ I[7] = "meta" /\ I[8] = "nonce" /\ I[9] = "exp" /\ I[10] = "iat"
      /\ I[11] = "cause"
  BY DEF InvocationFields
<1>4. FieldsOf("Delegation") = {D[k] : k \in 1 .. 9} /\ FieldsOf("Invocation") = {I[k] : k \in 1 .. 11}
  BY <1>1 DEF FieldsOf, ReadOrder, ToSet
<1>. HIDE DEF D, I
<1>5. 1 .. 9 = {1, 2, 3, 4, 5, 6, 7, 8, 9}
  OBVIOUS
<1>6. 1 .. 11 = {1, 2, 3, 4, 5, 6, 7, 8, 9, 10, 11}
  OBVIOUS
<1>7. {D[k] : k \in {1, 2, 3, 4, 5, 6, 7, 8, 9}} =
        {D[1], D[2], D[3], D[4], D[5], D[6], D[7], D[8], D[9]}
  OBVIOUS
<1>8. {I[k] : k \in {1, 2, 3, 4, 5, 6, 7, 8, 9, 10, 11}} =
        {I[1], I[2], I[3], I[4], I[5], I[6], I[7], I[8], I[9], I[10], I[11]}
  OBVIOUS
<1>. QED  BY <1>2, <1>3, <1>4, <1>5, <1>6, <1>7, <1>8

\* No error is the first only when there is none.
LEMMA NoFirstError ==
  ASSUME NEW S, NEW errors \in Seq(S), Len(errors) > 0, FirstError(errors) = "Ok"
  PROVE  \A k \in 1 .. Len(errors) : errors[k] = "Ok"
<1>. DEFINE bad == {k \in DOMAIN errors : errors[k] # "Ok"}
<1>1. Len(errors) \in Nat /\ DOMAIN errors = 1 .. Len(errors)
  OBVIOUS
<1>2. CASE ToSet(errors) = {"Ok"}
  BY <1>1, <1>2 DEF ToSet
<1>3. CASE ToSet(errors) # {"Ok"}
  <2>1. errors[Min(bad)] = "Ok"
    BY <1>3 DEF FirstError
  <2>2. bad # {}
    <3>1. SUFFICES ASSUME bad = {} PROVE FALSE
      OBVIOUS
    <3>2. \A k \in 1 .. Len(errors) : errors[k] = "Ok"
      BY <1>1, <3>1
    <3>3. ToSet(errors) = {errors[k] : k \in 1 .. Len(errors)}
      BY <1>1 DEF ToSet
    <3>4. 1 \in 1 .. Len(errors)
      BY <1>1
    <3>5. ToSet(errors) = {"Ok"}
      BY <3>2, <3>3, <3>4
    <3>. QED  BY <1>3, <3>5
  <2>3. bad \subseteq Nat
    BY <1>1
  <2>4. Min(bad) \in bad
    <3>. HIDE DEF bad
    <3>1. \E x \in bad : \A y \in bad : x <= y
      BY <2>2, <2>3, Least
    <3>. QED  BY <3>1 DEF Min
  <2>. QED  BY <2>1, <2>4
<1>. QED  BY <1>2, <1>3

LEMMA NoFieldError ==
  ASSUME NEW kind \in Kinds, NEW of, TypedError(kind, of) = "Ok"
  PROVE  /\ \A name \in FieldsOf(kind) : FieldError(kind, of, name) = "Ok"
         /\ DOMAIN of \subseteq {Field[name] : name \in FieldsOf(kind)}
<1>. DEFINE order == ReadOrder(kind)  n == IF kind = "Delegation" THEN 9 ELSE 11
            fields == [k \in DOMAIN order |-> FieldError(kind, of, order[k])]
            unknown == UnknownError(kind, of)
            errors == fields \o << unknown >>
            S == {fields[k] : k \in 1 .. n} \cup {unknown}
<1>1. DOMAIN DelegationFields = 1 .. 9 /\ DOMAIN InvocationFields = 1 .. 11
  BY DEF DelegationFields, InvocationFields
<1>2. n \in Nat /\ DOMAIN order = 1 .. n
  BY <1>1 DEF ReadOrder
<1>3. FieldsOf(kind) = {order[k] : k \in 1 .. n}
  BY <1>2 DEF FieldsOf, ToSet
<1>. HIDE DEF order, n
<1>4. fields = [k \in 1 .. n |-> FieldError(kind, of, order[k])]
  BY <1>2
<1>5. TypedError(kind, of) = FirstError(errors)
  BY DEF TypedError, order
<1>6. \A k \in 1 .. n : fields[k] = FieldError(kind, of, order[k]) /\ fields[k] \in S
  BY <1>4
<1>7. fields \in Seq(S) /\ Len(fields) = n /\ unknown \in S
  <2>1. \A k \in 1 .. n : FieldError(kind, of, order[k]) \in S
    BY <1>6
  <2>2. unknown \in S
    OBVIOUS
  <2>. HIDE DEF S, unknown
  <2>. QED  BY <1>2, <1>4, <2>1, <2>2
<1>. HIDE DEF S, fields, unknown
<1>8. errors \in Seq(S) /\ Len(errors) = n + 1 /\ errors[n + 1] = unknown
      /\ \A k \in 1 .. n : errors[k] = fields[k]
  BY <1>2, <1>7
<1>. HIDE DEF errors
<1>9. \A k \in 1 .. n + 1 : errors[k] = "Ok"
  BY <1>2, <1>5, <1>8, NoFirstError
<1>10. unknown = "Ok"
  BY <1>2, <1>8, <1>9
<1>11. \A k \in 1 .. n : FieldError(kind, of, order[k]) = "Ok"
  BY <1>2, <1>6, <1>8, <1>9
<1>12. DOMAIN of \subseteq {Field[name] : name \in FieldsOf(kind)}
  BY <1>10 DEF UnknownError, unknown
<1>. QED  BY <1>3, <1>11, <1>12

\* What is read of a payload, field by field.
PayloadOf(kind, of) ==
  [name \in FieldsOf(kind) |->
     IF Has(of, name) THEN Held(name, of[Field[name]]) ELSE IF name = "meta" THEN NoFacts ELSE None]

LEMMA PayloadRead ==
  ASSUME NEW kind, NEW of, IsOk(FromIpld(kind, of))
  PROVE  TypedError(kind, of) = "Ok" /\ FromIpld(kind, of).value = PayloadOf(kind, of)
<1>. DEFINE r == Read(PayloadOf(kind, of), 0)  e == TypedError(kind, of)
<1>1. FromIpld(kind, of) = IF e = "Ok" THEN r ELSE Fail(e)
  BY DEF FromIpld, Checked, PayloadOf
<1>. HIDE DEF e
<1>2. e = "Ok"
  BY <1>1, Results
<1>. QED  BY <1>1, <1>2, Results DEF e

IsFields(of) == IsMapping(of) /\ \A key \in DOMAIN of : IsField(of[key])

LEMMA FieldsKept ==
  ASSUME NoneIsNothing, NEW kind \in Kinds, NEW of, IsFields(of), TypedError(kind, of) = "Ok",
         NEW name \in FieldsOf(kind)
  PROVE  /\ Has(of, name) => /\ FieldIsKept(kind, name, of[Field[name]])
                             /\ ~IsForbidden(kind, of, name)
         /\ ~Has(of, name) => name \in OptionalIn(kind)
<1>1. FieldError(kind, of, name) = "Ok" /\ name \in FieldNames
  BY NoFieldError, FieldsByKind DEF FieldNames, Kinds
<1>2. ASSUME ~Has(of, name) PROVE name \in OptionalIn(kind)
  BY <1>1, <1>2 DEF FieldError
<1>3. ASSUME Has(of, name) PROVE FieldIsKept(kind, name, of[Field[name]]) /\ ~IsForbidden(kind, of, name)
  <2>. DEFINE value == of[Field[name]]  e == ValueError(kind, name, value)
  <2>1. FieldError(kind, of, name) =
          IF e # "Ok" THEN e ELSE IF IsForbidden(kind, of, name) THEN "Forbidden" ELSE "Ok"
    BY <1>3 DEF FieldError
  <2>. HIDE DEF e
  <2>2. e = "Ok" /\ ~IsForbidden(kind, of, name)
    BY <1>1, <2>1
  <2>3. IsField(value)
    BY <1>3 DEF IsFields, Has
  <2>. HIDE DEF value
  <2>4. FieldIsKept(kind, name, value)
    BY <1>1, <2>2, <2>3, FieldKept DEF e
  <2>. QED  BY <2>2, <2>4 DEF value
<1>. QED  BY <1>2, <1>3

\* The fields that are written of a payload.
WrittenNames(kind, payload) == {name \in FieldsOf(kind) : ~IsOmitted(kind, name, payload[name])}

LEMMA NamesWritten ==
  ASSUME NoneIsNothing, NEW kind \in Kinds, NEW of, IsFields(of), TypedError(kind, of) = "Ok",
         NEW name \in FieldsOf(kind), NEW held, held = PayloadOf(kind, of)[name]
  PROVE  /\ name # "meta" => (~IsOmitted(kind, name, held) <=> Has(of, name))
         /\ name = "meta" => (~IsOmitted(kind, name, held) <=> Has(of, name) /\ held # NoFacts)
         /\ kind = "Invocation" /\ name = "meta" /\ Has(of, name) => held # NoFacts
         /\ Has(of, name) => ValueOfField(name, held) = of[Field[name]]
<1>. DEFINE value == of[Field[name]]
<1>1. Has(of, name) => held = Held(name, value)
  BY DEF PayloadOf
<1>2. ~Has(of, name) => held = IF name = "meta" THEN NoFacts ELSE None
  BY DEF PayloadOf
<1>3. Has(of, name) => FieldIsKept(kind, name, value) /\ ~IsForbidden(kind, of, name)
  BY FieldsKept
<1>4. ~Has(of, name) => name \in OptionalIn(kind)
  BY FieldsKept
<1>5. ASSUME Has(of, name) PROVE ValueOfField(name, held) = value
  BY <1>1, <1>3, <1>5 DEF FieldIsKept, IsKept
<1>6. ASSUME name # "meta", Has(of, name) PROVE ~IsOmitted(kind, name, held)
  <2>1. held # None \/ name \in {"sub", "exp", "pol"}
    BY <1>1, <1>3, <1>6 DEF FieldIsKept, IsHeld
  <2>. HIDE DEF value
  <2>. QED  BY <1>6, <2>1 DEF IsOmitted
<1>7. ASSUME name # "meta", ~Has(of, name) PROVE IsOmitted(kind, name, held)
  <2>1. held = None
    BY <1>2, <1>7
  <2>2. name \in {"nbf", "iat", "cause"} \/ (kind = "Invocation" /\ name = "aud")
    BY <1>4, <1>7 DEF OptionalIn, Kinds
  <2>. QED  BY <2>1, <2>2 DEF IsOmitted
<1>8. ASSUME name = "meta", ~Has(of, name) PROVE IsOmitted(kind, name, held)
  BY <1>2, <1>8 DEF IsOmitted
<1>9. ASSUME name = "meta" PROVE IsOmitted(kind, name, held) <=> held = NoFacts
  BY <1>9 DEF IsOmitted
<1>10. ASSUME kind = "Invocation", name = "meta", Has(of, name) PROVE held # NoFacts
  <2>1. value.of # NoFacts
    BY <1>3, <1>10 DEF IsForbidden
  <2>2. value = Map(held)
    BY <1>1, <1>3, <1>10 DEF FieldIsKept
  <2>3. value.of = held
    BY <2>2, Kindred
  <2>. QED  BY <2>1, <2>3
<1>. HIDE DEF value
<1>. QED  BY <1>5, <1>6, <1>7, <1>8, <1>9, <1>10 DEF value

\* What is written of the names, by the names.
LEMMA FieldsWritten ==
  ASSUME NEW names, names \subseteq FieldNames, NEW payload
  PROVE  /\ MapOfFields(names, payload).kind = "map"
         /\ MapOfFields(names, payload) = Map(MapOfFields(names, payload).of)
         /\ IsMapping(MapOfFields(names, payload).of)
         /\ DOMAIN MapOfFields(names, payload).of = {Field[name] : name \in names}
         /\ \A name \in names :
              MapOfFields(names, payload).of[Field[name]] = ValueOfField(name, payload[name])
<1>. DEFINE NameOf(field) == CHOOSE name \in names : Field[name] = field
            keys == {Field[name] : name \in names}
            f == [field \in keys |-> ValueOfField(NameOf(field), payload[NameOf(field)])]
<1>1. MapOfFields(names, payload) = Map(f)
  BY DEF MapOfFields
<1>2. ASSUME NEW name \in names PROVE NameOf(Field[name]) = name
  <2>1. \A other \in names : Field[other] = Field[name] => other = name
    BY TokensAssumption
  <2>. QED  BY <2>1
<1>. HIDE DEF NameOf
<1>3. IsMapping(f) /\ DOMAIN f = keys
  BY DEF IsMapping
<1>4. ASSUME NEW name \in names PROVE f[Field[name]] = ValueOfField(name, payload[name])
  BY <1>2
<1>. HIDE DEF f
<1>. QED  BY <1>1, <1>3, <1>4, Kindred

\* A payload with empty facts added.
WithFacts(of) == Inserted(of, Field["meta"], Map(NoFacts))

LEMMA FactsAdded ==
  ASSUME NEW of
  PROVE  /\ IsMapping(WithFacts(of))
         /\ DOMAIN WithFacts(of) = DOMAIN of \cup {Field["meta"]}
         /\ WithFacts(of)[Field["meta"]] = Map(NoFacts)
         /\ \A key \in DOMAIN of : key # Field["meta"] => WithFacts(of)[key] = of[key]
<1>. DEFINE meta == Field["meta"]  empty == Map(NoFacts)
            f == [k \in DOMAIN of \cup {meta} |-> IF k = meta THEN empty ELSE of[k]]
<1>1. WithFacts(of) = f
  BY DEF WithFacts, Inserted
<1>. HIDE DEF meta, empty
<1>2. /\ IsMapping(f) /\ DOMAIN f = DOMAIN of \cup {meta} /\ f[meta] = empty
      /\ \A key \in DOMAIN of : key # meta => f[key] = of[key]
  BY DEF IsMapping
<1>. HIDE DEF f
<1>. QED  BY <1>1, <1>2 DEF meta, empty

\* The names that are written say the same as those that were read, but for
\* empty facts.
SaysTheSame(kind, of, payload, names, dropped) ==
  /\ names \subseteq FieldNames /\ names \subseteq FieldsOf(kind) /\ "meta" \in FieldsOf(kind)
  /\ \A name \in FieldsOf(kind) :
       /\ name \in names <=> Has(of, name) /\ ~(name = "meta" /\ dropped)
       /\ Has(of, name) => ValueOfField(name, payload[name]) = of[Field[name]]
  /\ dropped => kind = "Delegation" /\ of[Field["meta"]] = Map(NoFacts)

LEMMA AllIsSaid ==
  ASSUME NoneIsNothing, NEW kind \in Kinds, NEW of, IsFields(of), TypedError(kind, of) = "Ok",
         NEW payload, payload = PayloadOf(kind, of),
         NEW dropped, dropped = (Has(of, "meta") /\ payload["meta"] = NoFacts)
  PROVE  SaysTheSame(kind, of, payload, WrittenNames(kind, payload), dropped)
<1>. DEFINE names == WrittenNames(kind, payload)
<1>1. names \subseteq FieldsOf(kind) /\ FieldsOf(kind) \subseteq FieldNames /\ "meta" \in FieldsOf(kind)
  BY FieldsByKind DEF WrittenNames, FieldNames, Kinds
<1>2. ASSUME NEW name \in FieldsOf(kind)
      PROVE  /\ name \in names <=> Has(of, name) /\ ~(name = "meta" /\ dropped)
             /\ Has(of, name) => ValueOfField(name, payload[name]) = of[Field[name]]
  <2>1. name \in names <=> ~IsOmitted(kind, name, payload[name])
    BY DEF WrittenNames
  <2>. HIDE DEF names
  <2>2. name # "meta" => (~IsOmitted(kind, name, payload[name]) <=> Has(of, name))
    BY NamesWritten
  <2>3. name = "meta" =>
          (~IsOmitted(kind, name, payload[name]) <=> Has(of, name) /\ payload[name] # NoFacts)
    BY NamesWritten
  <2>4. Has(of, name) => ValueOfField(name, payload[name]) = of[Field[name]]
    BY NamesWritten
  <2>. QED  BY <2>1, <2>2, <2>3, <2>4
<1>3. ASSUME dropped PROVE kind = "Delegation" /\ of[Field["meta"]] = Map(NoFacts)
  <2>1. kind # "Invocation"
    BY <1>1, <1>3, NamesWritten
  <2>2. FieldIsKept(kind, "meta", of[Field["meta"]])
    BY <1>1, <1>3, FieldsKept
  <2>3. payload["meta"] = Held("meta", of[Field["meta"]])
    BY <1>1, <1>3 DEF PayloadOf
  <2>. QED  BY <1>3, <2>1, <2>2, <2>3 DEF FieldIsKept, Kinds
<1>. QED  BY <1>1, <1>2, <1>3 DEF SaysTheSame

\* All that is read of a payload is written, but for empty facts.
IsWrittenBack(kind, of, w) == Map(of) = w \/ (kind = "Delegation" /\ Map(of) = Map(WithFacts(w.of)))

LEMMA AllIsWritten ==
  ASSUME NoneIsNothing, NEW kind \in Kinds, NEW of, IsFields(of), TypedError(kind, of) = "Ok"
  PROVE  IsWrittenBack(kind, of, ToIpld(kind, PayloadOf(kind, of)))
<1>. DEFINE payload == PayloadOf(kind, of)  names == WrittenNames(kind, payload)
            dropped == Has(of, "meta") /\ payload["meta"] = NoFacts
            w == ToIpld(kind, payload)  meta == Field["meta"]
<1>1. w = MapOfFields(names, payload)
  BY DEF ToIpld, WrittenNames
<1>. HIDE DEF payload
<1>2. SaysTheSame(kind, of, payload, names, dropped)
  <2>. HIDE DEF names, dropped
  <2>. QED  BY AllIsSaid DEF payload, names, dropped
<1>. HIDE DEF names, dropped, w
<1>3. names \subseteq FieldNames
  BY <1>2 DEF SaysTheSame
<1>4. w = Map(w.of) /\ IsMapping(w.of) /\ DOMAIN w.of = {Field[name] : name \in names}
  BY <1>1, <1>3, FieldsWritten
<1>5. ASSUME NEW name \in names PROVE w.of[Field[name]] = of[Field[name]]
  <2>1. w.of[Field[name]] = ValueOfField(name, payload[name])
    BY <1>1, <1>3, FieldsWritten
  <2>. QED  BY <1>2, <2>1 DEF SaysTheSame
<1>6. DOMAIN of \subseteq {Field[name] : name \in FieldsOf(kind)}
  BY NoFieldError
<1>7. \A name \in FieldsOf(kind) : Has(of, name) <=> Field[name] \in DOMAIN of
  BY DEF Has
<1>8. IsMapping(of)
  BY DEF IsFields
<1>9. \A name \in FieldsOf(kind) : name \in names <=> Has(of, name) /\ ~(name = "meta" /\ dropped)
  BY <1>2 DEF SaysTheSame
<1>10. names \subseteq FieldsOf(kind)
  BY <1>2 DEF SaysTheSame
<1>11. ASSUME ~dropped PROVE IsWrittenBack(kind, of, w)
  <2>1. DOMAIN w.of = DOMAIN of
    BY <1>4, <1>6, <1>7, <1>9, <1>10, <1>11
  <2>2. \A key \in DOMAIN of : w.of[key] = of[key]
    BY <1>4, <1>5, <2>1
  <2>3. w.of = of
    BY <1>4, <1>8, <2>1, <2>2 DEF IsMapping
  <2>. QED  BY <1>4, <2>3 DEF IsWrittenBack
<1>12. ASSUME dropped PROVE IsWrittenBack(kind, of, w)
  <2>. DEFINE all == WithFacts(w.of)
  <2>1. of[meta] = Map(NoFacts) /\ kind = "Delegation"
    BY <1>2, <1>12 DEF SaysTheSame
  <2>2. /\ IsMapping(all) /\ DOMAIN all = DOMAIN w.of \cup {meta} /\ all[meta] = Map(NoFacts)
        /\ \A key \in DOMAIN w.of : key # meta => all[key] = w.of[key]
    BY FactsAdded
  <2>. HIDE DEF all
  <2>3. meta \in DOMAIN of
    BY <1>12 DEF dropped, Has
  <2>4. \A name \in FieldsOf(kind) : name # "meta" => (name \in names <=> Field[name] \in DOMAIN of)
    BY <1>7, <1>9
  <2>5. DOMAIN all \subseteq DOMAIN of
    BY <1>4, <1>7, <1>9, <1>10, <2>2, <2>3
  <2>6. DOMAIN of \subseteq DOMAIN all
    BY <1>4, <1>6, <2>2, <2>4
  <2>7. \A key \in DOMAIN of : all[key] = of[key]
    <3>1. \A key \in DOMAIN w.of : w.of[key] = of[key]
      BY <1>4, <1>5
    <3>. QED  BY <2>1, <2>2, <2>5, <2>6, <3>1
  <2>8. all = of
    BY <1>8, <2>2, <2>5, <2>6, <2>7 DEF IsMapping
  <2>. QED  BY <2>1, <2>8 DEF all, IsWrittenBack
<1>. QED  BY <1>11, <1>12 DEF w, payload

----------------------------------------------------------------------------
(* The form of what is read.                                               *)

\* x is what is read somewhere of a value nested in this one.
IsPartRead(s, item, x) == \E p \in 0 .. Len(s) : IsOk(item[p]) /\ item[p].value = x

\* A value of a form, whose parts are what was read of nested ones.
IsShaped(s, item, v) ==
  /\ HasForm(v) /\ IsTextual(v)
  /\ v.kind = "list" => \A k \in DOMAIN v.items : IsPartRead(s, item, v.items[k])
  /\ v.kind = "map" => \A key \in DOMAIN v.of : IsPartRead(s, item, v.of[key])

LEMMA SimpleShape ==
  ASSUME NEW s, NEW p, NEW item, NEW info, NEW r, r = SimpleAt(s, p, info), IsOk(r)
  PROVE  IsShaped(s, item, r.value)
<1>. DEFINE named == info \in {SimpleInfo("false"), SimpleInfo("true"), SimpleInfo("null")}
            t == Take(s, p, FloatBytes)
<1>1. CASE named
  <2>. DEFINE n == CHOOSE name \in {"false", "true", "null"} : info = SimpleInfo(name)
  <2>1. r = Read(Simple(n), p)
    BY <1>1 DEF SimpleAt
  <2>2. n \in {"false", "true", "null"}
    BY <1>1
  <2>. HIDE DEF n
  <2>. QED  BY <2>1, <2>2, Results, Kindred DEF IsShaped, HasForm, IsTextual
<1>2. CASE ~named /\ info = FloatInfo
  <2>1. r = Then(t, LAMBDA b, at : IF IsFloat(b) THEN Read(Float(b), at) ELSE Fail("InvalidFloat"))
    BY <1>2 DEF SimpleAt
  <2>. HIDE DEF t
  <2>2. IsOk(t)
    BY <2>1 DEF Then
  <2>3. r = IF IsFloat(t.value) THEN Read(Float(t.value), t.pos) ELSE Fail("InvalidFloat")
    BY <2>1, <2>2 DEF Then
  <2>4. r.value = Float(t.value)
    BY <2>3, Results
  <2>. QED  BY <2>4, Kindred DEF IsShaped, HasForm, IsTextual
<1>3. CASE ~named /\ info # FloatInfo
  <2>1. r = Fail("InvalidFloat") \/ r = Fail("IndefiniteLength") \/ r = Fail("UnsupportedSimple")
    BY <1>3 DEF SimpleAt
  <2>. QED  BY <2>1, Results
<1>. QED  BY <1>1, <1>2, <1>3

LEMMA LinkShape ==
  ASSUME NEW s, NEW p, NEW item, NEW tag, NEW r, r = LinkAt(s, p, tag), IsOk(r)
  PROVE  IsShaped(s, item, r.value)
<1>. DEFINE u == Renamed(StringAt(s, p, 2), "UnexpectedType", "InvalidCid")
<1>1. r = IF tag # CidTag THEN Fail("UnsupportedTag")
          ELSE Then(u, LAMBDA raw, at :
                 IF raw # << >> /\ raw[1] = 0 /\ IsCid(Tail(raw))
                 THEN Read(Link(CidIn(Tail(raw))), at) ELSE Fail("InvalidCid"))
  BY DEF LinkAt
<1>. HIDE DEF u
<1>2. ~(tag # CidTag) /\ IsOk(u)
  BY <1>1, Results DEF Then
<1>. DEFINE raw == u.value  ok == raw # << >> /\ raw[1] = 0 /\ IsCid(Tail(raw))
<1>3. r = IF ok THEN Read(Link(CidIn(Tail(raw))), u.pos) ELSE Fail("InvalidCid")
  BY <1>1, <1>2 DEF Then
<1>4. ok /\ r.value = Link(CidIn(Tail(raw)))
  <2>. HIDE DEF ok
  <2>. QED  BY <1>3, Results
<1>5. CidIn(Tail(raw)) \in Cids
  <2>1. \E cid \in Cids : IsPrefix(cid, Tail(raw))
    BY <1>4 DEF IsCid
  <2>. QED  BY <2>1, Zenon DEF CidIn
<1>. QED  BY <1>4, <1>5, Kindred DEF IsShaped, HasForm, IsTextual

\* What can be the items of a list.
IsSequence(f) == \E n \in Nat : Len(f) = n /\ f = [k \in 1 .. n |-> f[k]]

LEMMA ListShape ==
  ASSUME NEW s \in Seq(Byte), NEW at \in 0 .. Len(s), NEW len \in Nat, NEW item, Onward(s, item),
         NEW r, r = Items(s, at, len, item), IsOk(r)
  PROVE  /\ IsMapping(r.value) /\ IsSequence(r.value)
         /\ \A k \in DOMAIN r.value : IsPartRead(s, item, r.value[k])
<1>1. PICK q : ItemsRead(s, item, at, len, r, q)
  BY ItemsOk
<1>2. /\ r.value \in Seq({item[p].value : p \in 0 .. Len(s)}) /\ Len(r.value) = len
      /\ \A k \in 1 .. len : Nested(s, item, q[k - 1], q[k], r.value[k])
  BY <1>1 DEF ItemsRead
<1>3. IsMapping(r.value) /\ DOMAIN r.value = 1 .. len
  BY <1>2 DEF IsMapping
<1>4. IsSequence(r.value)
  BY <1>2, <1>3 DEF IsSequence, IsMapping
<1>. QED  BY <1>2, <1>3, <1>4 DEF Nested, IsPartRead

LEMMA EntryMaps ==
  ASSUME NEW s, NEW p, NEW item, NEW done, NEW r, r = Entry(s, p, done, item), IsOk(r)
  PROVE  IsMapping(r.value.of)
<1>. DEFINE u == Renamed(Utf8(StringAt(s, p, 3)), "UnexpectedType", "NonStringKey")  x == item[u.pos]
            bad == done.previous # << >> /\ Misorder(u.value, done.previous[1]) # "Ok"
<1>1. r = Then(u, LAMBDA key, at :
            IF done.previous # << >> /\ Misorder(key, done.previous[1]) # "Ok"
            THEN Fail(Misorder(key, done.previous[1]))
            ELSE Then(item[at], LAMBDA next, after :
                   Read([of |-> Inserted(done.of, key, next), previous |-> << key >>], after)))
  BY DEF Entry
<1>2. IsOk(u)
  <2>. HIDE DEF u
  <2>. QED  BY <1>1 DEF Then
<1>3. r = IF bad THEN Fail(Misorder(u.value, done.previous[1]))
          ELSE Then(x, LAMBDA next, after :
                 Read([of |-> Inserted(done.of, u.value, next), previous |-> << u.value >>], after))
  <2>. HIDE DEF u
  <2>. QED  BY <1>1, <1>2 DEF Then
<1>. HIDE DEF u, x
<1>4. ~bad
  <2>1. ASSUME bad PROVE FALSE
    <3>1. r = Fail(Misorder(u.value, done.previous[1]))
      BY <1>3, <2>1
    <3>. QED  BY <2>1, <3>1, Results
  <2>. QED  BY <2>1
<1>. HIDE DEF bad
<1>5. r = Read([of |-> Inserted(done.of, u.value, x.value), previous |-> << u.value >>], x.pos)
  <2>1. IsOk(x)
    BY <1>3, <1>4 DEF Then
  <2>. QED  BY <1>3, <1>4, <2>1 DEF Then
<1>6. r.value.of = Inserted(done.of, u.value, x.value)
  <2>1. \A of, key : [of |-> of, previous |-> << key >>].of = of
    OBVIOUS
  <2>. QED  BY <1>5, <2>1, Results
<1>7. \A f, key, next : IsMapping(Inserted(f, key, next))
  BY DEF IsMapping, Inserted
<1>. QED  BY <1>6, <1>7

LEMMA EntriesMap ==
  ASSUME NEW s, NEW pos, NEW item, NEW len \in Nat, NEW r, r = Entries(s, pos, len, item), IsOk(r)
  PROVE  IsMapping(r.value)
<1>. DEFINE F == CHOOSE f : IsEntries(f, s, pos, len, item)
<1>1. r = Then(F[len], LAMBDA done, at : Read(done.of, at))
  BY Zenon DEF Entries, IsEntries, EntriesStep, NoEntries
<1>2. IsEntries(F, s, pos, len, item)
  BY EntriesExist
<1>. HIDE DEF F
<1>3. /\ F[0] = NoEntries(pos)
      /\ \A k \in 1 .. len : F[k] = EntriesStep(s, F[k - 1], item)
  BY <1>2, EntriesAt
<1>4. IsOk(F[len]) /\ r.value = F[len].value.of
  <2>1. IsOk(F[len])
    BY <1>1 DEF Then
  <2>2. r = Read(F[len].value.of, F[len].pos)
    BY <1>1, <2>1 DEF Then
  <2>. QED  BY <2>1, <2>2, Results
<1>5. CASE len = 0
  <2>1. r.value = << >>
    BY <1>3, <1>4, <1>5 DEF NoEntries, Read
  <2>. QED  BY <2>1 DEF IsMapping
<1>6. CASE len # 0
  <2>. DEFINE f == F[len]  g == F[len - 1]
  <2>1. f = EntriesStep(s, g, item)
    BY <1>3, <1>6
  <2>. HIDE DEF f, g
  <2>2. IsOk(f) /\ r.value = f.value.of
    BY <1>4 DEF f
  <2>3. f = Entry(s, g.pos, g.value, item)
    BY <2>1, <2>2 DEF EntriesStep, Then
  <2>. QED  BY <2>2, <2>3, EntryMaps
<1>. QED  BY <1>5, <1>6

LEMMA MapShape ==
  ASSUME NEW s \in Seq(Byte), NEW at \in 0 .. Len(s), NEW len \in Nat, NEW item, Onward(s, item),
         NEW r, r = Entries(s, at, len, item), IsOk(r)
  PROVE  /\ IsMapping(r.value) /\ IsFiniteSet(DOMAIN r.value) /\ DOMAIN r.value \subseteq Seq(Byte)
         /\ \A key \in DOMAIN r.value : IsPartRead(s, item, r.value[key])
<1>1. PICK a, ks, m, q : EntriesRead(s, item, at, len, a, ks, m, q) /\ r = Read(a.value.of, a.pos)
  BY EntriesOk
<1>2. r.value = a.value.of
  BY <1>1, Results
<1>3. /\ DOMAIN r.value = FirstOf(ks, len)
      /\ \A k \in 1 .. len : Pair(s, item, q[k - 1], m[k], q[k], ks[k], r.value[ks[k]])
  BY <1>1, <1>2 DEF EntriesRead
<1>4. ASSUME NEW key \in DOMAIN r.value PROVE IsPartRead(s, item, r.value[key])
  <2>1. PICK k \in 1 .. len : key = ks[k]
    BY <1>3 DEF FirstOf
  <2>2. Nested(s, item, m[k], q[k], r.value[key])
    BY <1>3, <2>1 DEF Pair
  <2>. QED  BY <2>2 DEF Nested, IsPartRead
<1>5. IsFiniteSet(DOMAIN r.value) /\ DOMAIN r.value \subseteq Seq(Byte)
  <2>1. Increasing(ks, len) /\ len \in 0 .. len
    BY <1>1 DEF EntriesRead
  <2>2. IsFiniteSet(FirstOf(ks, len))
    BY <2>1, IncreasingCount
  <2>3. FirstOf(ks, len) \subseteq Seq(Byte)
    BY <2>1 DEF Increasing, FirstOf, Strings
  <2>. QED  BY <1>3, <2>2, <2>3
<1>. QED  BY <1>4, <1>5, EntriesMap

\* What is read has a form, and its parts are what is read one deeper.
LEMMA ItemShape ==
  ASSUME NEW s \in Seq(Byte), NEW p \in 0 .. Len(s), NEW depth \in Nat, NEW item, Onward(s, item),
         NEW r, r = ItemFrom(s, p, depth, item), IsOk(r)
  PROVE  depth <= MaxDepth /\ IsShaped(s, item, r.value)
<1>. DEFINE h == HeadAt(s, p)  at == h.pos  arg == h.value.arg  m == h.value.major
<1>1. p \in Nat /\ Len(s) \in Nat
  BY BytesType
<1>2. depth <= MaxDepth /\ p < Len(s) /\ ~(depth > MaxDepth) /\ ~(p >= Len(s))
  <2>1. depth > MaxDepth \/ p >= Len(s) => r = Fail("NestingTooDeep") \/ r = Fail("UnexpectedEnd")
    BY DEF ItemFrom
  <2>. QED  BY <1>1, <2>1, Results, BaseType
<1>3. CASE Major(s, p) = 7
  <2>1. r = SimpleAt(s, p + 1, Info(s, p))
    BY <1>2, <1>3 DEF ItemFrom
  <2>. QED  BY <1>2, <2>1, SimpleShape
<1>4. CASE Major(s, p) # 7
  <2>1. r = Then(h, LAMBDA head, at1 :
         CASE head.major = 0 -> Read(Integer(head.arg), at1)
           [] head.major = 1 -> Read(Integer(-1 - head.arg), at1)
           [] head.major = 2 -> As(Take(s, at1, head.arg), Bytes)
           [] head.major = 3 -> As(Utf8(Take(s, at1, head.arg)), Text)
           [] head.major = 4 -> As(Items(s, at1, head.arg, item), List)
           [] head.major = 5 -> As(Entries(s, at1, head.arg, item), Map)
           [] head.major = 6 -> LinkAt(s, at1, head.arg))
    BY <1>2, <1>4, Zenon DEF ItemFrom
  <2>2. IsOk(h)
    <3>. HIDE DEF h
    <3>. QED  BY <2>1 DEF Then
  <2>3. m \in 0 .. 6 /\ arg \in Nat /\ at \in 0 .. Len(s)
    <3>1. IsHead(s, p, h)
      BY <2>2, HeadOk
    <3>. HIDE DEF h
    <3>. QED  BY <3>1, SpansType DEF IsHead
  <2>. DEFINE t == Take(s, at, arg)  l == Items(s, at, arg, item)  e == Entries(s, at, arg, item)
  <2>4. r = CASE m = 0 -> Read(Integer(arg), at)
              [] m = 1 -> Read(Integer(-1 - arg), at)
              [] m = 2 -> As(t, Bytes)
              [] m = 3 -> As(Utf8(t), Text)
              [] m = 4 -> As(l, List)
              [] m = 5 -> As(e, Map)
              [] m = 6 -> LinkAt(s, at, arg)
    <3>. HIDE DEF h
    <3>. QED  BY <2>1, <2>2, Zenon DEF Then
  <2>. HIDE DEF h, at, arg, m
  <2>5. IsOk(t) => t.value \in Seq(Byte)
    <3>1. ASSUME IsOk(t) PROVE t.value \in Seq(Byte)
      <4>1. Spans(s, at, at + arg) /\ t = Read(Part(s, at, at + arg), at + arg)
        BY <2>3, <3>1, TakeOk
      <4>2. Part(s, at, at + arg) \in Seq(Byte)
        BY <4>1, PartType
      <4>. HIDE DEF t
      <4>. QED  BY <4>1, <4>2, Results
    <3>. QED  BY <3>1
  <2>6. IsOk(l) => IsMapping(l.value) /\ IsSequence(l.value) /\ \A k \in DOMAIN l.value : IsPartRead(s, item, l.value[k])
    BY <2>3, ListShape
  <2>7. IsOk(e) => /\ IsMapping(e.value) /\ IsFiniteSet(DOMAIN e.value) /\ DOMAIN e.value \subseteq Seq(Byte)
                   /\ \A key \in DOMAIN e.value : IsPartRead(s, item, e.value[key])
    BY <2>3, MapShape
  <2>. HIDE DEF t, l, e
  <2>8. CASE m \in {0, 1}
    <3>1. PICK n \in Int : r = Read(Integer(n), at)
      <4>1. CASE m = 0
        BY <2>3, <2>4, <4>1
      <4>2. CASE m = 1
        <5>1. r = Read(Integer(-1 - arg), at)
          BY <2>4, <4>2
        <5>. QED  BY <2>3, <5>1
      <4>. QED  BY <2>8, <4>1, <4>2
    <3>. QED  BY <1>2, <3>1, Results, Kindred DEF IsShaped, HasForm, IsTextual
  <2>9. CASE m = 2
    <3>1. r = As(t, Bytes)
      BY <2>4, <2>9
    <3>2. IsOk(t)
      BY <3>1 DEF As, Then
    <3>3. r.value = Bytes(t.value)
      BY <3>1, <3>2, Results DEF As, Then
    <3>. QED  BY <1>2, <2>5, <3>2, <3>3, Kindred DEF IsShaped, HasForm, IsTextual
  <2>10. CASE m = 3
    <3>. DEFINE u == Utf8(t)
    <3>1. r = As(u, Text)
      BY <2>4, <2>10
    <3>2. IsOk(u) => IsOk(t) /\ u = t
      BY Unchecked
    <3>. HIDE DEF u
    <3>3. IsOk(u)
      BY <3>1 DEF As, Then
    <3>4. r.value = Text(t.value)
      BY <3>1, <3>2, <3>3, Results DEF As, Then
    <3>. QED  BY <1>2, <2>5, <3>2, <3>3, <3>4, Kindred DEF IsShaped, HasForm, IsTextual
  <2>11. CASE m = 4
    <3>1. r = As(l, List)
      BY <2>4, <2>11
    <3>2. IsOk(l)
      BY <3>1 DEF As, Then
    <3>3. r.value = List(l.value)
      BY <3>1, <3>2, Results DEF As, Then
    <3>. DEFINE v == r.value
    <3>4. v.kind = "list" /\ v = List(v.items) /\ IsSequence(v.items) /\ v.items = l.value
      BY <2>6, <3>2, <3>3, Kindred
    <3>. HIDE DEF v
    <3>5. IsTextual(v)
      BY <3>4 DEF IsTextual, IsSequence
    <3>. QED  BY <1>2, <2>6, <3>2, <3>4, <3>5 DEF IsShaped, HasForm, v
  <2>12. CASE m = 5
    <3>1. r = As(e, Map)
      BY <2>4, <2>12
    <3>2. IsOk(e)
      BY <3>1 DEF As, Then
    <3>3. r.value = Map(e.value)
      BY <3>1, <3>2, Results DEF As, Then
    <3>. QED  BY <1>2, <2>7, <3>2, <3>3, Kindred DEF IsShaped, HasForm, IsTextual, IsMapping
  <2>13. CASE m = 6
    <3>1. r = LinkAt(s, at, arg)
      BY <2>4, <2>13
    <3>. QED  BY <1>2, <3>1, LinkShape
  <2>. QED  BY <2>3, <2>8, <2>9, <2>10, <2>11, <2>12, <2>13
<1>. QED  BY <1>3, <1>4

\* A map that is read is one of fields.
LEMMA MapOfFieldsRead ==
  ASSUME NEW s \in Seq(Byte), NEW p \in 0 .. Len(s), NEW r, r = Item(s, p, 0), IsOk(r),
         r.value.kind = "map"
  PROVE  r.value = Map(r.value.of) /\ IsFields(r.value.of)
<1>. DEFINE R == CHOOSE f : IsReading(f, s, 0)
            L == CHOOSE f : IsLevels(f, 0, MaxDepth + 1)
            W == CHOOSE f : IsWriting(f, L, 0)
<1>1. r = R[0][p]
  BY Zenon DEF Item, IsReading, ReadLevel
<1>2. MaxDepth \in Nat /\ MaxDepth + 1 \in Nat /\ 0 \in 0 .. MaxDepth + 1 /\ 1 \in 0 .. MaxDepth + 1
  BY BaseType
<1>3. IsReading(R, s, 0)
  BY ReadingExists
<1>4. IsLevels(L, 0, MaxDepth + 1)
  BY <1>2, LevelsExist
<1>. HIDE DEF L
<1>5. IsWriting(W, L, 0)
  BY WritingExists
<1>. HIDE DEF R, W
<1>6. \A depth \in 0 .. MaxDepth + 1 : Onward(s, R[depth])
  BY <1>3, <1>4, <1>5, LevelsForm
<1>7. \A depth \in 0 .. MaxDepth + 1 : R[depth] = ReadLevel(s, depth, R[depth + 1])
  BY <1>2, <1>3, ReadingAt
<1>8. ASSUME NEW depth \in Nat, depth <= MaxDepth, NEW x, IsPartRead(s, R[depth], x)
      PROVE  IsShaped(s, R[depth + 1], x)
  <2>1. PICK q \in 0 .. Len(s) : IsOk(R[depth][q]) /\ R[depth][q].value = x
    BY <1>8 DEF IsPartRead
  <2>2. depth \in 0 .. MaxDepth + 1 /\ depth + 1 \in 0 .. MaxDepth + 1
    BY <1>2, <1>8
  <2>3. R[depth][q] = ItemFrom(s, q, depth, R[depth + 1])
    BY <1>7, <2>2 DEF ReadLevel
  <2>. QED  BY <1>6, <2>1, <2>2, <2>3, ItemShape
<1>9. ASSUME NEW x, IsPartRead(s, R[1], x) PROVE 1 <= MaxDepth
  <2>1. PICK q \in 0 .. Len(s) : IsOk(R[1][q])
    BY <1>9 DEF IsPartRead
  <2>2. R[1][q] = ItemFrom(s, q, 1, R[2])
    <3>1. R[1] = ReadLevel(s, 1, R[2])
      BY <1>2, <1>7
    <3>. QED  BY <3>1 DEF ReadLevel
  <2>3. ~(1 > MaxDepth)
    BY <2>1, <2>2, Results DEF ItemFrom
  <2>. QED  BY <1>2, <2>3
<1>10. IsPartRead(s, R[0], r.value)
  BY <1>1 DEF IsPartRead
<1>11. IsShaped(s, R[1], r.value)
  <2>1. IsShaped(s, R[0 + 1], r.value)
    BY <1>2, <1>8, <1>10
  <2>. QED  BY <2>1
<1>12. ASSUME NEW x, IsPartRead(s, R[1], x) PROVE IsField(x)
  <2>1. 1 <= MaxDepth
    BY <1>9, <1>12
  <2>2. IsShaped(s, R[2], x)
    <3>1. IsShaped(s, R[1 + 1], x)
      BY <1>8, <1>12, <2>1
    <3>. QED  BY <3>1
  <2>3. ASSUME NEW y, IsPartRead(s, R[2], y) PROVE HasForm(y)
    <3>1. PICK q \in 0 .. Len(s) : IsOk(R[2][q]) /\ R[2][q].value = y
      BY <2>3 DEF IsPartRead
    <3>2. 2 \in 0 .. MaxDepth + 1
      BY <1>2, <2>1
    <3>3. R[2] = ReadLevel(s, 2, R[3])
      <4>1. R[2] = ReadLevel(s, 2, R[2 + 1])
        BY <1>7, <3>2
      <4>. QED  BY <4>1
    <3>4. R[2][q] = ItemFrom(s, q, 2, R[3])
      BY <3>3 DEF ReadLevel
    <3>5. ~(2 > MaxDepth)
      BY <3>1, <3>4, Results DEF ItemFrom
    <3>6. IsShaped(s, R[2 + 1], y)
      BY <1>2, <1>8, <2>3, <3>5
    <3>. QED  BY <3>6 DEF IsShaped
  <2>. QED  BY <2>2, <2>3 DEF IsField, IsShaped
<1>13. r.value = Map(r.value.of) /\ IsMapping(r.value.of)
  BY <1>11, FormByKind DEF IsShaped
<1>. QED  BY <1>11, <1>12, <1>13 DEF IsShaped, IsFields

----------------------------------------------------------------------------
(* What the program can hold, of what is nested in it.                     *)

\* Down to a depth.
IsValueTo(v, n) == \A depth \in 0 .. n : \A x \in LevelsOf(v)[depth] : IsNode(x)

\* What is deeper in a value is in one of its parts.
UnderParts(v, d) == UNION {LevelsOf(x)[d] : x \in Parts(v)}

LEMMA LevelsUnder ==
  ASSUME NEW v
  PROVE  \A d \in 0 .. MaxDepth : LevelsOf(v)[d + 1] = UnderParts(v, d)
<1>. DEFINE S == {d \in 0 .. MaxDepth : LevelsOf(v)[d + 1] = UnderParts(v, d)}
<1>1. MaxDepth \in Nat
  BY BaseType
<1>2. 0 \in S
  <2>1. LevelsOf(v)[0 + 1] = UNION {Parts(x) : x \in {v}}
    <3>1. 1 \in 1 .. MaxDepth + 1 /\ 1 - 1 = 0 /\ 0 + 1 = 1
      BY <1>1
    <3>2. LevelsOf(v)[1] = UNION {Parts(x) : x \in LevelsOf(v)[1 - 1]}
      BY <3>1, LevelsRule
    <3>. QED  BY <3>1, <3>2, LevelsRule
  <2>2. UnderParts(v, 0) = UNION {{x} : x \in Parts(v)}
    BY LevelsRule DEF UnderParts
  <2>. QED  BY <1>1, <2>1, <2>2
<1>3. ASSUME NEW d \in 0 .. MaxDepth, d \in S, d + 1 <= MaxDepth PROVE d + 1 \in S
  <2>. DEFINE e == d + 1
  <2>1. e \in 1 .. MaxDepth + 1 /\ e + 1 \in 1 .. MaxDepth + 1 /\ e - 1 = d /\ (e + 1) - 1 = e /\ e \in 0 .. MaxDepth
    BY <1>1, <1>3
  <2>2. LevelsOf(v)[e] = UnderParts(v, d)
    BY <1>3
  <2>. HIDE DEF e
  <2>3. LevelsOf(v)[e + 1] = UNION {Parts(y) : y \in LevelsOf(v)[e]}
    BY <2>1, LevelsRule
  <2>4. ASSUME NEW x PROVE LevelsOf(x)[e] = UNION {Parts(y) : y \in LevelsOf(x)[d]}
    BY <2>1, LevelsRule
  <2>5. LevelsOf(v)[e + 1] = UNION {Parts(y) : y \in UNION {LevelsOf(x)[d] : x \in Parts(v)}}
    BY <2>2, <2>3 DEF UnderParts
  <2>6. UnderParts(v, e) = UNION {UNION {Parts(y) : y \in LevelsOf(x)[d]} : x \in Parts(v)}
    BY <2>4 DEF UnderParts
  <2>7. UNION {Parts(y) : y \in UNION {LevelsOf(x)[d] : x \in Parts(v)}}
          = UNION {UNION {Parts(y) : y \in LevelsOf(x)[d]} : x \in Parts(v)}
    OBVIOUS
  <2>8. LevelsOf(v)[e + 1] = UnderParts(v, e)
    BY <2>5, <2>6, <2>7
  <2>. QED  BY <2>1, <2>8 DEF e
<1>. HIDE DEF S
<1>4. 0 .. MaxDepth \subseteq S
  BY <1>1, <1>2, <1>3, InductionUpTo
<1>. QED  BY <1>4 DEF S

LEMMA ValueByParts ==
  ASSUME NEW v
  PROVE  IsValue(v) <=> IsNode(v) /\ \A x \in Parts(v) : IsValueTo(x, MaxDepth)
<1>1. MaxDepth \in Nat /\ \A d \in 0 .. MaxDepth : d + 1 \in 1 .. MaxDepth + 1
  BY BaseType
<1>2. \A d \in 0 .. MaxDepth + 1 : d = 0 \/ (d - 1 \in 0 .. MaxDepth /\ (d - 1) + 1 = d)
  BY <1>1
<1>3. LevelsOf(v)[0] = {v}
  BY LevelsRule
<1>4. \A d \in 0 .. MaxDepth : LevelsOf(v)[d + 1] = UnderParts(v, d)
  BY LevelsUnder
<1>5. ASSUME IsValue(v) PROVE IsNode(v) /\ \A x \in Parts(v) : IsValueTo(x, MaxDepth)
  <2>1. IsNode(v)
    BY <1>1, <1>3, <1>5 DEF IsValue
  <2>2. ASSUME NEW x \in Parts(v), NEW d \in 0 .. MaxDepth, NEW y \in LevelsOf(x)[d] PROVE IsNode(y)
    <3>1. y \in LevelsOf(v)[d + 1]
      BY <1>4, <2>2 DEF UnderParts
    <3>2. d + 1 \in 0 .. MaxDepth + 1
      BY <1>1
    <3>. QED  BY <1>5, <3>1, <3>2 DEF IsValue
  <2>. QED  BY <2>1, <2>2 DEF IsValueTo
<1>6. ASSUME IsNode(v), \A x \in Parts(v) : IsValueTo(x, MaxDepth) PROVE IsValue(v)
  <2>1. ASSUME NEW d \in 0 .. MaxDepth + 1, NEW y \in LevelsOf(v)[d] PROVE IsNode(y)
    <3>1. CASE d = 0
      BY <1>3, <1>6, <2>1, <3>1
    <3>2. CASE d # 0
      <4>. DEFINE e == d - 1
      <4>1. e \in 0 .. MaxDepth /\ d = e + 1
        BY <1>2, <3>2
      <4>. HIDE DEF e
      <4>2. y \in UnderParts(v, e)
        BY <1>4, <2>1, <4>1
      <4>3. PICK x \in Parts(v) : y \in LevelsOf(x)[e]
        BY <4>2 DEF UnderParts
      <4>. QED  BY <1>6, <4>1, <4>3 DEF IsValueTo
    <3>. QED  BY <3>1, <3>2
  <2>. QED  BY <2>1 DEF IsValue
<1>. QED  BY <1>5, <1>6

LEMMA ValueGoesDown ==
  ASSUME NEW v, IsValue(v)
  PROVE  IsValueTo(v, MaxDepth)
<1>1. 0 .. MaxDepth \subseteq 0 .. MaxDepth + 1
  BY BaseType
<1>. QED  BY <1>1 DEF IsValue, IsValueTo

\* A map is held when it can be, key by key, and its values are.
LEMMA MapIsValue ==
  ASSUME NEW of
  PROVE  IsValue(Map(of)) <=> IsNode(Map(of)) /\ \A key \in DOMAIN of : IsValueTo(of[key], MaxDepth)
<1>1. Parts(Map(of)) = {of[key] : key \in DOMAIN of}
  BY PartsByKind
<1>. QED  BY <1>1, ValueByParts

LEMMA MapIsNode ==
  ASSUME NEW of
  PROVE  IsNode(Map(of)) <=> /\ IsMapping(of) /\ IsFiniteSet(DOMAIN of) /\ Cardinality(DOMAIN of) <= MaxArg
                             /\ \A key \in DOMAIN of : IsText(key)
<1>1. Map(of).kind = "map" /\ Map(of).of = of
  BY DEF Map
<1>. HIDE DEF Map
<1>. QED  BY <1>1 DEF IsNode, IsMapping

LEMMA BytesAreValue ==
  ASSUME NEW b
  PROVE  /\ IsNode(Bytes(b)) => b \in Seq(Byte) /\ Len(b) <= MaxArg
         /\ IsNode(Bytes(b)) => IsValue(Bytes(b))
<1>1. Bytes(b).kind = "bytes" /\ Bytes(b).bytes = b /\ Parts(Bytes(b)) = {}
  BY DEF Bytes, Parts
<1>. HIDE DEF Bytes
<1>2. IsNode(Bytes(b)) => b \in Seq(Byte) /\ Len(b) <= MaxArg
  BY <1>1 DEF IsNode
<1>. QED  BY <1>1, <1>2, ValueByParts

\* A did:key and the key that it names determine each other.
LEMMA KeysAreNamed ==
  ASSUME form = "did" => bytes \in Seq(Nat)
  PROVE  KeyAndDidNameEachOther
<1>. SUFFICES ASSUME form = "did", DidError(bytes) = "Ok"
              PROVE  /\ IsOk(Resolve(bytes)) => BaseOf(bytes) = DidOfKey(Resolve(bytes).value)
                     /\ \A key \in Keys : BaseOf(bytes) = DidOfKey(key) => Resolve(bytes) = Read(key, 0)
  BY DEF KeyAndDidNameEachOther
<1>1. bytes \in Seq(Nat)
  OBVIOUS
<1>2. IsOk(Resolve(bytes)) => BaseOf(bytes) = DidOfKey(Resolve(bytes).value)
  BY <1>1, ResolvedIsNamed
<1>3. \A key \in Keys : BaseOf(bytes) = DidOfKey(key) => Resolve(bytes) = Read(key, 0)
  BY <1>1, NamedIsResolved
<1>. QED  BY <1>2, <1>3

----------------------------------------------------------------------------
(* What the steps of Codec keep.                                           *)

\* Of what arrives as DAG-CBOR, or as a command, DID or selector: bytes, or characters;
\* and as long as something is said to have been sent, they are what it is encoded as.
SentInv ==
  /\ form = "cbor" =>
       /\ bytes \in Seq(Byte)
       /\ sent # None =>
            sent \in Values["cbor"] /\ (IsOk(Encode(sent)) => bytes = Encode(sent).value)
  /\ form \in {"command", "did", "selector"} => bytes \in Seq(Nat)

LEMMA InitSent == Init => SentInv
<1>. SUFFICES ASSUME Init PROVE SentInv
  OBVIOUS
<1>1. form \in Forms /\ sent \in Values[form] \cup {None}
  BY DEF Init
<1>2. bytes = IF sent # None /\ IsOk(FormOf(form, sent)) THEN FormOf(form, sent).value ELSE << >>
  BY DEF Init
<1>3. << >> \in Seq(Byte) /\ << >> \in Seq(Nat)
  OBVIOUS
<1>4. ASSUME form = "cbor" PROVE FormOf(form, sent) = Encode(sent)
  BY <1>4 DEF FormOf
<1>5. ASSUME form \in {"command", "did", "selector"} PROVE FormOf(form, sent) = Written(sent)
  BY <1>5 DEF FormOf
<1>6. ASSUME form = "cbor", sent # None
      PROVE  sent \in Values["cbor"] /\ (IsOk(Encode(sent)) => bytes = Encode(sent).value)
  BY <1>1, <1>2, <1>4, <1>6
<1>7. ASSUME form = "cbor" PROVE bytes \in Seq(Byte)
  <2>1. ASSUME sent # None, IsOk(Encode(sent)) PROVE bytes \in Seq(Byte)
    <3>1. IsValue(sent) /\ bytes = Encode(sent).value /\ Len(bytes) <= MaxArg
      BY <1>6, <1>7, <2>1, CodecAssumption
    <3>. QED  BY <2>1, <3>1, EncodedIsDecoded
  <2>. QED  BY <1>2, <1>3, <1>4, <1>7, <2>1
<1>8. ASSUME form \in {"command", "did", "selector"} PROVE bytes \in Seq(Nat)
  <2>1. sent # None => sent \in Seq(Nat)
    BY <1>1, <1>8, CodecAssumption, KeysFit
  <2>. QED  BY <1>2, <1>3, <1>5, <1>8, <2>1 DEF Written, Read
<1>. QED  BY <1>6, <1>7, <1>8 DEF SentInv

\* A byte in the place of another, or after the last.
LEMMA AlteredType ==
  ASSUME NEW S, NEW s \in Seq(S), NEW c \in S, NEW k
  PROVE  /\ Append(s, c) \in Seq(S)
         /\ (IF k \in DOMAIN s THEN [s EXCEPT ![k] = c] ELSE Append(s, c)) \in Seq(S)
  OBVIOUS

LEMMA NextSent == SentInv /\ [Next]_vars => SentInv'
<1>. SUFFICES ASSUME SentInv, [Next]_vars PROVE SentInv'
  OBVIOUS
<1>1. ASSUME NEW byte \in Alphabet[form], NEW k, Alter(k, byte) PROVE SentInv'
  <2>1. form' = form /\ sent' = None
    BY <1>1 DEF Alter
  <2>2. bytes' = IF k \in DOMAIN bytes THEN [bytes EXCEPT ![k] = byte] ELSE Append(bytes, byte)
    BY <1>1 DEF Alter
  <2>3. form = "cbor" => bytes' \in Seq(Byte)
    BY <2>2, AlteredType, CodecAssumption DEF SentInv
  <2>4. form \in {"command", "did", "selector"} => bytes' \in Seq(Nat)
    BY <2>2, AlteredType, CodecAssumption, KeysFit DEF SentInv
  <2>. QED  BY <2>1, <2>3, <2>4 DEF SentInv
<1>2. ASSUME NEW byte \in Alphabet[form], Arrive(byte) PROVE SentInv'
  <2>1. form' = form /\ sent' = None /\ bytes' = Append(bytes, byte)
    BY <1>2 DEF Arrive
  <2>2. form = "cbor" => bytes' \in Seq(Byte)
    BY <2>1, AlteredType, CodecAssumption DEF SentInv
  <2>3. form \in {"command", "did", "selector"} => bytes' \in Seq(Nat)
    BY <2>1, AlteredType, CodecAssumption, KeysFit DEF SentInv
  <2>. QED  BY <2>1, <2>2, <2>3 DEF SentInv
<1>3. ASSUME form' = "token" PROVE SentInv'
  BY <1>3 DEF SentInv
<1>4. ASSUME NEW order, NEW key, NEW encoding, Sign(order, key, encoding) PROVE form' = form
  BY <1>4 DEF Sign
<1>5. ASSUME NEW header, NEW tag, NEW of, Reseal(header, tag, of) PROVE form' = form
  BY <1>5 DEF Reseal
<1>6. ASSUME NEW header, NEW tag, Relabel(header, tag) PROVE form' = form
  BY <1>5, <1>6 DEF Relabel
<1>7. ASSUME NEW field, DropField(field) PROVE form' = form
  BY <1>5, <1>7 DEF DropField
<1>8. ASSUME NEW field, NEW value, Reword(field, value) PROVE form' = form
  BY <1>5, <1>8 DEF Reword
<1>9. CASE UNCHANGED vars
  BY <1>9 DEF vars, SentInv
<1>. QED  BY <1>1, <1>2, <1>3, <1>4, <1>6, <1>7, <1>8, <1>9 DEF Next

LEMMA Sent == Spec => []SentInv
  BY InitSent, NextSent, PTL DEF Spec

\* Whatever bytes arrive, those that are accepted as DAG-CBOR are the one form
\* that their value is encoded in, so that no two byte strings decode to the
\* same value (codec/mod.rs, decode.rs: shortest heads, keys in order, no
\* trailing bytes).
THEOREM ValuesHaveOneForm == Spec => []OneFormPerValue
<1>1. SentInv => OneFormPerValue
  BY HasOneForm DEF SentInv
<1>. QED  BY <1>1, Sent, PTL

\* Whatever value is encoded, of what the program can hold and as far as the
\* encoder accepts it, decode gives it back, -0.0 as 0.0: the encoder writes no
\* head, order of keys, depth or length that the decoder refuses, and drops and
\* confuses nothing (codec/encode.rs, decode.rs).
THEOREM EncodedIsReadBack == Spec => []EncodedDecodes
<1>1. ASSUME SentInv, form = "cbor", sent # None, IsOk(Encode(sent))
      PROVE  Decode(bytes) = Read(Unsigned(sent), Len(bytes))
  <2>1. IsValue(sent) /\ bytes = Encode(sent).value /\ Len(bytes) <= MaxArg
    BY <1>1, CodecAssumption DEF SentInv
  <2>. QED  BY <1>1, <2>1, EncodedIsDecoded
<1>2. SentInv => EncodedDecodes
  BY <1>1 DEF EncodedDecodes
<1>. QED  BY <1>2, Sent, PTL

\* Varints are exact, whatever bytes are read: a number that is read was
\* written in its one form, and a number of 64 bits is read for what it is
\* (varint.rs, put_uvarint and read_uvarint).
THEOREM VarintsRoundTrip == Spec => []VarintsAreExact
<1>1. SentInv => VarintsAreExact
  BY VarintsExact DEF SentInv
<1>. QED  BY <1>1, Sent, PTL

\* Commands compare by their segments: what is compared as text says what
\* was meant, for any two commands (command.rs, covers).
THEOREM CoverageIsBySegment == Spec => []CoverageIsOnSegments
<1>1. SentInv => CoverageIsOnSegments
  BY CoverageHasSegments DEF SentInv, CoverageIsOnSegments
<1>. QED  BY <1>1, Sent, PTL

\* A key has one name, and a name one key: whatever DID arrives, in whatever
\* way it was altered, resolves to a key exactly when its base is the did:key
\* of that key, so that comparing bases compares principals (did.rs, from_key,
\* key, resolve and same_principal).  Base58 gives every byte back, leading
\* zeros too, and no other text for the same bytes.
THEOREM KeysAreTheirNames == Spec => []KeyAndDidNameEachOther
<1>1. SentInv => KeyAndDidNameEachOther
  BY KeysAreNamed DEF SentInv
<1>. QED  BY <1>1, Sent, PTL

\* Whatever text arrives, the parser of selectors takes it exactly when the
\* grammar of docs/validation.md has a reading of it, and reads it as that: no
\* dot, bracket, escape, sign or mark is read in another way, and no text has
\* two readings (selector.rs, Selector::parse, bracket, quoted and integer).
THEOREM SelectorsAreRead == Spec => []SelectorReadsItsGrammar
<1>1. SentInv => SelectorReadsItsGrammar
  BY ParserIsGrammar DEF SentInv, SelectorReadsItsGrammar
<1>. QED  BY <1>1, Sent, PTL

----------------------------------------------------------------------------
(* What the steps of Codec keep of tokens.                                 *)

\* What can be held field by field is the payload of a token on its way.
LEMMA FieldsAreValue ==
  ASSUME NEW of, IsMapping(of), DOMAIN of \subseteq WireFields,
         \A field \in DOMAIN of : IsValueTo(of[field], MaxDepth)
  PROVE  IsValue(Map(of))
<1>. DEFINE all == [field \in WireFields |-> NullValue]
<1>1. IsNode(Map(all)) /\ DOMAIN all = WireFields
  BY TokensFit
<1>. HIDE DEF all
<1>2. /\ IsFiniteSet(WireFields) /\ Cardinality(WireFields) <= MaxArg
      /\ \A field \in WireFields : IsText(field)
  BY <1>1, MapIsNode
<1>3. IsFiniteSet(DOMAIN of) /\ Cardinality(DOMAIN of) <= Cardinality(WireFields)
  BY <1>2, FS_Subset
<1>4. Cardinality(DOMAIN of) <= MaxArg
  BY <1>2, <1>3, FS_CardinalityType, LargestType, BaseType DEF MaxArg
<1>5. \A field \in DOMAIN of : IsText(field)
  BY <1>2
<1>. QED  BY <1>3, <1>4, <1>5, MapIsNode, MapIsValue

\* The payload of a token that is on its way, or may be.
IsPayload(of) == IsValue(Map(of)) /\ DOMAIN of \subseteq WireFields

LEMMA PayloadDown ==
  ASSUME NEW of, IsPayload(of)
  PROVE  \A field \in DOMAIN of : field \in WireFields /\ IsValueTo(of[field], MaxDepth)
  BY MapIsValue DEF IsPayload

LEMMA FieldDropped ==
  ASSUME NEW of, IsPayload(of), NEW S, S \subseteq DOMAIN of
  PROVE  IsPayload(Restrict(of, S))
<1>. DEFINE g == Restrict(of, S)
<1>1. IsMapping(g) /\ DOMAIN g = S /\ \A field \in S : g[field] = of[field]
  BY DEF Restrict, IsMapping
<1>. HIDE DEF g
<1>2. DOMAIN g \subseteq WireFields /\ \A field \in DOMAIN g : IsValueTo(g[field], MaxDepth)
  BY <1>1, PayloadDown
<1>. QED  BY <1>1, <1>2, FieldsAreValue DEF IsPayload, g

LEMMA FieldReworded ==
  ASSUME NEW of, IsPayload(of), NEW field \in WireFields, NEW value, IsValue(value)
  PROVE  IsPayload(Inserted(of, field, value))
<1>. DEFINE g == Inserted(of, field, value)
<1>1. /\ IsMapping(g) /\ DOMAIN g = DOMAIN of \cup {field}
      /\ \A k \in DOMAIN g : g[k] = IF k = field THEN value ELSE of[k]
  BY DEF Inserted, IsMapping
<1>. HIDE DEF g
<1>2. IsValueTo(value, MaxDepth)
  BY ValueGoesDown
<1>3. DOMAIN g \subseteq WireFields /\ \A k \in DOMAIN g : IsValueTo(g[k], MaxDepth)
  BY <1>1, <1>2, PayloadDown
<1>. QED  BY <1>1, <1>3, FieldsAreValue DEF IsPayload, g

LEMMA SigPayloadIsValue ==
  ASSUME NEW header, IsNode(Bytes(header)), NEW tag, IsText(tag), NEW of, IsValue(Map(of))
  PROVE  IsValue(SigPayload(header, tag, Map(of)))
<1>. DEFINE a == Bytes(header)  b == Map(of)  first == Inserted(<< >>, HeaderKey, a)
            m == Inserted(first, tag, b)
<1>1. IsValueTo(a, MaxDepth) /\ IsValueTo(b, MaxDepth)
  BY BytesAreValue, ValueGoesDown
<1>2. SigPayload(header, tag, b) = Map(m)
  BY DEF SigPayload
<1>. HIDE DEF a, b
<1>3. DOMAIN first = {HeaderKey} /\ first[HeaderKey] = a
  BY DEF Inserted
<1>. HIDE DEF first
<1>4. IsMapping(m) /\ DOMAIN m = {HeaderKey, tag} /\ \A k \in DOMAIN m : m[k] \in {a, b}
  BY <1>3 DEF Inserted, IsMapping
<1>. HIDE DEF m
<1>5. IsFiniteSet(DOMAIN m) /\ Cardinality(DOMAIN m) <= 2
  <2>1. IsFiniteSet({HeaderKey}) /\ Cardinality({HeaderKey}) = 1
    BY FS_Singleton
  <2>2. {HeaderKey, tag} = {HeaderKey} \cup {tag}
    OBVIOUS
  <2>3. IsFiniteSet({HeaderKey} \cup {tag})
        /\ Cardinality({HeaderKey} \cup {tag}) \in {Cardinality({HeaderKey}), Cardinality({HeaderKey}) + 1}
    BY <2>1, FS_AddElement
  <2>. QED  BY <1>4, <2>1, <2>2, <2>3
<1>6. MaxArg \in Nat /\ MaxArg >= 2
  BY TokensFit, LargestType, BaseType DEF MaxArg
<1>7. Cardinality(DOMAIN m) <= MaxArg
  BY <1>5, <1>6, FS_CardinalityType
<1>8. IsText(HeaderKey)
  BY TokensFit
<1>9. IsNode(Map(m))
  BY <1>4, <1>5, <1>7, <1>8, MapIsNode
<1>10. \A k \in DOMAIN m : IsValueTo(m[k], MaxDepth)
  BY <1>1, <1>4
<1>. QED  BY <1>2, <1>9, <1>10, MapIsValue DEF b

LEMMA SealedType ==
  ASSUME NEW signature, IsNode(Bytes(signature)), NEW carried \in Seq(Byte)
  PROVE  Sealed(signature, carried) \in Seq(Byte)
<1>. DEFINE h == EncodeHead(4, 2)  s == EncodeString(2, signature).value
<1>1. 4 \in 0 .. 7 /\ 2 \in 0 .. 6 /\ 2 \in Nat /\ 2 <= MaxArg
  BY TokensFit, LargestType, BaseType DEF MaxArg
<1>2. signature \in Seq(Byte) /\ Len(signature) <= MaxArg
  BY BytesAreValue
<1>3. h \in Seq(Byte)
  BY <1>1, HeadType
<1>4. s \in Seq(Byte)
  BY <1>1, <1>2, StringType
<1>5. Sealed(signature, carried) = (h \o s) \o carried
  BY DEF Sealed
<1>. HIDE DEF h, s
<1>6. h \o s \in Seq(Byte)
  BY <1>3, <1>4, ConcatType
<1>. QED  BY <1>5, <1>6, ConcatType

\* Tokens arrive as bytes, and of one that is said to have been sent the header,
\* the signature and the payload can be put together again.
TokenInv ==
  form = "token" =>
    /\ bytes \in Seq(Byte)
    /\ sent # None =>
         /\ sent.kind \in Kinds /\ sent.header \in Headers /\ IsNode(Bytes(sent.signature))
         /\ LET written == ToIpld(sent.kind, sent.payload)
            IN  written = Map(written.of) /\ IsPayload(written.of)

LEMMA WrittenIsMap ==
  ASSUME NEW kind \in Kinds, NEW payload
  PROVE  LET written == ToIpld(kind, payload)
         IN  written = Map(written.of) /\ DOMAIN written.of \subseteq WireFields
<1>. DEFINE w == ToIpld(kind, payload)  names == {name \in FieldsOf(kind) : ~IsOmitted(kind, name, payload[name])}
            NameOf(field) == CHOOSE name \in names : Field[name] = field
            f == [field \in {Field[name] : name \in names} |-> ValueOfField(NameOf(field), payload[NameOf(field)])]
<1>1. w = Map(f)
  BY Zenon DEF ToIpld, MapOfFields
<1>2. FieldsOf(kind) \subseteq FieldNames
  <2>1. kind = "Delegation" \/ kind = "Invocation"
    BY DEF Kinds
  <2>. QED  BY <2>1, FieldsByKind DEF FieldNames
<1>3. DOMAIN f \subseteq WireFields
  <2>1. DOMAIN f = {Field[name] : name \in names}
    OBVIOUS
  <2>2. names \subseteq FieldNames
    BY <1>2
  <2>. HIDE DEF names, f
  <2>. QED  BY <2>1, <2>2 DEF WireFields
<1>. HIDE DEF f, w
<1>4. w.of = f
  BY <1>1 DEF Map
<1>. QED  BY <1>1, <1>3, <1>4 DEF w

SignedMap(header, kind, w) == SigPayload(EncodeHeader(header), TagOf(kind), w)

LEMMA PreparedIs ==
  ASSUME NEW header, NEW kind, NEW w, NEW u, u = Prepare(header, kind, w), IsOk(u)
  PROVE  LET e == Encode(SignedMap(header, kind, w))
             t == EncodeJson(SignedMap(header, kind, w))
         IN  /\ IsOk(e) /\ u.value.carried = e.value
             /\ header.encoding = "DagCbor" => u.value.signing = e.value
             /\ header.encoding # "DagCbor" => IsOk(t) /\ u.value.signing = t.value
<1>. DEFINE v == SignedMap(header, kind, w)  e == Encode(v)  t == EncodeJson(v)
<1>1. u = Then(e, LAMBDA carried, p :
            IF header.encoding = "DagCbor" THEN Read([signing |-> carried, carried |-> carried], 0)
            ELSE Then(t, LAMBDA text, q : Read([signing |-> text, carried |-> carried], 0)))
  BY DEF Prepare, UnsignedOf, SignedMap
<1>. HIDE DEF e, t
<1>2. IsOk(e)
  BY <1>1 DEF Then
<1>3. u = IF header.encoding = "DagCbor" THEN Read([signing |-> e.value, carried |-> e.value], 0)
          ELSE Then(t, LAMBDA text, q : Read([signing |-> text, carried |-> e.value], 0))
  BY <1>1, <1>2 DEF Then
<1>4. \A x, y, r : r = Read([signing |-> x, carried |-> y], 0) => r.value.carried = y /\ r.value.signing = x
  BY Results
<1>5. ASSUME header.encoding = "DagCbor" PROVE u.value.carried = e.value /\ u.value.signing = e.value
  <2>1. u = Read([signing |-> e.value, carried |-> e.value], 0)
    BY <1>3, <1>5
  <2>. QED  BY <1>4, <2>1
<1>6. ASSUME header.encoding # "DagCbor"
      PROVE  u.value.carried = e.value /\ IsOk(t) /\ u.value.signing = t.value
  <2>1. u = Then(t, LAMBDA text, q : Read([signing |-> text, carried |-> e.value], 0))
    BY <1>3, <1>6
  <2>2. IsOk(t)
    BY <2>1 DEF Then
  <2>3. u = Read([signing |-> t.value, carried |-> e.value], 0)
    BY <2>1, <2>2 DEF Then
  <2>. QED  BY <1>4, <2>2, <2>3
<1>. QED  BY <1>2, <1>5, <1>6 DEF e, t

LEMMA SignatureIsTaken == \A key : SignatureOf[key.algorithm] \in Taken(key)
BY DEF Taken, WithTwins

LEMMA SignKeeps ==
  ASSUME form = "token", NEW order \in Orders, NEW key \in Keys, NEW encoding \in Encodings,
         Sign(order, key, encoding)
  PROVE  TokenInv'
<1>. DEFINE header == [algorithm |-> key.algorithm, encoding |-> encoding]
            payload == PayloadFor(order, key)  unsigned == PrepareToken(header, order.kind, payload)
            signature == SignatureOf[key.algorithm]  w == ToIpld(order.kind, payload)
            v == SignedMap(header, order.kind, w)
<1>1. header \in Headers
  BY TokensFit DEF Headers
<1>2. IsOk(unsigned) /\ bytes' = Sealed(signature, unsigned.value.carried)
  BY DEF Sign
<1>3. sent' = [kind |-> order.kind, header |-> header, signature |-> signature, payload |-> payload,
               signing |-> unsigned.value.signing, carried |-> unsigned.value.carried]
  BY DEF Sign
<1>. HIDE DEF header, payload, signature
<1>4. unsigned = Prepare(header, order.kind, w)
  BY DEF PrepareToken
<1>. HIDE DEF unsigned
<1>5. IsOk(Encode(v)) /\ unsigned.value.carried = Encode(v).value
  BY <1>2, <1>4, PreparedIs
<1>6. IsValue(w) /\ order.kind \in Kinds
  BY TokensFit DEF payload
<1>7. w = Map(w.of) /\ DOMAIN w.of \subseteq WireFields
  BY <1>6, WrittenIsMap
<1>8. IsPayload(w.of)
  BY <1>6, <1>7 DEF IsPayload
<1>9. IsNode(Bytes(EncodeHeader(header))) /\ IsText(TagOf(order.kind)) /\ IsNode(Bytes(signature))
  <2>1. TagOf(order.kind) \in Tags
    BY <1>6 DEF Tags
  <2>2. IsNode(Bytes(SignatureOf[key.algorithm]))
    BY TokensFit, SignatureIsTaken
  <2>. QED  BY <1>1, <2>1, <2>2, TokensFit DEF signature
<1>10. IsValue(v)
  <2>. HIDE DEF w
  <2>1. IsValue(Map(w.of))
    BY <1>8 DEF IsPayload
  <2>2. IsValue(SigPayload(EncodeHeader(header), TagOf(order.kind), Map(w.of)))
    BY <1>9, <2>1, SigPayloadIsValue
  <2>. QED  BY <1>7, <2>2 DEF SignedMap
<1>. HIDE DEF v
<1>11. Encode(v).value \in Seq(Byte)
  BY <1>5, <1>10, EncodedIsWritten DEF IsWritten
<1>12. bytes' \in Seq(Byte)
  BY <1>2, <1>5, <1>9, <1>11, SealedType
<1>13. /\ sent'.kind = order.kind /\ sent'.header = header /\ sent'.signature = signature
       /\ sent'.payload = payload
  BY <1>3
<1>14. /\ sent'.kind \in Kinds /\ sent'.header \in Headers /\ IsNode(Bytes(sent'.signature))
       /\ ToIpld(sent'.kind, sent'.payload) = w
  BY <1>1, <1>6, <1>9, <1>13
<1>. HIDE DEF w
<1>. QED  BY <1>7, <1>8, <1>12, <1>14 DEF TokenInv

LEMMA ResealKeeps ==
  ASSUME form = "token", IsNode(Bytes(sent.signature)), NEW header \in Headers, NEW tag \in Tags,
         NEW of, IsPayload(of), Reseal(header, tag, of)
  PROVE  TokenInv'
<1>. DEFINE v == SigPayload(EncodeHeader(header), tag, Map(of))
<1>1. IsOk(Encode(v)) /\ bytes' = Sealed(sent.signature, Encode(v).value) /\ sent' = None
  BY DEF Reseal
<1>2. IsValue(v)
  BY TokensFit, SigPayloadIsValue DEF IsPayload
<1>. HIDE DEF v
<1>3. Encode(v).value \in Seq(Byte)
  BY <1>1, <1>2, EncodedIsWritten DEF IsWritten
<1>4. bytes' \in Seq(Byte)
  BY <1>1, <1>3, SealedType
<1>. QED  BY <1>1, <1>4 DEF TokenInv

LEMMA InitToken == Init => TokenInv
<1>. SUFFICES ASSUME Init, form = "token" PROVE bytes \in Seq(Byte) /\ sent = None
  BY DEF TokenInv
<1>1. sent \in Values["token"] \cup {None}
  BY DEF Init
<1>2. sent = None
  BY <1>1, TokensFit
<1>3. bytes = << >>
  BY <1>2 DEF Init
<1>. QED  BY <1>2, <1>3

LEMMA NextToken == TokenInv /\ [Next]_vars => TokenInv'
<1>. SUFFICES ASSUME TokenInv, [Next]_vars PROVE TokenInv'
  OBVIOUS
<1>1. ASSUME NEW byte \in Alphabet[form], NEW k, Alter(k, byte) PROVE TokenInv'
  <2>1. form' = form /\ sent' = None
    BY <1>1 DEF Alter
  <2>2. bytes' = IF k \in DOMAIN bytes THEN [bytes EXCEPT ![k] = byte] ELSE Append(bytes, byte)
    BY <1>1 DEF Alter
  <2>3. form = "token" => bytes' \in Seq(Byte)
    BY <2>2, AlteredType, TokensFit DEF TokenInv
  <2>. QED  BY <2>1, <2>3 DEF TokenInv
<1>2. ASSUME NEW byte \in Alphabet[form], Arrive(byte) PROVE TokenInv'
  <2>1. form' = form /\ sent' = None /\ bytes' = Append(bytes, byte)
    BY <1>2 DEF Arrive
  <2>2. form = "token" => bytes' \in Seq(Byte)
    BY <2>1, AlteredType, TokensFit DEF TokenInv
  <2>. QED  BY <2>1, <2>2 DEF TokenInv
<1>3. ASSUME NEW order \in Orders, NEW key \in Keys, NEW encoding \in Encodings, form = "token",
             Sign(order, key, encoding)
      PROVE  TokenInv'
  BY <1>3, SignKeeps
<1>4. ASSUME form = "token", sent # None
      PROVE  LET of == ToIpld(sent.kind, sent.payload).of
             IN  /\ IsNode(Bytes(sent.signature)) /\ sent.header \in Headers
                 /\ TagOf(sent.kind) \in Tags /\ IsPayload(of)
  BY <1>4 DEF TokenInv, Tags
<1>. DEFINE of == ToIpld(sent.kind, sent.payload).of
<1>5. ASSUME NEW header \in Headers, NEW tag \in Tags, form = "token", Relabel(header, tag)
      PROVE  TokenInv'
  <2>1. sent # None /\ Reseal(header, tag, of)
    BY <1>5 DEF Relabel
  <2>. QED  BY <1>4, <1>5, <2>1, ResealKeeps
<1>6. ASSUME NEW field \in WireFields, form = "token", DropField(field) PROVE TokenInv'
  <2>. DEFINE rest == Restrict(of, DOMAIN of \ {field})
  <2>1. sent # None /\ Reseal(sent.header, TagOf(sent.kind), rest)
    BY <1>6 DEF DropField
  <2>2. IsPayload(rest)
    BY <1>4, <1>6, <2>1, FieldDropped
  <2>. HIDE DEF rest
  <2>. QED  BY <1>4, <1>6, <2>1, <2>2, ResealKeeps
<1>7. ASSUME NEW field \in WireFields, NEW value \in Rewordings, form = "token", Reword(field, value)
      PROVE  TokenInv'
  <2>. DEFINE other == Inserted(of, field, value)
  <2>1. sent # None /\ Reseal(sent.header, TagOf(sent.kind), other)
    BY <1>7 DEF Reword
  <2>2. IsPayload(other)
    BY <1>4, <1>7, <2>1, TokensFit, FieldReworded
  <2>. HIDE DEF other
  <2>. QED  BY <1>4, <1>7, <2>1, <2>2, ResealKeeps
<1>8. CASE UNCHANGED vars
  BY <1>8 DEF vars, TokenInv
<1>. QED  BY <1>1, <1>2, <1>3, <1>5, <1>6, <1>7, <1>8 DEF Next

----------------------------------------------------------------------------
(* The text of a value that is in another.                                 *)

\* What is joined was written, part by part.
LEMMA JoinedOk ==
  ASSUME NEW n \in Nat, NEW parts, DOMAIN parts = 1 .. n, IsOk(Joined(parts))
  PROVE  \A k \in 1 .. n : IsOk(parts[k])
<1>. DEFINE v == [k \in DOMAIN parts |-> parts[k].value]
            failed == {k \in DOMAIN parts : ~IsOk(parts[k])}
            w == Joined(parts)
<1>1. w = IF failed = {} THEN Written(FlattenSeq(v)) ELSE parts[Min(failed)]
  BY Zenon DEF Joined
<1>2. failed = {}
  <2>1. ASSUME failed # {} PROVE FALSE
    <3>1. failed \subseteq Nat
      OBVIOUS
    <3>2. \E x \in failed : \A y \in failed : x <= y
      <4>. HIDE DEF failed
      <4>. QED  BY <2>1, <3>1, Least
    <3>3. Min(failed) \in failed
      BY <3>2 DEF Min
    <3>4. ~IsOk(parts[Min(failed)])
      <4>. DEFINE e == Min(failed)
      <4>. HIDE DEF e
      <4>. QED  BY <3>3 DEF e
    <3>. HIDE DEF failed
    <3>. QED  BY <1>1, <2>1, <3>4
  <2>. QED  BY <2>1
<1>. QED  BY <1>2

LEMMA HeadedOk ==
  ASSUME NEW first, NEW n \in Nat, NEW rest, rest = [k \in 1 .. n |-> rest[k]],
         IsOk(Joined(<< first >> \o rest))
  PROVE  \A k \in 1 .. n : IsOk(rest[k])
<1>. DEFINE T == {first} \cup {rest[k] : k \in 1 .. n}
            parts == << first >> \o rest
            m == n + 1
<1>1. rest \in Seq(T) /\ Len(rest) = n /\ << first >> \in Seq(T) /\ Len(<< first >>) = 1
  <2>2. \A k \in 1 .. n : rest[k] \in T
    OBVIOUS
  <2>3. first \in T
    OBVIOUS
  <2>. HIDE DEF T
  <2>. QED  BY <2>2, <2>3
<1>2. m \in Nat /\ \A k \in 1 .. n : 1 + k \in 1 .. m
  OBVIOUS
<1>. HIDE DEF T
<1>3. parts \in Seq(T) /\ IsConcat(parts, << first >>, rest)
  BY <1>1, ConcatType
<1>4. DOMAIN parts = 1 .. m /\ \A k \in 1 .. n : parts[1 + k] = rest[k]
  <2>. HIDE DEF parts
  <2>1. DOMAIN parts = 1 .. Len(parts)
    BY <1>3
  <2>2. Len(parts) = m /\ \A k \in 1 .. n : parts[1 + k] = rest[k]
    BY <1>1, <1>3 DEF IsConcat
  <2>. QED  BY <2>1, <2>2
<1>5. IsOk(Joined(parts))
  OBVIOUS
<1>. HIDE DEF parts, m
<1>6. \A k \in 1 .. m : IsOk(parts[k])
  BY <1>2, <1>4, <1>5, JoinedOk
<1>. QED  BY <1>2, <1>4, <1>6

\* v is written alike at both depths, and all of its parts at the first were.
WrittenAlike(v, depth, f, other, g) ==
  /\ EncodeItem(v, other, g) = EncodeItem(v, depth, f)
  /\ \A x \in Parts(v) : IsOk(f[x])

\* What is nested in a value is written alike.
Alike(f, g, D) == \A x \in D : IsOk(f[x]) => g[x] = f[x]

LEMMA LeafAlike ==
  ASSUME NEW v, NEW depth \in Nat, depth <= MaxDepth, NEW f, NEW other \in Nat, other <= depth, NEW g,
         IsNode(v), v.kind \notin {"list", "map"}, IsOk(EncodeItem(v, depth, f))
  PROVE  WrittenAlike(v, depth, f, other, g)
<1>1. other <= MaxDepth /\ ~(other > MaxDepth) /\ ~(depth > MaxDepth)
  BY BaseType
<1>2. EncodeItem(v, other, g) = EncodeItem(v, depth, f)
  <2>1. CASE v.kind = "simple"
    BY <1>1, <2>1 DEF EncodeItem
  <2>2. CASE v.kind = "integer"
    BY <1>1, <2>2 DEF EncodeItem
  <2>3. CASE v.kind = "float"
    BY <1>1, <2>3 DEF EncodeItem
  <2>4. CASE v.kind = "bytes"
    BY <1>1, <2>4 DEF EncodeItem
  <2>5. CASE v.kind = "text"
    BY <1>1, <2>5 DEF EncodeItem
  <2>6. CASE v.kind = "link"
    BY <1>1, <2>6 DEF EncodeItem
  <2>. QED  BY <2>1, <2>2, <2>3, <2>4, <2>5, <2>6 DEF IsNode
<1>3. Parts(v) = {}
  BY DEF Parts
<1>. QED  BY <1>2, <1>3 DEF WrittenAlike

LEMMA ListAlike ==
  ASSUME NEW v, NEW depth \in Nat, depth <= MaxDepth, NEW f, NEW other \in Nat, other <= depth, NEW g,
         NEW len \in Nat, NEW items, v = List(items), items = [k \in 1 .. len |-> items[k]],
         Alike(f, g, Parts(v)), IsOk(EncodeItem(v, depth, f))
  PROVE  WrittenAlike(v, depth, f, other, g)
<1>1. other <= MaxDepth
  BY BaseType
<1>. DEFINE head == Written(EncodeHead(4, Len(items)))  a == EncodeItems(items, f)  b == EncodeItems(items, g)
<1>2. EncodeItem(v, depth, f) = Joined(<< head >> \o a)
  <2>1. \A x : EncodeItem(List(x), depth, f) = Joined(<< Written(EncodeHead(4, Len(x))) >> \o EncodeItems(x, f))
    BY EncodedByKind, Zenon
  <2>. QED  BY <2>1
<1>3. EncodeItem(v, other, g) = Joined(<< head >> \o b)
  <2>1. \A x : EncodeItem(List(x), other, g) = Joined(<< Written(EncodeHead(4, Len(x))) >> \o EncodeItems(x, g))
    BY <1>1, EncodedByKind, Zenon
  <2>. QED  BY <2>1
<1>4. DOMAIN items = 1 .. len
  BY Zenon
<1>5. a = [k \in 1 .. len |-> f[items[k]]] /\ b = [k \in 1 .. len |-> g[items[k]]]
  BY <1>4 DEF EncodeItems
<1>6. \A k \in 1 .. len : a[k] = f[items[k]]
  BY <1>5
<1>7. a = [k \in 1 .. len |-> a[k]]
  BY <1>5, <1>6
<1>8. Parts(v) = {items[k] : k \in 1 .. len}
  BY <1>4, PartsByKind
<1>. HIDE DEF head, a, b
<1>9. \A k \in 1 .. len : IsOk(a[k])
  BY <1>2, <1>7, HeadedOk
<1>10. \A x \in Parts(v) : IsOk(f[x])
  BY <1>6, <1>8, <1>9
<1>11. \A k \in 1 .. len : f[items[k]] = g[items[k]]
  BY <1>8, <1>10 DEF Alike
<1>12. a = b
  BY <1>5, <1>11
<1>. QED  BY <1>2, <1>3, <1>10, <1>12 DEF WrittenAlike

LEMMA MapAlike ==
  ASSUME NEW v, NEW depth \in Nat, depth <= MaxDepth, NEW f, NEW other \in Nat, other <= depth, NEW g,
         NEW of, v = Map(of), IsFiniteSet(DOMAIN of), DOMAIN of \subseteq Strings,
         Alike(f, g, Parts(v)), IsOk(EncodeItem(v, depth, f))
  PROVE  WrittenAlike(v, depth, f, other, g)
<1>1. other <= MaxDepth
  BY BaseType
<1>. DEFINE n == Cardinality(DOMAIN of)  keys == KeysOf(of)  head == Written(EncodeHead(5, n))
            a == EncodeEntries(keys, of, f)  b == EncodeEntries(keys, of, g)
<1>2. EncodeItem(v, depth, f) = Joined(<< head >> \o a)
  <2>1. \A x : EncodeItem(Map(x), depth, f)
                 = Joined(<< Written(EncodeHead(5, Cardinality(DOMAIN x))) >> \o EncodeEntries(KeysOf(x), x, f))
    BY EncodedByKind, Zenon
  <2>. QED  BY <2>1
<1>3. EncodeItem(v, other, g) = Joined(<< head >> \o b)
  <2>1. \A x : EncodeItem(Map(x), other, g)
                 = Joined(<< Written(EncodeHead(5, Cardinality(DOMAIN x))) >> \o EncodeEntries(KeysOf(x), x, g))
    BY <1>1, EncodedByKind, Zenon
  <2>. QED  BY <2>1
<1>4. n \in Nat
  BY FS_CardinalityType
<1>. HIDE DEF n
<1>5. PICK ks : Increasing(ks, n) /\ FirstOf(ks, n) = DOMAIN of
  BY <1>4, KeysInLine DEF n
<1>6. keys = [k \in 1 .. n |-> ks[k]]
  BY <1>4, <1>5, KeysInOrder
<1>7. DOMAIN keys = 1 .. n /\ \A k \in 1 .. n : keys[k] = ks[k]
  BY <1>6
<1>8. /\ a = [k \in 1 .. n |-> Joined(<< EncodeString(3, ks[k]), f[of[ks[k]]] >>)]
      /\ b = [k \in 1 .. n |-> Joined(<< EncodeString(3, ks[k]), g[of[ks[k]]] >>)]
  <2>. HIDE DEF keys
  <2>. QED  BY <1>7 DEF EncodeEntries
<1>9. \A k \in 1 .. n : a[k] = Joined(<< EncodeString(3, ks[k]), f[of[ks[k]]] >>)
  BY <1>8
<1>10. a = [k \in 1 .. n |-> a[k]]
  BY <1>8, <1>9
<1>11. Parts(v) = {of[key] : key \in DOMAIN of}
  BY PartsByKind
<1>. HIDE DEF head, a, b, keys
<1>12. \A k \in 1 .. n : IsOk(a[k])
  BY <1>2, <1>4, <1>10, HeadedOk
<1>13. ASSUME NEW k \in 1 .. n PROVE ks[k] \in DOMAIN of /\ IsOk(f[of[ks[k]]])
  <2>. DEFINE x == f[of[ks[k]]]  y == EncodeString(3, ks[k])  pair == << y, x >>
  <2>1. IsOk(Joined(pair))
    BY <1>9, <1>12
  <2>2. DOMAIN pair = 1 .. 2 /\ pair[2] = x
    OBVIOUS
  <2>. HIDE DEF pair
  <2>3. 2 \in 1 .. 2 /\ 2 \in Nat
    OBVIOUS
  <2>4. IsOk(pair[2])
    BY <2>1, <2>2, <2>3, JoinedOk
  <2>5. ks[k] \in DOMAIN of
    BY <1>5 DEF FirstOf
  <2>. QED  BY <2>2, <2>4, <2>5
<1>14. \A x \in Parts(v) : IsOk(f[x])
  <2>1. \A key \in DOMAIN of : \E k \in 1 .. n : key = ks[k]
    BY <1>5 DEF FirstOf
  <2>. QED  BY <1>11, <1>13, <2>1
<1>15. \A k \in 1 .. n : f[of[ks[k]]] = g[of[ks[k]]]
  BY <1>11, <1>13 DEF Alike
<1>16. a = b
  BY <1>8, <1>15
<1>. QED  BY <1>2, <1>3, <1>14, <1>16 DEF WrittenAlike

\* A value is written alike at any depth that it has room at.
LEMMA NodeAlike ==
  ASSUME NEW v, IsNode(v), NEW depth \in Nat, NEW f, NEW other \in Nat, other <= depth, NEW g,
         Alike(f, g, Parts(v)), IsOk(EncodeItem(v, depth, f))
  PROVE  depth <= MaxDepth /\ WrittenAlike(v, depth, f, other, g)
<1>1. depth <= MaxDepth
  <2>1. depth > MaxDepth => EncodeItem(v, depth, f) = Fail("NestingTooDeep")
    BY Zenon DEF EncodeItem
  <2>2. EncodeItem(v, depth, f) # Fail("NestingTooDeep")
    BY Results
  <2>. QED  BY <2>1, <2>2, BaseType
<1>2. CASE v.kind \notin {"list", "map"}
  BY <1>1, <1>2, LeafAlike
<1>3. CASE v.kind = "list"
  <2>1. v = List(v.items) /\ \E len \in 0 .. MaxArg : v.items = [k \in 1 .. len |-> v.items[k]]
    BY <1>3 DEF IsNode
  <2>2. PICK len \in 0 .. MaxArg : v.items = [k \in 1 .. len |-> v.items[k]]
    BY <2>1
  <2>3. len \in Nat
    OBVIOUS
  <2>. QED  BY <1>1, <2>1, <2>2, <2>3, ListAlike
<1>4. CASE v.kind = "map"
  <2>1. v = Map(v.of) /\ IsFiniteSet(DOMAIN v.of) /\ DOMAIN v.of \subseteq Strings
    BY <1>4 DEF IsNode, IsText, Strings
  <2>. QED  BY <1>1, <2>1, MapAlike
<1>. QED  BY <1>1, <1>2, <1>3, <1>4

\* What is nested in a value is all that it takes to read it back.
LEMMA PlainAlike ==
  ASSUME NEW v, IsNode(v), NEW a, NEW b, \A x \in Parts(v) : a[x] = b[x]
  PROVE  UnsignedItem(v, a) = UnsignedItem(v, b)
<1>1. CASE v.kind \notin {"list", "map"}
  BY <1>1, Zenon DEF UnsignedItem
<1>2. CASE v.kind = "list"
  <2>1. v = List(v.items)
    BY <1>2 DEF IsNode
  <2>. DEFINE items == v.items
  <2>2. UnsignedItem(v, a) = List([k \in DOMAIN items |-> a[items[k]]])
    BY <2>1, UnsignedByKind
  <2>3. UnsignedItem(v, b) = List([k \in DOMAIN items |-> b[items[k]]])
    BY <2>1, UnsignedByKind
  <2>4. \A k \in DOMAIN items : a[items[k]] = b[items[k]]
    BY <2>1, PartsByKind
  <2>. HIDE DEF items
  <2>. QED  BY <2>2, <2>3, <2>4
<1>3. CASE v.kind = "map"
  <2>1. v = Map(v.of)
    BY <1>3 DEF IsNode
  <2>. DEFINE of == v.of
  <2>2. UnsignedItem(v, a) = Map([k \in DOMAIN of |-> a[of[k]]])
    BY <2>1, UnsignedByKind
  <2>3. UnsignedItem(v, b) = Map([k \in DOMAIN of |-> b[of[k]]])
    BY <2>1, UnsignedByKind
  <2>4. \A k \in DOMAIN of : a[of[k]] = b[of[k]]
    BY <2>1, PartsByKind
  <2>. HIDE DEF of
  <2>. QED  BY <2>2, <2>3, <2>4
<1>. QED  BY <1>1, <1>2, <1>3

\* How a value is written, and read back, level by level.
LEMMA FormOfValue ==
  ASSUME NEW v
  PROVE  \E W, P : /\ IsWriting(W, LevelsOf(v), 0) /\ Encode(v) = W[0][v]
                   /\ IsPlain(P, LevelsOf(v), 0) /\ Unsigned(v) = P[0][v]
<1>. DEFINE L == LevelsOf(v)  W == CHOOSE f : IsWriting(f, L, 0)  P == CHOOSE f : IsPlain(f, L, 0)
<1>1. Encode(v) = W[0][v]
  BY Zenon DEF Encode, IsWriting, WriteLevel
<1>2. Unsigned(v) = P[0][v]
  BY Zenon DEF Unsigned, IsPlain, PlainLevel
<1>3. IsWriting(W, L, 0)
  <2>. HIDE DEF L
  <2>. QED  BY WritingExists
<1>4. IsPlain(P, L, 0)
  <2>. HIDE DEF L
  <2>. QED  BY PlainExists
<1>. QED  BY <1>1, <1>2, <1>3, <1>4

\* What is written one deeper in a value is written, and read back, alike by itself.
ShiftedAt(D, W, V, P, Q) == \A y \in D : IsOk(W[y]) => V[y] = W[y] /\ Q[y] = P[y]

LEMMA LevelShifted ==
  ASSUME NEW d \in 0 .. MaxDepth, NEW D, NEW E, NEW F, \A y \in D : IsNode(y) /\ Parts(y) \subseteq E /\ y \in F,
         NEW W, NEW V, NEW P, NEW Q, ShiftedAt(E, W, V, P, Q)
  PROVE  ShiftedAt(D, WriteLevel(F, d + 1, W), WriteLevel(D, d, V), PlainLevel(F, d + 1, P), PlainLevel(D, d, Q))
<1>. DEFINE A == WriteLevel(F, d + 1, W)  B == WriteLevel(D, d, V)
            G == PlainLevel(F, d + 1, P)  H == PlainLevel(D, d, Q)
<1>1. MaxDepth \in Nat /\ d \in Nat /\ d + 1 \in Nat /\ d <= d + 1 /\ ~(d > MaxDepth)
  BY BaseType
<1>2. \A y \in D : A[y] = EncodeItem(y, d + 1, W) /\ B[y] = EncodeItem(y, d, V)
  BY DEF WriteLevel
<1>3. \A y \in D : G[y] = IF d + 1 > MaxDepth THEN y ELSE UnsignedItem(y, P)
  BY DEF PlainLevel
<1>4. \A y \in D : H[y] = UnsignedItem(y, Q)
  BY <1>1 DEF PlainLevel
<1>. HIDE DEF A, B, G, H
<1>5. ASSUME NEW y \in D, IsOk(A[y]) PROVE B[y] = A[y] /\ H[y] = G[y]
  <2>. DEFINE deep == d + 1
  <2>1. Alike(W, V, Parts(y)) /\ IsOk(EncodeItem(y, deep, W)) /\ IsNode(y) /\ deep \in Nat /\ d <= deep
    BY <1>1, <1>2, <1>5 DEF ShiftedAt, Alike
  <2>. HIDE DEF deep
  <2>2. deep <= MaxDepth /\ WrittenAlike(y, deep, W, d, V)
    BY <1>1, <2>1, NodeAlike
  <2>3. B[y] = A[y] /\ \A x \in Parts(y) : IsOk(W[x])
    BY <1>2, <2>2 DEF WrittenAlike, deep
  <2>4. \A x \in Parts(y) : Q[x] = P[x]
    BY <2>3 DEF ShiftedAt
  <2>5. UnsignedItem(y, Q) = UnsignedItem(y, P)
    BY <2>1, <2>4, PlainAlike
  <2>6. G[y] = UnsignedItem(y, P)
    BY <1>1, <1>3, <2>2 DEF deep
  <2>. QED  BY <1>4, <2>3, <2>5, <2>6
<1>. QED  BY <1>5 DEF ShiftedAt, A, B, G, H

LEMMA Shifted ==
  ASSUME NEW v, NEW x \in Parts(v), IsValueTo(x, MaxDepth),
         NEW W, IsWriting(W, LevelsOf(v), 0), NEW P, IsPlain(P, LevelsOf(v), 0),
         NEW V, IsWriting(V, LevelsOf(x), 0), NEW Q, IsPlain(Q, LevelsOf(x), 0)
  PROVE  ShiftedAt({x}, W[1], V[0], P[1], Q[0])
<1>. DEFINE M == MaxDepth  N == MaxDepth + 1  L == LevelsOf(v)  K == LevelsOf(x)
            Good(d) == ShiftedAt(K[d], W[d + 1], V[d], P[d + 1], Q[d])
            S == {j \in 0 .. M : Good(M - j)}
<1>1. M \in Nat /\ N = M + 1 /\ N \in Nat /\ 0 \in 0 .. N /\ 0 .. M \subseteq 0 .. N /\ M = MaxDepth
  BY BaseType
<1>2. \A d \in 0 .. N : /\ W[d] = WriteLevel(L[d], d, W[d + 1]) /\ V[d] = WriteLevel(K[d], d, V[d + 1])
                        /\ P[d] = PlainLevel(L[d], d, P[d + 1]) /\ Q[d] = PlainLevel(K[d], d, Q[d + 1])
  BY <1>1, WritingAt, PlainAt
<1>3. \A d \in 0 .. M : K[d] \subseteq L[d + 1]
  <2>1. \A d \in 0 .. M : L[d + 1] = UnderParts(v, d)
    BY LevelsUnder
  <2>. QED  BY <2>1 DEF UnderParts
<1>4. K[0] = {x} /\ \A d \in 1 .. N : K[d] = UNION {Parts(y) : y \in K[d - 1]}
  BY LevelsRule
<1>5. \A d \in 0 .. M : \A y \in K[d] : IsNode(y)
  BY DEF IsValueTo
<1>. HIDE DEF L, K
<1>6. 0 \in S
  <2>1. \A y, write : EncodeItem(y, N, write) = Fail("NestingTooDeep")
    <3>1. N > MaxDepth
      BY <1>1
    <3>. QED  BY <3>1, Zenon DEF EncodeItem
  <2>2. N \in 0 .. N /\ M - 0 = M /\ M + 1 = N /\ M \in 0 .. M
    BY <1>1
  <2>3. W[N] = WriteLevel(L[N], N, W[N + 1]) /\ K[M] \subseteq L[N]
    BY <1>2, <1>3, <2>2
  <2>. HIDE DEF M, N
  <2>4. \A y \in K[M] : ~IsOk(W[N][y])
    BY <2>1, <2>3, Results DEF WriteLevel
  <2>5. Good(M)
    BY <2>2, <2>4 DEF ShiftedAt
  <2>. QED  BY <1>1, <2>2, <2>5
<1>7. ASSUME NEW j \in 0 .. M - 1, j \in S PROVE j + 1 \in S
  <2>. DEFINE a == M - j  b == M - (j + 1)
  <2>1. /\ a \in 1 .. M /\ b \in 0 .. M /\ b + 1 = a /\ a - 1 = b /\ a \in 0 .. N /\ b \in 0 .. N
        /\ a \in 1 .. N /\ b \in 0 .. MaxDepth
    BY <1>1
  <2>2. ShiftedAt(K[a], W[a + 1], V[a], P[a + 1], Q[a])
    BY <1>7
  <2>. HIDE DEF a, b, M, N
  <2>3. \A y \in K[b] : IsNode(y) /\ Parts(y) \subseteq K[a] /\ y \in L[a]
    BY <1>3, <1>4, <1>5, <2>1
  <2>4. /\ W[a] = WriteLevel(L[a], a, W[a + 1]) /\ V[b] = WriteLevel(K[b], b, V[a])
        /\ P[a] = PlainLevel(L[a], a, P[a + 1]) /\ Q[b] = PlainLevel(K[b], b, Q[a])
    BY <1>2, <2>1
  <2>5. ShiftedAt(K[b], WriteLevel(L[a], b + 1, W[a + 1]), WriteLevel(K[b], b, V[a]),
                  PlainLevel(L[a], b + 1, P[a + 1]), PlainLevel(K[b], b, Q[a]))
    BY <2>1, <2>2, <2>3, LevelShifted
  <2>6. Good(b)
    BY <2>1, <2>4, <2>5
  <2>7. j + 1 \in 0 .. M
    BY <1>1
  <2>. QED  BY <2>6, <2>7 DEF b
<1>8. 0 .. M \subseteq S
  <2>. HIDE DEF M, S
  <2>. QED  BY <1>1, <1>6, <1>7, InductionUpTo
<1>9. M \in S /\ M - M = 0 /\ 0 + 1 = 1
  BY <1>1, <1>8
<1>10. Good(0)
  BY <1>9
<1>. QED  BY <1>4, <1>9, <1>10

\* A value is written, and read back, from what its parts are by themselves.
IsEncodedFrom(v, write, plain) ==
  /\ Encode(v) = EncodeItem(v, 0, write) /\ Unsigned(v) = UnsignedItem(v, plain)
  /\ \A x \in Parts(v) : IsOk(Encode(x)) /\ write[x] = Encode(x) /\ plain[x] = Unsigned(x)

LEMMA EncodedFromParts ==
  ASSUME NEW v, IsValue(v), IsOk(Encode(v))
  PROVE  \E write, plain : IsEncodedFrom(v, write, plain)
<1>1. PICK W, P : /\ IsWriting(W, LevelsOf(v), 0) /\ Encode(v) = W[0][v]
                  /\ IsPlain(P, LevelsOf(v), 0) /\ Unsigned(v) = P[0][v]
  BY FormOfValue
<1>2. /\ MaxDepth \in Nat /\ 0 \in 0 .. MaxDepth + 1 /\ 0 + 1 = 1 /\ ~(0 > MaxDepth) /\ 0 \in Nat
      /\ 0 <= 0
  BY BaseType
<1>3. v \in LevelsOf(v)[0]
  BY LevelsRule
<1>4. W[0] = WriteLevel(LevelsOf(v)[0], 0, W[1]) /\ P[0] = PlainLevel(LevelsOf(v)[0], 0, P[1])
  BY <1>1, <1>2, WritingAt, PlainAt
<1>5. Encode(v) = EncodeItem(v, 0, W[1]) /\ Unsigned(v) = UnsignedItem(v, P[1])
  BY <1>1, <1>2, <1>3, <1>4 DEF WriteLevel, PlainLevel
<1>6. IsNode(v) /\ \A x \in Parts(v) : IsValueTo(x, MaxDepth)
  BY ValueByParts
<1>7. \A x \in Parts(v) : IsOk(W[1][x])
  <2>. DEFINE f == W[1]
  <2>1. Alike(f, f, Parts(v)) /\ IsOk(EncodeItem(v, 0, f))
    BY <1>5 DEF Alike
  <2>. HIDE DEF f
  <2>2. WrittenAlike(v, 0, f, 0, f)
    BY <1>2, <1>6, <2>1, NodeAlike
  <2>. QED  BY <2>2 DEF WrittenAlike, f
<1>8. ASSUME NEW x \in Parts(v) PROVE IsOk(Encode(x)) /\ W[1][x] = Encode(x) /\ P[1][x] = Unsigned(x)
  <2>1. PICK V, Q : /\ IsWriting(V, LevelsOf(x), 0) /\ Encode(x) = V[0][x]
                    /\ IsPlain(Q, LevelsOf(x), 0) /\ Unsigned(x) = Q[0][x]
    BY FormOfValue
  <2>2. ShiftedAt({x}, W[1], V[0], P[1], Q[0])
    BY <1>1, <1>6, <2>1, Shifted
  <2>3. V[0][x] = W[1][x] /\ Q[0][x] = P[1][x]
    BY <1>7, <2>2 DEF ShiftedAt
  <2>. QED  BY <1>7, <2>1, <2>3
<1>9. IsEncodedFrom(v, W[1], P[1])
  BY <1>5, <1>8 DEF IsEncodedFrom
<1>. QED  BY <1>9

----------------------------------------------------------------------------
(* The signed element of an envelope.                                      *)

\* What it is made of: its head, the header under its key, the payload under
\* its tag.
ElementOf(raw, tag, e) ==
  EncodeHead(5, 2) \o (EncodeString(3, HeaderKey).value \o (EncodeString(2, raw).value
    \o (EncodeString(3, tag).value \o e)))

\* b and then what is held after it.
HeldOn(s, p, b, c, q) == Holds(s, p, b \o c) /\ q = p + Len(b \o c) /\ b \o c \in Seq(Byte)

LEMMA HeldTogether ==
  ASSUME NEW s \in Seq(Byte), NEW p, NEW b \in Seq(Byte), NEW c \in Seq(Byte), Holds(s, p, b),
         NEW m, m = p + Len(b), Holds(s, m, c), NEW q, q = m + Len(c)
  PROVE  HeldOn(s, p, b, c, q)
<1>. DEFINE d == b \o c
<1>1. d \in Seq(Byte) /\ IsConcat(d, b, c)
  BY ConcatType
<1>. HIDE DEF d
<1>2. /\ Len(d) = Len(b) + Len(c) /\ Len(b) \in Nat /\ Len(c) \in Nat
      /\ \A k \in 1 .. Len(b) : d[k] = b[k]
      /\ \A k \in 1 .. Len(c) : d[Len(b) + k] = c[k]
  BY <1>1 DEF IsConcat
<1>3. /\ p \in Nat /\ Len(s) \in Nat /\ m + Len(c) <= Len(s)
      /\ \A k \in 1 .. Len(b) : s[p + k] = b[k]
      /\ \A k \in 1 .. Len(c) : s[m + k] = c[k]
  BY HoldsShows
<1>4. p + Len(d) <= Len(s) /\ q = p + Len(d)
  BY <1>2, <1>3
<1>5. ASSUME NEW k \in 1 .. Len(d) PROVE s[p + k] = d[k]
  <2>1. CASE k \in 1 .. Len(b)
    BY <1>2, <1>3, <2>1
  <2>2. CASE k \notin 1 .. Len(b)
    <3>. DEFINE j == k - Len(b)
    <3>1. j \in 1 .. Len(c) /\ k = Len(b) + j /\ p + k = m + j
      BY <1>2, <1>3, <2>2
    <3>. HIDE DEF j
    <3>. QED  BY <1>2, <1>3, <3>1
  <2>. QED  BY <2>1, <2>2
<1>6. Holds(s, p, d)
  BY <1>1, <1>3, <1>4, <1>5, HoldsWhen
<1>. QED  BY <1>1, <1>4, <1>6 DEF HeldOn, d

\* The map that is signed has two keys, in this order.
IsPairOf(of, raw, tag, payload) ==
  /\ DOMAIN of = {HeaderKey, tag} /\ of = [k \in {HeaderKey, tag} |-> of[k]]
  /\ of[HeaderKey] = Bytes(raw) /\ of[tag] = payload

LEMMA SignedPair ==
  ASSUME NEW raw, NEW tag, tag # HeaderKey, NEW payload
  PROVE  \E of : SigPayload(raw, tag, payload) = Map(of) /\ IsPairOf(of, raw, tag, payload)
<1>. DEFINE a == Bytes(raw)  first == Inserted(<< >>, HeaderKey, a)
            m == Inserted(first, tag, payload)
<1>1. SigPayload(raw, tag, payload) = Map(m)
  BY DEF SigPayload
<1>. HIDE DEF a
<1>2. DOMAIN first = {HeaderKey} /\ first[HeaderKey] = a
  BY DEF Inserted
<1>. HIDE DEF first
<1>3. /\ DOMAIN m = {HeaderKey, tag} /\ m = [k \in {HeaderKey, tag} |-> m[k]]
      /\ m[HeaderKey] = a /\ m[tag] = payload
  BY <1>2 DEF Inserted
<1>. HIDE DEF m
<1>. QED  BY <1>1, <1>3 DEF IsPairOf, a

\* The keys of the map, in order.
KeysAre(of, tag) ==
  /\ Cardinality(DOMAIN of) = 2
  /\ DOMAIN KeysOf(of) = 1 .. 2 /\ KeysOf(of)[1] = HeaderKey /\ KeysOf(of)[2] = tag

LEMMA KeysOfPair ==
  ASSUME NEW of, NEW tag \in Strings, HeaderKey \in Strings, DOMAIN of = {HeaderKey, tag},
         Len(HeaderKey) < Len(tag)
  PROVE  KeysAre(of, tag)
<1>. DEFINE ks == << HeaderKey, tag >>
<1>1. ks[1] = HeaderKey /\ ks[2] = tag
  OBVIOUS
<1>. HIDE DEF ks
<1>2. \A k \in 1 .. 2 : k = 1 \/ k = 2
  OBVIOUS
<1>3. \A k \in 2 .. 2 : k = 2 /\ k - 1 = 1
  OBVIOUS
<1>4. KeyBelow(HeaderKey, tag)
  BY DEF KeyBelow
<1>5. Increasing(ks, 2)
  BY <1>1, <1>2, <1>3, <1>4 DEF Increasing
<1>6. FirstOf(ks, 2) = {HeaderKey, tag}
  <2>1. 1 \in 1 .. 2 /\ 2 \in 1 .. 2
    OBVIOUS
  <2>. QED  BY <1>1, <1>2, <2>1 DEF FirstOf
<1>7. Cardinality(DOMAIN of) = 2 /\ KeysOf(of) = [k \in 1 .. 2 |-> ks[k]]
  <2>. DEFINE n == 2
  <2>1. n \in Nat /\ Increasing(ks, n) /\ DOMAIN of = FirstOf(ks, n)
    BY <1>5, <1>6
  <2>. HIDE DEF n
  <2>2. Cardinality(DOMAIN of) = n /\ KeysOf(of) = [k \in 1 .. n |-> ks[k]]
    BY <2>1, KeysInOrder
  <2>. QED  BY <2>2 DEF n
<1>8. 1 \in 1 .. 2 /\ 2 \in 1 .. 2
  OBVIOUS
<1>. QED  BY <1>1, <1>7, <1>8 DEF KeysAre
\* What is written of an element is what it is made of.
LEMMA ElementIs ==
  ASSUME NEW raw, IsNode(Bytes(raw)), NEW tag, IsText(tag), Len(HeaderKey) < Len(tag),
         NEW of, IsValue(Map(of)), NEW w, w = Encode(SigPayload(raw, tag, Map(of))), IsOk(w)
  PROVE  /\ IsOk(Encode(Map(of))) /\ w = Written(w.value) /\ w.value \in Seq(Byte)
         /\ w.value = ElementOf(raw, tag, Encode(Map(of)).value)
<1>. DEFINE payload == Map(of)  P == SigPayload(raw, tag, payload)  e == Encode(payload)
            a == EncodeString(3, HeaderKey)  b == EncodeString(2, raw)  c == EncodeString(3, tag)
            h == EncodeHead(5, 2)  t == w.value
<1>1. IsText(HeaderKey) /\ HeaderKey \in Strings /\ tag \in Strings /\ tag # HeaderKey
  BY TokensFit DEF IsText, Strings
<1>2. IsValue(P)
  BY SigPayloadIsValue
<1>3. PICK write, plain : IsEncodedFrom(P, write, plain)
  <2>. HIDE DEF P
  <2>. QED  BY <1>2, EncodedFromParts DEF P
<1>. HIDE DEF payload
<1>4. PICK m : P = Map(m) /\ IsPairOf(m, raw, tag, payload)
  BY <1>1, SignedPair
<1>. HIDE DEF P
<1>5. KeysAre(m, tag)
  BY <1>1, <1>4, KeysOfPair DEF IsPairOf
<1>. DEFINE keys == KeysOf(m)  rest == EncodeEntries(keys, m, write)
<1>6. DOMAIN keys = 1 .. 2 /\ keys[1] = HeaderKey /\ keys[2] = tag /\ Cardinality(DOMAIN m) = 2
  BY <1>5 DEF KeysAre
<1>7. w = Joined(<< Written(h) >> \o rest)
  <2>1. 0 \in Nat /\ 0 <= MaxDepth
    BY BaseType
  <2>2. EncodeItem(Map(m), 0, write) = Joined(<< Written(EncodeHead(5, Cardinality(DOMAIN m))) >> \o rest)
    BY <2>1, EncodedByKind
  <2>3. Encode(P) = EncodeItem(P, 0, write)
    BY <1>3 DEF IsEncodedFrom
  <2>. HIDE DEF rest
  <2>. QED  BY <1>4, <1>6, <2>2, <2>3 DEF P, payload
<1>8. Parts(P) = {Bytes(raw), payload}
  <2>1. Parts(P) = {m[key] : key \in DOMAIN m}
    BY <1>4, PartsByKind
  <2>. QED  BY <1>4, <2>1 DEF IsPairOf
<1>9. write[Bytes(raw)] = b /\ write[payload] = e /\ IsOk(e)
  <2>1. write[Bytes(raw)] = Encode(Bytes(raw)) /\ write[payload] = e /\ IsOk(e) /\ IsOk(Encode(Bytes(raw)))
    BY <1>3, <1>8 DEF IsEncodedFrom
  <2>2. IsValue(Bytes(raw))
    BY BytesAreValue
  <2>3. PICK f, g : IsEncodedFrom(Bytes(raw), f, g)
    BY <2>1, <2>2, EncodedFromParts
  <2>4. EncodeItem(Bytes(raw), 0, f) = b
    <3>1. 0 \in Nat /\ 0 <= MaxDepth
      BY BaseType
    <3>. QED  BY <3>1, EncodedByKind
  <2>5. Encode(Bytes(raw)) = b
    BY <2>3, <2>4 DEF IsEncodedFrom
  <2>. QED  BY <2>1, <2>5
<1>10. rest = [k \in 1 .. 2 |-> rest[k]] /\ rest[1] = Joined(<< a, b >>) /\ rest[2] = Joined(<< c, e >>)
  <2>1. m[HeaderKey] = Bytes(raw) /\ m[tag] = payload
    BY <1>4 DEF IsPairOf
  <2>2. rest = [k \in 1 .. 2 |-> Joined(<< EncodeString(3, keys[k]), write[m[keys[k]]] >>)]
    BY <1>6 DEF EncodeEntries
  <2>3. 1 \in 1 .. 2 /\ 2 \in 1 .. 2
    OBVIOUS
  <2>. HIDE DEF rest, keys
  <2>4. rest[1] = Joined(<< EncodeString(3, keys[1]), write[m[keys[1]]] >>)
        /\ rest[2] = Joined(<< EncodeString(3, keys[2]), write[m[keys[2]]] >>)
    BY <2>2, <2>3
  <2>5. rest = [k \in 1 .. 2 |-> rest[k]]
    BY <2>2
  <2>. QED  BY <1>6, <1>9, <2>1, <2>4, <2>5
<1>11. h \in Seq(Byte) /\ IsWritten(a) /\ IsWritten(b) /\ IsWritten(c) /\ IsWritten(e)
  <2>1. raw \in Seq(Byte) /\ Len(raw) <= MaxArg
    BY BytesAreValue
  <2>2. 5 \in 0 .. 7 /\ 2 \in Nat /\ 2 <= MaxArg /\ 3 \in 0 .. 6 /\ 2 \in 0 .. 6
    BY TokensFit, LargestType, BaseType DEF MaxArg
  <2>3. h \in Seq(Byte)
    BY <2>2, HeadType
  <2>4. IsWritten(a) /\ IsWritten(b) /\ IsWritten(c)
    BY <1>1, <2>1, <2>2, StringWritten DEF IsText
  <2>5. IsWritten(e)
    BY <1>9, EncodedIsWritten DEF payload
  <2>. QED  BY <2>3, <2>4, <2>5
<1>. HIDE DEF rest, a, b, c, e, h
<1>12. IsOk(rest[1]) => IsPair(rest[1], a, b)
  BY <1>10, <1>11, PairInTurn
<1>13. IsOk(rest[2]) => IsPair(rest[2], c, e)
  BY <1>10, <1>11, PairInTurn
<1>14. IsHeaded(w, h, rest, 2)
  <2>. DEFINE n == 2
  <2>1. \A k \in 1 .. n : k = 1 \/ k = 2
    OBVIOUS
  <2>2. \A k \in 1 .. n : IsOk(rest[k]) => IsWritten(rest[k])
    BY <1>12, <1>13, <2>1 DEF IsPair
  <2>3. n \in Nat /\ rest = [k \in 1 .. n |-> rest[k]]
    BY <1>10
  <2>. HIDE DEF n
  <2>4. IsHeaded(Joined(<< Written(h) >> \o rest), h, rest, n)
    BY <1>7, <1>11, <2>2, <2>3, HeadInTurn
  <2>. QED  BY <1>7, <2>4 DEF n
<1>15. w = Written(t) /\ t \in Seq(Byte)
  BY <1>14 DEF IsHeaded, IsWritten
<1>16. Holds(t, 0, t) /\ 0 + Len(t) = Len(t)
  <2>1. Spans(t, 0, Len(t)) /\ Part(t, 0, Len(t)) = t /\ 0 + Len(t) = Len(t)
    BY <1>15, PartWhole, BytesType
  <2>. HIDE DEF t
  <2>. QED  BY <2>1 DEF Holds
<1>17. PICK q : Holds(t, 0, h) /\ RestHeld(t, 0 + Len(h), 0 + Len(t), rest, 2, q)
  BY <1>14, <1>15, <1>16 DEF IsHeaded
<1>. DEFINE at == q[0]  mid == q[1]
<1>18. /\ at = 0 + Len(h) /\ Holds(t, at, rest[1].value) /\ mid = at + Len(rest[1].value)
       /\ Holds(t, mid, rest[2].value) /\ Len(t) = mid + Len(rest[2].value)
  <2>1. 1 \in 1 .. 2 /\ 2 \in 1 .. 2 /\ 1 - 1 = 0 /\ 2 - 1 = 1
    OBVIOUS
  <2>2. q[0] = 0 + Len(h) /\ q[2] = 0 + Len(t) /\ PartHeld(t, q, rest, 1) /\ PartHeld(t, q, rest, 2)
    BY <1>17, <2>1 DEF RestHeld
  <2>. HIDE DEF t
  <2>. QED  BY <1>16, <2>1, <2>2 DEF PartHeld
<1>. HIDE DEF at, mid, t
<1>19. IsPair(rest[1], a, b) /\ IsPair(rest[2], c, e)
  <2>1. 1 \in 1 .. 2 /\ 2 \in 1 .. 2
    OBVIOUS
  <2>2. IsOk(rest[1]) /\ IsOk(rest[2])
    BY <1>14, <2>1 DEF IsHeaded, IsWritten
  <2>. QED  BY <1>12, <1>13, <2>2
<1>20. /\ Holds(t, at, a.value) /\ Holds(t, at + Len(a.value), b.value)
       /\ mid = at + Len(a.value) + Len(b.value)
       /\ Holds(t, mid, c.value) /\ Holds(t, mid + Len(c.value), e.value)
       /\ Len(t) = mid + Len(c.value) + Len(e.value)
  BY <1>15, <1>18, <1>19 DEF IsPair
<1>21. a.value \in Seq(Byte) /\ b.value \in Seq(Byte) /\ c.value \in Seq(Byte) /\ e.value \in Seq(Byte)
  BY <1>11 DEF IsWritten
<1>22. HeldOn(t, mid, c.value, e.value, Len(t))
  BY <1>15, <1>20, <1>21, HeldTogether
<1>. DEFINE d == c.value \o e.value
<1>23. Holds(t, mid, d) /\ Len(t) = mid + Len(d) /\ d \in Seq(Byte)
  BY <1>22 DEF HeldOn
<1>. HIDE DEF d
<1>24. HeldOn(t, at + Len(a.value), b.value, d, Len(t))
  BY <1>15, <1>20, <1>21, <1>23, HeldTogether
<1>. DEFINE f == b.value \o d
<1>25. Holds(t, at + Len(a.value), f) /\ Len(t) = (at + Len(a.value)) + Len(f) /\ f \in Seq(Byte)
  BY <1>24 DEF HeldOn
<1>. HIDE DEF f
<1>26. HeldOn(t, at, a.value, f, Len(t))
  BY <1>15, <1>20, <1>21, <1>25, HeldTogether
<1>. DEFINE g == a.value \o f
<1>27. Holds(t, at, g) /\ Len(t) = at + Len(g) /\ g \in Seq(Byte)
  BY <1>26 DEF HeldOn
<1>. HIDE DEF g
<1>28. HeldOn(t, 0, h, g, Len(t))
  BY <1>11, <1>15, <1>17, <1>18, <1>27, HeldTogether
<1>29. t = h \o g
  <2>. DEFINE i == h \o g
  <2>1. Holds(t, 0, i) /\ Len(t) = 0 + Len(i) /\ i \in Seq(Byte)
    BY <1>28 DEF HeldOn
  <2>. HIDE DEF i
  <2>2. Part(t, 0, Len(t)) = i
    BY <2>1 DEF Holds
  <2>3. Part(t, 0, Len(t)) = t
    BY <1>15, PartWhole
  <2>. QED  BY <2>2, <2>3 DEF i
<1>30. t = ElementOf(raw, tag, e.value)
  BY <1>29 DEF ElementOf, a, b, c, h, d, f, g
<1>. QED  BY <1>9, <1>15, <1>30 DEF t, e, payload

----------------------------------------------------------------------------
(* Values of text, whoever they are from.                                  *)

LEMMA NodeIsTextual ==
  ASSUME NEW v, IsNode(v)
  PROVE  IsTextual(v)
<1>1. CASE v.kind \notin {"list", "map", "text"}
  BY <1>1 DEF IsNode, IsTextual
<1>2. CASE v.kind = "text"
  BY <1>2 DEF IsNode, IsTextual, IsText
<1>3. CASE v.kind = "list"
  <2>1. PICK len \in 0 .. MaxArg : Len(v.items) = len /\ v.items = [k \in 1 .. len |-> v.items[k]]
    BY <1>3 DEF IsNode
  <2>2. v = List(v.items) /\ len \in Nat
    BY <1>3 DEF IsNode
  <2>. QED  BY <1>3, <2>1, <2>2 DEF IsTextual
<1>4. CASE v.kind = "map"
  <2>1. v = Map(v.of) /\ v.of = [key \in DOMAIN v.of |-> v.of[key]] /\ IsFiniteSet(DOMAIN v.of)
        /\ \A key \in DOMAIN v.of : IsText(key)
    BY <1>4 DEF IsNode
  <2>. QED  BY <1>4, <2>1 DEF IsTextual, IsText
<1>. QED  BY <1>1, <1>2, <1>3, <1>4

LEMMA ValueIsTextual ==
  ASSUME NEW v, IsValue(v)
  PROVE  TextualTo(v, MaxDepth + 1)
BY NodeIsTextual DEF IsValue, TextualTo

\* What is read, as deep as it goes.
LEMMA ReadIsTextual ==
  ASSUME NEW s \in Seq(Byte), NEW p \in 0 .. Len(s), IsOk(Item(s, p, 0))
  PROVE  TextualTo(Item(s, p, 0).value, MaxDepth + 1)
<1>. DEFINE R == CHOOSE f : IsReading(f, s, 0)
            L == CHOOSE f : IsLevels(f, 0, MaxDepth + 1)
            W == CHOOSE f : IsWriting(f, L, 0)
            N == MaxDepth + 1
            r == Item(s, p, 0)  v == r.value
<1>1. r = R[0][p]
  BY Zenon DEF Item, IsReading, ReadLevel
<1>2. MaxDepth \in Nat /\ N \in Nat /\ 0 \in 0 .. N /\ N = MaxDepth + 1
  BY BaseType
<1>3. IsReading(R, s, 0)
  BY ReadingExists
<1>4. IsLevels(L, 0, MaxDepth + 1)
  BY <1>2, LevelsExist
<1>. HIDE DEF L
<1>5. IsWriting(W, L, 0)
  BY WritingExists
<1>. HIDE DEF R, W
<1>6. \A depth \in 0 .. MaxDepth + 1 : Onward(s, R[depth])
  BY <1>3, <1>4, <1>5, LevelsForm
<1>7. \A depth \in 0 .. MaxDepth + 1 : R[depth] = ReadLevel(s, depth, R[depth + 1])
  BY <1>2, <1>3, ReadingAt
<1>8. ASSUME NEW depth \in 0 .. N, NEW x, IsPartRead(s, R[depth], x)
      PROVE  depth <= MaxDepth /\ IsShaped(s, R[depth + 1], x)
  <2>1. PICK q \in 0 .. Len(s) : IsOk(R[depth][q]) /\ R[depth][q].value = x
    BY <1>8 DEF IsPartRead
  <2>2. R[depth][q] = ItemFrom(s, q, depth, R[depth + 1])
    BY <1>7 DEF ReadLevel
  <2>3. depth <= MaxDepth /\ depth \in Nat
    <3>1. depth > MaxDepth => ItemFrom(s, q, depth, R[depth + 1]) = Fail("NestingTooDeep")
      BY DEF ItemFrom
    <3>. QED  BY <1>2, <2>1, <2>2, <3>1, Results
  <2>4. depth + 1 \in 0 .. MaxDepth + 1
    BY <1>2, <2>3
  <2>5. Onward(s, R[depth + 1])
    BY <1>6, <2>4
  <2>. QED  BY <2>1, <2>2, <2>3, <2>5, ItemShape
<1>9. LevelsOf(v)[0] = {v} /\ \A k \in 1 .. N : LevelsOf(v)[k] = UNION {Parts(x) : x \in LevelsOf(v)[k - 1]}
  BY LevelsRule
<1>10. IsPartRead(s, R[0], v)
  BY <1>1 DEF IsPartRead
<1>. HIDE DEF N, v, r
<1>. DEFINE S == {d \in 0 .. N : \A x \in LevelsOf(v)[d] : IsPartRead(s, R[d], x)}
<1>11. 0 \in S
  BY <1>2, <1>9, <1>10
<1>12. ASSUME NEW d \in 0 .. N - 1, d \in S PROVE d + 1 \in S
  <2>. DEFINE e == d + 1
  <2>1. e \in 1 .. N /\ e - 1 = d /\ d \in 0 .. N /\ e \in 0 .. N
    BY <1>2
  <2>2. ASSUME NEW x \in LevelsOf(v)[e] PROVE IsPartRead(s, R[e], x)
    <3>. HIDE DEF e
    <3>1. PICK y \in LevelsOf(v)[d] : x \in Parts(y)
      BY <1>9, <2>1, <2>2
    <3>2. IsPartRead(s, R[d], y)
      BY <1>12
    <3>3. IsShaped(s, R[e], y)
      BY <1>8, <2>1, <3>2 DEF e
    <3>4. CASE y.kind = "list"
      <4>1. PICK k \in DOMAIN y.items : x = y.items[k]
        BY <3>1, <3>4 DEF Parts
      <4>. QED  BY <3>3, <3>4, <4>1 DEF IsShaped
    <3>5. CASE y.kind = "map"
      <4>1. PICK key \in DOMAIN y.of : x = y.of[key]
        BY <3>1, <3>5 DEF Parts
      <4>. QED  BY <3>3, <3>5, <4>1 DEF IsShaped
    <3>6. CASE y.kind # "list" /\ y.kind # "map"
      BY <3>1, <3>6 DEF Parts
    <3>. QED  BY <3>4, <3>5, <3>6
  <2>. QED  BY <2>1, <2>2
<1>. HIDE DEF S
<1>13. 0 .. N \subseteq S
  BY <1>2, <1>11, <1>12, InductionUpTo
<1>14. ASSUME NEW d \in 0 .. N, NEW x \in LevelsOf(v)[d] PROVE IsTextual(x)
  <2>1. IsPartRead(s, R[d], x)
    BY <1>13 DEF S
  <2>2. IsShaped(s, R[d + 1], x)
    BY <1>8, <2>1
  <2>. QED  BY <2>2 DEF IsShaped
<1>. QED  BY <1>14 DEF TextualTo, N, v, r

\* A value is of text when it is, and what is in it.
LEMMA TextualByParts ==
  ASSUME NEW v, IsTextual(v), \A x \in Parts(v) : TextualTo(x, MaxDepth + 1)
  PROVE  TextualTo(v, MaxDepth + 1)
<1>1. MaxDepth \in Nat
  BY BaseType
<1>2. LevelsOf(v)[0] = {v}
  BY LevelsRule
<1>3. \A d \in 0 .. MaxDepth : LevelsOf(v)[d + 1] = UnderParts(v, d)
  BY LevelsUnder
<1>4. ASSUME NEW d \in 0 .. MaxDepth + 1, NEW y \in LevelsOf(v)[d] PROVE IsTextual(y)
  <2>1. CASE d = 0
    BY <1>2, <1>4, <2>1
  <2>2. CASE d # 0
    <3>. DEFINE e == d - 1
    <3>1. e \in 0 .. MaxDepth /\ d = e + 1 /\ e \in 0 .. MaxDepth + 1
      BY <1>1, <2>2
    <3>. HIDE DEF e
    <3>2. y \in UnderParts(v, e)
      BY <1>3, <1>4, <3>1
    <3>3. PICK x \in Parts(v) : y \in LevelsOf(x)[e]
      BY <3>2 DEF UnderParts
    <3>. QED  BY <3>1, <3>3 DEF TextualTo
  <2>. QED  BY <2>1, <2>2
<1>. QED  BY <1>4 DEF TextualTo

LEMMA SignedIsTextual ==
  ASSUME NEW raw \in Seq(Byte), NEW tag \in Seq(Byte), tag # HeaderKey,
         NEW payload, TextualTo(payload, MaxDepth + 1)
  PROVE  TextualTo(SigPayload(raw, tag, payload), MaxDepth + 1)
<1>. DEFINE P == SigPayload(raw, tag, payload)
<1>1. PICK of : P = Map(of) /\ IsPairOf(of, raw, tag, payload)
  BY SignedPair
<1>. HIDE DEF P
<1>2. /\ DOMAIN of = {HeaderKey, tag} /\ of = [k \in {HeaderKey, tag} |-> of[k]]
      /\ of[HeaderKey] = Bytes(raw) /\ of[tag] = payload
  BY <1>1 DEF IsPairOf
<1>3. P.kind = "map" /\ P.of = of
  BY <1>1, Kindred
<1>4. IsFiniteSet(DOMAIN of) /\ DOMAIN of \subseteq Seq(Byte)
  <2>1. IsFiniteSet({HeaderKey} \cup {tag})
    BY FS_Singleton, FS_AddElement
  <2>2. {HeaderKey} \cup {tag} = {HeaderKey, tag}
    OBVIOUS
  <2>3. HeaderKey \in Seq(Byte)
    BY TokensFit DEF IsText
  <2>. QED  BY <1>2, <2>1, <2>2, <2>3
<1>5. IsTextual(P)
  BY <1>1, <1>2, <1>3, <1>4 DEF IsTextual
<1>6. Parts(P) = {Bytes(raw), payload}
  <2>1. Parts(P) = {of[key] : key \in DOMAIN of}
    BY <1>1, PartsByKind
  <2>. QED  BY <1>2, <2>1
<1>7. TextualTo(Bytes(raw), MaxDepth + 1)
  <2>. DEFINE b == Bytes(raw)
  <2>1. b.kind = "bytes" /\ b = Bytes(b.bytes) /\ b.bytes \in Seq(Byte)
    BY Kindred
  <2>. HIDE DEF b
  <2>2. IsTextual(b) /\ Parts(b) = {}
    BY <2>1 DEF IsTextual, Parts
  <2>3. TextualTo(b, MaxDepth + 1)
    BY <2>2, TextualByParts
  <2>. QED  BY <2>3 DEF b
<1>8. TextualTo(P, MaxDepth + 1)
  BY <1>5, <1>6, <1>7, TextualByParts
<1>. QED  BY <1>8 DEF P

----------------------------------------------------------------------------
(* What an envelope says that was opened.                                  *)

\* An item is read from the form that it is written in.
IsItem(s, p, r) ==
  /\ Spans(s, p, r.pos)
  /\ Encode(r.value) = Written(Part(s, p, r.pos))

LEMMA ItemIsWritten ==
  ASSUME NEW s \in Seq(Byte), NEW p \in 0 .. Len(s), IsOk(Item(s, p, 0))
  PROVE  IsItem(s, p, Item(s, p, 0))
<1>. DEFINE v == Item(s, p, 0).value
            R == CHOOSE f : IsReading(f, s, 0)
            L == CHOOSE f : IsLevels(f, v, MaxDepth + 1)
            W == CHOOSE f : IsWriting(f, L, 0)
            r == R[0][p]
<1>1. Item(s, p, 0) = r
  BY Zenon DEF Item, IsReading, ReadLevel
<1>2. Encode(v) = W[0][v]
  BY Zenon DEF Encode, LevelsOf, IsLevels, IsWriting, WriteLevel
<1>3. MaxDepth + 1 \in Nat /\ 0 \in 0 .. MaxDepth + 1
  BY BaseType
<1>4. IsReading(R, s, 0)
  BY ReadingExists
<1>5. IsLevels(L, v, MaxDepth + 1)
  <2>. HIDE DEF v
  <2>. QED  BY <1>3, LevelsExist
<1>. HIDE DEF L
<1>6. IsWriting(W, L, 0)
  BY WritingExists
<1>. HIDE DEF R, W, v
<1>7. Faithful(s, R[0], L[0], W[0]) /\ Onward(s, R[0])
  BY <1>3, <1>4, <1>5, <1>6, LevelsForm
<1>8. v \in L[0]
  BY <1>3, <1>5, LevelsAt
<1>9. IsOk(R[0][p]) /\ R[0][p].value = v
  BY <1>1 DEF v
<1>10. Spans(s, p, R[0][p].pos)
  BY <1>7, <1>9 DEF Onward
<1>11. W[0][v] = Written(Part(s, p, R[0][p].pos))
  BY <1>7, <1>8, <1>9 DEF Faithful
<1>12. Encode(r.value) = Written(Part(s, p, r.pos))
  BY <1>2, <1>9, <1>11
<1>. HIDE DEF r
<1>. QED  BY <1>1, <1>10, <1>12 DEF IsItem, r

\* The head of a pair is read from the form that it is written in ...
IsPairAt(s, p, major, r) == Spans(s, p, r.pos) /\ EncodeHead(major, 2) = Part(s, p, r.pos)

LEMMA PairIsWritten ==
  ASSUME NEW s \in Seq(Byte), NEW p \in 0 .. Len(s), NEW major, IsOk(PairAt(s, p, major))
  PROVE  IsPairAt(s, p, major, PairAt(s, p, major))
<1>. DEFINE h == HeadAt(s, p)  l == LengthAt(s, p, major)  r == PairAt(s, p, major)
<1>1. r = Then(l, LAMBDA len, at : IF len = 2 THEN Read(len, at) ELSE Fail("Shape"))
  BY DEF PairAt
<1>2. l = Then(h, LAMBDA head, at : IF head.major # major THEN Fail("UnexpectedType") ELSE Read(head.arg, at))
  BY DEF LengthAt
<1>. HIDE DEF r, l, h
<1>3. IsOk(r)
  BY DEF r
<1>4. IsOk(l)
  BY <1>1, <1>3 DEF Then
<1>5. IsOk(h)
  BY <1>2, <1>4 DEF Then
<1>6. r = IF l.value = 2 THEN Read(l.value, l.pos) ELSE Fail("Shape")
  BY <1>1, <1>4 DEF Then
<1>7. l = IF h.value.major # major THEN Fail("UnexpectedType") ELSE Read(h.value.arg, h.pos)
  BY <1>2, <1>5 DEF Then
<1>8. r.pos = h.pos /\ h.value.major = major /\ h.value.arg = 2
  BY <1>3, <1>4, <1>6, <1>7, Results
<1>9. IsHead(s, p, h)
  BY <1>5, HeadOk DEF h
<1>10. Spans(s, p, h.pos) /\ EncodeHead(h.value.major, h.value.arg) = Part(s, p, h.pos)
  BY <1>9 DEF IsHead
<1>11. IsPairAt(s, p, major, r)
  BY <1>8, <1>10 DEF IsPairAt
<1>. QED  BY <1>11 DEF r

\* A string that is read is no longer than a head can say.
LEMMA StringFits ==
  ASSUME NEW s \in Seq(Byte), NEW p \in 0 .. Len(s), NEW major, IsOk(StringAt(s, p, major))
  PROVE  Len(StringAt(s, p, major).value) <= MaxArg
<1>. DEFINE h == HeadAt(s, p)  r == StringAt(s, p, major)
<1>1. r = Then(h, LAMBDA head, at :
            IF head.major # major THEN Fail("UnexpectedType") ELSE Take(s, at, head.arg))
  BY DEF StringAt
<1>. HIDE DEF h, r
<1>2. IsOk(r)
  BY DEF r
<1>3. IsOk(h)
  BY <1>1, <1>2 DEF Then
<1>4. r = IF h.value.major # major THEN Fail("UnexpectedType") ELSE Take(s, h.pos, h.value.arg)
  BY <1>1, <1>3 DEF Then
<1>5. r = Take(s, h.pos, h.value.arg)
  BY <1>2, <1>4, Results
<1>6. IsHead(s, p, h)
  BY <1>3, HeadOk DEF h
<1>. DEFINE q == h.pos  n == h.value.arg
<1>7. q \in 0 .. Len(s) /\ n \in Nat
  BY <1>6, SpansType DEF IsHead
<1>8. r = Take(s, q, n) /\ IsOk(Take(s, q, n))
  BY <1>2, <1>5
<1>. HIDE DEF q, n
<1>9. Spans(s, q, q + n) /\ q + n <= MaxArg /\ r = Read(Part(s, q, q + n), q + n)
  BY <1>7, <1>8, TakeOk
<1>10. q \in Nat /\ Len(Part(s, q, q + n)) = n /\ MaxArg \in Nat
  BY <1>7, <1>9, PartLen, SpansType, LargestType, BaseType DEF MaxArg
<1>11. r.value = Part(s, q, q + n)
  BY <1>9, Results
<1>12. Len(r.value) = n /\ n <= MaxArg
  BY <1>7, <1>9, <1>10, <1>11
<1>. QED  BY <1>12 DEF r

\* A text is read from the form that it is written in.
LEMMA TextIsWritten ==
  ASSUME NEW s \in Seq(Byte), NEW p \in 0 .. Len(s), IsOk(TextAt(s, p))
  PROVE  IsString(s, p, 3, TextAt(s, p)) /\ Len(TextAt(s, p).value) <= MaxArg
<1>. DEFINE r == StringAt(s, p, 3)
<1>1. IsOk(Utf8(r))
  BY DEF TextAt
<1>. HIDE DEF r
<1>2. IsOk(r) /\ Utf8(r) = r
  BY <1>1, Unchecked
<1>3. IsString(s, p, 3, r) /\ Len(r.value) <= MaxArg
  BY <1>2, StringOk, StringFits DEF r
<1>4. TextAt(s, p) = r
  BY <1>2 DEF TextAt, r
<1>. QED  BY <1>3, <1>4

\* The payload is the last thing in the bytes, and what is signed is what the
\* header asks for.
IsPayloadAt(s, from, pos, raw, header, signature, tag, kind, e) ==
  /\ IsOk(Item(s, pos, 0)) /\ Item(s, pos, 0).value = e.payload /\ Item(s, pos, 0).pos = Len(s)
  /\ e.payload.kind = "map"
  /\ e.header = header /\ e.kind = kind
  /\ IsOk(Signature(header.algorithm, signature))
  /\ e.signature = Signature(header.algorithm, signature).value
  /\ IsOk(SignedPart(s, from, Len(s), header.encoding, raw, tag, e.payload))
  /\ e.signed = SignedPart(s, from, Len(s), header.encoding, raw, tag, e.payload).value

LEMMA PayloadOpens ==
  ASSUME NEW s, NEW from, NEW pos, NEW raw, NEW header, NEW signature, NEW tag,
         NEW kind, NEW r, r = OpenPayload(s, from, pos, raw, header, signature, tag, kind), IsOk(r)
  PROVE  IsPayloadAt(s, from, pos, raw, header, signature, tag, kind, r.value)
<1>. DEFINE i == Item(s, pos, 0)  sig == Signature(header.algorithm, signature)
            part == SignedPart(s, from, i.pos, header.encoding, raw, tag, i.value)
<1>1. r = Then(i, LAMBDA payload, to :
            IF payload.kind # "map" THEN Fail("PayloadNotMap")
            ELSE IF to # Len(s) THEN Fail("TrailingBytes")
            ELSE Then(sig, LAMBDA given, p :
                 Then(SignedPart(s, from, to, header.encoding, raw, tag, payload), LAMBDA signed, q :
                   Read([header |-> header, signature |-> given, signed |-> signed, kind |-> kind,
                         payload |-> payload], to))))
  BY DEF OpenPayload
<1>2. IsOk(i)
  <2>. HIDE DEF i
  <2>. QED  BY <1>1 DEF Then
<1>3. r = IF i.value.kind # "map" THEN Fail("PayloadNotMap")
          ELSE IF i.pos # Len(s) THEN Fail("TrailingBytes")
          ELSE Then(sig, LAMBDA given, p :
               Then(part, LAMBDA signed, q :
                 Read([header |-> header, signature |-> given, signed |-> signed, kind |-> kind,
                       payload |-> i.value], i.pos)))
  <2>. HIDE DEF i, sig
  <2>. QED  BY <1>1, <1>2 DEF Then
<1>. HIDE DEF i, sig, part
<1>4. i.value.kind = "map" /\ i.pos = Len(s)
  BY <1>3, Results
<1>5. r = Then(sig, LAMBDA given, p :
            Then(part, LAMBDA signed, q :
              Read([header |-> header, signature |-> given, signed |-> signed, kind |-> kind,
                    payload |-> i.value], i.pos)))
  BY <1>3, <1>4
<1>6. IsOk(sig)
  BY <1>5 DEF Then
<1>7. r = Then(part, LAMBDA signed, q :
            Read([header |-> header, signature |-> sig.value, signed |-> signed, kind |-> kind,
                  payload |-> i.value], i.pos))
  BY <1>5, <1>6 DEF Then
<1>8. IsOk(part)
  BY <1>7 DEF Then
<1>9. r.value = [header |-> header, signature |-> sig.value, signed |-> part.value, kind |-> kind,
                 payload |-> i.value]
  BY <1>7, <1>8, Results DEF Then
<1>. DEFINE e == r.value
<1>10. /\ e.payload = i.value /\ e.header = header /\ e.kind = kind /\ e.signature = sig.value
       /\ e.signed = part.value
  BY <1>9
<1>. HIDE DEF e
<1>11. part = SignedPart(s, from, Len(s), header.encoding, raw, tag, e.payload)
  BY <1>4, <1>10 DEF part
<1>. QED  BY <1>2, <1>4, <1>6, <1>8, <1>10, <1>11 DEF IsPayloadAt, i, sig, e

\* Two parts that follow each other.
Joins(s, p, q, r) == Spans(s, p, r) /\ Part(s, p, r) = Part(s, p, q) \o Part(s, q, r)

LEMMA PartsFollow ==
  ASSUME NEW s \in Seq(Byte), NEW p, NEW q, NEW r, Spans(s, p, q), Spans(s, q, r)
  PROVE  Joins(s, p, q, r)
<1>1. Spans(s, p, r) /\ Part(s, p, q) \o Part(s, q, r) = Part(s, p, r)
  BY PartsJoin
<1>. QED  BY <1>1 DEF Joins

\* What is signed has the header under its key and the payload under its tag.
IsElementAt(s, from, pos, raw, tag) ==
  /\ raw \in Seq(Byte) /\ tag \in Seq(Byte) /\ pos \in 0 .. Len(s)
  /\ Len(raw) <= MaxArg /\ Len(tag) <= MaxArg
  /\ \A e, end : Spans(s, pos, end) /\ Part(s, pos, end) = e =>
       Spans(s, from, end) /\ Part(s, from, end) = ElementOf(raw, tag, e)

LEMMA ElementStands ==
  ASSUME NEW s \in Seq(Byte), NEW from, NEW p1, NEW p2, NEW p3, NEW p4, NEW raw \in Seq(Byte),
         NEW tag \in Seq(Byte), Len(raw) <= MaxArg, Len(tag) <= MaxArg,
         Spans(s, from, p1), EncodeHead(5, 2) = Part(s, from, p1),
         Spans(s, p1, p2), EncodeString(3, HeaderKey) = Written(Part(s, p1, p2)),
         Spans(s, p2, p3), EncodeString(2, raw) = Written(Part(s, p2, p3)),
         Spans(s, p3, p4), EncodeString(3, tag) = Written(Part(s, p3, p4))
  PROVE  IsElementAt(s, from, p4, raw, tag)
<1>1. /\ EncodeString(3, HeaderKey).value = Part(s, p1, p2)
      /\ EncodeString(2, raw).value = Part(s, p2, p3)
      /\ EncodeString(3, tag).value = Part(s, p3, p4)
  BY Results DEF Written
<1>2. p4 \in 0 .. Len(s)
  BY SpansType
<1>3. ASSUME NEW e, NEW end, Spans(s, p4, end), Part(s, p4, end) = e
      PROVE  Spans(s, from, end) /\ Part(s, from, end) = ElementOf(raw, tag, e)
  <2>1. Joins(s, p3, p4, end)
    BY <1>3, PartsFollow
  <2>2. Spans(s, p3, end)
    BY <2>1 DEF Joins
  <2>3. Joins(s, p2, p3, end)
    BY <2>2, PartsFollow
  <2>4. Spans(s, p2, end)
    BY <2>3 DEF Joins
  <2>5. Joins(s, p1, p2, end)
    BY <2>4, PartsFollow
  <2>6. Spans(s, p1, end)
    BY <2>5 DEF Joins
  <2>7. Joins(s, from, p1, end)
    BY <2>6, PartsFollow
  <2>. QED  BY <1>1, <1>3, <2>1, <2>3, <2>5, <2>7 DEF ElementOf, Joins
<1>. QED  BY <1>2, <1>3 DEF IsElementAt

\* An envelope says what stands in its second element, and the first is its
\* signature.
IsOpened(s, from, pos, signature, lenient, e, raw, tag) ==
  /\ IsElementAt(s, from, pos, raw, tag)
  /\ IsOk(DecodeHeader(raw)) /\ IsOk(KindOf(tag, lenient))
  /\ IsPayloadAt(s, from, pos, raw, DecodeHeader(raw).value, signature, tag,
                 KindOf(tag, lenient).value, e)

LEMMA SignedOpens ==
  ASSUME NEW s \in Seq(Byte), NEW from \in 0 .. Len(s), NEW signature, NEW lenient,
         NEW r, r = OpenSigned(s, from, signature, lenient), IsOk(r)
  PROVE  \E pos, raw, tag : IsOpened(s, from, pos, signature, lenient, r.value, raw, tag)
<1>. DEFINE a == PairAt(s, from, 5)
<1>1. r = Then(a, LAMBDA two, at :
        Then(TextAt(s, at), LAMBDA key, afterKey :
          IF key # HeaderKey THEN Fail("Shape")
          ELSE Then(StringAt(s, afterKey, 2), LAMBDA raw, afterHeader :
               Then(DecodeHeader(raw), LAMBDA header, p :
               Then(TextAt(s, afterHeader), LAMBDA tag, afterTag :
               Then(KindOf(tag, lenient), LAMBDA kind, q :
                 OpenPayload(s, from, afterTag, raw, header, signature, tag, kind)))))))
  BY DEF OpenSigned
<1>2. IsOk(a)
  <2>. HIDE DEF a
  <2>. QED  BY <1>1 DEF Then
<1>19. IsPairAt(s, from, 5, a)
  BY <1>2, PairIsWritten
<1>3. a.pos \in 0 .. Len(s)
  BY <1>19, SpansType DEF IsPairAt
<1>. DEFINE b == TextAt(s, a.pos)
<1>4. r = Then(b, LAMBDA key, afterKey :
          IF key # HeaderKey THEN Fail("Shape")
          ELSE Then(StringAt(s, afterKey, 2), LAMBDA raw, afterHeader :
               Then(DecodeHeader(raw), LAMBDA header, p :
               Then(TextAt(s, afterHeader), LAMBDA tag, afterTag :
               Then(KindOf(tag, lenient), LAMBDA kind, q :
                 OpenPayload(s, from, afterTag, raw, header, signature, tag, kind))))))
  <2>. HIDE DEF a
  <2>. QED  BY <1>1, <1>2 DEF Then
<1>. HIDE DEF a
<1>5. IsOk(b)
  <2>. HIDE DEF b
  <2>. QED  BY <1>4 DEF Then
<1>20. IsString(s, a.pos, 3, b)
  BY <1>3, <1>5, TextIsWritten
<1>6. b.pos \in 0 .. Len(s)
  BY <1>20, SpansType DEF IsString
<1>. DEFINE c == StringAt(s, b.pos, 2)
<1>7. r = IF b.value # HeaderKey THEN Fail("Shape")
          ELSE Then(c, LAMBDA raw, afterHeader :
               Then(DecodeHeader(raw), LAMBDA header, p :
               Then(TextAt(s, afterHeader), LAMBDA tag, afterTag :
               Then(KindOf(tag, lenient), LAMBDA kind, q :
                 OpenPayload(s, from, afterTag, raw, header, signature, tag, kind)))))
  <2>. HIDE DEF b
  <2>. QED  BY <1>4, <1>5 DEF Then
<1>. HIDE DEF b
<1>25. b.value = HeaderKey
  <2>1. b.value # HeaderKey => r = Fail("Shape")
    BY <1>7
  <2>. QED  BY <2>1, Results
<1>8. r = Then(c, LAMBDA raw, afterHeader :
               Then(DecodeHeader(raw), LAMBDA header, p :
               Then(TextAt(s, afterHeader), LAMBDA tag, afterTag :
               Then(KindOf(tag, lenient), LAMBDA kind, q :
                 OpenPayload(s, from, afterTag, raw, header, signature, tag, kind)))))
  <2>. HIDE DEF c
  <2>. QED  BY <1>7, <1>25
<1>9. IsOk(c)
  <2>. HIDE DEF c
  <2>. QED  BY <1>8 DEF Then
<1>21. IsString(s, b.pos, 2, c) /\ Len(c.value) <= MaxArg
  BY <1>6, <1>9, StringOk, StringFits
<1>10. c.pos \in 0 .. Len(s)
  BY <1>21, SpansType DEF IsString
<1>. DEFINE d == DecodeHeader(c.value)
<1>11. r = Then(d, LAMBDA header, p :
               Then(TextAt(s, c.pos), LAMBDA tag, afterTag :
               Then(KindOf(tag, lenient), LAMBDA kind, q :
                 OpenPayload(s, from, afterTag, c.value, header, signature, tag, kind))))
  <2>. HIDE DEF c
  <2>. QED  BY <1>8, <1>9 DEF Then
<1>. HIDE DEF c
<1>12. IsOk(d)
  <2>. HIDE DEF d
  <2>. QED  BY <1>11 DEF Then
<1>. DEFINE e == TextAt(s, c.pos)
<1>13. r = Then(e, LAMBDA tag, afterTag :
               Then(KindOf(tag, lenient), LAMBDA kind, q :
                 OpenPayload(s, from, afterTag, c.value, d.value, signature, tag, kind)))
  <2>. HIDE DEF d
  <2>. QED  BY <1>11, <1>12 DEF Then
<1>. HIDE DEF d
<1>14. IsOk(e)
  <2>. HIDE DEF e
  <2>. QED  BY <1>13 DEF Then
<1>22. IsString(s, c.pos, 3, e) /\ Len(e.value) <= MaxArg
  BY <1>10, <1>14, TextIsWritten
<1>15. e.pos \in 0 .. Len(s)
  BY <1>22, SpansType DEF IsString
<1>. DEFINE f == KindOf(e.value, lenient)
<1>16. r = Then(f, LAMBDA kind, q :
                 OpenPayload(s, from, e.pos, c.value, d.value, signature, e.value, kind))
  <2>. HIDE DEF e
  <2>. QED  BY <1>13, <1>14 DEF Then
<1>. HIDE DEF e, f
<1>17. IsOk(f)
  BY <1>16 DEF Then
<1>18. r = OpenPayload(s, from, e.pos, c.value, d.value, signature, e.value, f.value)
  BY <1>16, <1>17 DEF Then
<1>23. IsPayloadAt(s, from, e.pos, c.value, d.value, signature, e.value, f.value, r.value)
  BY <1>18, PayloadOpens
<1>24. IsElementAt(s, from, e.pos, c.value, e.value)
  <2>1. c.value \in Seq(Byte) /\ e.value \in Seq(Byte)
    BY <1>21, <1>22 DEF IsString
  <2>2. /\ Spans(s, from, a.pos) /\ EncodeHead(5, 2) = Part(s, from, a.pos)
        /\ Spans(s, a.pos, b.pos) /\ EncodeString(3, HeaderKey) = Written(Part(s, a.pos, b.pos))
        /\ Spans(s, b.pos, c.pos) /\ EncodeString(2, c.value) = Written(Part(s, b.pos, c.pos))
        /\ Spans(s, c.pos, e.pos) /\ EncodeString(3, e.value) = Written(Part(s, c.pos, e.pos))
    BY <1>19, <1>20, <1>21, <1>22, <1>25 DEF IsPairAt, IsString
  <2>. QED  BY <1>21, <1>22, <2>1, <2>2, ElementStands
<1>26. IsOpened(s, from, e.pos, signature, lenient, r.value, c.value, e.value)
  BY <1>12, <1>17, <1>23, <1>24 DEF IsOpened, d, f
<1>. QED  BY <1>26

LEMMA ConcatAssociative ==
  ASSUME NEW S, NEW a \in Seq(S), NEW b \in Seq(S), NEW c \in Seq(S)
  PROVE  a \o (b \o c) = (a \o b) \o c
<1>. DEFINE d == b \o c  e == a \o b  x == a \o d  y == e \o c
<1>1. d \in Seq(S) /\ IsConcat(d, b, c) /\ e \in Seq(S) /\ IsConcat(e, a, b)
  BY ConcatType
<1>. HIDE DEF d, e
<1>2. x \in Seq(S) /\ IsConcat(x, a, d) /\ y \in Seq(S) /\ IsConcat(y, e, c)
  BY <1>1, ConcatType
<1>. HIDE DEF x, y
<1>3. Len(x) = Len(y) /\ Len(x) = Len(a) + Len(b) + Len(c) /\ Len(a) \in Nat /\ Len(b) \in Nat /\ Len(c) \in Nat
      /\ Len(d) = Len(b) + Len(c) /\ Len(e) = Len(a) + Len(b)
  BY <1>1, <1>2 DEF IsConcat
<1>4. ASSUME NEW k \in 1 .. Len(x) PROVE x[k] = y[k]
  <2>1. CASE k \in 1 .. Len(a)
    <3>1. k \in 1 .. Len(e)
      BY <1>3, <2>1
    <3>. QED  BY <1>1, <1>2, <2>1, <3>1 DEF IsConcat
  <2>2. CASE k \notin 1 .. Len(a)
    <3>. DEFINE j == k - Len(a)
    <3>1. j \in 1 .. Len(d) /\ k = Len(a) + j
      BY <1>3, <2>2
    <3>. HIDE DEF j
    <3>2. x[k] = d[j]
      BY <1>2, <3>1 DEF IsConcat
    <3>3. CASE j \in 1 .. Len(b)
      <4>1. k \in 1 .. Len(e)
        BY <1>3, <3>1, <3>3
      <4>2. d[j] = b[j] /\ e[k] = b[j] /\ y[k] = e[k]
        BY <1>1, <1>2, <3>1, <3>3, <4>1 DEF IsConcat
      <4>. QED  BY <3>2, <4>2
    <3>4. CASE j \notin 1 .. Len(b)
      <4>. DEFINE i == j - Len(b)
      <4>1. i \in 1 .. Len(c) /\ j = Len(b) + i /\ k = Len(e) + i
        BY <1>3, <3>1, <3>4
      <4>. HIDE DEF i
      <4>2. d[j] = c[i] /\ y[k] = c[i]
        BY <1>1, <1>2, <4>1 DEF IsConcat
      <4>. QED  BY <3>2, <4>2
    <3>. QED  BY <3>3, <3>4
  <2>. QED  BY <2>1, <2>2
<1>5. x = y
  BY <1>2, <1>3, <1>4, SameSequence
<1>. QED  BY <1>5 DEF x, y, d, e

\* The bytes of an envelope are its signature and what it says.
IsEnvelope(s, from, signature) ==
  /\ signature \in Seq(Byte) /\ Spans(s, from, Len(s))
  /\ s = Sealed(signature, Part(s, from, Len(s)))

LEMMA EnvelopeOpens ==
  ASSUME NEW s \in Seq(Byte), NEW lenient, NEW r, r = Open(s, lenient), IsOk(r)
  PROVE  \E from, signature, pos, raw, tag :
           /\ IsEnvelope(s, from, signature)
           /\ IsOpened(s, from, pos, signature, lenient, r.value, raw, tag)
<1>. DEFINE a == PairAt(s, 0, 4)
<1>1. r = Then(a, LAMBDA two, at :
            Then(StringAt(s, at, 2), LAMBDA signature, from : OpenSigned(s, from, signature, lenient)))
  BY DEF Open
<1>2. IsOk(a)
  <2>. HIDE DEF a
  <2>. QED  BY <1>1 DEF Then
<1>3. 0 \in 0 .. Len(s)
  BY BytesType
<1>4. IsPairAt(s, 0, 4, a)
  BY <1>2, <1>3, PairIsWritten
<1>5. a.pos \in 0 .. Len(s)
  BY <1>4, SpansType DEF IsPairAt
<1>. DEFINE b == StringAt(s, a.pos, 2)
<1>6. r = Then(b, LAMBDA signature, from : OpenSigned(s, from, signature, lenient))
  <2>. HIDE DEF a
  <2>. QED  BY <1>1, <1>2 DEF Then
<1>. HIDE DEF a
<1>7. IsOk(b)
  <2>. HIDE DEF b
  <2>. QED  BY <1>6 DEF Then
<1>8. IsString(s, a.pos, 2, b)
  BY <1>5, <1>7, StringOk
<1>. HIDE DEF b
<1>9. r = OpenSigned(s, b.pos, b.value, lenient)
  BY <1>6, <1>7 DEF Then
<1>10. b.pos \in 0 .. Len(s)
  BY <1>8, SpansType DEF IsString
<1>11. PICK pos, raw, tag : IsOpened(s, b.pos, pos, b.value, lenient, r.value, raw, tag)
  BY <1>9, <1>10, SignedOpens
<1>12. IsEnvelope(s, b.pos, b.value)
  <2>1. Spans(s, b.pos, Len(s))
    BY <1>3, <1>10 DEF Spans
  <2>2. /\ Spans(s, 0, a.pos) /\ EncodeHead(4, 2) = Part(s, 0, a.pos)
        /\ Spans(s, a.pos, b.pos) /\ EncodeString(2, b.value) = Written(Part(s, a.pos, b.pos))
        /\ b.value \in Seq(Byte)
    BY <1>4, <1>8 DEF IsPairAt, IsString
  <2>3. Joins(s, a.pos, b.pos, Len(s))
    BY <2>1, <2>2, PartsFollow
  <2>4. Spans(s, a.pos, Len(s))
    BY <2>3 DEF Joins
  <2>5. Joins(s, 0, a.pos, Len(s))
    BY <2>2, <2>4, PartsFollow
  <2>6. Part(s, 0, Len(s)) = s
    BY PartWhole
  <2>7. EncodeString(2, b.value).value = Part(s, a.pos, b.pos)
    BY <2>2, Results DEF Written
  <2>8. s = EncodeHead(4, 2) \o (EncodeString(2, b.value).value \o Part(s, b.pos, Len(s)))
    BY <2>2, <2>3, <2>5, <2>6, <2>7 DEF Joins
  <2>9. EncodeHead(4, 2) \in Seq(Byte) /\ EncodeString(2, b.value).value \in Seq(Byte)
        /\ Part(s, b.pos, Len(s)) \in Seq(Byte)
    BY <2>1, <2>2, <2>7, PartType
  <2>10. s = (EncodeHead(4, 2) \o EncodeString(2, b.value).value) \o Part(s, b.pos, Len(s))
    <3>. DEFINE x == EncodeHead(4, 2)  y == EncodeString(2, b.value).value  z == Part(s, b.pos, Len(s))
    <3>1. s = x \o (y \o z) /\ x \in Seq(Byte) /\ y \in Seq(Byte) /\ z \in Seq(Byte)
      BY <2>8, <2>9
    <3>. HIDE DEF x, y, z
    <3>2. x \o (y \o z) = (x \o y) \o z
      BY <3>1, ConcatAssociative
    <3>3. s = (x \o y) \o z
      BY <3>1, <3>2
    <3>. QED  BY <3>3 DEF x, y, z
  <2>. QED  BY <2>1, <2>2, <2>10 DEF IsEnvelope, Sealed
<1>. QED  BY <1>11, <1>12

----------------------------------------------------------------------------
(* The bytes of a signed element say one thing.                            *)

LEMMA StringAhead ==
  ASSUME NEW major \in 0 .. 6, NEW b \in Seq(Byte), Len(b) <= MaxArg, NEW x \in Seq(Byte),
         NEW s, s = EncodeString(major, b).value \o x, Len(s) <= MaxArg
  PROVE  /\ s \in Seq(Byte) /\ EncodeString(major, b).value \in Seq(Byte)
         /\ StringAt(s, 0, major) = Read(b, Len(EncodeString(major, b).value))
<1>. DEFINE c == EncodeString(major, b).value
<1>1. c \in Seq(Byte)
  BY StringType
<1>. HIDE DEF c
<1>2. s = c \o x
  BY DEF c
<1>3. s \in Seq(Byte) /\ IsConcat(s, c, x)
  BY <1>1, <1>2, ConcatType
<1>4. /\ Len(s) = Len(c) + Len(x) /\ Len(c) \in Nat /\ Len(x) \in Nat
      /\ \A k \in 1 .. Len(c) : s[k] = c[k]
  BY <1>3 DEF IsConcat
<1>5. 0 + Len(c) <= Len(s) /\ \A k \in 1 .. Len(c) : s[0 + k] = c[k]
  BY <1>4
<1>6. Holds(s, 0, c)
  BY <1>1, <1>3, <1>5, HoldsWhen
<1>7. StringRead(s, 0, major, b, 0 + Len(c))
  BY <1>3, <1>6, StringBack DEF c
<1>8. StringAt(s, 0, major) = Read(b, 0 + Len(c))
  BY <1>7, StringAtBack
<1>9. 0 + Len(c) = Len(c)
  BY <1>4
<1>. QED  BY <1>1, <1>3, <1>8, <1>9 DEF c

LEMMA StringsTellApart ==
  ASSUME NEW major \in 0 .. 6, NEW a \in Seq(Byte), Len(a) <= MaxArg, NEW b \in Seq(Byte),
         Len(b) <= MaxArg, NEW x \in Seq(Byte), NEW y \in Seq(Byte),
         EncodeString(major, a).value \o x = EncodeString(major, b).value \o y,
         Len(EncodeString(major, a).value \o x) <= MaxArg
  PROVE  a = b /\ x = y
<1>. DEFINE s == EncodeString(major, a).value \o x
<1>1. s = EncodeString(major, a).value \o x /\ s = EncodeString(major, b).value \o y /\ Len(s) <= MaxArg
  OBVIOUS
<1>. HIDE DEF s
<1>2. EncodeString(major, a).value \in Seq(Byte)
      /\ StringAt(s, 0, major) = Read(a, Len(EncodeString(major, a).value))
  BY <1>1, StringAhead
<1>3. StringAt(s, 0, major) = Read(b, Len(EncodeString(major, b).value))
  BY <1>1, StringAhead
<1>4. a = b
  BY <1>2, <1>3, Results
<1>. DEFINE c == EncodeString(major, a).value
<1>5. c \o x = c \o y /\ c \in Seq(Byte)
  BY <1>1, <1>2, <1>4
<1>. HIDE DEF c
<1>6. x = y
  BY <1>5, SameRest
<1>. QED  BY <1>4, <1>6

\* The parts of an element are bytes.
ElementFits(raw, tag, e) ==
  /\ raw \in Seq(Byte) /\ Len(raw) <= MaxArg /\ tag \in Seq(Byte) /\ Len(tag) <= MaxArg
  /\ e \in Seq(Byte)

LEMMA ElementType ==
  ASSUME NEW raw, NEW tag, NEW e, ElementFits(raw, tag, e)
  PROVE  /\ EncodeHead(5, 2) \in Seq(Byte) /\ EncodeString(3, HeaderKey).value \in Seq(Byte)
         /\ EncodeString(2, raw).value \in Seq(Byte) /\ EncodeString(3, tag).value \in Seq(Byte)
         /\ EncodeString(3, tag).value \o e \in Seq(Byte)
         /\ EncodeString(2, raw).value \o (EncodeString(3, tag).value \o e) \in Seq(Byte)
         /\ EncodeString(3, HeaderKey).value \o
              (EncodeString(2, raw).value \o (EncodeString(3, tag).value \o e)) \in Seq(Byte)
<1>1. 5 \in 0 .. 7 /\ 2 \in 0 .. 6 /\ 3 \in 0 .. 6 /\ 2 \in Nat /\ 2 <= MaxArg
  BY TokensFit, LargestType, BaseType DEF MaxArg
<1>2. EncodeHead(5, 2) \in Seq(Byte)
  BY <1>1, HeadType
<1>3. HeaderKey \in Seq(Byte) /\ Len(HeaderKey) <= MaxArg
  BY TokensFit DEF IsText
<1>. DEFINE h == EncodeString(3, HeaderKey).value  r == EncodeString(2, raw).value
            t == EncodeString(3, tag).value
<1>4. h \in Seq(Byte) /\ r \in Seq(Byte) /\ t \in Seq(Byte)
  BY <1>1, <1>3, StringType DEF ElementFits
<1>. HIDE DEF h, r, t
<1>5. t \o e \in Seq(Byte)
  BY <1>4, ConcatType DEF ElementFits
<1>6. r \o (t \o e) \in Seq(Byte)
  BY <1>4, <1>5, ConcatType
<1>7. h \o (r \o (t \o e)) \in Seq(Byte)
  BY <1>4, <1>6, ConcatType
<1>. QED  BY <1>2, <1>4, <1>5, <1>6, <1>7 DEF h, r, t

LEMMA ElementsTellApart ==
  ASSUME NEW raw, NEW tag, NEW e, ElementFits(raw, tag, e),
         NEW raw1, NEW tag1, NEW e1, ElementFits(raw1, tag1, e1),
         ElementOf(raw, tag, e) = ElementOf(raw1, tag1, e1), Len(ElementOf(raw, tag, e)) <= MaxArg
  PROVE  raw = raw1 /\ tag = tag1 /\ e = e1
<1>. DEFINE g == EncodeHead(5, 2)  h == EncodeString(3, HeaderKey).value
            r == EncodeString(2, raw).value  r1 == EncodeString(2, raw1).value
            t == EncodeString(3, tag).value  t1 == EncodeString(3, tag1).value
            c == t \o e  c1 == t1 \o e1  b == r \o c  b1 == r1 \o c1  a == h \o b  a1 == h \o b1
            s == g \o a
<1>1. g \in Seq(Byte) /\ h \in Seq(Byte) /\ r \in Seq(Byte) /\ t \in Seq(Byte) /\ c \in Seq(Byte)
      /\ b \in Seq(Byte) /\ a \in Seq(Byte)
  BY ElementType
<1>2. r1 \in Seq(Byte) /\ t1 \in Seq(Byte) /\ c1 \in Seq(Byte) /\ b1 \in Seq(Byte) /\ a1 \in Seq(Byte)
  BY ElementType
<1>3. s = g \o a /\ s = g \o a1 /\ Len(s) <= MaxArg
  BY DEF ElementOf
<1>4. MaxArg \in Nat /\ 2 \in 0 .. 6 /\ 3 \in 0 .. 6
  BY LargestType, BaseType DEF MaxArg
<1>. HIDE DEF s
<1>5. a = a1 /\ Len(a) <= MaxArg
  <2>. HIDE DEF a, a1, g
  <2>1. g \o a = g \o a1
    BY <1>3
  <2>2. a = a1
    BY <1>1, <1>2, <2>1, SameRest
  <2>3. IsConcat(s, g, a)
    BY <1>1, <1>3, ConcatType
  <2>. QED  BY <1>3, <1>4, <2>2, <2>3 DEF IsConcat
<1>6. b = b1 /\ Len(b) <= MaxArg
  <2>. HIDE DEF b, b1, h
  <2>1. h \o b = h \o b1
    BY <1>5
  <2>2. b = b1
    BY <1>1, <1>2, <2>1, SameRest
  <2>3. IsConcat(a, h, b)
    BY <1>1, ConcatType
  <2>. HIDE DEF a
  <2>. QED  BY <1>4, <1>5, <2>2, <2>3 DEF IsConcat
<1>7. raw = raw1 /\ c = c1 /\ Len(c) <= MaxArg
  <2>. HIDE DEF c, c1
  <2>1. r \o c = r1 \o c1 /\ Len(r \o c) <= MaxArg
    BY <1>6
  <2>2. raw = raw1 /\ c = c1
    BY <1>1, <1>2, <1>4, <2>1, StringsTellApart DEF ElementFits
  <2>3. IsConcat(b, r, c)
    BY <1>1, ConcatType
  <2>. HIDE DEF b, r
  <2>. QED  BY <1>4, <1>6, <2>2, <2>3 DEF IsConcat
<1>8. tag = tag1 /\ e = e1
  BY <1>1, <1>2, <1>4, <1>7, StringsTellApart DEF ElementFits
<1>. QED  BY <1>7, <1>8

\* A value that stands in the bytes is read, as CBOR has it.
LEMMA ItemStands ==
  ASSUME NEW v, IsValue(v), IsOk(Encode(v)), NEW s \in Seq(Byte), Len(s) <= MaxArg,
         NEW p, Holds(s, p, Encode(v).value)
  PROVE  Item(s, p, 0) = Read(Unsigned(v), p + Len(Encode(v).value))
<1>. DEFINE R == CHOOSE f : IsReading(f, s, 0)
            L == CHOOSE f : IsLevels(f, v, MaxDepth + 1)
            W == CHOOSE f : IsWriting(f, L, 0)
            P == CHOOSE f : IsPlain(f, L, 0)
            r == R[0][p]
<1>1. Item(s, p, 0) = r
  BY Zenon DEF Item, IsReading, ReadLevel
<1>2. Encode(v) = W[0][v]
  BY Zenon DEF Encode, LevelsOf, IsLevels, IsWriting, WriteLevel
<1>3. Unsigned(v) = P[0][v]
  BY Zenon DEF Unsigned, LevelsOf, IsLevels, IsPlain, PlainLevel
<1>4. LevelsOf(v) = L
  BY Zenon DEF LevelsOf, IsLevels
<1>5. MaxDepth + 1 \in Nat /\ 0 \in 0 .. MaxDepth + 1
  BY BaseType
<1>6. IsReading(R, s, 0)
  BY ReadingExists
<1>7. IsLevels(L, v, MaxDepth + 1)
  BY <1>5, LevelsExist
<1>. HIDE DEF L
<1>8. IsWriting(W, L, 0) /\ IsPlain(P, L, 0)
  BY WritingExists, PlainExists
<1>. HIDE DEF R, W, P
<1>9. \A depth \in 0 .. MaxDepth + 1 : \A x \in L[depth] : IsNode(x)
  BY <1>4 DEF IsValue
<1>10. v \in L[0]
  BY <1>5, <1>7, LevelsAt
<1>11. IsOk(W[0][v]) /\ Holds(s, p, W[0][v].value)
  BY <1>2
<1>12. LevelIsBack(s, R[0], L[0], W[0], P[0])
  BY <1>5, <1>6, <1>7, <1>8, <1>9, LevelsBack
<1>13. R[0][p] = Read(P[0][v], p + Len(W[0][v].value))
  BY <1>10, <1>11, <1>12 DEF LevelIsBack, Returned
<1>. QED  BY <1>1, <1>2, <1>3, <1>13

----------------------------------------------------------------------------
(* What an element begins with.                                            *)

\* No text of a pair begins as its bytes do.
LEMMA ElementBegins ==
  ASSUME NEW raw, NEW tag, NEW e, ElementFits(raw, tag, e)
  PROVE  /\ ElementOf(raw, tag, e) \in Seq(Byte) /\ Len(ElementOf(raw, tag, e)) > 0
         /\ ElementOf(raw, tag, e)[1] = 5 * Infos + 2
<1>. DEFINE h == EncodeHead(5, 2)
            b == EncodeString(3, HeaderKey).value
                   \o (EncodeString(2, raw).value \o (EncodeString(3, tag).value \o e))
            n == 2
<1>1. h \in Seq(Byte) /\ b \in Seq(Byte) /\ ElementOf(raw, tag, e) = h \o b
  BY ElementType DEF ElementOf
<1>2. n \in Nat /\ n <= MaxArg
  BY TokensFit
<1>3. InfoOf(0, n) = n /\ n = 2
  BY DEF InfoOf
<1>. HIDE DEF n
<1>4. PICK w : /\ IsWidth(w, n)
               /\ BigEndian(n, w) \in Seq(Byte)
               /\ \A major : EncodeHead(major, n) = << major * Infos + InfoOf(w, n) >> \o BigEndian(n, w)
  BY <1>2, HeadShape
<1>5. w = 0
  <2>1. w \in 0 .. Widths /\ (w > 0 => n > Largest(w - 1))
    BY <1>4 DEF IsWidth
  <2>2. SUFFICES ASSUME w > 0 PROVE FALSE
    BY <2>1
  <2>. DEFINE u == w - 1
  <2>3. u \in 0 .. Widths /\ n > Largest(u)
    BY <2>1, <2>2, BaseType
  <2>. HIDE DEF u
  <2>4. Largest(0) = Direct - 1 /\ Largest(u) \in Nat
    BY <2>3, LargestType
  <2>5. CASE u = 0
    BY <1>3, <2>3, <2>4, <2>5, BaseType
  <2>6. CASE u # 0
    <3>1. u \in 1 .. Widths /\ 0 \in 0 .. u - 1
      BY <2>3, <2>6, BaseType
    <3>2. Largest(0) < Largest(u)
      BY <3>1, LargestGrows
    <3>. QED  BY <1>3, <2>3, <2>4, <3>2, BaseType
  <2>. QED  BY <2>5, <2>6
<1>. DEFINE x == 5 * Infos + 2  y == BigEndian(n, w)  a == << x >>
<1>6. h = << 5 * Infos + InfoOf(w, n) >> \o y
  BY <1>3, <1>4
<1>7. h = a \o y /\ y \in Seq(Byte)
  BY <1>3, <1>4, <1>5, <1>6
<1>8. x \in Nat
  BY BaseType
<1>9. y \in Seq(Nat)
  <2>1. \A z \in Byte : z \in Nat
    BY BaseType DEF Byte
  <2>. QED  BY <1>7, <2>1, SeqIn
<1>. HIDE DEF x, y, h, b
<1>10. a \in Seq(Nat) /\ Len(a) = 1 /\ a[1] = x
  BY <1>8
<1>. HIDE DEF a
<1>11. IsConcat(h, a, y)
  BY <1>7, <1>9, <1>10, ConcatType
<1>12. Len(h) > 0 /\ h[1] = x
  BY <1>10, <1>11 DEF IsConcat
<1>13. h \o b \in Seq(Byte) /\ IsConcat(h \o b, h, b)
  BY <1>1, ConcatType
<1>. DEFINE s == h \o b
<1>14. ElementOf(raw, tag, e) = s /\ s \in Seq(Byte) /\ IsConcat(s, h, b)
  BY <1>1, <1>13
<1>. HIDE DEF s
<1>15. Len(s) > 0 /\ s[1] = x
  BY <1>12, <1>14 DEF IsConcat
<1>. QED  BY <1>14, <1>15 DEF x

\* The tags of a kind name it, and come after the key of the header.
LEMMA KindOfTag ==
  ASSUME NEW kind \in Kinds, NEW lenient
  PROVE  IsOk(KindOf(TagOf(kind), lenient)) /\ KindOf(TagOf(kind), lenient).value = kind
<1>. DEFINE tag == TagOf(kind)
            kinds == {k \in Kinds : tag = TagOf(k) \/ (lenient /\ tag = CandidateOf(k))}
<1>1. ASSUME NEW k \in Kinds, k # kind PROVE tag # TagOf(k) /\ tag # CandidateOf(k)
  <2>1. {TagOf(kind), CandidateOf(kind)} \cap {TagOf(k), CandidateOf(k)} = {}
    BY <1>1, EnvelopeAssumption
  <2>. QED  BY <2>1
<1>2. kinds = {kind}
  <2>. HIDE DEF tag
  <2>1. tag = TagOf(kind)
    BY DEF tag
  <2>. QED  BY <1>1, <2>1
<1>3. KindOf(tag, lenient) = IF kinds = {} THEN Fail("UnknownTag") ELSE Read(CHOOSE k \in kinds : TRUE, 0)
  BY Zenon DEF KindOf
<1>. HIDE DEF kinds, tag
<1>4. KindOf(tag, lenient) = Read(kind, 0)
  <2>1. (CHOOSE k \in kinds : TRUE) = kind
    BY <1>2
  <2>. QED  BY <1>2, <1>3, <2>1
<1>. QED  BY <1>4, Results DEF tag

LEMMA KnownTag ==
  ASSUME NEW tag, NEW lenient, IsOk(KindOf(tag, lenient))
  PROVE  Len(HeaderKey) < Len(tag)
<1>. DEFINE kinds == {kind \in Kinds : tag = TagOf(kind) \/ (lenient /\ tag = CandidateOf(kind))}
<1>1. KindOf(tag, lenient) = IF kinds = {} THEN Fail("UnknownTag") ELSE Read(CHOOSE kind \in kinds : TRUE, 0)
  BY Zenon DEF KindOf
<1>2. kinds # {}
  <2>. HIDE DEF kinds
  <2>. QED  BY <1>1, Results
<1>3. PICK kind \in Kinds : tag = TagOf(kind) \/ (lenient /\ tag = CandidateOf(kind))
  BY <1>2
<1>4. tag \in {TagOf(kind), CandidateOf(kind)}
  BY <1>3
<1>. QED  BY <1>4, EnvelopeAssumption

----------------------------------------------------------------------------
(* What verifies is what was signed.                                       *)

\* A token that was signed can be carried, and its key signed what its header
\* asks for.
IsMade(kind, header, w, signature, u) ==
  /\ kind \in Kinds /\ header \in Headers /\ IsNode(Bytes(signature)) /\ IsValue(w) /\ w = Map(w.of)
  /\ u = Prepare(header, kind, w) /\ IsOk(u)
  /\ Len(Sealed(signature, u.value.carried)) <= MaxArg

\* What a token's element is made of.
IsMadeElement(kind, header, w, u) ==
  /\ IsOk(Encode(w)) /\ ElementFits(EncodeHeader(header), TagOf(kind), Encode(w).value)
  /\ u.value.carried = ElementOf(EncodeHeader(header), TagOf(kind), Encode(w).value)
  /\ TextualTo(SignedMap(header, kind, w), MaxDepth + 1) /\ SignedMap(header, kind, w).kind = "map"
  /\ TagOf(kind) # HeaderKey
  /\ header.encoding = "DagCbor" => u.value.signing = u.value.carried
  /\ header.encoding # "DagCbor" =>
       /\ IsOk(EncodeJson(SignedMap(header, kind, w)))
       /\ u.value.signing = EncodeJson(SignedMap(header, kind, w)).value

LEMMA MadeElement ==
  ASSUME NEW kind, NEW header, NEW w, NEW signature, NEW u, IsMade(kind, header, w, signature, u)
  PROVE  IsMadeElement(kind, header, w, u)
<1>. DEFINE raw == EncodeHeader(header)  tag == TagOf(kind)  v == SignedMap(header, kind, w)  e == Encode(v)
<1>1. /\ kind \in Kinds /\ header \in Headers /\ IsValue(w) /\ w = Map(w.of)
      /\ u = Prepare(header, kind, w) /\ IsOk(u)
  BY DEF IsMade
<1>2. IsNode(Bytes(raw)) /\ IsText(tag) /\ Len(HeaderKey) < Len(tag)
  <2>1. tag \in Tags /\ tag \in {TagOf(kind), CandidateOf(kind)}
    BY <1>1 DEF Tags
  <2>. QED  BY <1>1, <2>1, TokensFit, EnvelopeAssumption
<1>3. /\ IsOk(e) /\ u.value.carried = e.value
      /\ header.encoding = "DagCbor" => u.value.signing = e.value
      /\ header.encoding # "DagCbor" => IsOk(EncodeJson(v)) /\ u.value.signing = EncodeJson(v).value
  BY <1>1, PreparedIs
<1>4. v = SigPayload(raw, tag, w)
  BY DEF SignedMap
<1>. HIDE DEF raw, tag, v
<1>. DEFINE of == w.of
<1>5. IsValue(Map(of)) /\ w = Map(of) /\ e = Encode(SigPayload(raw, tag, Map(of)))
  BY <1>1, <1>4
<1>. HIDE DEF of
<1>. HIDE DEF e
<1>6. /\ IsOk(Encode(Map(of))) /\ e = Written(e.value) /\ e.value \in Seq(Byte)
      /\ e.value = ElementOf(raw, tag, Encode(Map(of)).value)
  BY <1>2, <1>3, <1>5, ElementIs
<1>7. IsValue(v)
  BY <1>2, <1>4, <1>5, SigPayloadIsValue
<1>8. TextualTo(v, MaxDepth + 1)
  BY <1>7, ValueIsTextual
<1>9. tag # HeaderKey
  <2>1. HeaderKey \in Seq(Byte)
    BY TokensFit DEF IsText
  <2>2. Len(HeaderKey) \in Nat
    BY <2>1
  <2>. QED  BY <1>2, <2>2
<1>10. v.kind = "map"
  <2>1. PICK m : v = Map(m) /\ IsPairOf(m, raw, tag, w)
    BY <1>4, <1>9, SignedPair
  <2>. QED  BY <2>1, Kindred
<1>11. ElementFits(raw, tag, Encode(w).value)
  <2>1. raw \in Seq(Byte) /\ Len(raw) <= MaxArg
    BY <1>2, BytesAreValue
  <2>2. tag \in Seq(Byte) /\ Len(tag) <= MaxArg
    BY <1>2 DEF IsText
  <2>3. Encode(w).value \in Seq(Byte)
    BY <1>5, <1>6, EncodedIsWritten DEF IsWritten
  <2>. QED  BY <2>1, <2>2, <2>3 DEF ElementFits
<1>. QED  BY <1>3, <1>5, <1>6, <1>8, <1>9, <1>10, <1>11 DEF IsMadeElement, raw, tag, v

\* Two maps that are signed are the same when what is in them is.
LEMMA PairsTellApart ==
  ASSUME NEW raw, NEW tag, NEW x, NEW raw1, NEW tag1, NEW x1, tag # HeaderKey, tag1 # HeaderKey,
         SigPayload(raw, tag, x) = SigPayload(raw1, tag1, x1)
  PROVE  raw = raw1 /\ tag = tag1 /\ x = x1
<1>1. PICK of : SigPayload(raw, tag, x) = Map(of) /\ IsPairOf(of, raw, tag, x)
  BY SignedPair
<1>2. PICK of1 : SigPayload(raw1, tag1, x1) = Map(of1) /\ IsPairOf(of1, raw1, tag1, x1)
  BY SignedPair
<1>3. Map(of) = Map(of1)
  BY <1>1, <1>2
<1>4. of = of1
  BY <1>3, Kindred
<1>5. /\ DOMAIN of = {HeaderKey, tag} /\ of[HeaderKey] = Bytes(raw) /\ of[tag] = x
      /\ DOMAIN of = {HeaderKey, tag1} /\ of[HeaderKey] = Bytes(raw1) /\ of[tag1] = x1
  BY <1>1, <1>2, <1>4 DEF IsPairOf
<1>6. tag = tag1
  BY <1>5
<1>7. Bytes(raw) = Bytes(raw1)
  BY <1>5
<1>8. raw = raw1
  BY <1>7, Kindred
<1>. QED  BY <1>5, <1>6, <1>8

\* What a read element is made of.
IsReadElement(s, from, pos, lenient, e, raw, tag) ==
  /\ Spans(s, pos, Len(s)) /\ IsOk(Encode(e.payload)) /\ Encode(e.payload).value = Part(s, pos, Len(s))
  /\ ElementFits(raw, tag, Part(s, pos, Len(s)))
  /\ Spans(s, from, Len(s)) /\ Part(s, from, Len(s)) = ElementOf(raw, tag, Part(s, pos, Len(s)))
  /\ tag # HeaderKey
  /\ TextualTo(SigPayload(raw, tag, e.payload), MaxDepth + 1)
  /\ SigPayload(raw, tag, e.payload).kind = "map"

LEMMA ReadElement ==
  ASSUME NEW s \in Seq(Byte), NEW from, NEW pos, NEW signature, NEW lenient, NEW e, NEW raw, NEW tag,
         IsOpened(s, from, pos, signature, lenient, e, raw, tag)
  PROVE  IsReadElement(s, from, pos, lenient, e, raw, tag)
<1>. DEFINE i == Item(s, pos, 0)  x == Part(s, pos, Len(s))
<1>1. IsElementAt(s, from, pos, raw, tag) /\ IsOk(KindOf(tag, lenient))
  BY DEF IsOpened
<1>2. IsOk(i) /\ i.value = e.payload /\ i.pos = Len(s)
  BY DEF IsOpened, IsPayloadAt
<1>3. /\ raw \in Seq(Byte) /\ tag \in Seq(Byte) /\ pos \in 0 .. Len(s)
      /\ Len(raw) <= MaxArg /\ Len(tag) <= MaxArg
  BY <1>1 DEF IsElementAt
<1>4. IsItem(s, pos, i)
  BY <1>2, <1>3, ItemIsWritten
<1>5. Spans(s, pos, Len(s)) /\ Encode(e.payload) = Written(x)
  BY <1>2, <1>4 DEF IsItem
<1>6. IsOk(Encode(e.payload)) /\ Encode(e.payload).value = x
  <2>. HIDE DEF x
  <2>. QED  BY <1>5, Results DEF Written
<1>7. x \in Seq(Byte)
  BY <1>5, PartType
<1>8. Spans(s, from, Len(s)) /\ Part(s, from, Len(s)) = ElementOf(raw, tag, x)
  BY <1>1, <1>5 DEF IsElementAt
<1>9. tag # HeaderKey
  <2>1. Len(HeaderKey) < Len(tag) /\ Len(tag) \in Nat
    BY <1>1, <1>3, KnownTag
  <2>. QED  BY <2>1
<1>10. TextualTo(i.value, MaxDepth + 1)
  BY <1>2, <1>3, ReadIsTextual
<1>. HIDE DEF i, x
<1>11. TextualTo(e.payload, MaxDepth + 1)
  BY <1>2, <1>10
<1>. DEFINE y == e.payload
<1>12. TextualTo(SigPayload(raw, tag, y), MaxDepth + 1)
  <2>. HIDE DEF y
  <2>1. TextualTo(y, MaxDepth + 1)
    BY <1>11 DEF y
  <2>. QED  BY <1>3, <1>9, <2>1, SignedIsTextual
<1>13. SigPayload(raw, tag, y).kind = "map"
  <2>. HIDE DEF y
  <2>1. PICK m : SigPayload(raw, tag, y) = Map(m) /\ IsPairOf(m, raw, tag, y)
    BY <1>9, SignedPair
  <2>. QED  BY <2>1, Kindred
<1>14. ElementFits(raw, tag, x)
  BY <1>3, <1>7 DEF ElementFits
<1>. QED  BY <1>5, <1>6, <1>8, <1>9, <1>12, <1>13, <1>14 DEF IsReadElement, x

\* No text that is signed begins as bytes that are signed do.
LEMMA FormsTellApart ==
  ASSUME NEW v, TextualTo(v, MaxDepth + 1), v.kind = "map", IsOk(EncodeJson(v)),
         NEW raw, NEW tag, NEW e, ElementFits(raw, tag, e)
  PROVE  EncodeJson(v).value # ElementOf(raw, tag, e)
<1>1. EncodeJson(v).value[1] = OpenBrace
  BY MapOpens
<1>2. ElementOf(raw, tag, e)[1] = 5 * Infos + 2
  BY ElementBegins
<1>. QED  BY <1>1, <1>2, EnvelopeAssumption

\* What the signature of a made token covers is what was carried.
LEMMA VerifiedIsCarried ==
  ASSUME NEW kind, NEW header, NEW w, NEW mark, NEW u, IsMade(kind, header, w, mark, u),
         NEW s \in Seq(Byte), NEW from, NEW pos, NEW signature, NEW lenient, NEW e, NEW raw, NEW tag,
         IsOpened(s, from, pos, signature, lenient, e, raw, tag), e.signed = u.value.signing
  PROVE  Part(s, from, Len(s)) = u.value.carried
<1>. DEFINE raw0 == EncodeHeader(header)  tag0 == TagOf(kind)  v0 == SignedMap(header, kind, w)
            x == Part(s, pos, Len(s))  v == SigPayload(raw, tag, e.payload)
            read == DecodeHeader(raw).value  part == SignedPart(s, from, Len(s), read.encoding, raw, tag, e.payload)
            rest == Part(s, from, Len(s))  x0 == Encode(w).value
<1>1. /\ ElementFits(raw0, tag0, x0) /\ u.value.carried = ElementOf(raw0, tag0, x0)
      /\ TextualTo(v0, MaxDepth + 1) /\ v0.kind = "map" /\ tag0 # HeaderKey
      /\ header.encoding = "DagCbor" => u.value.signing = u.value.carried
      /\ header.encoding # "DagCbor" => IsOk(EncodeJson(v0)) /\ u.value.signing = EncodeJson(v0).value
  BY MadeElement DEF IsMadeElement
<1>2. /\ ElementFits(raw, tag, x) /\ rest = ElementOf(raw, tag, x) /\ tag # HeaderKey
      /\ Encode(e.payload).value = x
      /\ TextualTo(v, MaxDepth + 1) /\ v.kind = "map"
  BY ReadElement DEF IsReadElement
<1>3. IsOk(part) /\ e.signed = part.value
  BY DEF IsOpened, IsPayloadAt
<1>4. v0 = SigPayload(raw0, tag0, w)
  BY DEF SignedMap
<1>5. /\ read.encoding = "DagCbor" => part = Written(rest)
      /\ read.encoding # "DagCbor" => part = EncodeJson(v)
  <2>. HIDE DEF read
  <2>. QED  BY DEF SignedPart, Part
<1>. HIDE DEF raw0, tag0, v0, x, read, part, rest, x0
<1>6. CASE read.encoding = "DagCbor"
  <2>1. e.signed = rest
    BY <1>3, <1>5, <1>6, Results DEF Written
  <2>2. CASE header.encoding = "DagCbor"
    BY <1>1, <2>1, <2>2 DEF rest
  <2>3. CASE header.encoding # "DagCbor"
    <3>1. EncodeJson(v0).value = ElementOf(raw, tag, x) /\ IsOk(EncodeJson(v0))
      BY <1>1, <1>2, <2>1, <2>3
    <3>. QED  BY <1>1, <1>2, <3>1, FormsTellApart
  <2>. QED  BY <2>2, <2>3
<1>7. CASE read.encoding # "DagCbor"
  <2>. HIDE DEF v
  <2>1. e.signed = EncodeJson(v).value /\ IsOk(EncodeJson(v))
    BY <1>3, <1>5, <1>7
  <2>2. CASE header.encoding = "DagCbor"
    <3>1. EncodeJson(v).value = ElementOf(raw0, tag0, x0)
      BY <1>1, <2>1, <2>2
    <3>. QED  BY <1>1, <1>2, <2>1, <3>1, FormsTellApart
  <2>3. CASE header.encoding # "DagCbor"
    <3>1. IsOk(EncodeJson(v0)) /\ EncodeJson(v).value = EncodeJson(v0).value
      BY <1>1, <2>1, <2>3
    <3>2. v = v0
      BY <1>1, <1>2, <2>1, <3>1, TextsTellApart
    <3>. DEFINE y == e.payload
    <3>3. SigPayload(raw, tag, y) = SigPayload(raw0, tag0, w)
      BY <1>4, <3>2 DEF v
    <3>. HIDE DEF y
    <3>4. raw = raw0 /\ tag = tag0 /\ y = w
      BY <1>1, <1>2, <3>3, PairsTellApart
    <3>5. x = x0
      BY <1>2, <3>4 DEF x0, y
    <3>6. rest = u.value.carried
      BY <1>1, <1>2, <3>4, <3>5
    <3>. QED  BY <3>6 DEF rest
  <2>. QED  BY <2>2, <2>3
<1>. QED  BY <1>6, <1>7

\* What was carried is read as what was made.
LEMMA CarriedIsRead ==
  ASSUME NEW kind, NEW header, NEW w, NEW mark, NEW u, IsMade(kind, header, w, mark, u),
         NEW s \in Seq(Byte), Len(s) <= MaxArg, NEW from, NEW pos, NEW signature, NEW lenient,
         NEW e, NEW raw, NEW tag, IsOpened(s, from, pos, signature, lenient, e, raw, tag),
         Part(s, from, Len(s)) = u.value.carried
  PROVE  e.kind = kind /\ e.payload = Unsigned(w) /\ e.header = DecodeHeader(EncodeHeader(header)).value
<1>. DEFINE raw0 == EncodeHeader(header)  tag0 == TagOf(kind)
            x == Part(s, pos, Len(s))  rest == Part(s, from, Len(s))  x0 == Encode(w).value
<1>1. /\ ElementFits(raw0, tag0, x0) /\ u.value.carried = ElementOf(raw0, tag0, x0) /\ IsOk(Encode(w))
  BY MadeElement DEF IsMadeElement
<1>2. /\ ElementFits(raw, tag, x) /\ rest = ElementOf(raw, tag, x) /\ Spans(s, pos, Len(s))
      /\ Spans(s, from, Len(s))
  BY ReadElement DEF IsReadElement
<1>3. Len(rest) <= MaxArg
  <2>1. Len(rest) = Len(s) - from /\ from \in Nat /\ Len(s) \in Nat /\ MaxArg \in Nat
    BY <1>2, PartType, SpansType, LargestType, BaseType DEF MaxArg
  <2>. QED  BY <2>1
<1>4. Item(s, pos, 0).value = e.payload /\ e.kind = KindOf(tag, lenient).value
      /\ e.header = DecodeHeader(raw).value
  BY DEF IsOpened, IsPayloadAt
<1>5. Len(x) = Len(s) - pos /\ pos \in Nat /\ Len(s) \in Nat
  BY <1>2, PartType, SpansType
<1>6. kind \in Kinds /\ IsValue(w)
  BY DEF IsMade
<1>. HIDE DEF raw0, tag0, rest, x0, x
<1>7. raw = raw0 /\ tag = tag0 /\ x = x0
  <2>1. ElementOf(raw, tag, x) = ElementOf(raw0, tag0, x0) /\ Len(ElementOf(raw, tag, x)) <= MaxArg
    BY <1>1, <1>2, <1>3 DEF rest
  <2>. QED  BY <1>1, <1>2, <2>1, ElementsTellApart
<1>8. Holds(s, pos, x0)
  <2>1. pos + Len(x) = Len(s)
    BY <1>5
  <2>. QED  BY <1>2, <1>7, <2>1 DEF Holds, x
<1>9. Item(s, pos, 0) = Read(Unsigned(w), pos + Len(x0))
  BY <1>1, <1>6, <1>8, ItemStands DEF x0
<1>10. e.payload = Unsigned(w)
  BY <1>4, <1>9, Results
<1>11. e.kind = kind
  BY <1>4, <1>6, <1>7, KindOfTag DEF tag0
<1>. QED  BY <1>4, <1>7, <1>10, <1>11 DEF raw0

----------------------------------------------------------------------------
(* What a value becomes that is carried.                                   *)

\* A value becomes what is made of its parts, and those that have none stay.
IsUnsignedFrom(v, plain) ==
  /\ Unsigned(v) = UnsignedItem(v, plain)
  /\ \A x \in Parts(v) : \E more : plain[x] = UnsignedItem(x, more) \/ plain[x] = x

LEMMA UnsignedFromParts ==
  ASSUME NEW v
  PROVE  \E plain : IsUnsignedFrom(v, plain)
<1>. DEFINE L == LevelsOf(v)  P == CHOOSE f : IsPlain(f, L, 0)
<1>1. Unsigned(v) = P[0][v]
  BY Zenon DEF Unsigned, LevelsOf, IsLevels, IsPlain, PlainLevel
<1>2. IsPlain(P, L, 0)
  BY PlainExists
<1>3. /\ MaxDepth \in Nat /\ 0 \in 0 .. MaxDepth + 1 /\ 1 \in 0 .. MaxDepth + 1 /\ 0 + 1 = 1
      /\ 1 - 1 = 0 /\ 1 \in 1 .. MaxDepth + 1 /\ ~(0 > MaxDepth) /\ 0 \in Nat
  BY BaseType
<1>4. v \in L[0] /\ L[1] = UNION {Parts(x) : x \in L[0]}
  BY <1>3, LevelsRule
<1>. HIDE DEF P, L
<1>5. \A depth \in 0 .. MaxDepth + 1 : P[depth] = PlainLevel(L[depth], depth, P[depth + 1])
  BY <1>2, <1>3, PlainAt
<1>6. P[0] = PlainLevel(L[0], 0, P[1])
  BY <1>3, <1>5
<1>7. P[0][v] = UnsignedItem(v, P[1])
  BY <1>3, <1>4, <1>6 DEF PlainLevel
<1>8. ASSUME NEW x \in Parts(v)
      PROVE  \E more : P[1][x] = UnsignedItem(x, more) \/ P[1][x] = x
  <2>1. x \in L[1]
    BY <1>4
  <2>2. P[1] = PlainLevel(L[1], 1, P[1 + 1])
    BY <1>3, <1>5
  <2>3. P[1][x] = IF 1 > MaxDepth THEN x ELSE UnsignedItem(x, P[1 + 1])
    BY <2>1, <2>2 DEF PlainLevel
  <2>. QED  BY <2>3
<1>. DEFINE plain == P[1]
<1>9. IsUnsignedFrom(v, plain)
  BY <1>1, <1>7, <1>8 DEF IsUnsignedFrom
<1>. QED  BY <1>9

\* What has no parts stays as it is, a list of links too.
LEMMA UnsignedLeaves ==
  /\ \A n : Unsigned(Simple(n)) = Simple(n)
  /\ \A n : Unsigned(Integer(n)) = Integer(n)
  /\ \A b : Unsigned(Bytes(b)) = Bytes(b)
  /\ \A b : Unsigned(Text(b)) = Text(b)
  /\ \A c : Unsigned(Link(c)) = Link(c)
<1>1. \A v : \E plain : Unsigned(v) = UnsignedItem(v, plain)
  BY UnsignedFromParts DEF IsUnsignedFrom
<1>2. \A n : Unsigned(Simple(n)) = Simple(n)
  BY <1>1, UnsignedByKind
<1>3. \A n : Unsigned(Integer(n)) = Integer(n)
  BY <1>1, UnsignedByKind
<1>4. \A b : Unsigned(Bytes(b)) = Bytes(b)
  BY <1>1, UnsignedByKind
<1>5. \A b : Unsigned(Text(b)) = Text(b)
  BY <1>1, UnsignedByKind
<1>6. \A c : Unsigned(Link(c)) = Link(c)
  BY <1>1, UnsignedByKind
<1>. QED  BY <1>2, <1>3, <1>4, <1>5, <1>6

LEMMA UnsignedLinks ==
  ASSUME NEW links
  PROVE  LET list == List([k \in DOMAIN links |-> Link(links[k])])
         IN  Unsigned(list) = list
<1>. DEFINE f == [k \in DOMAIN links |-> Link(links[k])]  list == List(f)
<1>1. PICK plain : IsUnsignedFrom(list, plain)
  <2>. HIDE DEF list
  <2>. QED  BY UnsignedFromParts
<1>2. Unsigned(list) = List([k \in DOMAIN f |-> plain[f[k]]])
  <2>. HIDE DEF f
  <2>1. Unsigned(list) = UnsignedItem(list, plain)
    BY <1>1 DEF IsUnsignedFrom
  <2>. QED  BY <2>1, UnsignedByKind
<1>3. ASSUME NEW k \in DOMAIN f PROVE plain[f[k]] = f[k]
  <2>1. f[k] = Link(links[k])
    OBVIOUS
  <2>. HIDE DEF f
  <2>2. Parts(list) = {f[j] : j \in DOMAIN f}
    BY PartsByKind
  <2>3. f[k] \in Parts(list)
    BY <2>2
  <2>. DEFINE x == f[k]
  <2>4. PICK more : plain[x] = UnsignedItem(x, more) \/ plain[x] = x
    BY <1>1, <2>3 DEF IsUnsignedFrom
  <2>5. UnsignedItem(Link(links[k]), more) = Link(links[k])
    BY UnsignedByKind
  <2>. QED  BY <2>1, <2>4, <2>5
<1>4. [k \in DOMAIN f |-> plain[f[k]]] = [k \in DOMAIN f |-> f[k]]
  <2>. HIDE DEF f
  <2>. QED  BY <1>3
<1>5. [k \in DOMAIN f |-> f[k]] = f
  OBVIOUS
<1>. HIDE DEF f
<1>. QED  BY <1>2, <1>4, <1>5 DEF f

\* A map becomes a map of what is in it.
IsUnsignedMap(of, after) ==
  /\ Unsigned(Map(of)) = Map(after) /\ DOMAIN after = DOMAIN of
  /\ after = [key \in DOMAIN of |-> after[key]]

LEMMA UnsignedMap ==
  ASSUME NEW of
  PROVE  \E after : IsUnsignedMap(of, after)
<1>1. PICK plain : IsUnsignedFrom(Map(of), plain)
  BY UnsignedFromParts
<1>. DEFINE after == [key \in DOMAIN of |-> plain[of[key]]]
<1>2. Unsigned(Map(of)) = Map(after)
  BY <1>1, UnsignedByKind DEF IsUnsignedFrom
<1>3. DOMAIN after = DOMAIN of /\ after = [key \in DOMAIN of |-> after[key]]
  OBVIOUS
<1>. HIDE DEF after
<1>. QED  BY <1>2, <1>3 DEF IsUnsignedMap

LEMMA UnsignedNoFacts == Unsigned(Map(NoFacts)).of = NoFacts
<1>1. PICK after : IsUnsignedMap(NoFacts, after)
  BY UnsignedMap
<1>2. Unsigned(Map(NoFacts)).of = after
  BY <1>1, Kindred DEF IsUnsignedMap
<1>3. DOMAIN NoFacts = {} /\ NoFacts = [key \in {} |-> NoFacts[key]]
  BY DEF NoFacts
<1>4. DOMAIN after = {} /\ after = [key \in {} |-> after[key]]
  BY <1>1, <1>3 DEF IsUnsignedMap
<1>5. [key \in {} |-> after[key]] = [key \in {} |-> NoFacts[key]]
  OBVIOUS
<1>. QED  BY <1>2, <1>3, <1>4, <1>5

\* Each entry becomes what it would by itself.
LEMMA UnsignedEntries ==
  ASSUME NEW of, IsValue(Map(of)), IsOk(Encode(Map(of)))
  PROVE  /\ Unsigned(Map(of)) = Map(Unsigned(Map(of)).of) /\ DOMAIN Unsigned(Map(of)).of = DOMAIN of
         /\ \A key \in DOMAIN of : Unsigned(Map(of)).of[key] = Unsigned(of[key])
<1>. DEFINE v == Map(of)
<1>1. PICK write, plain : IsEncodedFrom(v, write, plain)
  <2>1. IsValue(v) /\ IsOk(Encode(v))
    OBVIOUS
  <2>. HIDE DEF v
  <2>. QED  BY <2>1, EncodedFromParts
<1>2. Parts(v) = {of[key] : key \in DOMAIN of}
  BY PartsByKind
<1>. DEFINE after == [key \in DOMAIN of |-> plain[of[key]]]
<1>3. Unsigned(v) = Map(after)
  BY <1>1, UnsignedByKind DEF IsEncodedFrom
<1>4. ASSUME NEW key \in DOMAIN of PROVE after[key] = Unsigned(of[key])
  <2>1. of[key] \in Parts(v)
    BY <1>2
  <2>. HIDE DEF v
  <2>2. plain[of[key]] = Unsigned(of[key])
    BY <1>1, <2>1 DEF IsEncodedFrom
  <2>. QED  BY <2>2
<1>5. DOMAIN after = DOMAIN of
  OBVIOUS
<1>. HIDE DEF after, v
<1>6. Unsigned(v).of = after
  BY <1>3, Kindred
<1>. QED  BY <1>3, <1>4, <1>5, <1>6 DEF v

\* A field of a payload as its token is read.
FieldAfter(name, held) ==
  IF name \in {"args", "meta"} THEN Unsigned(Map(held)).of
  ELSE IF name = "pol" THEN Unsigned(held) ELSE held

LEMMA LinksBack ==
  ASSUME NEW held \in Seq(Cids)
  PROVE  Held("prf", Unsigned(List([k \in DOMAIN held |-> Link(held[k])]))) = held
<1>. DEFINE f == [k \in DOMAIN held |-> Link(held[k])]  list == List(f)
<1>1. Unsigned(list) = list
  BY UnsignedLinks
<1>2. list.items = f /\ list # NullValue
  <2>. HIDE DEF f
  <2>. QED  BY Kindred DEF NullValue
<1>3. Held("prf", list) = [k \in DOMAIN f |-> f[k].bytes]
  <2>. HIDE DEF list
  <2>. QED  BY <1>2 DEF Held
<1>4. DOMAIN f = DOMAIN held /\ \A k \in DOMAIN held : f[k].bytes = held[k]
  BY Kindred
<1>. HIDE DEF f
<1>5. [k \in DOMAIN f |-> f[k].bytes] = [k \in DOMAIN held |-> held[k]]
  BY <1>4
<1>6. [k \in DOMAIN held |-> held[k]] = held
  OBVIOUS
<1>. QED  BY <1>1, <1>3, <1>5, <1>6 DEF f

\* What a field holds is what is read of it, without its signs.
LEMMA FieldBack ==
  ASSUME NEW kind \in Kinds, NEW name \in FieldNames, NEW held, name = "prf" => held \in Seq(Cids),
         held # None, NEW value, value = Unsigned(ValueOfField(name, held)),
         ValueError(kind, name, value) = "Ok"
  PROVE  Held(name, value) = FieldAfter(name, held)
<1>1. ASSUME name \in {"iss", "aud", "sub", "cmd"} PROVE Held(name, value) = FieldAfter(name, held)
  <2>1. ValueOfField(name, held) = Text(held)
    BY <1>1 DEF ValueOfField
  <2>2. value = Text(held)
    BY <2>1, UnsignedLeaves
  <2>3. value # NullValue /\ value.bytes = held
    BY <2>2, Kindred DEF NullValue
  <2>4. Held(name, value) = value.bytes
    BY <1>1, <2>3 DEF Held
  <2>. QED  BY <1>1, <2>3, <2>4 DEF FieldAfter
<1>2. ASSUME name = "nonce" PROVE Held(name, value) = FieldAfter(name, held)
  <2>1. ValueOfField(name, held) = Bytes(held)
    BY <1>2 DEF ValueOfField
  <2>2. value = Bytes(held)
    BY <2>1, UnsignedLeaves
  <2>3. value # NullValue /\ value.bytes = held
    BY <2>2, Kindred DEF NullValue
  <2>4. Held(name, value) = value.bytes
    BY <1>2, <2>3 DEF Held
  <2>. QED  BY <1>2, <2>3, <2>4 DEF FieldAfter
<1>3. ASSUME name = "cause" PROVE Held(name, value) = FieldAfter(name, held)
  <2>1. ValueOfField(name, held) = Link(held)
    BY <1>3 DEF ValueOfField
  <2>2. value = Link(held)
    BY <2>1, UnsignedLeaves
  <2>3. value # NullValue /\ value.bytes = held
    BY <2>2, Kindred DEF NullValue
  <2>4. Held(name, value) = value.bytes
    BY <1>3, <2>3 DEF Held
  <2>. QED  BY <1>3, <2>3, <2>4 DEF FieldAfter
<1>4. ASSUME name \in {"exp", "nbf", "iat"} PROVE Held(name, value) = FieldAfter(name, held)
  <2>1. ValueOfField(name, held) = Integer(held)
    BY <1>4 DEF ValueOfField
  <2>2. value = Integer(held)
    BY <2>1, UnsignedLeaves
  <2>3. value # NullValue /\ value.num = held
    BY <2>2, Kindred DEF NullValue
  <2>4. Held(name, value) = value.num
    BY <1>4, <2>3 DEF Held
  <2>. QED  BY <1>4, <2>3, <2>4 DEF FieldAfter
<1>5. ASSUME name \in {"args", "meta"} PROVE Held(name, value) = FieldAfter(name, held)
  <2>1. ValueOfField(name, held) = Map(held)
    BY <1>5 DEF ValueOfField
  <2>2. PICK after : IsUnsignedMap(held, after)
    BY UnsignedMap
  <2>3. value = Map(after)
    BY <2>1, <2>2 DEF IsUnsignedMap
  <2>4. value # NullValue
    BY <2>3, Kindred DEF NullValue
  <2>5. Held(name, value) = value.of
    BY <1>5, <2>4 DEF Held
  <2>6. value = Unsigned(Map(held))
    BY <2>1
  <2>. QED  BY <1>5, <2>5, <2>6 DEF FieldAfter
<1>6. ASSUME name = "pol" PROVE Held(name, value) = FieldAfter(name, held)
  <2>1. ValueOfField(name, held) = held
    BY <1>6 DEF ValueOfField
  <2>2. ~(value = NullValue /\ name \in NullableIn(kind))
    BY <1>6 DEF NullableIn
  <2>3. ValueError(kind, name, value) = IF value \in Policies THEN "Ok" ELSE "Policy"
    BY <1>6, <2>2 DEF ValueError
  <2>4. value \in Policies
    BY <2>3
  <2>5. value.kind = "list"
    BY <2>4, TokensAssumption
  <2>6. value # NullValue
    BY <2>5, Kindred DEF NullValue
  <2>7. Held(name, value) = value
    BY <1>6, <2>6 DEF Held
  <2>. QED  BY <1>6, <2>1, <2>7 DEF FieldAfter
<1>7. ASSUME name = "prf" PROVE Held(name, value) = FieldAfter(name, held)
  <2>1. ValueOfField(name, held) = List([k \in DOMAIN held |-> Link(held[k])])
    BY <1>7 DEF ValueOfField
  <2>2. Held("prf", value) = held
    BY <1>7, <2>1, LinksBack
  <2>. QED  BY <1>7, <2>2 DEF FieldAfter
<1>. QED  BY <1>1, <1>2, <1>3, <1>4, <1>5, <1>6, <1>7 DEF FieldNames

\* So is what holds nothing, where nothing may be held.
LEMMA NothingBack ==
  ASSUME NEW kind \in Kinds, NEW name \in FieldNames, ValueError(kind, name, NullValue) = "Ok"
  PROVE  Held(name, NullValue) = FieldAfter(name, None)
<1>1. NullValue.kind = "simple"
  BY Kindred DEF NullValue
<1>2. name \notin {"args", "meta"}
  <2>1. SUFFICES ASSUME name \in {"args", "meta"} PROVE FALSE
    OBVIOUS
  <2>2. name \notin NullableIn(kind)
    BY <2>1 DEF NullableIn
  <2>3. KindError(NullValue, "map") = "Ok"
    BY <2>1, <2>2, ErrorByName
  <2>. QED  BY <1>1, <2>3, KindChecked
<1>3. name # "pol"
  <2>1. SUFFICES ASSUME name = "pol" PROVE FALSE
    OBVIOUS
  <2>2. name \notin NullableIn(kind)
    BY <2>1 DEF NullableIn
  <2>3. ValueError(kind, name, NullValue) = IF NullValue \in Policies THEN "Ok" ELSE "Policy"
    BY <2>1, <2>2 DEF ValueError
  <2>4. NullValue \in Policies
    BY <2>3
  <2>. QED  BY <1>1, <2>4, TokensAssumption
<1>. QED  BY <1>2, <1>3, NullKept DEF FieldAfter

\* What was made, as it was written and without its signs.
IsReadAgain(kind, p, after) ==
  /\ kind \in Kinds /\ DOMAIN p = FieldsOf(kind)
  /\ kind = "Invocation" => p.prf \in Seq(Cids)
  /\ IsValue(ToIpld(kind, p)) /\ IsOk(Encode(ToIpld(kind, p)))
  /\ after = Unsigned(ToIpld(kind, p)).of /\ TypedError(kind, after) = "Ok"

LEMMA EntryAgain ==
  ASSUME NEW kind, NEW p, NEW after, IsReadAgain(kind, p, after), NEW name \in FieldsOf(kind)
  PROVE  /\ Has(after, name) <=> ~IsOmitted(kind, name, p[name])
         /\ Has(after, name) => /\ after[Field[name]] = Unsigned(ValueOfField(name, p[name]))
                                /\ ValueError(kind, name, after[Field[name]]) = "Ok"
<1>. DEFINE w == ToIpld(kind, p)  of == w.of  names == WrittenNames(kind, p)
<1>1. /\ kind \in Kinds /\ IsValue(w) /\ IsOk(Encode(w)) /\ after = Unsigned(w).of
      /\ TypedError(kind, after) = "Ok"
  BY DEF IsReadAgain
<1>2. FieldsOf(kind) \subseteq FieldNames
  BY <1>1, FieldsByKind DEF FieldNames, Kinds
<1>3. names \subseteq FieldNames
  BY <1>2 DEF WrittenNames
<1>4. w = MapOfFields(names, p)
  BY DEF ToIpld, WrittenNames
<1>. HIDE DEF names, w
<1>5. /\ w = Map(of) /\ DOMAIN of = {Field[other] : other \in names}
      /\ \A other \in names : of[Field[other]] = ValueOfField(other, p[other])
  BY <1>3, <1>4, FieldsWritten
<1>. HIDE DEF of
<1>6. IsValue(Map(of)) /\ IsOk(Encode(Map(of))) /\ after = Unsigned(Map(of)).of
  BY <1>1, <1>5
<1>7. DOMAIN after = DOMAIN of /\ \A key \in DOMAIN of : after[key] = Unsigned(of[key])
  BY <1>6, UnsignedEntries
<1>8. Has(after, name) <=> name \in names
  <2>1. \A other \in names : Field[other] = Field[name] => other = name
    BY <1>2, <1>3, TokensAssumption
  <2>. QED  BY <1>5, <1>7, <2>1 DEF Has
<1>9. name \in names <=> ~IsOmitted(kind, name, p[name])
  BY DEF names, WrittenNames
<1>10. ASSUME Has(after, name)
       PROVE  /\ after[Field[name]] = Unsigned(ValueOfField(name, p[name]))
              /\ ValueError(kind, name, after[Field[name]]) = "Ok"
  <2>1. after[Field[name]] = Unsigned(of[Field[name]])
    BY <1>7, <1>10 DEF Has
  <2>2. of[Field[name]] = ValueOfField(name, p[name])
    BY <1>5, <1>8, <1>10
  <2>. DEFINE e == ValueError(kind, name, after[Field[name]])
  <2>3. FieldError(kind, after, name) =
          IF e # "Ok" THEN e ELSE IF IsForbidden(kind, after, name) THEN "Forbidden" ELSE "Ok"
    BY <1>10 DEF FieldError
  <2>. HIDE DEF e
  <2>4. FieldError(kind, after, name) = "Ok"
    BY <1>1, NoFieldError
  <2>5. e = "Ok"
    BY <2>3, <2>4
  <2>. QED  BY <2>1, <2>2, <2>5 DEF e
<1>. QED  BY <1>8, <1>9, <1>10

LEMMA FieldAgain ==
  ASSUME NEW kind, NEW p, NEW after, IsReadAgain(kind, p, after), NEW name \in FieldsOf(kind)
  PROVE  PayloadOf(kind, after)[name] = FieldAfter(name, p[name])
<1>. DEFINE held == p[name]  value == after[Field[name]]  got == PayloadOf(kind, after)[name]
<1>1. kind \in Kinds /\ name \in FieldNames
  BY FieldsByKind DEF IsReadAgain, FieldNames, Kinds
<1>2. got = IF Has(after, name) THEN Held(name, value) ELSE IF name = "meta" THEN NoFacts ELSE None
  BY DEF PayloadOf
<1>3. /\ Has(after, name) <=> ~IsOmitted(kind, name, held)
      /\ Has(after, name) => value = Unsigned(ValueOfField(name, held)) /\ ValueError(kind, name, value) = "Ok"
  BY EntryAgain
<1>4. name = "prf" => held \in Seq(Cids)
  <2>1. ASSUME name = "prf" PROVE kind = "Invocation"
    BY <1>1, <2>1, FieldsByKind DEF Kinds
  <2>. QED  BY <2>1 DEF IsReadAgain
<1>. HIDE DEF held, value, got
<1>5. CASE ~Has(after, name)
  <2>1. IsOmitted(kind, name, held) /\ got = IF name = "meta" THEN NoFacts ELSE None
    BY <1>2, <1>3, <1>5
  <2>2. CASE name = "meta"
    <3>1. held = NoFacts /\ got = NoFacts
      BY <2>1, <2>2 DEF IsOmitted
    <3>. QED  BY <2>2, <3>1, UnsignedNoFacts DEF FieldAfter, held, got
  <2>3. CASE name # "meta"
    <3>1. held = None /\ name \in {"nbf", "iat", "cause", "aud"} /\ got = None
      BY <2>1, <2>3 DEF IsOmitted
    <3>. QED  BY <3>1 DEF FieldAfter, held, got
  <2>. QED  BY <2>2, <2>3
<1>6. CASE Has(after, name) /\ held = None
  <2>1. ValueOfField(name, held) = NullValue
    BY <1>6 DEF ValueOfField
  <2>2. value = NullValue
    BY <1>3, <1>6, <2>1, UnsignedLeaves DEF NullValue
  <2>3. ValueError(kind, name, NullValue) = "Ok" /\ got = Held(name, NullValue)
    BY <1>2, <1>3, <1>6, <2>2
  <2>4. got = FieldAfter(name, None)
    BY <1>1, <2>3, NothingBack
  <2>. QED  BY <1>6, <2>4 DEF held, got
<1>7. CASE Has(after, name) /\ held # None
  <2>1. Held(name, value) = FieldAfter(name, held)
    BY <1>1, <1>3, <1>4, <1>7, FieldBack
  <2>. QED  BY <1>2, <1>7, <2>1 DEF held, got
<1>. QED  BY <1>5, <1>6, <1>7

\* The payload of a token that was signed is what its builder was told.
LEMMA PayloadBack ==
  ASSUME NEW kind, NEW p, NEW after, IsReadAgain(kind, p, after)
  PROVE  PayloadOf(kind, after) = UnsignedPayload(p)
<1>1. UnsignedPayload(p) = [name \in DOMAIN p |-> FieldAfter(name, p[name])]
  BY DEF UnsignedPayload, FieldAfter
<1>2. DOMAIN p = FieldsOf(kind)
  BY DEF IsReadAgain
<1>. DEFINE got == PayloadOf(kind, after)
<1>3. got = [name \in FieldsOf(kind) |-> got[name]]
  BY DEF PayloadOf
<1>4. \A name \in FieldsOf(kind) : got[name] = FieldAfter(name, p[name])
  BY FieldAgain
<1>. HIDE DEF got
<1>. QED  BY <1>1, <1>2, <1>3, <1>4 DEF got

\* The envelope of a token that is read.
IsEnvelopeRead(kind, s, lenient, token) ==
  /\ IsOk(Open(s, lenient)) /\ token.envelope = Open(s, lenient).value
  /\ token.envelope.kind = kind
  /\ TypedError(kind, token.envelope.payload.of) = "Ok"
  /\ token.payload = PayloadOf(kind, token.envelope.payload.of)

LEMMA TokenOpened ==
  ASSUME NEW kind, NEW s, NEW lenient, NEW r, r = DecodeToken(kind, s, lenient), IsOk(r)
  PROVE  IsEnvelopeRead(kind, s, lenient, r.value)
<1>. DEFINE o == Open(s, lenient)  envelope == o.value  of == envelope.payload.of
            f == FromIpld(kind, of)
<1>1. r = Then(o, LAMBDA opened, at : TokenOf(kind, opened))
  BY DEF DecodeToken
<1>2. IsOk(o)
  <2>. HIDE DEF o
  <2>. QED  BY <1>1 DEF Then
<1>3. r = TokenOf(kind, envelope)
  <2>. HIDE DEF o
  <2>. QED  BY <1>1, <1>2 DEF Then
<1>4. r = IF envelope.kind # kind THEN Fail("WrongKind")
          ELSE Then(f, LAMBDA payload, p : Read([envelope |-> envelope, payload |-> payload], 0))
  <2>. HIDE DEF o
  <2>. QED  BY <1>3 DEF TokenOf
<1>. HIDE DEF envelope, f
<1>5. envelope.kind = kind
  <2>1. envelope.kind # kind => r = Fail("WrongKind")
    BY <1>4
  <2>. QED  BY <2>1, Results
<1>6. r = Then(f, LAMBDA payload, q : Read([envelope |-> envelope, payload |-> payload], 0))
  BY <1>4, <1>5
<1>7. IsOk(f)
  BY <1>6 DEF Then
<1>8. r.value = [envelope |-> envelope, payload |-> f.value]
  BY <1>6, <1>7, Results DEF Then
<1>9. TypedError(kind, of) = "Ok" /\ f.value = PayloadOf(kind, of)
  BY <1>7, PayloadRead DEF f
<1>10. r.value.envelope = envelope /\ r.value.payload = f.value
  BY <1>8
<1>11. r.value.envelope.payload.of = of
  BY <1>10
<1>. HIDE DEF of
<1>. QED  BY <1>2, <1>5, <1>9, <1>10, <1>11 DEF IsEnvelopeRead, envelope

\* A token that is read holds the payload of its envelope.
LEMMA TokenRead ==
  ASSUME NEW kind, NEW s \in Seq(Byte), NEW lenient, NEW r, r = DecodeToken(kind, s, lenient), IsOk(r)
  PROVE  LET of == r.value.envelope.payload.of
         IN  /\ r.value.envelope.payload = Map(of) /\ IsFields(of)
             /\ TypedError(kind, of) = "Ok" /\ r.value.payload = PayloadOf(kind, of)
<1>. DEFINE o == Open(s, lenient)  e == o.value
<1>1. /\ IsOk(o) /\ r.value.envelope = e /\ TypedError(kind, e.payload.of) = "Ok"
      /\ r.value.payload = PayloadOf(kind, e.payload.of)
  BY TokenOpened DEF IsEnvelopeRead
<1>2. PICK from, signature, pos, raw, tag : IsOpened(s, from, pos, signature, lenient, e, raw, tag)
  <2>. HIDE DEF o
  <2>. QED  BY <1>1, EnvelopeOpens DEF o
<1>. DEFINE i == Item(s, pos, 0)
<1>3. pos \in 0 .. Len(s) /\ IsOk(i) /\ i.value = e.payload /\ e.payload.kind = "map"
  BY <1>2 DEF IsOpened, IsElementAt, IsPayloadAt
<1>4. i.value = Map(i.value.of) /\ IsFields(i.value.of)
  BY <1>3, MapOfFieldsRead
<1>. HIDE DEF i, o, e
<1>5. e.payload = Map(e.payload.of) /\ IsFields(e.payload.of)
  BY <1>3, <1>4
<1>. QED  BY <1>1, <1>5

\* A token that is read says all that its bytes say.
LEMMA NothingDropped ==
  ASSUME NoneIsNothing, form = "token" => bytes \in Seq(Byte)
  PROVE  NothingSignedIsDropped
<1>1. SUFFICES ASSUME form = "token", NEW kind \in Kinds, IsOk(DecodeToken(kind, bytes, TRUE))
      PROVE  LET read == DecodeToken(kind, bytes, TRUE)
                 written == ToIpld(kind, read.value.payload)
             IN  read.value.envelope.payload \in {written} \cup
                   IF kind = "Delegation" THEN {Map(Inserted(written.of, Field["meta"], Map(NoFacts)))} ELSE {}
  BY Zenon DEF NothingSignedIsDropped
<1>. DEFINE read == DecodeToken(kind, bytes, TRUE)  of == read.value.envelope.payload.of
            written == ToIpld(kind, read.value.payload)
<1>2. /\ read.value.envelope.payload = Map(of) /\ IsFields(of)
      /\ TypedError(kind, of) = "Ok" /\ read.value.payload = PayloadOf(kind, of)
  BY <1>1, TokenRead
<1>. HIDE DEF read, of
<1>3. IsWrittenBack(kind, of, written)
  BY <1>2, AllIsWritten
<1>. HIDE DEF written
<1>4. Map(of) \in {written} \cup
        IF kind = "Delegation" THEN {Map(Inserted(written.of, Field["meta"], Map(NoFacts)))} ELSE {}
  BY <1>3 DEF IsWrittenBack, WithFacts
<1>. QED  BY <1>2, <1>4 DEF read, written

\* A token that is read says all that its bytes say: its payload written again
\* is what arrived, up to the empty facts a delegation may have (delegation.rs
\* and invocation.rs, to_ipld and from_ipld, Fields::finish).
THEOREM NothingIsDropped == ASSUME NoneIsNothing PROVE Spec => []NothingSignedIsDropped
<1>1. TokenInv => NothingSignedIsDropped
  BY NothingDropped DEF TokenInv
<1>2. Spec => []TokenInv
  BY InitToken, NextToken, PTL DEF Spec
<1>. QED  BY <1>1, <1>2, PTL

----------------------------------------------------------------------------
\* What verifies has a signature that was made over what was signed, or one that
\* verifies in its place.
LEMMA VerifiedIsMade ==
  ASSUME NEW token, NEW signatures, VerifyToken(token, signatures) = "Ok"
  PROVE  \E m \in signatures :
           /\ m.message = token.envelope.signed
           /\ token.envelope.signature.bytes \in WithTwins(m.key.algorithm, m.signature)
<1>. DEFINE found == Resolve(token.payload.iss)  key == found.value
            e == EnvelopeError(token.envelope, key, signatures)
<1>1. VerifyToken(token, signatures) =
        Then(found, LAMBDA k, p : Fail(EnvelopeError(token.envelope, k, signatures))).error
  BY DEF VerifyToken
<1>2. VerifyToken(token, signatures) = IF IsOk(found) THEN Fail(e).error ELSE found.error
  <2>. HIDE DEF found
  <2>. QED  BY <1>1 DEF Then
<1>. HIDE DEF key, e, found
<1>3. Fail(e).error = e
  BY DEF Fail
<1>4. e = "Ok"
  BY <1>2, <1>3 DEF IsOk
<1>5. e = IF key.algorithm # token.envelope.header.algorithm THEN "AlgorithmMismatch"
          ELSE VerifyError(key, token.envelope.signed, token.envelope.signature, signatures)
  BY DEF e, EnvelopeError
<1>6. VerifyError(key, token.envelope.signed, token.envelope.signature, signatures) = "Ok"
  BY <1>4, <1>5
<1>7. PICK m \in signatures :
        /\ m.key = key /\ m.message = token.envelope.signed
        /\ token.envelope.signature.bytes \in WithTwins(key.algorithm, m.signature)
  BY <1>6 DEF VerifyError
<1>. QED  BY <1>7

\* A token that was made of a payload, and the token that says so.
IsMadeOfPayload(kind, header, payload, mark, u) ==
  /\ IsMade(kind, header, ToIpld(kind, payload), mark, u)
  /\ DOMAIN payload = FieldsOf(kind)
  /\ kind = "Invocation" => payload.prf \in Seq(Cids)

Covers(token, mark, u) ==
  token.envelope.signed = u.value.signing /\ token.envelope.signature.bytes = mark

IsThatToken(payload, mark, u, s, token) ==
  /\ s = Sealed(mark, u.value.carried) /\ token.payload = UnsignedPayload(payload)

\* No other token verifies under its signature.
LEMMA OnlyThatToken ==
  ASSUME NEW kind, NEW header, NEW payload, NEW mark, NEW u, IsMadeOfPayload(kind, header, payload, mark, u),
         NEW s, s \in Seq(Byte), NEW lenient, NEW other, NEW token,
         IsEnvelopeRead(other, s, lenient, token), Covers(token, mark, u)
  PROVE  other = kind /\ IsThatToken(payload, mark, u, s, token)
<1>. DEFINE r == Open(s, lenient)  e == r.value  w == ToIpld(kind, payload)
<1>0. IsMade(kind, header, w, mark, u)
  BY DEF IsMadeOfPayload
<1>1. /\ IsOk(r) /\ token.envelope = e /\ e.kind = other /\ TypedError(other, e.payload.of) = "Ok"
      /\ token.payload = PayloadOf(other, e.payload.of)
  BY DEF IsEnvelopeRead
<1>2. PICK from, signature, pos, raw, tag :
        IsEnvelope(s, from, signature) /\ IsOpened(s, from, pos, signature, lenient, e, raw, tag)
  <2>. HIDE DEF r
  <2>. QED  BY <1>1, EnvelopeOpens DEF r
<1>. HIDE DEF r, e
<1>3. e.signed = u.value.signing /\ e.signature.bytes = mark
  BY <1>1 DEF Covers
<1>. HIDE DEF w
<1>4. Part(s, from, Len(s)) = u.value.carried
  BY <1>0, <1>2, <1>3, VerifiedIsCarried
<1>5. signature = mark
  <2>. DEFINE sig == Signature(DecodeHeader(raw).value.algorithm, signature)
  <2>1. IsOk(sig) /\ e.signature = sig.value
    BY <1>2 DEF IsOpened, IsPayloadAt
  <2>2. sig = IF Len(signature) # SignatureLen[DecodeHeader(raw).value.algorithm] THEN Fail("InvalidSignature")
              ELSE Read([algorithm |-> DecodeHeader(raw).value.algorithm, bytes |-> signature], 0)
    BY DEF Signature
  <2>. HIDE DEF sig
  <2>3. sig = Read([algorithm |-> DecodeHeader(raw).value.algorithm, bytes |-> signature], 0)
    BY <2>1, <2>2, Results
  <2>4. sig.value = [algorithm |-> DecodeHeader(raw).value.algorithm, bytes |-> signature]
    BY <2>3, Results
  <2>. QED  BY <1>3, <2>1, <2>4
<1>6. s = Sealed(mark, u.value.carried)
  BY <1>2, <1>4, <1>5 DEF IsEnvelope
<1>7. Len(s) <= MaxArg
  BY <1>0, <1>6 DEF IsMade
<1>8. e.kind = kind /\ e.payload = Unsigned(w)
  BY <1>0, <1>2, <1>4, <1>7, CarriedIsRead
<1>9. IsOk(Encode(w))
  BY <1>0, MadeElement DEF IsMadeElement
<1>. DEFINE after == e.payload.of
<1>10. IsReadAgain(kind, payload, after)
  BY <1>0, <1>1, <1>8, <1>9 DEF IsReadAgain, IsMade, IsMadeOfPayload, w
<1>. HIDE DEF after
<1>11. PayloadOf(kind, after) = UnsignedPayload(payload)
  BY <1>10, PayloadBack
<1>. QED  BY <1>1, <1>6, <1>8, <1>11 DEF IsThatToken, after

----------------------------------------------------------------------------
\* A token as it was signed, by whom and what over.
IsSealedBy(order, key, encoding) ==
  LET header == [algorithm |-> key.algorithm, encoding |-> encoding]
      payload == PayloadFor(order, key)
      unsigned == PrepareToken(header, order.kind, payload)
      signature == SignatureOf[key.algorithm]
  IN  /\ IsOk(unsigned)
      /\ made = {[key |-> key, message |-> unsigned.value.signing, signature |-> signature]}
      /\ sealed = {[kind |-> order.kind, header |-> header, signature |-> signature,
                    payload |-> payload,
                    signing |-> unsigned.value.signing, carried |-> unsigned.value.carried]}

\* The only signature there is is that of the only token that was sealed.
SealInv ==
  \/ made = {} /\ sealed = {}
  \/ \E order \in Orders, key \in Keys, encoding \in Encodings : IsSealedBy(order, key, encoding)

LEMMA SignSeals ==
  ASSUME NEW order \in Orders, NEW key \in Keys, NEW encoding \in Encodings, Sign(order, key, encoding)
  PROVE  SealInv'
<1>1. IsSealedBy(order, key, encoding)'
  BY DEF Sign, IsSealedBy
<1>. QED  BY <1>1 DEF SealInv

LEMMA KeptSeals == SealInv /\ UNCHANGED << made, sealed >> => SealInv'
  BY DEF SealInv, IsSealedBy

LEMMA NextSeals == SealInv /\ [Next]_vars => SealInv'
<1>. SUFFICES ASSUME SealInv, [Next]_vars PROVE SealInv'
  OBVIOUS
<1>1. ASSUME NEW byte \in Alphabet[form], NEW k, Alter(k, byte) PROVE UNCHANGED << made, sealed >>
  BY <1>1 DEF Alter
<1>2. ASSUME NEW byte \in Alphabet[form], Arrive(byte) PROVE UNCHANGED << made, sealed >>
  BY <1>2 DEF Arrive
<1>3. ASSUME NEW order \in Orders, NEW key \in Keys, NEW encoding \in Encodings, Sign(order, key, encoding)
      PROVE  SealInv'
  BY <1>3, SignSeals
<1>4. ASSUME NEW header, NEW tag, NEW of, Reseal(header, tag, of) PROVE UNCHANGED << made, sealed >>
  BY <1>4 DEF Reseal
<1>5. ASSUME NEW header \in Headers, NEW tag \in Tags, Relabel(header, tag) PROVE UNCHANGED << made, sealed >>
  BY <1>4, <1>5 DEF Relabel
<1>6. ASSUME NEW field \in WireFields, DropField(field) PROVE UNCHANGED << made, sealed >>
  BY <1>4, <1>6 DEF DropField
<1>7. ASSUME NEW field \in WireFields, NEW value \in Rewordings, Reword(field, value)
      PROVE  UNCHANGED << made, sealed >>
  BY <1>4, <1>7 DEF Reword
<1>8. CASE UNCHANGED vars
  BY <1>8, KeptSeals DEF vars
<1>. QED  BY <1>1, <1>2, <1>3, <1>5, <1>6, <1>7, <1>8, KeptSeals DEF Next

\* A token that was sealed can be carried, and was made as a token is.
LEMMA SealedIsMade ==
  ASSUME NEW order \in Orders, NEW key \in Keys, NEW encoding \in Encodings, NEW header, NEW payload,
         NEW u, header = [algorithm |-> key.algorithm, encoding |-> encoding],
         payload = PayloadFor(order, key), u = PrepareToken(header, order.kind, payload), IsOk(u),
         NEW mark \in Taken(key)
  PROVE  IsMadeOfPayload(order.kind, header, payload, mark, u)
<1>. DEFINE w == ToIpld(order.kind, payload)
<1>1. header \in Headers /\ order.kind \in Kinds /\ IsNode(Bytes(mark))
  BY TokensFit DEF Headers
<1>2. /\ DOMAIN payload = FieldsOf(order.kind) /\ IsValue(w)
      /\ order.kind = "Invocation" => payload.prf \in Seq(Cids)
  BY TokensFit
<1>3. Len(Sealed(mark, u.value.carried)) <= MaxArg
  BY TokensFit
<1>4. w = Map(w.of)
  BY <1>1, WrittenIsMap
<1>5. u = Prepare(header, order.kind, w)
  BY DEF PrepareToken
<1>. HIDE DEF w
<1>. QED  BY <1>1, <1>2, <1>3, <1>4, <1>5 DEF IsMade, IsMadeOfPayload, w

LEMMA VerifiedIsSealed ==
  ASSUME SealInv, bytes \in Seq(Byte), NEW kind, NEW r, r = DecodeToken(kind, bytes, TRUE), IsOk(r),
         VerifyToken(r.value, made) = "Ok"
  PROVE  IsSealed(kind, r.value)
<1>. DEFINE token == r.value
<1>1. IsEnvelopeRead(kind, bytes, TRUE, token)
  BY TokenOpened
<1>. DEFINE mark == token.envelope.signature.bytes
<1>2. PICK m \in made : /\ m.message = token.envelope.signed
                        /\ mark \in WithTwins(m.key.algorithm, m.signature)
  BY VerifiedIsMade
<1>3. PICK order \in Orders, key \in Keys, encoding \in Encodings : IsSealedBy(order, key, encoding)
  BY <1>2 DEF SealInv
<1>. DEFINE header == [algorithm |-> key.algorithm, encoding |-> encoding]
            payload == PayloadFor(order, key)
            u == PrepareToken(header, order.kind, payload)
            signature == SignatureOf[key.algorithm]
            said == [kind |-> order.kind, header |-> header, signature |-> signature, payload |-> payload,
                     signing |-> u.value.signing, carried |-> u.value.carried]
<1>4. /\ IsOk(u) /\ made = {[key |-> key, message |-> u.value.signing, signature |-> signature]}
      /\ sealed = {said}
  BY <1>3 DEF IsSealedBy
<1>5. /\ said.kind = order.kind /\ said.payload = payload /\ said.carried = u.value.carried
      /\ said.signature = signature /\ said.header.algorithm = key.algorithm
  OBVIOUS
<1>. HIDE DEF token, said
<1>6. m.key = key /\ m.message = u.value.signing /\ m.signature = signature
  BY <1>2, <1>4
<1>7. mark \in WithTwins(key.algorithm, signature) /\ mark \in Taken(key)
  BY <1>2, <1>6 DEF Taken
<1>. HIDE DEF signature, mark
<1>8. IsMadeOfPayload(order.kind, header, payload, mark, u)
  <2>. HIDE DEF header, payload, u
  <2>1. header = [algorithm |-> key.algorithm, encoding |-> encoding] /\ payload = PayloadFor(order, key)
        /\ u = PrepareToken(header, order.kind, payload)
    BY DEF header, payload, u
  <2>. QED  BY <1>4, <1>7, <2>1, SealedIsMade
<1>. HIDE DEF header, payload, u
<1>9. Covers(token, mark, u)
  BY <1>2, <1>6 DEF Covers, mark
<1>10. kind = order.kind /\ IsThatToken(payload, mark, u, bytes, token)
  <2>. DEFINE k == order.kind  lenient == TRUE
  <2>1. IsMadeOfPayload(k, header, payload, mark, u) /\ IsEnvelopeRead(kind, bytes, lenient, token)
    BY <1>1, <1>8
  <2>. HIDE DEF k, lenient
  <2>2. kind = k /\ IsThatToken(payload, mark, u, bytes, token)
    BY <1>9, <2>1, OnlyThatToken
  <2>. QED  BY <2>2 DEF k
<1>11. bytes = Sealed(mark, u.value.carried) /\ token.payload = UnsignedPayload(payload)
  BY <1>10 DEF IsThatToken
<1>12. /\ said \in sealed /\ mark \in WithTwins(said.header.algorithm, said.signature)
       /\ bytes = Sealed(mark, said.carried) /\ said.kind = kind
       /\ token.payload = UnsignedPayload(said.payload)
  BY <1>4, <1>5, <1>10, <1>11, <1>7
<1>. QED  BY <1>12 DEF IsSealed, token, mark

\* A token that is read and verifies carries the element that its key signed, byte
\* for byte, and says what its builder was told; of the bytes around the element
\* only the signature can differ, and only where a backend takes another for it
\* (envelope.rs, open and verify).
THEOREM VerifiedWasSigned == Spec => []WhatVerifiesWasSigned
<1>1. TokenInv /\ SealInv => WhatVerifiesWasSigned
  <2>1. SUFFICES ASSUME TokenInv, SealInv, form = "token", NEW kind \in Kinds,
                        IsOk(DecodeToken(kind, bytes, TRUE)),
                        VerifyToken(DecodeToken(kind, bytes, TRUE).value, made) = "Ok"
                 PROVE  IsSealed(kind, DecodeToken(kind, bytes, TRUE).value)
    BY Zenon DEF WhatVerifiesWasSigned
  <2>2. bytes \in Seq(Byte)
    BY <2>1 DEF TokenInv
  <2>. QED  BY <2>1, <2>2, VerifiedIsSealed
<1>2. Init => SealInv
  BY DEF Init, SealInv
<1>3. SealInv /\ [Next]_vars => SealInv'
  BY NextSeals
<1>4. Spec => []SealInv
  BY <1>2, <1>3, PTL DEF Spec
<1>5. Spec => []TokenInv
  BY InitToken, NextToken, PTL DEF Spec
<1>. QED  BY <1>1, <1>4, <1>5, PTL
=============================================================================
